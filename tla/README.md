# Specifications of AgenticPlugin

AgenticPlugin is a set of plugins for a host system, each a Go program with an
HTTP API, a JSON configuration file, background goroutines and, for Account
Manager, a JSON-RPC channel to the host over its own stdin and stdout. There is
also a Rust port of one plugin and a development host. This directory holds TLA+
specifications of the parts where order, failure and concurrency decide whether
the program is right, TLC configurations that check small instances, and proofs
that TLAPS checks for every instance.

Abbreviations of source files used below:

| | |
|---|---|
| AM | `src/AccountManager/src/accountmanager/internal/accountmanager/http_api.go` |
| SP | `src/Sample/src/sampleplugin/http_api.go` |
| SPM | `src/Sample/src/sampleplugin/service/main.go` |
| MCPS, MCPT | `src/Sample/src/sampleplugin/mcp_server.go`, `mcp_tools.go` |
| EC | `src/EMailCheck/src/emailcheck/api/http_api.go` |
| IM, PO, SM, IN | `src/EMailCheck/src/emailcheck/mail/imap_client.go`, `pop3_client.go`, `smtp_client.go`, `incoming_client.go` |

To check everything about one module, in this directory:

    tlc -workers 2 -config VerifyLimiter.cfg MCVerifyLimiter
    tlapm VerifyLimiterProofs.tla

`PROJECT.json` lists the runs, for every property a faulty variant of the code
that breaks it, the source lines every definition models, the findings and the
hazards.

## 1. Inventory

### Account Manager (AM, 3635 lines; `service/main.go`)

State: the account and group maps and the settings, guarded by `h.mu` and kept
in a configuration file; the modification time of the file when it was last
loaded; the verification limits, in memory only; `pendingStop` and the shutdown
callback; the host address and the registration; and, global to the process,
`accountManagerStdioAuth`: the pending map and id counter under `mu`, the writer
under `writeMu`, and an atomic `enabled`.

| part | operations | interacts with |
|---|---|---|
| stdio token client (319-370, 998-1154) | introspect a token, encode a JWT; the reader goroutine | the host over stdin/stdout, with HTTP as the fallback; every authorised handler calls it |
| account and group store (1263-2367, 2834-3209) | create, update, delete, password, permissions, API keys, groups, settings, configuration; login writes back | the file, shared with the process's next life; unload clears it under running handlers |
| verify limiter (2688-2821) | check, record, clear, clear for accounts, clean up | before and after each credential check; account changes clear it |
| permissions (3318-3505) | normalise, effective permissions, workspaces, scope match | pure; read by verification and by the store |
| host authorisation, registration (438-533, 869-985, 1156-1172) | gate of administrative requests, registering the plugin | the host's HTTP API; last one to finish stores its token |
| request pipeline and lifecycle (378-404, 612-807) | dispatch, load, reload, unload, shutdown after the response | `main` waits for the server and the shutdown request |

What is hard: changes are made under `h.mu` but written to the file after it is
released, and read back by force; handlers read the store in one critical section
and change it in another; `unload` sets the maps to nil under running handlers; a
deferred `recover` swallows panics but no lock is released by it; replies of the
host come late, twice, never or out of order.

What makes it correct: an acknowledged change survives; memory and file agree
when nothing is under way; two accounts never end up sharing an id or user name;
a token is accepted only if the host accepted *that* token; no caller is left
waiting; the limiter limits.

### Sample (SP, 2348 lines; `mcp_server.go`, `mcp_tools.go`, `service/main.go`)

The template other plugins are written after. State: items, jobs, messages;
scheduled tasks with their lease (`running_token`, `running_until`), kept in the
configuration file; the set of running marks; the ticker goroutine.

| part | operations | interacts with |
|---|---|---|
| scheduled tasks (828-930, 1225-1290, 1432-1732, 1747-1957, 1978-2024) | tick, run, reserve, finish, terminate, edit, delete; load, unload | configuration file through one fixed `.tmp`; the page posts back the whole task list |
| items, jobs, messages (593-660, 795-826, 960-1068, 1398-1430) | item store, background jobs, a bounded message log | a load replaces the items by those of the configuration file; job goroutines write to the job map |
| skill cards (694-765, 2094-2177) | list, create, change, delete | one JSON file, read and written in place without a lock |
| host address (1070-1223) | injection by the host, publishing a message to it | the host's HTTP API, for eight seconds at most |
| lifecycle (158-185, 440-509; SPM) | load, reload, unload, the pending stop, shutdown, signals | `main`, which returns as soon as the listener is closed |
| MCP server and tools (MCPS, MCPT) | `initialize`, `tools/list`, `tools/call` | the same items and jobs; the pending stop is left alone |

What is hard: the configuration is copied by reference, changed in place and
written without a lock through a shared temporary file; a run may be terminated,
started again and then finish late; the mark in memory and the lease in the file
must agree. Items live in memory only and are dropped by every load; requests
read shared state in one critical section and use it in another; whichever request
finds the pending stop ends the service for all.

What makes it correct: what a request has been told is stored stays there until
something named happens to it; a token goes to the host it was injected for; an
unload ends the service.

### EMailCheck (EC, 1905 lines; `mail/*.go`, `service/main.go`)

State: the configuration with accounts and automatic checks, guarded by `h.mu` as
a value but not as what its slices point to, and kept in `config.json`; the map of
accounts made from it; the set of running checks, in memory only; the scheduler
goroutine, started by the first load.

| part | operations | interacts with |
|---|---|---|
| automatic checks (399-460, 990-1272, 1392-1486) | scheduler, manual run, save, delete | mail servers for minutes; the configuration file through one fixed `.tmp` |
| accounts, logins (349-397, 462-541, 855-988) | save, delete, login check and what it stores | the same file and slices |
| configuration, load, unload (248-347, 742-787, 1109-1117, 1305-1390) | load, reload, unload, `PUT`, write | everything above, while it is under way |
| mail clients (IM, PO, SM, IN; EC:502-645) | logins, listings, marking and replies over IMAP (three ways to authenticate), POP3, SMTP | a server that may refuse, answer late or fall silent at any line |

What is hard: a run has no lease but a bit in a map, holds a copy of its task for
as long as the mail server takes and writes it back whole; elements of shared
slices are assigned without a lock; all writers share one temporary file; unload
empties the configuration under requests that are past `ensureLoaded`.

What makes it correct: one check of a task at a time, and its mark given back; a
file that can be read after a crash; memory and file that agree; a task that is
checked once per interval and always again; an update that changes nothing else. For
a mail session: success means that the server did it, content stands under its own
id, a reply goes to all or to none, and the session ends.

### SampleR, the development host, the rest

SampleR is a Rust port of Sample. `BasePkg/cmd/plugin-dev-host` proxies to a plugin
and keeps a mock of the host's data store. `cmd/imap-probe` is a diagnostic tool.
Web pages, build scripts and vendored code are not modelled; what Sample's task
page posts back is part of the scheduler's `Edits`.

## 2. The modules

| module | what it is | status |
|---|---|---|
| `TokenCheck` | what a handler may rely on when it asks about a token | abstract specification, checked through `StdioAuth` |
| `StdioAuth` | the stdio client, its callers and its reader | model-checked, and proved in `StdioAuthProofs` |
| `SampleScheduler`, `MCSampleScheduler` | Sample's scheduled tasks and their file | model-checked, and proved in `SampleSchedulerProofs` |
| `AccountStore`, `MCAccountStore` | Account Manager's store, file and unload | model-checked, and proved in `AccountStoreProofs` but for liveness |
| `VerifyLimiter`, `MCVerifyLimiter` | the limiter of credential checks | model-checked, and proved in `VerifyLimiterProofs` |
| `EMailAutoCheck`, `MCEMailAutoCheck` | EMailCheck's automatic checks, accounts and file | model-checked, and proved in `EMailAutoCheckProofs` and `EMailConfigProofs` but for liveness |
| `MailSession`, `MCMailSession` | the sessions of one request with mail servers | model-checked, and proved in `MailSessionProofs` but for liveness |
| `SampleRuntime`, `MCSampleRuntime` | Sample's requests, jobs and lifecycle | model-checked, and proved in `SampleRuntimeProofs` but for liveness |

In every component module a goroutine is a member of a constant set with a
program counter; a critical section is one step; what the code does between two
critical sections is a step of its own. Faulty variants stand just before the
definition they vary, under a comment that calls them mutants or variants; no
specification uses them.

### StdioAuth and TokenCheck

`StdioAuth` models `accountManagerStdioAuth` (AM:71-78), both kinds of call
(AM:998-1122), the HTTP fallback (AM:1124-1154) and `readStdioAuthResponses`
(AM:339-370). A call registers a channel under a fresh id (if `enabled` still
holds under the lock), takes `writeMu`, writes, releases it, and waits on the
channel or a timer of two seconds. The reader takes the channel out of the map
under the lock and sends and closes outside it; at the end of input it disables
the client and closes what is pending. An id stands for its channel: `buf` and
`closed` are indexed by ids.

Abstracted: what a token or payload is (only the verdict counts); partial lines
(the reader skips what does not parse, like a reply to nobody); a write to a
broken descriptor 1, on which Go ends the process by SIGPIPE, so that the error
branch of the write stands for other errors. The client runs only when
`AGENTIC_STDIO_AUTH=1` (service/main.go:31-33): `Init` leaves `enabled` open.
`EncodeExtendedJWTWithStdio` has no caller in the repository but tests; it
shares ids and map with introspection, which is why it is modelled.

`TokenCheck` says: a call is answered once, with "accepted" only if the host has
accepted the token since the call began. `StdioAuth` implements it under a
refinement mapping that calls a token accepted once the host has granted *this*
call's id, or HTTP has accepted it.

### SampleScheduler

`Threads` run one operation each: a run (from `runDueScheduledTasks` or the run
endpoint), a termination, an edit. A run's thread is its token. The steps of a
run are mark, load, reserve the lease and copy the configuration (one critical
section), open `.tmp`, write, rename, reload, execute, finish (a second update of
the same form), report, release the mark by `defer`. `Tick` and `PassOver` walk
the due tasks as the ticker's loop does; `Unload`, `LoadRequest`, `Restart` and
`Advance` (the clock) run beside them.

The unsynchronised copy of the configuration is modelled as what it can read: a
set of views that grows while the array is changed in place between the unlock
and the write, any field-wise mixture of which may be written. The shared
temporary file is modelled with its states (missing, blank, broken, whole), and
an open handle follows the file it was opened on through a rename. A rename may
leave the modification time as it was. Any step of a write may fail (`Fails`): opening
the temporary file, writing it, which leaves some, all or none of the text there, or the
rename, which must fail when another writer has renamed the file already. The change
was made in memory before, and stays: the reservation's token and lease, or the end of
a run that the file still shows as running. The history `unsaved` keeps the tasks this
has happened to. A failed append to the execution log (`LogFails`) leaves the outcome
unreported. A run releases its mark in each case. Left out: torn strings, load requests
in the moment the ticker is stopping, the other fields of the configuration.

`overlap` records that two updates have been in progress at once, `lost` the runs
whose mark somebody else took. Most properties are about a service whose updates
do not overlap: with overlap, the code does lose updates, and nothing in the
repository promises otherwise (see section 6).

### AccountStore

`Threads` serve one request each; a thread is also the value it writes. A request
begins, loads the file if it is newer (`ensureLoaded`), perhaps reads the store
in a first critical section (updates, the change of one's own password, logins,
group edits), changes the store in a critical section of its own, writes the file
(a temporary file of its own, then a rename: one step), loads it by force and is
acknowledged, and consumes a pending stop when it leaves `ServeHTTP`. A write may
fail; the process may end and start again at any point (`Restart`).

A store is a partial function from keys to accounts and groups. A key is an id with
its spelling, which stands for letter case and for characters that sanitising drops;
requests may spell the id of a new account or group as they like, and all else goes
by what is found. `Normalized` is what the file keeps of a store: ids are spelled
`Plain`, what is spelled `Void`, so that sanitising leaves nothing of it, is passed
over (AM:3087, 3113), of groups with one id any survives, and of accounts that clash
in id or user name the first in the order of user names. `Find` answers by id or user
name with any match, as Go's map iteration does. `held` is `h.mu` left locked by a
recovered panic.

Left out: the encryption key, time stamps of logins, enabled and disabled
accounts, what permissions say (one field, `note`, stands for the contents),
edits of the file by hand, the Windows branch of the replacement (AM:3199-3209),
renames of groups, and the gap between reading the file and its modification time
(each writer loads by force afterwards). Histories: `book`, the configuration
last acknowledged; `overlap`; `stale`, set when a login has written back an account
renamed meanwhile; `misfit`, set when something is stored under an id that the file
cannot keep, being void or another's in another spelling, which `createAccount` and
`createGroup` do not ask (the finding `account_spelling`); `failed`, set by a failed
write. Until `misfit` the store may well hold ids in their own spelling: the file holds
them plainly, and `Plainly` says how to compare.

### VerifyLimiter

A request reads the clock and then, under the lock, cleans the map and asks
whether its key is blocked; it judges the credentials without the lock; it reads
the clock again and records the failure, or clears the key, under the lock
(AM:2465-2540, 2740-2821). Because the clock is read before the lock is taken,
times may be old and may be used out of order; `MaxLag` bounds how old in model
checking, and the proofs hold for any lag. They assume that a block outlasts a
window (`CooldownAssumption`; 15 minutes and 5, AM:35-36). `ClearForAccounts` is what creating and
updating accounts and setting passwords do for one, two or more names, as a step
of its own because it comes after the change and its save, outside every
lock. `judged` is a history of recorded failures. A key with no entry is `Fresh`,
the zero value the code reads for it. Not modelled: a user name with a `|` in it,
which `ClearForAccounts` would not find.

### EMailAutoCheck

`Threads` serve one request each, of any kind: an update or deletion of a task or
an account, a manual run, a login, a load, an unload, a `PUT` of the configuration.
`Scheduler` is the goroutine of `autoCheckLoop`: it wakes, loads, lists what is due
and runs one copy after another. Manual runs and the scheduler share the steps of
a run: mark, find the account (which loads the file), mail, update, release the
mark. All updates share theirs: copy `h.config`, change an element (perhaps seen
half done), write, rename, load by force.

A configuration is a pair of arrays, and `heap` says what an array holds, so that
copies alias as Go's slices do. An array nobody points to is collected, and its
number used again. An append makes a new array: whether it lies behind the old
elements of the old one makes no difference, because the change is followed by the
marshalling without a step between. Changing and marshalling are one step, or two
when the element is seen half assigned (`HalfEdit`): any mixture of the old and the
new fields, because nothing orders the stores of an assignment that others read
without a lock (`Halves`). How long a task waits depends on who has posted it
(`Interval`, by `NextTime`), so that a save may raise it or lower it. A file is whole, empty or torn; an
open handle follows the file it was opened on through a rename, and writing over
what another has written may tear it. A rename may leave the modification time as
it was. `Advance` moves the clock; times are relative to nothing else.

Left out: making the file from the defaults when it is missing (EC:1325-1344), so
`Init` has a file; passwords, `last_check`, keywords, contents of results and which
account a task is about (`Look` and `ResolveForRun` let any be asked for); a posted
`next_run` or `last_run`, which the page does not send (app.js:831-851), and so a
`next_run` that does not parse; a single string seen half assigned; unlocked reads of
`h.config.Defaults`; the gap between reading the file and its modification time.
That writing fills a missing next time is modelled in what is written
(`Normalized`) and not in the shared array: the load that follows replaces it.

Histories: `overlap`, two updates, or an unload and an update, have met; `clash`,
two writers have had the temporary file at once; `mixed`, a save has taken over a
last run it had not seen, or an edit half done has shown one of a task's two times new
and the other old; `failed`, a write has failed.

### MailSession

One request of `handleLoginAPI`, `handleMessagesAPI`, the marking of messages or
`handleReplyAPI`, as the sequence of sessions it takes (`Legs`): a login tests the
incoming server and then SMTP; a reply reads the original first. The behaviour is
that of the client against a server (external), joined by `queue`, the commands on
their way, and `wire`, the lines on their way back. `step` is the command the
session is at. `Send` writes it, `Read` takes a line and `Verdict` says what it
makes of the answer: in IMAP only the line with the command's tag completes it
(IM:515-543), in POP3 and SMTP whatever comes first does. `Completed` is then the
rest of the Go function, one action per function (`ListIMAP`, `MessageRefs`,
`SendSMTPReply`, ...). `Deadline` is the 60 and 75 seconds of IMAP and POP3; it
fails the command, and where the code ignores the error (`Ignored`: CAPABILITY,
UIDL, TOP, STORE of a listing, the farewells) the session goes on, with the answer
perhaps still to come.

A line stands for all lines of its kind, and an answer of several lines is a status,
one line of data and the end. Left out: lines cut in the middle, a literal without
its tail, flags, attachments, the upper limits of 100 messages (EC and IM cap the
limit, PO:91 a listing without one), accounts without a user name or password
(refused before a connection is made), TLS beyond its failing. Recipients of a
reply are already normalised, and the mail server applies the cutoff and the unread
filter of an IMAP search itself.

Histories say which of the known weaknesses (section 6) has occurred: `gaveUp`, a
session went on after a deadline; `unlisted`, UIDL failed; `worded`, a refusal had
" OK" in its text; `intruded`, an unsolicited line named a message.

### SampleRuntime

`Threads` are goroutines of the HTTP server. A request begins at some free one,
goes through the critical sections of its handler and answers (`Answer`): over HTTP
it takes the pending stop, if there is one, flushes and starts `shutdown()`; MCP
requests and streams return without looking (SP:164-173, 793). `Shutdown` is the
closing of the listener, `MainReturns` the end of the process, which does not wait
for requests under way (SPM:61-65). Jobs are goroutines of their own (`RunJob`).

The number of a request is the content it brings. Requests that change nothing
(status, hello, echo, catalogue, skills, files, tools) are one kind, `"status"`; a
`GET` of items or of the configuration does what a `delete` of an item that is not
there does; those that answer without a look at the stop are `"stream"`. `Offers`
says which kinds, and whether signals and foreign changes of the file, are
considered together; `Init` chooses one set. `GiveUpItems` stands with every event
after which the items in memory may be replaced by those of the file: a load, a
late note of an error, a change of the file (the scheduler's own writes too, which
are `FileChanges` here and `SampleScheduler` in detail), a `PUT` of the
configuration, an unload; the obligations in `held` end there, and so does that of a
request which these events overtake between its `ensureLoaded` and its store.

A write of the cards may fail before it opens the file (`OpenCardsFails`), which then
is as it was, or after it has emptied the file (`FillCardsFails`), which then holds
nothing, a part or all of the text; either way the request is answered with an error.

Left out: time stamps, values and metadata; injections without a token, which change
nothing; how the skill-card file is first made from the defaults; the HTTP answer to
the start of a job, which encodes the record outside the lock while its goroutine
may, a quarter of a second later, be writing to it; a restart, after which nothing
but the two files is left; that the write of the configuration goes through `.tmp`
(`SampleScheduler`).

Histories: `held`, `arrived` and `kept`, what has been acknowledged; `twins`, an id
given to two jobs by one reading of the clock; `clash`, two updates of the cards have
met; `cut`, a write of the cards has failed once the file was empty; `overtaken`, see
above.

## 3. The runs

All runs leave deadlock unchecked: every instance bounds the calls, threads or the
clock, so it stops when they are used up.

| run | instance | shows |
|---|---|---|
| `stdio_auth` | 1 introspector, 1 encoder, 2 calls | the reader neither blocks nor panics; nothing pending is orphaned; no wakeup is lost; an ended reader leaves nobody waiting; a token is accepted only by the reply to its own request; every call returns; `TokenCheck` is implemented, with its liveness |
| `sample_scheduler` | 1 task, 3 threads, 1 restart, clock 0..1, lease and interval 1 | a mark is always owned by a run that will release it; marks exclude; without overlap the file is whole whatever write fails, agrees with memory and keeps no lease longer than its run, but for tasks a change of which could not be written, and a run has one outcome |
| `sample_unload` | 1 task, 2 spellings, 2 threads | violation: the ticker starts a run after unload |
| `account_store` | 2 names, 1 group, 3 spellings (one void), 3 threads, 1 restart | acknowledged changes survive one another, crashes and restarts, however ids are spelled; memory and file agree when quiet; no store holds accounts or groups the file would merge or pass over, until one is stored under an id that does not fit; `h.mu` is left locked only by an unload |
| `account_unload` | 1 name, 2 threads, fair | violation: an unload never leads to the shutdown |
| `account_spelling` | 2 names, 2 spellings, 2 threads | violation: creating an account drops another |
| `verify_limiter` | 2 handlers, an account and an API key, limit 3, window 3, cooldown 4, lag 1, clock 0..5 | attempts run ahead of the limit by one per handler at most; nobody is blocked for other keys' failures; how many failures fit into a stretch as long as a window but for the lag |
| `email_auto_check` | 1 task, 1 account, 2 threads and the scheduler, interval 1 and, once posted, 2, clock 1..2, 1 restart | one check of a task at a time, and no mark leaks; the file parses unless two writers met; memory and file agree when quiet; a checked task waits for an interval somebody has set; an update that meets no other changes only what it is about |
| `email_due` | 1 task, 1 account, 1 thread, clock 1..2, fair | a due task is checked, put off, disabled or deleted in the end |
| `email_settings` | 1 task, 1 account, 2 threads | violation: a run brings back the settings a save has replaced |
| `mail_session` | 18 requests over a mailbox of 3, 2 recipients, 1 unsolicited line, fair | success of a login means that every server accepted it; a message stands under its own id; success is complete; failure leaves nothing half done that was not asked for; every request ends, unless an SMTP server falls silent |
| `sample_runtime` | 2 goroutines, 3 requests, 1 item id, 2 cards, jobs of 2 steps, a log of 1, 1 foreign change of the file, fair | what was acknowledged stays until a named event; a token is not older than the address it goes to; an unload ends the service |

Why the bounds are enough:

* `stdio_auth`: the hazards are between a call, the reader and one other call: two
  callers and two ids give a late reply to a call that has gone, a duplicate, a
  reply for the other kind of call, and an end of input at every point. The
  proofs remove the bounds for the safety part.
* `sample_scheduler`: three threads are a run, a second run of the same task and
  an update between them (a termination or an edit). Once updates have overlapped
  little is claimed (marks only), so `Focus` follows those behaviours at the
  first moment of the clock, in the first life of the service, with two threads.
  After a failed write it lets one thread at a time be under way beside those that
  execute a task, and either one step of the clock or one restart happen.
  The task is one because tasks share only the file.
* `account_store`: a lost update needs two writers; a clash needs a login or an
  update, a rename and a third request that takes the name. Of spellings it takes the
  plain one, another and a void one, as two other than plain only clash with each
  other as either does with the plain one. `Focus` lets two threads make any
  requests, and three only those that bear on names, without failures, unload,
  restart or spellings of their own, and on a store that holds nothing else yet. Once
  an id does not fit nothing but agreement and the lock is claimed, and `Focus` follows
  those behaviours in the first life of the service while no write has failed.
* `verify_limiter`: the limit is 3, so that a window can begin, run on and be
  filled by two handlers; the window is longer than the lag by two, so that
  `WindowQuota` is about more than a moment, and its bound is reached; the
  clock outlives a window and a block. `Focus` lets two
  keys be tried together only at the first moment of the clock; the second is there
  to show isolation.

* `email_auto_check`: two requests and the scheduler are a run, a second run or an
  unload, and an update that comes between. `Focus` keeps two processes under way
  at a time, lets the second moment of the clock come while one thread has not
  begun and nothing has clashed or failed, and a restart at the first moment, before
  updates have overlapped or failed. Tasks and accounts share only the file
  and the marks, so one of each is enough; a foreign one is changed or lost as the
  account is by an update of the task.
* `email_due`: one request beside the scheduler, which can unload, delete, disable,
  run or fail at any point; the clock makes the task due a second time.

* `mail_session`: the requests take every path of the code: each protocol, each way to
  authenticate (the server chooses what it offers), with and without STARTTLS, ids,
  a limit, bodies, marking and old messages. The mailbox holds an id that is another
  message's number. Two recipients let one be taken and one refused; one unsolicited
  line may come at any point; a late answer needs no bound, because commands are
  served in order.
* `sample_runtime`: two requests are under way at once and a third comes after or
  between; the parts of the plugin share only the process, the item map and the
  configuration file, so `Offers` considers together what can meet: items with every
  way to load and with changes of the file, items with their updates and deletions
  over HTTP and MCP, cards with the end of the process, messages, jobs, publishing
  with injections, and an unload with requests of each way to answer. Where nothing
  is about the file, `Focus` has it there and without items.
  Goroutines are interchangeable, and a request takes a chosen free one. Two steps
  of a job and a log of one message reach both limits.

`SYMMETRY` permutes threads, which only safety runs use. `VerifyLimiter.cfg` and
`EMailAutoCheck.cfg` also take a `VIEW` that forgets what no step will read again;
in the second, the numbers of arrays too.

Fairness is assumed where a property needs it and only as the code gives it. A
goroutine that serves a request goes on (weak fairness of its own steps): the
timer of a stdio call fires, a pipe write returns because the host drains its end
or closes it. `writeMu` is given to every waiter in the end (strong fairness of
`LockWriter`), because Go's mutex turns to first come, first served when a waiter
starves. In EMailCheck the scheduler and requests go on because the mail clients
give up: dialling after 20 seconds, a silent server after 60 to 75
(imap_client.go:127, 139, 263; pop3_client.go:108, 120), a run after three minutes,
and the timer is set again after every pass (EC:1125-1133). In `MailSession` the
client goes on and its deadlines fire, the server owes nothing. In `SampleRuntime`
requests that have begun go on (a publish ends with its eight seconds), and so do
`shutdown()` and `main`. Nothing obliges the host to answer, a client to call or the clock to move.

## 4. The proofs

`StdioAuthProofs` proves, for any numbers of callers and calls, that `IInv` is
inductive: it adds to the checked properties that calls under way own distinct
ids (`OwnIds`), how map, buffer and closed channels relate (`ChannelState`), that
the reader lives while the client is enabled (`ReaderAlive`), that what a channel
or the reader holds was said by the host (`GrantsAreHonest`), and that a call has
no result before it returns (`NoEarlyResult`). `WaiterReachable` is not inductive
without the first two: a second call with the same id could take the reply. From
`Invariance` follow type correctness, `ReaderSafe`, `NoLostWakeup`,
`NobodyLeftWaiting`, `NoLeak`, `AcceptanceIsHonest`, and `Refinement`: every step is a step of `TokenCheck` or a
stutter. The only assumptions are that no goroutine is both an introspector and
an encoder and that the bound on calls is a positive number.

`VerifyLimiterProofs` proves `GuessesBounded`, `BlockedForCause` and `WindowQuota` for
any finite set of handlers, any keys, limit, window and lag, and any cooldown not
shorter than the window. The argument for the first two: by
`BlockState` a count at the limit has a block that ends with its window, so the
clean-up before a check either removes the count or leaves the block; a request
that passes therefore finds its key short of the limit, and what is under way is
at most one per handler. A recorded failure moves one from "under way" to
"counted". Without `BlockState` a count at the limit could be left without its
block, and pass. For `WindowQuota` the invariant (`QInv`) relates the times of the
recorded failures, in the order they were recorded, to the limit (`Dated`). The last ones
are those the limit counts. When a block ends, all are a window's length ago but for the lag
(`BeforeBlock`); when a window ends, so are the failure it began with and all before
it (`BeforeWindow`). Of the failures a key no longer counts, the recent ones are therefore
two short of the limit at most (`FewRecent`, lemma `WindowOver`), and a request that passes adds itself to that, to
one window's count, and to the other handlers (`PassKeepsQuota`); recording moves it
from one side of the sum in `QuotaFor` to the other. The proof corrected the property,
which first spoke of a whole window: a failure recorded late begins a window with its
old time, and TLC finds a stretch of a window's length with more failures as soon as the
lag is not zero.

`EMailAutoCheckProofs` proves `RunsAlone` and `WholeFile` for any tasks, accounts,
threads, intervals and bounds. `RunsAlone` says that the marks are exactly the ids
of the tasks being checked; it is inductive once a process at a mark is known to be
about a run (`KindsFit`), and holds through unload and restart because neither
touches one of the two without the other. For `WholeFile`, `FInv` adds that what a
process is about to write is a configuration, that without a clash at most one
process is between opening and renaming, and that what it renames is then what it
has written whole.

`EMailConfigProofs` builds on both and proves `TypeOK`, `QuietAgrees`, `SpacedRuns` and
`OnlyItsOwn`, if the threads are finitely many, so that arrays are. `SInv` says the same of every
list there is, in memory, in copies, in files, in the scheduler's queue
and in what is about to be written (`Listing`): each id stands there once, no task has
run in the future, and none that has run is due before an interval that somebody has
set is over (`Room`). It cannot be the task's own: a save may raise it and keep the next
time. That ids
stand there once is needed because a save looks its task up once to see the last run
and changes the first it finds later. The arrays are where the work is: an update may
change an element of one that `h.config` and other copies point to, so that `EditKeeps`
has to show that all of them stay sound, which they do because an array of tasks is
never one of accounts; `NewArrays`, that a load finds two numbers nobody uses
(`Cardinality` bounds what the processes can point to); `CollectedIs`, that the collector
leaves what anybody points to. A half-changed element has each field from
one of two items (`HalfIs`), and where both times are from the same one they are as far
apart as there (`HalvesFit`); where they are not, the two sides may be on either side of
a run, and `mixed` says so. `StoredFits` is the other reason for `mixed`: what a save
stores with the last run it finds is spaced if it had seen that run (`seen`). `CleanAgrees` says that
memory is the file unless somebody has changed either and not loaded yet, which is
`QuietAgrees` made inductive.

`OnlyItsOwn` speaks of the rename, the last step of a way that begins at the copy, and
its invariant (`OInv`) follows an update along it: wherever it has got to, the copy, the
text and the temporary file hold of all items but its own what the file holds (`Own`,
`SameBut`). That starts with the copy being the file: when no other update is under way
and memory is loaded (`Alone`), `CleanAgrees` says so. It stays because without
an overlap nobody else is anywhere on that way; a lemma for each kind of change says
that it leaves the other items alone (`PutOthers`, `AppendOthers`, `KeptOthers`, and
`HalfEditsAlone` once more that a task's array is no account's). Turning a
configuration into text may change any task, one that is enabled and has no next time;
`NextTimes` is needed to know that the file, and so what is carried over from it, has no such task.

`SampleRuntimeProofs` proves `TypeOK`, `TokenFitsHost` and `AcknowledgedStays` for any
goroutines, ids, number of requests, steps of a job, limit of the log and mix of
requests. `Frames`, `StepMoves` and `Arrivals` say once which actions change what and
how a thread came to where it is; each part of the state then has an invariant of its
own. `ItemInv`: wherever the next `ensureLoaded` would read the file, no item is owed,
and a request about to store either was overtaken or will not be read over. `JobInv`:
a goroutine's record exists, and goroutines that share one are in `twins`.
`CardInv`: until two updates meet or a write is cut short, one thread at most is between its read and its
write, the file is blank while it writes, and what it writes is what was acknowledged
with its own change. `HostInv`: an address was injected with the token beside it, and
what a publish has seen is not newer than what is there. `LastAppend` says that cutting
the log at every message is the same as cutting it once.

`AccountStoreProofs` is about any threads, spellings and groups, any finite set of names
and any number of restarts. Every store there is (memory, file, snapshots, what is about
to be written) is `Sound`: what is there has a name, and what is not has nothing. By `Contents` each is
also `Distinct`, so that no two accounts have one user name and every id fits, until a
login has written back an account renamed meanwhile or a misfit was stored (`Slipped`);
the file is always `Filed`, that is distinct and spelled plainly. Each of the
kinds of change is taken once: by `Outcomes` it refuses, panics on maps that are
gone, or stores something sound, so that the steps around it need not know which change
it was. `StuckOnlyByUnload` is inductive together with `Met` (two changes under way have
set `overlap`) and `Unmapped` (past its first load a change finds the maps unless it has
met an unload). `QuietAgrees` needs only that memory and file differ just while some
thread is between its change and its last load. For `AcknowledgedSurvives`, `Serial` says
whose store file and memory hold as long as updates have come one at a time: that of
the update at its last load, or what the responses have promised, each spelled plainly.
It rests on `KeepsAll`, that of a distinct store the file keeps all (`Plainly`), and on
`FiledStays`, that what is plain is kept as it is. No theorem assumes anything of the
spellings but that the plain one is among them and is not void. `CreateKeepsOthers`,
which `account_spelling` refutes, is proved for as long as every id fits
(`CreateDropsOnlyMisfits`), so that the finding is due to such ids alone.

`SampleSchedulerProofs` is about any tasks, spellings, threads, lease, interval and
bounds. Marks: a run in flight has its mark unless it is in `lost` (`Marked`), without
which neither `MarkOwned` nor `MarkExcludes` is inductive, because a release has to be
known to take the releaser's own mark or nobody's. The other three theorems are about
updates that come one at a time, which the code does not enforce (section 6). `Orderly`
says that then the file is whole between updates and names the runs that memory names
(`Disk`); that an update has one list to write and the temporary file to itself
(`InHand`); that every token in a list is that of a run that still holds it, in its
own task (`Clean`); and that a run which is reported, or about to be, holds its token
no more (`Outcomes`). The last is the point: finishing and terminating both take the
token out in the critical section before they report, so that only one of them can
have it, and what is left in the file belongs to a run that executes or has died.
Where a write has failed, any run of the task counts as a holder (`Live`), and file and
memory need not agree on the task (`Agree`). What makes that enough is `Behind`: while
an update is on its way to its rename, its own task is the only one the file is behind
by, and an edit, which changes its own list and not memory, leaves nothing behind.

`MailSessionProofs` is about any mailbox with distinct ids, any requests the plugin
makes (marking names messages, a reply does not mark what it answers), any number of
recipients and of unsolicited lines. `IInv` has fourteen parts beside the types. `Placed` ties
step, session and connection; `LoggedIn`, that a session past its login has been
accepted. How the client knows whose answer it reads differs: in IMAP, `IMAPChannel`
says which command may still be answered under which tag, and that under the
current one only the current command is (a dialogue to authenticate shares one tag);
POP3 and SMTP have no tags, and `StepChannel` says that as long as no answer was given
up on, there is one command or its answer on its way, never both and never another's.
Then `IMAPWork`, `POPWork` and `SMTPWork` say that what is done and what is left to do
make up the whole, at every turn of each loop; in POP3 without named messages, that
those listed are the ones above a number (`Down`), from which the limit, the end or
the first old message all lead to `ToShow`. `QueueHarmless` looks the other way: no
command the server may still serve, however late, marks or mails what was not asked
for. `Unshown` is needed because UIDL may fail after the list is known but never after
a message is shown. `SuccessIsComplete` holds of a POP3 listing of named messages if the
limit is not below their number (`Fits`), because the code stops there for
them too (PO:88); the listing without a limit or cutoff that PO:91 stops at 100 messages is
not in the model, and so the theorem does not speak of it.

Only model-checked: all liveness (`EveryCallReturns`, `DueIsServed`, `SessionEnds`,
`UnloadEnds`, what `account_unload` refutes, and the fair part of `ImplementsTokenCheck`),
which the proof system cannot treat under fairness. The properties of the runs that
expect a violation are, of course, not theorems.

## 5. Findings

* `sample_unload`: `unload` closes the stop channel, but the ticker looks at it
  only between two passes, and the pass it is in goes on; its next reservation
  loads the cleared configuration back and starts a run (SP:475, 1501). DEVELOP.md
  and README.md of Sample say the ticker stops at unload.
* `account_unload`: an unload between an update's load and its change makes the
  assignment `h.accounts[account.ID] = account` (AM:1932) panic on a nil map with
  `h.mu` held and no deferred unlock; the recover answers the request and leaves
  the mutex locked, so that no later request gets through and the pending stop is
  never consumed. Sample/DEVELOP.md:204, 206 say unload must let the service go.
* `account_spelling`: ids are compared exactly when an account is created
  (AM:1922) and without regard to case when the file is normalised (AM:3111-3119):
  a new account whose id differs only in case can displace an existing one. Groups
  are created and normalised the same way (AM:2263, 3090-3094).
* `email_settings`: a check that was under way when its task was saved stores the
  copy it took before (EC:1067): a task disabled, and reported as permanently
  stored (app.js:869), is enabled again. The two updates do not overlap.

## 6. What the models show to be weaker than one might think

Stated here and not as findings because, but for the last of Sample, no text in the
repository promises otherwise:

* Sample: a change whose write fails stays in memory, for requests to see, and is
  persisted by the next update of any task or dropped by the next load of the file. A
  reservation that fails so leaves a lease nobody executes under until it expires; a
  finish leaves the run's token in the file, where a restart finds it.
* Sample: two updates of the configuration at once can lose one of them, leave a
  lease in the file, publish a half-written file or fail in the rename. After a
  termination the late release of the first run takes the second one's mark, so
  that two runs of a task may execute at once (`MarkExcludes` says when). A run is
  marked under its id as spelled in the URL; only the lease keeps two spellings apart.
* Sample: items created over the API last until the file is seen to have changed,
  also by the scheduler's own writes, or until a forced load fails and notes its
  error late (SP:1227-1229): the next request then loads, and drops them. A load or
  unload overtaking a request drops the item it acknowledges. Two updates of the
  skill cards at once lose one or tear the file; the process ending in a write, and a
  write failing after it has emptied the file, lose all of them; no request repairs a file that does not parse. Two jobs started at one
  reading of the clock share a record. A publish may send the address of one
  injection with the token of a later one; `expires_at` is never looked at.
* Sample: whichever request leaves first takes the stop an unload has left pending,
  a load in between does not keep the service, and `main` returns as soon as
  `shutdown()` has closed the listener, so that answers under way, the unload's own
  if another request took its stop, can be cut off. Sample/DEVELOP.md:190 and 211-212
  and Sample/README.md:267-268 say that the answer is written first; it is written,
  but its end is not waited for. Account Manager's `main` is built the same way.
* Account Manager: with overlapping updates an acknowledged change can be undone
  by an older snapshot written later. A failed write leaves the change in memory,
  and the next successful write of anybody persists it. A `PUT` of the
  configuration before a load drops passwords, and it always drops API keys. A
  login that overlaps a rename writes the old name back. An id is looked up among
  ids and user names in the random order of a map: where one account's user name is
  another's id, either may answer. An account or a group under an id of which
  sanitising leaves nothing is acknowledged and not in the file.
* EMailCheck: two updates at once can lose one of them, tear the temporary file
  and publish it, or fail in the rename. A task saved while its check is under way
  may be due again at once, and so may one that another update copies while half of it
  is assigned, which is then written and stays (`mixed`). A save that raises the interval
  keeps the next time that the old one gave. A request that an unload overtakes writes a
  configuration that holds nothing but its own account or task. `PUT` of what
  `GET` shows drops all passwords. A posted `next_run` that does not parse keeps its
  task from ever being due.
* Mail: an SMTP server that falls silent holds a login or a reply for ever. A refusal
  with " OK" in its text passes for success in IMAP. A POP3 listing goes on after a
  deadline of TOP or UIDL and may read the late answer as the next one's, so that a
  message stands under another's id. An unsolicited FETCH with a UID relabels what is
  being fetched. If UIDL fails, messages are known by their numbers, and a number
  may be taken for an id. A listing that is to mark and fails later leaves messages
  marked that nobody has been shown, and one message that does not parse fails the
  whole listing. A POP3 listing stops at the first message before the cutoff, so
  dates must follow numbers; one of named messages stops at the limit, which may be below
  their number. Marking over POP3 is reported as done. A reply may have
  been taken though it is reported as failed, if the connection is lost after its
  text.
* Limiter: the windows do not slide, so that almost twice the limit and one for
  every handler can fall into a window's length less the lag (`WindowQuota`; TLC
  finds the bound reached), and more into a whole one. A restart forgets all failures.

## 7. Not modelled, and the plan

The prover cannot instantiate induction theorems that take an operator, and loses
its arithmetic in modules with `RECURSIVE` operators; pure algorithms below will
therefore be written with folds and recursive functions. The least-number principle
(lemma `Least`: `WFMin` with `NatLessThanWellFounded`) takes the place of induction where
the proofs count through a set, as for the order of `Oldest` or the users a file keeps,
and where they follow a recursive function, as for the list `Kept` leaves.

1. Done: `StdioAuth`, `TokenCheck`, `SampleScheduler`, `AccountStore`,
   `VerifyLimiter`, `EMailAutoCheck`, `MailSession`, `SampleRuntime`.
2. Done: the proofs over all of them, of every safety invariant and action property
   that a passing run checks.
3. Host authorisation of Account Manager (AM:438-533, 869-985): validate, register,
   store the token; two that overlap may leave the older one's token.
4. Permissions of Account Manager: normalising, effective permissions, workspaces and
   scopes as operators against a reference definition, over bounded inputs.

Not modelled, and why: the lifecycle of Account Manager, which is built like Sample's
(`SampleRuntime`); SampleR, a second implementation of what the Sample modules take
from Go; the protocol checks of the MCP server (versions, headers, schemas), which
refuse requests and change no state; the development host, whose only shared state
is a mock data store under one lock.

Left out for good: MIME and charset decoding, the IMAP probe, proxying, web
pages, build scripts: conversions and I/O without state worth exploring.
