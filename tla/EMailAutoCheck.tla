--------------------------- MODULE EMailAutoCheck ---------------------------
(***************************************************************************)
(* EMailCheck: automatic checks of mailboxes, and the configuration that   *)
(* holds them together with the accounts.                                  *)
(*                                                                         *)
(* Handlers and the scheduler copy h.config under h.mu, which copies two   *)
(* slices and not what they point to; they change an element in place,     *)
(* append or filter without the mutex, write all of it through one         *)
(* temporary file, rename that, and load the file again.  A check works    *)
(* for minutes on a copy of its task and then stores the copy whole.       *)
(***************************************************************************)
EXTENDS Naturals, Sequences, FiniteSets

CONSTANTS
    Tasks,      \* ids of automatic checks
    Accounts,   \* ids of mail accounts
    Threads,    \* each serves at most one request
    Scheduler,  \* the goroutine that runs the checks that are due
    Seed,       \* what a setting is before anybody has posted it
    Interval,   \* Interval[p]: interval_minutes in the settings p posts
    MaxNow,     \* bound on the clock
    MaxBoots    \* bound on the number of times the service is restarted

ASSUME SchedulerAssumption == Scheduler \notin Threads
ASSUME SeedAssumption == Seed \notin Threads
ASSUME ThreadsAssumption == IsFiniteSet(Threads)
ASSUME IdsAssumption == Tasks \cap Accounts = {}
ASSUME TimeAssumption == MaxNow \in Nat \ {0} /\ MaxBoots \in Nat
ASSUME IntervalAssumption == Interval \in [Threads \union {Seed} -> Nat \ {0}]

VARIABLES
    heap,       \* heap[a]: what the array a holds
    config,     \* h.config: an array of tasks and an array of accounts
    known,      \* h.accounts: for each account, who posted it, or nothing
    loaded,     \* h.loaded, with no load error
    newer,      \* config.json is newer than h.lastModified
    running,    \* h.autoCheckRunning
    scheduled,  \* h.schedulerOnce has been done
    file,       \* config.json
    tmp,        \* config.json.tmp: what it holds, or nothing if it is missing
    now,        \* the clock
    boots,      \* restarts so far
    pc,         \* pc[p]: where process p is
    job,        \* job[p]: what p has been asked to do, and what it has seen
    mine,       \* mine[p]: p's copy of h.config
    data,       \* data[p]: the configuration p writes
    at,         \* at[p]: what the name of the file p has opened is now
    queue,      \* the copies of tasks the scheduler has found due
    overlap,    \* two updates, or an unload and an update, have met (history)
    clash,      \* two writers have had the temporary file open (history)
    mixed,      \* a task's times may have come from two moments (history)
    failed      \* a write has failed (history)

memVars  == <<heap, config, known, loaded, newer>>
markVars == <<running, scheduled, queue>>
fileVars == <<file, tmp, at>>
procVars == <<pc, job, mine, data>>
histVars == <<overlap, clash, mixed, failed>>
vars == <<memVars, markVars, fileVars, procVars, now, boots, histVars>>

Procs == Threads \union {Scheduler}
Posters == Threads \union {Seed}

\* Enough arrays for the copies of every process, for h.config and for a load.
\* The array 0 is the empty one of a configuration that is not there.
Arrays == 0 .. 2 * Cardinality(Procs) + 4

\* A task; of an account only id and edit are used.  Times: 0 stands for none.
Entry == [id : Tasks \union Accounts, on : BOOLEAN, edit : Posters,
          next : Nat, ran : 0 .. MaxNow]
Item(i) == [id |-> i, on |-> FALSE, edit |-> Seed, next |-> 0, ran |-> 0]
Nil == [tasks |-> 0, accts |-> 0]

\* What a file holds: a configuration, nothing yet, or something that does not parse.
Whole(tasks, accts) == [text |-> "whole", tasks |-> tasks, accts |-> accts]
Unreadable(text) == [text |-> text, tasks |-> <<>>, accts |-> <<>>]
Empty == Unreadable("empty")
Torn == Unreadable("torn")
Parses(c) == c.text = "whole"
Blank == Whole(<<>>, <<>>)

About(kind, id) == [kind |-> kind, id |-> id, copy |-> Item(id), seen |-> {}]
NoJob == About("none", CHOOSE t \in Tasks : TRUE)

Init ==
    /\ heap = [a \in Arrays |-> <<>>]
    /\ config = Nil
    /\ known = [a \in Accounts |-> {}]
    /\ loaded = FALSE
    /\ newer = TRUE
    /\ running = {}
    /\ scheduled = FALSE
    /\ \E t \in Tasks, a \in Accounts :
          file = Whole(<<[Item(t) EXCEPT !.on = TRUE, !.next = 1]>>, <<Item(a)>>)
    /\ tmp = {}
    /\ now = 1
    /\ boots = 0
    /\ pc = [p \in Procs |-> IF p = Scheduler THEN "wait" ELSE "idle"]
    /\ job = [p \in Procs |-> NoJob]
    /\ mine = [p \in Procs |-> Nil]
    /\ data = [p \in Procs |-> Blank]
    /\ at = [p \in Procs |-> "closed"]
    /\ queue = <<>>
    /\ overlap = FALSE
    /\ clash = FALSE
    /\ mixed = FALSE
    /\ failed = FALSE

-----------------------------------------------------------------------------
(* Helpers *)

Goto(p, label) == pc' = [pc EXCEPT ![p] = label]

ItemsOf(c) == {c.tasks[i] : i \in DOMAIN c.tasks} \union {c.accts[i] : i \in DOMAIN c.accts}
Content(c) == Whole(heap[c.tasks], heap[c.accts])

\* An enabled task without a next time is put an interval ahead, here and in what is written.
NextTime(e) == now + Interval[e.edit]
Dated(e) == IF e.on /\ e.next = 0 THEN [e EXCEPT !.next = NextTime(e)] ELSE e
Normalized(c) == [c EXCEPT !.tasks = [i \in DOMAIN c.tasks |-> Dated(c.tasks[i])]]

\* What is left of a list when only the items at the places in I are taken over.
Kept(list, I) ==
    LET kept[n \in 0 .. Len(list)] ==
            IF n = 0 THEN <<>>
            ELSE IF n \in I THEN Append(kept[n - 1], list[n]) ELSE kept[n - 1]
    IN  kept[Len(list)]

\* Arrays that are pointed to; the collector takes the others.
ArraysOf(c) == {c.tasks, c.accts}
InUse(c, m) == ArraysOf(c) \union UNION {ArraysOf(m[p]) : p \in Procs}
Collected(h, c, m) == [a \in Arrays |-> IF a \in InUse(c, m) THEN h[a] ELSE <<>>]
Fresh(taken) == CHOOSE a \in Arrays \ taken : \A b \in Arrays \ taken : a <= b
NewArray == Fresh(InUse(config, mine) \union {0})
OtherArray == Fresh(InUse(config, mine) \union {0, NewArray})

\* An update, from its copy of the configuration to its last load.
Updating(label) == label \in {"edit", "rest", "open", "put", "rename", "reload"}
Meet(met) == overlap' = (overlap \/ met \/ \E p, q \in Procs :
                            p # q /\ Updating(pc'[p]) /\ Updating(pc'[q]))

\* loadConfig: decode the file into new arrays, unless that may be skipped; the
\* first success starts the scheduler.
ReadConfig ==
    IF Parses(file)
    THEN LET new == [tasks |-> NewArray, accts |-> OtherArray] IN
         /\ config' = new
         /\ heap' = Collected([heap EXCEPT ![new.tasks] = file.tasks, ![new.accts] = file.accts],
                              new, mine)
         /\ known' = [a \in Accounts |-> {e.edit : e \in {i \in ItemsOf(file) : i.id = a}}]
         /\ loaded' = TRUE /\ newer' = FALSE /\ scheduled' = TRUE
    ELSE loaded' = FALSE /\ UNCHANGED <<heap, config, known, newer, scheduled>>
LoadConfig(force) ==
    IF force \/ ~loaded \/ newer
    THEN ReadConfig
    ELSE UNCHANGED <<memVars, scheduled>>

\* Where a process goes when it is through with a run or a request.
Through(p) == IF job[p].kind = "run" THEN "unmark" ELSE "done"

-----------------------------------------------------------------------------
(* Requests *)

Requests ==
    {[NoJob EXCEPT !.kind = kind] : kind \in {"get", "load", "unload", "config"}}
    \union {About(kind, t) : kind \in {"task", "untask", "run"}, t \in Tasks}
    \union {About(kind, a) : kind \in {"account", "unaccount", "login"}, a \in Accounts}

\* PUT /config writes what it is sent, here what GET /config last showed.
Begin(p, request) ==
    /\ pc[p] = "idle"
    /\ request.kind = "config" => loaded
    /\ job' = [job EXCEPT ![p] =
                  IF request.kind = "account" THEN [request EXCEPT !.copy.edit = p] ELSE request]
    /\ data' = [data EXCEPT ![p] = IF request.kind = "config"
                                     THEN Normalized(Content(config)) ELSE Blank]
    /\ Goto(p, CASE request.kind = "unload" -> "drop"
                 [] request.kind = "config" -> "open"
                 [] OTHER                   -> "load")
    /\ Meet(FALSE)
    /\ UNCHANGED <<memVars, markVars, fileVars, mine, now, boots, clash, mixed, failed>>

\* ensureLoaded at the start of a request, or the load that is asked for.
AfterLoad(kind) ==
    CASE kind \in {"get", "load"}                      -> "done"
      [] kind \in {"task", "run"}                      -> "take"
      [] kind \in {"untask", "account", "unaccount"}   -> "copy"
      [] kind = "login"                                -> "resolve"
Load(p) ==
    /\ pc[p] = "load"
    /\ p # Scheduler
    /\ LoadConfig(job[p].kind = "load")
    /\ Goto(p, IF loaded' THEN AfterLoad(job[p].kind) ELSE "done")
    /\ UNCHANGED <<running, queue, fileVars, job, mine, data, now, boots, histVars>>

\* Faulty variants: marks are dropped with the rest; h.loaded is not reset.
UnloadMarks(p) ==
    /\ pc[p] = "drop"
    /\ config' = Nil
    /\ heap' = Collected(heap, Nil, mine)
    /\ known' = [a \in Accounts |-> {}]
    /\ loaded' = FALSE
    /\ newer' = TRUE
    /\ running' = {}
    /\ Goto(p, "done")
    /\ UNCHANGED <<scheduled, queue, fileVars, job, mine, data, now, boots, histVars>>
UnloadLoaded(p) ==
    /\ pc[p] = "drop"
    /\ config' = Nil
    /\ heap' = Collected(heap, Nil, mine)
    /\ known' = [a \in Accounts |-> {}]
    /\ newer' = TRUE
    /\ Goto(p, "done")
    /\ UNCHANGED <<loaded, markVars, fileVars, job, mine, data, now, boots, histVars>>
Unload(p) ==
    /\ pc[p] = "drop"
    /\ config' = Nil
    /\ heap' = Collected(heap, Nil, mine)
    /\ known' = [a \in Accounts |-> {}]
    /\ loaded' = FALSE
    /\ newer' = TRUE
    /\ Goto(p, "done")
    /\ UNCHANGED <<markVars, fileVars, job, mine, data, now, boots, histVars>>

TasksWith(id) == {e \in ItemsOf(Content(config)) : e.id = id}

\* PUT of a task: what is sent goes over a copy of the task as it is; POST: over an
\* empty one.  The page sends neither next_run nor last_run.
Posted(p, base, on) == Dated([base EXCEPT !.on = on, !.edit = p])
TakeToSave(p) ==
    /\ pc[p] = "take"
    /\ job[p].kind = "task"
    /\ \E base \in TasksWith(job[p].id) \union {Item(job[p].id)}, on \in BOOLEAN :
          job' = [job EXCEPT ![p].copy = Posted(p, base, on),
                             ![p].seen = {e.ran : e \in TasksWith(job[p].id)}]
    /\ Goto(p, "look")
    /\ UNCHANGED <<memVars, markVars, fileVars, mine, data, now, boots, histVars>>

\* accountByID: a task must be about an account there is.
Look(p) ==
    /\ pc[p] = "look"
    /\ \E a \in Accounts : Goto(p, IF known[a] # {} THEN "copy" ELSE "done")
    /\ UNCHANGED <<memVars, markVars, fileVars, job, mine, data, now, boots, histVars>>

\* runAutoCheckTaskByID
TakeToRun(p) ==
    /\ pc[p] = "take"
    /\ job[p].kind = "run"
    /\ \/ /\ TasksWith(job[p].id) = {}
          /\ Goto(p, "done")
          /\ UNCHANGED job
       \/ \E e \in TasksWith(job[p].id) :
             /\ job' = [job EXCEPT ![p].copy = e]
             /\ Goto(p, "mark")
    /\ UNCHANGED <<memVars, markVars, fileVars, mine, data, now, boots, histVars>>

-----------------------------------------------------------------------------
(* The scheduler *)

\* autoCheckLoop: the timer fires.
Wake ==
    /\ pc[Scheduler] = "wait"
    /\ scheduled
    /\ Goto(Scheduler, "load")
    /\ UNCHANGED <<memVars, markVars, fileVars, job, mine, data, now, boots, histVars>>

\* runDueAutoChecks: the list of what is due, and then one task after another.
LoadToPick ==
    /\ pc[Scheduler] = "load"
    /\ LoadConfig(FALSE)
    /\ Goto(Scheduler, IF loaded' THEN "pick" ELSE "wait")
    /\ UNCHANGED <<running, queue, fileVars, job, mine, data, now, boots, histVars>>

Due(e) == e.on /\ e.next # 0 /\ e.next <= now
Pick ==
    /\ pc[Scheduler] = "pick"
    /\ LET tasks == heap[config.tasks]
       IN  queue' = Kept(tasks, {i \in DOMAIN tasks : Due(tasks[i])})
    /\ Goto(Scheduler, "turn")
    /\ UNCHANGED <<memVars, running, scheduled, fileVars, job, mine, data, now, boots, histVars>>

NextTurn ==
    /\ pc[Scheduler] = "turn"
    /\ \/ /\ queue = <<>>
          /\ Goto(Scheduler, "wait")
          /\ job' = [job EXCEPT ![Scheduler] = NoJob]
          /\ UNCHANGED queue
       \/ /\ queue # <<>>
          /\ job' = [job EXCEPT ![Scheduler] =
                        [About("run", Head(queue).id) EXCEPT !.copy = Head(queue)]]
          /\ queue' = Tail(queue)
          /\ Goto(Scheduler, "mark")
    /\ UNCHANGED <<memVars, running, scheduled, fileVars, mine, data, now, boots, histVars>>

-----------------------------------------------------------------------------
(* A run *)

After(p) == IF p = Scheduler THEN "turn" ELSE "done"

\* beginAutoCheckRun
Mark(p) ==
    /\ pc[p] = "mark"
    /\ \/ /\ job[p].id \in running
          /\ Goto(p, After(p))
          /\ UNCHANGED running
       \/ /\ job[p].id \notin running
          /\ running' = running \union {job[p].id}
          /\ Goto(p, "resolve")
    /\ UNCHANGED <<memVars, scheduled, queue, fileVars, job, mine, data, now, boots, histVars>>

\* resolveAccount.  A run that finds no account has a result too, an error.
ResolveForRun(p) ==
    /\ pc[p] = "resolve"
    /\ job[p].kind = "run"
    /\ LoadConfig(FALSE)
    /\ Goto(p, "mail")
    /\ UNCHANGED <<running, queue, fileVars, job, mine, data, now, boots, histVars>>

\* A login goes on with the account in memory or with the one that is posted.
ResolveForLogin(p) ==
    /\ pc[p] = "resolve"
    /\ job[p].kind = "login"
    /\ LoadConfig(FALSE)
    /\ \/ /\ ~loaded' \/ known'[job[p].id] = {}
          /\ Goto(p, "done")
          /\ UNCHANGED job
       \/ /\ loaded'
          /\ \E edit \in known'[job[p].id] \union {p} :
                /\ known'[job[p].id] # {}
                /\ job' = [job EXCEPT ![p].copy = [Item(job[p].id) EXCEPT !.edit = edit]]
          /\ Goto(p, "mail")
    /\ UNCHANGED <<running, queue, fileVars, mine, data, now, boots, histVars>>

\* Faulty variant: the task keeps its next time.
MailForRunStays(p) ==
    /\ pc[p] = "mail"
    /\ job[p].kind = "run"
    /\ job' = [job EXCEPT ![p].copy.ran = now]
    /\ Goto(p, "copy")
    /\ UNCHANGED <<memVars, markVars, fileVars, mine, data, now, boots, histVars>>

\* The mail server has answered, refused or timed out: the task gets its result and
\* its next time.
MailForRun(p) ==
    /\ pc[p] = "mail"
    /\ job[p].kind = "run"
    /\ job' = [job EXCEPT ![p].copy.ran = now, ![p].copy.next = NextTime(job[p].copy)]
    /\ Goto(p, "copy")
    /\ UNCHANGED <<memVars, markVars, fileVars, mine, data, now, boots, histVars>>

\* A login stores the account, or only what the check has found.
MailForLogin(p) ==
    /\ pc[p] = "mail"
    /\ job[p].kind = "login"
    /\ \E kind \in {"account", "check"} : job' = [job EXCEPT ![p].kind = kind]
    /\ Goto(p, "copy")
    /\ UNCHANGED <<memVars, markVars, fileVars, mine, data, now, boots, histVars>>

\* Faulty variant: the mark stays.
UnmarkNot(p) ==
    /\ pc[p] = "unmark"
    /\ Goto(p, After(p))
    /\ UNCHANGED <<memVars, markVars, fileVars, job, mine, data, now, boots, histVars>>

\* endAutoCheckRun, by defer.
Unmark(p) ==
    /\ pc[p] = "unmark"
    /\ running' = running \ {job[p].id}
    /\ Goto(p, After(p))
    /\ UNCHANGED <<memVars, scheduled, queue, fileVars, job, mine, data, now, boots, histVars>>

-----------------------------------------------------------------------------
(* An update of the configuration *)

Copy(p) ==
    /\ pc[p] = "copy"
    /\ mine' = [mine EXCEPT ![p] = config]
    /\ Goto(p, "edit")
    /\ Meet(config = Nil)
    /\ UNCHANGED <<memVars, markVars, fileVars, job, data, now, boots, clash, mixed, failed>>

\* The array p changes, the items in it that p is about, and what becomes of one.
Part(p) == IF job[p].kind \in {"task", "untask", "run"} THEN "tasks" ELSE "accts"
Mine(p) == heap[mine[p][Part(p)]]
Mentioned(p) == {i \in DOMAIN Mine(p) : Mine(p)[i].id = job[p].id}
Stored(p, old) ==
    CASE job[p].kind = "task"    -> [job[p].copy EXCEPT !.ran = IF @ = 0 THEN old.ran ELSE @]
      [] job[p].kind = "run"     -> job[p].copy
      [] job[p].kind = "account" -> job[p].copy
      [] job[p].kind = "check"   -> old

\* A save fills in the last run it finds, not the next.
Fills(p, old) == job[p].kind = "task" /\ job[p].copy.ran = 0 /\ old.ran # 0
                 /\ old.ran \notin job[p].seen

\* An element is assigned without the mutex, field by field in any order: others may
\* see it half done, perhaps with one of its times new and the other old.
Halves(old, new) ==
    {[old EXCEPT !.on = from[1].on, !.edit = from[2].edit, !.next = from[3].next,
                 !.ran = from[4].ran] : from \in [1 .. 4 -> {old, new}]}
Times(e) == <<e.next, e.ran>>
HalfEdit(p) ==
    /\ pc[p] = "edit"
    /\ job[p].kind \in {"task", "run"}
    /\ \E i \in Mentioned(p) :
          LET old == Mine(p)[i]
              new == Stored(p, old)
          IN  \E half \in Halves(old, new) :
                 /\ heap' = [heap EXCEPT ![mine[p].tasks][i] = half]
                 /\ mixed' = (mixed \/ Fills(p, old) \/ Times(half) \notin {Times(old), Times(new)})
    /\ Goto(p, "rest")
    /\ UNCHANGED <<config, known, loaded, newer, markVars, fileVars, job, mine, data, now, boots,
                   overlap, clash, failed>>

\* The change is made, and the configuration turned into text.
Marshal(p, items, h) ==
    /\ data' = [data EXCEPT ![p] = Normalized([Content(mine[p]) EXCEPT ![Part(p)] = items])]
    /\ mine' = [mine EXCEPT ![p] = Nil]
    /\ heap' = Collected(h, config, mine')
    /\ Goto(p, "open")
    /\ UNCHANGED <<config, known, loaded, newer, markVars, fileVars, job, now, boots, failed>>
    /\ UNCHANGED <<overlap, clash>>

Replace(p) ==
    /\ pc[p] \in {"edit", "rest"}
    /\ job[p].kind \in {"task", "run", "account", "check"}
    /\ \E i \in Mentioned(p) :
          LET items == [Mine(p) EXCEPT ![i] = Stored(p, @)] IN
          /\ Marshal(p, items, [heap EXCEPT ![mine[p][Part(p)]] = items])
          /\ mixed' = (mixed \/ Fills(p, Mine(p)[i]))

\* Faulty variant: a result for a task that is gone is added.
AddAny(p) ==
    /\ pc[p] = "edit"
    /\ job[p].kind \in {"task", "run", "account"}
    /\ Mentioned(p) = {}
    /\ Marshal(p, Append(Mine(p), job[p].copy), heap)
    /\ UNCHANGED mixed

\* append: into another array, or behind what others see of this one.
Add(p) ==
    /\ pc[p] = "edit"
    /\ job[p].kind \in {"task", "account"}
    /\ Mentioned(p) = {}
    /\ Marshal(p, Append(Mine(p), job[p].copy), heap)
    /\ UNCHANGED mixed

Remove(p) ==
    /\ pc[p] = "edit"
    /\ job[p].kind \in {"untask", "unaccount"}
    /\ Mentioned(p) # {}
    /\ Marshal(p, Kept(Mine(p), DOMAIN Mine(p) \ Mentioned(p)), heap)
    /\ UNCHANGED mixed

\* A deletion or a result for something that is gone is refused.
Miss(p) ==
    /\ pc[p] = "edit"
    /\ job[p].kind \in {"untask", "run", "unaccount", "check"}
    /\ Mentioned(p) = {}
    /\ mine' = [mine EXCEPT ![p] = Nil]
    /\ heap' = Collected(heap, config, mine')
    /\ Goto(p, Through(p))
    /\ UNCHANGED <<config, known, loaded, newer, markVars, fileVars, job, data, now, boots, histVars>>

-----------------------------------------------------------------------------
(* writeEmailConfig, and the load that follows it *)

\* Faulty variant: the file itself is opened.
OpenInPlace(p) ==
    /\ pc[p] = "open"
    /\ file' = Empty
    /\ at' = [at EXCEPT ![p] = "file"]
    /\ Goto(p, "put")
    /\ clash' = (clash \/ \E q \in Procs : pc[q] \in {"put", "rename"})
    /\ UNCHANGED <<memVars, markVars, tmp, job, mine, data, now, boots, overlap, mixed, failed>>

\* Opening truncates, also under another writer.
Open(p) ==
    /\ pc[p] = "open"
    /\ tmp' = {Empty}
    /\ at' = [at EXCEPT ![p] = "tmp"]
    /\ Goto(p, "put")
    /\ clash' = (clash \/ \E q \in Procs : pc[q] \in {"put", "rename"})
    /\ UNCHANGED <<memVars, markVars, file, job, mine, data, now, boots, overlap, mixed, failed>>

\* What is in a file when p has written to it from the start.
Over(p, old) == IF old = Empty THEN {data[p]} ELSE {data[p], Torn}
Put(p) ==
    /\ pc[p] = "put"
    /\ \/ /\ at[p] = "tmp"
          /\ \E c \in tmp : \E new \in Over(p, c) : tmp' = {new}
          /\ UNCHANGED <<file, newer>>
       \/ /\ at[p] = "file"
          /\ file' \in Over(p, file)
          /\ newer' \in {newer, TRUE}
          /\ UNCHANGED tmp
       \/ /\ at[p] = "gone"
          /\ UNCHANGED <<tmp, file, newer>>
    /\ at' = [at EXCEPT ![p] = "closed"]
    /\ data' = [data EXCEPT ![p] = Blank]
    /\ Goto(p, "rename")
    /\ UNCHANGED <<heap, config, known, loaded, markVars, job, mine, now, boots, histVars>>

\* What others have opened as the temporary file now has the name of the file.
Renamed(name) == CASE name = "tmp" -> "file" [] name = "file" -> "gone" [] OTHER -> name
Rename(p) ==
    /\ pc[p] = "rename"
    /\ tmp # {}
    /\ \E c \in tmp : file' = c
    /\ tmp' = {}
    /\ at' = [q \in Procs |-> Renamed(at[q])]
    /\ newer' \in {newer, TRUE}
    /\ Goto(p, "reload")
    /\ UNCHANGED <<heap, config, known, loaded, markVars, job, mine, data, now, boots, histVars>>

\* Another writer has taken the temporary file away.
RenameFails(p) ==
    /\ pc[p] = "rename"
    /\ tmp = {}
    /\ Goto(p, Through(p))
    /\ UNCHANGED <<memVars, markVars, fileVars, job, mine, data, now, boots, histVars>>

\* The temporary file cannot be opened.
OpenFails(p) ==
    /\ pc[p] = "open"
    /\ failed' = TRUE
    /\ data' = [data EXCEPT ![p] = Blank]
    /\ Goto(p, Through(p))
    /\ UNCHANGED <<memVars, markVars, fileVars, job, mine, now, boots, overlap, clash, mixed>>

\* Faulty variant: the file is loaded only if its time of modification says so.
ReloadIfNewer(p) ==
    /\ pc[p] = "reload"
    /\ LoadConfig(FALSE)
    /\ Goto(p, Through(p))
    /\ UNCHANGED <<running, queue, fileVars, job, mine, data, now, boots, histVars>>

\* loaded = false, and loadConfig(true).
Reload(p) ==
    /\ pc[p] = "reload"
    /\ LoadConfig(TRUE)
    /\ Goto(p, Through(p))
    /\ UNCHANGED <<running, queue, fileVars, job, mine, data, now, boots, histVars>>

-----------------------------------------------------------------------------

Advance ==
    /\ now < MaxNow
    /\ now' = now + 1
    /\ UNCHANGED <<memVars, markVars, fileVars, procVars, boots, histVars>>

\* The process ends at any point, and another one starts.
Restart ==
    /\ boots < MaxBoots
    /\ boots' = boots + 1
    /\ heap' = [a \in Arrays |-> <<>>]
    /\ config' = Nil
    /\ known' = [a \in Accounts |-> {}]
    /\ loaded' = FALSE
    /\ newer' = TRUE
    /\ running' = {}
    /\ scheduled' = FALSE
    /\ queue' = <<>>
    /\ pc' = [p \in Procs |-> IF p = Scheduler THEN "wait"
                              ELSE IF pc[p] \in {"idle", "done"} THEN pc[p] ELSE "done"]
    /\ job' = [p \in Procs |-> NoJob]
    /\ mine' = [p \in Procs |-> Nil]
    /\ data' = [p \in Procs |-> Blank]
    /\ at' = [p \in Procs |-> "closed"]
    /\ UNCHANGED <<file, tmp, now, histVars>>

UpdateNext(p) ==
    \/ Copy(p) \/ HalfEdit(p) \/ Replace(p) \/ Add(p) \/ Remove(p) \/ Miss(p)
    \/ Open(p) \/ Put(p) \/ Rename(p) \/ RenameFails(p) \/ OpenFails(p) \/ Reload(p)
RunNext(p) == Mark(p) \/ ResolveForRun(p) \/ MailForRun(p) \/ Unmark(p)
RequestNext(p) ==
    \/ Load(p) \/ Unload(p) \/ TakeToSave(p) \/ Look(p) \/ TakeToRun(p)
    \/ ResolveForLogin(p) \/ MailForLogin(p) \/ RunNext(p) \/ UpdateNext(p)
SchedulerNext ==
    Wake \/ LoadToPick \/ Pick \/ NextTurn \/ RunNext(Scheduler) \/ UpdateNext(Scheduler)

Next ==
    \/ \E p \in Threads : (\E request \in Requests : Begin(p, request)) \/ RequestNext(p)
    \/ SchedulerNext
    \/ Advance
    \/ Restart

Spec == Init /\ [][Next]_vars

\* Goroutines go on: mail servers are given up on, and the timer fires again.
FairSpec ==
    /\ Spec
    /\ \A p \in Threads : WF_vars(RequestNext(p))
    /\ WF_vars(SchedulerNext)

-----------------------------------------------------------------------------
(* Properties *)

Labels == {"idle", "load", "drop", "take", "look", "wait", "pick", "turn", "mark", "resolve",
           "mail", "unmark", "copy", "edit", "rest", "open", "put", "rename", "reload", "done"}
RunLabels == {"resolve", "mail", "copy", "edit", "rest", "open", "put", "rename", "reload",
              "unmark"}
Executing(p) == job[p].kind = "run" /\ pc[p] \in RunLabels

\* The copy of a configuration is held from the copying to the change, a handle while
\* the file is written; nothing but entries is ever stored.
TypeOK ==
    /\ \A a \in Arrays : \A i \in DOMAIN heap[a] : heap[a][i] \in Entry
    /\ heap[0] = <<>>
    /\ ItemsOf(file) \subseteq Entry /\ \A c \in tmp : ItemsOf(c) \subseteq Entry
    /\ ArraysOf(config) \subseteq Arrays
    /\ running \subseteq Tasks
    /\ Cardinality(tmp) <= 1
    /\ now \in 1 .. MaxNow /\ boots \in 0 .. MaxBoots
    /\ loaded => scheduled /\ config # Nil
    /\ \A p \in Procs :
          /\ pc[p] \in Labels
          /\ job[p].copy \in Entry
          /\ mine[p] # Nil => pc[p] \in {"edit", "rest"}
          /\ at[p] # "closed" => pc[p] = "put"

\* A task is checked by one process at a time, whatever unloads and loads come in
\* between, and it is marked for as long as that lasts and no longer.
RunsAlone ==
    /\ running = {job[p].id : p \in {q \in Procs : Executing(q)}}
    /\ \A p, q \in Procs : Executing(p) /\ Executing(q) /\ p # q => job[p].id # job[q].id

\* Unless two writers have had the temporary file at once, config.json parses,
\* wherever the process may have been ended.
WholeFile == ~clash => Parses(file)

\* However updates overlap, memory agrees with the file when none is under way,
\* unless two writers have had the temporary file at once or a write has failed.
QuietAgrees ==
    ~clash /\ ~failed /\ loaded /\ (\A p \in Procs : ~Updating(pc[p]))
    => Content(config) = file

\* A task that has been checked is not due again before an interval that somebody has
\* set is over, whatever saves, restarts, lost updates and older copies of it come in
\* between, unless a save has combined its old next time with a last run it had not
\* seen, or others could see just one of the two assigned.
SpacedRuns ==
    ~mixed => \A e \in ItemsOf(file) \union ItemsOf(Content(config)) :
                 e.ran # 0 /\ e.next # 0 => \E p \in Posters : e.next >= e.ran + Interval[p]

\* While updates do not overlap and no write fails, an update changes nothing but
\* the task or the account it is about, and a check neither adds nor removes one.
OnlyItsOwn ==
    [][\A p \in Procs :
          Rename(p) /\ job[p].kind # "config" /\ ~overlap /\ ~failed =>
          /\ \A e \in (ItemsOf(file) \ ItemsOf(file')) \union (ItemsOf(file') \ ItemsOf(file)) :
                e.id = job[p].id
          /\ job[p].kind = "run" =>
                {e.id : e \in ItemsOf(file)} = {e.id : e \in ItemsOf(file')}]_vars

\* A check changes the times of a task and not its settings, which a save has left
\* "permanently stored".
RunKeepsSettings ==
    [][\A p \in Procs :
          Rename(p) /\ job[p].kind = "run" /\ ~overlap /\ ~failed =>
          \A e \in ItemsOf(file), f \in ItemsOf(file') :
             e.id = f.id => e.on = f.on /\ e.edit = f.edit]_vars

\* Every task that memory says is due is checked, put off, disabled or deleted in the
\* end, whatever updates fail or overlap, as long as the file can be read.
DueIsServed ==
    \A t \in Tasks :
        (scheduled /\ \E e \in TasksWith(t) : Due(e))
        ~> (~scheduled \/ ~Parses(file) \/ \A e \in TasksWith(t) : ~Due(e))

=============================================================================
