---------------------------- MODULE SampleRuntime ----------------------------
(***************************************************************************)
(* The Sample plugin as its host sees it: HTTP and MCP requests served at  *)
(* once over one item map, the background jobs, the message log, the skill *)
(* cards and the injected host address, and the service's life: an unload  *)
(* is answered first, and whichever request then finds the pending stop    *)
(* has the service shut down.                                              *)
(*                                                                         *)
(* The scheduled tasks, which share the config file, are SampleScheduler;  *)
(* here their writes are changes of the file from outside.  The number of  *)
(* a request stands for the content it brings.                             *)
(***************************************************************************)
EXTENDS Naturals, Sequences

CONSTANTS
    Threads,        \* goroutines of the HTTP server
    ItemIds,        \* ids that clients give to items
    CardIds,        \* ids of skill cards
    NoKey,          \* no id
    JobSteps,       \* 5: steps of a job
    MaxMessages,    \* 50: bound of the message log
    Offers,         \* sets of things that are considered together
    MaxRequests,    \* bound on requests
    MaxChanges      \* bound on changes of the config file from outside

Serials == 1..MaxRequests
Keys    == ItemIds \union Serials     \* nextSampleID gives numbers
InFile  == MaxRequests + 1            \* the content of an item of the file
Absent  == 0

ByItem == {"post", "put", "delete", "create", "update", "remove"}
ByCard == {"card", "dropCard"}
Mcp    == {"create", "update", "remove", "startJob", "listItems"}
Quiet  == Mcp \union {"stream"}       \* answered without a look at pendingStop
NoId   == {"post", "create", "load", "reload", "config", "unload", "auth", "status",
           "listItems", "stream", "job", "startJob", "message", "clear", "publish"}

Request  == [op : NoId \union ByItem \union ByCard, key : ItemIds \union CardIds \union {NoKey}]
Requests == [op : NoId, key : {NoKey}] \union [op : ByItem, key : ItemIds]
                \union [op : ByCard, key : CardIds]
NoRequest == [op |-> "status", key |-> NoKey]

ASSUME KeysAssumption ==
    /\ NoKey \notin ItemIds \union CardIds
    /\ ItemIds \intersect Serials = {}
ASSUME BoundsAssumption ==
    /\ {JobSteps, MaxMessages, MaxRequests} \subseteq Nat \ {0}
    /\ MaxChanges \in Nat
ASSUME OffersAssumption == 
    Offers \subseteq SUBSET (NoId \union ByItem \union ByCard \union {"signal", "change"})

VARIABLES
    offer,      \* what comes from outside: kinds of requests, "signal", "change"
    loaded,     \* h.loaded
    loadErr,    \* h.lastLoadErr # ""
    fresh,      \* the config file is newer than h.lastModified
    items,      \* h.items: the content by key
    file,       \* config.json: whether it parses, and the ids of its items
    changes,    \* changes of the file from outside so far
    hostAuth,   \* h.hostAuth: the injection its URL and its token come from
    injections, \* injections so far
    messageLog, \* h.messageLog
    jobs,       \* h.jobs: 1 + progress by id
    workers,    \* workers[r]: the goroutine of the job request r started
    stamp,      \* the last number nextSampleID has given
    cards,      \* skill-cards.json: "whole", "blank" or "torn", and what it holds
    pendingStop,
    life,       \* "up"; "asked": shutdown() is about to run; "closing"; "down"
    started,    \* requests so far
    pc, req,    \* pc[t], req[t]: where thread t is, and in which request
    serial,     \* serial[t]: the number of that request
    pub,        \* pub[t]: the host's URL and token that a publish has read
    view,       \* view[t]: the cards that an update is about to write
    held,       \* items acknowledged and not given up since (history)
    overtaken,  \* requests whose ensureLoaded no longer counts (history)
    arrived,    \* messages since the log was last cleared (history)
    twins,      \* ids of jobs given twice (history)
    kept,       \* cards acknowledged (history)
    clash,      \* two updates of the cards have met (history)
    cut         \* a write of the cards has failed once the file was empty (history)

loadVars == <<loaded, loadErr, fresh>>
itemVars == <<items, held, overtaken>>
fileVars == <<file, changes>>
hostVars == <<hostAuth, injections>>
msgVars  == <<messageLog, arrived>>
jobVars  == <<jobs, workers, twins>>
cardVars == <<cards, view, kept, clash, cut>>
lifeVars == <<pendingStop, life>>
reqVars  == <<offer, started, req, serial>>
vars == <<loadVars, itemVars, fileVars, hostVars, msgVars, jobVars, stamp, cardVars,
          lifeVars, reqVars, pub, pc>>

NoItems  == [k \in Keys |-> Absent]
NoCards  == [c \in CardIds |-> Absent]
NoWorker == [id |-> 0, done |-> 0]
NoPub    == [url |-> 0, token |-> 0, seen |-> 0]

\* main loads before it listens; when that fails it listens all the same.
Init ==
    /\ offer \in Offers
    /\ file \in [ok : BOOLEAN, ids : {{}, ItemIds}]
    /\ loaded = file.ok
    /\ loadErr = ~file.ok
    /\ items = [k \in Keys |-> IF file.ok /\ k \in file.ids THEN InFile ELSE Absent]
    /\ fresh = FALSE /\ changes = 0
    /\ hostAuth = [url |-> 0, token |-> 0] /\ injections = 0
    /\ messageLog = <<>> /\ arrived = <<>>
    /\ jobs = [n \in Serials |-> Absent]
    /\ workers = [r \in Serials |-> NoWorker]
    /\ stamp = 0 /\ twins = {}
    /\ cards = [state |-> "whole", list |-> NoCards]
    /\ view = [t \in Threads |-> NoCards]
    /\ kept = NoCards /\ clash = FALSE /\ cut = FALSE
    /\ held = NoItems /\ overtaken = {}
    /\ pendingStop = FALSE /\ life = "up"
    /\ started = 0
    /\ pc = [t \in Threads |-> "idle"]
    /\ req = [t \in Threads |-> NoRequest]
    /\ serial = [t \in Threads |-> 0]
    /\ pub = [t \in Threads |-> NoPub]

-----------------------------------------------------------------------------
(* Helpers *)

Running  == life # "down"
At(t, label) == Running /\ pc[t] = label
Goto(t, label) == pc' = [pc EXCEPT ![t] = label]
Op(t)    == req[t].op

\* nextSampleID is the clock: it has moved on since the last call, or not.
NextId(n) ==
    /\ n \in {stamp, stamp + 1} \ {0}
    /\ stamp' = n

\* From here on the items of memory may be given up for those of the file, and
\* what is still to be stored under an earlier ensureLoaded with them.
GiveUpItems ==
    /\ held' = NoItems
    /\ overtaken' = overtaken \union {t \in Threads : pc[t] = "change"}

\* A mutant: the time of the file is not noted.
NotedLate == fresh' = fresh

Noted == fresh' = FALSE

\* loadConfig, when it reads the file.
Load(ok) ==
    /\ ok = file.ok
    /\ loaded' = ok
    /\ loadErr' = ~ok
    /\ IF ok
       THEN /\ items' = [k \in Keys |-> IF k \in file.ids THEN InFile ELSE Absent]
            /\ Noted
       ELSE UNCHANGED <<items, fresh>>

-----------------------------------------------------------------------------
(* ServeHTTP *)

FirstStep(op) ==
    CASE op \in ByItem \union {"listItems"} -> "ensure"
      [] op \in ByCard                      -> "readCards"
      [] op = "load"                        -> "load"
      [] op = "reload"                      -> "clear"
      [] op = "config"                      -> "put"
      [] op = "publish"                     -> "readURL"
      [] op \in {"status", "stream"}        -> "answer"
      [] OTHER                              -> "act"

\* A request arrives, and some goroutine that is free serves it.  The listener is
\* open until shutdown() closes it.
Begin(t, r) ==
    /\ At(t, "idle") /\ life # "closing"
    /\ t = CHOOSE u \in Threads : pc[u] = "idle"
    /\ started < MaxRequests /\ r.op \in offer
    /\ started' = started + 1
    /\ serial' = [serial EXCEPT ![t] = started + 1]
    /\ req' = [req EXCEPT ![t] = r]
    /\ Goto(t, FirstStep(r.op))
    /\ UNCHANGED <<offer, loadVars, itemVars, fileVars, hostVars, msgVars, jobVars, stamp,
                   cardVars, lifeVars, pub>>

\* MCP and streams return at once; all others take the pending stop, whoever
\* asked for it.
Answer(t) ==
    /\ At(t, "answer")
    /\ IF Op(t) \in Quiet
       THEN Goto(t, "return") /\ UNCHANGED lifeVars
       ELSE /\ Goto(t, IF pendingStop THEN "stop" ELSE "return")
            /\ pendingStop' = FALSE
            /\ UNCHANGED life
    /\ UNCHANGED <<loadVars, itemVars, fileVars, hostVars, msgVars, jobVars, stamp,
                   cardVars, reqVars, pub>>

\* A mutant: only the request that unloaded goes on to shut down.
AskOfUnload(t) == life' = IF life = "up" /\ Op(t) = "unload" THEN "asked" ELSE life

Ask(t) == life' = IF life = "up" THEN "asked" ELSE life

\* The answer is flushed and shutdown() started in a goroutine of its own.
RequestShutdown(t) ==
    /\ At(t, "stop")
    /\ Ask(t)
    /\ Goto(t, "return")
    /\ UNCHANGED <<loadVars, itemVars, fileVars, hostVars, msgVars, jobVars, stamp,
                   cardVars, pendingStop, reqVars, pub>>

\* The server sends the end of the answer.
Return(t) ==
    /\ At(t, "return")
    /\ Goto(t, "idle")
    /\ pub' = [pub EXCEPT ![t] = NoPub]
    /\ view' = [view EXCEPT ![t] = NoCards]
    /\ req' = [req EXCEPT ![t] = NoRequest]
    /\ serial' = [serial EXCEPT ![t] = 0]
    /\ UNCHANGED <<loadVars, itemVars, fileVars, hostVars, msgVars, jobVars, stamp,
                   cards, kept, clash, cut, lifeVars, offer, started>>

\* shutdown() closes the listener, and ListenAndServe returns to main, which
\* does not wait for the requests under way.
Shutdown ==
    /\ life = "asked" /\ life' = "closing"
    /\ UNCHANGED <<loadVars, itemVars, fileVars, hostVars, msgVars, jobVars, stamp,
                   cardVars, pendingStop, reqVars, pub, pc>>
MainReturns ==
    /\ life = "closing" /\ life' = "down"
    /\ UNCHANGED <<loadVars, itemVars, fileVars, hostVars, msgVars, jobVars, stamp,
                   cardVars, pendingStop, reqVars, pub, pc>>
Signal ==
    /\ "signal" \in offer
    /\ life = "up" /\ life' = "asked"
    /\ UNCHANGED <<loadVars, itemVars, fileVars, hostVars, msgVars, jobVars, stamp,
                   cardVars, pendingStop, reqVars, pub, pc>>

-----------------------------------------------------------------------------
(* Load, reload, unload, configuration *)

\* Only the loads by force come here.
ForcedLoad(t) ==
    /\ At(t, "load")
    /\ \E ok \in BOOLEAN : Load(ok) /\ Goto(t, IF ok THEN "answer" ELSE "note")
    /\ GiveUpItems
    /\ UNCHANGED <<fileVars, hostVars, msgVars, jobVars, stamp, cardVars, lifeVars,
                   reqVars, pub>>

\* loadResponse notes the error again, later; somebody may have loaded by then.
NoteError(t) ==
    /\ At(t, "note")
    /\ loadErr' = TRUE
    /\ Goto(t, "answer")
    /\ GiveUpItems
    /\ UNCHANGED <<loaded, fresh, items, fileVars, hostVars, msgVars, jobVars, stamp,
                   cardVars, lifeVars, reqVars, pub>>

ClearLoaded(t) ==
    /\ At(t, "clear")
    /\ loaded' = FALSE
    /\ Goto(t, "load")
    /\ GiveUpItems
    /\ UNCHANGED <<loadErr, fresh, items, fileVars, hostVars, msgVars, jobVars, stamp,
                   cardVars, lifeVars, reqVars, pub>>

\* handleConfigAPI writes what it is sent; the write may fail.
PutConfig(t) ==
    /\ At(t, "put")
    /\ \/ /\ \E ids \in {{}, ItemIds} : file' = [ok |-> TRUE, ids |-> ids]
          /\ fresh' = TRUE
          /\ GiveUpItems
          /\ Goto(t, "clear")
       \/ /\ Goto(t, "answer")
          /\ UNCHANGED <<file, fresh, held, overtaken>>
    /\ UNCHANGED <<loaded, loadErr, items, changes, hostVars, msgVars, jobVars, stamp,
                   cardVars, lifeVars, reqVars, pub>>

\* The scheduler or an editor writes the file.
FileChanges ==
    /\ Running /\ "change" \in offer /\ changes < MaxChanges
    /\ changes' = changes + 1
    /\ \E ok \in BOOLEAN : file' = [file EXCEPT !.ok = ok]
    /\ fresh' = TRUE
    /\ GiveUpItems
    /\ UNCHANGED <<loaded, loadErr, items, hostVars, msgVars, jobVars, stamp, cardVars,
                   lifeVars, reqVars, pub, pc>>

Unload(t) ==
    /\ At(t, "act") /\ Op(t) = "unload"
    /\ loaded' = FALSE
    /\ loadErr' = FALSE
    /\ fresh' = TRUE                    \* lastModified is zero
    /\ items' = NoItems
    /\ pendingStop' = TRUE
    /\ GiveUpItems
    /\ Goto(t, "answer")
    /\ UNCHANGED <<fileVars, hostVars, msgVars, jobVars, stamp, cardVars, life, reqVars,
                   pub>>

-----------------------------------------------------------------------------
(* Items *)

\* ensureLoaded: the file is read unless it is loaded and has not changed.
EnsureLoaded(t) ==
    /\ At(t, "ensure")
    /\ \E ok \in BOOLEAN :
        /\ IF loaded /\ ~loadErr /\ ~fresh
           THEN ok /\ UNCHANGED <<loadVars, items>>
           ELSE Load(ok)
        /\ Goto(t, IF ok /\ Op(t) \in ByItem THEN "change" ELSE "answer")
    /\ UNCHANGED <<held, overtaken, fileVars, hostVars, msgVars, jobVars, stamp, cardVars, lifeVars,
                   reqVars, pub>>

\* What createSampleMCPItem and updateSampleMCPItem refuse.
Refused(op, k) ==
    \/ op = "create" /\ items[k] # Absent
    \/ op = "update" /\ items[k] = Absent

Store(t, k) ==
    /\ items' = [items EXCEPT ![k] = serial[t]]
    /\ held' = [held EXCEPT ![k] =
                    IF t \in overtaken THEN Absent
                    ELSE IF Op(t) = "create" /\ @ # Absent THEN @ ELSE serial[t]]

StoreItem(t) ==
    /\ At(t, "change") /\ Op(t) \in {"post", "put", "create", "update"}
    /\ IF req[t].key = NoKey
       THEN \E n \in Serials :
                /\ NextId(n)
                /\ IF Refused(Op(t), n) THEN UNCHANGED <<items, held>> ELSE Store(t, n)
       ELSE /\ UNCHANGED stamp
            /\ IF Refused(Op(t), req[t].key) THEN UNCHANGED <<items, held>>
                                             ELSE Store(t, req[t].key)
    /\ overtaken' = overtaken \ {t}
    /\ Goto(t, "answer")
    /\ UNCHANGED <<loadVars, fileVars, hostVars, msgVars, jobVars, cardVars,
                   lifeVars, reqVars, pub>>

DeleteItem(t) ==
    /\ At(t, "change") /\ Op(t) \in {"delete", "remove"}
    /\ items' = [items EXCEPT ![req[t].key] = Absent]
    /\ held' = [held EXCEPT ![req[t].key] = Absent]
    /\ overtaken' = overtaken \ {t}
    /\ Goto(t, "answer")
    /\ UNCHANGED <<loadVars, fileVars, hostVars, msgVars, jobVars, stamp,
                   cardVars, lifeVars, reqVars, pub>>

-----------------------------------------------------------------------------
(* Jobs *)

StartJob(t) ==
    /\ At(t, "act") /\ Op(t) \in {"job", "startJob"}
    /\ \E n \in Serials :
        /\ NextId(n)
        /\ jobs' = [jobs EXCEPT ![n] = 1]
        /\ twins' = IF jobs[n] = Absent THEN twins ELSE twins \union {n}
        /\ workers' = [workers EXCEPT ![serial[t]] = [id |-> n, done |-> 0]]
    /\ Goto(t, "answer")
    /\ UNCHANGED <<loadVars, itemVars, fileVars, hostVars, msgVars, cardVars, lifeVars,
                   reqVars, pub>>

\* runSampleJob, 250 ms later.
RunJob(r) ==
    /\ Running
    /\ workers[r].id # 0 /\ workers[r].done < JobSteps
    /\ workers' = [workers EXCEPT ![r].done = @ + 1]
    /\ jobs' = [jobs EXCEPT ![workers[r].id] = workers[r].done + 2]
    /\ UNCHANGED twins
    /\ UNCHANGED <<loadVars, itemVars, fileVars, hostVars, msgVars, stamp, cardVars,
                   lifeVars, reqVars, pub, pc>>

-----------------------------------------------------------------------------
(* Messages *)

\* A mutant: one message too many is kept.
LastAndOne(s, n) == IF Len(s) <= n THEN s ELSE SubSeq(s, Len(s) - n, Len(s))

Last(s, n) == IF Len(s) <= n THEN s ELSE SubSeq(s, Len(s) - n + 1, Len(s))

ReceiveMessage(t) ==
    /\ At(t, "act") /\ Op(t) = "message"
    /\ messageLog' = Last(Append(messageLog, serial[t]), MaxMessages)
    /\ arrived' = Append(arrived, serial[t])
    /\ Goto(t, "answer")
    /\ UNCHANGED <<loadVars, itemVars, fileVars, hostVars, jobVars, stamp, cardVars,
                   lifeVars, reqVars, pub>>

ClearMessages(t) ==
    /\ At(t, "act") /\ Op(t) = "clear"
    /\ messageLog' = <<>> /\ arrived' = <<>>
    /\ Goto(t, "answer")
    /\ UNCHANGED <<loadVars, itemVars, fileVars, hostVars, jobVars, stamp, cardVars,
                   lifeVars, reqVars, pub>>

-----------------------------------------------------------------------------
(* The host: its injections, and messages published to it *)

\* A mutant: the address stays when the injection brings none.
InjectedInto(n, url) == [url |-> IF url = 0 THEN hostAuth.url ELSE url, token |-> n]

Injected(n, url) == [url |-> url, token |-> n]

\* authResponse; without an address in it the environment's counts (0).
Authorize(t) ==
    /\ At(t, "act") /\ Op(t) = "auth"
    /\ injections' = injections + 1
    /\ \E url \in {0, injections + 1} : hostAuth' = Injected(injections + 1, url)
    /\ Goto(t, "answer")
    /\ UNCHANGED <<loadVars, itemVars, fileVars, msgVars, jobVars, stamp, cardVars,
                   lifeVars, reqVars, pub>>

\* hostBaseURL; without any address, the environment's included, it ends here.
ReadHostURL(t) ==
    /\ At(t, "readURL")
    /\ pub' = [pub EXCEPT ![t] = [url |-> hostAuth.url, token |-> @.token,
                                  seen |-> hostAuth.token]]
    /\ \/ Goto(t, "readToken")
       \/ hostAuth.url = 0 /\ Goto(t, "answer")
    /\ UNCHANGED <<loadVars, itemVars, fileVars, hostVars, msgVars, jobVars, stamp,
                   cardVars, lifeVars, reqVars>>

\* HostAuthHeaders, in a critical section of its own.
ReadHostToken(t) ==
    /\ At(t, "readToken")
    /\ pub' = [pub EXCEPT ![t].token = hostAuth.token]
    /\ Goto(t, IF hostAuth.token = 0 THEN "answer" ELSE "send")
    /\ UNCHANGED <<loadVars, itemVars, fileVars, hostVars, msgVars, jobVars, stamp,
                   cardVars, lifeVars, reqVars>>

\* The host answers, or the eight seconds are over.
Publish(t) ==
    /\ At(t, "send")
    /\ Goto(t, "answer")
    /\ UNCHANGED <<loadVars, itemVars, fileVars, hostVars, msgVars, jobVars, stamp,
                   cardVars, lifeVars, reqVars, pub>>

-----------------------------------------------------------------------------
(* Skill cards: read, changed and written in place, without a lock *)

Updating(t) == pc[t] \in {"truncate", "fill"}
Meets(t)    == \E u \in Threads \ {t} : Updating(u)

ReadCards(t) ==
    /\ At(t, "readCards")
    /\ IF cards.state = "whole"
       THEN /\ view' = [view EXCEPT ![t] = [cards.list EXCEPT ![req[t].key] =
                            IF Op(t) = "card" THEN serial[t] ELSE Absent]]
            /\ clash' = (clash \/ Meets(t))
            /\ Goto(t, "truncate")
       ELSE Goto(t, "answer") /\ UNCHANGED <<view, clash>>
    /\ UNCHANGED <<loadVars, itemVars, fileVars, hostVars, msgVars, jobVars, stamp,
                   cards, kept, cut, lifeVars, reqVars, pub>>

\* os.WriteFile empties the file and then writes it.
TruncateCards(t) ==
    /\ At(t, "truncate")
    /\ cards' = [state |-> "blank", list |-> NoCards]
    /\ Goto(t, "fill")
    /\ UNCHANGED <<loadVars, itemVars, fileVars, hostVars, msgVars, jobVars, stamp,
                   view, kept, clash, cut, lifeVars, reqVars, pub>>

\* Over what another has written since, the end of the longer one may stay.
FillCards(t) ==
    /\ At(t, "fill")
    /\ \/ cards' = [state |-> "whole", list |-> view[t]]
       \/ cards.state # "blank" /\ cards' = [state |-> "torn", list |-> NoCards]
    /\ kept' = [kept EXCEPT ![req[t].key] = IF Op(t) = "card" THEN serial[t] ELSE Absent]
    /\ Goto(t, "answer")
    /\ UNCHANGED <<loadVars, itemVars, fileVars, hostVars, msgVars, jobVars, stamp,
                   view, clash, cut, lifeVars, reqVars, pub>>

\* The directory or the file cannot be opened: an error, and the file is as it was.
OpenCardsFails(t) ==
    /\ At(t, "truncate")
    /\ Goto(t, "answer")
    /\ UNCHANGED <<loadVars, itemVars, fileVars, hostVars, msgVars, jobVars, stamp,
                   cardVars, lifeVars, reqVars, pub>>

\* A write that fails: nothing, a part or all of it may be in the file.
FillCardsFails(t) ==
    /\ At(t, "fill")
    /\ cards' \in {cards, [state |-> "torn", list |-> NoCards],
                   [state |-> "whole", list |-> view[t]]}
    /\ cut' = TRUE
    /\ Goto(t, "answer")
    /\ UNCHANGED <<loadVars, itemVars, fileVars, hostVars, msgVars, jobVars, stamp,
                   view, kept, clash, lifeVars, reqVars, pub>>

-----------------------------------------------------------------------------
(* Specification *)

Step(t) ==
    \/ Answer(t) \/ RequestShutdown(t) \/ Return(t)
    \/ ForcedLoad(t) \/ NoteError(t) \/ ClearLoaded(t) \/ PutConfig(t) \/ Unload(t)
    \/ EnsureLoaded(t) \/ StoreItem(t) \/ DeleteItem(t)
    \/ StartJob(t) \/ ReceiveMessage(t) \/ ClearMessages(t)
    \/ Authorize(t) \/ ReadHostURL(t) \/ ReadHostToken(t) \/ Publish(t)
    \/ ReadCards(t) \/ TruncateCards(t) \/ FillCards(t)
    \/ OpenCardsFails(t) \/ FillCardsFails(t)

Next ==
    \/ \E t \in Threads : Step(t) \/ \E r \in Requests : Begin(t, r)
    \/ \E r \in Serials : RunJob(r)
    \/ FileChanges \/ Shutdown \/ MainReturns \/ Signal

Spec == Init /\ [][Next]_vars

\* Requests that have begun and the end of the process go on; nothing obliges
\* anybody to make requests, to change the file or to send a signal.
FairSpec ==
    /\ Spec
    /\ \A t \in Threads : WF_vars(Step(t))
    /\ WF_vars(Shutdown) /\ WF_vars(MainReturns)

-----------------------------------------------------------------------------
(* Properties *)

Labels == {"idle", "act", "load", "note", "clear", "put", "ensure", "change", "readURL",
           "readToken", "send", "readCards", "truncate", "fill", "answer", "stop", "return"}

\* What the variables may be; jobs and generated ids are numbered from one.
TypeOK ==
    /\ {loaded, loadErr, fresh, pendingStop, clash, cut} \subseteq BOOLEAN
    /\ file \in [ok : BOOLEAN, ids : SUBSET ItemIds]
    /\ {changes, injections, stamp, started} \subseteq Nat
    /\ items \in [Keys -> {Absent, InFile} \union Serials]
    /\ held \in [Keys -> {Absent} \union Serials]
    /\ hostAuth \in [url : Nat, token : Nat]
    /\ messageLog \in Seq(Serials) /\ Len(messageLog) <= MaxMessages
    /\ arrived \in Seq(Serials)
    /\ jobs \in [Serials -> 0..(JobSteps + 1)]
    /\ workers \in [Serials -> [id : {0} \union Serials, done : 0..JobSteps]]
    /\ cards \in [state : {"whole", "blank", "torn"}, list : [CardIds -> {Absent} \union Serials]]
    /\ view \in [Threads -> [CardIds -> {Absent} \union Serials]]
    /\ kept \in [CardIds -> {Absent} \union Serials]
    /\ pub \in [Threads -> [url : Nat, token : Nat, seen : Nat]]
    /\ life \in {"up", "asked", "closing", "down"}
    /\ pc \in [Threads -> Labels]
    /\ req \in [Threads -> Request]
    /\ offer \in Offers
    /\ serial \in [Threads -> {0} \union Serials]
    /\ twins \subseteq Serials /\ overtaken \subseteq Threads

ItemsStay == \A k \in Keys : held[k] # Absent => items[k] = held[k]

JobsStay ==
    \A r \in Serials : workers[r].id \notin {0} \union twins =>
        jobs[workers[r].id] = workers[r].done + 1

MessagesStay == messageLog = Last(arrived, MaxMessages)

CardsStay ==
    ~clash /\ ~cut /\ (\A t \in Threads : pc[t] # "fill") =>
        cards = [state |-> "whole", list |-> kept]

\* What a request has been told is there stays there, whatever else goes on: an
\* item until it is deleted or replaced, not by an MCP create, or until somebody
\* unloads, loads, fails to or changes the file; a job with its progress, unless
\* its id was given twice; the newest messages in their order; and the cards, as
\* long as two updates have not met and none was cut short, by the process's end or
\* by a write that fails once it has emptied the file.
AcknowledgedStays == ItemsStay /\ JobsStay /\ MessagesStay /\ CardsStay

\* A publish sends an injected host the token injected with its address, or one
\* injected since the publish began: never a token older than the address, and
\* never an address the host's latest word had replaced.
TokenFitsHost ==
    \A t \in Threads : pc[t] = "send" =>
        /\ pub[t].url \in {0, pub[t].seen}
        /\ pub[t].token >= pub[t].seen

\* Once an unload has run, the service goes down, whichever request takes the
\* pending stop and whatever the others do: load again, fail, or never end.
UnloadEnds == pendingStop ~> life = "down"

=============================================================================
