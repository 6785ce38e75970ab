--------------------------- MODULE SampleScheduler ---------------------------
(***************************************************************************)
(* The scheduled tasks of the Sample plugin: the 30-second ticker, manual  *)
(* runs, termination, edits of the task list, unload and restart, and the  *)
(* config file through which they all go.                                  *)
(*                                                                         *)
(* An update changes the task array in memory under h.mu, releases h.mu,   *)
(* and then writes the file from that same array, which other updates may  *)
(* be changing; every writer uses the one path config.json.tmp.  A load    *)
(* replaces the array, and an update in flight keeps the old one.  A write *)
(* that fails leaves the change in memory and tells only its caller.       *)
(*                                                                         *)
(* A thread stands for one run, one termination or one edit; a run's       *)
(* thread is also its token.                                               *)
(***************************************************************************)
EXTENDS Naturals, FiniteSets

CONSTANTS
    Tasks,      \* the tasks of the plugin
    Spellings,  \* spellings of a task id that strings.EqualFold identifies
    Listed,     \* the spelling the task list has
    Threads,    \* each performs at most one operation
    NoRun,      \* no token
    Lease,      \* 15 minutes, in steps of the clock
    Interval,   \* interval_minutes, in steps of the clock
    MaxNow,     \* bound on the clock
    MaxBoots    \* bound on the number of times the service is restarted

ASSUME SpellingAssumption == Listed \in Spellings
ASSUME NoRunAssumption == NoRun \notin Threads
ASSUME TimesAssumption == {Lease, Interval} \subseteq Nat \ {0}
ASSUME BoundsAssumption == {MaxNow, MaxBoots} \subseteq Nat

VARIABLES
    tasks,    \* h.config.ScheduledTasks
    loaded,   \* h.loaded
    loadErr,  \* h.lastLoadErr # ""
    fresh,    \* the config file is newer than h.lastModified
    marks,    \* the keys of h.scheduledRunning
    ticker,   \* the ticker goroutine: "on", "stopping" (stop closed) or "off"
    todo,     \* tasks of the current tick still to be started
    now,      \* the clock
    boots,    \* restarts so far
    file,     \* contents of config.json
    tmp,      \* contents of config.json.tmp
    pc,       \* pc[p]: where thread p is
    job,      \* job[p]: the operation of thread p
    view,     \* view[p]: task lists p may find when it copies what it writes
    live,     \* threads whose array is still h.config's
    target,   \* target[p]: the file p's open handle leads to
    unsaved,  \* tasks a change of which could not be written (history)
    log,      \* <<run, outcome>> pairs in the execution log
    lost,     \* runs whose mark somebody else removed (history)
    overlap   \* an update has met another, a load or an unload (history)

schedVars == <<marks, ticker, todo>>
memVars   == <<tasks, loaded, loadErr, fresh>>
diskVars  == <<file, tmp, target, unsaved>>
viewVars  == <<view, live>>
vars == <<memVars, schedVars, now, boots, diskVars, viewVars, pc, job, log, lost, overlap>>

Task == [there : BOOLEAN, on : BOOLEAN, token : Threads \union {NoRun},
         until : Nat, next : Nat]
NoTask == [there |-> FALSE, on |-> FALSE, token |-> NoRun, until |-> 0, next |-> 0]
NoTasks == [t \in Tasks |-> NoTask]
NoJob == [kind |-> "none", task |-> CHOOSE t \in Tasks : TRUE, as |-> Listed,
          manual |-> FALSE, victim |-> NoRun]
Job(kind, t, as, manual) == [NoJob EXCEPT !.kind = kind, !.task = t, !.as = as,
                                          !.manual = manual]

Missing == [state |-> "missing", list |-> NoTasks]
Blank   == [state |-> "blank",   list |-> NoTasks]
Broken  == [state |-> "broken",  list |-> NoTasks]
Whole(list) == [state |-> "whole", list |-> list]

\* Tasks that have just been configured: enabled, due at time 1.
Configured == [t \in Tasks |-> [NoTask EXCEPT !.there = TRUE, !.on = TRUE, !.next = 1]]

Init ==
    /\ tasks = Configured
    /\ loaded = TRUE
    /\ loadErr = FALSE
    /\ fresh = FALSE
    /\ marks = {}
    /\ ticker = "on"
    /\ todo = {}
    /\ now = 0
    /\ boots = 0
    /\ file = Whole(Configured)
    /\ tmp = Missing
    /\ pc = [p \in Threads |-> "idle"]
    /\ job = [p \in Threads |-> NoJob]
    /\ view = [p \in Threads |-> {}]
    /\ live = {}
    /\ target = [p \in Threads |-> "none"]
    /\ unsaved = {}
    /\ log = {}
    /\ lost = {}
    /\ overlap = FALSE

-----------------------------------------------------------------------------
(* Helpers *)

Goto(p, label) == pc' = [pc EXCEPT ![p] = label]

Running(task) == task.until > now

\* sampleScheduledTaskDue; an enabled task always has a next run time.
Due(task) == task.there /\ task.on /\ ~Running(task) /\ task.next <= now

\* sanitizeSampleScheduledTasks: a task gets a next run time when it is enabled
\* and loses it when it is disabled.
Sanitize(list) ==
    [t \in Tasks |->
        [list[t] EXCEPT !.next =
            IF ~list[t].on THEN 0 ELSE IF @ = 0 THEN now + Interval ELSE @]]

\* The fields of a task that change in place, each as it was at some moment
\* since the writer released h.mu: the copy is not synchronised.
Copies(lists) ==
    {[t \in Tasks |-> [from[t][1][t] EXCEPT !.until = from[t][2][t].until,
                                            !.next  = from[t][3][t].next]] :
        from \in [Tasks -> lists \X lists \X lists]}

\* Updates: from the load that starts one to the end of its write; an edit
\* starts when its author reads the list.
Updating(label) == label \in {"load", "lock", "open", "write", "rename", "reload"}
Watch == overlap' = (overlap \/ \E p, q \in Threads :
                        p # q /\ Updating(pc'[p]) /\ Updating(pc'[q]))

\* Replace the array: every update in flight keeps the one it has.
Install(list) ==
    /\ tasks' = list
    /\ live' = {}

\* loadConfig: read the file unless it may be skipped.  ok says how it ends.
Reads(force) == force \/ ~loaded \/ loadErr \/ fresh
LoadConfig(force, ok) ==
    IF ~Reads(force)
    THEN ok /\ UNCHANGED <<memVars, live>>
    ELSE /\ ok = (file.state = "whole")
         /\ IF ok
            THEN Install(Sanitize(file.list)) /\ fresh' = FALSE
            ELSE UNCHANGED <<tasks, live, fresh>>
         /\ loaded' = ok
         /\ loadErr' = ~ok

\* A step outside the updates that replaces the array, perhaps during one.
Meet(replaces) ==
    overlap' = (overlap \/ (replaces /\ \E p \in Threads : Updating(pc[p])))
LoadAside(force, ok) == LoadConfig(force, ok) /\ Meet(Reads(force))

\* Change the shared array in place; every update that still has it may copy the
\* change.  p starts its own view.
CopiedBefore(old, new) == {old}
Copied(old, new) == {new}
Change(p, t, task) ==
    /\ tasks' = [tasks EXCEPT ![t] = task]
    /\ live' = live \union {p}
    /\ view' = [q \in Threads |-> IF q = p THEN Copied(tasks, tasks')
                                  ELSE IF q \in live THEN view[q] \union {tasks'}
                                  ELSE view[q]]

-----------------------------------------------------------------------------
(* Starting a run *)

\* The ticker goroutine itself carries out the reservation it has begun.
Reserving == \E p \in Threads :
    Updating(pc[p]) /\ job[p].kind = "reserve" /\ ~job[p].manual

\* A tick: load the config if need be, and list the tasks that are due.
Tick ==
    /\ ticker \in {"on", "stopping"}
    /\ todo = {}
    /\ ~Reserving
    /\ \E ok \in BOOLEAN :
          /\ LoadAside(FALSE, ok)
          /\ todo' = IF ok THEN {t \in Tasks : Due(tasks'[t])} ELSE {}
    /\ UNCHANGED <<marks, ticker, now, boots, diskVars, view, pc, job, log, lost>>

\* The select of a stopped loop may take one more tick before it sees stop.
StopTicker ==
    /\ ticker = "stopping"
    /\ todo = {}
    /\ ticker' = "off"
    /\ UNCHANGED <<memVars, marks, todo, now, boots, diskVars, viewVars, pc, job,
                   log, lost, overlap>>

MarkAlways(key) == marks' = marks \union {key}
Mark(key) == key \notin marks /\ marks' = marks \union {key}

\* startScheduledTaskRunAsync: mark the task as running.
Start(p, t, as, manual) ==
    /\ pc[p] = "idle"
    /\ Mark(<<t, as>>)
    /\ job' = [job EXCEPT ![p] = Job("reserve", t, as, manual)]
    /\ Goto(p, "load")
    /\ Watch
    /\ UNCHANGED <<memVars, ticker, now, boots, diskVars, viewVars, log, lost>>

\* The ticker starts what is due, one reservation after the other.
AutoStart(p, t) ==
    /\ t \in todo
    /\ ~Reserving
    /\ Start(p, t, Listed, FALSE)
    /\ todo' = todo \ {t}

\* A task that is marked already is passed over.
PassOver(t) ==
    /\ t \in todo
    /\ ~Reserving
    /\ <<t, Listed>> \in marks
    /\ todo' = todo \ {t}
    /\ UNCHANGED <<memVars, marks, ticker, now, boots, diskVars, viewVars, pc, job,
                   log, lost, overlap>>

ManualStart(p, t, as) == Start(p, t, as, TRUE) /\ UNCHANGED todo

\* The reservation refuses, or takes a lease and a new token in memory.
Refuses(p, t) ==
    \/ ~tasks[t].there
    \/ ~job[p].manual /\ ~Due(tasks[t])
    \/ Running(tasks[t])
Reserve(p) ==
    /\ pc[p] = "lock"
    /\ job[p].kind = "reserve"
    /\ LET t == job[p].task IN
       \/ /\ Refuses(p, t)
          /\ Goto(p, "unmark")
          /\ UNCHANGED <<memVars, viewVars>>
       \/ /\ ~Refuses(p, t)
          /\ Change(p, t, [tasks[t] EXCEPT !.token = p, !.until = now + Lease,
                                           !.next = now + Interval])
          /\ Goto(p, "open")
          /\ UNCHANGED <<loaded, loadErr, fresh>>
    /\ Watch
    /\ UNCHANGED <<schedVars, now, boots, diskVars, job, log, lost>>

\* The task's action (a mock result, or the start of a background job).
Execute(p) ==
    /\ pc[p] = "exec"
    /\ job' = [job EXCEPT ![p].kind = "finish"]
    /\ Goto(p, "load")
    /\ Watch
    /\ UNCHANGED <<memVars, schedVars, now, boots, diskVars, viewVars, log, lost>>

ClearUntil(task) == [task EXCEPT !.until = 0]
ClearLease(task) == [task EXCEPT !.token = NoRun, !.until = 0]

\* The run reports, unless its token is no longer the task's.
NeverSuperseded(p, task) == FALSE
Superseded(p, task) == task.token # p
Finish(p) ==
    /\ pc[p] = "lock"
    /\ job[p].kind = "finish"
    /\ LET t == job[p].task IN
       \/ /\ ~tasks[t].there
          /\ Goto(p, "report")
          /\ UNCHANGED <<tasks, viewVars>>
       \/ /\ tasks[t].there /\ Superseded(p, tasks[t])
          /\ Goto(p, "unmark")
          /\ UNCHANGED <<tasks, viewVars>>
       \/ /\ tasks[t].there /\ ~Superseded(p, tasks[t])
          /\ Change(p, t, ClearLease(tasks[t]))
          /\ Goto(p, "open")
    /\ Watch
    /\ UNCHANGED <<loaded, loadErr, fresh, schedVars, now, boots, diskVars, job, log, lost>>

\* Runs in flight other than p lose the marks they rely on.
InFlight(p) ==
    /\ job[p].kind \in {"reserve", "finish"}
    /\ pc[p] \notin {"idle", "done", "killed"}
Lose(keys, p) ==
    lost' = lost \union {q \in Threads \ {p} :
                            InFlight(q) /\ <<job[q].task, job[q].as>> \in keys}

\* The deferred release of the mark, whoever holds it by now.
KeepMark(key) == UNCHANGED marks
ReleaseMark(key) == marks' = marks \ {key}
Unmark(p) ==
    /\ pc[p] = "unmark"
    /\ ReleaseMark(<<job[p].task, job[p].as>>)
    /\ Goto(p, "done")
    /\ Lose({<<job[p].task, job[p].as>>}, p)
    /\ UNCHANGED <<memVars, ticker, todo, now, boots, diskVars, viewVars, job, log,
                   overlap>>

-----------------------------------------------------------------------------
(* The other operations *)

BeginTerminate(p, t, as) ==
    /\ pc[p] = "idle"
    /\ job' = [job EXCEPT ![p] = Job("terminate", t, as, TRUE)]
    /\ Goto(p, "load")
    /\ Watch
    /\ UNCHANGED <<memVars, schedVars, now, boots, diskVars, viewVars, log, lost>>

\* Take the lease, the token and the mark from whatever run has them.
Terminate(p) ==
    /\ pc[p] = "lock"
    /\ job[p].kind = "terminate"
    /\ LET t == job[p].task IN
       \/ /\ ~tasks[t].there \/ (tasks[t].token = NoRun /\ tasks[t].until = 0)
          /\ Goto(p, "done")
          /\ UNCHANGED <<tasks, viewVars, marks, job, lost>>
       \/ /\ tasks[t].there
          /\ tasks[t].token # NoRun \/ tasks[t].until # 0
          /\ Change(p, t, ClearLease(tasks[t]))
          /\ marks' = marks \ {<<t, job[p].as>>}
          /\ Lose({<<t, job[p].as>>}, p)
          /\ job' = [job EXCEPT ![p].victim = tasks[t].token]
          /\ Goto(p, "open")
    /\ Watch
    /\ UNCHANGED <<loaded, loadErr, fresh, ticker, todo, now, boots, diskVars, log>>

\* A request for the task list, which also loads the config if need be.
Read ==
    /\ \E ok \in BOOLEAN : LoadAside(FALSE, ok)
    /\ UNCHANGED <<schedVars, now, boots, diskVars, view, pc, job, log, lost>>

\* What the web page does to a task of the list it has: save it as it is, switch
\* it off or on, delete it, or add it.
Edits(task) ==
    {task,
     [task EXCEPT !.on = FALSE, !.token = NoRun, !.until = 0, !.next = 0],
     [task EXCEPT !.on = task.there, !.next = 0],
     NoTask,
     IF task.there THEN task ELSE [NoTask EXCEPT !.there = TRUE, !.on = TRUE]}

\* The author of an edit takes the list now and posts it back later.
BeginEdit(p, t) ==
    /\ pc[p] = "idle"
    /\ job' = [job EXCEPT ![p] = Job("edit", t, Listed, TRUE)]
    /\ \E edited \in Edits(tasks[t]) :
          view' = [view EXCEPT ![p] = {[tasks EXCEPT ![t] = edited]}]
    /\ Goto(p, "load")
    /\ Watch
    /\ UNCHANGED <<memVars, schedVars, now, boots, diskVars, live, log, lost>>

\* saveScheduledTasks, under h.mu: its list is its own, memory keeps the old one.
Save(p) ==
    /\ pc[p] = "lock"
    /\ job[p].kind = "edit"
    /\ view' = [view EXCEPT ![p] = {Sanitize(list) : list \in view[p]}]
    /\ Goto(p, "open")
    /\ Watch
    /\ UNCHANGED <<memVars, schedVars, now, boots, diskVars, live, job, log, lost>>

-----------------------------------------------------------------------------
(* The steps that operations share *)

\* A thread that gives up: a run still releases its mark, and reports an error
\* of its last part in lastLoadErr.
GiveUp(p) == Goto(p, CASE job[p].kind = "reserve" -> "unmark"
                       [] job[p].kind = "finish"  -> "report"
                       [] OTHER                   -> "done")
Report(p) ==
    /\ pc[p] = "report"
    /\ loadErr' = TRUE
    /\ Goto(p, "unmark")
    /\ UNCHANGED <<tasks, loaded, fresh, schedVars, now, boots, diskVars, viewVars, job,
                   log, lost, overlap>>

\* ensureLoaded at the start of an update.
Load(p) ==
    /\ pc[p] = "load"
    /\ \E ok \in BOOLEAN :
          /\ LoadConfig(FALSE, ok)
          /\ IF ok THEN Goto(p, "lock") ELSE GiveUp(p)
    /\ Watch
    /\ UNCHANGED <<schedVars, now, boots, diskVars, view, job, log, lost>>

\* os.WriteFile opens the temporary file and truncates it.
Open(p) ==
    /\ pc[p] = "open"
    /\ tmp' = Blank
    /\ target' = [target EXCEPT ![p] = "tmp"]
    /\ Goto(p, "write")
    /\ Watch
    /\ UNCHANGED <<memVars, schedVars, now, boots, file, unsaved, viewVars, job, log, lost>>

\* It writes from the start of wherever its handle leads.  Over what another
\* writer has put there the rest of a longer text remains.
Onto(old, list) == IF old = Blank THEN {Whole(list)} ELSE {Whole(list), Broken}
Into(p, tmps, files) ==
    \/ target[p] = "tmp"  /\ tmp' \in tmps   /\ UNCHANGED <<file, fresh>>
    \/ target[p] = "file" /\ file' \in files /\ fresh' \in {fresh, TRUE} /\ UNCHANGED tmp
    \/ target[p] = "gone" /\ UNCHANGED <<tmp, file, fresh>>
LetGo(p) ==
    /\ view' = [view EXCEPT ![p] = {}]
    /\ live' = live \ {p}
    /\ target' = [target EXCEPT ![p] = "none"]
Write(p) ==
    /\ pc[p] = "write"
    /\ \E list \in Copies(view[p]) :
          Into(p, Onto(tmp, Sanitize(list)), Onto(file, Sanitize(list)))
    /\ LetGo(p)
    /\ Goto(p, "rename")
    /\ Watch
    /\ UNCHANGED <<tasks, loaded, loadErr, schedVars, now, boots, unsaved, job, log, lost>>

\* os.Rename: open handles stay with the file they opened.  The modification time
\* is later than the loaded one unless the clock of the file system stood still.
Moved(handle) == CASE handle = "tmp" -> "file" [] handle = "file" -> "gone"
                   [] OTHER -> handle
Rename(p) ==
    /\ pc[p] = "rename"
    /\ tmp # Missing
    /\ file' = tmp
    /\ tmp' = Missing
    /\ fresh' \in {fresh, TRUE}
    /\ target' = [q \in Threads |-> Moved(target[q])]
    /\ Goto(p, CASE job[p].kind = "reserve" -> "exec"
                 [] job[p].kind = "edit"    -> "reload"
                 [] OTHER                   -> "log")
    /\ Watch
    /\ UNCHANGED <<tasks, loaded, loadErr, schedVars, now, boots, unsaved, viewVars, job,
                   log, lost>>

\* Any step of writeSampleConfig may fail: opening the temporary file, writing it
\* (some or all of the text is there by then), or renaming it, as it must when
\* another writer has renamed it before.  The change stays in memory.
Partly(old, list) == {old, Broken} \union Onto(old, list)
RemovedFirst == file' = Missing /\ UNCHANGED <<tmp, fresh>>
LeftAsTheyWere == UNCHANGED <<file, tmp, fresh>>
NotSaved(p) == unsaved' = unsaved \union IF job[p].kind = "edit" THEN {} ELSE {job[p].task}
Fails(p) ==
    /\ pc[p] \in {"open", "write", "rename"}
    /\ \/ pc[p] # "write" /\ LeftAsTheyWere
       \/ pc[p] = "write" /\ \E list \in Copies(view[p]) :
             Into(p, Partly(tmp, Sanitize(list)), Partly(file, Sanitize(list)))
    /\ LetGo(p)
    /\ NotSaved(p)
    /\ GiveUp(p)
    /\ Watch
    /\ UNCHANGED <<tasks, loaded, loadErr, schedVars, now, boots, job, log, lost>>

\* The end of saveScheduledTasks: load what was written.
Reload(p) ==
    /\ pc[p] = "reload"
    /\ \E ok \in BOOLEAN : LoadConfig(TRUE, ok)
    /\ Goto(p, "done")
    /\ Watch
    /\ UNCHANGED <<schedVars, now, boots, diskVars, view, job, log, lost>>

\* The outcome of a run goes to the execution log, appended in one write.
Log(p) ==
    /\ pc[p] = "log"
    /\ \/ job[p].kind = "finish"    /\ log' = log \union {<<p, "success">>}
                                    /\ Goto(p, "unmark")
       \/ job[p].kind = "terminate" /\ log' = log \union {<<job[p].victim, "terminated">>}
                                    /\ Goto(p, "done")
    /\ UNCHANGED <<memVars, schedVars, now, boots, diskVars, viewVars, job, lost, overlap>>

\* The log cannot be written: the caller has the error, the config its change.
LogFails(p) ==
    /\ pc[p] = "log"
    /\ GiveUp(p)
    /\ UNCHANGED <<memVars, schedVars, now, boots, diskVars, viewVars, job, log, lost, overlap>>

-----------------------------------------------------------------------------
(* The service *)

\* /plugin/unload: drop the runtime state, stop the ticker; the process exits
\* once the response is out.
Unload ==
    /\ ticker = "on"
    /\ tasks' = NoTasks
    /\ live' = {}
    /\ loaded' = FALSE
    /\ loadErr' = FALSE
    /\ fresh' = TRUE
    /\ marks' = {}
    /\ Lose(marks, NoRun)
    /\ ticker' = "stopping"
    /\ Meet(TRUE)
    /\ UNCHANGED <<todo, now, boots, diskVars, view, pc, job, log>>

\* The process ends, at any point, and a new one loads the file.  A load that
\* fails leaves the ticker off.
Restart ==
    /\ boots < MaxBoots
    /\ boots' = boots + 1
    /\ LET ok == file.state = "whole" IN
       /\ tasks' = IF ok THEN Sanitize(file.list) ELSE NoTasks
       /\ loaded' = ok
       /\ loadErr' = ~ok
       /\ fresh' = ~ok
       /\ ticker' = IF ok THEN "on" ELSE "off"
    /\ marks' = {}
    /\ todo' = {}
    /\ pc' = [p \in Threads |-> IF pc[p] \in {"idle", "done"} THEN pc[p] ELSE "killed"]
    /\ view' = [p \in Threads |-> {}]
    /\ live' = {}
    /\ target' = [p \in Threads |-> "none"]
    /\ UNCHANGED <<now, file, tmp, unsaved, job, log, lost, overlap>>

\* /plugin/load and /plugin/reload: load the file and start the ticker.
LoadRequest ==
    /\ ticker # "stopping"
    /\ \E ok \in BOOLEAN :
          /\ LoadAside(TRUE, ok)
          /\ ticker' = IF ok THEN "on" ELSE ticker
    /\ UNCHANGED <<marks, todo, now, boots, diskVars, view, pc, job, log, lost>>

Advance ==
    /\ now < MaxNow
    /\ now' = now + 1
    /\ UNCHANGED <<memVars, schedVars, boots, diskVars, viewVars, pc, job, log, lost, overlap>>

-----------------------------------------------------------------------------

RunNext(p) ==
    \/ \E t \in Tasks : AutoStart(p, t)
    \/ \E t \in Tasks, as \in Spellings : ManualStart(p, t, as)
    \/ Reserve(p) \/ Execute(p) \/ Finish(p) \/ Report(p) \/ Unmark(p)

UpdateNext(p) ==
    \/ \E t \in Tasks, as \in Spellings : BeginTerminate(p, t, as)
    \/ \E t \in Tasks : BeginEdit(p, t)
    \/ Terminate(p) \/ Save(p) \/ Load(p) \/ Open(p) \/ Write(p) \/ Rename(p)
    \/ Fails(p) \/ Reload(p) \/ Log(p) \/ LogFails(p)

ServiceNext ==
    \/ Tick
    \/ \E t \in Tasks : PassOver(t)
    \/ StopTicker
    \/ Read \/ Unload \/ LoadRequest \/ Restart \/ Advance

Next == (\E p \in Threads : RunNext(p) \/ UpdateNext(p)) \/ ServiceNext

Spec == Init /\ [][Next]_vars

\* A thread that has begun an operation carries it through.
OwnStep(p) == pc[p] \notin {"idle", "done", "killed"} /\ (RunNext(p) \/ UpdateNext(p))
FairSpec == Spec /\ \A p \in Threads : WF_vars(OwnStep(p))

-----------------------------------------------------------------------------
(* Properties *)

Labels == {"idle", "load", "lock", "open", "write", "rename", "exec", "log",
           "reload", "report", "unmark", "done", "killed"}

\* The configuration file, once made, never goes missing, and a temporary file is
\* open only in a thread that is writing it.
TypeOK ==
    /\ tasks \in [Tasks -> Task]
    /\ {loaded, loadErr, fresh, overlap} \subseteq BOOLEAN
    /\ marks \subseteq Tasks \X Spellings
    /\ ticker \in {"on", "stopping", "off"}
    /\ todo \subseteq Tasks
    /\ now \in 0 .. MaxNow /\ boots \in 0 .. MaxBoots
    /\ {file.state, tmp.state} \subseteq {"missing", "blank", "broken", "whole"}
    /\ file.state # "missing"
    /\ {file.list, tmp.list} \subseteq [Tasks -> Task]
    /\ unsaved \subseteq Tasks
    /\ pc \in [Threads -> Labels]
    /\ \A p \in Threads :
          /\ job[p].kind \in {"none", "reserve", "finish", "terminate", "edit"}
          /\ target[p] \in {"none", "tmp", "file", "gone"}
          /\ target[p] # "none" <=> pc[p] = "write"
          /\ pc[p] \in {"open", "write"} => view[p] # {}
    /\ live \subseteq {p \in Threads : view[p] # {}}

\* No task stays marked as running by nobody: a mark is always that of some run
\* that will release it, whatever fails and whoever else releases marks.
MarkOwned ==
    \A key \in marks : \E p \in Threads :
        InFlight(p) /\ key = <<job[p].task, job[p].as>>

\* Two runs are started under one key at the same time only after somebody else
\* took a mark away (a termination, an unload, or the late release of a run that
\* had been terminated).
MarkExcludes ==
    \A p, q \in Threads :
        /\ p # q
        /\ InFlight(p) /\ InFlight(q)
        /\ <<job[p].task, job[p].as>> = <<job[q].task, job[q].as>>
        => {p, q} \intersect lost # {}

Quiet == ~overlap /\ \A p \in Threads : ~Updating(pc[p])

\* While updates come one at a time, whoever reads the file between two of them
\* finds it readable, even after writes that failed half-way; and it agrees with
\* memory about who is running each task, unless a change of that very task could
\* not be written.
FileAgrees ==
    Quiet =>
        /\ file.state = "whole"
        /\ loaded => \A t \in Tasks \ unsaved : file.list[t].token = tasks[t].token
                                             /\ file.list[t].until = tasks[t].until

\* While updates come one at a time, a token on disk is that of a run that is
\* executing or that died with the service: finishing, terminating, disabling and
\* deleting leave no lease behind to block the next run, unless a change of that
\* very task could not be written.
NoStaleLease ==
    Quiet => \A t \in Tasks \ unsaved : LET run == file.list[t].token IN
        run # NoRun => pc[run] \in {"exec", "killed"}

\* While updates come one at a time, a run is reported once: not as a success by
\* itself and as terminated by the user.
OneOutcome ==
    ~overlap => \A p \in Threads : ~({<<p, "success">>, <<p, "terminated">>} \subseteq log)

\* Unload stops the background schedule: from then on the ticker starts no run.
UnloadStopsRuns ==
    [][ticker = "stopping" => \A p \in Threads : ~(\E t \in Tasks : AutoStart(p, t))]_vars

=============================================================================
