----------------------- MODULE SampleSchedulerProofs -----------------------
(***************************************************************************)
(* Proofs about SampleScheduler, for any tasks, spellings, threads, lease, *)
(* interval and bounds: types; who owns the marks; and, while updates come *)
(* one at a time, what the file says about who is running and what the log *)
(* says about each run.                                                    *)
(***************************************************************************)
EXTENDS SampleScheduler, TLAPS

-----------------------------------------------------------------------------
(* Types *)

Lists == [Tasks -> Task]
Kinds == {"none", "reserve", "finish", "terminate", "edit"}
Jobs  == [kind : Kinds, task : Tasks \union {NoJob.task}, as : Spellings, manual : BOOLEAN,
          victim : Threads \union {NoRun}]
Files == [state : {"missing", "blank", "broken", "whole"}, list : Lists]

\* Where a thread is fits what it does.
PlacedAs(label, j) ==
    /\ label = "idle" => j = NoJob
    /\ label \notin {"idle", "done", "killed"} => j.task \in Tasks /\ j.kind # "none"
    /\ label = "exec" => j.kind = "reserve"
    /\ label = "log" => j.kind \in {"finish", "terminate"}
    /\ label = "reload" => j.kind = "edit"
    /\ label = "report" => j.kind = "finish"
    /\ label = "unmark" => j.kind \in {"reserve", "finish"}
Placed(p) ==
    /\ PlacedAs(pc[p], job[p])
    /\ target[p] # "none" <=> pc[p] = "write"
    /\ pc[p] \in {"open", "write"} => view[p] # {}
    /\ pc[p] \in {"load", "lock"} /\ job[p].kind = "edit" => view[p] # {}
    /\ p \in live => view[p] # {}

Globals ==
    /\ tasks \in Lists
    /\ loaded \in BOOLEAN /\ loadErr \in BOOLEAN /\ fresh \in BOOLEAN /\ overlap \in BOOLEAN
    /\ marks \subseteq Tasks \X Spellings
    /\ ticker \in {"on", "stopping", "off"}
    /\ todo \subseteq Tasks
    /\ now \in Nat /\ now <= MaxNow /\ boots \in Nat /\ boots <= MaxBoots
    /\ file \in Files /\ file.state # "missing"
    /\ unsaved \subseteq Tasks
    /\ tmp \in Files /\ (tmp.state = "missing" => tmp = Missing)
Shapes ==
    /\ pc \in [Threads -> Labels] /\ job \in [Threads -> Jobs]
    /\ view \in [Threads -> SUBSET Lists] /\ live \subseteq Threads
    /\ target \in [Threads -> {"none", "tmp", "file", "gone"}]

\* The mark a run has, or wants.
Key(p) == <<job[p].task, job[p].as>>

TInv == Globals /\ Shapes /\ \A p \in Threads : Placed(p)

-----------------------------------------------------------------------------
(* Lists *)

LEMMA TimesAreNumbers ==
    Lease \in Nat /\ Interval \in Nat /\ MaxNow \in Nat /\ MaxBoots \in Nat
BY TimesAssumption, BoundsAssumption

LEMMA ListsOfOurs == NoTasks \in Lists /\ Configured \in Lists /\ NoTask \in Task
<1>1. NoTask \in Task /\ [NoTask EXCEPT !.there = TRUE, !.on = TRUE, !.next = 1] \in Task
  BY DEF NoTask, Task
<1>. QED  BY <1>1 DEF NoTasks, Configured, Lists

LEMMA SanitizeIsAList ==
    ASSUME NEW l \in Lists, now \in Nat
    PROVE  /\ Sanitize(l) \in Lists
           /\ \A t \in Tasks : /\ Sanitize(l)[t].token = l[t].token
                               /\ Sanitize(l)[t].until = l[t].until
                               /\ Sanitize(l)[t].there = l[t].there
<1>. DEFINE T(t) == [l[t] EXCEPT !.next =
                        IF ~l[t].on THEN 0 ELSE IF @ = 0 THEN now + Interval ELSE @]
<1>1. ASSUME NEW t \in Tasks
      PROVE  T(t) \in Task /\ T(t).token = l[t].token /\ T(t).until = l[t].until
             /\ T(t).there = l[t].there
  BY TimesAreNumbers DEF Lists, Task
<1>2. Sanitize(l) = [t \in Tasks |-> T(t)]
  BY DEF Sanitize
<1>. HIDE DEF T
<1>. QED  BY <1>1, <1>2 DEF Lists

LEMMA CopiesAreLists ==
    ASSUME NEW lists \in SUBSET Lists, NEW l \in Copies(lists)
    PROVE  l \in Lists /\ (\A m : lists = {m} => l = m)
<1>. DEFINE C(a, b, c, t) == [a[t] EXCEPT !.until = b[t].until, !.next = c[t].next]
<1>1. PICK from \in [Tasks -> lists \X lists \X lists] :
         l = [t \in Tasks |-> C(from[t][1], from[t][2], from[t][3], t)]
  BY DEF Copies
<1>2. ASSUME NEW a \in Lists, NEW b \in Lists, NEW c \in Lists, NEW t \in Tasks
      PROVE  C(a, b, c, t) \in Task
  <2>1. a[t] \in Task /\ b[t].until \in Nat /\ c[t].next \in Nat
    BY DEF Lists, Task
  <2>. QED  BY <2>1 DEF Task
<1>3. ASSUME NEW m \in Lists, NEW t \in Tasks
      PROVE  C(m, m, m, t) = m[t]
  <2>. DEFINE x == C(m, m, m, t)
  <2>1. m[t] \in Task /\ x \in Task
    BY <1>2 DEF Lists
  <2>2. /\ x.there = m[t].there /\ x.on = m[t].on /\ x.token = m[t].token
        /\ x.until = m[t].until /\ x.next = m[t].next
    BY <2>1 DEF Task
  <2>. HIDE DEF x
  <2>3. x = m[t]
    BY <2>1, <2>2 DEF Task
  <2>. QED  BY <2>3 DEF x
<1>4. \A t \in Tasks : from[t][1] \in lists /\ from[t][2] \in lists /\ from[t][3] \in lists
  OBVIOUS
<1>. HIDE DEF C
<1>5. l \in Lists
  BY <1>1, <1>2, <1>4 DEF Lists
<1>6. ASSUME NEW m, lists = {m} PROVE l = m
  <2>1. m \in Lists /\ \A t \in Tasks : from[t][1] = m /\ from[t][2] = m /\ from[t][3] = m
    BY <1>4, <1>6
  <2>2. \A t \in Tasks : l[t] = m[t]
    BY <1>1, <1>3, <2>1
  <2>. QED  BY <1>5, <2>1, <2>2 DEF Lists
<1>. QED  BY <1>5, <1>6

LEMMA EditsAreTasks ==
    ASSUME NEW task \in Task, NEW edited \in Edits(task)
    PROVE  /\ edited \in Task
           /\ edited.token # NoRun => edited.token = task.token /\ (task.there => edited.there)
<1>1. [NoTask EXCEPT !.there = TRUE, !.on = TRUE] \in Task
      /\ [NoTask EXCEPT !.there = TRUE, !.on = TRUE].token = NoRun
      /\ NoTask \in Task /\ NoTask.token = NoRun
  BY DEF NoTask, Task
<1>2. CASE edited = task
  BY <1>2
<1>3. CASE edited = [task EXCEPT !.on = FALSE, !.token = NoRun, !.until = 0, !.next = 0]
  BY <1>3 DEF Task
<1>4. CASE edited = [task EXCEPT !.on = task.there, !.next = 0]
  BY <1>4 DEF Task
<1>5. CASE edited \in {NoTask, [NoTask EXCEPT !.there = TRUE, !.on = TRUE]}
  BY <1>1, <1>5
<1>. QED  BY <1>2, <1>3, <1>4, <1>5 DEF Edits

-----------------------------------------------------------------------------
(* What steps do *)

\* A step of one thread leaves the others where they are.
Stepped(p, label, j) ==
    /\ unsaved \subseteq unsaved'
    /\ pc'[p] = label /\ job'[p] = j
    /\ \A q \in Threads \ {p} : pc'[q] = pc[q] /\ job'[q] = job[q]

LEMMA TStep ==
    ASSUME TInv, NEW p \in Threads, NEW label \in Labels, NEW j \in Jobs, Goto(p, label),
           job' = [job EXCEPT ![p] = j] \/ (job' = job /\ j = job[p]),
           Globals', PlacedAs(label, j), unsaved \subseteq unsaved',
           view' \in [Threads -> SUBSET Lists], live' \subseteq Threads,
           target' \in [Threads -> {"none", "tmp", "file", "gone"}],
           \A q \in Threads \ {p} : /\ view[q] # {} => view'[q] # {}
                                    /\ q \in live' => q \in live
                                    /\ target'[q] = "none" <=> target[q] = "none",
           target'[p] # "none" <=> label = "write",
           label \in {"open", "write"} => view'[p] # {},
           label \in {"load", "lock"} /\ j.kind = "edit" => view'[p] # {},
           p \in live' => view'[p] # {}
    PROVE  TInv' /\ Stepped(p, label, j)
<1>1. pc' \in [Threads -> Labels] /\ pc'[p] = label /\ \A q \in Threads \ {p} : pc'[q] = pc[q]
  BY DEF TInv, Shapes, Goto
<1>2. job' \in [Threads -> Jobs] /\ job'[p] = j /\ \A q \in Threads \ {p} : job'[q] = job[q]
  BY DEF TInv, Shapes
<1>3. Shapes'
  BY <1>1, <1>2 DEF Shapes
<1>4. ASSUME NEW q \in Threads \ {p} PROVE Placed(q)'
  <2>1. Placed(q)
    BY DEF TInv
  <2>. QED  BY <1>1, <1>2, <2>1 DEF Placed
<1>5. Placed(p)'
  BY <1>1, <1>2 DEF Placed
<1>. QED  BY <1>1, <1>2, <1>3, <1>4, <1>5 DEF TInv, Stepped

\* Where the thread neither writes nor has a part in views.
LEMMA TSame ==
    ASSUME TInv, NEW p \in Threads, NEW label \in Labels, NEW j \in Jobs, Goto(p, label),
           job' = [job EXCEPT ![p] = j] \/ (job' = job /\ j = job[p]),
           Globals', PlacedAs(label, j), view' = view, live' \subseteq live, target' = target,
           pc[p] # "write" /\ label # "write", unsaved' = unsaved,
           label = "open" => view[p] # {},
           label \in {"load", "lock"} /\ j.kind = "edit" => view[p] # {}
    PROVE  TInv' /\ Stepped(p, label, j)
<1>1. /\ view' \in [Threads -> SUBSET Lists] /\ live' \subseteq Threads
      /\ target' \in [Threads -> {"none", "tmp", "file", "gone"}]
      /\ target'[p] = "none" /\ (p \in live' => view'[p] # {})
  BY DEF TInv, Shapes, Placed
<1>. QED  BY <1>1, TStep

\* A step of the service.
LEMMA TService ==
    ASSUME TInv, Globals', UNCHANGED <<pc, job, view, target>>, live' \subseteq live
    PROVE  TInv'
BY DEF TInv, Shapes, Placed

LEMMA TFacts ==
    ASSUME TInv
    PROVE  /\ tasks \in Lists /\ file \in Files /\ tmp \in Files /\ file.list \in Lists
           /\ loaded \in BOOLEAN /\ loadErr \in BOOLEAN /\ fresh \in BOOLEAN
           /\ overlap \in BOOLEAN /\ now \in Nat
           /\ \A p \in Threads : /\ pc[p] \in Labels /\ job[p] \in Jobs
                                 /\ view[p] \in SUBSET Lists /\ PlacedAs(pc[p], job[p])
BY DEF TInv, Globals, Shapes, Placed, Files

LEMMA Watched ==
    ASSUME Watch, overlap \in BOOLEAN PROVE overlap' \in BOOLEAN /\ (overlap => overlap')
BY DEF Watch

LEMMA Met ==
    ASSUME NEW replaces \in BOOLEAN, Meet(replaces), overlap \in BOOLEAN
    PROVE  /\ overlap' \in BOOLEAN /\ (overlap => overlap')
           /\ replaces /\ (\E p \in Threads : Updating(pc[p])) => overlap'
BY DEF Meet

\* loadConfig keeps what is loaded, loads the file, or fails.
Kept == UNCHANGED <<memVars, live>> /\ loaded
Took == /\ file.state = "whole" /\ tasks' = Sanitize(file.list) /\ live' = {}
        /\ loaded' /\ ~loadErr' /\ ~fresh'
Failed == file.state # "whole" /\ UNCHANGED <<tasks, live, fresh>> /\ ~loaded' /\ loadErr'

LEMMA LoadConfigDoes ==
    ASSUME TInv, NEW force \in BOOLEAN, NEW ok \in BOOLEAN, LoadConfig(force, ok)
    PROVE  /\ tasks' \in Lists /\ live' \subseteq live
           /\ loaded' \in BOOLEAN /\ loadErr' \in BOOLEAN /\ fresh' \in BOOLEAN
           /\ \/ ok /\ Kept /\ ~Reads(force)
              \/ ok /\ Took /\ Reads(force)
              \/ ~ok /\ Failed /\ Reads(force)
<1>1. CASE ~Reads(force)
  BY <1>1, TFacts DEF LoadConfig, Kept, Reads, memVars
<1>2. CASE Reads(force) /\ ok
  BY <1>2, TFacts, SanitizeIsAList DEF LoadConfig, Took, Install
<1>3. CASE Reads(force) /\ ~ok
  BY <1>3, TFacts DEF LoadConfig, Failed
<1>. QED  BY <1>1, <1>2, <1>3

LEMMA LoadAsideDoes ==
    ASSUME TInv, NEW force \in BOOLEAN, NEW ok \in BOOLEAN, LoadAside(force, ok)
    PROVE  /\ tasks' \in Lists /\ live' \subseteq live
           /\ loaded' \in BOOLEAN /\ loadErr' \in BOOLEAN /\ fresh' \in BOOLEAN
           /\ overlap' \in BOOLEAN /\ (overlap => overlap')
           /\ \/ ok /\ Kept
              \/ /\ (ok /\ Took) \/ (~ok /\ Failed)
                 /\ (\E p \in Threads : Updating(pc[p])) => overlap'
<1>1. LoadConfig(force, ok) /\ Meet(Reads(force)) /\ Reads(force) \in BOOLEAN
  BY TFacts DEF LoadAside, Reads
<1>. QED  BY <1>1, LoadConfigDoes, Met, TFacts

LEMMA ChangeDoes ==
    ASSUME TInv, NEW p \in Threads, NEW t \in Tasks, NEW task \in Task, Change(p, t, task)
    PROVE  /\ tasks' = [tasks EXCEPT ![t] = task] /\ tasks' \in Lists
           /\ live' = live \union {p} /\ view' \in [Threads -> SUBSET Lists]
           /\ view'[p] = {tasks'}
           /\ \A q \in Threads \ {p} : view'[q] \in {view[q], view[q] \union {tasks'}}
<1>1. tasks' = [tasks EXCEPT ![t] = task] /\ live' = live \union {p}
  BY DEF Change
<1>2. tasks' \in Lists
  BY <1>1 DEF TInv, Globals, Lists
<1>. DEFINE V(q) == IF q = p THEN {tasks'}
                    ELSE IF q \in live THEN view[q] \union {tasks'} ELSE view[q]
<1>3. view' = [q \in Threads |-> V(q)]
  BY DEF Change, Copied
<1>4. \A q \in Threads : V(q) \in SUBSET Lists
  BY <1>2, TFacts
<1>5. V(p) = {tasks'} /\ \A q \in Threads \ {p} : V(q) \in {view[q], view[q] \union {tasks'}}
  OBVIOUS
<1>. HIDE DEF V
<1>. QED  BY <1>1, <1>2, <1>3, <1>4, <1>5

\* The globals of a step that changes none but those of memory and the marks.
LEMMA MemGlobals ==
    ASSUME TInv, tasks' \in Lists, loaded' \in BOOLEAN, loadErr' \in BOOLEAN, fresh' \in BOOLEAN,
           overlap' \in BOOLEAN, marks' \subseteq Tasks \X Spellings, todo' \subseteq Tasks,
           ticker' \in {"on", "stopping", "off"},
           UNCHANGED <<now, boots, unsaved, file, tmp>>
    PROVE  Globals'
BY DEF TInv, Globals
LEMMA NoJobIsAJob == NoJob \in Jobs /\ NoJob.kind = "none" /\ NoJob.victim = NoRun
<1>. DEFINE t0 == CHOOSE u \in Tasks : TRUE
<1>1. NoJob = [kind |-> "none", task |-> t0, as |-> Listed, manual |-> FALSE, victim |-> NoRun]
  BY DEF NoJob
<1>. HIDE DEF t0
<1>2. NoJob.task = t0
  BY <1>1
<1>. QED  BY <1>1, <1>2, SpellingAssumption DEF Jobs, Kinds

LEMMA JobIsAJob ==
    ASSUME NEW kind \in Kinds, NEW t \in Tasks, NEW as \in Spellings, NEW manual \in BOOLEAN,
           NEW j, j = Job(kind, t, as, manual)
    PROVE  j \in Jobs /\ j.kind = kind /\ j.task = t /\ j.as = as /\ j.victim = NoRun
BY NoJobIsAJob DEF Job, Jobs

\* What the steps of runs and of updates leave alone.
Aside == UNCHANGED <<tasks, loaded, loadErr, fresh, file, tmp, view, live, target>>

LEMMA StartDoes ==
    ASSUME TInv, NEW p \in Threads, NEW t \in Tasks, NEW as \in Spellings, NEW manual \in BOOLEAN,
           Start(p, t, as, manual), todo' \subseteq Tasks
    PROVE  /\ TInv' /\ Stepped(p, "load", Job("reserve", t, as, manual))
           /\ pc[p] = "idle" /\ Watch /\ Aside /\ UNCHANGED <<log, lost>>
           /\ <<t, as>> \notin marks /\ marks' = marks \union {<<t, as>>}
<1>1. /\ pc[p] = "idle" /\ Watch /\ Aside /\ Goto(p, "load") /\ UNCHANGED <<log, lost>>
      /\ job' = [job EXCEPT ![p] = Job("reserve", t, as, manual)]
      /\ <<t, as>> \notin marks /\ marks' = marks \union {<<t, as>>}
      /\ UNCHANGED <<ticker, now, boots, unsaved>>
  BY DEF Start, Mark, Aside, memVars, diskVars, viewVars
<1>2. Job("reserve", t, as, manual) \in Jobs /\ Job("reserve", t, as, manual).kind = "reserve"
      /\ Job("reserve", t, as, manual).task = t
  <2>1. "reserve" \in Kinds
    BY DEF Kinds
  <2>. QED  BY <2>1, NoJobIsAJob, SpellingAssumption DEF Job, Jobs
<1>3. PlacedAs("load", Job("reserve", t, as, manual))
  BY <1>2 DEF PlacedAs
<1>4. Globals'
  <2>1. marks' \subseteq Tasks \X Spellings
    <3>1. <<t, as>> \in Tasks \X Spellings
      OBVIOUS
    <3>. QED  BY <1>1, <3>1 DEF TInv, Globals
  <2>. QED  BY <1>1, <2>1, Watched, TFacts DEF TInv, Globals, Aside
<1>. QED  BY <1>1, <1>2, <1>3, <1>4, TSame DEF Aside, Labels

LEMMA BeginTerminateDoes ==
    ASSUME TInv, NEW p \in Threads, NEW t \in Tasks, NEW as \in Spellings, BeginTerminate(p, t, as)
    PROVE  /\ TInv' /\ Stepped(p, "load", Job("terminate", t, as, TRUE))
           /\ pc[p] = "idle" /\ Watch /\ Aside /\ UNCHANGED <<marks, log, lost>>
<1>1. /\ pc[p] = "idle" /\ Watch /\ Aside /\ Goto(p, "load") /\ UNCHANGED <<marks, log, lost>>
      /\ job' = [job EXCEPT ![p] = Job("terminate", t, as, TRUE)]
      /\ UNCHANGED <<ticker, todo, now, boots, unsaved>>
  BY DEF BeginTerminate, Aside, memVars, diskVars, viewVars, schedVars
<1>2. Job("terminate", t, as, TRUE) \in Jobs /\ Job("terminate", t, as, TRUE).kind = "terminate"
      /\ Job("terminate", t, as, TRUE).task = t
  <2>1. "terminate" \in Kinds
    BY DEF Kinds
  <2>. QED  BY <2>1, NoJobIsAJob, SpellingAssumption DEF Job, Jobs
<1>3. PlacedAs("load", Job("terminate", t, as, TRUE))
  BY <1>2 DEF PlacedAs
<1>4. Globals'
  BY <1>1, Watched, TFacts DEF TInv, Globals, Aside
<1>. QED  BY <1>1, <1>2, <1>3, <1>4, TSame DEF Aside, Labels

LEMMA BeginEditDoes ==
    ASSUME TInv, NEW p \in Threads, NEW t \in Tasks, BeginEdit(p, t)
    PROVE  /\ TInv' /\ Stepped(p, "load", Job("edit", t, Listed, TRUE))
           /\ pc[p] = "idle" /\ Watch /\ UNCHANGED <<tasks, loaded, file, tmp, target, marks, log, lost>>
           /\ \E edited \in Edits(tasks[t]) : view'[p] = {[tasks EXCEPT ![t] = edited]}
           /\ \A q \in Threads \ {p} : view'[q] = view[q]
<1>1. /\ pc[p] = "idle" /\ Watch /\ Goto(p, "load")
      /\ UNCHANGED <<tasks, loaded, loadErr, fresh, file, tmp, target, marks, log, lost>>
      /\ UNCHANGED <<live, ticker, todo, now, boots, unsaved>>
      /\ job' = [job EXCEPT ![p] = Job("edit", t, Listed, TRUE)]
  BY DEF BeginEdit, memVars, diskVars, schedVars
<1>2. Job("edit", t, Listed, TRUE) \in Jobs /\ Job("edit", t, Listed, TRUE).kind = "edit"
      /\ Job("edit", t, Listed, TRUE).task = t
  <2>1. "edit" \in Kinds
    BY DEF Kinds
  <2>. QED  BY <2>1, NoJobIsAJob, SpellingAssumption DEF Job, Jobs
<1>3. PlacedAs("load", Job("edit", t, Listed, TRUE))
  BY <1>2 DEF PlacedAs
<1>4. Globals'
  BY <1>1, Watched, TFacts DEF TInv, Globals
<1>5. PICK edited \in Edits(tasks[t]) : view' = [view EXCEPT ![p] = {[tasks EXCEPT ![t] = edited]}]
  BY DEF BeginEdit
<1>6. tasks[t] \in Task /\ tasks \in Lists
  BY TFacts DEF Lists
<1>7. edited \in Task
  BY <1>6, EditsAreTasks
<1>8. [tasks EXCEPT ![t] = edited] \in Lists
  BY <1>6, <1>7 DEF Lists
<1>. DEFINE l == [tasks EXCEPT ![t] = edited]
<1>. HIDE DEF l
<1>9. view' \in [Threads -> SUBSET Lists] /\ view'[p] = {l} /\ \A q \in Threads \ {p} : view'[q] = view[q]
  BY <1>5, <1>8 DEF TInv, Shapes, l
<1>10. TInv' /\ Stepped(p, "load", Job("edit", t, Listed, TRUE))
  <2>1. live' \subseteq Threads /\ target' \in [Threads -> {"none", "tmp", "file", "gone"}]
        /\ target'[p] = "none"
    BY <1>1 DEF TInv, Shapes, Placed
  <2>. QED  BY <1>1, <1>2, <1>3, <1>4, <1>9, <2>1, TStep DEF Labels
<1>. QED  BY <1>1, <1>9, <1>10 DEF l

LEMMA LoadDoes ==
    ASSUME TInv, NEW p \in Threads, Load(p)
    PROVE  /\ TInv' /\ pc[p] = "load" /\ Watch
           /\ UNCHANGED <<view, file, tmp, target, marks, log, lost>>
           /\ \/ Stepped(p, "lock", job[p]) /\ (Kept \/ Took)
              \/ Failed /\ \E label \in {"unmark", "report", "done"} :
                    Stepped(p, label, job[p]) /\ (job[p].kind \in {"reserve", "finish"} => label # "done")
<1>1. PICK ok \in BOOLEAN : /\ LoadConfig(FALSE, ok)
                            /\ IF ok THEN Goto(p, "lock") ELSE GiveUp(p)
  BY DEF Load
<1>2. /\ pc[p] = "load" /\ Watch /\ UNCHANGED <<view, file, tmp, target, marks, log, lost>>
      /\ UNCHANGED <<ticker, todo, now, boots, unsaved, job>>
  BY DEF Load, schedVars, diskVars
<1>3. /\ tasks' \in Lists /\ live' \subseteq live
      /\ loaded' \in BOOLEAN /\ loadErr' \in BOOLEAN /\ fresh' \in BOOLEAN
      /\ \/ ok /\ (Kept \/ Took)
         \/ ~ok /\ Failed
  BY <1>1, LoadConfigDoes
<1>4. Globals'
  BY <1>2, <1>3, Watched, TFacts DEF TInv, Globals
<1>5. PlacedAs("load", job[p]) /\ job[p] \in Jobs
      /\ (job[p].kind = "edit" => view[p] # {})
  BY <1>2, TFacts DEF TInv, Placed
<1>6. CASE ok
  <2>1. PlacedAs("lock", job[p]) /\ Goto(p, "lock")
    BY <1>1, <1>5, <1>6 DEF PlacedAs
  <2>2. TInv' /\ Stepped(p, "lock", job[p])
    BY <1>2, <1>3, <1>4, <1>5, <2>1, TSame DEF Labels
  <2>. QED  BY <1>2, <1>3, <1>6, <2>2
<1>7. CASE ~ok
  <2>. DEFINE label == CASE job[p].kind = "reserve" -> "unmark"
                         [] job[p].kind = "finish"  -> "report"
                         [] OTHER                   -> "done"
  <2>1. Goto(p, label)
    BY <1>1, <1>7 DEF GiveUp
  <2>2. /\ label \in {"unmark", "report", "done"} /\ PlacedAs(label, job[p])
        /\ (job[p].kind \in {"reserve", "finish"} => label # "done")
    BY <1>5 DEF PlacedAs
  <2>. HIDE DEF label
  <2>3. TInv' /\ Stepped(p, label, job[p])
    BY <1>2, <1>3, <1>4, <1>5, <2>1, <2>2, TSame DEF Labels
  <2>. QED  BY <1>2, <1>3, <1>7, <2>2, <2>3
<1>. QED  BY <1>6, <1>7

\* A change of the shared array, on the way to its write.
Changes(p, t) ==
    /\ tasks' = [tasks EXCEPT ![t] = tasks'[t]] /\ view'[p] = {tasks'}
    /\ tasks'[t].there = tasks[t].there
    /\ \A q \in Threads \ {p} : view'[q] \in {view[q], view[q] \union {tasks'}}

LEMMA ChangeSteps ==
    ASSUME TInv, NEW p \in Threads, NEW t \in Tasks, NEW task \in Task, Change(p, t, task),
           task.there = tasks[t].there,
           Goto(p, "open"), pc[p] # "write", Watch, marks' \subseteq marks,
           NEW j \in Jobs, job' = [job EXCEPT ![p] = j] \/ (job' = job /\ j = job[p]),
           PlacedAs("open", j),
           UNCHANGED <<loaded, loadErr, fresh, ticker, todo, now, boots, unsaved, file, tmp, target>>
    PROVE  TInv' /\ Stepped(p, "open", j) /\ Changes(p, t) /\ tasks'[t] = task
<1>1. /\ tasks' = [tasks EXCEPT ![t] = task] /\ tasks' \in Lists
      /\ live' = live \union {p} /\ view' \in [Threads -> SUBSET Lists]
      /\ view'[p] = {tasks'}
      /\ \A q \in Threads \ {p} : view'[q] \in {view[q], view[q] \union {tasks'}}
  BY ChangeDoes
<1>2. tasks'[t] = task
  BY <1>1, TFacts DEF Lists
<1>3. Changes(p, t)
  BY <1>1, <1>2 DEF Changes
<1>4. Globals'
  BY <1>1, Watched, TFacts DEF TInv, Globals
<1>5. target' \in [Threads -> {"none", "tmp", "file", "gone"}] /\ target'[p] = "none"
      /\ live' \subseteq Threads
  BY <1>1 DEF TInv, Shapes, Placed
<1>6. "open" \in Labels
  BY DEF Labels
<1>7. \A q \in Threads \ {p} : /\ view[q] # {} => view'[q] # {}
                               /\ q \in live' => q \in live
                               /\ target'[q] = "none" <=> target[q] = "none"
  BY <1>1
<1>8. TInv' /\ Stepped(p, "open", j)
  BY <1>1, <1>4, <1>5, <1>6, <1>7, TStep
<1>. QED  BY <1>2, <1>3, <1>8

LEMMA ReserveDoes ==
    ASSUME TInv, NEW p \in Threads, Reserve(p)
    PROVE  /\ TInv' /\ pc[p] = "lock" /\ job[p].kind = "reserve" /\ job[p].task \in Tasks /\ Watch
           /\ UNCHANGED <<loaded, file, tmp, target, marks, log, lost>>
           /\ \/ Stepped(p, "unmark", job[p]) /\ UNCHANGED <<tasks, view>>
              \/ /\ Stepped(p, "open", job[p]) /\ Changes(p, job[p].task)
                 /\ tasks'[job[p].task].token = p /\ tasks[job[p].task].there
<1>. DEFINE t == job[p].task
            task == [tasks[t] EXCEPT !.token = p, !.until = now + Lease, !.next = now + Interval]
<1>1. /\ pc[p] = "lock" /\ job[p].kind = "reserve" /\ Watch
      /\ UNCHANGED <<loaded, file, tmp, target, marks, log, lost>>
      /\ UNCHANGED <<loadErr, fresh, ticker, todo, now, boots, unsaved, job>>
  BY DEF Reserve, schedVars, diskVars, memVars
<1>2. t \in Tasks /\ job[p] \in Jobs /\ tasks[t] \in Task /\ now \in Nat
  BY <1>1, TFacts DEF PlacedAs, Lists
<1>3. PlacedAs("unmark", job[p]) /\ PlacedAs("open", job[p])
  BY <1>1, <1>2 DEF PlacedAs
<1>4. CASE Goto(p, "unmark") /\ UNCHANGED <<memVars, viewVars>>
  <2>1. Globals'
    BY <1>1, <1>4, Watched, TFacts DEF TInv, Globals, memVars
  <2>2. TInv' /\ Stepped(p, "unmark", job[p])
    BY <1>1, <1>2, <1>3, <1>4, <2>1, TSame DEF Labels, viewVars
  <2>. QED  BY <1>1, <1>2, <1>4, <2>2 DEF memVars, viewVars
<1>5. CASE ~Refuses(p, t) /\ Change(p, t, task) /\ Goto(p, "open")
  <2>1. task \in Task /\ task.there = tasks[t].there /\ task.token = p
    <3>1. now + Lease \in Nat /\ now + Interval \in Nat
      BY <1>2, TimesAreNumbers
    <3>. QED  BY <1>2, <3>1 DEF Task
  <2>2. tasks[t].there
    BY <1>5 DEF Refuses
  <2>. HIDE DEF task, t
  <2>3. TInv' /\ Stepped(p, "open", job[p]) /\ Changes(p, t) /\ tasks'[t] = task
    BY <1>1, <1>2, <1>3, <1>5, <2>1, ChangeSteps
  <2>. QED  BY <1>1, <1>2, <2>1, <2>2, <2>3 DEF t
<1>. QED  BY <1>4, <1>5 DEF Reserve

LEMMA ExecuteDoes ==
    ASSUME TInv, NEW p \in Threads, Execute(p)
    PROVE  /\ TInv' /\ pc[p] = "exec" /\ job[p].kind = "reserve" /\ Watch
           /\ Aside /\ UNCHANGED <<marks, log, lost>>
           /\ \E j \in Jobs : /\ Stepped(p, "load", j) /\ j.kind = "finish"
                              /\ j.task = job[p].task /\ j.as = job[p].as /\ j.victim = job[p].victim
<1>. DEFINE j == [job[p] EXCEPT !.kind = "finish"]
<1>1. /\ pc[p] = "exec" /\ Watch /\ Aside /\ UNCHANGED <<marks, log, lost>> /\ Goto(p, "load")
      /\ UNCHANGED <<ticker, todo, now, boots, unsaved>> /\ job' = [job EXCEPT ![p] = j]
  BY DEF Execute, schedVars, diskVars, memVars, viewVars, Aside
<1>2. job[p] \in Jobs /\ PlacedAs("exec", job[p])
  BY <1>1, TFacts
<1>3. /\ j \in Jobs /\ j.kind = "finish" /\ j.task = job[p].task /\ j.as = job[p].as
      /\ j.victim = job[p].victim
  BY <1>2 DEF Jobs, Kinds
<1>. HIDE DEF j
<1>4. PlacedAs("load", j)
  BY <1>2, <1>3 DEF PlacedAs
<1>5. Globals'
  BY <1>1, Watched, TFacts DEF TInv, Globals, Aside
<1>6. TInv' /\ Stepped(p, "load", j)
  BY <1>1, <1>3, <1>4, <1>5, TSame DEF Labels, Aside
<1>. QED  BY <1>1, <1>2, <1>3, <1>6 DEF PlacedAs

LEMMA ClearedLease ==
    ASSUME NEW task \in Task
    PROVE  /\ ClearLease(task) \in Task /\ ClearLease(task).there = task.there
           /\ ClearLease(task).token = NoRun
BY DEF ClearLease, Task

LEMMA FinishDoes ==
    ASSUME TInv, NEW p \in Threads, Finish(p)
    PROVE  /\ TInv' /\ pc[p] = "lock" /\ job[p].kind = "finish" /\ job[p].task \in Tasks /\ Watch
           /\ UNCHANGED <<loaded, file, tmp, target, marks, log, lost>>
           /\ \/ /\ \E label \in {"unmark", "report"} : Stepped(p, label, job[p])
                 /\ UNCHANGED <<tasks, view>>
                 /\ tasks[job[p].task].there => tasks[job[p].task].token # p
              \/ /\ Stepped(p, "open", job[p]) /\ Changes(p, job[p].task)
                 /\ tasks[job[p].task].there /\ tasks[job[p].task].token = p
                 /\ tasks'[job[p].task].token = NoRun
<1>. DEFINE t == job[p].task
<1>1. /\ pc[p] = "lock" /\ job[p].kind = "finish" /\ Watch
      /\ UNCHANGED <<loaded, file, tmp, target, marks, log, lost>>
      /\ UNCHANGED <<loadErr, fresh, ticker, todo, now, boots, unsaved, job>>
  BY DEF Finish, schedVars, diskVars
<1>2. t \in Tasks /\ job[p] \in Jobs /\ tasks[t] \in Task
  BY <1>1, TFacts DEF PlacedAs, Lists
<1>3. PlacedAs("unmark", job[p]) /\ PlacedAs("report", job[p]) /\ PlacedAs("open", job[p])
  BY <1>1, <1>2 DEF PlacedAs
<1>4. ASSUME NEW label \in {"unmark", "report"}, Goto(p, label), UNCHANGED <<tasks, viewVars>>
      PROVE  TInv' /\ Stepped(p, label, job[p])
  <2>1. Globals'
    BY <1>1, <1>4, Watched, TFacts DEF TInv, Globals
  <2>. QED  BY <1>1, <1>2, <1>3, <1>4, <2>1, TSame DEF Labels, viewVars
<1>5. CASE ~tasks[t].there /\ Goto(p, "report") /\ UNCHANGED <<tasks, viewVars>>
  BY <1>1, <1>2, <1>4, <1>5 DEF viewVars
<1>6. CASE Superseded(p, tasks[t]) /\ Goto(p, "unmark") /\ UNCHANGED <<tasks, viewVars>>
  BY <1>1, <1>2, <1>4, <1>6 DEF viewVars, Superseded
<1>7. CASE /\ tasks[t].there /\ ~Superseded(p, tasks[t])
           /\ Change(p, t, ClearLease(tasks[t])) /\ Goto(p, "open")
  <2>. HIDE DEF t
  <2>1. TInv' /\ Stepped(p, "open", job[p]) /\ Changes(p, t) /\ tasks'[t] = ClearLease(tasks[t])
    BY <1>1, <1>2, <1>3, <1>7, ClearedLease, ChangeSteps
  <2>. QED  BY <1>1, <1>2, <1>7, <2>1, ClearedLease DEF t, Superseded
<1>. QED  BY <1>5, <1>6, <1>7 DEF Finish

LEMMA TerminateDoes ==
    ASSUME TInv, NEW p \in Threads, Terminate(p)
    PROVE  /\ TInv' /\ pc[p] = "lock" /\ job[p].kind = "terminate" /\ job[p].task \in Tasks /\ Watch
           /\ UNCHANGED <<loaded, file, tmp, target, log>>
           /\ \/ Stepped(p, "done", job[p]) /\ UNCHANGED <<tasks, view, marks, lost>>
              \/ /\ Changes(p, job[p].task)
                 /\ tasks[job[p].task].there /\ tasks'[job[p].task].token = NoRun
                 /\ marks' = marks \ {Key(p)} /\ Lose({Key(p)}, p)
                 /\ \E j \in Jobs : /\ Stepped(p, "open", j) /\ j.kind = "terminate"
                                    /\ j.task = job[p].task /\ j.as = job[p].as
                                    /\ j.victim = tasks[job[p].task].token
<1>. DEFINE t == job[p].task
            j == [job[p] EXCEPT !.victim = tasks[t].token]
<1>1. /\ pc[p] = "lock" /\ job[p].kind = "terminate" /\ Watch
      /\ UNCHANGED <<loaded, file, tmp, target, log>>
      /\ UNCHANGED <<loadErr, fresh, ticker, todo, now, boots, unsaved>>
  BY DEF Terminate, diskVars
<1>2. t \in Tasks /\ job[p] \in Jobs /\ tasks[t] \in Task
  BY <1>1, TFacts DEF PlacedAs, Lists
<1>3. CASE Goto(p, "done") /\ UNCHANGED <<tasks, viewVars, marks, job, lost>>
  <2>1. PlacedAs("done", job[p])
    BY DEF PlacedAs
  <2>2. Globals'
    BY <1>1, <1>3, Watched, TFacts DEF TInv, Globals
  <2>3. TInv' /\ Stepped(p, "done", job[p])
    BY <1>1, <1>2, <1>3, <2>1, <2>2, TSame DEF Labels, viewVars
  <2>. QED  BY <1>1, <1>2, <1>3, <2>3 DEF viewVars
<1>4. CASE /\ tasks[t].there /\ Change(p, t, ClearLease(tasks[t])) /\ Goto(p, "open")
           /\ marks' = marks \ {<<t, job[p].as>>} /\ Lose({<<t, job[p].as>>}, p)
           /\ job' = [job EXCEPT ![p].victim = tasks[t].token]
  <2>1. /\ j \in Jobs /\ j.kind = "terminate" /\ j.task = t /\ j.as = job[p].as
        /\ j.victim = tasks[t].token
    BY <1>1, <1>2 DEF Jobs, Task
  <2>2. job' = [job EXCEPT ![p] = j]
    BY <1>4 DEF TInv, Shapes
  <2>. HIDE DEF t, j
  <2>3. PlacedAs("open", j)
    BY <1>2, <2>1 DEF PlacedAs
  <2>4. TInv' /\ Stepped(p, "open", j) /\ Changes(p, t) /\ tasks'[t] = ClearLease(tasks[t])
    <3>1. /\ ClearLease(tasks[t]) \in Task /\ ClearLease(tasks[t]).there = tasks[t].there
          /\ Change(p, t, ClearLease(tasks[t])) /\ marks' \subseteq marks /\ t \in Tasks
          /\ Goto(p, "open") /\ pc[p] # "write"
      BY <1>1, <1>2, <1>4, ClearedLease
    <3>. QED  BY <1>1, <2>1, <2>2, <2>3, <3>1, ChangeSteps
  <2>. QED  BY <1>1, <1>2, <1>4, <2>1, <2>4, ClearedLease DEF t, Key
<1>. QED  BY <1>3, <1>4 DEF Terminate

LEMMA SaveDoes ==
    ASSUME TInv, NEW p \in Threads, Save(p)
    PROVE  /\ TInv' /\ Stepped(p, "open", job[p])
           /\ pc[p] = "lock" /\ job[p].kind = "edit" /\ Watch
           /\ UNCHANGED <<tasks, loaded, file, tmp, target, marks, log, lost>>
           /\ view'[p] = {Sanitize(l) : l \in view[p]} /\ \A q \in Threads \ {p} : view'[q] = view[q]
<1>1. /\ pc[p] = "lock" /\ job[p].kind = "edit" /\ Watch /\ Goto(p, "open")
      /\ UNCHANGED <<tasks, loaded, loadErr, fresh, file, tmp, target, marks, log, lost>>
      /\ UNCHANGED <<live, ticker, todo, now, boots, unsaved, job>>
      /\ view' = [view EXCEPT ![p] = {Sanitize(l) : l \in view[p]}]
  BY DEF Save, memVars, schedVars, diskVars
<1>. DEFINE lists == {Sanitize(l) : l \in view[p]}
<1>2. lists \subseteq Lists /\ lists # {}
  <2>1. view[p] \subseteq Lists /\ view[p] # {} /\ now \in Nat
    BY <1>1, TFacts DEF TInv, Placed
  <2>. QED  BY <2>1, SanitizeIsAList
<1>. HIDE DEF lists
<1>3. view' \in [Threads -> SUBSET Lists] /\ view'[p] = lists /\ \A q \in Threads \ {p} : view'[q] = view[q]
  BY <1>1, <1>2 DEF TInv, Shapes, lists
<1>4. PlacedAs("open", job[p]) /\ job[p] \in Jobs
  BY <1>1, TFacts DEF PlacedAs
<1>5. Globals'
  BY <1>1, Watched, TFacts DEF TInv, Globals
<1>6. live' \subseteq Threads /\ target' \in [Threads -> {"none", "tmp", "file", "gone"}]
      /\ target'[p] = "none"
  BY <1>1 DEF TInv, Shapes, Placed
<1>7. TInv' /\ Stepped(p, "open", job[p])
  BY <1>1, <1>2, <1>3, <1>4, <1>5, <1>6, TStep DEF Labels
<1>. QED  BY <1>1, <1>3, <1>7 DEF lists

LEMMA OpenDoes ==
    ASSUME TInv, NEW p \in Threads, Open(p)
    PROVE  /\ TInv' /\ Stepped(p, "write", job[p]) /\ pc[p] = "open" /\ Watch
           /\ UNCHANGED <<tasks, loaded, file, view, marks, log, lost>>
           /\ tmp' = Blank /\ target'[p] = "tmp"
<1>1. /\ pc[p] = "open" /\ Watch /\ Goto(p, "write")
      /\ UNCHANGED <<tasks, loaded, loadErr, fresh, file, view, live, marks, log, lost>>
      /\ UNCHANGED <<ticker, todo, now, boots, unsaved, job>>
      /\ tmp' = Blank /\ target' = [target EXCEPT ![p] = "tmp"]
  BY DEF Open, memVars, schedVars, viewVars
<1>2. target' \in [Threads -> {"none", "tmp", "file", "gone"}] /\ target'[p] = "tmp"
      /\ \A q \in Threads \ {p} : target'[q] = target[q]
  BY <1>1 DEF TInv, Shapes
<1>3. PlacedAs("write", job[p]) /\ job[p] \in Jobs
  BY <1>1, TFacts DEF PlacedAs
<1>4. Blank \in Files /\ Blank.state = "blank"
  BY ListsOfOurs DEF Blank, Files
<1>5. Globals'
  BY <1>1, <1>4, Watched, TFacts DEF TInv, Globals
<1>6. /\ view' \in [Threads -> SUBSET Lists] /\ live' \subseteq Threads /\ view'[p] # {}
  BY <1>1 DEF TInv, Shapes, Placed
<1>7. TInv' /\ Stepped(p, "write", job[p])
  BY <1>1, <1>2, <1>3, <1>5, <1>6, TStep DEF Labels
<1>. QED  BY <1>1, <1>2, <1>7

LEMMA OntoIsAFile ==
    ASSUME NEW old, NEW l \in Lists, NEW new \in Onto(old, l)
    PROVE  new \in Files /\ new.state # "missing"
<1>1. Whole(l) \in Files /\ Whole(l).state = "whole" /\ Broken \in Files /\ Broken.state = "broken"
  BY ListsOfOurs DEF Whole, Broken, Files
<1>. QED  BY <1>1 DEF Onto

\* Where a write ends up: files stay files, and a handle to the temporary file leaves
\* the config alone.
LEMMA IntoFiles ==
    ASSUME TInv, NEW p \in Threads, pc[p] = "write", NEW tmps, NEW files, Into(p, tmps, files),
           \A new \in tmps \union files : new \in Files /\ new.state # "missing"
    PROVE  /\ file' \in Files /\ file'.state # "missing"
           /\ tmp' \in Files /\ (tmp'.state = "missing" => tmp' = Missing) /\ fresh' \in BOOLEAN
           /\ target[p] = "tmp" => file' = file /\ tmp' \in tmps
BY TFacts DEF Into, TInv, Globals

LEMMA LetGoDoes ==
    ASSUME TInv, NEW p \in Threads, LetGo(p)
    PROVE  /\ view' \in [Threads -> SUBSET Lists] /\ view'[p] = {}
           /\ \A q \in Threads \ {p} : view'[q] = view[q]
           /\ live' \subseteq Threads /\ p \notin live' /\ \A q \in Threads \ {p} : q \in live' => q \in live
           /\ target' \in [Threads -> {"none", "tmp", "file", "gone"}] /\ target'[p] = "none"
           /\ \A q \in Threads \ {p} : target'[q] = target[q]
BY DEF LetGo, TInv, Shapes

LEMMA CopiesSanitized ==
    ASSUME TInv, NEW p \in Threads, NEW l \in Copies(view[p])
    PROVE  l \in Lists /\ Sanitize(l) \in Lists
<1>1. view[p] \in SUBSET Lists /\ now \in Nat
  BY TFacts
<1>2. l \in Lists
  BY <1>1, CopiesAreLists
<1>. QED  BY <1>1, <1>2, SanitizeIsAList

LEMMA WriteDoes ==
    ASSUME TInv, NEW p \in Threads, Write(p)
    PROVE  /\ TInv' /\ Stepped(p, "rename", job[p]) /\ pc[p] = "write" /\ Watch
           /\ UNCHANGED <<tasks, loaded, marks, log, lost>>
           /\ \A q \in Threads \ {p} : view'[q] = view[q]
           /\ target[p] = "tmp" =>
                 /\ file' = file
                 /\ \E l \in Copies(view[p]) : l \in Lists /\ tmp' \in Onto(tmp, Sanitize(l))
<1>1. /\ pc[p] = "write" /\ Watch /\ Goto(p, "rename") /\ LetGo(p)
      /\ UNCHANGED <<tasks, loaded, loadErr, marks, log, lost>>
      /\ UNCHANGED <<ticker, todo, now, boots, unsaved, job>>
  BY DEF Write, schedVars
<1>2. PICK l \in Copies(view[p]) : Into(p, Onto(tmp, Sanitize(l)), Onto(file, Sanitize(l)))
  BY DEF Write
<1>3. l \in Lists /\ Sanitize(l) \in Lists
  BY CopiesSanitized
<1>4. \A new \in Onto(tmp, Sanitize(l)) \union Onto(file, Sanitize(l)) :
         new \in Files /\ new.state # "missing"
  BY <1>3, OntoIsAFile
<1>5. /\ file' \in Files /\ file'.state # "missing"
      /\ tmp' \in Files /\ (tmp'.state = "missing" => tmp' = Missing) /\ fresh' \in BOOLEAN
      /\ target[p] = "tmp" => file' = file /\ tmp' \in Onto(tmp, Sanitize(l))
  BY <1>1, <1>2, <1>4, IntoFiles
<1>6. Globals'
  BY <1>1, <1>5, Watched, TFacts DEF TInv, Globals
<1>7. PlacedAs("rename", job[p]) /\ job[p] \in Jobs
  BY <1>1, TFacts DEF PlacedAs
<1>8. /\ view' \in [Threads -> SUBSET Lists] /\ view'[p] = {}
      /\ \A q \in Threads \ {p} : view'[q] = view[q]
      /\ live' \subseteq Threads /\ p \notin live' /\ \A q \in Threads \ {p} : q \in live' => q \in live
      /\ target' \in [Threads -> {"none", "tmp", "file", "gone"}] /\ target'[p] = "none"
      /\ \A q \in Threads \ {p} : target'[q] = target[q]
  BY <1>1, LetGoDoes
<1>9. TInv' /\ Stepped(p, "rename", job[p])
  BY <1>1, <1>6, <1>7, <1>8, TStep DEF Labels
<1>. QED  BY <1>1, <1>3, <1>5, <1>8, <1>9

\* What a thread that gives up does next: a run goes on to release its mark.
GivenUp(p) ==
    \E label \in {"unmark", "report", "done"} :
        /\ Stepped(p, label, job[p])
        /\ job[p].kind = "reserve" => label = "unmark"
        /\ job[p].kind = "finish" => label = "report"

LEMMA GiveUpDoes ==
    ASSUME TInv, NEW p \in Threads, GiveUp(p), Globals', job' = job, LetGo(p) \/ UNCHANGED <<view, live, target>>,
           pc[p] \in {"open", "write", "rename", "log"}, target[p] = "none" \/ LetGo(p),
           unsaved \subseteq unsaved'
    PROVE  TInv' /\ GivenUp(p) /\ \A q \in Threads \ {p} : view'[q] = view[q]
<1>. DEFINE label == CASE job[p].kind = "reserve" -> "unmark"
                       [] job[p].kind = "finish"  -> "report"
                       [] OTHER                   -> "done"
<1>1. Goto(p, label)
  BY DEF GiveUp
<1>2. job[p] \in Jobs /\ PlacedAs(pc[p], job[p])
  BY TFacts
<1>3. /\ label \in {"unmark", "report", "done"} /\ PlacedAs(label, job[p])
      /\ job[p].kind = "reserve" => label = "unmark"
      /\ job[p].kind = "finish" => label = "report"
  BY <1>2 DEF PlacedAs
<1>. HIDE DEF label
<1>4. /\ view' \in [Threads -> SUBSET Lists] /\ live' \subseteq Threads
      /\ \A q \in Threads \ {p} : view'[q] = view[q] /\ (q \in live' => q \in live) /\ target'[q] = target[q]
      /\ target' \in [Threads -> {"none", "tmp", "file", "gone"}] /\ target'[p] = "none"
      /\ p \in live' => view'[p] # {}
  <2>1. CASE LetGo(p)
    BY <2>1, LetGoDoes
  <2>2. CASE UNCHANGED <<view, live, target>> /\ target[p] = "none"
    BY <2>2 DEF TInv, Shapes, Placed
  <2>. QED  BY <2>1, <2>2
<1>5. label \in Labels /\ label \notin {"write", "open", "load", "lock"}
  BY <1>3 DEF Labels
<1>6. TInv' /\ Stepped(p, label, job[p])
  BY <1>1, <1>2, <1>3, <1>4, <1>5, TStep
<1>. QED  BY <1>3, <1>4, <1>6 DEF GivenUp

LEMMA FailsDoes ==
    ASSUME TInv, NEW p \in Threads, Fails(p)
    PROVE  /\ TInv' /\ pc[p] \in {"open", "write", "rename"} /\ Watch /\ GivenUp(p) /\ job[p].task \in Tasks
           /\ UNCHANGED <<tasks, loaded, marks, log, lost>> /\ NotSaved(p)
           /\ (pc[p] = "write" => target[p] = "tmp") => file' = file
<1>1. /\ pc[p] \in {"open", "write", "rename"} /\ Watch /\ GiveUp(p) /\ LetGo(p) /\ NotSaved(p)
      /\ UNCHANGED <<tasks, loaded, loadErr, marks, log, lost>>
      /\ UNCHANGED <<ticker, todo, now, boots, job>>
  BY DEF Fails, schedVars
<1>2. job[p].task \in Tasks
  BY <1>1, TFacts DEF PlacedAs
<1>3. unsaved \subseteq unsaved' /\ unsaved' \subseteq Tasks
  BY <1>1, <1>2 DEF NotSaved, TInv, Globals
<1>4. /\ file' \in Files /\ file'.state # "missing"
      /\ tmp' \in Files /\ (tmp'.state = "missing" => tmp' = Missing) /\ fresh' \in BOOLEAN
      /\ (pc[p] = "write" => target[p] = "tmp") => file' = file
  <2>1. CASE LeftAsTheyWere
    BY <2>1, TFacts DEF LeftAsTheyWere, TInv, Globals
  <2>2. ASSUME pc[p] = "write", NEW l \in Copies(view[p]),
               Into(p, Partly(tmp, Sanitize(l)), Partly(file, Sanitize(l)))
        PROVE  /\ file' \in Files /\ file'.state # "missing"
               /\ tmp' \in Files /\ (tmp'.state = "missing" => tmp' = Missing) /\ fresh' \in BOOLEAN
               /\ target[p] = "tmp" => file' = file
    <3>1. Sanitize(l) \in Lists
      BY CopiesSanitized
    <3>2. Broken \in Files /\ Broken.state = "broken"
      BY ListsOfOurs DEF Broken, Files
    <3>3. \A new \in Partly(file, Sanitize(l)) : new \in Files /\ new.state # "missing"
      BY <3>1, <3>2, OntoIsAFile DEF Partly, TInv, Globals
    <3>4. \A new \in Partly(tmp, Sanitize(l)) :
             new \in Files /\ (new.state = "missing" => new = Missing)
      <4>1. \A new \in Onto(tmp, Sanitize(l)) : new \in Files /\ new.state # "missing"
        BY <3>1, OntoIsAFile
      <4>. QED  BY <3>2, <4>1 DEF Partly, TInv, Globals
    <3>. QED  BY <2>2, <3>3, <3>4, TFacts DEF Into, TInv, Globals
  <2>3. CASE /\ pc[p] = "write"
             /\ \E l \in Copies(view[p]) :
                   Into(p, Partly(tmp, Sanitize(l)), Partly(file, Sanitize(l)))
    BY <2>2, <2>3
  <2>. QED  BY <2>1, <2>3 DEF Fails
<1>5. Globals'
  BY <1>1, <1>3, <1>4, Watched, TFacts DEF TInv, Globals
<1>6. TInv' /\ GivenUp(p)
  BY <1>1, <1>3, <1>5, GiveUpDoes
<1>. QED  BY <1>1, <1>2, <1>4, <1>6

LEMMA RenameDoes ==
    ASSUME TInv, NEW p \in Threads, Rename(p)
    PROVE  /\ TInv' /\ pc[p] = "rename" /\ Watch
           /\ UNCHANGED <<tasks, loaded, view, marks, log, lost>>
           /\ file' = tmp
           /\ Stepped(p, CASE job[p].kind = "reserve" -> "exec"
                           [] job[p].kind = "edit"    -> "reload"
                           [] OTHER                   -> "log", job[p])
<1>1. /\ pc[p] = "rename" /\ Watch
      /\ UNCHANGED <<tasks, loaded, loadErr, view, live, marks, log, lost>>
      /\ UNCHANGED <<ticker, todo, now, boots, unsaved, job>>
      /\ tmp # Missing /\ file' = tmp /\ tmp' = Missing /\ fresh' \in {fresh, TRUE}
      /\ target' = [q \in Threads |-> Moved(target[q])]
  BY DEF Rename, schedVars, viewVars
<1>2. /\ PlacedAs("rename", job[p]) /\ job[p] \in Jobs /\ job[p].kind \in Kinds /\ target[p] = "none"
      /\ view' \in [Threads -> SUBSET Lists] /\ live' \subseteq Threads /\ (p \in live' => view'[p] # {})
  BY <1>1, TFacts DEF TInv, Shapes, Placed, Jobs
<1>. DEFINE label == CASE job[p].kind = "reserve" -> "exec"
                       [] job[p].kind = "edit"    -> "reload"
                       [] OTHER                   -> "log"
<1>3. label \in {"exec", "reload", "log"} /\ PlacedAs(label, job[p])
  BY <1>2 DEF PlacedAs, Kinds
<1>4. Goto(p, label)
  BY DEF Rename
<1>5. Globals'
  <2>1. Missing \in Files /\ tmp \in Files /\ tmp.state # "missing" /\ fresh' \in BOOLEAN
    BY <1>1, ListsOfOurs, TFacts DEF Missing, Files, TInv, Globals
  <2>. QED  BY <1>1, <2>1, Watched, TFacts DEF TInv, Globals
<1>6. /\ target' \in [Threads -> {"none", "tmp", "file", "gone"}]
      /\ \A q \in Threads : target'[q] = "none" <=> target[q] = "none"
  <2>1. \A h \in {"none", "tmp", "file", "gone"} :
           Moved(h) \in {"none", "tmp", "file", "gone"} /\ (Moved(h) = "none" <=> h = "none")
    BY DEF Moved
  <2>2. \A q \in Threads : target[q] \in {"none", "tmp", "file", "gone"}
    BY DEF TInv, Shapes
  <2>. QED  BY <1>1, <2>1, <2>2
<1>. HIDE DEF label
<1>7. label \in Labels /\ label \notin {"write", "open", "load", "lock"}
  BY <1>3 DEF Labels
<1>8. TInv' /\ Stepped(p, label, job[p])
  BY <1>1, <1>2, <1>3, <1>4, <1>5, <1>6, <1>7, TStep
<1>. QED  BY <1>1, <1>8 DEF label

LEMMA ReloadDoes ==
    ASSUME TInv, NEW p \in Threads, Reload(p)
    PROVE  /\ TInv' /\ Stepped(p, "done", job[p]) /\ pc[p] = "reload" /\ job[p].kind = "edit" /\ Watch
           /\ UNCHANGED <<view, file, tmp, target, marks, log, lost>>
           /\ Took \/ Failed
<1>1. PICK ok \in BOOLEAN : LoadConfig(TRUE, ok)
  BY DEF Reload
<1>2. /\ pc[p] = "reload" /\ Watch /\ Goto(p, "done")
      /\ UNCHANGED <<view, file, tmp, target, marks, log, lost>>
      /\ UNCHANGED <<ticker, todo, now, boots, unsaved, job>>
  BY DEF Reload, schedVars, diskVars
<1>3. /\ tasks' \in Lists /\ live' \subseteq live
      /\ loaded' \in BOOLEAN /\ loadErr' \in BOOLEAN /\ fresh' \in BOOLEAN
      /\ Took \/ Failed
  BY <1>1, LoadConfigDoes DEF Reads
<1>4. Globals'
  BY <1>2, <1>3, Watched, TFacts DEF TInv, Globals
<1>5. PlacedAs("reload", job[p]) /\ PlacedAs("done", job[p]) /\ job[p] \in Jobs
  BY <1>2, TFacts DEF PlacedAs
<1>6. TInv' /\ Stepped(p, "done", job[p])
  BY <1>2, <1>3, <1>4, <1>5, TSame DEF Labels
<1>. QED  BY <1>2, <1>3, <1>5, <1>6 DEF PlacedAs

LEMMA ReportDoes ==
    ASSUME TInv, NEW p \in Threads, Report(p)
    PROVE  /\ TInv' /\ Stepped(p, "unmark", job[p]) /\ pc[p] = "report" /\ job[p].kind = "finish"
           /\ UNCHANGED <<tasks, loaded, view, file, tmp, target, unsaved, marks, log, lost, overlap>>
<1>1. /\ pc[p] = "report" /\ Goto(p, "unmark") /\ loadErr' = TRUE
      /\ UNCHANGED <<tasks, loaded, fresh, view, live, file, tmp, target, marks, log, lost, overlap>>
      /\ UNCHANGED <<ticker, todo, now, boots, unsaved, job>>
  BY DEF Report, schedVars, diskVars, viewVars
<1>2. Globals'
  BY <1>1, TFacts DEF TInv, Globals
<1>3. PlacedAs("report", job[p]) /\ PlacedAs("unmark", job[p]) /\ job[p] \in Jobs
  BY <1>1, TFacts DEF PlacedAs
<1>4. TInv' /\ Stepped(p, "unmark", job[p])
  BY <1>1, <1>2, <1>3, TSame DEF Labels
<1>. QED  BY <1>1, <1>3, <1>4 DEF PlacedAs

LEMMA LogDoes ==
    ASSUME TInv, NEW p \in Threads, Log(p)
    PROVE  /\ TInv' /\ pc[p] = "log"
           /\ Aside /\ UNCHANGED <<marks, lost, overlap, unsaved>>
           /\ \/ /\ job[p].kind = "finish" /\ log' = log \union {<<p, "success">>}
                 /\ Stepped(p, "unmark", job[p])
              \/ /\ job[p].kind = "terminate" /\ log' = log \union {<<job[p].victim, "terminated">>}
                 /\ Stepped(p, "done", job[p])
<1>1. /\ pc[p] = "log"
      /\ Aside /\ UNCHANGED <<marks, lost, overlap>>
      /\ UNCHANGED <<ticker, todo, now, boots, unsaved, job>>
  BY DEF Log, schedVars, diskVars, viewVars, memVars, Aside
<1>2. Globals'
  BY <1>1, TFacts DEF TInv, Globals, Aside
<1>3. CASE job[p].kind = "finish" /\ log' = log \union {<<p, "success">>} /\ Goto(p, "unmark")
  <2>1. PlacedAs("unmark", job[p]) /\ job[p] \in Jobs
    BY <1>1, <1>3, TFacts DEF PlacedAs
  <2>2. TInv' /\ Stepped(p, "unmark", job[p])
    BY <1>1, <1>2, <1>3, <2>1, TSame DEF Labels, Aside
  <2>. QED  BY <1>1, <1>3, <2>2
<1>4. CASE job[p].kind = "terminate" /\ log' = log \union {<<job[p].victim, "terminated">>}
           /\ Goto(p, "done")
  <2>1. PlacedAs("done", job[p]) /\ job[p] \in Jobs
    BY <1>1, <1>4, TFacts DEF PlacedAs
  <2>2. TInv' /\ Stepped(p, "done", job[p])
    BY <1>1, <1>2, <1>4, <2>1, TSame DEF Labels, Aside
  <2>. QED  BY <1>1, <1>4, <2>2
<1>. QED  BY <1>3, <1>4 DEF Log

LEMMA LogFailsDoes ==
    ASSUME TInv, NEW p \in Threads, LogFails(p)
    PROVE  /\ TInv' /\ pc[p] = "log" /\ GivenUp(p)
           /\ Aside /\ UNCHANGED <<job, marks, log, lost, overlap, unsaved>>
<1>1. /\ pc[p] = "log" /\ GiveUp(p)
      /\ Aside /\ UNCHANGED <<job, marks, log, lost, overlap>>
      /\ UNCHANGED <<ticker, todo, now, boots, unsaved>>
  BY DEF LogFails, schedVars, diskVars, viewVars, memVars, Aside
<1>2. Globals' /\ target[p] = "none"
  BY <1>1, TFacts DEF TInv, Globals, Aside, Placed
<1>. QED  BY <1>1, <1>2, GiveUpDoes DEF Aside

LEMMA UnmarkDoes ==
    ASSUME TInv, NEW p \in Threads, Unmark(p)
    PROVE  /\ TInv' /\ Stepped(p, "done", job[p])
           /\ pc[p] = "unmark" /\ job[p].kind \in {"reserve", "finish"}
           /\ Aside /\ UNCHANGED <<log, overlap, unsaved>>
           /\ marks' = marks \ {Key(p)} /\ Lose({Key(p)}, p)
<1>1. /\ pc[p] = "unmark" /\ Goto(p, "done")
      /\ Aside /\ UNCHANGED <<log, overlap>>
      /\ marks' = marks \ {Key(p)} /\ Lose({Key(p)}, p)
      /\ UNCHANGED <<ticker, todo, now, boots, unsaved, job>>
  BY DEF Unmark, diskVars, viewVars, memVars, Aside, ReleaseMark, Key
<1>2. Globals'
  BY <1>1, TFacts DEF TInv, Globals, Aside
<1>3. PlacedAs("unmark", job[p]) /\ PlacedAs("done", job[p]) /\ job[p] \in Jobs
  BY <1>1, TFacts DEF PlacedAs
<1>4. TInv' /\ Stepped(p, "done", job[p])
  BY <1>1, <1>2, <1>3, TSame DEF Labels, Aside
<1>. QED  BY <1>1, <1>3, <1>4 DEF PlacedAs

\* A load on the side: it replaces the array, perhaps during an update.
AsideLoads ==
    /\ overlap => overlap'
    /\ \/ Kept
       \/ /\ Took \/ Failed
          /\ (\E p \in Threads : Updating(pc[p])) => overlap'

LEMMA ReadersDo ==
    ASSUME TInv, Tick \/ Read \/ LoadRequest
    PROVE  /\ TInv' /\ AsideLoads
           /\ UNCHANGED <<pc, job, view, file, tmp, target, unsaved, marks, log, lost>>
<1>1. /\ UNCHANGED <<pc, job, view, file, tmp, target, unsaved, marks, log, lost, now, boots>>
      /\ ticker' \in {"on", "stopping", "off"} /\ todo' \subseteq Tasks
      /\ \E force \in BOOLEAN, ok \in BOOLEAN : LoadAside(force, ok)
  <2>1. ticker \in {"on", "stopping", "off"} /\ todo \subseteq Tasks
    BY DEF TInv, Globals
  <2>2. CASE Tick
    BY <2>1, <2>2 DEF Tick, diskVars
  <2>3. CASE Read
    BY <2>1, <2>3 DEF Read, diskVars, schedVars
  <2>4. CASE LoadRequest
    BY <2>1, <2>4 DEF LoadRequest, diskVars
  <2>. QED  BY <2>2, <2>3, <2>4
<1>2. PICK force \in BOOLEAN, ok \in BOOLEAN : LoadAside(force, ok)
  BY <1>1
<1>3. /\ tasks' \in Lists /\ live' \subseteq live
      /\ loaded' \in BOOLEAN /\ loadErr' \in BOOLEAN /\ fresh' \in BOOLEAN
      /\ overlap' \in BOOLEAN /\ AsideLoads
  BY <1>2, LoadAsideDoes DEF AsideLoads
<1>4. Globals'
  BY <1>1, <1>3 DEF TInv, Globals
<1>. QED  BY <1>1, <1>3, <1>4, TService

LEMMA BystandersDo ==
    ASSUME TInv, StopTicker \/ Advance \/ \E t \in Tasks : PassOver(t)
    PROVE  /\ TInv'
           /\ UNCHANGED <<tasks, loaded, pc, job, view, file, tmp, target, unsaved, marks, log, lost, overlap>>
<1>1. /\ UNCHANGED <<tasks, loaded, pc, job, view, file, tmp, target, unsaved, marks, log, lost, overlap>>
      /\ UNCHANGED <<loadErr, fresh, boots, live>>
      /\ ticker' \in {"on", "stopping", "off"} /\ todo' \subseteq Tasks
      /\ now' \in Nat /\ now' <= MaxNow
  <2>1. /\ ticker \in {"on", "stopping", "off"} /\ todo \subseteq Tasks
        /\ now \in Nat /\ now <= MaxNow /\ MaxNow \in Nat
    BY TimesAreNumbers DEF TInv, Globals
  <2>2. CASE StopTicker
    BY <2>1, <2>2 DEF StopTicker, memVars, diskVars, viewVars
  <2>3. CASE Advance
    BY <2>1, <2>3 DEF Advance, memVars, diskVars, viewVars, schedVars
  <2>4. CASE \E t \in Tasks : PassOver(t)
    BY <2>1, <2>4 DEF PassOver, memVars, diskVars, viewVars
  <2>. QED  BY <2>2, <2>3, <2>4
<1>2. Globals'
  BY <1>1 DEF TInv, Globals
<1>. QED  BY <1>1, <1>2, TService

LEMMA UnloadDoes ==
    ASSUME TInv, Unload
    PROVE  /\ TInv' /\ UNCHANGED <<pc, job, view, file, tmp, target, unsaved, log>>
           /\ tasks' = NoTasks /\ ~loaded' /\ marks' = {} /\ Lose(marks, NoRun)
           /\ (overlap => overlap') /\ ((\E p \in Threads : Updating(pc[p])) => overlap')
<1>1. /\ UNCHANGED <<pc, job, view, file, tmp, target, unsaved, log, now, boots, todo>>
      /\ tasks' = NoTasks /\ loaded' = FALSE /\ loadErr' = FALSE /\ fresh' = TRUE /\ live' = {}
      /\ marks' = {} /\ Lose(marks, NoRun) /\ ticker' = "stopping"
  BY DEF Unload, diskVars
<1>2. overlap' \in BOOLEAN /\ (overlap => overlap')
      /\ ((\E p \in Threads : Updating(pc[p])) => overlap')
  <2>1. Meet(TRUE)
    BY DEF Unload
  <2>. QED  BY <2>1, TFacts DEF Meet
<1>3. Globals'
  BY <1>1, <1>2, ListsOfOurs DEF TInv, Globals
<1>. QED  BY <1>1, <1>2, <1>3, TService

LEMMA RestartDoes ==
    ASSUME TInv, Restart
    PROVE  /\ TInv' /\ UNCHANGED <<job, file, tmp, unsaved, log, lost, overlap>>
           /\ marks' = {}
           /\ \A p \in Threads : /\ pc'[p] = IF pc[p] \in {"idle", "done"} THEN pc[p] ELSE "killed"
                                 /\ view'[p] = {}
           /\ \/ file.state = "whole" /\ tasks' = Sanitize(file.list) /\ loaded'
              \/ file.state # "whole" /\ tasks' = NoTasks /\ ~loaded'
<1>1. /\ UNCHANGED <<job, file, tmp, unsaved, log, lost, overlap, now>>
      /\ marks' = {} /\ todo' = {} /\ live' = {}
      /\ pc' = [p \in Threads |-> IF pc[p] \in {"idle", "done"} THEN pc[p] ELSE "killed"]
      /\ view' = [p \in Threads |-> {}] /\ target' = [p \in Threads |-> "none"]
      /\ boots' = boots + 1 /\ boots < MaxBoots
  BY DEF Restart
<1>2. \/ /\ file.state = "whole" /\ tasks' = Sanitize(file.list) /\ ticker' = "on"
         /\ loaded' = TRUE /\ loadErr' = FALSE /\ fresh' = FALSE
      \/ /\ file.state # "whole" /\ tasks' = NoTasks /\ ticker' = "off"
         /\ loaded' = FALSE /\ loadErr' = TRUE /\ fresh' = TRUE
  BY DEF Restart
<1>3. tasks' \in Lists
  BY <1>2, SanitizeIsAList, ListsOfOurs, TFacts
<1>4. Globals'
  <2>1. boots' \in Nat /\ boots' <= MaxBoots
    BY <1>1, TimesAreNumbers DEF TInv, Globals
  <2>. QED  BY <1>1, <1>2, <1>3, <2>1 DEF TInv, Globals
<1>5. \A p \in Threads : pc[p] \in Labels /\ Placed(p) /\ job[p] \in Jobs
  BY TFacts DEF TInv
<1>6. Shapes'
  <2>1. pc' \in [Threads -> Labels]
    BY <1>1, <1>5 DEF Labels
  <2>. QED  BY <1>1, <2>1 DEF TInv, Shapes
<1>7. ASSUME NEW p \in Threads PROVE Placed(p)'
  <2>1. /\ view'[p] = {} /\ target'[p] = "none" /\ p \notin live'
        /\ pc'[p] \in {"idle", "done", "killed"} /\ (pc'[p] = "idle" => pc[p] = "idle")
        /\ job'[p] = job[p]
    BY <1>1, <1>5
  <2>2. PlacedAs(pc'[p], job'[p])
    BY <1>5, <2>1 DEF Placed, PlacedAs
  <2>. QED  BY <2>1, <2>2 DEF Placed
<1>8. \A p \in Threads : /\ pc'[p] = IF pc[p] \in {"idle", "done"} THEN pc[p] ELSE "killed"
                         /\ view'[p] = {}
  BY <1>1
<1>. QED  BY <1>1, <1>2, <1>4, <1>6, <1>7, <1>8 DEF TInv

LEMMA TInit == Init => TInv
<1>. SUFFICES ASSUME Init PROVE TInv
  OBVIOUS
<1>1. Whole(Configured) \in Files /\ Whole(Configured).state = "whole" /\ Missing \in Files
  BY ListsOfOurs DEF Whole, Missing, Files
<1>2. Globals
  <2>1. 0 <= MaxNow /\ 0 <= MaxBoots
    BY TimesAreNumbers
  <2>2. file \in Files /\ file.state # "missing" /\ tmp \in Files /\ tmp = Missing
    BY <1>1 DEF Init
  <2>3. tasks \in Lists
    BY ListsOfOurs DEF Init
  <2>4. marks \subseteq Tasks \X Spellings /\ todo \subseteq Tasks
    BY DEF Init
  <2>. QED  BY <2>1, <2>2, <2>3, <2>4 DEF Init, Globals
<1>3. Shapes
  BY NoJobIsAJob DEF Init, Shapes, Labels
<1>4. \A p \in Threads : Placed(p)
  BY NoJobIsAJob DEF Init, Placed, PlacedAs
<1>. QED  BY <1>2, <1>3, <1>4 DEF TInv

\* Every step is one of those above.
LEMMA Steps ==
    ASSUME Next
    PROVE  \/ \E p \in Threads :
                 \/ \E t \in Tasks, as \in Spellings, manual \in BOOLEAN :
                       Start(p, t, as, manual) /\ todo' \in {todo, todo \ {t}}
                 \/ \E t \in Tasks, as \in Spellings : BeginTerminate(p, t, as)
                 \/ \E t \in Tasks : BeginEdit(p, t)
                 \/ Reserve(p) \/ Execute(p) \/ Finish(p) \/ Report(p) \/ Unmark(p)
                 \/ Terminate(p) \/ Save(p) \/ Load(p) \/ Open(p) \/ Write(p) \/ Rename(p)
                 \/ Fails(p) \/ Reload(p) \/ Log(p) \/ LogFails(p)
           \/ Tick \/ Read \/ LoadRequest
           \/ StopTicker \/ Advance \/ \E t \in Tasks : PassOver(t)
           \/ Unload \/ Restart
<1>1. ASSUME NEW p \in Threads, NEW t \in Tasks, AutoStart(p, t)
      PROVE  Start(p, t, Listed, FALSE) /\ todo' = todo \ {t} /\ Listed \in Spellings
  BY <1>1, SpellingAssumption DEF AutoStart
<1>2. ASSUME NEW p \in Threads, NEW t \in Tasks, NEW as \in Spellings, ManualStart(p, t, as)
      PROVE  Start(p, t, as, TRUE) /\ todo' = todo
  BY <1>2 DEF ManualStart
<1>3. CASE \E p \in Threads : RunNext(p)
  BY <1>1, <1>2, <1>3 DEF RunNext
<1>4. CASE \E p \in Threads : UpdateNext(p)
  BY <1>4 DEF UpdateNext
<1>5. CASE ServiceNext
  BY <1>5 DEF ServiceNext
<1>. QED  BY <1>3, <1>4, <1>5 DEF Next

LEMMA TNext == TInv /\ [Next]_vars => TInv'
<1>. SUFFICES ASSUME TInv, [Next]_vars PROVE TInv'
  OBVIOUS
<1>1. ASSUME NEW p \in Threads, NEW t \in Tasks, NEW as \in Spellings, NEW manual \in BOOLEAN,
             Start(p, t, as, manual), todo' \in {todo, todo \ {t}}
      PROVE  TInv'
  <2>1. todo' \subseteq Tasks
    BY <1>1 DEF TInv, Globals
  <2>. QED  BY <1>1, <2>1, StartDoes
<1>2. ASSUME NEW p \in Threads, NEW t \in Tasks, NEW as \in Spellings, BeginTerminate(p, t, as)
      PROVE  TInv'
  BY <1>2, BeginTerminateDoes
<1>3. ASSUME NEW p \in Threads, NEW t \in Tasks, BeginEdit(p, t)
      PROVE  TInv'
  BY <1>3, BeginEditDoes
<1>4. ASSUME NEW p \in Threads,
             \/ Reserve(p) \/ Execute(p) \/ Finish(p) \/ Report(p) \/ Unmark(p)
             \/ Terminate(p) \/ Save(p) \/ Load(p) \/ Open(p) \/ Write(p) \/ Rename(p)
             \/ Fails(p) \/ Reload(p) \/ Log(p) \/ LogFails(p)
      PROVE  TInv'
  BY <1>4, ReserveDoes, ExecuteDoes, FinishDoes, ReportDoes, UnmarkDoes, TerminateDoes,
     SaveDoes, LoadDoes, OpenDoes, WriteDoes, RenameDoes, FailsDoes, ReloadDoes,
     LogDoes, LogFailsDoes
<1>5. CASE \/ Tick \/ Read \/ LoadRequest \/ Unload \/ Restart
           \/ StopTicker \/ Advance \/ \E t \in Tasks : PassOver(t)
  BY <1>5, ReadersDo, BystandersDo, UnloadDoes, RestartDoes
<1>6. CASE UNCHANGED vars
  <2>1. Globals' /\ UNCHANGED <<pc, job, view, target, live>>
    BY <1>6 DEF TInv, Globals, vars, memVars, schedVars, diskVars, viewVars
  <2>. QED  BY <2>1, TService
<1>. QED  BY <1>1, <1>2, <1>3, <1>4, <1>5, <1>6, Steps

\* TypeOK of every reachable state: each variable keeps its type; the config file
\* is never missing; a temporary file is open in exactly the threads that write it,
\* and they know what to write.
THEOREM TypeCorrect == Spec => []TypeOK
<1>1. TInv => TypeOK
  <2>. SUFFICES ASSUME TInv PROVE TypeOK
    OBVIOUS
  <2>1. /\ tasks \in [Tasks -> Task] /\ {loaded, loadErr, fresh, overlap} \subseteq BOOLEAN
        /\ marks \subseteq Tasks \X Spellings
        /\ ticker \in {"on", "stopping", "off"} /\ todo \subseteq Tasks
    BY DEF TInv, Globals, Lists
  <2>2. now \in 0 .. MaxNow /\ boots \in 0 .. MaxBoots
    BY TimesAreNumbers DEF TInv, Globals
  <2>3. /\ {file.state, tmp.state} \subseteq {"missing", "blank", "broken", "whole"}
        /\ file.state # "missing" /\ {file.list, tmp.list} \subseteq [Tasks -> Task]
        /\ unsaved \subseteq Tasks
    BY DEF TInv, Globals, Files, Lists
  <2>4. pc \in [Threads -> Labels] /\ live \subseteq {p \in Threads : view[p] # {}}
    BY DEF TInv, Shapes, Placed
  <2>5. \A p \in Threads :
          /\ job[p].kind \in {"none", "reserve", "finish", "terminate", "edit"}
          /\ target[p] \in {"none", "tmp", "file", "gone"}
          /\ target[p] # "none" <=> pc[p] = "write"
          /\ pc[p] \in {"open", "write"} => view[p] # {}
    BY TFacts DEF TInv, Shapes, Placed, Jobs, Kinds
  <2>. QED  BY <2>1, <2>2, <2>3, <2>4, <2>5 DEF TypeOK
<1>. QED  BY <1>1, TInit, TNext, PTL DEF Spec

-----------------------------------------------------------------------------
(* Marks *)

\* A run in flight has its mark, unless somebody else took it.
Marked == \A p \in Threads : InFlight(p) /\ p \notin lost => Key(p) \in marks
MInv == MarkOwned /\ Marked /\ MarkExcludes

\* No run is started or ended, and none changes its key.
SameRuns ==
    \A q \in Threads : (InFlight(q)' <=> InFlight(q)) /\ (InFlight(q) => Key(q)' = Key(q))
OtherRuns(p) ==
    \A q \in Threads \ {p} :
        (InFlight(q)' <=> InFlight(q)) /\ (InFlight(q) => Key(q)' = Key(q))

LEMMA SteppedRuns ==
    ASSUME NEW p \in Threads, NEW label, NEW j, Stepped(p, label, j)
    PROVE  /\ OtherRuns(p) /\ Key(p)' = <<j.task, j.as>>
           /\ InFlight(p)' <=> j.kind \in {"reserve", "finish"}
                               /\ label \notin {"idle", "done", "killed"}
BY DEF Stepped, OtherRuns, InFlight, Key

LEMMA StillMarked ==
    ASSUME MInv, SameRuns, UNCHANGED <<marks, lost>>
    PROVE  MInv'
BY DEF MInv, SameRuns, MarkOwned, Marked, MarkExcludes, Key

\* A new run under a key that has no mark: whoever else runs under it has lost its own.
LEMMA NewlyMarked ==
    ASSUME MInv, NEW p \in Threads, OtherRuns(p), ~InFlight(p), InFlight(p)', lost' = lost,
           Key(p)' \notin marks, marks' = marks \union {Key(p)'}
    PROVE  MInv'
<1>1. MarkOwned'
  <2>. SUFFICES ASSUME NEW key \in marks' PROVE \E q \in Threads : (InFlight(q) /\ key = Key(q))'
    BY DEF MarkOwned, Key
  <2>1. CASE key = Key(p)'
    BY <2>1
  <2>2. CASE key \in marks
    <3>1. PICK q \in Threads : InFlight(q) /\ key = Key(q)
      BY <2>2 DEF MInv, MarkOwned, Key
    <3>. QED  BY <3>1 DEF OtherRuns
  <2>. QED  BY <2>1, <2>2
<1>2. Marked'
  BY DEF MInv, Marked, OtherRuns
<1>3. ASSUME NEW q \in Threads \ {p}, InFlight(q)', Key(q)' = Key(p)'
      PROVE  q \in lost'
  BY <1>3 DEF MInv, Marked, OtherRuns
<1>4. MarkExcludes'
  <2>. SUFFICES ASSUME NEW q \in Threads, NEW r \in Threads, q # r,
                       InFlight(q)', InFlight(r)', Key(q)' = Key(r)'
                PROVE  {q, r} \intersect lost' # {}
    BY DEF MarkExcludes, Key
  <2>1. CASE p \in {q, r}
    BY <1>3, <2>1
  <2>2. CASE p \notin {q, r}
    <3>1. InFlight(q) /\ InFlight(r) /\ Key(q) = Key(r)
      BY <2>2 DEF OtherRuns
    <3>. QED  BY <3>1 DEF MInv, MarkExcludes, Key
  <2>. QED  BY <2>1, <2>2
<1>. QED  BY <1>1, <1>2, <1>4 DEF MInv

\* A thread that is no run, or no longer, takes the mark of its key away.
LEMMA MarkTaken ==
    ASSUME MInv, NEW p \in Threads, OtherRuns(p), ~InFlight(p)',
           marks' = marks \ {Key(p)}, Lose({Key(p)}, p)
    PROVE  MInv'
<1>1. MarkOwned'
  <2>. SUFFICES ASSUME NEW key \in marks' PROVE \E q \in Threads : (InFlight(q) /\ key = Key(q))'
    BY DEF MarkOwned, Key
  <2>1. PICK q \in Threads : InFlight(q) /\ key = Key(q)
    BY DEF MInv, MarkOwned, Key
  <2>. QED  BY <2>1 DEF OtherRuns
<1>2. lost' = lost \union {q \in Threads \ {p} : InFlight(q) /\ Key(q) = Key(p)}
  BY DEF Lose, Key
<1>3. Marked'
  <2>. SUFFICES ASSUME NEW q \in Threads, InFlight(q)', q \notin lost' PROVE Key(q)' \in marks'
    BY DEF Marked
  <2>1. q # p /\ InFlight(q) /\ Key(q)' = Key(q) /\ q \notin lost
    BY <1>2 DEF OtherRuns
  <2>2. Key(q) \in marks /\ Key(q) # Key(p)
    BY <1>2, <2>1 DEF MInv, Marked
  <2>. QED  BY <2>1, <2>2
<1>4. MarkExcludes'
  <2>. SUFFICES ASSUME NEW q \in Threads, NEW r \in Threads, q # r,
                       InFlight(q)', InFlight(r)', Key(q)' = Key(r)'
                PROVE  {q, r} \intersect lost' # {}
    BY DEF MarkExcludes, Key
  <2>1. q # p /\ r # p /\ InFlight(q) /\ InFlight(r) /\ Key(q) = Key(r)
    BY DEF OtherRuns
  <2>2. {q, r} \intersect lost # {}
    BY <2>1 DEF MInv, MarkExcludes, Key
  <2>. QED  BY <1>2, <2>2
<1>. QED  BY <1>1, <1>3, <1>4 DEF MInv

LEMMA MarksUnloaded ==
    ASSUME MInv, SameRuns, marks' = {}, Lose(marks, NoRun)
    PROVE  MInv'
<1>1. lost' = lost \union {q \in Threads : InFlight(q) /\ Key(q) \in marks}
  BY NoRunAssumption DEF Lose, Key
<1>2. MarkOwned'
  BY DEF MarkOwned
<1>3. Marked'
  BY <1>1 DEF MInv, Marked, SameRuns
<1>4. MarkExcludes'
  <2>. SUFFICES ASSUME NEW q \in Threads, NEW r \in Threads, q # r,
                       InFlight(q)', InFlight(r)', Key(q)' = Key(r)'
                PROVE  {q, r} \intersect lost' # {}
    BY DEF MarkExcludes, Key
  <2>1. InFlight(q) /\ InFlight(r) /\ Key(q) = Key(r)
    BY DEF SameRuns
  <2>2. {q, r} \intersect lost # {}
    BY <2>1 DEF MInv, MarkExcludes, Key
  <2>. QED  BY <1>1, <2>2
<1>. QED  BY <1>2, <1>3, <1>4 DEF MInv

\* The steps of a thread that keep it a run under its key, or no run.
LEMMA RunKept ==
    ASSUME TInv, NEW p \in Threads, NEW label, NEW j, Stepped(p, label, j),
           j.task = job[p].task, j.as = job[p].as,
           pc[p] \notin {"idle", "done", "killed"},
           (j.kind \in {"reserve", "finish"}) <=> (job[p].kind \in {"reserve", "finish"}),
           (job[p].kind \in {"reserve", "finish"}) => label \notin {"idle", "done", "killed"}
    PROVE  SameRuns
<1>1. /\ OtherRuns(p) /\ Key(p)' = Key(p)
      /\ InFlight(p)' <=> InFlight(p)
  BY SteppedRuns DEF Key, InFlight
<1>. QED  BY <1>1 DEF OtherRuns, SameRuns

LEMMA IdleIsNoRun ==
    ASSUME NEW p \in Threads, NEW label, NEW j, Stepped(p, label, j),
           pc[p] = "idle", j.kind \notin {"reserve", "finish"}
    PROVE  SameRuns
<1>1. OtherRuns(p) /\ ~InFlight(p)' /\ ~InFlight(p)
  BY SteppedRuns DEF InFlight
<1>. QED  BY <1>1 DEF OtherRuns, SameRuns

LEMMA MNext == TInv /\ MInv /\ [Next]_vars => MInv'
<1>. SUFFICES ASSUME TInv, MInv, [Next]_vars PROVE MInv'
  OBVIOUS
<1>1. ASSUME NEW p \in Threads, NEW t \in Tasks, NEW as \in Spellings, NEW manual \in BOOLEAN,
             Start(p, t, as, manual), todo' \in {todo, todo \ {t}}
      PROVE  MInv'
  <2>. DEFINE j == Job("reserve", t, as, manual)
  <2>1. todo' \subseteq Tasks
    BY <1>1 DEF TInv, Globals
  <2>0. /\ TInv' /\ Stepped(p, "load", Job("reserve", t, as, manual))
        /\ pc[p] = "idle" /\ Watch /\ Aside /\ UNCHANGED <<log, lost>>
        /\ <<t, as>> \notin marks /\ marks' = marks \union {<<t, as>>}
    BY <1>1, <2>1, StartDoes
  <2>2. /\ Stepped(p, "load", j) /\ pc[p] = "idle" /\ lost' = lost
        /\ <<t, as>> \notin marks /\ marks' = marks \union {<<t, as>>}
    BY <2>0
  <2>3. j.kind = "reserve" /\ j.task = t /\ j.as = as
    BY NoJobIsAJob DEF Job, Jobs
  <2>. HIDE DEF j
  <2>4. OtherRuns(p) /\ InFlight(p)' /\ Key(p)' = <<t, as>>
    <3>1. Stepped(p, "load", j)
      BY <2>2
    <3>2. /\ OtherRuns(p) /\ Key(p)' = <<j.task, j.as>>
          /\ InFlight(p)' <=> j.kind \in {"reserve", "finish"}
                               /\ "load" \notin {"idle", "done", "killed"}
      BY <3>1, SteppedRuns
    <3>. QED  BY <2>3, <3>2
  <2>5. ~InFlight(p)
    BY <2>2 DEF InFlight
  <2>. QED  BY <2>2, <2>4, <2>5, NewlyMarked
<1>2. ASSUME NEW p \in Threads, NEW t \in Tasks, NEW as \in Spellings, BeginTerminate(p, t, as)
      PROVE  MInv'
  <2>1. Job("terminate", t, as, TRUE).kind = "terminate"
    BY NoJobIsAJob DEF Job, Jobs
  <2>. QED  BY <1>2, <2>1, BeginTerminateDoes, IdleIsNoRun, StillMarked
<1>3. ASSUME NEW p \in Threads, NEW t \in Tasks, BeginEdit(p, t)
      PROVE  MInv'
  <2>1. Job("edit", t, Listed, TRUE).kind = "edit"
    BY NoJobIsAJob DEF Job, Jobs
  <2>. QED  BY <1>3, <2>1, BeginEditDoes, IdleIsNoRun, StillMarked
<1>4. ASSUME NEW p \in Threads, Reserve(p)
      PROVE  MInv'
  <2>1. /\ pc[p] = "lock" /\ UNCHANGED <<marks, lost>>
        /\ \E label \in {"unmark", "open"} : Stepped(p, label, job[p])
    BY <1>4, ReserveDoes
  <2>. QED  BY <2>1, RunKept, StillMarked
<1>5. ASSUME NEW p \in Threads, Execute(p)
      PROVE  MInv'
  <2>1. /\ pc[p] = "exec" /\ job[p].kind = "reserve" /\ UNCHANGED <<marks, lost>>
        /\ \E j \in Jobs : /\ Stepped(p, "load", j) /\ j.kind = "finish"
                           /\ j.task = job[p].task /\ j.as = job[p].as
    BY <1>5, ExecuteDoes
  <2>. QED  BY <2>1, RunKept, StillMarked
<1>6. ASSUME NEW p \in Threads, Finish(p)
      PROVE  MInv'
  <2>1. /\ pc[p] = "lock" /\ UNCHANGED <<marks, lost>>
        /\ \E label \in {"unmark", "report", "open"} : Stepped(p, label, job[p])
    BY <1>6, FinishDoes
  <2>. QED  BY <2>1, RunKept, StillMarked
<1>7. ASSUME NEW p \in Threads, Terminate(p)
      PROVE  MInv'
  <2>1. pc[p] = "lock" /\ job[p].kind = "terminate"
    BY <1>7, TerminateDoes
  <2>2. CASE Stepped(p, "done", job[p]) /\ UNCHANGED <<marks, lost>>
    BY <2>1, <2>2, RunKept, StillMarked
  <2>3. CASE /\ marks' = marks \ {Key(p)} /\ Lose({Key(p)}, p)
             /\ \E j \in Jobs : Stepped(p, "open", j) /\ j.kind = "terminate"
    <3>1. OtherRuns(p) /\ ~InFlight(p)'
      BY <2>3, SteppedRuns
    <3>. QED  BY <2>3, <3>1, MarkTaken
  <2>. QED  BY <1>7, <2>2, <2>3, TerminateDoes
<1>8. ASSUME NEW p \in Threads, Unmark(p)
      PROVE  MInv'
  <2>1. /\ Stepped(p, "done", job[p]) /\ marks' = marks \ {Key(p)} /\ Lose({Key(p)}, p)
    BY <1>8, UnmarkDoes
  <2>2. OtherRuns(p) /\ ~InFlight(p)'
    BY <2>1, SteppedRuns
  <2>. QED  BY <2>1, <2>2, MarkTaken
<1>9. ASSUME NEW p \in Threads,
             \/ Save(p) \/ Load(p) \/ Open(p) \/ Write(p) \/ Rename(p) \/ Fails(p)
             \/ Reload(p) \/ Report(p) \/ Log(p) \/ LogFails(p)
      PROVE  MInv'
  <2>1. /\ UNCHANGED <<marks, lost>> /\ pc[p] \notin {"idle", "done", "killed"}
        /\ \E label \in Labels : /\ Stepped(p, label, job[p])
                                 /\ (job[p].kind \in {"reserve", "finish"}) =>
                                       label \notin {"idle", "done", "killed"}
    <3>1. CASE Save(p) \/ Open(p) \/ Write(p) \/ Report(p)
      BY <3>1, SaveDoes, OpenDoes, WriteDoes, ReportDoes DEF Labels
    <3>2. CASE Load(p)
      BY <3>2, LoadDoes DEF Labels
    <3>3. CASE Rename(p)
      BY <3>3, RenameDoes DEF Labels
    <3>4. CASE Reload(p) \/ Log(p)
      BY <3>4, ReloadDoes, LogDoes DEF Labels
    <3>5. CASE Fails(p) \/ LogFails(p)
      BY <3>5, FailsDoes, LogFailsDoes DEF Labels, GivenUp
    <3>. QED  BY <1>9, <3>1, <3>2, <3>3, <3>4, <3>5
  <2>. QED  BY <2>1, RunKept, StillMarked
<1>10. CASE \/ Tick \/ Read \/ LoadRequest \/ StopTicker \/ Advance \/ \E t \in Tasks : PassOver(t)
  <2>1. UNCHANGED <<pc, job, marks, lost>>
    BY <1>10, ReadersDo, BystandersDo
  <2>2. SameRuns
    BY <2>1 DEF SameRuns, InFlight, Key
  <2>. QED  BY <2>1, <2>2, StillMarked
<1>11. CASE Unload
  <2>1. UNCHANGED <<pc, job>> /\ marks' = {} /\ Lose(marks, NoRun)
    BY <1>11, UnloadDoes
  <2>2. SameRuns
    BY <2>1 DEF SameRuns, InFlight, Key
  <2>. QED  BY <2>1, <2>2, MarksUnloaded
<1>12. CASE Restart
  <2>1. marks' = {} /\ \A p \in Threads : ~InFlight(p)'
    BY <1>12, RestartDoes DEF InFlight
  <2>. QED  BY <2>1 DEF MInv, MarkOwned, Marked, MarkExcludes
<1>13. CASE UNCHANGED vars
  <2>1. UNCHANGED <<pc, job, marks, lost>>
    BY <1>13 DEF vars, schedVars
  <2>2. SameRuns
    BY <2>1 DEF SameRuns, InFlight, Key
  <2>. QED  BY <2>1, <2>2, StillMarked
<1>. QED  BY <1>1, <1>2, <1>3, <1>4, <1>5, <1>6, <1>7, <1>8, <1>9, <1>10, <1>11, <1>12, <1>13, Steps

LEMMA MInit == Init => MInv
BY NoJobIsAJob DEF Init, MInv, MarkOwned, Marked, MarkExcludes, InFlight

\* MarkOwned of every reachable state: h.scheduledRunning holds no mark that no
\* run in flight will release.
THEOREM MarksAreOwned == Spec => []MarkOwned
<1>1. TInv /\ MInv => MarkOwned
  BY DEF MInv
<1>. QED  BY <1>1, TInit, TNext, MInit, MNext, PTL DEF Spec

\* MarkExcludes of every reachable state: of two runs under one key, somebody else
\* took a mark away.
THEOREM MarksExclude == Spec => []MarkExcludes
<1>1. TInv /\ MInv => MarkExcludes
  BY DEF MInv
<1>. QED  BY <1>1, TInit, TNext, MInit, MNext, PTL DEF Spec

-----------------------------------------------------------------------------
(* Updates that come one at a time: definitions *)

Saving == {"open", "write", "rename"}

\* Its success, or its termination, is in the log or about to be.
Succeeded(p)  == <<p, "success">> \in log \/ (pc[p] = "log" /\ job[p].kind = "finish")
Terminated(p) == \/ <<p, "terminated">> \in log
                 \/ \E q \in Threads : pc[q] = "log" /\ job[q].kind = "terminate" /\ job[q].victim = p

\* Runs that have got as far as a token.
BegunAs(label, j) == label # "idle" /\ ~(j.kind = "reserve" /\ label \in {"load", "lock"})
Begun(p) == BegunAs(pc[p], job[p])

\* Runs whose token may be found somewhere; where a change could not be written, any
\* run of the task.
LiveAs(label, j) ==
    \/ label \in {"exec", "killed"}
    \/ j.kind = "reserve" /\ label \in Saving
    \/ j.kind = "finish" /\ label \in Saving \union {"load", "lock"}
    \/ j.kind \in {"reserve", "finish"} /\ BegunAs(label, j) /\ j.task \in unsaved
Live(p) == LiveAs(pc[p], job[p])
Holder(p) == Live(p) /\ ~Succeeded(p) /\ ~Terminated(p)

\* Every token in a list is that of such a run, in the run's own task.
Clean(l) == \A t \in Tasks, r \in Threads :
    l[t].token = r => l[t].there /\ Holder(r) /\ job[r].task = t
SameAt(l, m, t) == l[t].token = m[t].token /\ l[t].until = m[t].until
Same(l, m)  == \A t \in Tasks : SameAt(l, m, t)
Agree(l, m) == \A t \in Tasks \ unsaved : SameAt(l, m, t)
Free(l, p) == \A t \in Tasks : l[t].token # p

Disk ==
    /\ file.state = "whole" /\ Clean(file.list) /\ Clean(tasks)
    /\ (\A p \in Threads : pc[p] \notin Saving \union {"reload"}) /\ loaded =>
          Agree(file.list, tasks)

Behind(p) == \A t \in Tasks \ unsaved :
    job[p].kind = "edit" \/ t # job[p].task => SameAt(file.list, tasks, t)

\* What an update has in hand: it finds the config loaded; it has one list to write,
\* which is that of memory unless it is an edit's own; the temporary file is its own;
\* the file is behind memory by the task of the update at most; and a run that has taken its token back, or has had it taken, is not yet reported.
InHand(p) ==
    /\ pc[p] = "lock" => loaded
    /\ pc[p] \in {"open", "write"} /\ job[p].kind # "edit" => view[p] = {tasks}
    /\ pc[p] \in {"load", "lock", "open", "write"} /\ job[p].kind = "edit" =>
          \E l \in view[p] : view[p] = {l} /\ Clean(l)
    /\ pc[p] = "write" => tmp = Blank /\ target[p] = "tmp"
    /\ pc[p] = "rename" => tmp.state = "whole" /\ Clean(tmp.list)
    /\ pc[p] = "rename" /\ job[p].kind # "edit" => Same(tmp.list, tasks)
    /\ pc[p] \in Saving => Behind(p)
    /\ pc[p] \in Saving /\ job[p].kind = "finish" =>
          Free(tasks, p) /\ ~Succeeded(p) /\ ~Terminated(p)
    /\ pc[p] \in Saving /\ job[p].kind = "terminate" =>
          \A r \in Threads : job[p].victim = r =>
              Free(tasks, r) /\ ~Succeeded(r) /\ ~Terminated(r)

Outcomes ==
    /\ \A p \in Threads : ~(Succeeded(p) /\ Terminated(p))
    /\ \A p \in Threads : <<p, "success">> \in log => job[p].kind = "finish"
                                                  /\ pc[p] \in {"unmark", "done", "killed"}
    /\ \A p \in Threads : <<p, "terminated">> \in log => Begun(p)
    /\ \A q, r \in Threads : job[q].victim = r => Begun(r)

One == \A p, q \in Threads : p # q /\ Updating(pc[p]) /\ Updating(pc[q]) => overlap

Orderly == Disk /\ Outcomes /\ \A p \in Threads : InHand(p)
SInv == ~overlap => Orderly

-----------------------------------------------------------------------------
(* Updates that come one at a time: what steps do to each part *)

LEMMA WatchedOne == ASSUME Watch PROVE One'
BY DEF Watch, One

LEMMA SameOne ==
    ASSUME One, overlap => overlap', \A q \in Threads : Updating(pc'[q]) => Updating(pc[q])
    PROVE  One'
BY DEF One

Lone(p) == \A q \in Threads \ {p} : ~Updating(pc[q])

\* An update that has met nobody is the only one.
LEMMA LoneUpdate ==
    ASSUME One, Watch, ~overlap', NEW p \in Threads, NEW label, NEW j, Stepped(p, label, j),
           Updating(pc[p]) \/ Updating(label)
    PROVE  Lone(p)
<1>1. ~overlap /\ \A q, r \in Threads : ~(q # r /\ Updating(pc'[q]) /\ Updating(pc'[r]))
  BY DEF Watch
<1>2. CASE Updating(pc[p])
  BY <1>1, <1>2 DEF One, Lone
<1>3. CASE Updating(label)
  BY <1>1, <1>3 DEF Stepped, Lone
<1>. QED  BY <1>2, <1>3

CleanNext(l) == \A t \in Tasks, r \in Threads :
    l[t].token = r => l[t].there /\ Holder(r)' /\ job'[r].task = t

\* No run is reported by the step.
SameReports ==
    \A r \in Threads : (Succeeded(r)' <=> Succeeded(r)) /\ (Terminated(r)' <=> Terminated(r))

NoNewReports ==
    \A r \in Threads : (Succeeded(r)' => Succeeded(r)) /\ (Terminated(r)' => Terminated(r))

LEMMA ReportsStay ==
    ASSUME NEW p \in Threads, NEW label, NEW j, Stepped(p, label, j), log' = log,
           label # "log", pc[p] # "log"
    PROVE  SameReports
<1>1. ASSUME NEW r \in Threads PROVE Succeeded(r)' <=> Succeeded(r)
  BY DEF Stepped, Succeeded
<1>2. ASSUME NEW r \in Threads PROVE Terminated(r)' <=> Terminated(r)
  BY DEF Stepped, Terminated
<1>. QED  BY <1>1, <1>2 DEF SameReports

LEMMA OutcomesStay ==
    ASSUME Outcomes, NEW p \in Threads, NEW label, NEW j, Stepped(p, label, j), log' = log,
           label # "log", pc[p] \notin {"log", "unmark", "done", "killed"},
           Begun(p) => BegunAs(label, j),
           \A r \in Threads : j.victim = r => job[p].victim = r \/ Begun(r)
    PROVE  Outcomes'
<1>1. SameReports
  BY ReportsStay
<1>2. \A r \in Threads : Begun(r) => Begun(r)'
  BY DEF Stepped, Begun
<1>3. (\A r \in Threads : ~(Succeeded(r) /\ Terminated(r)))'
  BY <1>1 DEF Outcomes, SameReports
<1>4. (\A r \in Threads : <<r, "success">> \in log => job[r].kind = "finish"
                                                  /\ pc[r] \in {"unmark", "done", "killed"})'
  BY DEF Outcomes, Stepped
<1>5. (\A r \in Threads : <<r, "terminated">> \in log => Begun(r))'
  BY <1>2 DEF Outcomes
<1>6. (\A q, r \in Threads : job[q].victim = r => Begun(r))'
  BY <1>2 DEF Outcomes, Stepped
<1>. QED  BY <1>3, <1>4, <1>5, <1>6 DEF Outcomes

\* With more tasks that could not be saved, more runs may be found and less must agree.
LEMMA UnsavedGrows ==
    ASSUME unsaved \subseteq unsaved'
    PROVE  /\ \A label, j : LiveAs(label, j) => LiveAs(label, j)'
           /\ \A l, m : Agree(l, m) => Agree(l, m)'
BY DEF LiveAs, BegunAs, Agree, SameAt

LEMMA CleanStays ==
    ASSUME NEW p \in Threads, NEW label, NEW j, Stepped(p, label, j), NEW l, Clean(l),
           SameReports, Free(l, p) \/ (LiveAs(label, j) /\ j.task = job[p].task)
    PROVE  CleanNext(l)
<1>. SUFFICES ASSUME NEW t \in Tasks, NEW r \in Threads, l[t].token = r
              PROVE  l[t].there /\ Holder(r)' /\ job'[r].task = t
  BY DEF CleanNext
<1>1. l[t].there /\ Holder(r) /\ job[r].task = t
  BY DEF Clean
<1>2. Live(r)' /\ job'[r].task = t
  <2>. USE DEF Stepped
  <2>1. CASE r = p
    <3>1. LiveAs(label, j) /\ j.task = job[p].task
      BY <1>1, <2>1 DEF Free
    <3>. QED  BY <1>1, <2>1, <3>1 DEF Live, LiveAs, BegunAs
  <2>2. CASE r # p
    <3>1. Live(r) /\ pc'[r] = pc[r] /\ job'[r] = job[r]
      BY <1>1, <2>2 DEF Holder
    <3>. QED  BY <1>1, <3>1 DEF Live, LiveAs, BegunAs
  <2>. QED  BY <2>1, <2>2
<1>3. Holder(r)'
  BY <1>1, <1>2 DEF SameReports, Holder
<1>. QED  BY <1>1, <1>2, <1>3

LEMMA NotHeld ==
    ASSUME NEW p \in Threads, ~Live(p), NEW l, Clean(l)
    PROVE  Free(l, p)
BY DEF Clean, Free, Holder

LEMMA HeldInItsTask ==
    ASSUME NEW p \in Threads, NEW l, Clean(l), NEW t \in Tasks, l[t].token = p
    PROVE  job[p].task = t /\ l[t].there /\ Live(p) /\ ~Succeeded(p) /\ ~Terminated(p)
BY DEF Clean, Holder

\* Lists that agree hold the same tokens.
LEMMA AgreeingLists ==
    ASSUME NEW l, NEW m, Same(l, m)
    PROVE  Agree(l, m) /\ \A p : Free(m, p) => Free(l, p)
BY DEF Agree, Same, SameAt, Free

\* What is behind memory by one task is so while nothing changes, and after a change of
\* that task.
LEMMA StillBehind ==
    ASSUME NEW p \in Threads, unsaved \subseteq unsaved', job'[p].task = job[p].task, file' = file,
           \/ Behind(p) /\ tasks' = tasks /\ (job'[p].kind = "edit" <=> job[p].kind = "edit")
           \/ /\ Agree(file.list, tasks)
              /\ \/ tasks' = tasks
                 \/ /\ job'[p].kind # "edit"
                    /\ \A u \in Tasks \ {job[p].task} : tasks'[u] = tasks[u]
    PROVE  Behind(p)'
BY DEF Behind, Agree, SameAt

LEMMA Agreed ==
    ASSUME Disk, NEW p \in Threads, Lone(p), pc[p] \notin Saving \union {"reload"}, loaded
    PROVE  Agree(file.list, tasks)
BY DEF Disk, Lone, Updating, Saving

LEMMA NothingInHand ==
    ASSUME NEW p \in Threads, ~Updating(pc'[p]) PROVE InHand(p)'
BY DEF InHand, Updating, Saving

LEMMA Settled ==
    ASSUME NEW p \in Threads, Lone(p), NEW label, NEW j, Stepped(p, label, j),
           file'.state = "whole", CleanNext(file'.list), CleanNext(tasks'),
           label \notin Saving \union {"reload"} /\ loaded' => Agree(file'.list, tasks'),
           InHand(p)', Outcomes'
    PROVE  Orderly'
<1>1. Disk'
  <2>1. unsaved \subseteq unsaved'
    BY DEF Stepped
  <2>2. Agree(file'.list, tasks') => Agree(file.list, tasks)'
    BY <2>1 DEF Agree, SameAt
  <2>. QED  BY <2>2 DEF Disk, Clean, CleanNext, Stepped
<1>2. ASSUME NEW q \in Threads PROVE InHand(q)'
  <2>1. CASE q = p
    BY <2>1
  <2>2. CASE q # p
    BY <2>2, NothingInHand DEF Lone, Stepped
  <2>. QED  BY <2>1, <2>2
<1>. QED  BY <1>1, <1>2 DEF Orderly

\* A step that changes neither a list nor the log.
LEMMA Mundane ==
    ASSUME Orderly, NEW p \in Threads, Lone(p), NEW label, NEW j, Stepped(p, label, j),
           UNCHANGED <<tasks, file, log>>, loaded' => loaded,
           label \notin {"idle", "log"} \union Saving \union {"reload"},
           pc[p] \notin {"log", "unmark", "done", "killed"} \union Saving \union {"reload"},
           Begun(p) => BegunAs(label, j), j.victim = job[p].victim \/ j.victim \notin Threads,
           \/ LiveAs(label, j) /\ j.task = job[p].task
           \/ Free(tasks, p) /\ Free(file.list, p),
           InHand(p)'
    PROVE  Orderly'
<1>1. SameReports /\ Outcomes'
  BY ReportsStay, OutcomesStay DEF Orderly
<1>2. Clean(tasks) /\ Clean(file.list) /\ file.state = "whole" /\ Disk
  BY DEF Orderly, Disk
<1>3. CleanNext(tasks) /\ CleanNext(file.list)
  BY <1>1, <1>2, CleanStays
<1>4. loaded' => Agree(file.list, tasks)
  BY <1>2, Agreed
<1>. QED  BY <1>1, <1>2, <1>3, <1>4, Settled

\* A step of no update: what is in hand stays in hand.
LEMMA Undisturbed ==
    ASSUME Orderly, UNCHANGED <<tasks, loaded, file, tmp, view, target, unsaved, job>>,
           \A q \in Threads : Updating(pc[q]) \/ Updating(pc'[q]) => pc'[q] = pc[q],
           \A q \in Threads : Live(q) => Live(q)',
           NoNewReports, Outcomes'
    PROVE  Orderly'
<1>1. \A l : Clean(l) => CleanNext(l)
  BY DEF Clean, CleanNext, Holder, NoNewReports
<1>2. \A q \in Threads : pc'[q] \in Saving \union {"reload"} <=> pc[q] \in Saving \union {"reload"}
  BY DEF Updating, Saving
<1>3. Disk'
  <2>1. CleanNext(file.list) /\ CleanNext(tasks) /\ file.state = "whole"
    BY <1>1 DEF Orderly, Disk
  <2>2. ((\A p \in Threads : pc[p] \notin Saving \union {"reload"}) /\ loaded => Agree(file.list, tasks))'
    BY <1>2 DEF Orderly, Disk, Agree, SameAt
  <2>. QED  BY <2>1, <2>2 DEF Disk, Clean, CleanNext
<1>4. ASSUME NEW q \in Threads PROVE InHand(q)'
  <2>1. CASE ~Updating(pc'[q])
    BY <2>1, NothingInHand
  <2>2. CASE Updating(pc'[q])
    <3>1. pc'[q] = pc[q] /\ InHand(q)
      BY <2>2 DEF Orderly
    <3>2. \A l : Clean(l) => Clean(l)'
      BY <1>1 DEF Clean, CleanNext
    <3>3. Behind(q) => Behind(q)'
      BY DEF Behind, SameAt
    <3>4. Same(tmp.list, tasks) => Same(tmp.list, tasks)'
      BY DEF Same, SameAt
    <3>5. Clean(tmp.list) => Clean(tmp.list)'
      BY <1>1 DEF Clean, CleanNext
    <3>6. (\E l \in view[q] : view[q] = {l} /\ Clean(l)) => (\E l \in view[q] : view[q] = {l} /\ Clean(l))'
      BY <3>2
    <3>. HIDE DEF NoNewReports
    <3>7. \A r \in Threads : Free(tasks, r) /\ ~Succeeded(r) /\ ~Terminated(r) =>
                (Free(tasks, r) /\ ~Succeeded(r) /\ ~Terminated(r))'
      BY DEF NoNewReports, Free
    <3>. QED  BY <3>1, <3>3, <3>4, <3>5, <3>6, <3>7 DEF InHand
  <2>. QED  BY <2>1, <2>2
<1>. QED  BY <1>3, <1>4 DEF Orderly

-----------------------------------------------------------------------------
(* Updates that come one at a time: each step *)

\* The conditions under which the steps of updates are looked at.
OneByOne(p) == TInv /\ Orderly /\ Lone(p)

LEMMA OrderlyFacts ==
    ASSUME Orderly
    PROVE  /\ file.state = "whole" /\ Clean(file.list) /\ Clean(tasks) /\ Disk /\ Outcomes
           /\ \A p \in Threads : InHand(p)
BY DEF Orderly, Disk

LEMMA BeginsOrderly ==
    ASSUME NEW p \in Threads, OneByOne(p), NEW j \in Jobs, Stepped(p, "load", j), pc[p] = "idle",
           j.victim = NoRun, UNCHANGED <<tasks, loaded, file, log>>, InHand(p)'
    PROVE  Orderly'
<1>1. ~Live(p) /\ ~Begun(p)
  <2>1. job[p] = NoJob /\ NoJob.kind = "none"
    BY NoJobIsAJob, TFacts DEF PlacedAs, OneByOne
  <2>. QED  BY <2>1 DEF Live, LiveAs, Begun, BegunAs
<1>2. Free(tasks, p) /\ Free(file.list, p)
  BY <1>1, OrderlyFacts, NotHeld DEF OneByOne
<1>3. j.victim \notin Threads
  BY NoRunAssumption
<1>. QED  BY <1>1, <1>2, <1>3, Mundane DEF OneByOne, Saving

LEMMA BeginEditOrderly ==
    ASSUME NEW p \in Threads, OneByOne(p), NEW t \in Tasks, BeginEdit(p, t)
    PROVE  Orderly'
<1>. DEFINE j == Job("edit", t, Listed, TRUE)
<1>1. /\ TInv' /\ Stepped(p, "load", j)
      /\ pc[p] = "idle" /\ UNCHANGED <<tasks, loaded, file, tmp, target, log>>
      /\ \E edited \in Edits(tasks[t]) : view'[p] = {[tasks EXCEPT ![t] = edited]}
  BY BeginEditDoes DEF OneByOne
<1>2. j \in Jobs /\ j.kind = "edit" /\ j.victim = NoRun
  BY NoJobIsAJob, SpellingAssumption DEF Job, Jobs, Kinds
<1>. HIDE DEF j
<1>3. PICK edited \in Edits(tasks[t]) : view'[p] = {[tasks EXCEPT ![t] = edited]}
  BY <1>1
<1>. DEFINE l == [tasks EXCEPT ![t] = edited]
<1>4. tasks \in Lists /\ tasks[t] \in Task
  BY TFacts DEF OneByOne, Lists
<1>5. edited.token # NoRun => edited.token = tasks[t].token /\ (tasks[t].there => edited.there)
  BY <1>4, EditsAreTasks
<1>6. Free(tasks, p) /\ SameReports /\ Clean(tasks)
  <2>1. ~Live(p)
    <3>1. job[p] = NoJob /\ NoJob.kind = "none"
      BY <1>1, NoJobIsAJob, TFacts DEF PlacedAs, OneByOne
    <3>. QED  BY <1>1, <3>1 DEF Live, LiveAs
  <2>. QED  BY <1>1, <2>1, NotHeld, OrderlyFacts, ReportsStay DEF OneByOne
<1>7. CleanNext(tasks)
  BY <1>1, <1>6, CleanStays
<1>8. CleanNext(l)
  <2>. SUFFICES ASSUME NEW u \in Tasks, NEW r \in Threads, l[u].token = r
                PROVE  l[u].there /\ Holder(r)' /\ job'[r].task = u
    BY DEF CleanNext
  <2>1. CASE u # t
    <3>1. l[u] = tasks[u]
      BY <1>4, <2>1 DEF Lists
    <3>. QED  BY <1>7, <3>1 DEF CleanNext
  <2>2. CASE u = t
    <3>1. l[u] = edited
      BY <1>4, <2>2 DEF Lists
    <3>2. tasks[t].token = r /\ (tasks[t].there => edited.there)
      BY <1>5, <3>1, NoRunAssumption
    <3>. QED  BY <1>7, <2>2, <3>1, <3>2 DEF CleanNext
  <2>. QED  BY <2>1, <2>2
<1>. HIDE DEF l
<1>9. view'[p] = {l}
  BY <1>3 DEF l
<1>10. InHand(p)'
  <2>1. pc'[p] = "load" /\ job'[p] = j
    BY <1>1 DEF Stepped
  <2>2. (\E m \in view[p] : view[p] = {m} /\ Clean(m))'
    BY <1>8, <1>9 DEF Clean, CleanNext
  <2>. QED  BY <1>2, <2>1, <2>2 DEF InHand, Saving
<1>. QED  BY <1>1, <1>2, <1>10, BeginsOrderly

LEMMA LoadOrderly ==
    ASSUME NEW p \in Threads, OneByOne(p), Load(p)
    PROVE  Orderly'
<1>1. /\ pc[p] = "load" /\ UNCHANGED <<view, file, tmp, target, log>>
      /\ file.state = "whole" /\ Clean(file.list) /\ Clean(tasks) /\ Disk /\ Outcomes /\ InHand(p)
  BY LoadDoes, OrderlyFacts DEF OneByOne
<1>2. Stepped(p, "lock", job[p]) /\ (Kept \/ Took)
  BY <1>1, LoadDoes DEF OneByOne, Failed
<1>3. SameReports /\ Outcomes'
  <2>1. Begun(p) => BegunAs("lock", job[p])
    BY <1>1 DEF Begun, BegunAs
  <2>. QED  BY <1>1, <1>2, <2>1, ReportsStay, OutcomesStay
<1>4. \A l : Clean(l) => CleanNext(l)
  <2>1. LiveAs("lock", job[p]) <=> Live(p)
    BY <1>1 DEF Live, LiveAs, BegunAs, Saving
  <2>. QED  BY <1>2, <1>3, <2>1, CleanStays, NotHeld
<1>5. loaded' /\ CleanNext(tasks') /\ Agree(file.list, tasks')
  <2>1. CASE Kept
    <3>1. tasks' = tasks /\ loaded' /\ loaded
      BY <2>1 DEF Kept, memVars
    <3>2. Agree(file.list, tasks)
      BY <1>1, <3>1, Agreed DEF OneByOne, Saving
    <3>. QED  BY <1>1, <1>4, <3>1, <3>2
  <2>2. CASE Took
    <3>1. tasks' = Sanitize(file.list) /\ loaded' /\ file.list \in Lists /\ now \in Nat
      BY <2>2, TFacts DEF Took, OneByOne
    <3>2. \A t \in Tasks : /\ tasks'[t].token = file.list[t].token
                           /\ tasks'[t].until = file.list[t].until
                           /\ tasks'[t].there = file.list[t].there
      BY <3>1, SanitizeIsAList
    <3>3. CleanNext(file.list)
      BY <1>1, <1>4
    <3>. QED  BY <3>1, <3>2, <3>3 DEF CleanNext, Agree, SameAt
  <2>. QED  BY <1>2, <2>1, <2>2
<1>6. InHand(p)'
  <2>1. pc'[p] = "lock" /\ job'[p] = job[p] /\ view'[p] = view[p]
    BY <1>1, <1>2 DEF Stepped
  <2>2. job[p].kind = "edit" => (\E m \in view[p] : view[p] = {m} /\ Clean(m))'
    <3>1. job[p].kind = "edit" => \E m \in view[p] : view[p] = {m} /\ Clean(m)
      BY <1>1 DEF InHand
    <3>. QED  BY <1>4, <2>1, <3>1 DEF Clean, CleanNext
  <2>. QED  BY <1>5, <2>1, <2>2 DEF InHand, Saving
<1>7. CleanNext(file'.list) /\ file'.state = "whole" /\ Agree(file'.list, tasks')
  BY <1>1, <1>4, <1>5
<1>. QED  BY <1>2, <1>3, <1>5, <1>6, <1>7, Settled DEF OneByOne

\* A change of the array that puts at most the thread's own token into its task.
LEMMA ChangeClean ==
    ASSUME NEW p \in Threads, TInv, NEW t \in Tasks, Changes(p, t), CleanNext(tasks),
           \/ tasks'[t].token = NoRun
           \/ tasks'[t].token = p /\ tasks[t].there /\ Holder(p)' /\ job'[p].task = t
    PROVE  CleanNext(tasks') /\ (\A u \in Tasks \ {t} : tasks'[u] = tasks[u])
<1>1. \A u \in Tasks \ {t} : tasks'[u] = tasks[u]
  BY TFacts DEF Changes, Lists
<1>2. tasks'[t].there = tasks[t].there
  BY DEF Changes
<1>. QED  BY <1>1, <1>2, NoRunAssumption DEF CleanNext

LEMMA ReserveOrderly ==
    ASSUME NEW p \in Threads, OneByOne(p), Reserve(p)
    PROVE  Orderly'
<1>. DEFINE t == job[p].task
<1>1. /\ pc[p] = "lock" /\ job[p].kind = "reserve" /\ t \in Tasks
      /\ UNCHANGED <<loaded, file, tmp, target, log>>
      /\ Clean(file.list) /\ Clean(tasks) /\ Disk /\ Outcomes /\ file.state = "whole"
  BY ReserveDoes, OrderlyFacts DEF OneByOne
<1>2. ~Live(p) /\ ~Begun(p)
  BY <1>1 DEF Live, LiveAs, Begun, BegunAs, Saving
<1>3. Free(tasks, p) /\ Free(file.list, p)
  BY <1>1, <1>2, NotHeld
<1>4. \A q \in Threads : job[q].victim = p => FALSE
  BY <1>1, <1>2 DEF Outcomes
<1>7. Agree(file.list, tasks)
  <2>1. InHand(p)
    BY OrderlyFacts DEF OneByOne
  <2>. QED  BY <1>1, <2>1, Agreed DEF OneByOne, InHand, Saving
<1>5. CASE Stepped(p, "unmark", job[p]) /\ UNCHANGED tasks
  <2>1. InHand(p)'
    BY <1>5, NothingInHand DEF Stepped, Updating
  <2>. QED  BY <1>1, <1>2, <1>3, <1>5, <2>1, Mundane DEF OneByOne, Saving
<1>6. CASE /\ Stepped(p, "open", job[p]) /\ Changes(p, t)
           /\ tasks'[t].token = p /\ tasks[t].there
  <2>1. SameReports /\ Outcomes'
    BY <1>1, <1>2, <1>6, ReportsStay, OutcomesStay
  <2>2. CleanNext(tasks) /\ CleanNext(file.list)
    BY <1>1, <1>3, <1>6, <2>1, CleanStays
  <2>3. Holder(p)' /\ job'[p].task = t
    <3>1. pc'[p] = "open" /\ job'[p] = job[p]
      BY <1>6 DEF Stepped
    <3>2. Live(p)'
      BY <1>1, <3>1 DEF Live, LiveAs, Saving
    <3>3. ~Succeeded(p) /\ ~Terminated(p)
      BY <1>1, <1>2, <1>4 DEF Outcomes, Succeeded, Terminated
    <3>. QED  BY <2>1, <3>1, <3>2, <3>3 DEF Holder, SameReports
  <2>. HIDE DEF t
  <2>4. CleanNext(tasks') /\ \A u \in Tasks \ {t} : tasks'[u] = tasks[u]
    BY <1>1, <1>6, <2>2, <2>3, ChangeClean DEF OneByOne
  <2>5. InHand(p)'
    <3>1. pc'[p] = "open" /\ job'[p] = job[p] /\ view'[p] = {tasks'} /\ unsaved \subseteq unsaved'
      BY <1>6 DEF Stepped, Changes
    <3>2. Behind(p)'
      BY <1>1, <1>7, <2>4, <3>1, StillBehind DEF t
    <3>. QED  BY <1>1, <3>1, <3>2 DEF InHand
  <2>. QED  BY <1>1, <1>6, <2>1, <2>2, <2>4, <2>5, Settled DEF OneByOne, Saving
<1>. QED  BY <1>5, <1>6, ReserveDoes DEF OneByOne

LEMMA ExecuteOrderly ==
    ASSUME NEW p \in Threads, OneByOne(p), Execute(p)
    PROVE  Orderly'
<1>1. /\ pc[p] = "exec" /\ job[p].kind = "reserve" /\ UNCHANGED <<tasks, loaded, file, log>>
      /\ \E j \in Jobs : /\ Stepped(p, "load", j) /\ j.kind = "finish"
                         /\ j.task = job[p].task /\ j.victim = job[p].victim
  BY ExecuteDoes DEF OneByOne, Aside
<1>2. PICK j \in Jobs : /\ Stepped(p, "load", j) /\ j.kind = "finish"
                        /\ j.task = job[p].task /\ j.victim = job[p].victim
  BY <1>1
<1>3. InHand(p)'
  <2>1. pc'[p] = "load" /\ job'[p].kind = "finish"
    BY <1>2 DEF Stepped
  <2>. QED  BY <2>1 DEF InHand, Saving
<1>4. LiveAs("load", j) /\ BegunAs("load", j)
  BY <1>2 DEF LiveAs, BegunAs, Saving
<1>. QED  BY <1>1, <1>2, <1>3, <1>4, Mundane DEF OneByOne, Saving

LEMMA FinishOrderly ==
    ASSUME NEW p \in Threads, OneByOne(p), Finish(p)
    PROVE  Orderly'
<1>. DEFINE t == job[p].task
<1>1. /\ pc[p] = "lock" /\ job[p].kind = "finish" /\ t \in Tasks
      /\ UNCHANGED <<loaded, file, tmp, target, log>>
      /\ Clean(file.list) /\ Clean(tasks) /\ Disk /\ Outcomes /\ file.state = "whole" /\ loaded
  BY FinishDoes, OrderlyFacts DEF OneByOne, InHand
<1>4. Agree(file.list, tasks)
  BY <1>1, Agreed DEF OneByOne, Saving
<1>2. CASE /\ \E label \in {"unmark", "report"} : Stepped(p, label, job[p])
           /\ UNCHANGED tasks /\ (tasks[t].there => tasks[t].token # p)
  <2>1. PICK label \in {"unmark", "report"} : Stepped(p, label, job[p])
    BY <1>2
  <2>2. Free(tasks, p)
    <3>. SUFFICES ASSUME NEW u \in Tasks, tasks[u].token = p PROVE FALSE
      BY DEF Free
    <3>1. u = t /\ tasks[u].there
      BY <1>1, HeldInItsTask
    <3>. QED  BY <1>2, <3>1
  <2>3. Free(file.list, p) \/ t \in unsaved
    <3>. SUFFICES ASSUME NEW u \in Tasks, file.list[u].token = p, t \notin unsaved PROVE FALSE
      BY DEF Free
    <3>1. u = t
      BY <1>1, HeldInItsTask
    <3>2. file.list[t].token = tasks[t].token
      BY <1>1, <1>4 DEF Agree, SameAt
    <3>. QED  BY <2>2, <3>1, <3>2 DEF Free
  <2>4. InHand(p)'
    BY <2>1, NothingInHand DEF Stepped, Updating
  <2>5. /\ BegunAs(label, job[p]) /\ label \notin {"idle", "log"} \union Saving \union {"reload"}
        /\ t \in unsaved => LiveAs(label, job[p])
    BY <1>1, <2>1 DEF BegunAs, LiveAs, Saving
  <2>6. job[p].victim = job[p].victim \/ job[p].victim \notin Threads
    OBVIOUS
  <2>7. pc[p] \notin {"log", "unmark", "done", "killed"} \union Saving \union {"reload"}
    BY <1>1 DEF Saving
  <2>8. UNCHANGED <<tasks, file, log, loaded>>
    BY <1>1, <1>2
  <2>. QED  BY <2>1, <2>2, <2>3, <2>4, <2>5, <2>6, <2>7, <2>8, Mundane DEF OneByOne
<1>3. CASE /\ Stepped(p, "open", job[p]) /\ Changes(p, t)
           /\ tasks[t].token = p /\ tasks'[t].token = NoRun
  <2>1. SameReports /\ Outcomes'
    <3>1. BegunAs("open", job[p])
      BY <1>1 DEF BegunAs
    <3>. QED  BY <1>1, <1>3, <3>1, ReportsStay, OutcomesStay
  <2>2. CleanNext(tasks) /\ CleanNext(file.list)
    <3>1. LiveAs("open", job[p])
      BY <1>1 DEF LiveAs, Saving
    <3>. QED  BY <1>1, <1>3, <2>1, <3>1, CleanStays
  <2>3. ~Succeeded(p) /\ ~Terminated(p) /\ \A u \in Tasks \ {t} : tasks[u].token # p
    BY <1>1, <1>3, HeldInItsTask
  <2>4. CleanNext(tasks') /\ \A u \in Tasks \ {t} : tasks'[u] = tasks[u]
    BY <1>1, <1>3, <2>2, ChangeClean DEF OneByOne
  <2>5. Free(tasks', p)
    BY <1>3, <2>3, <2>4, NoRunAssumption DEF Free
  <2>6. InHand(p)'
    <3>1. pc'[p] = "open" /\ job'[p] = job[p] /\ view'[p] = {tasks'}
      BY <1>3 DEF Stepped, Changes
    <3>2. ~Succeeded(p)' /\ ~Terminated(p)'
      BY <2>1, <2>3 DEF SameReports
    <3>3. Free(tasks, p)'
      BY <2>5 DEF Free
    <3>4. Behind(p)'
      BY <1>1, <1>3, <1>4, <2>4, <3>1, StillBehind DEF Stepped, t
    <3>. QED  BY <1>1, <3>1, <3>2, <3>3, <3>4 DEF InHand
  <2>. QED  BY <1>1, <1>3, <2>1, <2>2, <2>4, <2>6, Settled DEF OneByOne, Saving
<1>. QED  BY <1>2, <1>3, FinishDoes DEF OneByOne

LEMMA TerminateOrderly ==
    ASSUME NEW p \in Threads, OneByOne(p), Terminate(p)
    PROVE  Orderly'
<1>. DEFINE t == job[p].task
<1>1. /\ pc[p] = "lock" /\ job[p].kind = "terminate" /\ t \in Tasks
      /\ UNCHANGED <<loaded, file, tmp, target, log>>
      /\ Clean(file.list) /\ Clean(tasks) /\ Disk /\ Outcomes /\ file.state = "whole"
  BY TerminateDoes, OrderlyFacts DEF OneByOne
<1>2. Free(tasks, p) /\ Free(file.list, p)
  <2>1. ~Live(p)
    BY <1>1 DEF Live, LiveAs
  <2>. QED  BY <1>1, <2>1, NotHeld
<1>5. Agree(file.list, tasks)
  <2>1. InHand(p)
    BY OrderlyFacts DEF OneByOne
  <2>. QED  BY <1>1, <2>1, Agreed DEF OneByOne, InHand, Saving
<1>3. CASE Stepped(p, "done", job[p]) /\ UNCHANGED tasks
  <2>1. InHand(p)'
    BY <1>3, NothingInHand DEF Stepped, Updating
  <2>2. BegunAs("done", job[p])
    BY DEF BegunAs
  <2>. QED  BY <1>1, <1>2, <1>3, <2>1, <2>2, Mundane DEF OneByOne, Saving
<1>4. CASE /\ Changes(p, t) /\ tasks'[t].token = NoRun
           /\ \E j \in Jobs : /\ Stepped(p, "open", j) /\ j.kind = "terminate"
                              /\ j.task = t /\ j.victim = tasks[t].token
  <2>1. PICK j \in Jobs : /\ Stepped(p, "open", j) /\ j.kind = "terminate"
                          /\ j.task = t /\ j.victim = tasks[t].token
    BY <1>4
  <2>2. \A r \in Threads : j.victim = r =>
           Begun(r) /\ ~Succeeded(r) /\ ~Terminated(r) /\ \A u \in Tasks \ {t} : tasks[u].token # r
    <3>. SUFFICES ASSUME NEW r \in Threads, tasks[t].token = r
                  PROVE  Begun(r) /\ ~Succeeded(r) /\ ~Terminated(r)
                         /\ \A u \in Tasks \ {t} : tasks[u].token # r
      BY <2>1
    <3>1. job[r].task = t /\ Live(r) /\ ~Succeeded(r) /\ ~Terminated(r)
      BY <1>1, HeldInItsTask
    <3>2. Begun(r)
      BY <3>1 DEF Live, LiveAs, Begun, BegunAs, Saving
    <3>. QED  BY <1>1, <3>1, <3>2, HeldInItsTask
  <2>3. SameReports /\ Outcomes'
    <3>1. BegunAs("open", j)
      BY DEF BegunAs
    <3>. QED  BY <1>1, <2>1, <2>2, <3>1, ReportsStay, OutcomesStay
  <2>4. CleanNext(tasks) /\ CleanNext(file.list)
    BY <1>1, <1>2, <2>1, <2>3, CleanStays
  <2>5. CleanNext(tasks') /\ \A u \in Tasks \ {t} : tasks'[u] = tasks[u]
    BY <1>1, <1>4, <2>4, ChangeClean DEF OneByOne
  <2>6. InHand(p)'
    <3>1. pc'[p] = "open" /\ job'[p] = j /\ view'[p] = {tasks'}
      BY <1>4, <2>1 DEF Stepped, Changes
    <3>2. \A r \in Threads : j.victim = r => ~Succeeded(r)' /\ ~Terminated(r)' /\ Free(tasks, r)'
      BY <1>4, <2>2, <2>3, <2>5, NoRunAssumption DEF SameReports, Free
    <3>3. Behind(p)'
      BY <1>1, <1>5, <2>1, <2>5, <3>1, StillBehind DEF Stepped, t
    <3>. QED  BY <2>1, <3>1, <3>2, <3>3 DEF InHand
  <2>. QED  BY <1>1, <2>1, <2>3, <2>4, <2>5, <2>6, Settled DEF OneByOne, Saving
<1>. QED  BY <1>3, <1>4, TerminateDoes DEF OneByOne

LEMMA SaveOrderly ==
    ASSUME NEW p \in Threads, OneByOne(p), Save(p)
    PROVE  Orderly'
<1>1. /\ pc[p] = "lock" /\ job[p].kind = "edit" /\ Stepped(p, "open", job[p])
      /\ UNCHANGED <<tasks, loaded, file, tmp, target, log>>
      /\ view'[p] = {Sanitize(l) : l \in view[p]}
      /\ Clean(file.list) /\ Clean(tasks) /\ Disk /\ Outcomes /\ file.state = "whole" /\ InHand(p)
  BY SaveDoes, OrderlyFacts DEF OneByOne
<1>2. SameReports /\ Outcomes'
  <2>1. BegunAs("open", job[p])
    BY <1>1 DEF BegunAs
  <2>. QED  BY <1>1, <2>1, ReportsStay, OutcomesStay
<1>3. \A l : Clean(l) => CleanNext(l)
  <2>1. ~Live(p)
    BY <1>1 DEF Live, LiveAs
  <2>. QED  BY <1>1, <1>2, <2>1, CleanStays, NotHeld
<1>4. PICK l \in view[p] : view[p] = {l} /\ Clean(l)
  BY <1>1 DEF InHand
<1>5. CleanNext(Sanitize(l)) /\ view'[p] = {Sanitize(l)}
  <2>1. l \in Lists /\ now \in Nat
    BY TFacts DEF OneByOne
  <2>2. CleanNext(Sanitize(l))
    BY <1>3, <1>4, <2>1, SanitizeIsAList DEF CleanNext
  <2>. QED  BY <1>1, <1>4, <2>2
<1>6. InHand(p)'
  <2>1. pc'[p] = "open" /\ job'[p] = job[p]
    BY <1>1 DEF Stepped
  <2>2. (\E m \in view[p] : view[p] = {m} /\ Clean(m))'
    BY <1>5 DEF Clean, CleanNext
  <2>3. Behind(p)'
    <3>1. Agree(file.list, tasks)
      BY <1>1, Agreed DEF InHand, OneByOne, Saving
    <3>. QED  BY <1>1, <2>1, <3>1, StillBehind DEF Stepped
  <2>. QED  BY <1>1, <2>1, <2>2, <2>3 DEF InHand
<1>. QED  BY <1>1, <1>2, <1>3, <1>6, Settled DEF OneByOne, Saving

LEMMA OpenOrderly ==
    ASSUME NEW p \in Threads, OneByOne(p), Open(p)
    PROVE  Orderly'
<1>1. /\ pc[p] = "open" /\ Stepped(p, "write", job[p])
      /\ UNCHANGED <<tasks, loaded, file, view, log>> /\ tmp' = Blank /\ target'[p] = "tmp"
      /\ Clean(file.list) /\ Clean(tasks) /\ Disk /\ Outcomes /\ file.state = "whole" /\ InHand(p)
  BY OpenDoes, OrderlyFacts DEF OneByOne
<1>2. SameReports /\ Outcomes'
  <2>1. BegunAs("write", job[p])
    BY DEF BegunAs
  <2>. QED  BY <1>1, <2>1, ReportsStay, OutcomesStay
<1>3. \A l : Clean(l) => CleanNext(l)
  <2>1. LiveAs("write", job[p]) <=> Live(p)
    BY <1>1 DEF Live, LiveAs, BegunAs, Saving
  <2>. QED  BY <1>1, <1>2, <2>1, CleanStays, NotHeld
<1>4. InHand(p)'
  <2>1. pc'[p] = "write" /\ job'[p] = job[p] /\ view'[p] = view[p] /\ tasks' = tasks
    BY <1>1 DEF Stepped
  <2>2. job[p].kind = "edit" => (\E m \in view[p] : view[p] = {m} /\ Clean(m))'
    <3>1. job[p].kind = "edit" => \E m \in view[p] : view[p] = {m} /\ Clean(m)
      BY <1>1 DEF InHand
    <3>. QED  BY <1>3, <2>1, <3>1 DEF Clean, CleanNext
  <2>3. job[p].kind # "edit" => view'[p] = {tasks'}
    BY <1>1, <2>1 DEF InHand
  <2>4. job[p].kind = "finish" => Free(tasks, p)' /\ ~Succeeded(p)' /\ ~Terminated(p)'
    BY <1>1, <1>2, <2>1 DEF InHand, SameReports, Free, Saving
  <2>5. job[p].kind = "terminate" => \A r \in Threads : job[p].victim = r =>
           Free(tasks, r)' /\ ~Succeeded(r)' /\ ~Terminated(r)'
    BY <1>1, <1>2, <2>1 DEF InHand, SameReports, Free, Saving
  <2>6. Behind(p)'
    BY <1>1, <2>1, StillBehind DEF InHand, Saving, Stepped
  <2>. QED  BY <1>1, <2>1, <2>2, <2>3, <2>4, <2>5, <2>6 DEF InHand
<1>. QED  BY <1>1, <1>2, <1>3, <1>4, Settled DEF OneByOne, Saving

LEMMA WriteOrderly ==
    ASSUME NEW p \in Threads, OneByOne(p), Write(p)
    PROVE  Orderly'
<1>1. /\ pc[p] = "write" /\ Stepped(p, "rename", job[p])
      /\ UNCHANGED <<tasks, loaded, log>>
      /\ Clean(file.list) /\ Clean(tasks) /\ Disk /\ Outcomes /\ file.state = "whole" /\ InHand(p)
  BY WriteDoes, OrderlyFacts DEF OneByOne
<1>2. file' = file /\ tmp = Blank
      /\ \E l \in Copies(view[p]) : l \in Lists /\ tmp' \in Onto(tmp, Sanitize(l))
  <2>1. target[p] = "tmp" /\ tmp = Blank
    BY <1>1 DEF InHand
  <2>. QED  BY <2>1, WriteDoes DEF OneByOne
<1>3. PICK l \in Copies(view[p]) : l \in Lists /\ tmp' \in Onto(tmp, Sanitize(l))
  BY <1>2
<1>4. tmp'.state = "whole" /\ tmp'.list = Sanitize(l)
  BY <1>2, <1>3 DEF Onto, Whole
<1>5. SameReports /\ Outcomes'
  <2>1. BegunAs("rename", job[p])
    BY DEF BegunAs
  <2>. QED  BY <1>1, <2>1, ReportsStay, OutcomesStay
<1>6. \A m : Clean(m) => CleanNext(m)
  <2>1. LiveAs("rename", job[p]) <=> Live(p)
    BY <1>1 DEF Live, LiveAs, BegunAs, Saving
  <2>. QED  BY <1>1, <1>5, <2>1, CleanStays, NotHeld
<1>7. Clean(l) /\ (job[p].kind # "edit" => l = tasks)
  <2>1. view[p] \in SUBSET Lists
    BY TFacts DEF OneByOne
  <2>2. \A m : view[p] = {m} => l = m
    BY <2>1, CopiesAreLists
  <2>3. CASE job[p].kind = "edit"
    <3>1. \E m \in view[p] : view[p] = {m} /\ Clean(m)
      BY <1>1, <2>3 DEF InHand
    <3>. QED  BY <2>2, <2>3, <3>1
  <2>4. CASE job[p].kind # "edit"
    <3>1. view[p] = {tasks}
      BY <1>1, <2>4 DEF InHand
    <3>. QED  BY <1>1, <2>2, <2>4, <3>1
  <2>. QED  BY <2>3, <2>4
<1>8. CleanNext(tmp'.list) /\ (job[p].kind # "edit" => Same(tmp'.list, tasks))
  <2>1. /\ \A t \in Tasks : /\ tmp'.list[t].token = l[t].token
                            /\ tmp'.list[t].until = l[t].until
                            /\ tmp'.list[t].there = l[t].there
    BY <1>3, <1>4, SanitizeIsAList, TFacts DEF OneByOne
  <2>2. CleanNext(l)
    BY <1>6, <1>7
  <2>. QED  BY <1>7, <2>1, <2>2 DEF CleanNext, Same, SameAt
<1>9. InHand(p)'
  <2>1. pc'[p] = "rename" /\ job'[p] = job[p] /\ tasks' = tasks
    BY <1>1 DEF Stepped
  <2>2. Clean(tmp.list)' /\ (job[p].kind # "edit" => Same(tmp.list, tasks)')
    BY <1>8, <2>1 DEF Clean, CleanNext, Same, SameAt
  <2>3. job[p].kind = "finish" => Free(tasks, p)' /\ ~Succeeded(p)' /\ ~Terminated(p)'
    BY <1>1, <1>5, <2>1 DEF InHand, SameReports, Free, Saving
  <2>4. job[p].kind = "terminate" => \A r \in Threads : job[p].victim = r =>
           Free(tasks, r)' /\ ~Succeeded(r)' /\ ~Terminated(r)'
    BY <1>1, <1>5, <2>1 DEF InHand, SameReports, Free, Saving
  <2>5. Behind(p)'
    BY <1>1, <1>2, <2>1, StillBehind DEF InHand, Saving, Stepped
  <2>. QED  BY <1>4, <2>1, <2>2, <2>3, <2>4, <2>5 DEF InHand
<1>. QED  BY <1>1, <1>2, <1>5, <1>6, <1>9, Settled DEF OneByOne, Saving

LEMMA ReloadOrderly ==
    ASSUME NEW p \in Threads, OneByOne(p), Reload(p)
    PROVE  Orderly'
<1>1. /\ pc[p] = "reload" /\ job[p].kind = "edit" /\ Stepped(p, "done", job[p])
      /\ UNCHANGED <<file, tmp, target, log>> /\ Took
      /\ Clean(file.list) /\ Disk /\ Outcomes /\ file.state = "whole"
  BY ReloadDoes, OrderlyFacts DEF OneByOne, Failed
<1>2. SameReports /\ Outcomes'
  <2>1. BegunAs("done", job[p])
    BY DEF BegunAs
  <2>. QED  BY <1>1, <2>1, ReportsStay, OutcomesStay
<1>3. CleanNext(file.list)
  <2>1. ~Live(p)
    BY <1>1 DEF Live, LiveAs
  <2>. QED  BY <1>1, <1>2, <2>1, CleanStays, NotHeld
<1>4. CleanNext(tasks') /\ Agree(file.list, tasks')
  <2>1. tasks' = Sanitize(file.list) /\ file.list \in Lists /\ now \in Nat
    BY <1>1, TFacts DEF Took, OneByOne
  <2>2. \A t \in Tasks : /\ tasks'[t].token = file.list[t].token
                         /\ tasks'[t].until = file.list[t].until
                         /\ tasks'[t].there = file.list[t].there
    BY <2>1, SanitizeIsAList
  <2>. QED  BY <1>3, <2>2 DEF CleanNext, Agree, SameAt
<1>5. InHand(p)'
  BY <1>1, NothingInHand DEF Stepped, Updating
<1>. QED  BY <1>1, <1>2, <1>3, <1>4, <1>5, Settled DEF OneByOne

LEMMA RenameOrderly ==
    ASSUME NEW p \in Threads, OneByOne(p), Rename(p)
    PROVE  Orderly'
<1>1. /\ pc[p] = "rename" /\ job[p].kind \in {"reserve", "edit", "finish", "terminate"}
      /\ UNCHANGED <<tasks, loaded, log>> /\ Clean(tmp.list)
      /\ Clean(file.list) /\ Clean(tasks) /\ Disk /\ Outcomes /\ tmp.state = "whole" /\ InHand(p)
  <2>1. pc[p] = "rename" /\ UNCHANGED <<tasks, loaded, log>>
    BY RenameDoes DEF OneByOne
  <2>2. job[p].kind \in {"reserve", "edit", "finish", "terminate"}
    BY <2>1, TFacts DEF OneByOne, Jobs, Kinds, PlacedAs
  <2>. QED  BY <2>1, <2>2, OrderlyFacts DEF OneByOne, InHand
<1>2. /\ file' = tmp
      /\ Stepped(p, CASE job[p].kind = "reserve" -> "exec"
                      [] job[p].kind = "edit"    -> "reload"
                      [] OTHER                   -> "log", job[p])
  BY RenameDoes DEF OneByOne
<1>3. ASSUME NEW label, Stepped(p, label, job[p]), label \in {"exec", "log", "reload"},
             CleanNext(tmp.list), CleanNext(tasks), Outcomes',
             label # "reload" => Agree(tmp.list, tasks)
      PROVE  Orderly'
  <2>1. InHand(p)'
    <3>1. CASE label = "reload"
      BY <1>3, <3>1 DEF InHand, Stepped, Saving
    <3>2. CASE label # "reload"
      BY <1>3, <3>2, NothingInHand DEF Stepped, Updating
    <3>. QED  BY <3>1, <3>2
  <2>. QED  BY <1>1, <1>2, <1>3, <2>1, Settled DEF OneByOne
<1>4. job[p].kind # "edit" => /\ Agree(tmp.list, tasks)
                              /\ \A r \in Threads : Free(tasks, r) => Free(tmp.list, r)
  BY <1>1, AgreeingLists DEF InHand
<1>5. CASE job[p].kind \in {"reserve", "edit"}
  <2>1. PICK label \in {"exec", "reload"} : /\ Stepped(p, label, job[p])
                                            /\ job[p].kind = "reserve" <=> label = "exec"
    BY <1>2, <1>5
  <2>2. SameReports /\ Outcomes'
    <3>1. BegunAs(label, job[p])
      BY <2>1 DEF BegunAs
    <3>. QED  BY <1>1, <2>1, <3>1, ReportsStay, OutcomesStay
  <2>3. CleanNext(tmp.list) /\ CleanNext(tasks)
    <3>1. Live(p) => LiveAs(label, job[p])
      BY <1>1, <1>5, <2>1 DEF Live, LiveAs, BegunAs
    <3>. QED  BY <1>1, <2>1, <2>2, <3>1, CleanStays, NotHeld
  <2>4. label # "reload" => job[p].kind # "edit"
    BY <1>5, <2>1
  <2>. QED  BY <1>3, <1>4, <2>1, <2>2, <2>3, <2>4
<1>6. CASE job[p].kind \in {"finish", "terminate"}
  <2>1. Stepped(p, "log", job[p])
    BY <1>2, <1>6
  <2>2. \A r \in Threads : Begun(r) => Begun(r)'
    BY <2>1 DEF Stepped, Begun, BegunAs
  <2>. DEFINE Reported(r) == \/ job[p].kind = "finish" /\ r = p
                             \/ job[p].kind = "terminate" /\ job[p].victim = r
  <2>3. \A r \in Threads : Reported(r) => Free(tasks, r) /\ ~Succeeded(r) /\ ~Terminated(r)
    BY <1>1 DEF InHand, Saving
  <2>4. \A r \in Threads :
           /\ Succeeded(r)' <=> Succeeded(r) \/ (job[p].kind = "finish" /\ r = p)
           /\ Terminated(r)' <=> Terminated(r) \/ (job[p].kind = "terminate" /\ job[p].victim = r)
    BY <1>1, <1>6, <2>1 DEF Stepped, Succeeded, Terminated
  <2>5. \A r \in Threads : /\ ~Reported(r) => /\ Succeeded(r)' <=> Succeeded(r)
                                              /\ Terminated(r)' <=> Terminated(r)
                           /\ ~(Succeeded(r)' /\ Terminated(r)')
    BY <1>1, <2>3, <2>4 DEF Outcomes
  <2>6. Outcomes'
    <3>1. (\A r \in Threads : ~(Succeeded(r) /\ Terminated(r)))'
      BY <2>5
    <3>2. (\A r \in Threads : <<r, "success">> \in log => job[r].kind = "finish"
                                                      /\ pc[r] \in {"unmark", "done", "killed"})'
      BY <1>1, <2>1 DEF Outcomes, Stepped
    <3>3. (\A r \in Threads : <<r, "terminated">> \in log => Begun(r))'
      BY <1>1, <2>2 DEF Outcomes
    <3>4. (\A q, r \in Threads : job[q].victim = r => Begun(r))'
      BY <1>1, <2>1, <2>2 DEF Outcomes, Stepped
    <3>. QED  BY <3>1, <3>2, <3>3, <3>4 DEF Outcomes
  <2>7. ASSUME NEW l, Clean(l), \A r \in Threads : Reported(r) => Free(l, r)
        PROVE  CleanNext(l)
    <3>. SUFFICES ASSUME NEW t \in Tasks, NEW r \in Threads, l[t].token = r
                  PROVE  l[t].there /\ Holder(r)' /\ job'[r].task = t
      BY DEF CleanNext
    <3>1. l[t].there /\ Holder(r) /\ job[r].task = t /\ ~Reported(r)
      BY <2>7 DEF Clean, Free
    <3>2. Live(r)' /\ job'[r].task = t
      <4>1. r # p
        BY <1>6, <3>1, <1>1 DEF Holder, Live, LiveAs
      <4>2. Live(r) /\ pc'[r] = pc[r] /\ job'[r] = job[r] /\ unsaved \subseteq unsaved'
        BY <2>1, <3>1, <4>1 DEF Stepped, Holder
      <4>. QED  BY <3>1, <4>2 DEF Live, LiveAs, BegunAs
    <3>. QED  BY <2>5, <3>1, <3>2 DEF Holder
  <2>8. CleanNext(tasks)
    BY <1>1, <2>3, <2>7
  <2>9. CleanNext(tmp.list)
    BY <1>1, <1>4, <1>6, <2>3, <2>7
  <2>. QED  BY <1>3, <1>4, <1>6, <2>1, <2>6, <2>8, <2>9
<1>. QED  BY <1>1, <1>5, <1>6

\* A write that fails: every run stays one whose token may be found, and the file is
\* behind by a task that is now one of the unsaved.
LEMMA FailsOrderly ==
    ASSUME NEW p \in Threads, OneByOne(p), Fails(p)
    PROVE  Orderly'
<1>1. /\ pc[p] \in {"open", "write", "rename"} /\ GivenUp(p) /\ NotSaved(p) /\ job[p].task \in Tasks
      /\ UNCHANGED <<tasks, loaded, log>>
      /\ Clean(file.list) /\ Clean(tasks) /\ Outcomes /\ file.state = "whole" /\ InHand(p)
  BY FailsDoes, OrderlyFacts DEF OneByOne
<1>2. file' = file
  BY <1>1, FailsDoes DEF OneByOne, InHand
<1>3. PICK label \in {"unmark", "report", "done"} :
         /\ Stepped(p, label, job[p])
         /\ job[p].kind = "reserve" => label = "unmark"
         /\ job[p].kind = "finish" => label = "report"
  BY <1>1 DEF GivenUp
<1>4. SameReports /\ Outcomes'
  <2>1. BegunAs(label, job[p])
    BY <1>3 DEF BegunAs
  <2>. QED  BY <1>1, <1>3, <2>1, ReportsStay, OutcomesStay
<1>5. \A r \in Threads : Live(r) => Live(r)' /\ job'[r] = job[r]
  <2>1. CASE job[p].kind \in {"reserve", "finish"}
    <3>1. job[p].task \in unsaved'
      BY <1>1, <2>1 DEF NotSaved
    <3>2. Live(p)'
      BY <1>3, <2>1, <3>1 DEF Stepped, Live, LiveAs, BegunAs
    <3>. QED  BY <1>3, <3>2 DEF Stepped, Live, LiveAs, BegunAs
  <2>2. CASE job[p].kind \notin {"reserve", "finish"}
    <3>1. ~Live(p)
      BY <1>1, <2>2 DEF Live, LiveAs
    <3>. QED  BY <1>3, <3>1 DEF Stepped, Live, LiveAs, BegunAs
  <2>. QED  BY <2>1, <2>2
<1>6. CleanNext(file.list) /\ CleanNext(tasks)
  BY <1>1, <1>4, <1>5 DEF Clean, CleanNext, Holder, SameReports
<1>7. (\A q \in Threads : pc[q] \notin Saving \union {"reload"})' /\ \A q \in Threads : InHand(q)'
  <2>1. \A q \in Threads : ~Updating(pc'[q])
    BY <1>3 DEF OneByOne, Lone, Stepped, Updating
  <2>. QED  BY <2>1, NothingInHand DEF Updating, Saving
<1>8. Agree(file.list, tasks)'
  <2>1. Behind(p)
    BY <1>1 DEF InHand, Saving
  <2>2. unsaved \subseteq unsaved' /\ (job[p].kind # "edit" => job[p].task \in unsaved')
    BY <1>1 DEF NotSaved
  <2>. QED  BY <1>1, <1>2, <2>1, <2>2 DEF Behind, Agree, SameAt
<1>9. Disk'
  BY <1>1, <1>2, <1>6, <1>8 DEF Disk, Clean, CleanNext
<1>. QED  BY <1>4, <1>7, <1>9 DEF Orderly

LEMMA ReportsOfNobody ==
    ASSUME Outcomes, UNCHANGED <<pc, job, log>>
    PROVE  SameReports /\ Outcomes'
<1>1. SameReports
  BY DEF SameReports, Succeeded, Terminated
<1>2. \A r \in Threads : Begun(r)' <=> Begun(r)
  BY DEF Begun, BegunAs
<1>. QED  BY <1>1, <1>2 DEF Outcomes, SameReports

LEMMA UnmarkOrderly ==
    ASSUME TInv, Orderly, NEW p \in Threads, Unmark(p)
    PROVE  Orderly'
<1>1. /\ pc[p] = "unmark" /\ job[p].kind \in {"reserve", "finish"} /\ Stepped(p, "done", job[p])
      /\ Aside /\ log' = log /\ unsaved' = unsaved /\ Outcomes
  BY UnmarkDoes, OrderlyFacts
<1>2. SameReports /\ NoNewReports
  BY <1>1, ReportsStay DEF SameReports, NoNewReports
<1>3. \A r \in Threads : Begun(r) => Begun(r)'
  BY <1>1 DEF Stepped, Begun, BegunAs
<1>4. job' = job /\ unsaved' = unsaved
  BY <1>1 DEF Unmark
<1>5. Outcomes'
  <2>1. (\A r \in Threads : ~(Succeeded(r) /\ Terminated(r)))'
    BY <1>1, <1>2 DEF Outcomes, SameReports
  <2>2. (\A r \in Threads : <<r, "success">> \in log => job[r].kind = "finish"
                                                    /\ pc[r] \in {"unmark", "done", "killed"})'
    BY <1>1 DEF Outcomes, Stepped
  <2>3. (\A r \in Threads : <<r, "terminated">> \in log => Begun(r))'
    BY <1>1, <1>3 DEF Outcomes
  <2>4. (\A q, r \in Threads : job[q].victim = r => Begun(r))'
    BY <1>1, <1>3, <1>4 DEF Outcomes
  <2>. QED  BY <2>1, <2>2, <2>3, <2>4 DEF Outcomes
<1>6. \A q \in Threads : Live(q) => Live(q)'
  BY <1>1, <1>4 DEF Stepped, Live, LiveAs, BegunAs, Saving
<1>7. \A q \in Threads : Updating(pc[q]) \/ Updating(pc'[q]) => pc'[q] = pc[q]
  BY <1>1 DEF Stepped, Updating
<1>. QED  BY <1>1, <1>2, <1>4, <1>5, <1>6, <1>7, Undisturbed DEF Aside

LEMMA ReportOrderly ==
    ASSUME TInv, Orderly, NEW p \in Threads, Report(p)
    PROVE  Orderly'
<1>1. /\ pc[p] = "report" /\ job[p].kind = "finish" /\ Stepped(p, "unmark", job[p])
      /\ UNCHANGED <<tasks, loaded, view, file, tmp, target, unsaved, log>> /\ Outcomes
  BY ReportDoes, OrderlyFacts
<1>2. job' = job
  BY DEF Report
<1>3. NoNewReports /\ Outcomes'
  <2>1. BegunAs("unmark", job[p])
    BY DEF BegunAs
  <2>. QED  BY <1>1, <2>1, ReportsStay, OutcomesStay DEF SameReports, NoNewReports
<1>4. \A q \in Threads : Live(q) => Live(q)'
  BY <1>1 DEF Stepped, Live, LiveAs, BegunAs, Saving
<1>5. \A q \in Threads : Updating(pc[q]) \/ Updating(pc'[q]) => pc'[q] = pc[q]
  BY <1>1 DEF Stepped, Updating
<1>. QED  BY <1>1, <1>2, <1>3, <1>4, <1>5, Undisturbed

LEMMA LogOrderly ==
    ASSUME TInv, Orderly, NEW p \in Threads, Log(p)
    PROVE  Orderly'
<1>1. /\ pc[p] = "log" /\ Aside /\ unsaved' = unsaved /\ Outcomes
      /\ \/ /\ job[p].kind = "finish" /\ log' = log \union {<<p, "success">>}
            /\ Stepped(p, "unmark", job[p])
         \/ /\ job[p].kind = "terminate" /\ log' = log \union {<<job[p].victim, "terminated">>}
            /\ Stepped(p, "done", job[p])
  BY LogDoes, OrderlyFacts
<1>2. job' = job
  BY DEF Log
<1>3. SameReports /\ NoNewReports
  <2>1. \A r \in Threads : Succeeded(r)' <=> Succeeded(r)
    BY <1>1 DEF Stepped, Succeeded
  <2>2. \A r \in Threads : Terminated(r)' <=> Terminated(r)
    <3>1. CASE job[p].kind = "finish" /\ log' = log \union {<<p, "success">>}
               /\ Stepped(p, "unmark", job[p])
      BY <1>1, <3>1 DEF Stepped, Terminated
    <3>2. CASE /\ job[p].kind = "terminate" /\ log' = log \union {<<job[p].victim, "terminated">>}
               /\ Stepped(p, "done", job[p])
      BY <1>1, <3>2 DEF Stepped, Terminated
    <3>. QED  BY <1>1, <3>1, <3>2
  <2>3. SameReports
    BY <2>1, <2>2 DEF SameReports
  <2>4. NoNewReports
    BY <2>1, <2>2 DEF NoNewReports
  <2>. QED  BY <2>3, <2>4
<1>4. \A r \in Threads : Begun(r) => Begun(r)'
  BY <1>1 DEF Stepped, Begun, BegunAs
<1>5. Outcomes'
  <2>1. (\A r \in Threads : ~(Succeeded(r) /\ Terminated(r)))'
    BY <1>1, <1>3 DEF Outcomes, SameReports
  <2>2. (\A r \in Threads : <<r, "success">> \in log => job[r].kind = "finish"
                                                    /\ pc[r] \in {"unmark", "done", "killed"})'
    BY <1>1 DEF Outcomes, Stepped
  <2>3. (\A r \in Threads : <<r, "terminated">> \in log => Begun(r))'
    BY <1>1, <1>4 DEF Outcomes
  <2>4. (\A q, r \in Threads : job[q].victim = r => Begun(r))'
    BY <1>1, <1>2, <1>4 DEF Outcomes
  <2>. QED  BY <2>1, <2>2, <2>3, <2>4 DEF Outcomes
<1>6. \A q \in Threads : Live(q) => Live(q)'
  BY <1>1, <1>4 DEF Stepped, Live, LiveAs, BegunAs, Saving
<1>7. \A q \in Threads : Updating(pc[q]) \/ Updating(pc'[q]) => pc'[q] = pc[q]
  BY <1>1 DEF Stepped, Updating
<1>. QED  BY <1>1, <1>2, <1>3, <1>5, <1>6, <1>7, Undisturbed DEF Aside

\* A report that cannot be written is one report less.
LEMMA LogFailsOrderly ==
    ASSUME TInv, Orderly, NEW p \in Threads, LogFails(p)
    PROVE  Orderly'
<1>1. /\ pc[p] = "log" /\ GivenUp(p) /\ Aside /\ Outcomes /\ UNCHANGED <<job, log, unsaved>>
  BY LogFailsDoes, OrderlyFacts
<1>2. PICK label \in {"unmark", "report", "done"} : Stepped(p, label, job[p])
  BY <1>1 DEF GivenUp
<1>3. \A r \in Threads : /\ Succeeded(r)' => Succeeded(r)
                         /\ Terminated(r)' => Terminated(r)
                         /\ Begun(r) => Begun(r)'
                         /\ Live(r) => Live(r)'
  <2>1. \A r \in Threads : pc'[r] = "log" => pc[r] = "log"
    BY <1>1, <1>2 DEF Stepped
  <2>2. \A r \in Threads : Succeeded(r)' => Succeeded(r)
    BY <1>1, <2>1 DEF Succeeded
  <2>3. \A r \in Threads : Terminated(r)' => Terminated(r)
    BY <1>1, <2>1 DEF Terminated
  <2>4. \A r \in Threads : Begun(r) => Begun(r)'
    BY <1>1, <1>2 DEF Stepped, Begun, BegunAs
  <2>5. \A r \in Threads : Live(r) => Live(r)'
    BY <1>1, <1>2 DEF Stepped, Live, LiveAs, BegunAs, Saving
  <2>. QED  BY <2>2, <2>3, <2>4, <2>5
<1>4. NoNewReports
  BY <1>3 DEF NoNewReports
<1>5. Outcomes'
  <2>1. (\A r \in Threads : ~(Succeeded(r) /\ Terminated(r)))'
    BY <1>1, <1>3 DEF Outcomes
  <2>2. (\A r \in Threads : <<r, "success">> \in log => job[r].kind = "finish"
                                                    /\ pc[r] \in {"unmark", "done", "killed"})'
    BY <1>1, <1>2 DEF Outcomes, Stepped
  <2>3. (\A r \in Threads : <<r, "terminated">> \in log => Begun(r))'
    BY <1>1, <1>3 DEF Outcomes
  <2>4. (\A q, r \in Threads : job[q].victim = r => Begun(r))'
    BY <1>1, <1>3 DEF Outcomes
  <2>. QED  BY <2>1, <2>2, <2>3, <2>4 DEF Outcomes
<1>6. \A q \in Threads : Updating(pc[q]) \/ Updating(pc'[q]) => pc'[q] = pc[q]
  BY <1>1, <1>2 DEF Stepped, Updating
<1>. QED  BY <1>1, <1>3, <1>4, <1>5, <1>6, Undisturbed DEF Aside

\* A step that nobody's update meets.
LEMMA NobodyUpdates ==
    ASSUME \A q \in Threads : ~Updating(pc'[q]), file'.state = "whole", unsaved' = unsaved,
           CleanNext(file'.list), CleanNext(tasks'), loaded' => Agree(file'.list, tasks'), Outcomes'
    PROVE  Orderly'
<1>1. \A q \in Threads : InHand(q)'
  BY NothingInHand
<1>2. Disk'
  <2>1. Agree(file'.list, tasks') => Agree(file.list, tasks)'
    BY DEF Agree, SameAt
  <2>. QED  BY <2>1 DEF Disk, Clean, CleanNext
<1>. QED  BY <1>1, <1>2 DEF Orderly

LEMMA ReadersOrderly ==
    ASSUME TInv, Orderly, Tick \/ Read \/ LoadRequest, ~overlap'
    PROVE  Orderly'
<1>1. /\ UNCHANGED <<pc, job, view, file, tmp, target, unsaved, log>> /\ AsideLoads
      /\ Clean(file.list) /\ Clean(tasks) /\ Disk /\ Outcomes /\ file.state = "whole"
  BY ReadersDo, OrderlyFacts
<1>2. SameReports /\ NoNewReports /\ Outcomes'
  BY <1>1, ReportsOfNobody DEF SameReports, NoNewReports
<1>3. \A q \in Threads : Live(q) => Live(q)'
  BY <1>1 DEF Live, LiveAs, BegunAs
<1>4. CASE Kept /\ loaded' = loaded
  BY <1>1, <1>2, <1>3, <1>4, Undisturbed DEF Kept, memVars
<1>5. CASE Took /\ \A q \in Threads : ~Updating(pc[q])
  <2>1. tasks' = Sanitize(file.list) /\ file.list \in Lists /\ now \in Nat
    BY <1>5, TFacts DEF Took
  <2>2. \A t \in Tasks : /\ tasks'[t].token = file.list[t].token
                         /\ tasks'[t].until = file.list[t].until
                         /\ tasks'[t].there = file.list[t].there
    BY <2>1, SanitizeIsAList
  <2>3. CleanNext(file.list)
    BY <1>1, <1>2, <1>3 DEF Clean, CleanNext, Holder, SameReports
  <2>4. CleanNext(tasks') /\ Agree(file.list, tasks')
    BY <2>2, <2>3 DEF CleanNext, Agree, SameAt
  <2>. QED  BY <1>1, <1>2, <1>5, <2>3, <2>4, NobodyUpdates
<1>. QED  BY <1>1, <1>4, <1>5 DEF AsideLoads, Failed, Kept, memVars

LEMMA UnloadOrderly ==
    ASSUME TInv, Orderly, Unload, ~overlap'
    PROVE  Orderly'
<1>1. /\ UNCHANGED <<pc, job, view, file, tmp, target, unsaved, log>> /\ tasks' = NoTasks /\ ~loaded'
      /\ (\A q \in Threads : ~Updating(pc[q]))
      /\ Clean(file.list) /\ Outcomes /\ file.state = "whole"
  BY UnloadDoes, OrderlyFacts
<1>2. SameReports /\ Outcomes'
  BY <1>1, ReportsOfNobody
<1>3. CleanNext(file.list)
  <2>1. \A q \in Threads : Live(q) => Live(q)'
    BY <1>1 DEF Live, LiveAs, BegunAs
  <2>. QED  BY <1>1, <1>2, <2>1 DEF Clean, CleanNext, Holder, SameReports
<1>4. CleanNext(tasks')
  BY <1>1, NoRunAssumption DEF CleanNext, NoTasks, NoTask
<1>. QED  BY <1>1, <1>2, <1>3, <1>4, NobodyUpdates

\* A run that dies keeps its token; one that dies on its way to the log is not reported.
LEMMA RestartOrderly ==
    ASSUME TInv, Orderly, Restart
    PROVE  Orderly'
<1>1. /\ UNCHANGED <<job, file, tmp, unsaved, log>>
      /\ \A q \in Threads : pc'[q] = IF pc[q] \in {"idle", "done"} THEN pc[q] ELSE "killed"
      /\ tasks' = Sanitize(file.list)
      /\ Clean(file.list) /\ Outcomes /\ file.state = "whole"
  BY RestartDoes, OrderlyFacts
<1>2. \A r \in Threads : /\ Succeeded(r)' => Succeeded(r)
                         /\ Terminated(r)' => Terminated(r)
                         /\ Live(r) => Live(r)'
                         /\ Begun(r) => Begun(r)'
  <2>1. \A r \in Threads : pc'[r] # "log" /\ job'[r] = job[r]
    BY <1>1
  <2>2. \A r \in Threads : Succeeded(r)' => Succeeded(r)
    BY <1>1, <2>1 DEF Succeeded
  <2>3. \A r \in Threads : Terminated(r)' => Terminated(r)
    BY <1>1, <2>1 DEF Terminated
  <2>4. \A r \in Threads : Live(r) => Live(r)'
    BY <1>1 DEF Live, LiveAs, BegunAs, Saving
  <2>5. \A r \in Threads : Begun(r) => Begun(r)'
    BY <1>1 DEF Begun, BegunAs
  <2>. QED  BY <2>2, <2>3, <2>4, <2>5
<1>3. Outcomes'
  <2>1. (\A r \in Threads : ~(Succeeded(r) /\ Terminated(r)))'
    BY <1>1, <1>2 DEF Outcomes
  <2>2. (\A r \in Threads : <<r, "success">> \in log => job[r].kind = "finish"
                                                    /\ pc[r] \in {"unmark", "done", "killed"})'
    BY <1>1 DEF Outcomes
  <2>3. (\A r \in Threads : <<r, "terminated">> \in log => Begun(r))'
    BY <1>1, <1>2 DEF Outcomes
  <2>4. (\A q, r \in Threads : job[q].victim = r => Begun(r))'
    BY <1>1, <1>2 DEF Outcomes
  <2>. QED  BY <2>1, <2>2, <2>3, <2>4 DEF Outcomes
<1>4. CleanNext(file.list)
  BY <1>1, <1>2 DEF Clean, CleanNext, Holder
<1>5. CleanNext(tasks') /\ Agree(file.list, tasks')
  <2>1. \A t \in Tasks : /\ tasks'[t].token = file.list[t].token
                         /\ tasks'[t].until = file.list[t].until
                         /\ tasks'[t].there = file.list[t].there
    BY <1>1, SanitizeIsAList, TFacts
  <2>. QED  BY <1>4, <2>1 DEF CleanNext, Agree, SameAt
<1>6. \A q \in Threads : ~Updating(pc'[q])
  BY <1>1 DEF Updating
<1>. QED  BY <1>1, <1>3, <1>4, <1>5, <1>6, NobodyUpdates

LEMMA IdlyOrderly ==
    ASSUME Orderly, UNCHANGED <<tasks, loaded, pc, job, view, file, tmp, target, unsaved, log>>
    PROVE  Orderly'
<1>1. NoNewReports /\ Outcomes'
  BY OrderlyFacts, ReportsOfNobody DEF SameReports, NoNewReports
<1>2. \A q \in Threads : Live(q) => Live(q)'
  BY DEF Live, LiveAs, BegunAs
<1>. QED  BY <1>1, <1>2, Undisturbed

\* The steps of updates; each of them watches for others.
UpdateStep(p) ==
    \/ \E t \in Tasks, as \in Spellings, manual \in BOOLEAN :
          Start(p, t, as, manual) /\ todo' \in {todo, todo \ {t}}
    \/ \E t \in Tasks, as \in Spellings : BeginTerminate(p, t, as)
    \/ \E t \in Tasks : BeginEdit(p, t)
    \/ Reserve(p) \/ Execute(p) \/ Finish(p) \/ Terminate(p)
    \/ Save(p) \/ Load(p) \/ Open(p) \/ Write(p) \/ Rename(p) \/ Fails(p) \/ Reload(p)

LEMMA UpdateStepIs ==
    ASSUME TInv, NEW p \in Threads, UpdateStep(p)
    PROVE  /\ Watch
           /\ \E label \in Labels, j \in Jobs :
                 Stepped(p, label, j) /\ (Updating(pc[p]) \/ Updating(label))
<1>1. ASSUME NEW t \in Tasks, NEW as \in Spellings, NEW manual \in BOOLEAN,
             Start(p, t, as, manual), todo' \in {todo, todo \ {t}}
      PROVE  Watch /\ Stepped(p, "load", Job("reserve", t, as, manual))
             /\ Job("reserve", t, as, manual) \in Jobs
  <2>1. todo' \subseteq Tasks
    BY <1>1 DEF TInv, Globals
  <2>2. TInv' /\ Watch /\ Stepped(p, "load", Job("reserve", t, as, manual))
    BY <1>1, <2>1, StartDoes
  <2>3. Job("reserve", t, as, manual) \in Jobs
    BY NoJobIsAJob DEF Job, Jobs, Kinds
  <2>. QED  BY <2>2, <2>3
<1>2. ASSUME NEW t \in Tasks, NEW as \in Spellings, BeginTerminate(p, t, as)
      PROVE  Watch /\ Stepped(p, "load", Job("terminate", t, as, TRUE))
             /\ Job("terminate", t, as, TRUE) \in Jobs
  <2>1. Job("terminate", t, as, TRUE) \in Jobs
    BY NoJobIsAJob DEF Job, Jobs, Kinds
  <2>. QED  BY <1>2, <2>1, BeginTerminateDoes
<1>3. ASSUME NEW t \in Tasks, BeginEdit(p, t)
      PROVE  Watch /\ Stepped(p, "load", Job("edit", t, Listed, TRUE))
             /\ Job("edit", t, Listed, TRUE) \in Jobs
  <2>1. Job("edit", t, Listed, TRUE) \in Jobs
    BY NoJobIsAJob, SpellingAssumption DEF Job, Jobs, Kinds
  <2>. QED  BY <1>3, <2>1, BeginEditDoes
<1>4. "load" \in Labels /\ Updating("load")
  BY DEF Labels, Updating
<1>5. CASE \/ \E t \in Tasks, as \in Spellings, manual \in BOOLEAN :
                 Start(p, t, as, manual) /\ todo' \in {todo, todo \ {t}}
           \/ \E t \in Tasks, as \in Spellings : BeginTerminate(p, t, as)
           \/ \E t \in Tasks : BeginEdit(p, t)
  BY <1>1, <1>2, <1>3, <1>4, <1>5
<1>6. CASE Execute(p)
  BY <1>4, <1>6, ExecuteDoes
<1>7. job[p] \in Jobs
  BY TFacts
<1>8. CASE Reserve(p) \/ Finish(p) \/ Terminate(p) \/ Save(p) \/ Load(p)
  <2>1. /\ Watch /\ pc[p] \in {"load", "lock"}
        /\ \E label \in Labels, j \in Jobs : Stepped(p, label, j)
    <3>1. {"lock", "open", "unmark", "report", "done"} \subseteq Labels
      BY DEF Labels
    <3>2. CASE Reserve(p)
      BY <1>7, <3>1, <3>2, ReserveDoes
    <3>3. CASE Finish(p)
      BY <1>7, <3>1, <3>3, FinishDoes
    <3>4. CASE Terminate(p)
      BY <1>7, <3>1, <3>4, TerminateDoes
    <3>5. CASE Save(p) \/ Load(p)
      BY <1>7, <3>1, <3>5, SaveDoes, LoadDoes
    <3>. QED  BY <1>8, <3>2, <3>3, <3>4, <3>5
  <2>. QED  BY <2>1 DEF Updating
<1>9. CASE Open(p) \/ Write(p) \/ Reload(p)
  <2>1. /\ Watch /\ pc[p] \in {"open", "write", "reload"}
        /\ \E label \in Labels : Stepped(p, label, job[p])
    BY <1>9, OpenDoes, WriteDoes, ReloadDoes DEF Labels
  <2>. QED  BY <1>7, <2>1 DEF Updating
<1>10. CASE Rename(p)
  <2>1. /\ Watch /\ pc[p] = "rename"
        /\ \E label \in Labels : Stepped(p, label, job[p])
    BY <1>10, RenameDoes DEF Labels
  <2>. QED  BY <1>7, <2>1 DEF Updating
<1>11. CASE Fails(p)
  <2>1. /\ Watch /\ pc[p] \in {"open", "write", "rename"}
        /\ \E label \in Labels : Stepped(p, label, job[p])
    BY <1>11, FailsDoes DEF GivenUp, Labels
  <2>. QED  BY <1>7, <2>1 DEF Updating
<1>. QED  BY <1>5, <1>6, <1>8, <1>9, <1>10, <1>11 DEF UpdateStep

LEMMA UpdateStepOrderly ==
    ASSUME NEW p \in Threads, OneByOne(p), UpdateStep(p)
    PROVE  Orderly'
<1>1. ASSUME NEW t \in Tasks, NEW as \in Spellings, NEW manual \in BOOLEAN,
             Start(p, t, as, manual), todo' \in {todo, todo \ {t}}
      PROVE  Orderly'
  <2>. DEFINE j == Job("reserve", t, as, manual)
  <2>1. todo' \subseteq Tasks
    BY <1>1 DEF OneByOne, TInv, Globals
  <2>0. TInv
    BY DEF OneByOne
  <2>9. /\ TInv' /\ Stepped(p, "load", Job("reserve", t, as, manual))
        /\ pc[p] = "idle" /\ Watch /\ Aside /\ UNCHANGED <<log, lost>>
        /\ <<t, as>> \notin marks /\ marks' = marks \union {<<t, as>>}
    BY <2>0, <1>1, <2>1, StartDoes
  <2>2. Stepped(p, "load", j) /\ pc[p] = "idle" /\ UNCHANGED <<tasks, loaded, file, log>>
    BY <2>9 DEF Aside
  <2>3. j \in Jobs /\ j.kind = "reserve" /\ j.victim = NoRun
    BY NoJobIsAJob DEF Job, Jobs, Kinds
  <2>. HIDE DEF j
  <2>4. InHand(p)'
    BY <2>2, <2>3 DEF InHand, Stepped, Saving
  <2>. QED  BY <2>2, <2>3, <2>4, BeginsOrderly
<1>2. ASSUME NEW t \in Tasks, NEW as \in Spellings, BeginTerminate(p, t, as)
      PROVE  Orderly'
  <2>. DEFINE j == Job("terminate", t, as, TRUE)
  <2>2. Stepped(p, "load", j) /\ pc[p] = "idle" /\ UNCHANGED <<tasks, loaded, file, log>>
    BY <1>2, BeginTerminateDoes DEF OneByOne, Aside
  <2>3. j \in Jobs /\ j.kind = "terminate" /\ j.victim = NoRun
    BY NoJobIsAJob DEF Job, Jobs, Kinds
  <2>. HIDE DEF j
  <2>4. InHand(p)'
    BY <2>2, <2>3 DEF InHand, Stepped, Saving
  <2>. QED  BY <2>2, <2>3, <2>4, BeginsOrderly
<1>. QED  BY <1>1, <1>2, BeginEditOrderly, ReserveOrderly, ExecuteOrderly, FinishOrderly,
             TerminateOrderly, SaveOrderly, LoadOrderly, OpenOrderly, WriteOrderly,
             RenameOrderly, FailsOrderly, ReloadOrderly DEF UpdateStep

LEMMA NextSteps ==
    ASSUME [Next]_vars
    PROVE  \/ \E p \in Threads : UpdateStep(p) \/ Report(p) \/ Unmark(p) \/ Log(p) \/ LogFails(p)
           \/ Tick \/ Read \/ LoadRequest \/ Unload \/ Restart
           \/ StopTicker \/ Advance \/ \E t \in Tasks : PassOver(t)
           \/ UNCHANGED vars
BY Steps DEF UpdateStep

LEMMA OneNext == TInv /\ One /\ [Next]_vars => One' /\ (overlap => overlap')
<1>. SUFFICES ASSUME TInv, One, [Next]_vars PROVE One' /\ (overlap => overlap')
  OBVIOUS
<1>1. CASE \E p \in Threads : UpdateStep(p)
  BY <1>1, UpdateStepIs, WatchedOne, Watched, TFacts
<1>2. ASSUME NEW p \in Threads, Report(p) \/ Unmark(p) \/ Log(p) \/ LogFails(p)
      PROVE  One' /\ (overlap => overlap')
  <2>1. overlap' = overlap /\ \E label \in {"report", "unmark", "done"} : Stepped(p, label, job[p])
    BY <1>2, ReportDoes, UnmarkDoes, LogDoes, LogFailsDoes DEF GivenUp
  <2>2. \A q \in Threads : Updating(pc'[q]) => Updating(pc[q])
    BY <2>1 DEF Stepped, Updating
  <2>. QED  BY <2>1, <2>2, SameOne
<1>3. CASE \/ Tick \/ Read \/ LoadRequest \/ Unload
           \/ StopTicker \/ Advance \/ \E t \in Tasks : PassOver(t)
  <2>1. pc' = pc /\ (overlap => overlap')
    BY <1>3, ReadersDo, BystandersDo, UnloadDoes DEF AsideLoads
  <2>. QED  BY <2>1, SameOne
<1>4. CASE Restart
  <2>1. overlap' = overlap /\ \A q \in Threads : ~Updating(pc'[q])
    BY <1>4, RestartDoes DEF Updating
  <2>. QED  BY <2>1, SameOne
<1>5. CASE UNCHANGED vars
  BY <1>5, SameOne DEF vars
<1>. QED  BY <1>1, <1>2, <1>3, <1>4, <1>5, NextSteps

LEMMA SNext == TInv /\ One /\ SInv /\ [Next]_vars => SInv'
<1>. SUFFICES ASSUME TInv, One, SInv, [Next]_vars, ~overlap' PROVE Orderly'
  BY DEF SInv
<1>1. Orderly
  BY OneNext DEF SInv
<1>2. ASSUME NEW p \in Threads, UpdateStep(p) PROVE Orderly'
  <2>1. Lone(p)
    BY <1>2, UpdateStepIs, LoneUpdate
  <2>. QED  BY <1>1, <1>2, <2>1, UpdateStepOrderly DEF OneByOne
<1>3. ASSUME NEW p \in Threads, Report(p) \/ Unmark(p) \/ Log(p) \/ LogFails(p) PROVE Orderly'
  BY <1>1, <1>3, ReportOrderly, UnmarkOrderly, LogOrderly, LogFailsOrderly
<1>4. CASE Tick \/ Read \/ LoadRequest \/ Unload \/ Restart
  BY <1>1, <1>4, ReadersOrderly, UnloadOrderly, RestartOrderly
<1>5. CASE StopTicker \/ Advance \/ \E t \in Tasks : PassOver(t)
  BY <1>1, <1>5, BystandersDo, IdlyOrderly
<1>6. CASE UNCHANGED vars
  BY <1>1, <1>6, IdlyOrderly DEF vars, memVars, viewVars, diskVars
<1>. QED  BY <1>2, <1>3, <1>4, <1>5, <1>6, NextSteps

LEMMA SInit == Init => One /\ SInv
<1>. SUFFICES ASSUME Init PROVE One /\ SInv
  OBVIOUS
<1>1. \A p \in Threads : pc[p] = "idle" /\ job[p].kind = "none" /\ job[p].victim = NoRun
  BY NoJobIsAJob DEF Init
<1>2. One /\ \A p \in Threads : InHand(p)
  BY <1>1 DEF One, Updating, InHand, Saving
<1>3. Outcomes
  BY <1>1, NoRunAssumption DEF Init, Outcomes, Succeeded, Terminated
<1>4. \A t \in Tasks : Configured[t].token = NoRun
  BY DEF Configured, NoTask
<1>5. Disk
  BY <1>4, NoRunAssumption DEF Init, Disk, Clean, Agree, SameAt, Whole
<1>. QED  BY <1>2, <1>3, <1>5 DEF SInv, Orderly

-----------------------------------------------------------------------------
(* Updates that come one at a time: theorems *)

LEMMA AllHold == Spec => [](TInv /\ One /\ SInv)
<1>1. Init => TInv /\ One /\ SInv
  BY TInit, SInit
<1>2. (TInv /\ One /\ SInv) /\ [Next]_vars => (TInv /\ One /\ SInv)'
  BY TNext, OneNext, SNext
<1>. QED  BY <1>1, <1>2, PTL DEF Spec

\* FileAgrees of every reachable state: between updates that came one at a time, the
\* config file is whole, also after writes that failed, and names the runs that memory
\* names, until the same times, but for tasks a change of which could not be written.
THEOREM FileAlwaysAgrees == Spec => []FileAgrees
<1>1. TInv /\ One /\ SInv => FileAgrees
  BY DEF SInv, Orderly, Disk, FileAgrees, Quiet, Updating, Saving, Agree, SameAt
<1>. QED  BY <1>1, AllHold, PTL

\* NoStaleLease of every reachable state: between such updates, every token in the file
\* is that of a run that is executing or died with the service, but for tasks a change of
\* which could not be written.
THEOREM NoLeaseIsLeftBehind == Spec => []NoStaleLease
<1>1. TInv /\ One /\ SInv => NoStaleLease
  <2>. SUFFICES ASSUME TInv, SInv, Quiet, NEW t \in Tasks \ unsaved, file.list[t].token # NoRun
                PROVE  pc[file.list[t].token] \in {"exec", "killed"}
    BY DEF NoStaleLease
  <2>. DEFINE r == file.list[t].token
  <2>1. r \in Threads
    BY TFacts DEF Lists, Task
  <2>2. Live(r) /\ job[r].task = t
    BY <2>1 DEF Quiet, SInv, Orderly, Disk, Clean, Holder
  <2>. QED  BY <2>1, <2>2 DEF Quiet, Live, LiveAs, Updating, Saving
<1>. QED  BY <1>1, AllHold, PTL

\* OneOutcome of every reachable state: no run is in the log both as a success of its
\* own and as terminated, as long as updates come one at a time.
THEOREM RunsAreReportedOnce == Spec => []OneOutcome
<1>1. TInv /\ One /\ SInv => OneOutcome
  BY DEF SInv, Orderly, Outcomes, OneOutcome, Succeeded, Terminated
<1>. QED  BY <1>1, AllHold, PTL
=============================================================================
