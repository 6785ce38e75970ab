------------------------ MODULE EMailAutoCheckProofs ------------------------
(***************************************************************************)
(* Proofs about EMailAutoCheck, for any number of tasks, accounts and      *)
(* threads, any interval and bounds: a task is checked by one process at a *)
(* time, and without two writers at once the file is always whole.         *)
(***************************************************************************)
EXTENDS EMailAutoCheck, TLAPS

-----------------------------------------------------------------------------
(* The inductive invariant of the marks *)

\* Program counters and jobs are what they are said to be.
Shapes ==
    /\ pc \in [Procs -> Labels]
    /\ job = [p \in Procs |-> [kind |-> job[p].kind, id |-> job[p].id,
                               copy |-> job[p].copy, seen |-> job[p].seen]]

LoadKinds == {"get", "load", "task", "run", "untask", "account", "unaccount", "login"}

\* Where a process is fits what it does.
KindsFit ==
    \A p \in Procs :
        /\ pc[p] = "load" /\ p # Scheduler => job[p].kind \in LoadKinds
        /\ pc[p] = "look" => job[p].kind = "task"
        /\ pc[p] \in {"mark", "unmark"} => job[p].kind = "run"

IInv == Shapes /\ KindsFit /\ RunsAlone

\* What a step may do to the processes that neither begin nor end a run.
Settled ==
    /\ running' = running
    /\ \A p \in Procs :
          /\ Executing(p)' <=> Executing(p)
          /\ Executing(p) => job'[p].id = job[p].id

LEMMA SettledKeeps ==
    ASSUME RunsAlone, Settled
    PROVE  RunsAlone'
BY DEF RunsAlone, Settled, Executing

\* A process moves from one place to another, and its job stays.
LEMMA Moves ==
    ASSUME NEW p \in Procs, NEW l \in Labels, Shapes, KindsFit, Goto(p, l), job' = job,
           Executing(p) <=> (job[p].kind = "run" /\ l \in RunLabels),
           running' = running,
           l = "load" /\ p # Scheduler => job[p].kind \in LoadKinds,
           l = "look" => job[p].kind = "task",
           l \in {"mark", "unmark"} => job[p].kind = "run"
    PROVE  Shapes' /\ KindsFit' /\ Settled
<1>1. Shapes'
  BY DEF Shapes, Goto
<1>2. KindsFit'
  BY DEF Shapes, KindsFit, Goto
<1>3. Settled
  BY DEF Shapes, Settled, Executing, Goto
<1>. QED  BY <1>1, <1>2, <1>3

LEMMA InitIInv == Init => IInv
<1>. SUFFICES ASSUME Init PROVE IInv
  OBVIOUS
<1>1. Shapes /\ \A p \in Procs : job[p].kind = "none" /\ pc[p] \in {"wait", "idle"}
  BY DEF Init, Shapes, NoJob, About, Labels
<1>2. KindsFit /\ \A p \in Procs : ~Executing(p)
  BY <1>1 DEF KindsFit, Executing
<1>3. RunsAlone
  BY <1>2 DEF RunsAlone, Init
<1>. QED  BY <1>1, <1>2, <1>3 DEF IInv

\* The steps that move a process and leave its job alone.
LEMMA PlainSteps ==
    ASSUME IInv, NEW p \in Procs,
           \/ p # Scheduler /\ (Load(p) \/ Unload(p) \/ Look(p))
           \/ ResolveForRun(p) \/ Copy(p) \/ HalfEdit(p)
           \/ Replace(p) \/ Add(p) \/ Remove(p) \/ Miss(p) \/ Open(p) \/ Put(p)
           \/ Rename(p) \/ RenameFails(p) \/ OpenFails(p) \/ Reload(p)
    PROVE  Shapes' /\ KindsFit' /\ Settled
<1>. USE DEF IInv, Labels, RunLabels, Executing, markVars
<1>1. CASE p # Scheduler /\ Load(p)
  <2>1. job[p].kind \in LoadKinds
    BY <1>1 DEF Load, KindsFit
  <2>2. PICK l \in {"done", "take", "copy", "resolve"} :
           /\ Goto(p, l)
           /\ l \in RunLabels => job[p].kind # "run"
    BY <1>1, <2>1 DEF Load, AfterLoad, LoadKinds
  <2>. QED  BY <1>1, <2>2, Moves DEF Load
<1>2. CASE p # Scheduler /\ Unload(p)
  BY <1>2, Moves DEF Unload
<1>3. CASE p # Scheduler /\ Look(p)
  <2>1. job[p].kind = "task"
    BY <1>3 DEF Look, KindsFit
  <2>2. PICK l \in {"copy", "done"} : Goto(p, l)
    BY <1>3 DEF Look
  <2>. QED  BY <1>3, <2>1, <2>2, Moves DEF Look
<1>4. CASE ResolveForRun(p)
  BY <1>4, Moves DEF ResolveForRun
<1>5. CASE Copy(p)
  BY <1>5, Moves DEF Copy
<1>6. CASE HalfEdit(p)
  BY <1>6, Moves DEF HalfEdit
<1>7. CASE Replace(p) \/ Add(p) \/ Remove(p)
  <2>1. pc[p] \in {"edit", "rest"} /\ Goto(p, "open") /\ job' = job /\ running' = running
    BY <1>7 DEF Replace, Add, Remove, Marshal
  <2>. QED  BY <2>1, Moves
<1>8. CASE Miss(p)
  BY <1>8, Moves DEF Miss, Through
<1>9. CASE Open(p)
  BY <1>9, Moves DEF Open
<1>10. CASE Put(p)
  BY <1>10, Moves DEF Put
<1>11. CASE Rename(p)
  BY <1>11, Moves DEF Rename
<1>12. CASE RenameFails(p)
  BY <1>12, Moves DEF RenameFails, Through
<1>13. CASE OpenFails(p)
  BY <1>13, Moves DEF OpenFails, Through
<1>14. CASE Reload(p)
  BY <1>14, Moves DEF Reload, Through
<1>. QED  BY <1>1, <1>2, <1>3, <1>4, <1>5, <1>6, <1>7, <1>8, <1>9, <1>10, <1>11, <1>12, <1>13,
             <1>14

IsJob(j) == j = [kind |-> j.kind, id |-> j.id, copy |-> j.copy, seen |-> j.seen]

\* A process moves and takes up a job, and neither begins nor ends a run.
LEMMA TakesUp ==
    ASSUME NEW p \in Procs, NEW l \in Labels, NEW j, IsJob(j), Shapes, KindsFit,
           Goto(p, l), job' = [job EXCEPT ![p] = j], running' = running,
           Executing(p) <=> (j.kind = "run" /\ l \in RunLabels),
           Executing(p) => j.id = job[p].id,
           l = "load" /\ p # Scheduler => j.kind \in LoadKinds,
           l = "look" => j.kind = "task",
           l \in {"mark", "unmark"} => j.kind = "run"
    PROVE  Shapes' /\ KindsFit' /\ Settled
<1>1. job'[p] = j /\ \A q \in Procs : q # p => job'[q] = job[q]
  BY DEF Shapes
<1>2. Shapes'
  BY <1>1 DEF Shapes, Goto, IsJob
<1>3. KindsFit'
  BY <1>1 DEF Shapes, KindsFit, Goto
<1>4. Settled
  BY <1>1 DEF Shapes, Settled, Executing, Goto
<1>. QED  BY <1>2, <1>3, <1>4

LEMMA Jobs ==
    /\ IsJob(NoJob) /\ NoJob.kind = "none"
    /\ \A kind, id : IsJob(About(kind, id)) /\ About(kind, id).kind = kind
<1>1. ASSUME NEW kind, NEW id
      PROVE  IsJob(About(kind, id)) /\ About(kind, id).kind = kind
  BY DEF About, IsJob
<1>. QED  BY <1>1 DEF NoJob

LEMMA RequestsAreJobs ==
    ASSUME NEW request \in Requests
    PROVE  IsJob(request) /\ request.kind \in LoadKinds \union {"unload", "config"}
<1>1. CASE request \in {[NoJob EXCEPT !.kind = kind] :
                           kind \in {"get", "load", "unload", "config"}}
  <2>1. PICK kind \in {"get", "load", "unload", "config"} :
           request = [NoJob EXCEPT !.kind = kind]
    BY <1>1
  <2>2. IsJob(request) /\ request.kind = kind
    BY <2>1, Jobs DEF IsJob
  <2>. QED  BY <2>2 DEF LoadKinds
<1>2. CASE request \in {About(kind, t) : kind \in {"task", "untask", "run"}, t \in Tasks}
  BY <1>2, Jobs DEF LoadKinds
<1>3. CASE request \in {About(kind, a) :
                           kind \in {"account", "unaccount", "login"}, a \in Accounts}
  BY <1>3, Jobs DEF LoadKinds
<1>. QED  BY <1>1, <1>2, <1>3 DEF Requests

LEMMA BeginStep ==
    ASSUME IInv, NEW p \in Threads, NEW request \in Requests, Begin(p, request)
    PROVE  Shapes' /\ KindsFit' /\ Settled
<1>. DEFINE j == IF request.kind = "account"
                 THEN [request EXCEPT !.copy.edit = p]
                 ELSE request
            l == CASE request.kind = "unload" -> "drop"
                   [] request.kind = "config" -> "open"
                   [] OTHER                   -> "load"
<1>1. IsJob(request) /\ request.kind \in LoadKinds \union {"unload", "config"}
  BY RequestsAreJobs
<1>2. IsJob(j) /\ j.kind = request.kind
  BY <1>1 DEF IsJob
<1>3. p \in Procs /\ p # Scheduler /\ pc[p] = "idle"
  BY SchedulerAssumption DEF Procs, Begin
<1>4. l \in Labels /\ (l \in RunLabels => j.kind = "config") /\ (l = "load" => j.kind \in LoadKinds)
      /\ l \notin {"look", "mark", "unmark"}
  BY <1>1, <1>2 DEF Labels, RunLabels
<1>5. Goto(p, l) /\ job' = [job EXCEPT ![p] = j] /\ running' = running
  BY DEF Begin, markVars
<1>6. ~Executing(p)
  BY <1>3 DEF Executing, RunLabels
<1>. HIDE DEF j, l
<1>. QED  BY <1>2, <1>3, <1>4, <1>5, <1>6, TakesUp DEF IInv

LEMMA SeenJob ==
    ASSUME NEW r, IsJob(r), NEW c, NEW s
    PROVE  IsJob([r EXCEPT !.copy = c, !.seen = s])
           /\ [r EXCEPT !.copy = c, !.seen = s].kind = r.kind
<1>. DEFINE half == [r EXCEPT !.copy = c]
<1>1. [r EXCEPT !.copy = c, !.seen = s] = [half EXCEPT !.seen = s]
  OBVIOUS
<1>2. IsJob(half) /\ half.kind = r.kind
  BY DEF IsJob
<1>. HIDE DEF half
<1>3. IsJob([half EXCEPT !.seen = s]) /\ [half EXCEPT !.seen = s].kind = half.kind
  BY <1>2 DEF IsJob
<1>. QED  BY <1>1, <1>2, <1>3

LEMMA TakeToSaveStep ==
    ASSUME IInv, NEW p \in Procs, TakeToSave(p)
    PROVE  Shapes' /\ KindsFit' /\ Settled
<1>1. PICK c, s : job' = [job EXCEPT ![p].copy = c, ![p].seen = s]
  BY DEF TakeToSave
<1>. DEFINE j == [job[p] EXCEPT !.copy = c, !.seen = s]
<1>2. job' = [job EXCEPT ![p] = j] /\ IsJob(j) /\ j.kind = "task"
  <2>1. IsJob(job[p]) /\ job = [q \in Procs |-> job[q]] /\ job[p].kind = "task"
    BY DEF IInv, Shapes, IsJob, TakeToSave
  <2>2. IsJob(j) /\ j.kind = "task"
    BY <2>1, SeenJob
  <2>3. job' = [job EXCEPT ![p] = j]
    BY <1>1, <2>1
  <2>. QED  BY <2>2, <2>3
<1>3. ~Executing(p) /\ Goto(p, "look") /\ running' = running
  BY DEF TakeToSave, Executing, markVars
<1>. HIDE DEF j
<1>. QED  BY <1>2, <1>3, TakesUp DEF IInv, Labels

LEMMA TakeToRunStep ==
    ASSUME IInv, NEW p \in Procs, TakeToRun(p)
    PROVE  Shapes' /\ KindsFit' /\ Settled
<1>1. ~Executing(p) /\ running' = running /\ job[p].kind = "run"
  BY DEF TakeToRun, Executing, RunLabels, markVars
<1>2. CASE Goto(p, "done") /\ job' = job
  BY <1>1, <1>2, Moves DEF IInv, Labels, RunLabels
<1>3. CASE Goto(p, "mark") /\ \E e : job' = [job EXCEPT ![p].copy = e]
  <2>1. PICK e : job' = [job EXCEPT ![p].copy = e]
    BY <1>3
  <2>. DEFINE j == [job[p] EXCEPT !.copy = e]
  <2>2. job' = [job EXCEPT ![p] = j] /\ IsJob(j) /\ j.kind = "run"
    BY <1>1, <2>1 DEF IInv, Shapes, IsJob
  <2>. HIDE DEF j
  <2>. QED  BY <1>1, <1>3, <2>2, TakesUp DEF IInv, Labels, RunLabels
<1>. QED  BY <1>2, <1>3 DEF TakeToRun

LEMMA LoginSteps ==
    ASSUME IInv, NEW p \in Procs, ResolveForLogin(p) \/ MailForLogin(p)
    PROVE  Shapes' /\ KindsFit' /\ Settled
<1>1. ~Executing(p) /\ running' = running /\ job[p].kind = "login"
  BY DEF ResolveForLogin, MailForLogin, Executing, markVars
<1>2. CASE Goto(p, "done") /\ job' = job
  BY <1>1, <1>2, Moves DEF IInv, Labels, RunLabels
<1>3. CASE Goto(p, "mail") /\ \E c : job' = [job EXCEPT ![p].copy = c]
  <2>1. PICK c : job' = [job EXCEPT ![p].copy = c]
    BY <1>3
  <2>. DEFINE j == [job[p] EXCEPT !.copy = c]
  <2>2. job' = [job EXCEPT ![p] = j] /\ IsJob(j) /\ j.kind = "login"
    BY <1>1, <2>1 DEF IInv, Shapes, IsJob
  <2>. HIDE DEF j
  <2>. QED  BY <1>1, <1>3, <2>2, TakesUp DEF IInv, Labels, RunLabels
<1>4. CASE Goto(p, "copy") /\ \E kind \in {"account", "check"} : job' = [job EXCEPT ![p].kind = kind]
  <2>1. PICK kind \in {"account", "check"} : job' = [job EXCEPT ![p].kind = kind]
    BY <1>4
  <2>. DEFINE j == [job[p] EXCEPT !.kind = kind]
  <2>2. job' = [job EXCEPT ![p] = j] /\ IsJob(j) /\ j.kind = kind
    BY <1>1, <2>1 DEF IInv, Shapes, IsJob
  <2>. HIDE DEF j
  <2>. QED  BY <1>1, <1>4, <2>1, <2>2, TakesUp DEF IInv, Labels, RunLabels
<1>. QED  BY <1>2, <1>3, <1>4 DEF ResolveForLogin, MailForLogin

LEMMA MailForRunStep ==
    ASSUME IInv, NEW p \in Procs, MailForRun(p)
    PROVE  Shapes' /\ KindsFit' /\ Settled
<1>1. Executing(p) /\ running' = running /\ job[p].kind = "run" /\ Goto(p, "copy")
  BY DEF MailForRun, Executing, RunLabels, markVars
<1>. DEFINE r == [job[p].copy EXCEPT !.ran = now, !.next = NextTime(job[p].copy)]
<1>2. PICK c : job' = [job EXCEPT ![p].copy = c]
  <2>1. IsJob(job[p]) /\ job = [q \in Procs |-> job[q]]
    BY DEF IInv, Shapes, IsJob
  <2>2. job' = [job EXCEPT ![p].copy = r]
    BY <2>1 DEF MailForRun, IsJob
  <2>. QED  BY <2>2
<1>. DEFINE j == [job[p] EXCEPT !.copy = c]
<1>3. job' = [job EXCEPT ![p] = j] /\ IsJob(j) /\ j.kind = "run" /\ j.id = job[p].id
  BY <1>1, <1>2 DEF IInv, Shapes, IsJob
<1>. HIDE DEF j
<1>. QED  BY <1>1, <1>3, TakesUp DEF IInv, Labels, RunLabels

LEMMA SchedulerSteps ==
    ASSUME IInv, Wake \/ LoadToPick \/ Pick \/ NextTurn
    PROVE  Shapes' /\ KindsFit' /\ Settled
<1>1. Scheduler \in Procs /\ running' = running /\ ~Executing(Scheduler)
  BY DEF Procs, Wake, LoadToPick, Pick, NextTurn, Executing, RunLabels, markVars
<1>2. CASE job' = job /\ \E l \in {"load", "pick", "wait", "turn"} : Goto(Scheduler, l)
  <2>1. PICK l \in {"load", "pick", "wait", "turn"} : Goto(Scheduler, l)
    BY <1>2
  <2>. QED  BY <1>1, <1>2, <2>1, Moves DEF IInv, Labels, RunLabels
<1>3. CASE NextTurn
  <2>1. CASE Goto(Scheduler, "wait") /\ job' = [job EXCEPT ![Scheduler] = NoJob]
    BY <1>1, <2>1, Jobs, TakesUp DEF IInv, Labels, RunLabels
  <2>2. CASE /\ Goto(Scheduler, "mark")
             /\ job' = [job EXCEPT ![Scheduler] =
                           [About("run", Head(queue).id) EXCEPT !.copy = Head(queue)]]
    <3>. DEFINE j == [About("run", Head(queue).id) EXCEPT !.copy = Head(queue)]
    <3>1. IsJob(j) /\ j.kind = "run" /\ job' = [job EXCEPT ![Scheduler] = j]
      BY <2>2, Jobs DEF IsJob
    <3>. HIDE DEF j
    <3>. QED  BY <1>1, <2>2, <3>1, TakesUp DEF IInv, Labels, RunLabels
  <2>. QED  BY <1>3, <2>1, <2>2 DEF NextTurn
<1>. QED  BY <1>2, <1>3 DEF Wake, LoadToPick, Pick

\* A mark is set only where there is none.
LEMMA MarkStep ==
    ASSUME IInv, NEW p \in Procs, Mark(p)
    PROVE  IInv'
<1>1. job[p].kind = "run" /\ ~Executing(p) /\ job' = job /\ pc[p] = "mark"
  BY DEF IInv, KindsFit, Mark, Executing, RunLabels
<1>2. CASE Goto(p, After(p)) /\ UNCHANGED running
  <2>1. PICK l \in {"turn", "done"} : Goto(p, l)
    BY <1>2 DEF After
  <2>2. Shapes' /\ KindsFit' /\ Settled
    BY <1>1, <1>2, <2>1, Moves DEF IInv, Labels, RunLabels
  <2>. QED  BY <2>2, SettledKeeps DEF IInv
<1>3. CASE /\ job[p].id \notin running
           /\ running' = running \union {job[p].id}
           /\ Goto(p, "resolve")
  <2>1. Shapes' /\ KindsFit'
    BY <1>1, <1>3 DEF IInv, Shapes, KindsFit, Goto, Labels
  <2>2. \A q \in Procs : Executing(q)' <=> Executing(q) \/ q = p
    BY <1>1, <1>3 DEF IInv, Shapes, Executing, Goto, RunLabels
  <2>3. \A q \in Procs : Executing(q) => job[q].id # job[p].id
    BY <1>3 DEF IInv, RunsAlone
  <2>4. RunsAlone'
    <3>1. \A q, r \in Procs : Executing(q)' /\ Executing(r)' /\ q # r => job'[q].id # job'[r].id
      BY <1>1, <2>2, <2>3 DEF IInv, RunsAlone
    <3>2. running' = {job'[q].id : q \in {r \in Procs : Executing(r)'}}
      BY <1>1, <1>3, <2>2 DEF IInv, RunsAlone
    <3>. QED  BY <3>1, <3>2 DEF RunsAlone
  <2>. QED  BY <2>1, <2>4 DEF IInv
<1>. QED  BY <1>2, <1>3 DEF Mark

\* The mark a run removes is its own.
LEMMA UnmarkStep ==
    ASSUME IInv, NEW p \in Procs, Unmark(p)
    PROVE  IInv'
<1>1. Executing(p) /\ job' = job
  BY DEF IInv, KindsFit, Unmark, Executing, RunLabels
<1>2. PICK l \in {"turn", "done"} : Goto(p, l)
  BY DEF Unmark, After
<1>3. Shapes' /\ KindsFit'
  BY <1>1, <1>2 DEF IInv, Shapes, KindsFit, Goto, Labels
<1>4. \A q \in Procs : Executing(q)' <=> Executing(q) /\ q # p
  BY <1>1, <1>2 DEF IInv, Shapes, Executing, Goto, RunLabels
<1>5. \A q \in Procs : Executing(q) /\ q # p => job[q].id # job[p].id
  BY <1>1 DEF IInv, RunsAlone
<1>6. RunsAlone'
  <2>1. \A q, r \in Procs : Executing(q)' /\ Executing(r)' /\ q # r => job'[q].id # job'[r].id
    BY <1>1, <1>4 DEF IInv, RunsAlone
  <2>2. running' = {job'[q].id : q \in {r \in Procs : Executing(r)'}}
    BY <1>1, <1>4, <1>5 DEF IInv, RunsAlone, Unmark
  <2>. QED  BY <2>1, <2>2 DEF RunsAlone
<1>. QED  BY <1>3, <1>6 DEF IInv

\* A new life of the service begins without marks and without runs.
LEMMA RestartStep ==
    ASSUME IInv, Restart
    PROVE  IInv'
<1>1. \A p \in Procs : job'[p] = NoJob /\ pc'[p] \in {"wait", "idle", "done"}
  BY DEF Restart
<1>2. Shapes'
  BY <1>1, Jobs DEF Restart, Shapes, IsJob, Labels
<1>3. KindsFit' /\ \A p \in Procs : ~Executing(p)'
  BY <1>1 DEF KindsFit, Executing, RunLabels
<1>4. RunsAlone'
  BY <1>3 DEF RunsAlone, Restart
<1>. QED  BY <1>2, <1>3, <1>4 DEF IInv

LEMMA StutterKeeps ==
    ASSUME IInv, UNCHANGED <<markVars, procVars>>
    PROVE  IInv'
BY DEF IInv, Shapes, KindsFit, RunsAlone, Executing, markVars, procVars

LEMMA NextIInv ==
    ASSUME IInv, [Next]_vars
    PROVE  IInv'
<1>1. CASE \E p \in Procs : Mark(p)
  BY <1>1, MarkStep
<1>2. CASE \E p \in Procs : Unmark(p)
  BY <1>2, UnmarkStep
<1>3. CASE Restart
  BY <1>3, RestartStep
<1>4. CASE Advance \/ UNCHANGED vars
  BY <1>4, StutterKeeps DEF Advance, vars
<1>5. CASE \E p \in Threads : \E request \in Requests : Begin(p, request)
  BY <1>5, BeginStep, SettledKeeps DEF IInv
<1>6. CASE \E p \in Procs :
              \/ p # Scheduler /\ (Load(p) \/ Unload(p) \/ Look(p))
              \/ ResolveForRun(p) \/ UpdateNext(p)
  BY <1>6, PlainSteps, SettledKeeps DEF IInv, UpdateNext
<1>7. CASE \E p \in Procs : \/ TakeToSave(p) \/ TakeToRun(p) \/ MailForRun(p)
                            \/ ResolveForLogin(p) \/ MailForLogin(p)
  BY <1>7, TakeToSaveStep, TakeToRunStep, MailForRunStep, LoginSteps, SettledKeeps DEF IInv
<1>8. CASE Wake \/ LoadToPick \/ Pick \/ NextTurn
  BY <1>8, SchedulerSteps, SettledKeeps DEF IInv
<1>9. CASE \E p \in Threads : RequestNext(p)
  <2>1. PICK p \in Threads : RequestNext(p)
    BY <1>9
  <2>2. p \in Procs /\ p # Scheduler
    BY SchedulerAssumption DEF Procs
  <2>. QED  BY <2>1, <2>2, <1>1, <1>2, <1>6, <1>7 DEF RequestNext, RunNext
<1>10. CASE SchedulerNext
  <2>1. Scheduler \in Procs
    BY DEF Procs
  <2>. QED  BY <1>10, <2>1, <1>1, <1>2, <1>6, <1>7, <1>8 DEF SchedulerNext, RunNext
<1>. QED  BY <1>3, <1>4, <1>5, <1>9, <1>10 DEF Next

THEOREM Invariance == Spec => []IInv
<1>1. IInv /\ [Next]_vars => IInv'
  BY NextIInv
<1>. QED  BY InitIInv, <1>1, PTL DEF Spec

\* A task is checked by one process at a time and marked just as long, whatever
\* loads, unloads, failed updates and restarts come in between.
THEOREM ChecksRunAlone == Spec => []RunsAlone
<1>1. IInv => RunsAlone
  BY DEF IInv
<1>. QED  BY <1>1, Invariance, PTL

-----------------------------------------------------------------------------
(* The inductive invariant of the file *)

Writing(label) == label \in {"put", "rename"}

\* What is about to be written is whole.
DataWhole ==
    /\ data = [p \in Procs |-> data[p]]
    /\ \A p \in Procs : Parses(data[p])

\* One writer has the temporary file: it has truncated it, or it has filled it.
OneWriter ==
    /\ Parses(file)
    /\ \A p, q \in Procs : Writing(pc[p]) /\ Writing(pc[q]) => p = q
    /\ \A p \in Procs :
          /\ pc[p] = "put" => at[p] = "tmp" /\ tmp = {Empty}
          /\ pc[p] = "rename" => \E c : tmp = {c} /\ Parses(c)

FInv ==
    /\ pc = [p \in Procs |-> pc[p]]
    /\ at = [p \in Procs |-> at[p]]
    /\ DataWhole
    /\ ~clash => OneWriter

LEMMA InitFInv == Init => FInv
BY DEF Init, FInv, DataWhole, OneWriter, Writing, Blank, Whole, Parses

\* A process moves, and neither to nor within the writing of the file.
LEMMA Elsewhere ==
    ASSUME NEW p \in Procs, NEW l, ~Writing(l), FInv, Goto(p, l),
           UNCHANGED <<fileVars, clash>>, DataWhole'
    PROVE  FInv'
BY DEF FInv, OneWriter, Writing, Goto, fileVars

LEMMA OtherSteps ==
    ASSUME IInv, FInv, NEW p \in Procs,
           \/ Load(p) \/ Unload(p) \/ Look(p) \/ TakeToSave(p) \/ TakeToRun(p)
           \/ ResolveForLogin(p) \/ MailForLogin(p) \/ RunNext(p)
           \/ Copy(p) \/ HalfEdit(p) \/ Miss(p) \/ RenameFails(p) \/ Reload(p)
           \/ p = Scheduler /\ (Wake \/ LoadToPick \/ Pick \/ NextTurn)
    PROVE  FInv'
<1>1. UNCHANGED <<fileVars, clash, data>>
  BY DEF Load, Unload, Look, TakeToSave, TakeToRun, ResolveForLogin, MailForLogin, RunNext, Mark,
         ResolveForRun, MailForRun, Unmark, Copy, HalfEdit, Miss, RenameFails, Reload, Wake,
         LoadToPick, Pick, NextTurn, histVars
<1>2. PICK l : ~Writing(l) /\ Goto(p, l)
  <2>1. CASE Load(p)
    <3>1. job[p].kind \in LoadKinds
      BY <2>1 DEF Load, IInv, KindsFit
    <3>. QED  BY <3>1, <2>1 DEF Load, Writing, AfterLoad, LoadKinds
  <2>2. CASE Unload(p) \/ Look(p) \/ TakeToSave(p) \/ TakeToRun(p) \/ ResolveForLogin(p)
             \/ MailForLogin(p)
    BY <2>2 DEF Unload, Look, TakeToSave, TakeToRun, ResolveForLogin, MailForLogin, Writing
  <2>3. CASE RunNext(p)
    BY <2>3 DEF RunNext, Mark, ResolveForRun, MailForRun, Unmark, After, Writing
  <2>4. CASE Copy(p) \/ HalfEdit(p) \/ Miss(p) \/ RenameFails(p) \/ Reload(p)
    BY <2>4 DEF Copy, HalfEdit, Miss, RenameFails, Reload, Through, Writing
  <2>5. CASE p = Scheduler /\ (Wake \/ LoadToPick \/ Pick \/ NextTurn)
    BY <2>5 DEF Wake, LoadToPick, Pick, NextTurn, Writing
  <2>. QED  BY <2>1, <2>2, <2>3, <2>4, <2>5
<1>3. DataWhole'
  BY <1>1 DEF FInv, DataWhole
<1>. QED  BY <1>1, <1>2, <1>3, Elsewhere

LEMMA ContentWhole ==
    ASSUME NEW c PROVE Parses(Normalized(Content(c)))
BY DEF Content, Whole, Parses, Normalized

LEMMA MarshalWhole ==
    ASSUME FInv, NEW p \in Procs, NEW items, NEW h, Marshal(p, items, h)
    PROVE  DataWhole'
<1>1. Parses(Normalized([Content(mine[p]) EXCEPT ![Part(p)] = items]))
  <2>1. CASE Part(p) = "tasks"
    BY <2>1 DEF Content, Whole, Parses, Normalized
  <2>2. CASE Part(p) = "accts"
    BY <2>2 DEF Content, Whole, Parses, Normalized
  <2>. QED  BY <2>1, <2>2 DEF Part
<1>. QED  BY <1>1 DEF FInv, DataWhole, Marshal

LEMMA MarshalSteps ==
    ASSUME FInv, NEW p \in Procs, Replace(p) \/ Add(p) \/ Remove(p)
    PROVE  FInv'
<1>1. PICK items, h : Marshal(p, items, h)
  BY DEF Replace, Add, Remove
<1>2. DataWhole' /\ Goto(p, "open") /\ UNCHANGED <<fileVars, clash>>
  BY <1>1, MarshalWhole DEF Marshal
<1>. QED  BY <1>2, Elsewhere DEF Writing

LEMMA BeginKeepsFile ==
    ASSUME FInv, NEW p \in Threads, NEW request \in Requests, Begin(p, request)
    PROVE  FInv'
<1>1. DataWhole'
  BY ContentWhole DEF FInv, DataWhole, Begin, Blank, Whole, Parses
<1>2. PICK l \in {"drop", "open", "load"} : Goto(p, l)
  BY DEF Begin
<1>. QED  BY <1>1, <1>2, Elsewhere DEF Begin, Writing, Procs

LEMMA OpenStep ==
    ASSUME FInv, NEW p \in Procs, Open(p)
    PROVE  FInv'
<1>1. DataWhole'
  BY DEF FInv, DataWhole, Open
<1>2. ASSUME ~clash' PROVE OneWriter'
  <2>1. ~clash /\ \A q \in Procs : ~Writing(pc[q])
    BY <1>2 DEF Open, Writing
  <2>2. \A q \in Procs : Writing(pc'[q]) => q = p
    BY <2>1 DEF Open, Goto, FInv
  <2>. QED  BY <2>1, <2>2 DEF Open, Goto, FInv, OneWriter, Writing
<1>. QED  BY <1>1, <1>2 DEF FInv, Open, Goto

LEMMA PutStep ==
    ASSUME FInv, NEW p \in Procs, Put(p)
    PROVE  FInv'
<1>1. DataWhole'
  BY DEF FInv, DataWhole, Put, Blank, Whole, Parses
<1>2. ASSUME ~clash' PROVE OneWriter'
  <2>1. OneWriter /\ at[p] = "tmp" /\ tmp = {Empty}
    BY <1>2 DEF Put, FInv, OneWriter, histVars
  <2>2. tmp' = {data[p]} /\ file' = file
    BY <2>1 DEF Put, Over
  <2>3. \A q \in Procs : Writing(pc'[q]) => q = p
    BY <2>1 DEF Put, Goto, FInv, OneWriter, Writing
  <2>. QED  BY <2>1, <2>2, <2>3 DEF Put, Goto, FInv, OneWriter, Writing, DataWhole
<1>. QED  BY <1>1, <1>2 DEF FInv, Put, Goto

LEMMA RenameStep ==
    ASSUME FInv, NEW p \in Procs, Rename(p)
    PROVE  FInv'
<1>1. DataWhole'
  BY DEF FInv, DataWhole, Rename
<1>2. ASSUME ~clash' PROVE OneWriter'
  <2>1. OneWriter
    BY <1>2 DEF Rename, FInv, histVars
  <2>2. Parses(file')
    BY <2>1 DEF Rename, OneWriter
  <2>3. \A q \in Procs : ~Writing(pc'[q])
    BY <2>1 DEF Rename, Goto, FInv, OneWriter, Writing
  <2>. QED  BY <2>2, <2>3 DEF OneWriter, Writing
<1>. QED  BY <1>1, <1>2 DEF FInv, Rename, Goto

LEMMA OpenFailsStep ==
    ASSUME FInv, NEW p \in Procs, OpenFails(p)
    PROVE  FInv'
<1>1. DataWhole'
  BY DEF FInv, DataWhole, OpenFails, Blank, Whole, Parses
<1>2. PICK l \in {"unmark", "done"} : Goto(p, l)
  BY DEF OpenFails, Through
<1>. QED  BY <1>1, <1>2, Elsewhere DEF OpenFails, Writing

LEMMA RestartKeepsFile ==
    ASSUME FInv, Restart
    PROVE  FInv'
<1>1. \A p \in Procs : ~Writing(pc'[p])
  BY DEF Restart, Writing
<1>. QED  BY <1>1 DEF FInv, DataWhole, OneWriter, Restart, Blank, Whole, Parses, histVars, Writing

LEMMA NextFInv ==
    ASSUME IInv, FInv, [Next]_vars
    PROVE  FInv'
<1>1. CASE Restart
  BY <1>1, RestartKeepsFile
<1>2. CASE Advance \/ UNCHANGED vars
  BY <1>2 DEF Advance, vars, fileVars, procVars, histVars, FInv, DataWhole, OneWriter
<1>3. CASE \E p \in Threads : \E request \in Requests : Begin(p, request)
  BY <1>3, BeginKeepsFile
<1>4. ASSUME NEW p \in Procs, UpdateNext(p)
      PROVE  FInv'
  BY <1>4, OtherSteps, MarshalSteps, OpenStep, PutStep, RenameStep, OpenFailsStep DEF UpdateNext
<1>5. CASE \E p \in Threads : RequestNext(p)
  BY <1>5, <1>4, OtherSteps DEF RequestNext, Procs
<1>6. CASE SchedulerNext
  BY <1>6, <1>4, OtherSteps DEF SchedulerNext, Procs
<1>. QED  BY <1>1, <1>2, <1>3, <1>5, <1>6 DEF Next

\* The file parses at any moment, so that the process may end at any, unless two
\* writers have had the one temporary file at once.
THEOREM FileStaysWhole == Spec => []WholeFile
<1>1. IInv /\ FInv /\ [Next]_vars => FInv'
  BY NextFInv
<1>2. FInv => WholeFile
  BY DEF FInv, OneWriter, WholeFile
<1>. QED  BY InitFInv, Invariance, <1>1, <1>2, PTL DEF Spec

=============================================================================
