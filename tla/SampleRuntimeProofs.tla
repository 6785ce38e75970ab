------------------------ MODULE SampleRuntimeProofs ------------------------
(***************************************************************************)
(* Proofs about SampleRuntime, for any number of goroutines, ids, requests *)
(* and steps of jobs, any limit of the log and any mix of requests: what   *)
(* was acknowledged stays, and a token is not older than the address it    *)
(* goes to.                                                                *)
(***************************************************************************)
EXTENDS SampleRuntime, SequenceTheorems, TLAPS

-----------------------------------------------------------------------------
(* Bounds and helpers *)

LEMMA SerialFacts == 
    /\ MaxRequests \in Nat \ {0}
    /\ Serials = {n \in Nat : 0 < n /\ n <= MaxRequests}
BY BoundsAssumption DEF Serials

LEMMA BoundFacts == JobSteps \in Nat \ {0} /\ MaxMessages \in Nat \ {0} /\ MaxChanges \in Nat
BY BoundsAssumption

LEMMA FirstSteps ==
    ASSUME NEW op
    PROVE  FirstStep(op) \in {"ensure", "readCards", "load", "clear", "put", "readURL",
                              "answer", "act"}
BY DEF FirstStep

LEMMA LastType ==
    ASSUME NEW S, NEW s \in Seq(S), NEW n \in Nat
    PROVE  Last(s, n) \in Seq(S) /\ Len(Last(s, n)) <= n
<1>1. CASE Len(s) <= n
  BY <1>1 DEF Last
<1>2. CASE ~(Len(s) <= n)
  <2>1. Len(s) - n + 1 \in 1 .. Len(s) + 1
    BY <1>2
  <2>. QED  BY <1>2, <2>1, SubSeqProperties DEF Last
<1>. QED  BY <1>1, <1>2

Beginning == \E t \in Threads, r \in Requests : Begin(t, r)

-----------------------------------------------------------------------------
(* What an action changes, and where it takes its thread *)

\* The steps of requests that bear on the items or on what is loaded.
ItemStep(t) ==
    \/ ForcedLoad(t) \/ NoteError(t) \/ ClearLoaded(t) \/ PutConfig(t)
    \/ Unload(t) \/ EnsureLoaded(t) \/ StoreItem(t) \/ DeleteItem(t)
\* The steps of an update of the cards.
CardStepOf(t) ==
    \/ ReadCards(t) \/ TruncateCards(t) \/ FillCards(t)
    \/ OpenCardsFails(t) \/ FillCardsFails(t)

\* Which actions change which variables.
LEMMA Frames ==
    ASSUME [Next]_vars
    PROVE  /\ \/ UNCHANGED <<jobVars, stamp>>
              \/ \E t \in Threads : StartJob(t) \/ StoreItem(t)
              \/ \E r \in Serials : RunJob(r)
           /\ \/ UNCHANGED msgVars
              \/ \E t \in Threads : ReceiveMessage(t) \/ ClearMessages(t)
           /\ UNCHANGED hostVars \/ \E t \in Threads : Authorize(t)
           /\ \/ UNCHANGED pub
              \/ \E t \in Threads : ReadHostURL(t) \/ ReadHostToken(t) \/ Return(t)
           /\ \/ UNCHANGED cardVars
              \/ \E t \in Threads : CardStepOf(t) \/ Return(t)
           /\ \/ UNCHANGED <<itemVars, loadVars, fileVars>>
              \/ FileChanges
              \/ \E t \in Threads : ItemStep(t)
           /\ \/ UNCHANGED reqVars
              \/ \E t \in Threads : Return(t) \/ \E r \in Requests : Begin(t, r)
           /\ \/ UNCHANGED lifeVars
              \/ Shutdown \/ MainReturns \/ Signal
              \/ \E t \in Threads : Answer(t) \/ RequestShutdown(t) \/ Unload(t)
<1>. USE DEF Next, Step, vars
<1>1. \/ UNCHANGED <<jobVars, stamp>>
      \/ \E t \in Threads : StartJob(t) \/ StoreItem(t)
      \/ \E r \in Serials : RunJob(r)
  BY DEF Begin, Answer, RequestShutdown, Return, ForcedLoad, NoteError, ClearLoaded,
         PutConfig, Unload, EnsureLoaded, DeleteItem, ReceiveMessage, ClearMessages,
         Authorize, ReadHostURL, ReadHostToken, Publish, ReadCards, TruncateCards,
         FillCards, OpenCardsFails, FillCardsFails, FileChanges, Shutdown, MainReturns,
         Signal
<1>2. \/ UNCHANGED msgVars
      \/ \E t \in Threads : ReceiveMessage(t) \/ ClearMessages(t)
  BY DEF Begin, Answer, RequestShutdown, Return, ForcedLoad, NoteError, ClearLoaded,
         PutConfig, Unload, EnsureLoaded, StoreItem, DeleteItem, StartJob, RunJob,
         Authorize, ReadHostURL, ReadHostToken, Publish, ReadCards, TruncateCards,
         FillCards, OpenCardsFails, FillCardsFails, FileChanges, Shutdown, MainReturns,
         Signal
<1>3. UNCHANGED hostVars \/ \E t \in Threads : Authorize(t)
  BY DEF Begin, Answer, RequestShutdown, Return, ForcedLoad, NoteError, ClearLoaded,
         PutConfig, Unload, EnsureLoaded, StoreItem, DeleteItem, StartJob, RunJob,
         ReceiveMessage, ClearMessages, ReadHostURL, ReadHostToken, Publish, ReadCards,
         TruncateCards, FillCards, OpenCardsFails, FillCardsFails, FileChanges, Shutdown,
         MainReturns, Signal
<1>4. \/ UNCHANGED pub
      \/ \E t \in Threads : ReadHostURL(t) \/ ReadHostToken(t) \/ Return(t)
  BY DEF Begin, Answer, RequestShutdown, ForcedLoad, NoteError, ClearLoaded, PutConfig,
         Unload, EnsureLoaded, StoreItem, DeleteItem, StartJob, RunJob, ReceiveMessage,
         ClearMessages, Authorize, Publish, ReadCards, TruncateCards, FillCards,
         OpenCardsFails, FillCardsFails, FileChanges, Shutdown, MainReturns, Signal
<1>5. \/ UNCHANGED cardVars
      \/ \E t \in Threads : CardStepOf(t) \/ Return(t)
  BY DEF Begin, Answer, RequestShutdown, ForcedLoad, NoteError, ClearLoaded, PutConfig,
         Unload, EnsureLoaded, StoreItem, DeleteItem, StartJob, RunJob, ReceiveMessage,
         ClearMessages, Authorize, ReadHostURL, ReadHostToken, Publish, FileChanges,
         Shutdown, MainReturns, Signal, CardStepOf
<1>6. \/ UNCHANGED <<itemVars, loadVars, fileVars>>
      \/ FileChanges
      \/ \E t \in Threads : ItemStep(t)
  <2>1. ASSUME NEW t \in Threads, Step(t), ~ItemStep(t)
        PROVE  UNCHANGED <<itemVars, loadVars, fileVars>>
    BY <2>1 DEF ItemStep, Answer, RequestShutdown, Return, StartJob, ReceiveMessage,
                ClearMessages, Authorize, ReadHostURL, ReadHostToken, Publish, ReadCards,
                TruncateCards, FillCards, OpenCardsFails, FillCardsFails
  <2>. QED  BY <2>1 DEF Begin, RunJob, Shutdown, MainReturns, Signal
<1>7. \/ UNCHANGED reqVars
      \/ \E t \in Threads : Return(t) \/ \E r \in Requests : Begin(t, r)
  BY DEF Answer, RequestShutdown, ForcedLoad, NoteError, ClearLoaded, PutConfig, Unload,
         EnsureLoaded, StoreItem, DeleteItem, StartJob, RunJob, ReceiveMessage,
         ClearMessages, Authorize, ReadHostURL, ReadHostToken, Publish, ReadCards,
         TruncateCards, FillCards, OpenCardsFails, FillCardsFails, FileChanges, Shutdown,
         MainReturns, Signal
<1>8. \/ UNCHANGED lifeVars
      \/ Shutdown \/ MainReturns \/ Signal
      \/ \E t \in Threads : Answer(t) \/ RequestShutdown(t) \/ Unload(t)
  BY DEF Begin, Return, ForcedLoad, NoteError, ClearLoaded, PutConfig, EnsureLoaded,
         StoreItem, DeleteItem, StartJob, RunJob, ReceiveMessage, ClearMessages, Authorize,
         ReadHostURL, ReadHostToken, Publish, ReadCards, TruncateCards, FillCards,
         OpenCardsFails, FillCardsFails, FileChanges
<1>. QED  BY <1>1, <1>2, <1>3, <1>4, <1>5, <1>6, <1>7, <1>8

\* A thread comes to where the requests on its way come to.
Moves(t, l) ==
    /\ Goto(t, l)
    /\ l = "send"     => ReadHostToken(t)
    /\ l = "change"   => EnsureLoaded(t)
    /\ l = "truncate" => ReadCards(t)
    /\ l = "fill"     => TruncateCards(t)
    /\ l = "idle"     => Return(t)

LEMMA StepMoves ==
    ASSUME NEW t \in Threads, Step(t)
    PROVE  pc[t] # "idle" /\ \E l \in Labels : Moves(t, l)
<1>1. pc[t] # "idle"
  BY DEF Step, Answer, RequestShutdown, Return, ForcedLoad, NoteError, ClearLoaded, PutConfig,
         Unload, EnsureLoaded, StoreItem, DeleteItem, StartJob, ReceiveMessage, ClearMessages,
         Authorize, ReadHostURL, ReadHostToken, Publish, ReadCards, TruncateCards,
         FillCards, OpenCardsFails, FillCardsFails, At
<1>2. CASE NoteError(t) \/ Unload(t) \/ StoreItem(t) \/ DeleteItem(t) \/ StartJob(t)
           \/ ReceiveMessage(t) \/ ClearMessages(t) \/ Authorize(t) \/ Publish(t) \/ FillCards(t)
           \/ OpenCardsFails(t) \/ FillCardsFails(t)
  <2>1. Goto(t, "answer")
    BY <1>2 DEF NoteError, Unload, StoreItem, DeleteItem, StartJob, ReceiveMessage,
                ClearMessages, Authorize, Publish, FillCards, OpenCardsFails, FillCardsFails
  <2>. QED  BY <1>1, <2>1 DEF Moves, Labels
<1>3. CASE ClearLoaded(t)
  BY <1>1, <1>3 DEF ClearLoaded, Moves, Labels
<1>4. CASE RequestShutdown(t)
  BY <1>1, <1>4 DEF RequestShutdown, Moves, Labels
<1>5. CASE Return(t)
  BY <1>1, <1>5 DEF Return, Moves, Labels
<1>6. CASE TruncateCards(t)
  BY <1>1, <1>6 DEF TruncateCards, Moves, Labels
<1>7. CASE Answer(t) \/ ForcedLoad(t) \/ PutConfig(t)
  <2>1. PICK l \in {"stop", "return", "answer", "note", "clear"} : Goto(t, l)
    BY <1>7 DEF Answer, ForcedLoad, PutConfig
  <2>. QED  BY <1>1, <2>1 DEF Moves, Labels
<1>8. CASE EnsureLoaded(t)
  <2>1. PICK l \in {"change", "answer"} : Goto(t, l)
    BY <1>8 DEF EnsureLoaded
  <2>. QED  BY <1>1, <1>8, <2>1 DEF Moves, Labels
<1>9. CASE ReadHostURL(t)
  <2>1. PICK l \in {"readToken", "answer"} : Goto(t, l)
    BY <1>9 DEF ReadHostURL
  <2>. QED  BY <1>1, <2>1 DEF Moves, Labels
<1>10. CASE ReadHostToken(t)
  <2>1. PICK l \in {"send", "answer"} : Goto(t, l)
    BY <1>10 DEF ReadHostToken
  <2>. QED  BY <1>1, <1>10, <2>1 DEF Moves, Labels
<1>11. CASE ReadCards(t)
  <2>1. PICK l \in {"truncate", "answer"} : Goto(t, l)
    BY <1>11 DEF ReadCards
  <2>. QED  BY <1>1, <1>11, <2>1 DEF Moves, Labels
<1>. QED  BY <1>2, <1>3, <1>4, <1>5, <1>6, <1>7, <1>8, <1>9, <1>10, <1>11 DEF Step

LEMMA StepKeeps ==
    ASSUME NEW t \in Threads, Step(t)
    PROVE  UNCHANGED reqVars \/ Return(t)
BY DEF Step, Answer, RequestShutdown, ForcedLoad, NoteError, ClearLoaded, PutConfig, Unload,
       EnsureLoaded, StoreItem, DeleteItem, StartJob, ReceiveMessage, ClearMessages,
       Authorize, ReadHostURL, ReadHostToken, Publish, ReadCards, TruncateCards, FillCards,
       OpenCardsFails, FillCardsFails

LEMMA OtherSteps ==
    ASSUME NEW t \in Threads, Step(t)
    PROVE  pc[t] \in {"truncate", "fill"} => CardStepOf(t)
BY DEF Step, At, Answer, RequestShutdown, Return, ForcedLoad, NoteError, ClearLoaded,
       PutConfig, Unload, EnsureLoaded, StoreItem, DeleteItem, StartJob, ReceiveMessage,
       ClearMessages, Authorize, ReadHostURL, ReadHostToken, Publish, CardStepOf

\* Steps of nobody's request leave the requests where they are.
LEMMA OwnSteps ==
    ASSUME [Next]_vars
    PROVE  \/ UNCHANGED <<pc, reqVars>>
           \/ \E t \in Threads : Step(t) \/ \E r \in Requests : Begin(t, r)
BY DEF Next, RunJob, FileChanges, Shutdown, MainReturns, Signal, vars

\* A step of the specification moves one thread, or none.
LEMMA NextMoves ==
    ASSUME [Next]_vars
    PROVE  \/ UNCHANGED <<pc, serial>>
           \/ \E t \in Threads : \E r \in Requests :
                 Begin(t, r) /\ Goto(t, FirstStep(r.op))
           \/ \E t \in Threads : Step(t) /\ \E l \in Labels : Moves(t, l)
<1>1. CASE \E t \in Threads : Step(t)
  BY <1>1, StepMoves
<1>2. CASE \E t \in Threads, r \in Requests : Begin(t, r)
  BY <1>2 DEF Begin
<1>3. CASE (\E r \in Serials : RunJob(r)) \/ FileChanges \/ Shutdown \/ MainReturns \/ Signal
  BY <1>3 DEF RunJob, FileChanges, Shutdown, MainReturns, Signal, reqVars
<1>4. CASE UNCHANGED vars
  BY <1>4 DEF vars, reqVars
<1>. QED  BY <1>1, <1>2, <1>3, <1>4 DEF Next

-----------------------------------------------------------------------------
(* Type correctness *)

\* A thread that serves a request knows its number.
Busy ==
    /\ pc \in [Threads -> Labels]
    /\ serial \in [Threads -> {0} \union Serials]
    /\ \A t \in Threads : pc[t] # "idle" => serial[t] \in Serials

ReqT  == req \in [Threads -> Request] /\ offer \in Offers /\ started \in Nat
LoadT == {loaded, loadErr, fresh} \subseteq BOOLEAN
ItemT ==
    /\ items \in [Keys -> {Absent, InFile} \union Serials]
    /\ held \in [Keys -> {Absent} \union Serials]
    /\ overtaken \subseteq Threads
FileT == file \in [ok : BOOLEAN, ids : SUBSET ItemIds] /\ changes \in Nat
HostT == hostAuth \in [url : Nat, token : Nat] /\ injections \in Nat
MsgT ==
    /\ messageLog \in Seq(Serials) /\ Len(messageLog) <= MaxMessages
    /\ arrived \in Seq(Serials)
JobT ==
    /\ jobs \in [Serials -> 0..(JobSteps + 1)]
    /\ workers \in [Serials -> [id : {0} \union Serials, done : 0..JobSteps]]
    /\ twins \subseteq Serials /\ stamp \in Nat
CardT ==
    /\ cards \in [state : {"whole", "blank", "torn"}, list : [CardIds -> {Absent} \union Serials]]
    /\ view \in [Threads -> [CardIds -> {Absent} \union Serials]]
    /\ kept \in [CardIds -> {Absent} \union Serials]
    /\ clash \in BOOLEAN /\ cut \in BOOLEAN
LifeT == pendingStop \in BOOLEAN /\ life \in {"up", "asked", "closing", "down"}
PubT  == pub \in [Threads -> [url : Nat, token : Nat, seen : Nat]]

TInv ==
    /\ Busy /\ ReqT /\ LoadT /\ ItemT /\ FileT /\ HostT
    /\ MsgT /\ JobT /\ CardT /\ LifeT /\ PubT

LEMMA TypesOfTInv == TInv => TypeOK
BY DEF TInv, Busy, ReqT, LoadT, ItemT, FileT, HostT, MsgT, JobT, CardT, LifeT, PubT, TypeOK

LEMMA InitTypes == Init => TInv
<1>. SUFFICES ASSUME Init PROVE TInv
  OBVIOUS
<1>. USE SerialFacts, BoundsAssumption DEF Init
<1>1. Busy 
  BY DEF Busy, Labels
<1>2. ReqT
  BY DEF ReqT, NoRequest, Request, NoId
<1>3. LoadT /\ FileT
  BY DEF LoadT, FileT
<1>4. ItemT
  BY DEF ItemT, NoItems, Absent, InFile
<1>5. HostT /\ LifeT /\ PubT
  BY DEF HostT, LifeT, PubT, NoPub
<1>6. MsgT
  BY DEF MsgT
<1>7. JobT
  BY DEF JobT, NoWorker, Absent
<1>8. CardT
  BY DEF CardT, NoCards, Absent
<1>. QED  BY <1>1, <1>2, <1>3, <1>4, <1>5, <1>6, <1>7, <1>8 DEF TInv

LEMMA BusyStep == Busy /\ ReqT /\ [Next]_vars => Busy'
<1>. SUFFICES ASSUME Busy, ReqT, [Next]_vars PROVE Busy'
  OBVIOUS
<1>1. CASE UNCHANGED <<pc, serial>>
  BY <1>1 DEF Busy
<1>2. CASE \E t \in Threads : \E r \in Requests : Begin(t, r) /\ Goto(t, FirstStep(r.op))
  <2>1. PICK t \in Threads, r \in Requests : Begin(t, r) /\ Goto(t, FirstStep(r.op))
    BY <1>2
  <2>2. FirstStep(r.op) \in Labels
    BY FirstSteps DEF Labels
  <2>3. serial' = [serial EXCEPT ![t] = started + 1] /\ started + 1 \in Serials
    BY <2>1, SerialFacts DEF Begin, ReqT
  <2>. QED  BY <2>1, <2>2, <2>3 DEF Busy, Goto
<1>3. CASE \E t \in Threads : Step(t) /\ \E l \in Labels : Moves(t, l)
  <2>1. PICK t \in Threads : Step(t) /\ \E l \in Labels : Moves(t, l)
    BY <1>3
  <2>2. PICK l \in Labels : Moves(t, l)
    BY <2>1
  <2>3. CASE Return(t)
    BY <2>2, <2>3 DEF Return, Busy, Moves, Goto
  <2>4. CASE ~Return(t)
    <3>1. l # "idle"
      BY <2>2, <2>4 DEF Moves
    <3>2. UNCHANGED serial
      BY <2>1, <2>4, StepKeeps DEF reqVars
    <3>. QED  BY <3>1, <3>2, <2>1, <2>2, StepMoves DEF Busy, Moves, Goto
  <2>. QED  BY <2>3, <2>4
<1>. QED  BY <1>1, <1>2, <1>3, NextMoves

LEMMA ReqTypes == ReqT /\ [Next]_vars => ReqT'
<1>. SUFFICES ASSUME ReqT, [Next]_vars PROVE ReqT'
  OBVIOUS
<1>1. CASE UNCHANGED reqVars
  BY <1>1 DEF reqVars, ReqT
<1>2. CASE \E t \in Threads : Return(t)
  BY <1>2 DEF Return, ReqT, NoRequest, Request, NoId
<1>3. CASE \E t \in Threads : \E r \in Requests : Begin(t, r)
  <2>1. Requests \subseteq Request
    BY DEF Requests, Request, ByItem, ByCard, NoId
  <2>. QED  BY <1>3, <2>1 DEF Begin, ReqT
<1>. QED  BY <1>1, <1>2, <1>3, Frames

LEMMA JobTypes == Busy /\ JobT /\ [Next]_vars => JobT'
<1>. SUFFICES ASSUME Busy, JobT, [Next]_vars PROVE JobT'
  OBVIOUS
<1>. USE SerialFacts, BoundFacts DEF JobT
<1>1. CASE UNCHANGED <<jobVars, stamp>>
  BY <1>1 DEF jobVars
<1>2. CASE \E t \in Threads : StoreItem(t)
  BY <1>2 DEF StoreItem, NextId, jobVars
<1>3. CASE \E t \in Threads : StartJob(t)
  <2>1. PICK t \in Threads : StartJob(t)
    BY <1>3
  <2>2. PICK n \in Serials :
           /\ stamp' \in {stamp, stamp + 1}
           /\ jobs' = [jobs EXCEPT ![n] = 1]
           /\ twins' = IF jobs[n] = Absent THEN twins ELSE twins \union {n}
           /\ workers' = [workers EXCEPT ![serial[t]] = [id |-> n, done |-> 0]]
    BY <2>1 DEF StartJob, NextId
  <2>3. /\ 1 \in 0..(JobSteps + 1)
        /\ [id |-> n, done |-> 0] \in [id : {0} \union Serials, done : 0..JobSteps]
    OBVIOUS
  <2>4. jobs' \in [Serials -> 0..(JobSteps + 1)]
    BY <2>2, <2>3
  <2>5. workers' \in [Serials -> [id : {0} \union Serials, done : 0..JobSteps]]
    BY <2>2, <2>3
  <2>6. twins' \subseteq Serials /\ stamp' \in Nat
    BY <2>2
  <2>. QED  BY <2>4, <2>5, <2>6
<1>4. CASE \E r \in Serials : RunJob(r)
  <2>1. PICK r \in Serials : RunJob(r)
    BY <1>4
  <2>2. workers[r].done + 1 \in 0..JobSteps /\ workers[r].done + 2 \in 0..(JobSteps + 1)
    BY <2>1 DEF RunJob
  <2>. QED  BY <2>1, <2>2 DEF RunJob
<1>. QED  BY <1>1, <1>2, <1>3, <1>4, Frames

LEMMA MsgTypes == Busy /\ MsgT /\ [Next]_vars => MsgT'
<1>. SUFFICES ASSUME Busy, MsgT, [Next]_vars PROVE MsgT'
  OBVIOUS
<1>1. CASE UNCHANGED msgVars
  BY <1>1 DEF msgVars, MsgT
<1>2. CASE \E t \in Threads : ReceiveMessage(t)
  <2>1. PICK t \in Threads : ReceiveMessage(t)
    BY <1>2
  <2>2. serial[t] \in Serials
    BY <2>1 DEF ReceiveMessage, At, Busy
  <2>3. /\ Append(messageLog, serial[t]) \in Seq(Serials)
        /\ Append(arrived, serial[t]) \in Seq(Serials)
    BY <2>2 DEF MsgT
  <2>. QED  BY <2>1, <2>3, LastType, BoundsAssumption DEF ReceiveMessage, MsgT
<1>3. CASE \E t \in Threads : ClearMessages(t)
  BY <1>3, BoundsAssumption DEF ClearMessages, MsgT
<1>. QED  BY <1>1, <1>2, <1>3, Frames

LEMMA HostTypes == HostT /\ [Next]_vars => HostT'
<1>1. ASSUME HostT, NEW t \in Threads, Authorize(t) PROVE HostT'
  BY <1>1 DEF HostT, Authorize, Injected
<1>. QED  BY <1>1, Frames DEF HostT, hostVars

LEMMA PubTypes == HostT /\ PubT /\ [Next]_vars => PubT'
<1>. SUFFICES ASSUME HostT, PubT, [Next]_vars PROVE PubT'
  OBVIOUS
<1>1. CASE UNCHANGED pub
  BY <1>1 DEF PubT
<1>2. CASE \E t \in Threads : ReadHostURL(t)
  <2>1. PICK t \in Threads : ReadHostURL(t)
    BY <1>2
  <2>2. pub' = [pub EXCEPT ![t] = [url |-> hostAuth.url, token |-> pub[t].token,
                                  seen |-> hostAuth.token]]
    BY <2>1 DEF PubT, ReadHostURL
  <2>. QED  BY <2>2 DEF HostT, PubT
<1>3. CASE \E t \in Threads : ReadHostToken(t)
  BY <1>3 DEF HostT, PubT, ReadHostToken
<1>4. CASE \E t \in Threads : Return(t)
  BY <1>4 DEF PubT, Return, NoPub
<1>. QED  BY <1>1, <1>2, <1>3, <1>4, Frames

LEMMA LifeTypes == LifeT /\ [Next]_vars => LifeT'
<1>. SUFFICES ASSUME LifeT, [Next]_vars PROVE LifeT'
  OBVIOUS
<1>1. CASE UNCHANGED lifeVars
  BY <1>1 DEF lifeVars, LifeT
<1>2. CASE Shutdown \/ MainReturns \/ Signal
  BY <1>2 DEF Shutdown, MainReturns, Signal, LifeT
<1>3. CASE \E t \in Threads : Answer(t) \/ RequestShutdown(t) \/ Unload(t)
  BY <1>3 DEF Answer, RequestShutdown, Ask, Unload, LifeT, lifeVars
<1>. QED  BY <1>1, <1>2, <1>3, Frames

LEMMA CardTypes == Busy /\ CardT /\ [Next]_vars => CardT'
<1>. SUFFICES ASSUME Busy, CardT, [Next]_vars PROVE CardT'
  OBVIOUS
<1>. USE SerialFacts DEF CardT, Absent
<1>1. CASE UNCHANGED cardVars
  BY <1>1 DEF cardVars
<1>2. CASE \E t \in Threads : ReadCards(t)
  <2>1. PICK t \in Threads : ReadCards(t)
    BY <1>2
  <2>2. serial[t] \in Serials /\ UNCHANGED <<cards, kept, cut>>
    BY <2>1 DEF ReadCards, At, Busy
  <2>3. CASE UNCHANGED <<view, clash>>
    BY <2>2, <2>3
  <2>4. CASE ~UNCHANGED <<view, clash>>
    <3>1. /\ view' = [view EXCEPT ![t] = [cards.list EXCEPT ![req[t].key] =
                          IF Op(t) = "card" THEN serial[t] ELSE Absent]]
          /\ clash' = (clash \/ Meets(t))
      BY <2>1, <2>4 DEF ReadCards
    <3>2. Meets(t) \in BOOLEAN
      BY DEF Meets
    <3>3. clash' \in BOOLEAN
      BY <3>1, <3>2, Zenon
    <3>4. view' \in [Threads -> [CardIds -> {Absent} \union Serials]]
      BY <2>2, <3>1
    <3>. QED  BY <2>2, <3>3, <3>4
  <2>. QED  BY <2>3, <2>4
<1>3. CASE \E t \in Threads : TruncateCards(t)
  BY <1>3 DEF TruncateCards, NoCards
<1>4. CASE \E t \in Threads : FillCards(t)
  <2>1. PICK t \in Threads : FillCards(t)
    BY <1>4
  <2>2. serial[t] \in Serials /\ UNCHANGED <<view, clash, cut>>
    BY <2>1 DEF FillCards, At, Busy
  <2>3. kept' \in [CardIds -> {Absent} \union Serials]
    BY <2>1, <2>2 DEF FillCards
  <2>. QED  BY <2>1, <2>2, <2>3 DEF FillCards, NoCards
<1>5. CASE \E t \in Threads : Return(t)
  BY <1>5 DEF Return, NoCards
<1>6. CASE \E t \in Threads : OpenCardsFails(t)
  BY <1>6 DEF OpenCardsFails, cardVars
<1>7. CASE \E t \in Threads : FillCardsFails(t)
  <2>1. PICK t \in Threads : FillCardsFails(t)
    BY <1>7
  <2>2. cards' \in [state : {"whole", "blank", "torn"}, list : [CardIds -> {Absent} \union Serials]]
    BY <2>1 DEF FillCardsFails, NoCards
  <2>. QED  BY <2>1, <2>2 DEF FillCardsFails
<1>. QED  BY <1>1, <1>2, <1>3, <1>4, <1>5, <1>6, <1>7, Frames DEF CardStepOf

LEMMA LoadTypes ==
    ASSUME Busy, LoadT, ItemT, FileT, [Next]_vars
    PROVE  LoadT' /\ ItemT' /\ FileT'
<1>. USE SerialFacts DEF LoadT, ItemT, FileT, Absent, InFile
<1>1. CASE UNCHANGED <<itemVars, loadVars, fileVars>>
  BY <1>1 DEF itemVars, loadVars, fileVars
<1>2. GiveUpItems => held' \in [Keys -> {Absent} \union Serials] /\ overtaken' \subseteq Threads
  BY DEF GiveUpItems, NoItems
<1>3. ASSUME NEW ok \in BOOLEAN, Load(ok)
      PROVE  LoadT' /\ items' \in [Keys -> {Absent, InFile} \union Serials]
  BY <1>3 DEF Load, Noted
<1>4. CASE FileChanges
  BY <1>2, <1>4 DEF FileChanges
<1>5. CASE \E t \in Threads : ItemStep(t)
  <2>1. PICK t \in Threads : ItemStep(t)
    BY <1>5
  <2>2. CASE ForcedLoad(t)
    BY <1>2, <1>3, <2>2 DEF ForcedLoad, fileVars
  <2>3. CASE NoteError(t) \/ ClearLoaded(t)
    BY <1>2, <2>3 DEF NoteError, ClearLoaded, fileVars
  <2>4. CASE PutConfig(t)
    <3>1. LoadT' /\ UNCHANGED <<items, changes>>
      BY <2>4 DEF PutConfig
    <3>2. file' = file \/ \E ids \in {{}, ItemIds} : file' = [ok |-> TRUE, ids |-> ids]
      BY <2>4 DEF PutConfig
    <3>3. GiveUpItems \/ UNCHANGED <<held, overtaken>>
      BY <2>4 DEF PutConfig
    <3>4. FileT'
      <4>1. ASSUME NEW ids \in {{}, ItemIds}, file' = [ok |-> TRUE, ids |-> ids]
            PROVE  file' \in [ok : BOOLEAN, ids : SUBSET ItemIds]
        <5>1. ids \in SUBSET ItemIds /\ TRUE \in BOOLEAN
          OBVIOUS
        <5>. QED  BY <4>1, <5>1
      <4>. QED  BY <3>1, <3>2, <4>1
    <3>5. held' \in [Keys -> {Absent} \union Serials] /\ overtaken' \subseteq Threads
      BY <1>2, <3>3
    <3>6. ItemT'
      BY <3>1, <3>5
    <3>. QED  BY <3>1, <3>4, <3>6
  <2>5. CASE Unload(t)
    BY <1>2, <2>5 DEF Unload, fileVars, NoItems
  <2>6. CASE EnsureLoaded(t)
    <3>1. UNCHANGED <<held, overtaken, fileVars>>
      BY <2>6 DEF EnsureLoaded
    <3>2. LoadT' /\ items' \in [Keys -> {Absent, InFile} \union Serials]
      BY <1>3, <2>6 DEF EnsureLoaded, loadVars
    <3>. QED  BY <3>1, <3>2 DEF fileVars
  <2>7. CASE StoreItem(t)
    <3>1. serial[t] \in Serials /\ UNCHANGED <<loadVars, fileVars>> /\ overtaken' = overtaken \ {t}
      BY <2>7 DEF StoreItem, At, Busy
    <3>2. UNCHANGED <<items, held>> \/ \E k : Store(t, k)
      BY <2>7 DEF StoreItem
    <3>. QED  BY <3>1, <3>2 DEF Store, loadVars, fileVars
  <2>8. CASE DeleteItem(t)
    BY <2>8 DEF DeleteItem, loadVars, fileVars
  <2>. QED  BY <2>1, <2>2, <2>3, <2>4, <2>5, <2>6, <2>7, <2>8 DEF ItemStep
<1>. QED  BY <1>1, <1>4, <1>5, Frames

LEMMA StepTypes == TInv /\ [Next]_vars => TInv'
BY BusyStep, ReqTypes, JobTypes, MsgTypes, HostTypes, PubTypes, LifeTypes, CardTypes, LoadTypes
DEF TInv

\* The variables keep their types: a log within its limit, progress within a
\* job's steps, contents that some request has brought.
THEOREM TypeCorrect == Spec => []TypeOK
<1>1. Spec => []TInv
  BY InitTypes, StepTypes, PTL DEF Spec
<1>. QED  BY <1>1, TypesOfTInv, PTL

-----------------------------------------------------------------------------
(* Where a thread is comes from what it has just done. *)

LEMMA Arrivals ==
    ASSUME Busy, [Next]_vars, NEW t \in Threads
    PROVE  /\ pc'[t] = "send"     => pc[t] = "send"     \/ ReadHostToken(t)
           /\ pc'[t] = "change"   => pc[t] = "change"   \/ EnsureLoaded(t)
           /\ pc'[t] = "truncate" => pc[t] = "truncate" \/ ReadCards(t)
           /\ pc'[t] = "fill"     => pc[t] = "fill"     \/ TruncateCards(t)
<1>1. CASE UNCHANGED <<pc, serial>>
  BY <1>1
<1>2. CASE \E u \in Threads : \E r \in Requests : Begin(u, r) /\ Goto(u, FirstStep(r.op))
  BY <1>2, FirstSteps DEF Goto, Busy
<1>3. CASE \E u \in Threads : Step(u) /\ \E l \in Labels : Moves(u, l)
  BY <1>3 DEF Moves, Goto, Busy
<1>. QED  BY <1>1, <1>2, <1>3, NextMoves

-----------------------------------------------------------------------------
(* The token fits the host. *)

\* An address was injected with the token beside it, and what a publish has seen
\* is not newer than what is there.
HostInv ==
    /\ hostAuth.url \in {0, hostAuth.token}
    /\ hostAuth.token <= injections
    /\ \A t \in Threads :
          /\ pub[t].url \in {0, pub[t].seen}
          /\ pub[t].seen <= hostAuth.token
          /\ pc[t] = "send" => pub[t].token >= pub[t].seen

LEMMA InitHost == Init => HostInv
BY DEF Init, HostInv, NoPub

LEMMA HostStep ==
    ASSUME TInv, HostInv, [Next]_vars
    PROVE  HostInv'
<1>. USE DEF TInv, Busy, HostT, PubT, HostInv
<1>1. CASE \E t \in Threads : Authorize(t)
  <2>1. PICK t \in Threads : Authorize(t)
    BY <1>1
  <2>2. /\ hostAuth'.token = injections + 1 /\ injections' = injections + 1
        /\ hostAuth'.url \in {0, injections + 1}
        /\ UNCHANGED pub
        /\ pc' = [pc EXCEPT ![t] = "answer"]
    BY <2>1 DEF Authorize, Injected, Goto
  <2>. QED  BY <2>2
<1>2. CASE \E t \in Threads : ReadHostURL(t)
  <2>1. PICK t \in Threads : ReadHostURL(t)
    BY <1>2
  <2>2. /\ pub' = [pub EXCEPT ![t] = [url |-> hostAuth.url, token |-> pub[t].token,
                                      seen |-> hostAuth.token]]
        /\ UNCHANGED <<hostAuth, injections>>
        /\ \E l \in {"readToken", "answer"} : pc' = [pc EXCEPT ![t] = l]
    BY <2>1 DEF ReadHostURL, hostVars, Goto
  <2>. QED  BY <2>2
<1>3. CASE \E t \in Threads : ReadHostToken(t)
  <2>1. PICK t \in Threads : ReadHostToken(t)
    BY <1>3
  <2>2. /\ pub' = [pub EXCEPT ![t].token = hostAuth.token]
        /\ UNCHANGED <<hostAuth, injections>>
        /\ \E l \in {"send", "answer"} : pc' = [pc EXCEPT ![t] = l]
    BY <2>1 DEF ReadHostToken, hostVars, Goto
  <2>. QED  BY <2>2
<1>4. CASE \E t \in Threads : Return(t)
  <2>1. PICK t \in Threads : Return(t)
    BY <1>4
  <2>2. /\ pub' = [pub EXCEPT ![t] = NoPub]
        /\ UNCHANGED <<hostAuth, injections>>
        /\ pc' = [pc EXCEPT ![t] = "idle"]
    BY <2>1 DEF Return, hostVars, Goto
  <2>. QED  BY <2>2 DEF NoPub
<1>5. CASE UNCHANGED <<hostVars, pub>> /\ ~\E t \in Threads : ReadHostToken(t)
  BY <1>5, Arrivals DEF hostVars
<1>6. UNCHANGED hostVars \/ \E t \in Threads : Authorize(t)
  BY Frames
<1>7. UNCHANGED pub \/ \E t \in Threads : ReadHostURL(t) \/ ReadHostToken(t) \/ Return(t)
  BY Frames
<1>. QED  BY <1>1, <1>2, <1>3, <1>4, <1>5, <1>6, <1>7

\* A publish never sends a token older than the address it goes to.
THEOREM TokensFit == Spec => []TokenFitsHost
<1>1. Spec => [](TInv /\ HostInv)
  BY InitTypes, InitHost, StepTypes, HostStep, PTL DEF Spec
<1>2. HostInv => TokenFitsHost
  BY DEF HostInv, TokenFitsHost
<1>. QED  BY <1>1, <1>2, PTL

-----------------------------------------------------------------------------
(* Jobs *)

\* The record of a job is there while its goroutine works, and the goroutines
\* that share one are known.
JobInv ==
    /\ JobsStay
    /\ \A r \in Serials : workers[r].id # 0 => jobs[workers[r].id] # Absent
    /\ \A r, q \in Serials :
          r # q /\ workers[r].id = workers[q].id /\ workers[r].id # 0 => workers[r].id \in twins

LEMMA InitJobs == Init => JobInv
BY DEF Init, JobInv, JobsStay, NoWorker

LEMMA JobStep ==
    ASSUME TInv, JobInv, [Next]_vars
    PROVE  JobInv'
<1>. USE SerialFacts, BoundFacts DEF TInv, JobT, JobInv, JobsStay, Absent
<1>1. CASE UNCHANGED jobVars
  BY <1>1 DEF jobVars
<1>2. CASE \E t \in Threads : StartJob(t)
  <2>1. PICK t \in Threads : StartJob(t)
    BY <1>2
  <2>2. PICK n \in Serials :
           /\ jobs' = [jobs EXCEPT ![n] = 1]
           /\ twins' = IF jobs[n] = Absent THEN twins ELSE twins \union {n}
           /\ workers' = [workers EXCEPT ![serial[t]] = [id |-> n, done |-> 0]]
    BY <2>1 DEF StartJob, NextId
  <2>3. ASSUME NEW r \in Serials, workers'[r].id # 0
        PROVE  \/ workers'[r] = workers[r] /\ r # serial[t]
               \/ r = serial[t] /\ workers'[r] = [id |-> n, done |-> 0]
    BY <2>2
  <2>4. ASSUME NEW r \in Serials, workers[r].id = n
        PROVE  n \in twins'
    BY <2>2, <2>4
  <2>5. n # 0
    OBVIOUS
  <2>6. JobsStay'
    BY <2>2, <2>3, <2>4, <2>5
  <2>7. ASSUME NEW r \in Serials, workers'[r].id # 0
        PROVE  jobs'[workers'[r].id] # Absent
    BY <2>2, <2>3, <2>5, <2>7
  <2>8. ASSUME NEW r \in Serials, NEW q \in Serials, r # q,
               workers'[r].id = workers'[q].id, workers'[r].id # 0
        PROVE  workers'[r].id \in twins'
    BY <2>2, <2>3, <2>4, <2>8
  <2>. QED  BY <2>6, <2>7, <2>8
<1>3. CASE \E r \in Serials : RunJob(r)
  <2>1. PICK r \in Serials : RunJob(r)
    BY <1>3
  <2>2. /\ workers[r].id # 0
        /\ workers' = [workers EXCEPT ![r].done = @ + 1]
        /\ jobs' = [jobs EXCEPT ![workers[r].id] = workers[r].done + 2]
        /\ twins' = twins
    BY <2>1 DEF RunJob
  <2>3. \A q \in Serials : workers'[q].id = workers[q].id
    BY <2>2
  <2>4. \A q \in Serials :
           workers'[q].done = IF q = r THEN workers[q].done + 1 ELSE workers[q].done
    BY <2>2
  <2>5. JobsStay'
    BY <2>2, <2>3, <2>4
  <2>. QED  BY <2>2, <2>3, <2>5
<1>4. CASE \E t \in Threads : StoreItem(t)
  BY <1>1, <1>4 DEF StoreItem
<1>. QED  BY <1>1, <1>2, <1>3, <1>4, Frames

-----------------------------------------------------------------------------
(* Messages *)

LEMMA LastAppend ==
    ASSUME NEW S, NEW s \in Seq(S), NEW x \in S, NEW n \in Nat \ {0}
    PROVE  Last(Append(Last(s, n), x), n) = Last(Append(s, x), n)
<1>1. CASE Len(s) <= n
  BY <1>1 DEF Last
<1>2. CASE ~(Len(s) <= n)
  <2>. DEFINE u == SubSeq(s, Len(s) - n + 1, Len(s))
  <2>1. Last(s, n) = u
    BY <1>2 DEF Last
  <2>2. u \in Seq(S) /\ Len(u) = n /\ \A i \in 1 .. n : u[i] = s[Len(s) - n + i]
    BY <1>2, SubSeqProperties
  <2>3. Len(Append(u, x)) = n + 1 /\ Len(Append(s, x)) = Len(s) + 1
    BY <2>2
  <2>4. Last(Append(u, x), n) = SubSeq(Append(u, x), 2, n + 1)
    BY <2>3 DEF Last
  <2>5. Last(Append(s, x), n) = SubSeq(Append(s, x), Len(s) - n + 2, Len(s) + 1)
    BY <1>2, <2>3 DEF Last
  <2>6. SubSeq(Append(u, x), 2, n + 1) = SubSeq(Append(s, x), Len(s) - n + 2, Len(s) + 1)
    <3>. DEFINE v == SubSeq(Append(u, x), 2, n + 1)
                w == SubSeq(Append(s, x), Len(s) - n + 2, Len(s) + 1)
    <3>1. v \in Seq(S) /\ Len(v) = n /\ \A i \in 1 .. n : v[i] = Append(u, x)[i + 1]
      BY <2>2, <2>3, SubSeqProperties
    <3>2. w \in Seq(S) /\ Len(w) = n /\ \A i \in 1 .. n : w[i] = Append(s, x)[Len(s) - n + 1 + i]
      BY <1>2, <2>3, SubSeqProperties
    <3>3. \A i \in 1 .. n : v[i] = w[i]
      <4>1. SUFFICES ASSUME NEW i \in 1 .. n PROVE v[i] = w[i]
        OBVIOUS
      <4>2. v[i] = Append(u, x)[i + 1] /\ w[i] = Append(s, x)[Len(s) - n + 1 + i]
        BY <3>1, <3>2
      <4>3. CASE i = n
        <5>1. Append(u, x)[n + 1] = x /\ Append(s, x)[Len(s) + 1] = x
          BY <2>2, AppendProperties
        <5>2. Len(s) - n + 1 + n = Len(s) + 1
          OBVIOUS
        <5>. HIDE DEF u, v, w
        <5>. QED  BY <4>2, <4>3, <5>1, <5>2
      <4>4. CASE i # n
        <5>1. i + 1 \in 1 .. n /\ Len(s) - n + 1 + i \in 1 .. Len(s)
          BY <1>2, <4>4
        <5>2. Append(u, x)[i + 1] = u[i + 1]
          BY <2>2, <5>1, AppendProperties
        <5>3. Append(s, x)[Len(s) - n + 1 + i] = s[Len(s) - n + 1 + i]
          BY <5>1, AppendProperties
        <5>4. u[i + 1] = s[Len(s) - n + (i + 1)]
          BY <2>2, <5>1
        <5>5. Len(s) - n + (i + 1) = Len(s) - n + 1 + i
          OBVIOUS
        <5>. HIDE DEF u, v, w
        <5>. QED  BY <4>2, <5>2, <5>3, <5>4, <5>5
      <4>. QED  BY <4>3, <4>4
    <3>. QED  BY <3>1, <3>2, <3>3, SeqEqual
  <2>. QED  BY <2>1, <2>4, <2>5, <2>6
<1>. QED  BY <1>1, <1>2

LEMMA InitMessages == Init => MessagesStay
BY BoundFacts DEF Init, MessagesStay, Last

LEMMA MessageStep ==
    ASSUME TInv, MessagesStay, [Next]_vars
    PROVE  MessagesStay'
<1>1. CASE UNCHANGED msgVars
  BY <1>1 DEF msgVars, MessagesStay, Last
<1>2. CASE \E t \in Threads : ReceiveMessage(t)
  <2>1. PICK t \in Threads : ReceiveMessage(t)
    BY <1>2
  <2>2. serial[t] \in Serials /\ arrived \in Seq(Serials)
    BY <2>1 DEF ReceiveMessage, At, TInv, Busy, MsgT
  <2>. QED  BY <2>1, <2>2, LastAppend, BoundFacts DEF ReceiveMessage, MessagesStay
<1>3. CASE \E t \in Threads : ClearMessages(t)
  BY <1>3, BoundFacts DEF ClearMessages, MessagesStay, Last
<1>. QED  BY <1>1, <1>2, <1>3, Frames

-----------------------------------------------------------------------------
(* Skill cards *)

\* As long as two updates have not met and no write has failed, one thread at most is
\* between its read and its write, and what it is about to write differs from what is
\* acknowledged in what it was asked.
CardInv ==
    ~clash /\ ~cut =>
        /\ \A t, u \in Threads : Updating(t) /\ Updating(u) => t = u
        /\ \A t \in Threads : Updating(t) =>
              view[t] = [kept EXCEPT ![req[t].key] = IF Op(t) = "card" THEN serial[t] ELSE Absent]
        /\ (\A t \in Threads : pc[t] # "fill") => cards = [state |-> "whole", list |-> kept]
        /\ (\E t \in Threads : pc[t] = "fill") => cards.state = "blank"

LEMMA InitCards == Init => CardInv
BY DEF Init, CardInv, Updating

LEMMA CardsStayByInv == CardInv => CardsStay
BY DEF CardInv, CardsStay

\* A step that leaves the cards alone leaves the updates where they are.
LEMMA CardsLeft ==
    ASSUME TInv, CardInv, [Next]_vars, UNCHANGED cardVars,
           \A t \in Threads : Updating(t)' <=> Updating(t),
           \A t \in Threads : (pc'[t] = "fill") <=> (pc[t] = "fill"),
           \A t \in Threads : Updating(t) => req'[t] = req[t] /\ serial'[t] = serial[t]
    PROVE  CardInv'
BY DEF CardInv, Updating, cardVars, Op

LEMMA CardStep ==
    ASSUME TInv, CardInv, [Next]_vars
    PROVE  CardInv'
<1>. SUFFICES ASSUME ~clash', ~cut' PROVE CardInv'
  BY DEF CardInv
<1>. USE DEF TInv, Busy, CardT
<1>1. CASE \E t \in Threads : ReadCards(t)
  <2>1. PICK t \in Threads : ReadCards(t)
    BY <1>1
  <2>2. pc[t] = "readCards" /\ UNCHANGED <<cards, kept, cut, req, serial>>
    BY <2>1 DEF ReadCards, At, reqVars
  <2>3. CASE Goto(t, "answer") /\ UNCHANGED <<view, clash>>
    BY <2>2, <2>3 DEF CardInv, Updating, Goto, Op
  <2>4. CASE ~(Goto(t, "answer") /\ UNCHANGED <<view, clash>>)
    <3>1. /\ cards.state = "whole"
          /\ view' = [view EXCEPT ![t] = [cards.list EXCEPT ![req[t].key] =
                          IF Op(t) = "card" THEN serial[t] ELSE Absent]]
          /\ clash' = (clash \/ Meets(t))
          /\ Goto(t, "truncate")
      BY <2>1, <2>4 DEF ReadCards
    <3>2. ~clash /\ ~cut /\ ~Meets(t)
      BY <2>2, <3>1
    <3>3. \A u \in Threads : ~Updating(u)
      BY <2>2, <3>2 DEF Meets, Updating
    <3>4. cards = [state |-> "whole", list |-> kept]
      BY <3>2, <3>3 DEF CardInv, Updating
    <3>5. \A u \in Threads : Updating(u)' => u = t
      BY <3>1, <3>3 DEF Goto, Updating
    <3>6. view'[t] = [kept EXCEPT ![req[t].key] = IF Op(t) = "card" THEN serial[t] ELSE Absent]
      BY <3>1, <3>4
    <3>7. \A u \in Threads : pc'[u] # "fill"
      BY <3>1, <3>3 DEF Goto, Updating
    <3>. QED  BY <2>2, <3>4, <3>5, <3>6, <3>7 DEF CardInv, Op
  <2>. QED  BY <2>3, <2>4
<1>2. CASE \E t \in Threads : TruncateCards(t)
  <2>1. PICK t \in Threads : TruncateCards(t)
    BY <1>2
  <2>2. /\ pc[t] = "truncate" /\ pc' = [pc EXCEPT ![t] = "fill"]
        /\ cards' = [state |-> "blank", list |-> NoCards]
        /\ UNCHANGED <<view, kept, clash, cut, req, serial>>
    BY <2>1 DEF TruncateCards, At, Goto, reqVars
  <2>3. \A u \in Threads : Updating(u)' <=> Updating(u)
    BY <2>2 DEF Updating
  <2>4. pc'[t] = "fill" /\ cards'.state = "blank"
    BY <2>2
  <2>. QED  BY <2>2, <2>3, <2>4 DEF CardInv, Op
<1>3. CASE \E t \in Threads : FillCards(t)
  <2>1. PICK t \in Threads : FillCards(t)
    BY <1>3
  <2>2. /\ pc[t] = "fill" /\ pc' = [pc EXCEPT ![t] = "answer"]
        /\ kept' = [kept EXCEPT ![req[t].key] = IF Op(t) = "card" THEN serial[t] ELSE Absent]
        /\ UNCHANGED <<view, clash, cut, req, serial>>
        /\ \/ cards' = [state |-> "whole", list |-> view[t]]
           \/ cards.state # "blank"
    BY <2>1 DEF FillCards, At, Goto, reqVars
  <2>3. Updating(t) /\ ~clash /\ ~cut
    BY <2>2 DEF Updating
  <2>4. cards' = [state |-> "whole", list |-> kept']
    BY <2>2, <2>3 DEF CardInv
  <2>5. \A u \in Threads : ~Updating(u)'
    BY <2>2, <2>3 DEF CardInv, Updating
  <2>6. \A u \in Threads : pc'[u] # "fill"
    BY <2>5 DEF Updating
  <2>. QED  BY <2>4, <2>5, <2>6 DEF CardInv
<1>4. CASE \E t \in Threads : Return(t)
  <2>1. PICK t \in Threads : Return(t)
    BY <1>4
  <2>2. /\ pc[t] = "return" /\ pc' = [pc EXCEPT ![t] = "idle"]
        /\ view' = [view EXCEPT ![t] = NoCards]
        /\ req' = [req EXCEPT ![t] = NoRequest]
        /\ serial' = [serial EXCEPT ![t] = 0]
        /\ UNCHANGED <<cards, kept, clash, cut>>
    BY <2>1 DEF Return, At, Goto
  <2>3. \A u \in Threads : /\ Updating(u)' <=> Updating(u)
                           /\ (pc'[u] = "fill") <=> (pc[u] = "fill")
                           /\ Updating(u) => u # t
    BY <2>2 DEF Updating
  <2>4. req \in [Threads -> Request]
    BY DEF ReqT
  <2>5. \A u \in Threads : Updating(u) => view'[u] = view[u] /\ Op(u)' = Op(u)
                               /\ req'[u].key = req[u].key /\ serial'[u] = serial[u]
    BY <2>2, <2>3, <2>4 DEF Op
  <2>. QED  BY <2>2, <2>3, <2>5 DEF CardInv
<1>5. CASE /\ UNCHANGED cardVars
           /\ ~\E t \in Threads : CardStepOf(t) \/ Return(t)
  <2>1. \A t \in Threads : /\ pc'[t] = "truncate" => pc[t] = "truncate"
                           /\ pc'[t] = "fill" => pc[t] = "fill"
    BY <1>5, Arrivals DEF CardStepOf
  <2>2. \A t \in Threads : Updating(t) =>
           pc'[t] = pc[t] /\ req'[t] = req[t] /\ serial'[t] = serial[t]
    <3>1. CASE UNCHANGED <<pc, reqVars>>
      BY <3>1 DEF reqVars
    <3>2. CASE \E u \in Threads : \E r \in Requests : Begin(u, r)
      BY <3>2 DEF Begin, At, Goto, ReqT, Updating
    <3>3. CASE \E u \in Threads : Step(u)
      <4>1. PICK u \in Threads : Step(u)
        BY <3>3
      <4>2. UNCHANGED reqVars /\ pc[u] \notin {"truncate", "fill"}
        BY <1>5, <4>1, StepKeeps, OtherSteps
      <4>3. \E l : Goto(u, l)
        BY <4>1, StepMoves DEF Moves
      <4>. QED  BY <4>2, <4>3 DEF Goto, Updating, reqVars
    <3>. QED  BY <3>1, <3>2, <3>3, OwnSteps
  <2>. QED  BY <1>5, <2>1, <2>2, CardsLeft DEF Updating
<1>6. CASE \E t \in Threads : OpenCardsFails(t)
  <2>1. PICK t \in Threads : OpenCardsFails(t)
    BY <1>6
  <2>2. /\ pc[t] = "truncate" /\ pc' = [pc EXCEPT ![t] = "answer"]
        /\ UNCHANGED <<cards, view, kept, clash, cut, req, serial>>
    BY <2>1 DEF OpenCardsFails, At, Goto, reqVars, cardVars
  <2>3. \A u \in Threads : /\ Updating(u)' => Updating(u)
                           /\ (pc'[u] = "fill") <=> (pc[u] = "fill")
    BY <2>2 DEF Updating
  <2>. QED  BY <2>2, <2>3 DEF CardInv, Op
<1>7. CASE \E t \in Threads : FillCardsFails(t)
  BY <1>7 DEF FillCardsFails
<1>. QED  BY <1>1, <1>2, <1>3, <1>4, <1>5, <1>6, <1>7, Frames DEF CardStepOf

-----------------------------------------------------------------------------
(* Items *)

Settled == loaded /\ ~loadErr /\ ~fresh

\* Where the next ensureLoaded would read the file, nothing is owed, and what a
\* request is about to store will not be read over unless it was overtaken.
ItemInv ==
    /\ ItemsStay
    /\ ~Settled => \A k \in Keys : held[k] = Absent
    /\ \A t \in Threads : pc[t] = "change" /\ t \notin overtaken => Settled

LEMMA InitItems == Init => ItemInv
BY DEF Init, ItemInv, ItemsStay, NoItems, Absent

LEMMA GivenUp ==
    ASSUME TInv, [Next]_vars, GiveUpItems, ~\E t \in Threads : EnsureLoaded(t)
    PROVE  ItemInv'
<1>1. \A k \in Keys : held'[k] = Absent
  BY DEF GiveUpItems, NoItems
<1>2. \A t \in Threads : pc'[t] = "change" => t \in overtaken'
  BY Arrivals DEF GiveUpItems, TInv
<1>. QED  BY <1>1, <1>2 DEF ItemInv, ItemsStay

\* What is owed of one item is there, whatever is stored.
LEMMA StoreStep ==
    ASSUME TInv, ItemInv, NEW t \in Threads, NEW k, pc[t] = "change",
           ~Refused(Op(t), k), Store(t, k)
    PROVE  /\ ItemsStay'
           /\ ~Settled => \A j \in Keys : held'[j] = Absent
<1>. USE DEF TInv, ItemT, ItemInv, ItemsStay
<1>1. ASSUME NEW j \in Keys, j # k PROVE items'[j] = items[j] /\ held'[j] = held[j]
  BY <1>1 DEF Store
<1>2. ASSUME k \in Keys
      PROVE  /\ items'[k] = serial[t]
             /\ held'[k] = IF t \in overtaken THEN Absent
                           ELSE IF Op(t) = "create" /\ held[k] # Absent THEN held[k]
                           ELSE serial[t]
  BY <1>2 DEF Store
<1>3. ASSUME k \in Keys PROVE ~(Op(t) = "create" /\ held[k] # Absent)
  BY <1>3 DEF Refused
<1>4. ItemsStay'
  BY <1>1, <1>2, <1>3
<1>5. ~Settled => \A j \in Keys : held'[j] = Absent
  BY <1>1, <1>2
<1>. QED  BY <1>4, <1>5

LEMMA ItemStepKeeps ==
    ASSUME TInv, ItemInv, [Next]_vars
    PROVE  ItemInv'
<1>. USE DEF TInv, ItemT
<1>1. CASE UNCHANGED <<itemVars, loadVars, fileVars>> /\ ~\E t \in Threads : EnsureLoaded(t)
  BY <1>1, Arrivals DEF ItemInv, ItemsStay, Settled, itemVars, loadVars
<1>2. CASE GiveUpItems /\ ~\E t \in Threads : EnsureLoaded(t)
  BY <1>2, GivenUp
<1>3. CASE \E t \in Threads : EnsureLoaded(t)
  <2>1. PICK t \in Threads : EnsureLoaded(t)
    BY <1>3
  <2>2. /\ pc[t] = "ensure" /\ UNCHANGED <<held, overtaken>>
        /\ \E l \in {"change", "answer"} : pc' = [pc EXCEPT ![t] = l]
    BY <2>1 DEF EnsureLoaded, At, Goto
  <2>3. CASE UNCHANGED <<loadVars, items>> /\ Settled
    BY <2>2, <2>3 DEF Busy, ItemInv, ItemsStay, Settled, loadVars
  <2>4. CASE ~Settled
    <3>1. \A k \in Keys : held'[k] = Absent
      BY <2>2, <2>4 DEF ItemInv
    <3>2. \A u \in Threads : pc'[u] = "change" /\ u \notin overtaken' => u = t
      BY <2>2, <2>4 DEF Busy, ItemInv
    <3>3. pc'[t] = "change" => Settled'
      BY <2>1, <2>2, <2>4 DEF EnsureLoaded, Load, Noted, Settled, Goto, Busy
    <3>. QED  BY <3>1, <3>2, <3>3 DEF ItemInv, ItemsStay
  <2>. QED  BY <2>1, <2>3, <2>4 DEF EnsureLoaded, Settled
<1>4. CASE \E t \in Threads : StoreItem(t)
  <2>1. PICK t \in Threads : StoreItem(t)
    BY <1>4
  <2>2. /\ pc[t] = "change" /\ pc' = [pc EXCEPT ![t] = "answer"]
        /\ overtaken' = overtaken \ {t} /\ UNCHANGED loadVars
    BY <2>1 DEF StoreItem, At, Goto
  <2>3. UNCHANGED <<items, held>> \/ \E k : ~Refused(Op(t), k) /\ Store(t, k)
    BY <2>1 DEF StoreItem
  <2>4. ItemsStay' /\ (~Settled => \A k \in Keys : held'[k] = Absent)
    BY <2>2, <2>3, StoreStep DEF ItemInv, ItemsStay
  <2>. QED  BY <2>2, <2>4 DEF Busy, ItemInv, Settled, loadVars
<1>5. CASE \E t \in Threads : DeleteItem(t)
  <2>1. PICK t \in Threads : DeleteItem(t)
    BY <1>5
  <2>2. /\ pc[t] = "change" /\ pc' = [pc EXCEPT ![t] = "answer"]
        /\ overtaken' = overtaken \ {t} /\ UNCHANGED loadVars
        /\ items' = [items EXCEPT ![req[t].key] = Absent]
        /\ held' = [held EXCEPT ![req[t].key] = Absent]
    BY <2>1 DEF DeleteItem, At, Goto
  <2>3. ItemsStay' /\ (~Settled => \A k \in Keys : held'[k] = Absent)
    BY <2>2 DEF ItemInv, ItemsStay
  <2>. QED  BY <2>2, <2>3 DEF Busy, ItemInv, Settled, loadVars
<1>6. ASSUME NEW t \in Threads, PutConfig(t)
      PROVE  GiveUpItems \/ UNCHANGED <<itemVars, loadVars, fileVars>>
  BY <1>6 DEF PutConfig, itemVars, loadVars, fileVars
<1>7. ASSUME NEW t \in Threads, ItemStep(t)
      PROVE  \/ GiveUpItems \/ UNCHANGED <<itemVars, loadVars, fileVars>>
             \/ EnsureLoaded(t) \/ StoreItem(t) \/ DeleteItem(t)
  BY <1>6, <1>7 DEF ItemStep, ForcedLoad, NoteError, ClearLoaded, Unload
<1>8. FileChanges => GiveUpItems
  BY DEF FileChanges
<1>. QED  BY <1>1, <1>2, <1>3, <1>4, <1>5, <1>7, <1>8, Frames

-----------------------------------------------------------------------------
(* All that was acknowledged *)

\* What a request has been told is there stays there, until one of the events named
\* at AcknowledgedStays: items, jobs, messages and skill cards.
THEOREM Acknowledged == Spec => []AcknowledgedStays
<1>. DEFINE IInv == TInv /\ JobInv /\ MessagesStay /\ CardInv /\ ItemInv
<1>1. Init => IInv
  BY InitTypes, InitJobs, InitMessages, InitCards, InitItems
<1>2. IInv /\ [Next]_vars => IInv'
  BY StepTypes, JobStep, MessageStep, CardStep, ItemStepKeeps
<1>3. IInv => AcknowledgedStays
  BY CardsStayByInv DEF AcknowledgedStays, JobInv, ItemInv
<1>. QED  BY <1>1, <1>2, <1>3, PTL DEF Spec
=============================================================================
