-------------------------- MODULE StdioAuthProofs --------------------------
(***************************************************************************)
(* Proofs about StdioAuth, for every set of callers and every bound.       *)
(***************************************************************************)
EXTENDS StdioAuth, TLAPS

\* Each caller's last id is its own; a call has one exactly from registration on.
OwnIds ==
    /\ \A c, d \in Callers : cid[c] # 0 /\ cid[c] = cid[d] => c = d
    /\ \A c \in Callers : pc[c] \in Registered => cid[c] # 0
    /\ \A c \in Callers : pc[c] = "register" => cid[c] = 0

\* A registered channel is untouched, one in the reader's hands is unregistered,
\* and one that holds a reply is closed as soon as the reader has moved on.
ChannelState ==
    /\ \A id \in pending : id \notin closed /\ buf[id] = Empty
    /\ reader.at \in {"send", "close"} => reader.id \notin pending
    /\ \A id \in 1 .. nextID : buf[id] # Empty =>
          id \in closed \/ (reader.at = "close" /\ reader.id = id)

ReaderAlive == enabled <=> reader.at # "exited"

\* Every "grant" on its way to a caller was said by the host for that id.
GrantsAreHonest ==
    /\ reader.at = "send" /\ reader.verdict = "grant" => reader.id \in granted
    /\ \A id \in 1 .. nextID : buf[id] = "grant" => id \in granted

\* A call has no result before it decides, and one when it returns.
NoEarlyResult ==
    \A c \in Callers :
        /\ pc[c] \in Registered \union {"register", "http"} => ret[c] = "none"
        /\ pc[c] = "return" => ret[c] # "none"

IInv ==
    /\ TypeOK
    /\ OwnIds
    /\ ChannelState
    /\ ReaderAlive
    /\ GrantsAreHonest
    /\ NoEarlyResult
    /\ PendingOwned
    /\ ReaderNeverStuck
    /\ WaiterReachable
    /\ DisabledDrained
    /\ AcceptedByHost


\* The client starts in the invariant, with the stdio channel enabled or not.
LEMMA InitInv == Init => IInv
  BY DEF Init, IInv, TypeOK, OwnIds, ChannelState, ReaderAlive, GrantsAreHonest,
         NoEarlyResult, PendingOwned, ReaderNeverStuck, WaiterReachable,
         DisabledDrained, AcceptedByHost, NoReply, Verdicts, Labels, Results,
         Empty, Registered

-----------------------------------------------------------------------------

\* A call outside the registered labels has nothing in the pending map.
LEMMA UnregisteredOwnsNothing ==
  ASSUME IInv, NEW c \in Callers, pc[c] \notin Registered
  PROVE  cid[c] \notin pending
  <1> SUFFICES ASSUME cid[c] \in pending PROVE FALSE
    OBVIOUS
  <1>1. PICK d \in Callers : pc[d] \in Registered /\ cid[d] = cid[c]
    BY DEF IInv, PendingOwned
  <1>2. cid[d] # 0
    BY <1>1 DEF IInv, OwnIds
  <1> QED
    BY <1>1, <1>2 DEF IInv, OwnIds

\* A call that stops waiting for its channel, with or without a result, and
\* takes what it left in the map or in the channel with it.
LEMMA LeaveKeepsInv ==
  ASSUME IInv, NEW c \in Callers, NEW label \in {"http", "return"}, NEW r \in Results,
         pc' = [pc EXCEPT ![c] = label],
         ret' = [ret EXCEPT ![c] = r],
         label = "http" <=> r = "none",
         r = "stdio" => cid[c] \in granted,
         pending' \in {pending, pending \ {cid[c]}},
         cid[c] \notin pending',
         buf' \in {buf, [buf EXCEPT ![cid[c]] = Empty]},
         UNCHANGED <<enabled, nextID, closed, reader, writeMu, cid, sent, granted>>
  PROVE  IInv'
  <1>0. TypeOK
    BY DEF IInv
  <1>1. TypeOK'
    <2>1. pc' \in [Callers -> Labels] /\ ret' \in [Callers -> Results]
      BY <1>0 DEF TypeOK, Labels
    <2>2. buf' \in [1 .. nextID -> Verdicts \union {Empty}]
      BY <1>0 DEF TypeOK
    <2> QED
      BY <1>0, <2>1, <2>2 DEF TypeOK
  <1>2. /\ pc'[c] = label /\ ret'[c] = r
        /\ \A d \in Callers \ {c} : pc'[d] = pc[d] /\ ret'[d] = ret[d]
        /\ \A id \in 1 .. nextID : buf'[id] = buf[id] \/ buf'[id] = Empty
        /\ \A id \in 1 .. nextID : id # cid[c] => buf'[id] = buf[id]
        /\ pending' \subseteq pending /\ pending \subseteq 1 .. nextID
    BY <1>0 DEF TypeOK
  <1>3. \A d \in Callers \ {c} : pc[d] \in Registered =>
            cid[d] # cid[c] /\ cid[d] \in 1 .. nextID
    <2>1. \A d \in Callers : cid[d] \in 0 .. nextID /\ nextID \in Nat
      BY <1>0 DEF TypeOK
    <2> QED
      BY <2>1 DEF IInv, OwnIds
  <1>4. OwnIds'
    BY <1>2 DEF IInv, OwnIds, Registered
  <1>5. ChannelState' /\ ReaderAlive'
    BY <1>2 DEF IInv, ChannelState, ReaderAlive
  <1>6. GrantsAreHonest'
    BY <1>2 DEF IInv, GrantsAreHonest, Empty
  <1>7. NoEarlyResult'
    BY <1>2 DEF IInv, NoEarlyResult, Registered
  <1>8. PendingOwned'
    <2> SUFFICES ASSUME NEW id \in pending'
                 PROVE  \E d \in Callers : pc'[d] \in Registered /\ cid'[d] = id
      BY DEF PendingOwned
    <2>1. PICK d \in Callers : pc[d] \in Registered /\ cid[d] = id
      BY <1>2 DEF IInv, PendingOwned
    <2>2. d # c
      BY <2>1
    <2> QED
      BY <2>1, <2>2, <1>2
  <1>9. ReaderNeverStuck'
    BY <1>0, <1>2 DEF IInv, ReaderNeverStuck, TypeOK
  <1>10. WaiterReachable'
    <2> SUFFICES ASSUME NEW d \in Callers, pc'[d] \in Registered \ {"abandon"}
                 PROVE  \/ cid[d] \in pending' \union closed
                        \/ buf'[cid[d]] # Empty
                        \/ reader.at = "send" /\ reader.id = cid[d]
      BY DEF WaiterReachable
    <2>1. d # c
      BY <1>2 DEF Registered
    <2>2. pc[d] \in Registered \ {"abandon"} /\ cid[d] # cid[c]
          /\ buf'[cid[d]] = buf[cid[d]]
      BY <2>1, <1>2, <1>3
    <2>3. cid[d] \in pending => cid[d] \in pending'
      BY <2>2
    <2> QED
      BY <2>2, <2>3 DEF IInv, WaiterReachable
  <1>11. DisabledDrained'
    BY <1>2 DEF IInv, DisabledDrained, Registered
  <1>12. AcceptedByHost'
    BY <1>2 DEF IInv, AcceptedByHost
  <1> QED
    BY <1>1, <1>4, <1>5, <1>6, <1>7, <1>8, <1>9, <1>10, <1>11, <1>12 DEF IInv

\* A call that gives up settles on "http" with nothing, or on "refused".
LEMMA GiveUpEffect ==
  ASSUME IInv, NEW c \in Callers, pc[c] \in Registered \union {"register"}, GiveUp(c)
  PROVE  \E label \in {"http", "return"}, r \in {"none", "refused"} :
            /\ pc' = [pc EXCEPT ![c] = label]
            /\ ret' = [ret EXCEPT ![c] = r]
            /\ label = "http" <=> r = "none"
  <1>1. ret[c] = "none" /\ ret = [ret EXCEPT ![c] = "none"]
    BY DEF IInv, TypeOK, NoEarlyResult
  <1> QED
    BY <1>1 DEF GiveUp, Goto

\* A call that gives up, by a timeout, a failed write or a closed channel, and
\* takes its registration back with it, keeps the invariant.
LEMMA GiveUpKeepsInv ==
  ASSUME IInv, NEW c \in Callers, pc[c] \in Registered \union {"register"}, GiveUp(c),
         pending' \in {pending, pending \ {cid[c]}},
         cid[c] \notin pending',
         buf' \in {buf, [buf EXCEPT ![cid[c]] = Empty]},
         UNCHANGED <<enabled, nextID, closed, reader, writeMu, cid, sent, granted>>
  PROVE  IInv'
  <1>1. PICK label \in {"http", "return"}, r \in {"none", "refused"} :
            /\ pc' = [pc EXCEPT ![c] = label]
            /\ ret' = [ret EXCEPT ![c] = r]
            /\ label = "http" <=> r = "none"
    BY GiveUpEffect
  <1>2. r \in Results /\ r # "stdio"
    BY DEF Results
  <1> QED
    BY <1>1, <1>2, LeaveKeepsInv

\* A call that moves without touching a channel, and that is registered after
\* the step exactly if it was before.
LEMMA MoveKeepsInv ==
  ASSUME IInv, NEW c \in Callers, NEW label \in Labels,
         pc' = [pc EXCEPT ![c] = label],
         cid' \in {cid, [cid EXCEPT ![c] = 0]}, ret' \in [Callers -> Results],
         \A d \in Callers \ {c} : ret'[d] = ret[d],
         label \in Registered <=> pc[c] \in Registered,
         label \in Registered => cid' = cid /\ (pc[c] = "abandon" => label = "abandon"),
         label = "register" => cid' = [cid EXCEPT ![c] = 0],
         label \in Registered \union {"register", "http"} => ret'[c] = "none",
         label = "return" => ret'[c] # "none",
         ret'[c] = "stdio" => cid' = cid /\ ret' = ret,
         sent' \in {sent, sent \union {cid[c]}},
         label \notin Registered => sent' = sent,
         writeMu' \subseteq Callers,
         UNCHANGED <<enabled, nextID, pending, buf, closed, reader, granted>>
  PROVE  IInv'
  <1>0. TypeOK
    BY DEF IInv
  <1>1. /\ pc'[c] = label
        /\ \A d \in Callers \ {c} : pc'[d] = pc[d] /\ cid'[d] = cid[d]
        /\ cid'[c] \in {0, cid[c]}
        /\ cid'[c] # cid[c] => pc'[c] \notin Registered
        /\ label = "register" => cid'[c] = 0
    BY <1>0 DEF TypeOK
  <1>2. TypeOK'
    <2>1. pc' \in [Callers -> Labels] /\ cid' \in [Callers -> 0 .. nextID]
      BY <1>0 DEF TypeOK
    <2>2. label \in Registered => cid[c] \in 1 .. nextID
      BY <1>0 DEF TypeOK, IInv, OwnIds
    <2>3. sent' \subseteq 1 .. nextID /\ granted \subseteq sent'
      BY <1>0, <2>2 DEF TypeOK
    <2> QED
      BY <1>0, <2>1, <2>3 DEF TypeOK
  <1>3. OwnIds'
    BY <1>1 DEF IInv, OwnIds
  <1>4. ChannelState' /\ ReaderAlive' /\ ReaderNeverStuck'
    BY DEF IInv, ChannelState, ReaderAlive, ReaderNeverStuck
  <1>5. GrantsAreHonest'
    BY DEF IInv, GrantsAreHonest
  <1>6. NoEarlyResult'
    BY <1>1 DEF IInv, NoEarlyResult
  <1>7. PendingOwned'
    <2> SUFFICES ASSUME NEW id \in pending
                 PROVE  \E d \in Callers : pc'[d] \in Registered /\ cid'[d] = id
      BY DEF PendingOwned
    <2>1. PICK d \in Callers : pc[d] \in Registered /\ cid[d] = id
      BY DEF IInv, PendingOwned
    <2> QED
      BY <2>1, <1>1
  <1>8. WaiterReachable' /\ DisabledDrained'
    <2>1. \A d \in Callers : pc'[d] \in Registered \ {"abandon"} =>
              pc[d] \in Registered \ {"abandon"} /\ cid'[d] = cid[d]
      BY <1>1
    <2> QED
      BY <2>1 DEF IInv, WaiterReachable, DisabledDrained
  <1>9. AcceptedByHost'
    BY <1>1 DEF IInv, AcceptedByHost
  <1> QED
    BY <1>2, <1>3, <1>4, <1>5, <1>6, <1>7, <1>8, <1>9 DEF IInv

-----------------------------------------------------------------------------

\* Handing out a new id with an empty open channel under it keeps the invariant.
LEMMA RegisterKeepsInv ==
  ASSUME IInv, NEW c \in Callers, Register(c), enabled
  PROVE  IInv'
  <1>0. TypeOK
    BY DEF IInv
  <1>1. /\ pc[c] = "register"
        /\ nextID' = nextID + 1
        /\ pending' = pending \union {nextID + 1}
        /\ buf' = [i \in 1 .. nextID + 1 |->
                     IF i = nextID + 1 THEN Empty ELSE buf[i]]
        /\ cid' = [cid EXCEPT ![c] = nextID + 1]
        /\ pc' = [pc EXCEPT ![c] = "write"]
        /\ UNCHANGED <<enabled, closed, reader, writeMu, ret, sent, granted>>
    BY DEF Register, MayRegister, NewChannel, Goto, hostVars
  <1>2. /\ nextID \in Nat /\ nextID' \in Nat
        /\ 1 .. nextID \subseteq 1 .. nextID' /\ 0 .. nextID \subseteq 0 .. nextID'
        /\ nextID + 1 \notin 0 .. nextID /\ nextID + 1 # 0
        /\ \A i \in 1 .. nextID' : i \in 1 .. nextID \/ i = nextID + 1
    BY <1>0, <1>1 DEF TypeOK
  <1>3. /\ \A i \in 1 .. nextID : buf'[i] = buf[i] /\ i # nextID + 1
        /\ buf'[nextID + 1] = Empty
        /\ \A d \in Callers \ {c} : cid'[d] = cid[d] /\ pc'[d] = pc[d]
                                    /\ cid[d] \in 0 .. nextID
        /\ cid'[c] = nextID + 1 /\ pc'[c] = "write"
        /\ pending \subseteq 1 .. nextID /\ closed \subseteq 1 .. nextID
        /\ reader.at \in {"send", "close"} => reader.id \in 1 .. nextID
    BY <1>0, <1>1, <1>2 DEF TypeOK
  <1>4. TypeOK'
    <2>1. buf' \in [1 .. nextID' -> Verdicts \union {Empty}]
      BY <1>0, <1>1, <1>2 DEF TypeOK
    <2>2. pc' \in [Callers -> Labels] /\ cid' \in [Callers -> 0 .. nextID']
      BY <1>0, <1>1, <1>2 DEF TypeOK, Labels
    <2> QED
      BY <1>0, <1>1, <1>2, <2>1, <2>2 DEF TypeOK
  <1>5. OwnIds'
    BY <1>2, <1>3 DEF IInv, OwnIds, Registered
  <1>6. ChannelState' /\ ReaderNeverStuck'
    BY <1>1, <1>2, <1>3 DEF IInv, ChannelState, ReaderNeverStuck
  <1>7. ReaderAlive' /\ DisabledDrained'
    BY <1>1 DEF IInv, ReaderAlive, DisabledDrained
  <1>8. GrantsAreHonest'
    BY <1>1, <1>2, <1>3 DEF IInv, GrantsAreHonest, Empty
  <1>9. NoEarlyResult'
    BY <1>1, <1>3 DEF IInv, NoEarlyResult
  <1>10. PendingOwned'
    <2>1. ASSUME NEW id \in pending
          PROVE  \E d \in Callers : pc'[d] \in Registered /\ cid'[d] = id
      <3>1. PICK d \in Callers : pc[d] \in Registered /\ cid[d] = id
        BY DEF IInv, PendingOwned
      <3>2. d # c
        BY <3>1, <1>1 DEF Registered
      <3> QED
        BY <3>1, <3>2, <1>3
    <2> QED
      BY <1>1, <1>3, <2>1 DEF PendingOwned, Registered
  <1>11. WaiterReachable'
    <2> SUFFICES ASSUME NEW d \in Callers, pc'[d] \in Registered \ {"abandon"}
                 PROVE  \/ cid'[d] \in pending' \union closed
                        \/ buf'[cid'[d]] # Empty
                        \/ reader.at = "send" /\ reader.id = cid'[d]
      BY <1>1 DEF WaiterReachable
    <2>1. CASE d = c
      BY <2>1, <1>1, <1>3
    <2>2. CASE d # c
      <3>1. pc[d] \in Registered \ {"abandon"} /\ cid'[d] = cid[d]
        BY <2>2, <1>3
      <3>2. cid[d] # 0
        BY <3>1 DEF IInv, OwnIds
      <3>3. cid[d] \in 1 .. nextID
        BY <2>2, <3>2, <1>2, <1>3
      <3> QED
        BY <3>1, <3>3, <1>1, <1>3 DEF IInv, WaiterReachable
    <2> QED
      BY <2>1, <2>2
  <1>12. AcceptedByHost'
    BY <1>1, <1>3 DEF IInv, AcceptedByHost, NoEarlyResult
  <1> QED
    BY <1>4, <1>5, <1>6, <1>7, <1>8, <1>9, <1>10, <1>11, <1>12 DEF IInv

\* Every step of a calling goroutine keeps the invariant.
LEMMA CallerKeepsInv ==
  ASSUME IInv, NEW c \in Callers, CallerNext(c)
  PROVE  IInv'
  <1>0. /\ TypeOK
        /\ pc[c] \in Registered \union {"register", "http"} => ret[c] = "none"
    BY DEF IInv, NoEarlyResult
  <1> USE DEF Goto, chanVars, callerVars, hostVars
  <1>1. ASSUME BeginIntrospect(c) PROVE IInv'
    <2> DEFINE label == IF enabled THEN "register" ELSE "http"
    <2>1. /\ label \in Labels \ Registered /\ label # "return"
          /\ pc[c] \notin Registered
      BY <1>1 DEF BeginIntrospect, Labels, Registered
    <2>2. ret' \in [Callers -> Results] /\ ret'[c] = "none" /\ writeMu' \subseteq Callers
          /\ \A d \in Callers \ {c} : ret'[d] = ret[d]
      BY <1>0, <1>1 DEF BeginIntrospect, TypeOK, Results
    <2>3. pc' = [pc EXCEPT ![c] = label] /\ cid' = [cid EXCEPT ![c] = 0]
          /\ UNCHANGED <<enabled, nextID, pending, buf, closed, reader, sent, granted>>
      BY <1>1 DEF BeginIntrospect
    <2> HIDE DEF label
    <2> QED
      BY <2>1, <2>2, <2>3, MoveKeepsInv
  <1>2. ASSUME BeginEncode(c) PROVE IInv'
    <2>1. PICK label \in {"register", "return"} :
              /\ pc' = [pc EXCEPT ![c] = label]
              /\ ret' = [ret EXCEPT ![c] = IF label = "register" THEN "none" ELSE "refused"]
      BY <1>2 DEF BeginEncode
    <2>2. label \in Labels \ (Registered \union {"http"}) /\ pc[c] \notin Registered
      BY <1>2, <2>1 DEF BeginEncode, Labels, Registered
    <2>3. /\ ret' \in [Callers -> Results] /\ ret'[c] # "stdio"
          /\ label = "register" <=> ret'[c] = "none"
          /\ writeMu' \subseteq Callers /\ \A d \in Callers \ {c} : ret'[d] = ret[d]
      BY <1>0, <1>2, <2>1 DEF BeginEncode, TypeOK, Results
    <2>4. cid' = [cid EXCEPT ![c] = 0]
          /\ UNCHANGED <<enabled, nextID, pending, buf, closed, reader, sent, granted>>
      BY <1>2 DEF BeginEncode
    <2> QED
      BY <2>1, <2>2, <2>3, <2>4, MoveKeepsInv
  <1>3. ASSUME Register(c) PROVE IInv'
    <2>1. CASE enabled
      BY <1>3, <2>1, RegisterKeepsInv
    <2>2. CASE ~enabled
      <3>1. pc[c] = "register" /\ GiveUp(c)
            /\ UNCHANGED <<enabled, nextID, pending, buf, closed, reader, writeMu, cid,
                           sent, granted>>
        BY <1>3, <2>2 DEF Register, MayRegister
      <3>2. cid[c] \notin pending
        BY <3>1, UnregisteredOwnsNothing DEF Registered
      <3> QED
        BY <3>1, <3>2, GiveUpKeepsInv
    <2> QED
      BY <2>1, <2>2
  <1>4. ASSUME LockWriter(c) PROVE IInv'
    <2>1. /\ pc[c] = "write" /\ pc' = [pc EXCEPT ![c] = "writing"] /\ writeMu' = {c}
          /\ UNCHANGED <<enabled, nextID, pending, buf, closed, reader, cid, ret, sent, granted>>
      BY <1>4 DEF LockWriter
    <2>2. "writing" \in Labels \intersect Registered /\ pc[c] \in Registered \ {"abandon"}
          /\ ret' \in [Callers -> Results]
      BY <1>0, <2>1 DEF Labels, Registered, TypeOK
    <2> QED
      BY <1>0, <2>1, <2>2, MoveKeepsInv
  <1>5. ASSUME Write(c) PROVE IInv'
    <2>1. PICK label \in {"wait", "abandon"} :
              pc' = [pc EXCEPT ![c] = label]
              /\ sent' \in {sent, sent \union {cid[c]}}
      BY <1>5 DEF Write
    <2>2. /\ pc[c] = "writing" /\ writeMu' = {}
          /\ UNCHANGED <<enabled, nextID, pending, buf, closed, reader, cid, ret, granted>>
      BY <1>5 DEF Write, ReleaseWriter
    <2>3. label \in Labels \intersect Registered /\ pc[c] \in Registered \ {"abandon"}
          /\ ret' \in [Callers -> Results]
      BY <1>0, <2>1, <2>2 DEF Labels, Registered, TypeOK
    <2> QED
      BY <1>0, <2>1, <2>2, <2>3, MoveKeepsInv
  <1>6. ASSUME Receive(c) PROVE IInv'
    <2>1. pc[c] = "wait" /\ pc[c] \in Registered
          /\ UNCHANGED <<enabled, nextID, pending, closed, reader, writeMu, cid, sent, granted>>
      BY <1>6 DEF Receive, Registered
    <2>2. cid[c] \in 1 .. nextID
      BY <2>1 DEF IInv, OwnIds, TypeOK
    <2>3. buf[cid[c]] # Empty \/ cid[c] \in closed
      BY <1>6 DEF Receive
    <2>4. cid[c] \notin pending
      BY <2>3 DEF IInv, ChannelState
    <2>5. buf' \in {buf, [buf EXCEPT ![cid[c]] = Empty]}
      BY <1>6 DEF Receive
    <2>6. CASE GiveUp(c)
      BY <2>1, <2>4, <2>5, <2>6, GiveUpKeepsInv
    <2>7. CASE ~GiveUp(c)
      <3>1. /\ buf[cid[c]] = "grant"
            /\ pc' = [pc EXCEPT ![c] = "return"] /\ ret' = [ret EXCEPT ![c] = "stdio"]
        BY <1>6, <2>7 DEF Receive, Accepts
      <3>2. cid[c] \in granted /\ "stdio" \in Results
        BY <2>2, <3>1 DEF IInv, GrantsAreHonest, Results
      <3> QED
        BY <2>1, <2>4, <2>5, <3>1, <3>2, LeaveKeepsInv
    <2> QED
      BY <2>6, <2>7
  <1>7. ASSUME Timeout(c) PROVE IInv'
    <2>1. /\ pc[c] = "wait" /\ pc' = [pc EXCEPT ![c] = "abandon"]
          /\ UNCHANGED <<enabled, nextID, pending, buf, closed, reader, writeMu, cid, ret,
                         sent, granted>>
      BY <1>7 DEF Timeout
    <2>2. "abandon" \in Labels \intersect Registered /\ pc[c] \in Registered
          /\ ret' \in [Callers -> Results] /\ writeMu' \subseteq Callers
      BY <1>0, <2>1 DEF Labels, Registered, TypeOK
    <2> QED
      BY <1>0, <2>1, <2>2, MoveKeepsInv
  <1>8. ASSUME Abandon(c) PROVE IInv'
    <2>1. pc[c] \in Registered /\ GiveUp(c) /\ pending' = pending \ {cid[c]}
          /\ UNCHANGED <<enabled, nextID, buf, closed, reader, writeMu, cid, sent, granted>>
      BY <1>8 DEF Abandon, Unregister, Registered
    <2> QED
      BY <2>1, GiveUpKeepsInv
  <1>9. ASSUME IntrospectHTTP(c) PROVE IInv'
    <2>1. PICK answer \in {"http", "refused"} : ret' = [ret EXCEPT ![c] = answer]
      BY <1>9 DEF IntrospectHTTP
    <2>2. pc[c] = "http" /\ pc' = [pc EXCEPT ![c] = "return"]
          /\ UNCHANGED <<enabled, nextID, pending, buf, closed, reader, writeMu, cid, sent,
                         granted>>
      BY <1>9 DEF IntrospectHTTP
    <2>3. cid[c] \notin pending
      BY <2>2, UnregisteredOwnsNothing DEF Registered
    <2>4. answer \in Results \ {"stdio"}
      BY <2>1 DEF Results
    <2> QED
      BY <2>1, <2>2, <2>3, <2>4, LeaveKeepsInv
  <1>10. ASSUME Return(c) PROVE IInv'
    <2>1. /\ pc[c] = "return" /\ pc' = [pc EXCEPT ![c] = "idle"]
          /\ UNCHANGED <<enabled, nextID, pending, buf, closed, reader, writeMu, cid, ret,
                         sent, granted>>
      BY <1>10 DEF Return
    <2>2. "idle" \in Labels \ Registered /\ pc[c] \notin Registered
          /\ ret' \in [Callers -> Results] /\ writeMu' \subseteq Callers
      BY <1>0, <2>1 DEF Labels, Registered, TypeOK
    <2> QED
      BY <2>1, <2>2, MoveKeepsInv
  <1> QED
    BY <1>1, <1>2, <1>3, <1>4, <1>5, <1>6, <1>7, <1>8, <1>9, <1>10 DEF CallerNext

\* Every step of the reader goroutine, and the end of its input, keeps the
\* invariant.
LEMMA ReaderKeepsInv ==
  ASSUME IInv, ReaderNext
  PROVE  IInv'
  <1>0. TypeOK
    BY DEF IInv
  <1> USE DEF chanVars, callerVars, hostVars
  <1>1. ASSUME NEW id \in sent, NEW verdict \in Verdicts, ReadReply(id, verdict)
        PROVE  IInv'
    <2>1. /\ reader.at = "scan" /\ id \in 1 .. nextID
          /\ reader' = IF id \in pending
                       THEN [at |-> "send", id |-> id, verdict |-> verdict] ELSE reader
          /\ pending' = pending \ {id}
          /\ granted' = IF verdict = "grant" THEN granted \union {id} ELSE granted
          /\ UNCHANGED <<enabled, nextID, buf, closed, writeMu, pc, cid, ret, sent>>
      BY <1>0, <1>1 DEF ReadReply, Route, Hold, Unregister, TypeOK
    <2>2. TypeOK'
      <3>1. reader' \in [at : {"scan", "send", "close", "exited"}, id : 0 .. nextID,
                         verdict : Verdicts]
        BY <1>0, <2>1 DEF TypeOK
      <3> QED
        BY <1>0, <2>1, <3>1 DEF TypeOK
    <2>3. OwnIds' /\ NoEarlyResult'
      BY <2>1 DEF IInv, OwnIds, NoEarlyResult
    <2>4. ChannelState' /\ ReaderNeverStuck' /\ ReaderAlive'
      BY <2>1 DEF IInv, ChannelState, ReaderNeverStuck, ReaderAlive
    <2>5. GrantsAreHonest' /\ AcceptedByHost'
      BY <2>1 DEF IInv, GrantsAreHonest, AcceptedByHost
    <2>6. PendingOwned' /\ DisabledDrained'
      BY <2>1 DEF IInv, PendingOwned, DisabledDrained
    <2>7. WaiterReachable'
      BY <2>1 DEF IInv, WaiterReachable
    <2> QED
      BY <2>2, <2>3, <2>4, <2>5, <2>6, <2>7 DEF IInv
  <1>2. ASSUME Send PROVE IInv'
    <2>1. /\ reader.at = "send" /\ reader.id \notin closed /\ reader.id \in 1 .. nextID
          /\ reader.verdict \in Verdicts
          /\ buf' = [buf EXCEPT ![reader.id] = reader.verdict]
          /\ reader' = [reader EXCEPT !.at = "close"]
          /\ UNCHANGED <<enabled, nextID, pending, closed, writeMu, pc, cid, ret, sent, granted>>
      BY <1>0, <1>2 DEF Send, IInv, ReaderNeverStuck, TypeOK
    <2>2. /\ reader'.at = "close" /\ reader'.id = reader.id
          /\ buf'[reader.id] # Empty
          /\ buf'[reader.id] = "grant" => reader.verdict = "grant"
          /\ \A id \in 1 .. nextID : id # reader.id => buf'[id] = buf[id]
      BY <1>0, <2>1 DEF TypeOK, Verdicts, Empty
    <2>3. TypeOK'
      <3>1. reader' \in [at : {"scan", "send", "close", "exited"}, id : 0 .. nextID,
                         verdict : Verdicts]
        BY <1>0, <2>1 DEF TypeOK
      <3>2. buf' \in [1 .. nextID -> Verdicts \union {Empty}]
        BY <1>0, <2>1 DEF TypeOK
      <3> QED
        BY <1>0, <2>1, <2>2, <3>1, <3>2 DEF TypeOK
    <2>4. OwnIds' /\ NoEarlyResult' /\ PendingOwned'
      BY <2>1 DEF IInv, OwnIds, NoEarlyResult, PendingOwned
    <2>5. ChannelState' /\ ReaderNeverStuck' /\ ReaderAlive'
      BY <1>0, <2>1, <2>2 DEF IInv, ChannelState, ReaderNeverStuck, ReaderAlive, TypeOK
    <2>6. GrantsAreHonest' /\ AcceptedByHost'
      BY <2>1, <2>2 DEF IInv, GrantsAreHonest, AcceptedByHost
    <2>7. WaiterReachable' /\ DisabledDrained'
      <3>1. \A c \in Callers : pc[c] \in Registered => cid[c] \in 1 .. nextID
        BY <1>0 DEF IInv, OwnIds, TypeOK
      <3> QED
        BY <2>1, <2>2, <3>1 DEF IInv, WaiterReachable, DisabledDrained
    <2> QED
      BY <2>3, <2>4, <2>5, <2>6, <2>7 DEF IInv
  <1>3. ASSUME Close PROVE IInv'
    <2>1. /\ reader.at = "close" /\ reader.id \in 1 .. nextID /\ reader.id \notin pending
          /\ closed' = closed \union {reader.id}
          /\ reader' = NoReply
          /\ UNCHANGED <<enabled, nextID, pending, buf, writeMu, pc, cid, ret, sent, granted>>
      BY <1>0, <1>3 DEF Close, IInv, ChannelState, TypeOK
    <2>2. TypeOK'
      <3>1. reader' \in [at : {"scan", "send", "close", "exited"}, id : 0 .. nextID,
                         verdict : Verdicts]
        BY <1>0, <2>1 DEF TypeOK, NoReply, Verdicts
      <3> QED
        BY <1>0, <2>1, <3>1 DEF TypeOK, NoReply
    <2>3. OwnIds' /\ NoEarlyResult' /\ PendingOwned' /\ AcceptedByHost'
      BY <2>1 DEF IInv, OwnIds, NoEarlyResult, PendingOwned, AcceptedByHost
    <2>4. ChannelState' /\ ReaderNeverStuck' /\ ReaderAlive' /\ GrantsAreHonest'
      BY <2>1 DEF IInv, ChannelState, ReaderNeverStuck, ReaderAlive, GrantsAreHonest, NoReply
    <2>5. WaiterReachable' /\ DisabledDrained'
      BY <2>1 DEF IInv, WaiterReachable, DisabledDrained
    <2> QED
      BY <2>2, <2>3, <2>4, <2>5 DEF IInv
  <1>4. ASSUME EndOfInput PROVE IInv'
    <2>1. /\ reader.at = "scan" /\ enabled' = FALSE /\ pending' = {}
          /\ closed' = closed \union pending
          /\ reader' = [at |-> "exited", id |-> 0, verdict |-> "deny"]
          /\ UNCHANGED <<nextID, buf, writeMu, pc, cid, ret, sent, granted>>
      BY <1>4 DEF EndOfInput, NoReply
    <2>2. TypeOK'
      <3>1. reader' \in [at : {"scan", "send", "close", "exited"}, id : 0 .. nextID,
                         verdict : Verdicts]
        BY <1>0, <2>1 DEF TypeOK, Verdicts
      <3> QED
        BY <1>0, <2>1, <3>1 DEF TypeOK
    <2>3. OwnIds' /\ NoEarlyResult' /\ PendingOwned' /\ AcceptedByHost'
      BY <2>1 DEF IInv, OwnIds, NoEarlyResult, PendingOwned, AcceptedByHost
    <2>4. ChannelState' /\ ReaderNeverStuck' /\ ReaderAlive' /\ GrantsAreHonest'
      BY <2>1 DEF IInv, ChannelState, ReaderNeverStuck, ReaderAlive, GrantsAreHonest
    <2>5. WaiterReachable'
      BY <2>1 DEF IInv, WaiterReachable
    <2>6. DisabledDrained'
      \* A reply the reader took has reached its channel and closed it.
      <3>1. \A c \in Callers : pc[c] \in Registered => cid[c] \in 1 .. nextID
        BY <1>0 DEF IInv, OwnIds, TypeOK
      <3> QED
        BY <2>1, <3>1 DEF IInv, ChannelState, WaiterReachable, DisabledDrained
    <2> QED
      BY <2>2, <2>3, <2>4, <2>5, <2>6 DEF IInv
  <1> QED
    BY <1>1, <1>2, <1>3, <1>4 DEF ReaderNext

-----------------------------------------------------------------------------
(* The theorems *)

\* The strengthened invariant holds of every reachable state.
THEOREM Invariance == Spec => []IInv
  <1>1. Init => IInv
    BY InitInv
  <1>2. IInv /\ [Next]_vars => IInv'
    <2> SUFFICES ASSUME IInv, [Next]_vars PROVE IInv'
      OBVIOUS
    <2>1. CASE \E c \in Callers : CallerNext(c)
      BY <2>1, CallerKeepsInv
    <2>2. CASE ReaderNext
      BY <2>2, ReaderKeepsInv
    <2>3. CASE UNCHANGED vars
      BY <2>3 DEF vars, chanVars, callerVars, hostVars, IInv, TypeOK, OwnIds,
                  ChannelState, ReaderAlive, GrantsAreHonest, NoEarlyResult,
                  PendingOwned, ReaderNeverStuck, WaiterReachable,
                  DisabledDrained, AcceptedByHost
    <2> QED
      BY <2>1, <2>2, <2>3 DEF Next
  <1> QED
    BY <1>1, <1>2, PTL DEF Spec

\* Type correctness of the stdio client.
THEOREM TypeCorrect == Spec => []TypeOK
  <1>1. IInv => TypeOK
    BY DEF IInv
  <1> QED
    BY <1>1, Invariance, PTL

\* The reader goroutine never panics on a closed channel and never blocks on a
\* full one, with any number of callers, duplicates and late replies.
THEOREM ReaderSafe == Spec => []ReaderNeverStuck
  <1>1. IInv => ReaderNeverStuck
    BY DEF IInv
  <1> QED
    BY <1>1, Invariance, PTL

\* No reply is lost on its way to a call that still waits.
THEOREM NoLostWakeup == Spec => []WaiterReachable
  <1>1. IInv => WaiterReachable
    BY DEF IInv
  <1> QED
    BY <1>1, Invariance, PTL

\* The end of the host's output reaches every call that waits, and nothing is
\* registered after it.
THEOREM NobodyLeftWaiting == Spec => []DisabledDrained
  <1>1. IInv => DisabledDrained
    BY DEF IInv
  <1> QED
    BY <1>1, Invariance, PTL

\* The pending map holds nothing that no call will take out again.
THEOREM NoLeak == Spec => []PendingOwned
  <1>1. IInv => PendingOwned
    BY DEF IInv
  <1> QED
    BY <1>1, Invariance, PTL

\* A token is accepted over stdio only if the host accepted that request.
THEOREM AcceptanceIsHonest == Spec => []AcceptedByHost
  <1>1. IInv => AcceptedByHost
    BY DEF IInv
  <1> QED
    BY <1>1, Invariance, PTL

-----------------------------------------------------------------------------
(* Refinement of TokenCheck *)

\* A step of c that leaves the call open and the set of granted ids alone, and
\* cannot turn c's request into a granted one, changes nothing abstractly.
LEMMA InnerStepStutters ==
  ASSUME IInv, NEW c \in Callers, NEW label \in Labels \ {"idle"}, pc[c] # "idle",
         pc' = [pc EXCEPT ![c] = label],
         cid' = [cid EXCEPT ![c] = cid'[c]], ret' = [ret EXCEPT ![c] = ret'[c]],
         (cid'[c] \in granted') <=> (cid[c] \in granted),
         (ret'[c] = "http") <=> (ret[c] = "http"),
         granted' = granted
  PROVE  UNCHANGED Abstract!vars
  <1>1. \A d \in Callers : (pc'[d] = "idle") <=> (pc[d] = "idle")
    BY DEF IInv, TypeOK
  <1>2. phaseBar' = phaseBar
    BY <1>1 DEF phaseBar
  <1>3. acceptedBar' = acceptedBar
    <2>1. \A d \in Callers \ {c} : cid'[d] = cid[d] /\ ret'[d] = ret[d]
      BY DEF IInv, TypeOK
    <2>2. \A d \in Callers :
             (pc'[d] # "idle" /\ (cid'[d] \in granted' \/ ret'[d] = "http"))
             = (pc[d] # "idle" /\ (cid[d] \in granted \/ ret[d] = "http"))
      BY <1>1, <2>1
    <2> QED
      BY <2>2 DEF acceptedBar
  <1>4. outcomeBar' = outcomeBar
    <2>1. \A d \in Callers : pc[d] = "idle" => ret'[d] = ret[d]
      BY DEF IInv, TypeOK
    <2> QED
      BY <1>1, <2>1 DEF outcomeBar
  <1> QED
    BY <1>2, <1>3, <1>4 DEF Abstract!vars

\* Every step of a calling goroutine is a step of TokenCheck or leaves it alone.
LEMMA CallerRefines ==
  ASSUME IInv, IInv', NEW c \in Callers, CallerNext(c)
  PROVE  Abstract!Next \/ UNCHANGED Abstract!vars
  <1>0. /\ TypeOK /\ TypeOK'
        /\ 0 \notin granted /\ nextID + 1 \notin granted
        /\ pc[c] = "register" => cid[c] = 0
    BY DEF IInv, TypeOK, OwnIds
  <1> USE DEF Goto, hostVars
  <1>1. ASSUME BeginIntrospect(c) \/ BeginEncode(c) PROVE Abstract!Ask(c)
    <2>1. /\ pc[c] = "idle"
          /\ \E label \in Labels \ {"idle"} : pc' = [pc EXCEPT ![c] = label]
          /\ cid' = [cid EXCEPT ![c] = 0]
          /\ \E r \in {"none", "refused"} : ret' = [ret EXCEPT ![c] = r]
          /\ granted' = granted
      BY <1>1 DEF BeginIntrospect, BeginEncode, Labels
    <2>2. /\ pc'[c] # "idle" /\ cid'[c] \notin granted /\ ret'[c] \in {"none", "refused"}
          /\ \A d \in Callers \ {c} : pc'[d] = pc[d] /\ cid'[d] = cid[d] /\ ret'[d] = ret[d]
      BY <1>0, <2>1 DEF TypeOK
    <2>3. phaseBar[c] = "idle" /\ phaseBar' = [phaseBar EXCEPT ![c] = "asking"]
      BY <2>1, <2>2 DEF phaseBar
    <2>4. outcomeBar' = [outcomeBar EXCEPT ![c] = "none"]
      BY <2>1, <2>2 DEF outcomeBar
    <2>5. acceptedBar' = acceptedBar
      BY <2>1, <2>2 DEF acceptedBar
    <2> QED
      BY <2>3, <2>4, <2>5 DEF Abstract!Ask
  <1>2. ASSUME Register(c) \/ LockWriter(c) \/ Write(c) \/ Receive(c) \/ Timeout(c)
               \/ Abandon(c)
        PROVE  UNCHANGED Abstract!vars
    <2>1. pc[c] \in Registered \union {"register"} /\ pc[c] # "idle" /\ granted' = granted
          /\ ret[c] = "none"
      BY <1>2 DEF Register, LockWriter, Write, Receive, Timeout, Abandon, Registered,
                  IInv, NoEarlyResult
    <2>2. PICK label \in Labels \ {"idle"} : pc' = [pc EXCEPT ![c] = label]
      BY <1>2 DEF Register, LockWriter, Write, Receive, Timeout, Abandon, GiveUp, Labels
    <2>3. PICK r \in Results \ {"http"} : ret' = [ret EXCEPT ![c] = r]
      <3>1. ret = [ret EXCEPT ![c] = "none"]
        BY <1>0, <2>1 DEF TypeOK
      <3> QED
        BY <1>2, <3>1 DEF Register, LockWriter, Write, Receive, Timeout, Abandon, GiveUp,
                          Results
    <2>4. PICK id \in {cid[c], nextID + 1} :
             cid' = [cid EXCEPT ![c] = id] /\ (id # cid[c] => pc[c] = "register")
      <3>1. cid = [cid EXCEPT ![c] = cid[c]]
        BY <1>0 DEF TypeOK
      <3> QED
        BY <1>2, <3>1 DEF Register, LockWriter, Write, Receive, Timeout, Abandon, chanVars
    <2>5. cid'[c] = id /\ ret'[c] = r
      BY <1>0, <2>3, <2>4 DEF TypeOK
    <2>6. (cid'[c] \in granted') <=> (cid[c] \in granted)
      BY <1>0, <2>1, <2>4, <2>5
    <2>7. ret'[c] # "http" /\ ret[c] # "http"
      BY <2>1, <2>5
    <2>8. cid' = [cid EXCEPT ![c] = cid'[c]] /\ ret' = [ret EXCEPT ![c] = ret'[c]]
      BY <2>3, <2>4, <2>5
    <2> QED
      BY <2>1, <2>2, <2>6, <2>7, <2>8, InnerStepStutters
  <1>3. ASSUME IntrospectHTTP(c) PROVE Abstract!HostAccepts(c) \/ UNCHANGED Abstract!vars
    <2>1. PICK answer \in {"http", "refused"} :
              /\ pc[c] = "http" /\ pc' = [pc EXCEPT ![c] = "return"]
              /\ ret' = [ret EXCEPT ![c] = answer] /\ cid' = cid /\ granted' = granted
      BY <1>3 DEF IntrospectHTTP
    <2>2. /\ pc'[c] = "return" /\ ret[c] = "none" /\ ret'[c] = answer
          /\ cid = [cid EXCEPT ![c] = cid[c]]
          /\ \A d \in Callers \ {c} : pc'[d] = pc[d] /\ ret'[d] = ret[d]
      BY <1>0, <2>1 DEF TypeOK, IInv, NoEarlyResult
    <2>3. CASE answer = "refused"
      <3>1. "return" \in Labels \ {"idle"}
        BY DEF Labels
      <3> QED
        BY <2>1, <2>2, <2>3, <3>1, InnerStepStutters
    <2>4. CASE answer = "http"
      <3>1. phaseBar[c] = "asking" /\ phaseBar' = phaseBar
        BY <2>1, <2>2 DEF phaseBar
      <3>2. acceptedBar' = [acceptedBar EXCEPT ![c] = TRUE]
        BY <2>1, <2>2, <2>4 DEF acceptedBar
      <3>3. outcomeBar' = outcomeBar
        BY <2>1, <2>2 DEF outcomeBar
      <3> QED
        BY <3>1, <3>2, <3>3 DEF Abstract!HostAccepts
    <2> QED
      BY <2>1, <2>3, <2>4
  <1>4. ASSUME Return(c) PROVE Abstract!AnswerAny(c)
    <2>1. /\ pc[c] = "return" /\ pc' = [pc EXCEPT ![c] = "idle"]
          /\ cid' = cid /\ ret' = ret /\ granted' = granted
      BY <1>4 DEF Return
    <2>2. pc'[c] = "idle" /\ \A d \in Callers \ {c} : pc'[d] = pc[d]
      BY <1>0, <2>1 DEF TypeOK
    <2>3. ret[c] \in {"stdio", "http", "refused"}
      BY <1>0, <2>1 DEF TypeOK, Results, IInv, NoEarlyResult
    <2> DEFINE result == IF ret[c] = "refused" THEN "refused" ELSE "accepted"
    <2>4. phaseBar[c] = "asking" /\ phaseBar' = [phaseBar EXCEPT ![c] = "idle"]
      BY <2>1, <2>2 DEF phaseBar
    <2>5. result = "accepted" => acceptedBar[c]
      BY <2>1, <2>3 DEF acceptedBar, IInv, AcceptedByHost
    <2>6. acceptedBar' = [acceptedBar EXCEPT ![c] = FALSE]
      BY <2>1, <2>2 DEF acceptedBar
    <2>7. outcomeBar' = [outcomeBar EXCEPT ![c] = result]
      BY <2>1, <2>2, <2>3 DEF outcomeBar
    <2>8. result \in {"accepted", "refused"}
      OBVIOUS
    <2> HIDE DEF result
    <2> QED
      BY <2>4, <2>5, <2>6, <2>7, <2>8 DEF Abstract!AnswerAny, Abstract!Answer
  <1> QED
    BY <1>1, <1>2, <1>3, <1>4 DEF CallerNext, Abstract!Next

\* Every step of the reader goroutine is the host's acceptance of an open request
\* or leaves TokenCheck alone.
LEMMA ReaderRefines ==
  ASSUME IInv, ReaderNext
  PROVE  Abstract!Next \/ UNCHANGED Abstract!vars
  <1>0. pc' = pc /\ cid' = cid /\ ret' = ret
    BY DEF ReaderNext, ReadReply, Send, Close, EndOfInput, callerVars
  <1>1. phaseBar' = phaseBar /\ outcomeBar' = outcomeBar
    BY <1>0 DEF phaseBar, outcomeBar
  <1>2. CASE granted' = granted
    <2>1. acceptedBar' = acceptedBar
      BY <1>0, <1>2 DEF acceptedBar
    <2> QED
      BY <1>1, <2>1 DEF Abstract!vars
  <1>3. CASE granted' # granted
    <2>1. PICK id \in sent : granted' = granted \union {id}
      BY <1>3 DEF ReaderNext, ReadReply, Send, Close, EndOfInput, hostVars
    <2>2. id # 0
      BY DEF IInv, TypeOK
    <2>3. CASE \E c \in Callers : pc[c] # "idle" /\ cid[c] = id
      <3>1. PICK c \in Callers : pc[c] # "idle" /\ cid[c] = id
        BY <2>3
      <3>2. \A d \in Callers \ {c} : cid[d] # id
        BY <2>2, <3>1 DEF IInv, OwnIds
      <3>3. acceptedBar' = [acceptedBar EXCEPT ![c] = TRUE]
        BY <1>0, <2>1, <3>1, <3>2 DEF acceptedBar
      <3>4. phaseBar[c] = "asking"
        BY <3>1 DEF phaseBar
      <3> QED
        BY <1>1, <3>3, <3>4 DEF Abstract!Next, Abstract!HostAccepts
    <2>4. CASE ~ \E c \in Callers : pc[c] # "idle" /\ cid[c] = id
      <3>1. acceptedBar' = acceptedBar
        BY <1>0, <2>1, <2>4 DEF acceptedBar
      <3> QED
        BY <1>1, <3>1 DEF Abstract!vars
    <2> QED
      BY <2>3, <2>4
  <1> QED
    BY <1>2, <1>3

\* The stdio client with its HTTP fallback implements the token check the
\* handlers rely on (its safety part; the run checks its liveness too).
THEOREM Refinement == Spec => Abstract!Spec
  <1>1. Init => Abstract!Init
    BY DEF Init, Abstract!Init, phaseBar, acceptedBar, outcomeBar
  <1>2. IInv /\ IInv' /\ [Next]_vars => [Abstract!Next]_(Abstract!vars)
    <2> SUFFICES ASSUME IInv, IInv', [Next]_vars
                 PROVE  Abstract!Next \/ UNCHANGED Abstract!vars
      OBVIOUS
    <2>1. CASE \E c \in Callers : CallerNext(c)
      BY <2>1, CallerRefines
    <2>2. CASE ReaderNext
      BY <2>2, ReaderRefines
    <2>3. CASE UNCHANGED vars
      BY <2>3 DEF vars, callerVars, hostVars, Abstract!vars, phaseBar, acceptedBar, outcomeBar
    <2> QED
      BY <2>1, <2>2, <2>3 DEF Next
  <1> QED
    BY <1>1, <1>2, Invariance, PTL DEF Spec, Abstract!Spec

=============================================================================
