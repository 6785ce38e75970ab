------------------------- MODULE VerifyLimiterProofs -------------------------
(***************************************************************************)
(* Proofs about VerifyLimiter, for any number of handlers, keys and        *)
(* attempts, any window and lag, and any cooldown from the window up.      *)
(***************************************************************************)
EXTENDS VerifyLimiter, FiniteSetTheorems, TLAPS

\* A key is blocked exactly if its failures have reached the limit, and its
\* block and its window then end together.
BlockState ==
    \A k \in Keys :
        limits[k].blockedUntil =
            (IF limits[k].failures >= MaxAttempts THEN limits[k].resetAt ELSE 0)

\* The inductive invariant.
IInv ==
    /\ TypeOK
    /\ BlockState
    /\ GuessesBounded
    /\ BlockedForCause

-----------------------------------------------------------------------------
(* The rules of the limiter *)

\* What a clean-up leaves of a limit is the limit or nothing, so that it counts
\* no more failures than before.
LEMMA CleanedLimit ==
  ASSUME NEW limit \in Limit, NEW a \in Nat
  PROVE  /\ Cleaned(limit, a) \in {limit, Fresh}
         /\ Cleaned(limit, a) \in Limit
         /\ Cleaned(limit, a).failures <= limit.failures
  BY DEF Limit, Fresh, Cleaned

\* A failure adds one to the count or begins a new one, and the block begins
\* exactly when the count has reached the limit.
LEMMA RecordedLimit ==
  ASSUME NEW limit \in Limit, NEW a \in Nat,
         limit.blockedUntil = (IF limit.failures >= MaxAttempts THEN limit.resetAt ELSE 0)
  PROVE  LET after == AfterFailure(limit, a) IN
         /\ after \in Limit
         /\ after.failures <= limit.failures + 1
         /\ after.blockedUntil =
               (IF after.failures >= MaxAttempts THEN after.resetAt ELSE 0)
  <1> DEFINE counted == Counting(limit, a)
             block == a + Cooldown
  <1>1. /\ counted \in Limit
        /\ counted.failures <= limit.failures + 1
        /\ counted.failures < MaxAttempts => counted.blockedUntil = 0
    BY LimitsAssumption DEF Counting, Limit
  <1> HIDE DEF counted
  <1>2. AfterFailure(limit, a) =
          IF counted.failures >= MaxAttempts
          THEN [counted EXCEPT !.blockedUntil = block, !.resetAt = block]
          ELSE counted
    BY DEF AfterFailure, counted
  <1>3. block \in Nat
    BY LimitsAssumption
  <1> HIDE DEF block
  <1>4. CASE counted.failures >= MaxAttempts
    <2>1. /\ AfterFailure(limit, a) \in Limit
          /\ AfterFailure(limit, a).failures = counted.failures
          /\ AfterFailure(limit, a).blockedUntil = block
          /\ AfterFailure(limit, a).resetAt = block
      BY <1>1, <1>2, <1>3, <1>4 DEF Limit
    <2> QED
      BY <1>1, <1>4, <2>1
  <1>5. CASE ~ (counted.failures >= MaxAttempts)
    <2>1. AfterFailure(limit, a) = counted /\ counted.failures < MaxAttempts
      BY <1>1, <1>2, <1>5, LimitsAssumption DEF Limit
    <2> QED
      BY <1>1, <1>5, <2>1
  <1> QED
    BY <1>4, <1>5

-----------------------------------------------------------------------------
(* Counting the requests under way *)

\* The handlers are finitely many, and so are those under way on a key.
LEMMA UnderWayFinite ==
  ASSUME NEW S \in SUBSET Threads
  PROVE  /\ IsFiniteSet(S)
         /\ Cardinality(S) \in Nat
         /\ Cardinality(Threads) \in Nat
         /\ Cardinality(S) <= Cardinality(Threads)
         /\ \A T \in SUBSET S : Cardinality(T) \in Nat /\ Cardinality(T) <= Cardinality(S)
  <1>1. IsFiniteSet(S) /\ Cardinality(S) <= Cardinality(Threads)
    BY ThreadsAssumption, FS_Subset
  <1>2. Cardinality(S) \in Nat /\ Cardinality(Threads) \in Nat
    BY <1>1, ThreadsAssumption, FS_CardinalityType
  <1>3. ASSUME NEW T \in SUBSET S
        PROVE  Cardinality(T) \in Nat /\ Cardinality(T) <= Cardinality(S)
    <2>1. IsFiniteSet(T) /\ Cardinality(T) <= Cardinality(S)
      BY <1>1, FS_Subset
    <2> QED
      BY <2>1, FS_CardinalityType
  <1> QED
    BY <1>1, <1>2, <1>3

\* A step that lets no request pass and records none, and adds no failure to
\* any count, keeps the bound.
LEMMA FewerKeepsBound ==
  ASSUME IInv, limits' \in [Keys -> Limit],
         \A k \in Keys : limits'[k].failures <= limits[k].failures,
         \A k \in Keys : UnderWay(k)' \subseteq UnderWay(k)
  PROVE  GuessesBounded'
  <1> SUFFICES ASSUME NEW k \in Keys
               PROVE  limits'[k].failures + Cardinality(UnderWay(k)')
                        <= MaxAttempts - 1 + Cardinality(Threads)
    BY DEF GuessesBounded
  <1>1. UnderWay(k) \in SUBSET Threads
    BY DEF UnderWay
  <1>2. /\ Cardinality(UnderWay(k)) \in Nat /\ Cardinality(UnderWay(k)') \in Nat
        /\ Cardinality(Threads) \in Nat
        /\ Cardinality(UnderWay(k)') <= Cardinality(UnderWay(k))
    BY <1>1, UnderWayFinite
  <1>3. /\ limits[k].failures \in Nat /\ limits'[k].failures \in Nat
        /\ limits'[k].failures <= limits[k].failures
        /\ limits[k].failures + Cardinality(UnderWay(k))
             <= MaxAttempts - 1 + Cardinality(Threads)
    BY DEF IInv, TypeOK, GuessesBounded, Limit
  <1> QED
    BY <1>2, <1>3, LimitsAssumption

\* A request that moves to where it is not under way, or stays under way on its
\* key, adds no request to any key.
LEMMA LeavingAddsNothing ==
  ASSUME IInv, NEW t \in Threads, NEW label \in Labels,
         pc' = [pc EXCEPT ![t] = label],
         label \in {"judge", "record"} => pc[t] \in {"judge", "record"} /\ key' = key,
         key' \in [Threads -> Keys],
         \A u \in Threads \ {t} : key'[u] = key[u]
  PROVE  \A k \in Keys : UnderWay(k)' \subseteq UnderWay(k)
  <1>1. pc'[t] = label /\ \A u \in Threads \ {t} : pc'[u] = pc[u]
    BY DEF IInv, TypeOK
  <1> QED
    BY <1>1 DEF UnderWay

\* A request that ends adds no request to any key.
LEMMA IdleAddsNothing ==
  ASSUME IInv, NEW t \in Threads, Goto(t, "idle"), key' = key
  PROVE  \A k \in Keys : UnderWay(k)' \subseteq UnderWay(k)
  <1>1. "idle" \in Labels /\ "idle" \notin {"judge", "record"}
    BY DEF Labels
  <1>2. key' \in [Threads -> Keys] /\ pc' = [pc EXCEPT ![t] = "idle"]
    BY DEF IInv, TypeOK, Goto
  <1> QED
    BY <1>1, <1>2, LeavingAddsNothing

\* A step that touches no limit and lets no request pass keeps the invariant.
LEMMA UnchangedLimits ==
  ASSUME IInv, TypeOK', limits' = limits, judged' = judged,
         \A k \in Keys : UnderWay(k)' \subseteq UnderWay(k)
  PROVE  IInv'
  <1>1. /\ limits' \in [Keys -> Limit]
        /\ \A k \in Keys : limits'[k].failures <= limits[k].failures
    BY DEF IInv, TypeOK, Limit
  <1>2. GuessesBounded'
    BY <1>1, FewerKeepsBound
  <1> QED
    BY <1>2 DEF IInv, BlockState, BlockedForCause

-----------------------------------------------------------------------------
(* The steps *)

\* A clean-up keeps the invariant but for the bound on what is under way.
LEMMA CleanUpKeeps ==
  ASSUME IInv, NEW a \in Nat, CleanUp(a), judged' = judged
  PROVE  /\ limits' \in [Keys -> Limit]
         /\ \A k \in Keys : limits'[k].failures <= limits[k].failures
         /\ BlockState' /\ BlockedForCause'
  <1>1. \A k \in Keys : limits[k] \in Limit
    BY DEF IInv, TypeOK
  <1>2. \A k \in Keys : limits'[k] = Cleaned(limits[k], a)
    BY DEF CleanUp
  <1>3. /\ limits' \in [Keys -> Limit]
        /\ \A k \in Keys : limits'[k] \in {limits[k], Fresh}
        /\ \A k \in Keys : limits'[k].failures <= limits[k].failures
    BY <1>1, <1>2, CleanedLimit DEF CleanUp
  <1>4. BlockState'
    BY <1>3, LimitsAssumption DEF IInv, BlockState, Fresh
  <1>5. BlockedForCause'
    <2>1. \A k \in Keys : Len(judged[k]) \in Nat
      BY DEF IInv, TypeOK
    <2> QED
      BY <1>3, <2>1 DEF IInv, BlockedForCause, Fresh
  <1> QED
    BY <1>3, <1>4, <1>5

\* Clearing some keys, with their failures, keeps the invariant as far as it
\* speaks of limits.
LEMMA ClearingKeeps ==
  ASSUME IInv, NEW K \in SUBSET Keys,
         limits' = [k \in Keys |-> IF k \in K THEN Fresh ELSE limits[k]],
         judged' = [k \in Keys |-> IF k \in K THEN << >> ELSE judged[k]]
  PROVE  /\ limits' \in [Keys -> Limit]
         /\ judged' \in [Keys -> Seq(Nat)]
         /\ \A k \in Keys : limits'[k].failures <= limits[k].failures
         /\ BlockState' /\ BlockedForCause'
  <1>1. Fresh \in Limit /\ Fresh.failures = 0 /\ Fresh.blockedUntil = 0
    BY DEF Fresh, Limit
  <1>2. \A k \in Keys : limits[k] \in Limit /\ limits[k].failures \in Nat
    BY DEF IInv, TypeOK, Limit
  <1>3. \A k \in Keys : \/ limits'[k] = limits[k] /\ judged'[k] = judged[k]
                        \/ limits'[k] = Fresh /\ judged'[k] = << >>
    OBVIOUS
  <1>4. limits' \in [Keys -> Limit] /\ judged' \in [Keys -> Seq(Nat)]
    BY <1>1, <1>2 DEF IInv, TypeOK
  <1>5. \A k \in Keys : limits'[k].failures <= limits[k].failures
    BY <1>1, <1>2, <1>3
  <1>6. BlockState'
    BY <1>1, <1>3, LimitsAssumption DEF IInv, BlockState
  <1>7. BlockedForCause'
    BY <1>1, <1>3 DEF IInv, BlockedForCause
  <1> QED
    BY <1>4, <1>5, <1>6, <1>7

\* A request whose key is not blocked finds room: after the clean-up the key's
\* failures are short of the limit, whatever else is under way.
LEMMA PassKeepsBound ==
  ASSUME IInv, NEW t \in Threads, Pass(t)
  PROVE  GuessesBounded'
  <1> DEFINE k0 == key[t]
  <1>1. k0 \in Keys /\ at[t] \in Nat /\ limits[k0] \in Limit
    BY DEF IInv, TypeOK
  <1>2. /\ limits' \in [Keys -> Limit]
        /\ \A k \in Keys : limits'[k].failures <= limits[k].failures
    BY <1>1, CleanUpKeeps DEF Pass
  <1>3. limits'[k0].failures < MaxAttempts
    <2>1. limits'[k0] = Cleaned(limits[k0], at[t])
      BY <1>1 DEF Pass, CleanUp
    <2>2. ~ Blocked(Cleaned(limits[k0], at[t]), at[t])
      BY DEF Pass
    <2>3. limits[k0].blockedUntil =
            (IF limits[k0].failures >= MaxAttempts THEN limits[k0].resetAt ELSE 0)
      BY <1>1 DEF IInv, BlockState
    <2> QED
      BY <1>1, <2>1, <2>2, <2>3, LimitsAssumption DEF Cleaned, Blocked, Fresh, Limit
  <1>4. pc'[t] = "judge" /\ (\A u \in Threads \ {t} : pc'[u] = pc[u]) /\ key' = key
    BY DEF IInv, TypeOK, Pass, Goto
  <1> SUFFICES ASSUME NEW k \in Keys
               PROVE  limits'[k].failures + Cardinality(UnderWay(k)')
                        <= MaxAttempts - 1 + Cardinality(Threads)
    BY DEF GuessesBounded
  <1>5. UnderWay(k) \in SUBSET Threads /\ UnderWay(k)' \in SUBSET Threads
    BY DEF UnderWay
  <1>6. limits[k].failures \in Nat /\ limits'[k].failures \in Nat
    BY <1>2 DEF IInv, TypeOK, Limit
  <1>7. CASE k = k0
    <2>1. Cardinality(UnderWay(k)') <= Cardinality(Threads)
          /\ Cardinality(UnderWay(k)') \in Nat /\ Cardinality(Threads) \in Nat
      BY <1>5, UnderWayFinite
    <2>2. limits'[k].failures < MaxAttempts
      BY <1>3, <1>7
    <2> QED
      BY <1>6, <2>1, <2>2, LimitsAssumption
  <1>8. CASE k # k0
    <2>1. UnderWay(k)' = UnderWay(k)
      BY <1>4, <1>8 DEF UnderWay
    <2>2. /\ limits'[k].failures <= limits[k].failures
          /\ limits[k].failures + Cardinality(UnderWay(k))
               <= MaxAttempts - 1 + Cardinality(Threads)
      BY <1>2 DEF IInv, GuessesBounded
    <2>3. Cardinality(UnderWay(k)) \in Nat /\ Cardinality(Threads) \in Nat
      BY <1>5, UnderWayFinite
    <2> QED
      BY <1>6, <2>1, <2>2, <2>3, LimitsAssumption
  <1> QED
    BY <1>7, <1>8

\* A recorded failure was under way before: the count grows by one at most, and
\* one request fewer is under way.
LEMMA RecordKeepsBound ==
  ASSUME IInv, NEW t \in Threads, Record(t), limits' \in [Keys -> Limit],
         limits'[key[t]].failures <= limits[key[t]].failures + 1,
         \A k \in Keys : k # key[t] => limits'[k] = limits[k]
  PROVE  GuessesBounded'
  <1>1. /\ pc[t] = "record" /\ key' = key
        /\ pc'[t] = "idle" /\ \A u \in Threads \ {t} : pc'[u] = pc[u]
    BY DEF IInv, TypeOK, Record, Goto
  <1> SUFFICES ASSUME NEW k \in Keys
               PROVE  limits'[k].failures + Cardinality(UnderWay(k)')
                        <= MaxAttempts - 1 + Cardinality(Threads)
    BY DEF GuessesBounded
  <1>2. UnderWay(k) \in SUBSET Threads /\ UnderWay(k)' = UnderWay(k) \ {t}
    BY <1>1 DEF UnderWay
  <1>3. /\ Cardinality(UnderWay(k)) \in Nat /\ Cardinality(Threads) \in Nat
        /\ Cardinality(UnderWay(k)') \in Nat
        /\ IsFiniteSet(UnderWay(k))
    BY <1>2, UnderWayFinite
  <1>4. Cardinality(UnderWay(k)') =
          IF k = key[t] THEN Cardinality(UnderWay(k)) - 1 ELSE Cardinality(UnderWay(k))
    <2>1. t \in UnderWay(k) <=> k = key[t]
      BY <1>1 DEF UnderWay
    <2> QED
      BY <1>2, <1>3, <2>1, FS_RemoveElement
  <1>5. /\ limits[k].failures \in Nat /\ limits'[k].failures \in Nat
        /\ limits[k].failures + Cardinality(UnderWay(k))
             <= MaxAttempts - 1 + Cardinality(Threads)
    BY DEF IInv, TypeOK, GuessesBounded, Limit
  <1>6. CASE k = key[t]
    BY <1>3, <1>4, <1>5, <1>6, LimitsAssumption
  <1>7. CASE k # key[t]
    BY <1>3, <1>4, <1>5, <1>7, LimitsAssumption
  <1> QED
    BY <1>6, <1>7

\* Recording a failure keeps the invariant.
LEMMA RecordKeepsInv ==
  ASSUME IInv, NEW t \in Threads, Record(t)
  PROVE  IInv'
  <1> DEFINE k0 == key[t]
  <1>1. /\ k0 \in Keys /\ at[t] \in Nat /\ limits[k0] \in Limit
        /\ judged[k0] \in Seq(Nat)
        /\ limits \in [Keys -> Limit] /\ judged \in [Keys -> Seq(Nat)]
    BY DEF IInv, TypeOK
  <1>2. limits[k0].blockedUntil =
          (IF limits[k0].failures >= MaxAttempts THEN limits[k0].resetAt ELSE 0)
    BY <1>1 DEF IInv, BlockState
  <1>3. /\ limits' = [limits EXCEPT ![k0] = AfterFailure(limits[k0], at[t])]
        /\ judged' = [judged EXCEPT ![k0] = Append(judged[k0], at[t])]
    BY DEF Record
  <1> DEFINE after == AfterFailure(limits[k0], at[t])
  <1>4. /\ after \in Limit
        /\ after.failures <= limits[k0].failures + 1
        /\ after.blockedUntil =
              (IF after.failures >= MaxAttempts THEN after.resetAt ELSE 0)
    BY <1>1, <1>2, RecordedLimit
  <1> HIDE DEF after
  <1>5. /\ limits' \in [Keys -> Limit]
        /\ limits'[k0] = after
        /\ \A k \in Keys : k # k0 => limits'[k] = limits[k]
    BY <1>1, <1>3, <1>4 DEF after
  <1>6. /\ judged' \in [Keys -> Seq(Nat)]
        /\ Len(judged'[k0]) = Len(judged[k0]) + 1
        /\ \A k \in Keys : k # k0 => judged'[k] = judged[k]
    BY <1>1, <1>3
  <1>7. TypeOK'
    BY <1>5, <1>6 DEF IInv, TypeOK, Record, Goto, Labels
  <1>8. BlockState'
    BY <1>4, <1>5 DEF IInv, BlockState
  <1>9. GuessesBounded'
    BY <1>4, <1>5, RecordKeepsBound
  <1>10. BlockedForCause'
    <2>1. after.failures \in Nat /\ limits[k0].failures \in Nat
          /\ Len(judged[k0]) \in Nat /\ after.blockedUntil \in Nat
      BY <1>1, <1>4 DEF Limit
    <2>2. limits[k0].failures <= Len(judged[k0])
      BY <1>1 DEF IInv, BlockedForCause
    <2>3. after.blockedUntil > 0 => after.failures >= MaxAttempts
      BY <1>4, <2>1, LimitsAssumption
    <2>4. /\ after.failures <= Len(judged'[k0])
          /\ after.blockedUntil > 0 => Len(judged'[k0]) >= MaxAttempts
      BY <1>4, <1>6, <2>1, <2>2, <2>3, LimitsAssumption
    <2> QED
      BY <1>5, <1>6, <2>4 DEF IInv, BlockedForCause
  <1> QED
    BY <1>7, <1>8, <1>9, <1>10 DEF IInv

\* No limit counts anything when the service starts.
LEMMA InitInv == Init => IInv
  <1> SUFFICES ASSUME Init PROVE IInv
    OBVIOUS
  <1>1. TypeOK
    BY DEF Init, TypeOK, Labels, Limit, Fresh
  <1>2. BlockState
    BY LimitsAssumption DEF Init, BlockState, Fresh
  <1>3. BlockedForCause
    BY DEF Init, BlockedForCause, Fresh
  <1>4. GuessesBounded
    <2> SUFFICES ASSUME NEW k \in Keys
                 PROVE  limits[k].failures + Cardinality(UnderWay(k))
                          <= MaxAttempts - 1 + Cardinality(Threads)
      BY DEF GuessesBounded
    <2>1. UnderWay(k) \in SUBSET Threads
      BY DEF UnderWay
    <2>2. /\ Cardinality(UnderWay(k)) \in Nat /\ Cardinality(Threads) \in Nat
          /\ Cardinality(UnderWay(k)) <= Cardinality(Threads)
      BY <2>1, UnderWayFinite
    <2>3. limits[k].failures = 0
      BY DEF Init, Fresh
    <2> QED
      BY <2>2, <2>3, LimitsAssumption
  <1> QED
    BY <1>1, <1>2, <1>3, <1>4 DEF IInv

\* Every step of a request keeps the invariant.
LEMMA RequestKeepsInv ==
  ASSUME IInv, NEW t \in Threads, Request(t)
  PROVE  IInv'
  <1>0. TypeOK /\ at[t] \in Nat
    BY DEF IInv, TypeOK
  <1>1. CASE Begin(t)
    <2>1. TypeOK'
      BY <1>0, <1>1 DEF TypeOK, Begin, Goto, ReadClock, Labels
    <2>2. /\ pc' = [pc EXCEPT ![t] = "check"] /\ key' \in [Threads -> Keys]
          /\ \A u \in Threads \ {t} : key'[u] = key[u]
      BY <1>0, <1>1 DEF TypeOK, Begin, Goto
    <2>3. \A k \in Keys : UnderWay(k)' \subseteq UnderWay(k)
      <3>1. "check" \in Labels /\ "check" \notin {"judge", "record"}
        BY DEF Labels
      <3> QED
        BY <2>2, <3>1, LeavingAddsNothing
    <2> QED
      BY <1>1, <2>1, <2>3, UnchangedLimits DEF Begin
  <1>2. CASE Refuse(t)
    <2>1. /\ limits' \in [Keys -> Limit]
          /\ \A k \in Keys : limits'[k].failures <= limits[k].failures
          /\ BlockState' /\ BlockedForCause'
      BY <1>0, <1>2, CleanUpKeeps DEF Refuse
    <2>2. TypeOK'
      BY <1>0, <1>2, <2>1 DEF TypeOK, Refuse, Goto, Labels
    <2>3. \A k \in Keys : UnderWay(k)' \subseteq UnderWay(k)
      BY <1>2, IdleAddsNothing DEF Refuse
    <2> QED
      BY <2>1, <2>2, <2>3, FewerKeepsBound DEF IInv
  <1>3. CASE Pass(t)
    <2>1. limits' \in [Keys -> Limit] /\ BlockState' /\ BlockedForCause'
      BY <1>0, <1>3, CleanUpKeeps DEF Pass
    <2>2. TypeOK'
      BY <1>0, <1>3, <2>1 DEF TypeOK, Pass, Goto, Labels
    <2> QED
      BY <1>3, <2>1, <2>2, PassKeepsBound DEF IInv
  <1>4. CASE JudgeWrong(t)
    <2>1. TypeOK'
      BY <1>0, <1>4 DEF TypeOK, JudgeWrong, Goto, ReadClock, Labels
    <2>2. \A k \in Keys : UnderWay(k)' \subseteq UnderWay(k)
      <3>1. "record" \in Labels
        BY DEF Labels
      <3>2. key' = key /\ key \in [Threads -> Keys] /\ pc[t] = "judge"
            /\ pc' = [pc EXCEPT ![t] = "record"]
        BY <1>0, <1>4 DEF TypeOK, JudgeWrong, Goto
      <3> QED
        BY <3>1, <3>2, LeavingAddsNothing
    <2> QED
      BY <1>4, <2>1, <2>2, UnchangedLimits DEF JudgeWrong
  <1>5. CASE JudgeDenied(t)
    <2>1. TypeOK'
      BY <1>0, <1>5 DEF TypeOK, JudgeDenied, Goto, Labels
    <2> QED
      BY <1>5, <2>1, IdleAddsNothing, UnchangedLimits DEF JudgeDenied
  <1>6. CASE JudgeRight(t)
    <2>1. TypeOK'
      BY <1>0, <1>6 DEF TypeOK, JudgeRight, Goto, Labels
    <2>2. \A k \in Keys : UnderWay(k)' \subseteq UnderWay(k)
      <3>1. "clear" \in Labels /\ "clear" \notin {"judge", "record"}
        BY DEF Labels
      <3>2. key' = key /\ key \in [Threads -> Keys] /\ pc' = [pc EXCEPT ![t] = "clear"]
        BY <1>0, <1>6 DEF TypeOK, JudgeRight, Goto
      <3> QED
        BY <3>1, <3>2, LeavingAddsNothing
    <2> QED
      BY <1>6, <2>1, <2>2, UnchangedLimits DEF JudgeRight
  <1>7. CASE Record(t)
    BY <1>7, RecordKeepsInv
  <1>8. CASE Clear(t)
    <2>1. /\ limits' = [k \in Keys |-> IF k \in {key[t]} THEN Fresh ELSE limits[k]]
          /\ judged' = [k \in Keys |-> IF k \in {key[t]} THEN << >> ELSE judged[k]]
      BY <1>0, <1>8 DEF TypeOK, Clear
    <2>2. {key[t]} \in SUBSET Keys
      BY <1>0 DEF TypeOK
    <2>3. /\ limits' \in [Keys -> Limit] /\ judged' \in [Keys -> Seq(Nat)]
          /\ \A k \in Keys : limits'[k].failures <= limits[k].failures
          /\ BlockState' /\ BlockedForCause'
      BY <2>1, <2>2, ClearingKeeps
    <2>4. TypeOK'
      BY <1>0, <1>8, <2>3 DEF TypeOK, Clear, Goto, Labels
    <2>5. \A k \in Keys : UnderWay(k)' \subseteq UnderWay(k)
      BY <1>8, IdleAddsNothing DEF Clear
    <2> QED
      BY <2>3, <2>4, <2>5, FewerKeepsBound DEF IInv
  <1> QED
    BY <1>1, <1>2, <1>3, <1>4, <1>5, <1>6, <1>7, <1>8 DEF Request

\* Accounts that change, restarts and the clock keep the invariant.
LEMMA NextKeepsInv ==
  ASSUME IInv, [Next]_vars
  PROVE  IInv'
  <1>0. TypeOK
    BY DEF IInv
  <1>1. ASSUME NEW t \in Threads, Request(t) PROVE IInv'
    BY <1>1, RequestKeepsInv
  <1>2. ASSUME NEW names \in SUBSET Accounts \ {{}}, ClearForAccounts(names) PROVE IInv'
    <2> DEFINE K == {k \in Keys : k[2] \in names}
    <2>1. /\ limits' = [k \in Keys |-> IF k \in K THEN Fresh ELSE limits[k]]
          /\ judged' = [k \in Keys |-> IF k \in K THEN << >> ELSE judged[k]]
          /\ now' = now /\ pc' = pc /\ key' = key /\ at' = at
      BY <1>2 DEF ClearForAccounts, reqVars
    <2>2. /\ limits' \in [Keys -> Limit] /\ judged' \in [Keys -> Seq(Nat)]
          /\ \A k \in Keys : limits'[k].failures <= limits[k].failures
          /\ BlockState' /\ BlockedForCause'
      BY <2>1, ClearingKeeps
    <2>3. TypeOK'
      BY <1>0, <2>1, <2>2 DEF TypeOK
    <2>4. \A k \in Keys : UnderWay(k)' \subseteq UnderWay(k)
      BY <2>1 DEF UnderWay
    <2> QED
      BY <2>2, <2>3, <2>4, FewerKeepsBound DEF IInv
  <1>3. CASE Restart
    <2>1. /\ limits' = [k \in Keys |-> IF k \in Keys THEN Fresh ELSE limits[k]]
          /\ judged' = [k \in Keys |-> IF k \in Keys THEN << >> ELSE judged[k]]
          /\ now' = now /\ key' = key /\ at' = at
          /\ pc' = [t \in Threads |-> "idle"]
      BY <1>3 DEF Restart
    <2>2. /\ limits' \in [Keys -> Limit] /\ judged' \in [Keys -> Seq(Nat)]
          /\ \A k \in Keys : limits'[k].failures <= limits[k].failures
          /\ BlockState' /\ BlockedForCause'
      BY <2>1, ClearingKeeps
    <2>3. TypeOK'
      BY <1>0, <2>1, <2>2 DEF TypeOK, Labels
    <2>4. \A k \in Keys : UnderWay(k)' \subseteq UnderWay(k)
      BY <2>1 DEF UnderWay
    <2> QED
      BY <2>2, <2>3, <2>4, FewerKeepsBound DEF IInv
  <1>4. CASE Tick \/ UNCHANGED vars
    <2>1. UNCHANGED <<limits, reqVars, judged>> /\ now' \in Nat /\ now' >= now
      BY <1>0, <1>4 DEF Tick, vars, reqVars, TypeOK
    <2>2. TypeOK'
      BY <1>0, <2>1 DEF TypeOK, reqVars
    <2>3. BlockState' /\ BlockedForCause'
      BY <2>1 DEF IInv, BlockState, BlockedForCause
    <2>4. GuessesBounded'
      BY <2>1 DEF IInv, GuessesBounded, UnderWay, reqVars
    <2> QED
      BY <2>2, <2>3, <2>4 DEF IInv
  <1> QED
    BY <1>1, <1>2, <1>3, <1>4 DEF Next

-----------------------------------------------------------------------------
(* How many failures a stretch of time may hold: what a limit and the times of *)
(* the failures recorded on its key, in the order they were recorded, say of   *)
(* each other at time n.  The last failures of J are those the limit counts.   *)

\* A limit as it is made, which counts failures that were recorded, all of them
\* in the past.
Counted(limit, J, n) ==
    /\ limit \in Limit /\ J \in Seq(Nat) /\ n \in Nat
    /\ limit.blockedUntil =
          (IF limit.failures >= MaxAttempts THEN limit.resetAt ELSE 0)
    /\ limit.failures <= Len(J)
    /\ \A i \in 1 .. Len(J) : J[i] <= n

NothingIsFresh(limit) ==
    limit.failures = 0 \/ limit.resetAt = 0 => limit = Fresh

\* When a block ends, all failures are a window's length ago, but for the lag.
BeforeBlock(limit, J) ==
    limit.blockedUntil > 0 =>
        \A i \in 1 .. Len(J) : J[i] + Window <= limit.blockedUntil + MaxLag

\* When a window ends, so are the one it began with and all before that.
BeforeWindow(limit, J) ==
    limit.blockedUntil = 0 /\ limit.failures > 0 =>
        \A i \in 1 .. (Len(J) - limit.failures) + 1 :
            J[i] + Window <= limit.resetAt + MaxLag

\* The failures among the first m of J that are not a window's length ago.
Recent(J, m, n) == {i \in 1 .. m : J[i] + Window > n + MaxLag}

\* While a key is not blocked, those of them that are no longer counted are two
\* short of the limit.
FewRecent(limit, J, n) ==
    limit.blockedUntil = 0 /\ MaxAttempts > 1 =>
        Cardinality(Recent(J, Len(J) - limit.failures, n)) <= MaxAttempts - 2

Dated(limit, J, n) ==
    /\ Counted(limit, J, n)
    /\ NothingIsFresh(limit)
    /\ BeforeBlock(limit, J)
    /\ BeforeWindow(limit, J)
    /\ FewRecent(limit, J, n)

\* A set of places between two others has no more elements than there are places.
LEMMA PlacesBetween ==
  ASSUME NEW a \in Nat, NEW b \in Nat, NEW S \in SUBSET (a .. b)
  PROVE  /\ IsFiniteSet(S)
         /\ Cardinality(S) \in Nat
         /\ a <= b + 1 => Cardinality(S) <= (b + 1) - a
         /\ a > b => S = {}
  <1>1. IsFiniteSet(a .. b) /\ Cardinality(a .. b) = IF a > b THEN 0 ELSE b - a + 1
    BY FS_Interval
  <1>2. IsFiniteSet(S) /\ Cardinality(S) <= Cardinality(a .. b)
    BY <1>1, FS_Subset
  <1>3. Cardinality(S) \in Nat
    BY <1>2, FS_CardinalityType
  <1>4. a <= b + 1 => Cardinality(S) <= (b + 1) - a
    BY <1>1, <1>2
  <1>5. a > b => S = {}
    OBVIOUS
  <1> QED
    BY <1>2, <1>3, <1>4, <1>5

\* Fewer failures are recent among fewer of them, or later.
LEMMA RecentShrinks ==
  ASSUME NEW J \in Seq(Nat), NEW m \in Nat, NEW l \in Nat, NEW n \in Nat, NEW o \in Nat,
         l <= m, n <= o
  PROVE  /\ IsFiniteSet(Recent(J, l, o))
         /\ Cardinality(Recent(J, l, o)) \in Nat
         /\ Cardinality(Recent(J, m, n)) \in Nat
         /\ m <= Len(J) => Cardinality(Recent(J, l, o)) <= Cardinality(Recent(J, m, n))
  <1>1. Recent(J, m, n) \in SUBSET (1 .. m) /\ Recent(J, l, o) \in SUBSET (1 .. l)
    BY DEF Recent
  <1>2. /\ IsFiniteSet(Recent(J, m, n)) /\ IsFiniteSet(Recent(J, l, o))
        /\ Cardinality(Recent(J, m, n)) \in Nat /\ Cardinality(Recent(J, l, o)) \in Nat
    BY <1>1, PlacesBetween
  <1>3. ASSUME m <= Len(J)
        PROVE  Cardinality(Recent(J, l, o)) <= Cardinality(Recent(J, m, n))
    <2>1. \A i \in 1 .. m : J[i] \in Nat
      BY <1>3
    <2>2. Recent(J, l, o) \subseteq Recent(J, m, n)
      BY <2>1, LimitsAssumption DEF Recent
    <2> QED
      BY <1>2, <2>2, FS_Subset
  <1> QED
    BY <1>2, <1>3

\* Time passes.
LEMMA DatedLater ==
  ASSUME NEW limit, NEW J, NEW n, Dated(limit, J, n), NEW o \in Nat, n <= o
  PROVE  Dated(limit, J, o)
  <1>1. /\ limit \in Limit /\ J \in Seq(Nat) /\ n \in Nat
        /\ limit.failures <= Len(J) /\ limit.failures \in Nat
        /\ \A i \in 1 .. Len(J) : J[i] \in Nat
    BY DEF Dated, Counted, Limit
  <1>2. Counted(limit, J, o)
    BY <1>1 DEF Dated, Counted
  <1>3. FewRecent(limit, J, o)
    <2> DEFINE m == Len(J) - limit.failures
    <2>1. m \in Nat /\ m <= Len(J)
      BY <1>1
    <2>2. /\ Cardinality(Recent(J, m, o)) <= Cardinality(Recent(J, m, n))
          /\ Cardinality(Recent(J, m, o)) \in Nat /\ Cardinality(Recent(J, m, n)) \in Nat
      <3> HIDE DEF m
      <3>1. m <= m
        BY <2>1
      <3> QED
        BY <1>1, <2>1, <3>1, RecentShrinks
    <2>3. limit.blockedUntil = 0 /\ MaxAttempts > 1 =>
             Cardinality(Recent(J, m, n)) <= MaxAttempts - 2
      BY DEF Dated, FewRecent
    <2>4. limit.blockedUntil = 0 /\ MaxAttempts > 1 =>
             Cardinality(Recent(J, m, o)) <= MaxAttempts - 2
      <3> HIDE DEF m
      <3> QED
        BY <2>2, <2>3, LimitsAssumption
    <2> QED
      BY <2>4 DEF FewRecent
  <1> QED
    BY <1>2, <1>3 DEF Dated

\* A key on which nothing is recorded.
LEMMA DatedFresh ==
  ASSUME NEW n \in Nat
  PROVE  Dated(Fresh, << >>, n)
  <1>1. Fresh \in Limit /\ Fresh.failures = 0 /\ Fresh.blockedUntil = 0 /\ Fresh.resetAt = 0
    BY DEF Fresh, Limit
  <1>2. Counted(Fresh, << >>, n)
    BY <1>1, LimitsAssumption DEF Counted
  <1>3. Recent(<< >>, 0, n) = {}
    BY DEF Recent
  <1>4. Cardinality(Recent(<< >>, 0, n)) = 0
    BY <1>3, FS_EmptySet
  <1>5. FewRecent(Fresh, << >>, n)
    BY <1>1, <1>4, LimitsAssumption DEF FewRecent
  <1> QED
    BY <1>1, <1>2, <1>5 DEF Dated, NothingIsFresh, BeforeBlock, BeforeWindow

\* At the end of its window, or of its block, what a limit has counted is recent no
\* more but for those after the first.
LEMMA WindowOver ==
  ASSUME NEW limit, NEW J, NEW n, Dated(limit, J, n), limit.resetAt <= n,
         MaxAttempts > 1
  PROVE  Cardinality(Recent(J, Len(J), n)) <= MaxAttempts - 2
  <1> DEFINE f == limit.failures
             R == Recent(J, Len(J), n)
  <1>1. /\ limit \in Limit /\ J \in Seq(Nat) /\ n \in Nat
        /\ f <= Len(J) /\ f \in Nat /\ limit.resetAt \in Nat /\ limit.blockedUntil \in Nat
        /\ limit.blockedUntil = (IF f >= MaxAttempts THEN limit.resetAt ELSE 0)
        /\ \A i \in 1 .. Len(J) : J[i] \in Nat
        /\ Len(J) \in Nat
    BY DEF Dated, Counted, Limit
  <1>2. CASE limit.blockedUntil > 0
    <2>1. \A i \in 1 .. Len(J) : J[i] + Window <= limit.blockedUntil + MaxLag
      BY <1>2 DEF Dated, BeforeBlock
    <2>2. limit.blockedUntil <= n
      BY <1>1, <1>2
    <2>3. R = {}
      <3> SUFFICES ASSUME NEW i \in 1 .. Len(J)
                   PROVE  ~ (J[i] + Window > n + MaxLag)
        BY DEF Recent
      <3>1. J[i] \in Nat /\ J[i] + Window <= limit.blockedUntil + MaxLag
        BY <1>1, <2>1
      <3>2. n \in Nat /\ limit.blockedUntil \in Nat
        BY <1>1
      <3> QED
        BY <2>2, <3>1, <3>2, LimitsAssumption
    <2>4. Cardinality(R) = 0
      BY <2>3, FS_EmptySet
    <2> QED
      BY <2>4, LimitsAssumption
  <1>3. CASE limit.blockedUntil = 0 /\ f = 0
    BY <1>1, <1>3 DEF Dated, FewRecent
  <1>4. CASE limit.blockedUntil = 0 /\ f > 0
    <2>1. \A i \in 1 .. (Len(J) - f) + 1 : J[i] + Window <= limit.resetAt + MaxLag
      BY <1>4 DEF Dated, BeforeWindow
    <2>2. f < MaxAttempts
      <3>1. CASE f >= MaxAttempts
        <4>1. limit.resetAt = 0
          BY <1>1, <1>4, <3>1
        <4>2. limit.failures = 0
          BY <4>1 DEF Dated, NothingIsFresh, Fresh
        <4> QED
          BY <1>4, <4>2
      <3> QED
        BY <1>1, <3>1, LimitsAssumption
    <2>3. R \in SUBSET (((Len(J) - f) + 2) .. Len(J))
      <3> SUFFICES ASSUME NEW i \in R
                   PROVE  i \in ((Len(J) - f) + 2) .. Len(J)
        OBVIOUS
      <3>1. i \in 1 .. Len(J) /\ J[i] + Window > n + MaxLag
        BY DEF Recent
      <3>2. J[i] \in Nat /\ n \in Nat /\ limit.resetAt \in Nat /\ limit.resetAt <= n
        BY <1>1, <3>1
      <3>3. ~ (J[i] + Window <= limit.resetAt + MaxLag)
        BY <3>1, <3>2, LimitsAssumption
      <3>4. i \notin 1 .. (Len(J) - f) + 1
        BY <2>1, <3>3
      <3> QED
        BY <1>1, <3>1, <3>4
    <2>4. Cardinality(R) \in Nat /\ Cardinality(R) <= f - 1
      <3>1. (Len(J) - f) + 2 \in Nat /\ (Len(J) - f) + 2 <= Len(J) + 1
        BY <1>1, <1>4
      <3>2. Cardinality(R) \in Nat /\ Cardinality(R) <= (Len(J) + 1) - ((Len(J) - f) + 2)
        BY <1>1, <2>3, <3>1, PlacesBetween
      <3> QED
        BY <1>1, <3>2
    <2> QED
      BY <1>1, <2>2, <2>4, LimitsAssumption
  <1> QED
    BY <1>1, <1>2, <1>3, <1>4

\* The clean-up takes a limit away only when its window and its block are over.
LEMMA DatedCleaned ==
  ASSUME NEW limit, NEW J, NEW n, Dated(limit, J, n), NEW a \in Nat, a <= n
  PROVE  Dated(Cleaned(limit, a), J, n)
  <1>1. /\ limit \in Limit /\ J \in Seq(Nat) /\ n \in Nat /\ limit.resetAt \in Nat
        /\ \A i \in 1 .. Len(J) : J[i] <= n
    BY DEF Dated, Counted, Limit
  <1>2. CASE Cleaned(limit, a) = limit
    BY <1>2
  <1>3. CASE Cleaned(limit, a) # limit
    <2>1. Cleaned(limit, a) = Fresh /\ limit.resetAt <= n
      BY <1>1, <1>3 DEF Cleaned
    <2>2. Fresh \in Limit /\ Fresh.failures = 0 /\ Fresh.blockedUntil = 0 /\ Fresh.resetAt = 0
      BY DEF Fresh, Limit
    <2>3. Counted(Fresh, J, n)
      BY <1>1, <2>2, LimitsAssumption DEF Counted
    <2>4. FewRecent(Fresh, J, n)
      <3>1. Len(J) - Fresh.failures = Len(J)
        BY <1>1, <2>2
      <3> QED
        BY <2>1, <3>1, WindowOver DEF FewRecent
    <2> QED
      BY <2>1, <2>2, <2>3, <2>4 DEF Dated, NothingIsFresh, BeforeBlock, BeforeWindow
  <1> QED
    BY <1>2, <1>3

\* A failure is recorded with a time that is late by the lag at most.
LEMMA DatedRecorded ==
  ASSUME NEW limit, NEW J, NEW n, Dated(limit, J, n),
         NEW a \in Nat, a <= n, n <= a + MaxLag
  PROVE  Dated(AfterFailure(limit, a), Append(J, a), n)
  <1> DEFINE after == AfterFailure(limit, a)
             counted == Counting(limit, a)
             block == a + Cooldown
             K == Append(J, a)
             l == Len(J)
  <1> SUFFICES Dated(after, K, n)
    OBVIOUS
  <1>1. /\ limit \in Limit /\ J \in Seq(Nat) /\ n \in Nat
        /\ limit.failures <= l /\ limit.failures \in Nat
        /\ limit.resetAt \in Nat /\ limit.blockedUntil \in Nat
        /\ limit.blockedUntil =
              (IF limit.failures >= MaxAttempts THEN limit.resetAt ELSE 0)
        /\ l \in Nat
    BY DEF Dated, Counted, Limit
  <1>2. /\ K \in Seq(Nat) /\ Len(K) = l + 1 /\ K[l + 1] = a
        /\ \A i \in 1 .. l : K[i] = J[i]
        /\ \A i \in 1 .. l + 1 : K[i] \in Nat /\ K[i] <= n /\ K[i] <= a + MaxLag
    <2>1. K \in Seq(Nat) /\ Len(K) = l + 1 /\ K[l + 1] = a /\ \A i \in 1 .. l : K[i] = J[i]
      BY <1>1
    <2>2. \A i \in 1 .. l : J[i] \in Nat /\ J[i] <= n
      BY DEF Dated, Counted
    <2> HIDE DEF K, l
    <2>3. ASSUME NEW i \in 1 .. l + 1
          PROVE  K[i] \in Nat /\ K[i] <= n /\ K[i] <= a + MaxLag
      <3>1. CASE i = l + 1
        BY <1>1, <2>1, <3>1, LimitsAssumption
      <3>2. CASE i \in 1 .. l
        <4>1. K[i] \in Nat /\ K[i] <= n
          BY <2>1, <2>2, <3>2
        <4> QED
          BY <1>1, <4>1, LimitsAssumption
      <3> QED
        BY <1>1, <3>1, <3>2
    <2> QED
      BY <2>1, <2>3
  <1>3. /\ after \in Limit
        /\ after.failures <= limit.failures + 1
        /\ after.blockedUntil =
              (IF after.failures >= MaxAttempts THEN after.resetAt ELSE 0)
    BY <1>1, RecordedLimit
  <1>4. after = IF counted.failures >= MaxAttempts
                THEN [counted EXCEPT !.blockedUntil = block, !.resetAt = block]
                ELSE counted
    BY DEF AfterFailure
  <1>5. counted \in Limit /\ block \in Nat
    <2>1. limit \in Limit
      BY <1>1
    <2> QED
      BY <2>1, LimitsAssumption DEF Counting, Limit
  <1>6. counted.failures > 0 /\ after.failures = counted.failures
    <2>1. counted.failures > 0
      BY <1>1, LimitsAssumption DEF Counting, Limit
    <2> HIDE DEF counted, after
    <2> QED
      BY <1>4, <1>5, <2>1 DEF Limit
  <1> HIDE DEF K, l
  <1>7. Counted(after, K, n)
    <2> HIDE DEF after
    <2>1. after.failures <= l + 1
      <3>1. after.failures \in Nat
        BY <1>3 DEF Limit
      <3> QED
        BY <1>1, <1>3, <3>1
    <2>2. \A i \in 1 .. Len(K) : K[i] <= n
      BY <1>2
    <2> QED
      BY <1>1, <1>2, <1>3, <2>1, <2>2 DEF Counted
  <1>8. CASE counted.failures >= MaxAttempts
    <2>1. after.blockedUntil = block /\ after.resetAt = block
      <3> HIDE DEF counted, after
      <3> QED
        BY <1>4, <1>5, <1>8 DEF Limit
    <2>2. after.resetAt > 0
      BY <2>1, LimitsAssumption
    <2> HIDE DEF counted, after, block
    <2>3. BeforeBlock(after, K)
      <3>1. \A i \in 1 .. l + 1 : K[i] + Window <= block + MaxLag
        BY <1>1, <1>2, LimitsAssumption, CooldownAssumption DEF block
      <3> QED
        BY <1>2, <2>1, <3>1 DEF BeforeBlock
    <2>4. NothingIsFresh(after)
      BY <1>5, <1>6, <2>2 DEF NothingIsFresh, Limit
    <2>5. after.blockedUntil # 0
      BY <2>1, <2>2
    <2> QED
      BY <1>7, <2>3, <2>4, <2>5 DEF Dated, BeforeWindow, FewRecent
  <1>9. CASE ~ (counted.failures >= MaxAttempts)
    <2>1. after = counted /\ after.failures < MaxAttempts /\ after.blockedUntil = 0
      <3>1. after = counted
        BY <1>4, <1>9
      <3> HIDE DEF counted, after
      <3> QED
        BY <1>3, <1>5, <1>9, <3>1, LimitsAssumption DEF Limit
    <2>2. BeforeBlock(after, K)
      BY <2>1 DEF BeforeBlock
    <2>3. CASE limit.resetAt = 0 \/ a > limit.resetAt
      <3>1. after.failures = 1 /\ after.resetAt = a + Window
        BY <2>1, <2>3 DEF Counting
      <3>2. NothingIsFresh(after)
        BY <3>1, LimitsAssumption DEF NothingIsFresh
      <3>3. BeforeWindow(after, K)
        <4> HIDE DEF after
        <4>1. (Len(K) - after.failures) + 1 = l + 1
          BY <1>1, <1>2, <3>1
        <4>2. \A i \in 1 .. l + 1 : K[i] + Window <= after.resetAt + MaxLag
          BY <1>2, <3>1, LimitsAssumption
        <4> QED
          BY <4>1, <4>2 DEF BeforeWindow
      <3>4. FewRecent(after, K, n)
        <4> SUFFICES ASSUME MaxAttempts > 1
                     PROVE  Cardinality(Recent(K, Len(K) - after.failures, n)) <= MaxAttempts - 2
          BY DEF FewRecent
        <4> HIDE DEF after
        <4>1. Len(K) - after.failures = l
          BY <1>1, <1>2, <3>1
        <4>2. Recent(K, l, n) = Recent(J, l, n)
          BY <1>2 DEF Recent
        <4>3. limit.resetAt <= n
          BY <1>1, <2>3
        <4>4. Cardinality(Recent(J, l, n)) <= MaxAttempts - 2
          BY <4>3, WindowOver DEF l
        <4> QED
          BY <4>1, <4>2, <4>4
      <3> QED
        BY <1>7, <2>2, <3>2, <3>3, <3>4 DEF Dated
    <2>4. CASE ~ (limit.resetAt = 0 \/ a > limit.resetAt)
      <3>1. /\ after.failures = limit.failures + 1 /\ after.resetAt = limit.resetAt
            /\ limit.blockedUntil = 0
        BY <1>1, <2>1, <2>4 DEF Counting, Limit
      <3>2. limit.failures > 0
        <4>1. limit.failures # 0
          BY <2>4 DEF Dated, NothingIsFresh, Fresh
        <4> QED
          BY <1>1, <4>1
      <3> HIDE DEF after, counted
      <3>3. NothingIsFresh(after)
        BY <1>1, <2>4, <3>1 DEF NothingIsFresh
      <3>4. Len(K) - after.failures = l - limit.failures
        <4>1. l \in Nat /\ limit.failures \in Nat /\ Len(K) = l + 1
          BY <1>1, <1>2
        <4> QED
          BY <3>1, <4>1
      <3>5. \A i \in 1 .. (l - limit.failures) + 1 : i \in 1 .. l
        BY <1>1, <3>2
      <3>6. BeforeWindow(after, K)
        <4>1. \A i \in 1 .. (l - limit.failures) + 1 :
                  J[i] + Window <= limit.resetAt + MaxLag
          BY <3>1, <3>2 DEF Dated, BeforeWindow, l
        <4>2. \A i \in 1 .. (l - limit.failures) + 1 :
                  K[i] + Window <= after.resetAt + MaxLag
          BY <1>2, <3>1, <3>5, <4>1
        <4> QED
          BY <3>4, <4>2 DEF BeforeWindow
      <3>7. FewRecent(after, K, n)
        <4>1. \A i \in 1 .. l - limit.failures : i \in 1 .. l
          BY <1>1
        <4>2. Recent(K, l - limit.failures, n) = Recent(J, l - limit.failures, n)
          BY <1>2, <4>1 DEF Recent
        <4> QED
          BY <3>1, <3>4, <4>2 DEF Dated, FewRecent, l
      <3> QED
        BY <1>7, <2>2, <3>3, <3>6, <3>7 DEF Dated
    <2> QED
      BY <2>3, <2>4
  <1> QED
    BY <1>8, <1>9

\* The requests under way on k whose failure may have a time of the stretch.
Coming(k, start) ==
    {t \in UnderWay(k) :
        \/ pc[t] = "judge" /\ now + MaxLag < start + Window
        \/ pc[t] = "record" /\ at[t] >= start /\ at[t] + MaxLag < start + Window}

\* The failures of a stretch and those that may join them.
QuotaFor(k, start) ==
    Cardinality(During(k, start)) + Cardinality(Coming(k, start))
        <= (MaxAttempts - 1) + (MaxAttempts - 2) + Cardinality(Threads)

\* The inductive invariant behind WindowQuota.
QInv ==
    /\ IInv
    /\ \A t \in Threads : pc[t] \in {"check", "record"} => now <= at[t] + MaxLag
    /\ \A k \in Keys : Dated(limits[k], judged[k], now)
    /\ MaxAttempts > 1 => \A k \in Keys : \A start \in Nat : QuotaFor(k, start)

\* Both are finite sets.
LEMMA QuotaFinite ==
  ASSUME TypeOK, NEW k \in Keys, NEW start \in Nat
  PROVE  /\ IsFiniteSet(During(k, start)) /\ Cardinality(During(k, start)) \in Nat
         /\ IsFiniteSet(Coming(k, start)) /\ Cardinality(Coming(k, start)) \in Nat
         /\ Cardinality(Coming(k, start)) <= Cardinality(Threads)
         /\ Cardinality(Threads) \in Nat
  <1>1. judged[k] \in Seq(Nat)
    BY DEF TypeOK
  <1>2. During(k, start) \in SUBSET (1 .. Len(judged[k])) /\ Len(judged[k]) \in Nat
    BY <1>1 DEF During
  <1>3. IsFiniteSet(During(k, start)) /\ Cardinality(During(k, start)) \in Nat
    BY <1>2, PlacesBetween
  <1>4. Coming(k, start) \in SUBSET Threads
    BY DEF Coming, UnderWay
  <1> QED
    BY <1>3, <1>4, UnderWayFinite

\* A step that records nothing and lets nothing pass that could still be recorded
\* in the stretch keeps its quota.
LEMMA FewerKeepsQuota ==
  ASSUME TypeOK, TypeOK', NEW k \in Keys, NEW start \in Nat, QuotaFor(k, start),
         judged'[k] \in {judged[k], << >>},
         Coming(k, start)' \subseteq Coming(k, start)
  PROVE  QuotaFor(k, start)'
  <1>1. During(k, start)' \subseteq During(k, start)
    BY DEF During
  <1>2. Cardinality(During(k, start)') <= Cardinality(During(k, start))
    BY <1>1, QuotaFinite, FS_Subset
  <1>3. Cardinality(Coming(k, start)') <= Cardinality(Coming(k, start))
    BY QuotaFinite, FS_Subset
  <1>4. /\ Cardinality(During(k, start)) \in Nat /\ Cardinality(Coming(k, start)) \in Nat
        /\ Cardinality(Threads) \in Nat
    BY QuotaFinite
  <1>5. Cardinality(During(k, start)') \in Nat /\ Cardinality(Coming(k, start)') \in Nat
    <2>1. judged'[k] \in Seq(Nat)
      BY DEF TypeOK
    <2>2. During(k, start)' \in SUBSET (1 .. Len(judged'[k])) /\ Len(judged'[k]) \in Nat
      BY <2>1 DEF During
    <2>3. Cardinality(During(k, start)') \in Nat
      BY <2>2, PlacesBetween
    <2>4. Coming(k, start)' \in SUBSET Threads
      BY DEF Coming, UnderWay
    <2> QED
      BY <2>3, <2>4, UnderWayFinite
  <1> QED
    BY <1>2, <1>3, <1>4, <1>5, LimitsAssumption DEF QuotaFor

\* A request that passes finds its key open: what the stretch holds then is what a
\* window may have left and what the running one counts.
LEMMA PassKeepsQuota ==
  ASSUME QInv, NEW t \in Threads, Pass(t), TypeOK', MaxAttempts > 1,
         NEW k \in Keys, k = key[t],
         NEW start \in Nat, now + MaxLag < start + Window
  PROVE  QuotaFor(k, start)'
  <1> DEFINE J == judged[k]
             limit == limits'[k]
             l == Len(J)
             f == limit.failures
  <1>1. /\ k \in Keys /\ at[t] \in Nat /\ at[t] <= now /\ now \in Nat
        /\ judged' = judged /\ key' = key /\ now' = now
        /\ J \in Seq(Nat) /\ l \in Nat
    BY DEF QInv, IInv, TypeOK, Pass
  <1>2. limit = Cleaned(limits[k], at[t])
    BY <1>1 DEF Pass, CleanUp
  <1>3. Dated(limit, J, now)
    BY <1>1, <1>2, DatedCleaned DEF QInv
  <1>4. /\ limit \in Limit /\ f \in Nat /\ f <= l
        /\ limit.blockedUntil =
              (IF f >= MaxAttempts THEN limit.resetAt ELSE 0)
        /\ \A i \in 1 .. l : J[i] \in Nat
    <2>1. /\ limit \in Limit /\ f <= l
          /\ limit.blockedUntil =
                (IF f >= MaxAttempts THEN limit.resetAt ELSE 0)
      BY <1>3 DEF Dated, Counted
    <2>2. f \in Nat
      <3> HIDE DEF limit
      <3> QED
        BY <2>1 DEF Limit
    <2>3. \A i \in 1 .. l : J[i] \in Nat
      BY <1>1
    <2> QED
      BY <2>1, <2>2, <2>3
  <1>5. f < MaxAttempts /\ limit.blockedUntil = 0
    <2>1. ~ Blocked(limit, at[t])
      BY <1>2 DEF Pass
    <2>2. limit.blockedUntil = 0
      <3>1. limits[k].blockedUntil =
              (IF limits[k].failures >= MaxAttempts THEN limits[k].resetAt ELSE 0)
            /\ limits[k] \in Limit
        BY <1>1 DEF QInv, IInv, BlockState, TypeOK
      <3> HIDE DEF limit
      <3> QED
        BY <1>1, <1>2, <2>1, <3>1, LimitsAssumption DEF Blocked, Cleaned, Fresh, Limit
    <2>3. CASE f >= MaxAttempts
      <3>1. limit = Fresh
        BY <1>3, <1>4, <2>2, <2>3 DEF Dated, NothingIsFresh
      <3> QED
        BY <2>3, <3>1, LimitsAssumption DEF Fresh
    <2> HIDE DEF f
    <2> QED
      BY <1>4, <2>2, <2>3, LimitsAssumption
  <1> HIDE DEF limit
  <1> DEFINE old == Recent(J, l - f, now)
             new == ((l - f) + 1) .. l
  <1>6. During(k, start)' \subseteq old \cup new
    <2> SUFFICES ASSUME NEW i \in 1 .. l, J[i] >= start,
                        J[i] + MaxLag < start + Window
                 PROVE  i \in old \cup new
      <3>1. judged'[k] = J /\ DOMAIN J = 1 .. l
        BY <1>1
      <3> QED
        BY <3>1 DEF During
    <2>1. J[i] \in Nat
      BY <1>4
    <2>2. J[i] + Window > now + MaxLag
      <3> DEFINE d == J[i]
      <3>1. d \in Nat /\ d + MaxLag < start + Window /\ now \in Nat /\ d >= start
        BY <1>1, <2>1
      <3> HIDE DEF d
      <3>2. d + Window > now + MaxLag
        BY <3>1, LimitsAssumption
      <3> QED
        BY <3>2 DEF d
    <2> HIDE DEF J
    <2> QED
      BY <1>1, <1>4, <2>2 DEF Recent
  <1>7. IsFiniteSet(old) /\ Cardinality(old) \in Nat /\ Cardinality(old) <= MaxAttempts - 2
    <2>1. l - f \in Nat /\ old \in SUBSET (1 .. (l - f))
      BY <1>1, <1>4 DEF Recent
    <2>2. IsFiniteSet(old) /\ Cardinality(old) \in Nat
      <3> HIDE DEF old, l, f
      <3> QED
        BY <2>1, PlacesBetween
    <2> QED
      BY <1>3, <1>5, <2>2 DEF Dated, FewRecent
  <1>8. IsFiniteSet(new) /\ Cardinality(new) \in Nat /\ Cardinality(new) <= f
    <2>1. (l - f) + 1 \in Nat /\ (l - f) + 1 <= l + 1 /\ (l + 1) - ((l - f) + 1) = f
      <3>1. l \in Nat /\ f \in Nat /\ f <= l
        BY <1>1, <1>4
      <3> HIDE DEF l, f
      <3> QED
        BY <3>1
    <2>2. /\ IsFiniteSet(new) /\ Cardinality(new) \in Nat
          /\ Cardinality(new) <= (l + 1) - ((l - f) + 1)
      BY <1>1, <2>1, PlacesBetween
    <2> QED
      BY <2>1, <2>2
  <1> HIDE DEF old, new
  <1>9. /\ Cardinality(During(k, start)') \in Nat
        /\ Cardinality(During(k, start)') <= Cardinality(old) + Cardinality(new)
    <2>1. /\ IsFiniteSet(old \cup new)
          /\ Cardinality(old \cup new)
               = Cardinality(old) + Cardinality(new) - Cardinality(old \cap new)
      BY <1>7, <1>8, FS_Union
    <2>2. Cardinality(old \cap new) \in Nat
      BY <1>7, FS_Subset, FS_CardinalityType
    <2>3. /\ IsFiniteSet(During(k, start)')
          /\ Cardinality(During(k, start)') <= Cardinality(old \cup new)
      BY <1>6, <2>1, FS_Subset
    <2>4. Cardinality(During(k, start)') \in Nat
      BY <2>3, FS_CardinalityType
    <2> QED
      BY <1>7, <1>8, <2>1, <2>2, <2>3, <2>4
  <1>10. /\ Cardinality(Coming(k, start)') \in Nat
         /\ Cardinality(Coming(k, start)') <= Cardinality(Threads)
         /\ Cardinality(Threads) \in Nat
    <2>1. Coming(k, start)' \in SUBSET Threads
      BY DEF Coming, UnderWay
    <2> QED
      BY <2>1, UnderWayFinite
  <1>11. /\ Cardinality(During(k, start)') + Cardinality(Coming(k, start)')
              <= (MaxAttempts - 1) + (MaxAttempts - 2) + Cardinality(Threads)
    <2> HIDE DEF f
    <2> QED
      BY <1>4, <1>5, <1>7, <1>8, <1>9, <1>10, LimitsAssumption
  <1> QED
    BY <1>11 DEF QuotaFor

\* A recorded failure of the stretch was one of those that might join it.
LEMMA RecordKeepsQuota ==
  ASSUME QInv, NEW t \in Threads, Record(t), TypeOK', NEW start \in Nat,
         NEW k \in Keys, k = key[t], QuotaFor(k, start)
  PROVE  QuotaFor(k, start)'
  <1> DEFINE J == judged[k]
             K == judged'[k]
             l == Len(J)
  <1>1. /\ k \in Keys /\ TypeOK /\ pc[t] = "record" /\ at[t] \in Nat
        /\ J \in Seq(Nat) /\ l \in Nat /\ K = Append(J, at[t])
        /\ key' = key /\ now' = now /\ at' = at
        /\ pc'[t] = "idle" /\ \A u \in Threads \ {t} : pc'[u] = pc[u]
    BY DEF QInv, IInv, TypeOK, Record, Goto
  <1>2. /\ DOMAIN J = 1 .. l /\ DOMAIN K = 1 .. l + 1
        /\ \A i \in 1 .. l : K[i] = J[i]
        /\ K[l + 1] = at[t]
    BY <1>1
  <1> DEFINE joins == at[t] >= start /\ at[t] + MaxLag < start + Window
  <1>3. Coming(k, start)' = Coming(k, start) \ {t}
    BY <1>1 DEF Coming, UnderWay
  <1>4. t \in Coming(k, start) <=> joins
    BY <1>1 DEF Coming, UnderWay
  <1>5. During(k, start)' = IF joins THEN During(k, start) \cup {l + 1} ELSE During(k, start)
    <2>1. During(k, start)' =
            {i \in DOMAIN K : K[i] >= start /\ K[i] + MaxLag < start + Window}
      BY DEF During
    <2>2. During(k, start) =
            {i \in DOMAIN J : J[i] >= start /\ J[i] + MaxLag < start + Window}
      BY DEF During
    <2> HIDE DEF J, K, l
    <2>3. \A i : i \in 1 .. l + 1 <=> (i \in 1 .. l \/ i = l + 1)
      BY <1>1
    <2> QED
      BY <1>2, <2>1, <2>2, <2>3
  <1>6. l + 1 \notin During(k, start)
    BY <1>1, <1>2 DEF During
  <1>7. /\ IsFiniteSet(During(k, start)) /\ Cardinality(During(k, start)) \in Nat
        /\ IsFiniteSet(Coming(k, start)) /\ Cardinality(Coming(k, start)) \in Nat
        /\ Cardinality(Threads) \in Nat
    BY <1>1, QuotaFinite
  <1>8. Cardinality(Coming(k, start)') =
          IF joins THEN Cardinality(Coming(k, start)) - 1 ELSE Cardinality(Coming(k, start))
    <2>1. Cardinality(Coming(k, start) \ {t}) =
            IF t \in Coming(k, start) THEN Cardinality(Coming(k, start)) - 1
                                      ELSE Cardinality(Coming(k, start))
      BY <1>7, FS_RemoveElement
    <2> HIDE DEF joins
    <2> QED
      BY <1>3, <1>4, <2>1
  <1>9. Cardinality(During(k, start)') =
          IF joins THEN Cardinality(During(k, start)) + 1 ELSE Cardinality(During(k, start))
    <2>1. Cardinality(During(k, start) \cup {l + 1}) = Cardinality(During(k, start)) + 1
      <3>1. Cardinality(During(k, start) \cup {l + 1}) =
              IF l + 1 \in During(k, start) THEN Cardinality(During(k, start))
                                            ELSE Cardinality(During(k, start)) + 1
        BY <1>7, FS_AddElement
      <3> QED
        BY <1>6, <3>1
    <2> HIDE DEF joins
    <2> QED
      BY <1>5, <2>1
  <1> HIDE DEF joins
  <1>10. Cardinality(During(k, start)') + Cardinality(Coming(k, start)')
           = Cardinality(During(k, start)) + Cardinality(Coming(k, start))
    BY <1>7, <1>8, <1>9
  <1> QED
    BY <1>10 DEF QuotaFor

\* A step that records nothing and lets nothing pass keeps the quota of every
\* stretch.
LEMMA QuietKeepsQuotas ==
  ASSUME QInv, TypeOK',
         \A k \in Keys : judged'[k] \in {judged[k], << >>},
         \A k \in Keys : \A start \in Nat : Coming(k, start)' \subseteq Coming(k, start)
  PROVE  MaxAttempts > 1 => \A k \in Keys : \A start \in Nat : QuotaFor(k, start)'
  <1> SUFFICES ASSUME MaxAttempts > 1, NEW k \in Keys, NEW start \in Nat
               PROVE  QuotaFor(k, start)'
    OBVIOUS
  <1>1. TypeOK /\ QuotaFor(k, start)
    BY DEF QInv, IInv
  <1> QED
    BY <1>1, FewerKeepsQuota

\* A request that moves to where it is not under way joins no stretch.
LEMMA LeavingJoinsNothing ==
  ASSUME TypeOK, NEW t \in Threads, NEW label, pc' = [pc EXCEPT ![t] = label],
         label \notin {"judge", "record"}, now' = now,
         \A u \in Threads \ {t} : key'[u] = key[u] /\ at'[u] = at[u]
  PROVE  \A k \in Keys : \A start \in Nat : Coming(k, start)' \subseteq Coming(k, start)
  <1>1. pc'[t] = label /\ \A u \in Threads \ {t} : pc'[u] = pc[u]
    BY DEF TypeOK
  <1> QED
    BY <1>1 DEF Coming, UnderWay

\* The steps of a request that change neither limit nor history, nor the clock.
LEMMA QuietKeepsQInv ==
  ASSUME QInv, IInv', limits' = limits, judged' = judged, now' = now,
         \A t \in Threads : pc'[t] \in {"check", "record"} => now <= at'[t] + MaxLag,
         \A k \in Keys : \A start \in Nat : Coming(k, start)' \subseteq Coming(k, start)
  PROVE  QInv'
  <1>1. TypeOK'
    BY DEF IInv
  <1>2. \A k \in Keys : judged'[k] \in {judged[k], << >>}
    OBVIOUS
  <1>3. MaxAttempts > 1 => \A k \in Keys : \A start \in Nat : QuotaFor(k, start)'
    BY <1>1, <1>2, QuietKeepsQuotas
  <1>4. \A k \in Keys : Dated(limits'[k], judged'[k], now')
    BY DEF QInv
  <1> QED
    BY <1>3, <1>4 DEF QInv

\* The clean-up keeps every limit dated.
LEMMA CleanUpKeepsDated ==
  ASSUME QInv, NEW a \in Nat, a <= now, CleanUp(a), judged' = judged, now' = now
  PROVE  \A k \in Keys : Dated(limits'[k], judged'[k], now')
  <1> SUFFICES ASSUME NEW k \in Keys
               PROVE  Dated(limits'[k], judged'[k], now')
    OBVIOUS
  <1>1. limits'[k] = Cleaned(limits[k], a)
    BY DEF CleanUp
  <1>2. Dated(limits[k], judged[k], now)
    BY DEF QInv
  <1>3. Dated(Cleaned(limits[k], a), judged[k], now)
    BY <1>2, DatedCleaned
  <1> QED
    BY <1>1, <1>3

\* Nobody has tried anything when the service starts.
LEMMA InitQInv == Init => QInv
  <1> SUFFICES ASSUME Init PROVE QInv
    OBVIOUS
  <1>1. IInv
    BY InitInv
  <1>2. \A t \in Threads : pc[t] \in {"check", "record"} => now <= at[t] + MaxLag
    BY DEF Init
  <1>3. \A k \in Keys : Dated(limits[k], judged[k], now)
    <2>1. now \in Nat /\ \A k \in Keys : limits[k] = Fresh /\ judged[k] = << >>
      BY DEF Init
    <2> QED
      BY <2>1, DatedFresh
  <1>4. ASSUME MaxAttempts > 1, NEW k \in Keys, NEW start \in Nat
        PROVE  QuotaFor(k, start)
    <2>1. During(k, start) = {} /\ Coming(k, start) = {}
      BY DEF Init, During, Coming, UnderWay
    <2>2. Cardinality(During(k, start)) = 0 /\ Cardinality(Coming(k, start)) = 0
      BY <2>1, FS_EmptySet
    <2>3. Cardinality(Threads) \in Nat
      BY ThreadsAssumption, FS_CardinalityType
    <2> QED
      BY <1>4, <2>2, <2>3, LimitsAssumption DEF QuotaFor
  <1> QED
    BY <1>1, <1>2, <1>3, <1>4 DEF QInv

\* Passing keeps the invariant: on the request's own key PassKeepsQuota, and what
\* has no time left to join the stretch does not count.
LEMMA PassKeepsQInv ==
  ASSUME QInv, NEW t \in Threads, Pass(t), IInv'
  PROVE  QInv'
  <1>1. /\ TypeOK /\ TypeOK' /\ at[t] \in Nat /\ at[t] <= now /\ key[t] \in Keys
        /\ judged' = judged /\ now' = now /\ key' = key /\ at' = at
        /\ pc'[t] = "judge" /\ \A u \in Threads \ {t} : pc'[u] = pc[u]
    BY DEF QInv, IInv, TypeOK, Pass, Goto
  <1>2. \A k \in Keys : Dated(limits'[k], judged'[k], now')
    BY <1>1, CleanUpKeepsDated DEF Pass
  <1>3. \A u \in Threads : pc'[u] \in {"check", "record"} => now' <= at'[u] + MaxLag
    BY <1>1 DEF QInv
  <1>4. ASSUME MaxAttempts > 1, NEW k \in Keys, NEW start \in Nat
        PROVE  QuotaFor(k, start)'
    <2>1. CASE k = key[t] /\ now + MaxLag < start + Window
      BY <1>1, <1>4, <2>1, PassKeepsQuota
    <2>2. CASE ~ (k = key[t] /\ now + MaxLag < start + Window)
      <3>1. Coming(k, start)' \subseteq Coming(k, start)
        BY <1>1, <2>2 DEF Coming, UnderWay
      <3>2. QuotaFor(k, start) /\ judged'[k] \in {judged[k], << >>}
        BY <1>1, <1>4 DEF QInv
      <3> QED
        BY <1>1, <3>1, <3>2, FewerKeepsQuota
    <2> QED
      BY <2>1, <2>2
  <1> QED
    BY <1>2, <1>3, <1>4 DEF QInv

\* So does recording.
LEMMA RecordKeepsQInv ==
  ASSUME QInv, NEW t \in Threads, Record(t), IInv'
  PROVE  QInv'
  <1>1. /\ TypeOK /\ TypeOK' /\ at[t] \in Nat /\ at[t] <= now /\ key[t] \in Keys
        /\ now \in Nat /\ now' = now /\ key' = key /\ at' = at /\ pc[t] = "record"
        /\ pc'[t] = "idle" /\ \A u \in Threads \ {t} : pc'[u] = pc[u]
        /\ limits' = [limits EXCEPT ![key[t]] = AfterFailure(limits[key[t]], at[t])]
        /\ judged' = [judged EXCEPT ![key[t]] = Append(judged[key[t]], at[t])]
    BY DEF QInv, IInv, TypeOK, Record, Goto
  <1>2. now <= at[t] + MaxLag
    BY <1>1 DEF QInv
  <1>3. ASSUME NEW k \in Keys
        PROVE  Dated(limits'[k], judged'[k], now')
    <2>1. Dated(limits[k], judged[k], now)
      BY DEF QInv
    <2>2. CASE k = key[t]
      <3>1. /\ limits'[k] = AfterFailure(limits[k], at[t])
            /\ judged'[k] = Append(judged[k], at[t])
        BY <1>1, <2>2 DEF TypeOK
      <3>2. Dated(AfterFailure(limits[k], at[t]), Append(judged[k], at[t]), now)
        BY <1>1, <1>2, <2>1, DatedRecorded
      <3> QED
        BY <1>1, <3>1, <3>2
    <2>3. CASE k # key[t]
      <3>1. limits'[k] = limits[k] /\ judged'[k] = judged[k]
        BY <1>1, <2>3 DEF TypeOK
      <3> QED
        BY <1>1, <2>1, <3>1
    <2> QED
      BY <2>2, <2>3
  <1>4. \A u \in Threads : pc'[u] \in {"check", "record"} => now' <= at'[u] + MaxLag
    BY <1>1 DEF QInv
  <1>5. ASSUME MaxAttempts > 1, NEW k \in Keys, NEW start \in Nat
        PROVE  QuotaFor(k, start)'
    <2>1. QuotaFor(k, start)
      BY <1>5 DEF QInv
    <2>2. CASE k = key[t]
      BY <1>1, <2>1, <2>2, RecordKeepsQuota
    <2>3. CASE k # key[t]
      <3>1. judged'[k] \in {judged[k], << >>}
        BY <1>1, <2>3 DEF TypeOK
      <3>2. Coming(k, start)' \subseteq Coming(k, start)
        BY <1>1 DEF Coming, UnderWay
      <3> QED
        BY <1>1, <2>1, <3>1, <3>2, FewerKeepsQuota
    <2> QED
      BY <2>2, <2>3
  <1> QED
    BY <1>3, <1>4, <1>5 DEF QInv

\* And clearing some keys, whether requests under way are dropped or not.
LEMMA ClearingKeepsQInv ==
  ASSUME QInv, IInv', now' = now, at' = at, key' = key,
         \A k \in Keys : \/ limits'[k] = limits[k] /\ judged'[k] = judged[k]
                         \/ limits'[k] = Fresh /\ judged'[k] = << >>,
         \A t \in Threads : pc'[t] \in {pc[t], "idle"}
  PROVE  QInv'
  <1>1. TypeOK /\ TypeOK' /\ now \in Nat
    BY DEF QInv, IInv, TypeOK
  <1>2. \A k \in Keys : Dated(limits'[k], judged'[k], now')
    BY <1>1, DatedFresh DEF QInv
  <1>3. \A t \in Threads : pc'[t] \in {"check", "record"} => now' <= at'[t] + MaxLag
    BY DEF QInv
  <1>4. \A k \in Keys : judged'[k] \in {judged[k], << >>}
    OBVIOUS
  <1>5. \A k \in Keys : \A start \in Nat : Coming(k, start)' \subseteq Coming(k, start)
    BY DEF Coming, UnderWay
  <1>6. MaxAttempts > 1 => \A k \in Keys : \A start \in Nat : QuotaFor(k, start)'
    BY <1>1, <1>4, <1>5, QuietKeepsQuotas
  <1> QED
    BY <1>2, <1>3, <1>6 DEF QInv

\* Every step of a request keeps the invariant.
LEMMA RequestKeepsQInv ==
  ASSUME QInv, NEW t \in Threads, Request(t), IInv'
  PROVE  QInv'
  <1>0. TypeOK /\ TypeOK' /\ at[t] \in Nat /\ at[t] <= now /\ now \in Nat
    BY DEF QInv, IInv, TypeOK
  <1>1. CASE Begin(t)
    <2>1. /\ limits' = limits /\ judged' = judged /\ now' = now
          /\ pc' = [pc EXCEPT ![t] = "check"] /\ at'[t] = now
          /\ \A u \in Threads \ {t} : pc'[u] = pc[u] /\ key'[u] = key[u] /\ at'[u] = at[u]
      BY <1>0, <1>1 DEF TypeOK, Begin, Goto, ReadClock
    <2>2. \A u \in Threads : pc'[u] \in {"check", "record"} => now <= at'[u] + MaxLag
      BY <1>0, <2>1, LimitsAssumption DEF QInv
    <2>3. \A k \in Keys : \A start \in Nat : Coming(k, start)' \subseteq Coming(k, start)
      BY <1>0, <2>1, LeavingJoinsNothing
    <2> QED
      BY <2>1, <2>2, <2>3, QuietKeepsQInv
  <1>2. CASE Refuse(t)
    <2>1. /\ judged' = judged /\ now' = now /\ key' = key /\ at' = at
          /\ pc' = [pc EXCEPT ![t] = "idle"] /\ CleanUp(at[t])
          /\ pc'[t] = "idle" /\ \A u \in Threads \ {t} : pc'[u] = pc[u]
      BY <1>0, <1>2 DEF TypeOK, Refuse, Goto
    <2>2. \A k \in Keys : Dated(limits'[k], judged'[k], now')
      BY <1>0, <2>1, CleanUpKeepsDated
    <2>3. \A u \in Threads : pc'[u] \in {"check", "record"} => now' <= at'[u] + MaxLag
      BY <2>1 DEF QInv
    <2>4. \A k \in Keys : \A start \in Nat : Coming(k, start)' \subseteq Coming(k, start)
      BY <1>0, <2>1, LeavingJoinsNothing
    <2>5. \A k \in Keys : judged'[k] \in {judged[k], << >>}
      BY <2>1
    <2>6. MaxAttempts > 1 => \A k \in Keys : \A start \in Nat : QuotaFor(k, start)'
      BY <1>0, <2>4, <2>5, QuietKeepsQuotas
    <2> QED
      BY <2>2, <2>3, <2>6 DEF QInv
  <1>3. CASE Pass(t)
    BY <1>3, PassKeepsQInv
  <1>4. CASE JudgeWrong(t)
    <2>1. /\ limits' = limits /\ judged' = judged /\ now' = now /\ key' = key
          /\ pc[t] = "judge" /\ pc'[t] = "record" /\ at'[t] = now
          /\ \A u \in Threads \ {t} : pc'[u] = pc[u] /\ at'[u] = at[u]
      BY <1>0, <1>4 DEF TypeOK, JudgeWrong, Goto, ReadClock
    <2>2. \A u \in Threads : pc'[u] \in {"check", "record"} => now <= at'[u] + MaxLag
      BY <1>0, <2>1, LimitsAssumption DEF QInv
    <2>3. \A k \in Keys : \A start \in Nat : Coming(k, start)' \subseteq Coming(k, start)
      BY <1>0, <2>1 DEF Coming, UnderWay
    <2> QED
      BY <2>1, <2>2, <2>3, QuietKeepsQInv
  <1>5. CASE JudgeDenied(t) \/ JudgeRight(t)
    <2>1. PICK label \in {"idle", "clear"} : pc' = [pc EXCEPT ![t] = label]
      BY <1>5 DEF JudgeDenied, JudgeRight, Goto
    <2>2. /\ limits' = limits /\ judged' = judged /\ now' = now /\ key' = key /\ at' = at
          /\ pc'[t] = label /\ \A u \in Threads \ {t} : pc'[u] = pc[u]
      BY <1>0, <1>5, <2>1 DEF TypeOK, JudgeDenied, JudgeRight
    <2>3. \A u \in Threads : pc'[u] \in {"check", "record"} => now <= at'[u] + MaxLag
      BY <2>2 DEF QInv
    <2>4. \A k \in Keys : \A start \in Nat : Coming(k, start)' \subseteq Coming(k, start)
      BY <1>0, <2>1, <2>2, LeavingJoinsNothing
    <2> QED
      BY <2>2, <2>3, <2>4, QuietKeepsQInv
  <1>6. CASE Record(t)
    BY <1>6, RecordKeepsQInv
  <1>7. CASE Clear(t)
    <2>1. /\ now' = now /\ at' = at /\ key' = key
          /\ \A u \in Threads : pc'[u] \in {pc[u], "idle"}
      BY <1>0, <1>7 DEF TypeOK, Clear, Goto
    <2>2. \A k \in Keys : \/ limits'[k] = limits[k] /\ judged'[k] = judged[k]
                          \/ limits'[k] = Fresh /\ judged'[k] = << >>
      BY <1>0, <1>7 DEF TypeOK, Clear
    <2> QED
      BY <2>1, <2>2, ClearingKeepsQInv
  <1> QED
    BY <1>1, <1>2, <1>3, <1>4, <1>5, <1>6, <1>7 DEF Request

\* Accounts that change, restarts and the clock keep the invariant: the clock does
\* not run ahead of a reading by more than the lag.
LEMMA NextKeepsQInv ==
  ASSUME QInv, [Next]_vars
  PROVE  QInv'
  <1>0. IInv /\ IInv'
    BY NextKeepsInv DEF QInv
  <1>1. ASSUME NEW t \in Threads, Request(t) PROVE QInv'
    BY <1>0, <1>1, RequestKeepsQInv
  <1>2. ASSUME NEW names \in SUBSET Accounts \ {{}}, ClearForAccounts(names) PROVE QInv'
    <2>1. /\ now' = now /\ at' = at /\ key' = key
          /\ \A u \in Threads : pc'[u] \in {pc[u], "idle"}
      BY <1>2 DEF ClearForAccounts, reqVars
    <2>2. \A k \in Keys : \/ limits'[k] = limits[k] /\ judged'[k] = judged[k]
                          \/ limits'[k] = Fresh /\ judged'[k] = << >>
      BY <1>2 DEF ClearForAccounts
    <2> QED
      BY <1>0, <2>1, <2>2, ClearingKeepsQInv
  <1>3. CASE Restart
    <2>1. /\ now' = now /\ at' = at /\ key' = key
          /\ \A u \in Threads : pc'[u] \in {pc[u], "idle"}
      BY <1>3 DEF Restart
    <2>2. \A k \in Keys : \/ limits'[k] = limits[k] /\ judged'[k] = judged[k]
                          \/ limits'[k] = Fresh /\ judged'[k] = << >>
      BY <1>3 DEF Restart
    <2> QED
      BY <1>0, <2>1, <2>2, ClearingKeepsQInv
  <1>4. CASE Tick
    <2>1. /\ UNCHANGED <<limits, reqVars, judged>> /\ now \in Nat /\ now' = now + 1
          /\ \A t \in Threads : at[t] \in Nat
          /\ TypeOK'
      BY <1>0, <1>4 DEF Tick, IInv, TypeOK
    <2>2. \A t \in Threads : pc'[t] \in {"check", "record"} => now' <= at'[t] + MaxLag
      BY <1>4, <2>1, LimitsAssumption DEF Tick, reqVars
    <2>3. ASSUME NEW k \in Keys
          PROVE  Dated(limits'[k], judged'[k], now')
      <3>1. Dated(limits[k], judged[k], now) /\ now' \in Nat /\ now <= now'
        BY <2>1 DEF QInv
      <3>2. Dated(limits[k], judged[k], now')
        BY <3>1, DatedLater
      <3> QED
        BY <2>1, <3>2
    <2>4. \A k \in Keys : \A start \in Nat : Coming(k, start)' \subseteq Coming(k, start)
      BY <2>1, LimitsAssumption DEF Coming, UnderWay, reqVars
    <2>5. \A k \in Keys : judged'[k] \in {judged[k], << >>}
      BY <2>1
    <2>6. MaxAttempts > 1 => \A k \in Keys : \A start \in Nat : QuotaFor(k, start)'
      BY <2>1, <2>4, <2>5, QuietKeepsQuotas
    <2> QED
      BY <1>0, <2>2, <2>3, <2>6 DEF QInv
  <1>5. CASE UNCHANGED vars
    <2>1. /\ limits' = limits /\ judged' = judged /\ now' = now
          /\ pc' = pc /\ at' = at /\ key' = key
      BY <1>5 DEF vars, reqVars
    <2>2. \A t \in Threads : pc'[t] \in {"check", "record"} => now <= at'[t] + MaxLag
      BY <2>1 DEF QInv
    <2>3. \A k \in Keys : \A start \in Nat : Coming(k, start)' \subseteq Coming(k, start)
      BY <2>1 DEF Coming, UnderWay
    <2> QED
      BY <1>0, <2>1, <2>2, <2>3, QuietKeepsQInv
  <1> QED
    BY <1>1, <1>2, <1>3, <1>4, <1>5 DEF Next

-----------------------------------------------------------------------------
(* The theorems *)

\* The conjunction of everything below holds throughout.
THEOREM Invariance == Spec => []IInv
  BY InitInv, NextKeepsInv, PTL DEF Spec

\* The limits and the requests stay what the code makes them
\* (recordAccountManagerVerifyFailure).
THEOREM TypeCorrect == Spec => []TypeOK
  <1>1. IInv => TypeOK
    BY DEF IInv
  <1> QED
    BY Invariance, <1>1, PTL

\* However many handlers judge credentials at once, no key gets further ahead of
\* its limit than one attempt for each of them (verifyCredentials).
THEOREM GuessesAreBounded == Spec => []GuessesBounded
  <1>1. IInv => GuessesBounded
    BY DEF IInv
  <1> QED
    BY Invariance, <1>1, PTL

\* Nobody is blocked for another's failures, or for fewer than the limit says
\* (recordAccountManagerVerifyFailure).
THEOREM BlocksHaveCause == Spec => []BlockedForCause
  <1>1. IInv => BlockedForCause
    BY DEF IInv
  <1> QED
    BY Invariance, <1>1, PTL

\* However late failures are recorded, a stretch of time as long as a window but
\* for the lag holds no more of them than two windows that meet may hold and one
\* for every handler (verifyCredentials, recordAccountManagerVerifyFailure).
THEOREM QuotaHolds == Spec => []WindowQuota
  <1>1. Spec => []QInv
    BY InitQInv, NextKeepsQInv, PTL DEF Spec
  <1>2. QInv => WindowQuota
    <2> SUFFICES ASSUME QInv, MaxAttempts > 1, NEW k \in Keys, NEW start \in 0 .. MaxNow
                 PROVE  Cardinality(During(k, start))
                          <= (MaxAttempts - 1) + (MaxAttempts - 2) + Cardinality(Threads)
      BY DEF WindowQuota
    <2>1. TypeOK /\ start \in Nat /\ QuotaFor(k, start)
      BY LimitsAssumption DEF QInv, IInv
    <2>2. /\ Cardinality(During(k, start)) \in Nat /\ Cardinality(Coming(k, start)) \in Nat
          /\ Cardinality(Threads) \in Nat
      BY <2>1, QuotaFinite
    <2> QED
      BY <2>1, <2>2, LimitsAssumption DEF QuotaFor
  <1> QED
    BY <1>1, <1>2, PTL

=============================================================================
