---------------------------- MODULE VerifyLimiter ----------------------------
(***************************************************************************)
(* The limiter in front of Account Manager's credential check              *)
(* (verifyCredentials and the functions over h.verifyLimits).  A request   *)
(* reads the clock, asks under h.mu whether its key is blocked, judges the *)
(* credentials without the lock, and records the failure or clears the key *)
(* in a second critical section, for which it reads the clock again.  The  *)
(* clock is read before the lock is taken, so that a time may be old when  *)
(* it is used, and times may be used out of order.                         *)
(*                                                                         *)
(* A key is the caller's address with the account it names, or with the    *)
(* API key it presents.                                                    *)
(***************************************************************************)
EXTENDS Naturals, Sequences, FiniteSets

CONSTANTS
    Threads,      \* handler goroutines, one request each at a time
    Hosts,        \* remote addresses
    Accounts,     \* account names, as a request spells them in lower case
    ApiKeys,      \* API keys
    MaxAttempts,  \* accountManagerVerifyRateLimitMaxAttempts
    Window,       \* accountManagerVerifyRateLimitWindow
    Cooldown,     \* accountManagerVerifyRateLimitCooldown
    MaxLag,       \* bound: a critical section comes at most this much later
                  \* than the clock reading it uses
    MaxNow        \* bound: the clock stops here

Subjects == Accounts \union ApiKeys
Keys == Hosts \X Subjects

ASSUME ThreadsAssumption == IsFiniteSet(Threads)
ASSUME LimitsAssumption ==
    /\ MaxAttempts \in Nat \ {0}
    /\ Window \in Nat \ {0}
    /\ Cooldown \in Nat \ {0}
    /\ MaxLag \in Nat
    /\ MaxNow \in Nat

\* A block outlasts a window: 15 minutes and 5.
ASSUME CooldownAssumption == Cooldown >= Window

VARIABLES
    limits,   \* h.verifyLimits; Fresh, the zero value, is a key with no entry
    now,      \* the clock
    pc,       \* pc[t]: where request t is
    key,      \* key[t]: rateLimitKey of t's request, or of its last one
    at,       \* at[t]: the time t has read for its next critical section
    judged    \* judged[k]: the times of the failures recorded for k since it
              \* was last cleared or the service last started (history)

reqVars == <<pc, key, at>>
vars == <<limits, now, reqVars, judged>>

Labels == {"idle", "check", "judge", "record", "clear"}
Limit  == [failures : Nat, resetAt : Nat, blockedUntil : Nat]
Fresh  == [failures |-> 0, resetAt |-> 0, blockedUntil |-> 0]

Init ==
    /\ limits = [k \in Keys |-> Fresh]
    /\ now = 0
    /\ pc = [t \in Threads |-> "idle"]
    /\ key \in [Threads -> Keys]
    /\ at = [t \in Threads |-> 0]
    /\ judged = [k \in Keys |-> << >>]

-----------------------------------------------------------------------------
(* The rules of the limiter, with faulty variants for the properties to      *)
(* catch.  A limit is judged at a time a, which is the caller's.             *)

\* BlockedUntil.After(a): the block is over at the very moment it names.
Blocked(limit, a) == limit.blockedUntil > a

\* What the clean-up at a leaves of a limit.
CleanedUnlessBlocked(limit, a) == IF Blocked(limit, a) THEN limit ELSE Fresh
Cleaned(limit, a) ==
    IF Blocked(limit, a) \/ limit.resetAt > a THEN limit ELSE Fresh

\* A failure at a belongs to the running window, or begins one.
Counting(limit, a) ==
    IF limit.resetAt = 0 \/ a > limit.resetAt
    THEN [failures |-> 1, resetAt |-> a + Window, blockedUntil |-> 0]
    ELSE [limit EXCEPT !.failures = @ + 1]

\* The failure that reaches the limit, and every one after it, starts a block.
AfterFailureEarly(limit, a) ==
    LET counted == Counting(limit, a) IN
    IF counted.failures + 1 >= MaxAttempts
    THEN [counted EXCEPT !.blockedUntil = a + Cooldown, !.resetAt = a + Cooldown]
    ELSE counted
AfterFailureLate(limit, a) ==
    LET counted == Counting(limit, a) IN
    IF counted.failures > MaxAttempts
    THEN [counted EXCEPT !.blockedUntil = a + Cooldown, !.resetAt = a + Cooldown]
    ELSE counted
AfterFailure(limit, a) ==
    LET counted == Counting(limit, a) IN
    IF counted.failures >= MaxAttempts
    THEN [counted EXCEPT !.blockedUntil = a + Cooldown, !.resetAt = a + Cooldown]
    ELSE counted

-----------------------------------------------------------------------------
(* A request *)

Goto(t, label) == pc' = [pc EXCEPT ![t] = label]
ReadClockAhead(t) == at' = [at EXCEPT ![t] = now + Window]
ReadClock(t) == at' = [at EXCEPT ![t] = now]

\* The body is read and the key made of it; time.Now() is evaluated before
\* accountManagerVerifyRateLimited takes the lock.
Begin(t) ==
    /\ pc[t] = "idle"
    /\ \E k \in Keys : key' = [key EXCEPT ![t] = k]
    /\ ReadClock(t)
    /\ Goto(t, "check")
    /\ UNCHANGED <<limits, now, judged>>

\* Both answers of the check clean every key of the map first.
CleanUp(a) == limits' = [k \in Keys |-> Cleaned(limits[k], a)]

\* The caller is told to come back later.
Refuse(t) ==
    /\ pc[t] = "check"
    /\ Blocked(Cleaned(limits[key[t]], at[t]), at[t])
    /\ CleanUp(at[t])
    /\ Goto(t, "idle")
    /\ UNCHANGED <<now, key, at, judged>>

Pass(t) ==
    /\ pc[t] = "check"
    /\ ~ Blocked(Cleaned(limits[key[t]], at[t]), at[t])
    /\ CleanUp(at[t])
    /\ Goto(t, "judge")
    /\ UNCHANGED <<now, key, at, judged>>

\* Missing, unknown or wrong credentials, or a disabled account.
JudgeWrong(t) ==
    /\ pc[t] = "judge"
    /\ ReadClock(t)
    /\ Goto(t, "record")
    /\ UNCHANGED <<limits, now, key, judged>>

\* Right credentials, without permission for the plugin: neither recorded nor
\* cleared.
JudgeDenied(t) ==
    /\ pc[t] = "judge"
    /\ Goto(t, "idle")
    /\ UNCHANGED <<limits, now, key, at, judged>>

\* Right credentials; the login is stored before the key is cleared.
JudgeRight(t) ==
    /\ pc[t] = "judge"
    /\ Goto(t, "clear")
    /\ UNCHANGED <<limits, now, key, at, judged>>

Record(t) ==
    /\ pc[t] = "record"
    /\ limits' = [limits EXCEPT ![key[t]] = AfterFailure(@, at[t])]
    /\ judged' = [judged EXCEPT ![key[t]] = Append(@, at[t])]
    /\ Goto(t, "idle")
    /\ UNCHANGED <<now, key, at>>

Clear(t) ==
    /\ pc[t] = "clear"
    /\ limits' = [limits EXCEPT ![key[t]] = Fresh]
    /\ judged' = [judged EXCEPT ![key[t]] = << >>]
    /\ Goto(t, "idle")
    /\ UNCHANGED <<now, key, at>>

\* An account was created or changed, or its password set: its names are
\* cleared whatever address they were tried from, its API keys are not.
ClearForAccounts(names) ==
    /\ limits' = [k \in Keys |-> IF k[2] \in names THEN Fresh ELSE limits[k]]
    /\ judged' = [k \in Keys |-> IF k[2] \in names THEN << >> ELSE judged[k]]
    /\ UNCHANGED <<now, reqVars>>

\* The service stops, with every request under way, and starts again: the
\* limits are kept in memory only.
Restart ==
    /\ limits' = [k \in Keys |-> Fresh]
    /\ judged' = [k \in Keys |-> << >>]
    /\ pc' = [t \in Threads |-> "idle"]
    /\ UNCHANGED <<now, key, at>>

Tick ==
    /\ now < MaxNow
    /\ \A t \in Threads : pc[t] \in {"check", "record"} => now < at[t] + MaxLag
    /\ now' = now + 1
    /\ UNCHANGED <<limits, reqVars, judged>>

Request(t) ==
    \/ Begin(t)
    \/ Refuse(t)
    \/ Pass(t)
    \/ JudgeWrong(t)
    \/ JudgeDenied(t)
    \/ JudgeRight(t)
    \/ Record(t)
    \/ Clear(t)

Next ==
    \/ \E t \in Threads : Request(t)
    \/ \E names \in SUBSET Accounts \ {{}} : ClearForAccounts(names)
    \/ Restart
    \/ Tick

Spec == Init /\ [][Next]_vars

-----------------------------------------------------------------------------
(* Properties *)

\* The limits are those recordAccountManagerVerifyFailure makes, and every
\* request uses a time that has been.
TypeOK ==
    /\ limits \in [Keys -> Limit]
    /\ now \in Nat
    /\ pc \in [Threads -> Labels]
    /\ key \in [Threads -> Keys]
    /\ at \in [Threads -> Nat]
    /\ judged \in [Keys -> Seq(Nat)]
    /\ \A t \in Threads : at[t] <= now

\* The requests on key k whose credentials are being judged, or whose failure
\* is not recorded yet.
UnderWay(k) == {t \in Threads : pc[t] \in {"judge", "record"} /\ key[t] = k}

\* Attempts made at once all pass the check before any of them is recorded;
\* still, whatever their order and however old the times they use, the failures
\* counted for a key and the attempts under way on it are never more than one
\* short of the limit and one for every handler (verifyCredentials, 2483-2530).
GuessesBounded ==
    \A k \in Keys :
        limits[k].failures + Cardinality(UnderWay(k))
            <= MaxAttempts - 1 + Cardinality(Threads)

\* A key is blocked only after as many failures on that very key as the limit
\* says, since it was last cleared: no failure on another account, from another
\* address or with another API key, and none before a successful login, counts
\* (recordAccountManagerVerifyFailure, 2757-2776).
BlockedForCause ==
    \A k \in Keys :
        /\ limits[k].failures <= Len(judged[k])
        /\ limits[k].blockedUntil > 0 => Len(judged[k]) >= MaxAttempts

\* The failures recorded for k in the stretch of time that begins at start and is
\* shorter than a window by the lag.
During(k, start) ==
    {i \in DOMAIN judged[k] :
        judged[k][i] >= start /\ judged[k][i] + MaxLag < start + Window}

\* A window begins with its first failure and does not slide, so that the end of
\* one and the beginning of the next may fall together: in any stretch of time
\* as long as a window but for the lag, the failures let through are at most those
\* one window may hold, those another may hold without the first, with which it
\* began, and one for every handler.  (A whole window may hold more if a
\* failure is recorded late, because the window it begins, or the block, then ends
\* that much earlier.)
WindowQuota ==
    MaxAttempts > 1 =>
        \A k \in Keys : \A start \in 0 .. MaxNow :
            Cardinality(During(k, start))
                <= (MaxAttempts - 1) + (MaxAttempts - 2) + Cardinality(Threads)

=============================================================================
