------------------------------ MODULE StdioAuth ------------------------------
(***************************************************************************)
(* The stdio JSON-RPC client through which Account Manager asks the host   *)
(* system about tokens (accountManagerStdioAuth and the functions around   *)
(* it).  HTTP handlers call it concurrently; one reader goroutine routes   *)
(* the host's replies by request id; a caller gives up after two seconds.  *)
(*                                                                         *)
(* A call that introspects a token falls back to the host's HTTP endpoint  *)
(* whenever the stdio attempt does not accept the token; a call that asks  *)
(* the host to encode a JWT has no fallback.                               *)
(*                                                                         *)
(* A request id stands for the channel registered under it: every call     *)
(* makes its own channel and no id is handed out twice.                    *)
(***************************************************************************)
EXTENDS Naturals, FiniteSets

CONSTANTS
    Introspectors,  \* goroutines that introspect a token, with HTTP fallback
    Encoders,       \* goroutines that ask the host to encode a JWT
    MaxCalls        \* bound: no call begins once this many ids are handed out

Callers == Introspectors \union Encoders

ASSUME CallersAssumption == Introspectors \intersect Encoders = {}
ASSUME MaxCallsAssumption == MaxCalls \in Nat \ {0}

VARIABLES
    enabled,   \* accountManagerStdioAuth.enabled: the reader is alive
    nextID,    \* the id counter, shared by "auth-N" and "jwt-N"
    pending,   \* ids with a channel in the pending map
    buf,       \* buf[id]: what channel id buffers (capacity one)
    closed,    \* ids whose channel is closed
    reader,    \* the reader goroutine: where it is, and the reply in its hands
    writeMu,   \* the callers holding writeMu (none or one)
    pc,        \* pc[c]: where caller c is
    cid,       \* cid[c]: the id of c's request, 0 before it has one
    ret,       \* ret[c]: what the call is about to return, or returned last
    sent,      \* ids whose request line the host has received
    granted    \* ids the host has answered positively (history)

chanVars   == <<pending, buf, closed>>
callerVars == <<pc, cid, ret>>
hostVars   == <<sent, granted>>
vars == <<enabled, nextID, chanVars, reader, writeMu, callerVars, hostVars>>

Labels   == {"idle", "register", "write", "writing", "wait", "abandon", "http",
             "return"}
Results  == {"none", "stdio", "http", "refused"}
Verdicts == {"grant", "deny"}
Empty    == "empty"
NoReply  == [at |-> "scan", id |-> 0, verdict |-> "deny"]

Init ==
    /\ enabled \in BOOLEAN          \* AGENTIC_STDIO_AUTH decides before serving
    /\ nextID = 0
    /\ pending = {}
    /\ buf = [i \in {} |-> Empty]
    /\ closed = {}
    /\ reader = IF enabled THEN NoReply ELSE [NoReply EXCEPT !.at = "exited"]
    /\ writeMu = {}
    /\ pc = [c \in Callers |-> "idle"]
    /\ cid = [c \in Callers |-> 0]
    /\ ret = [c \in Callers |-> "none"]
    /\ sent = {}
    /\ granted = {}

Goto(c, label) == pc' = [pc EXCEPT ![c] = label]

\* A stdio attempt that accepts nothing: introspection tries HTTP next, an
\* encode call returns its failure.
GiveUp(c) ==
    IF c \in Introspectors
    THEN Goto(c, "http") /\ UNCHANGED ret
    ELSE Goto(c, "return") /\ ret' = [ret EXCEPT ![c] = "refused"]

-----------------------------------------------------------------------------
(* The steps in which a slip would show, each with a faulty variant that the *)
(* properties must catch.                                                    *)

RegistersUnchecked == TRUE
MayRegister == enabled

NewChannelOffByOne(id) ==
    /\ pending' = pending \union {id + 1}
    /\ buf' = [i \in 1 .. id |-> IF i = id THEN Empty ELSE buf[i]]
NewChannel(id) ==
    /\ pending' = pending \union {id}
    /\ buf' = [i \in 1 .. id |-> IF i = id THEN Empty ELSE buf[i]]

KeepWriter == UNCHANGED writeMu
ReleaseWriter == writeMu' = {}

AcceptAnything(verdict) == TRUE
Accepts(verdict) == verdict = "grant"

LeaveRegistered(id) == UNCHANGED pending
Unregister(id) == pending' = pending \ {id}

\* What the reader does with a reply: take the channel out of the map, if there
\* is one, and hold it with the reply for delivery.
Hold(id, verdict) == reader' = [at |-> "send", id |-> id, verdict |-> verdict]
RouteKeeping(id, verdict) ==
    /\ IF id \in pending THEN Hold(id, verdict) ELSE UNCHANGED reader
    /\ UNCHANGED pending
RouteGrantsOnly(id, verdict) ==
    /\ IF id \in pending /\ verdict = "grant" THEN Hold(id, verdict) ELSE UNCHANGED reader
    /\ Unregister(id)
RouteInOrder(id, verdict) ==
    \E first \in pending :
        /\ \A other \in pending : first <= other
        /\ Hold(first, verdict)
        /\ Unregister(first)
Route(id, verdict) ==
    /\ IF id \in pending THEN Hold(id, verdict) ELSE UNCHANGED reader
    /\ Unregister(id)

-----------------------------------------------------------------------------
(* The callers *)

\* The token check of an HTTP handler begins: stdio if it is enabled now.
BeginIntrospect(c) ==
    /\ c \in Introspectors
    /\ pc[c] = "idle"
    /\ nextID < MaxCalls
    /\ Goto(c, IF enabled THEN "register" ELSE "http")
    /\ cid' = [cid EXCEPT ![c] = 0]
    /\ ret' = [ret EXCEPT ![c] = "none"]
    /\ UNCHANGED <<enabled, nextID, chanVars, reader, writeMu, hostVars>>

\* An encode request; an empty payload or more than two extensions fails at once.
BeginEncode(c) ==
    /\ c \in Encoders
    /\ pc[c] = "idle"
    /\ nextID < MaxCalls
    /\ cid' = [cid EXCEPT ![c] = 0]
    /\ \/ Goto(c, "register") /\ ret' = [ret EXCEPT ![c] = "none"]
       \/ Goto(c, "return")   /\ ret' = [ret EXCEPT ![c] = "refused"]
    /\ UNCHANGED <<enabled, nextID, chanVars, reader, writeMu, hostVars>>

\* Under the lock: look at enabled again, take an id, register its channel.
Register(c) ==
    /\ pc[c] = "register"
    /\ \/ /\ MayRegister
          /\ nextID' = nextID + 1
          /\ NewChannel(nextID')
          /\ cid' = [cid EXCEPT ![c] = nextID']
          /\ Goto(c, "write")
          /\ UNCHANGED <<closed, ret>>
       \/ /\ ~MayRegister
          /\ GiveUp(c)
          /\ UNCHANGED <<nextID, chanVars, cid>>
    /\ UNCHANGED <<enabled, reader, writeMu, hostVars>>

LockWriter(c) ==
    /\ pc[c] = "write"
    /\ writeMu = {}
    /\ writeMu' = {c}
    /\ Goto(c, "writing")
    /\ UNCHANGED <<enabled, nextID, chanVars, reader, cid, ret, hostVars>>

\* Fprintln returns: the line reached the host, or the pipe failed.
Write(c) ==
    /\ pc[c] = "writing"
    /\ ReleaseWriter
    /\ \/ sent' = sent \union {cid[c]} /\ Goto(c, "wait")
       \/ Goto(c, "abandon") /\ UNCHANGED sent
    /\ UNCHANGED <<enabled, nextID, chanVars, reader, cid, ret, granted>>

\* select: the channel yields a reply, or it is closed and drained.
Receive(c) ==
    /\ pc[c] = "wait"
    /\ \/ /\ buf[cid[c]] # Empty
          /\ buf' = [buf EXCEPT ![cid[c]] = Empty]
          /\ IF Accepts(buf[cid[c]])
             THEN Goto(c, "return") /\ ret' = [ret EXCEPT ![c] = "stdio"]
             ELSE GiveUp(c)
       \/ /\ buf[cid[c]] = Empty
          /\ cid[c] \in closed
          /\ GiveUp(c)
          /\ UNCHANGED buf
    /\ UNCHANGED <<enabled, nextID, pending, closed, reader, writeMu, cid, hostVars>>

\* select: two seconds pass (also when a reply is ready: select picks any).
Timeout(c) ==
    /\ pc[c] = "wait"
    /\ Goto(c, "abandon")
    /\ UNCHANGED <<enabled, nextID, chanVars, reader, writeMu, cid, ret, hostVars>>

\* After a write error or a timeout: unregister the channel, under the lock.
Abandon(c) ==
    /\ pc[c] = "abandon"
    /\ Unregister(cid[c])
    /\ GiveUp(c)
    /\ UNCHANGED <<enabled, nextID, buf, closed, reader, writeMu, cid, hostVars>>

\* The HTTP fallback ends: the host accepts the token, or refuses it, or the
\* request fails or times out.
IntrospectHTTP(c) ==
    /\ pc[c] = "http"
    /\ Goto(c, "return")
    /\ \E answer \in {"http", "refused"} : ret' = [ret EXCEPT ![c] = answer]
    /\ UNCHANGED <<enabled, nextID, chanVars, reader, writeMu, cid, hostVars>>

\* The call returns to its handler; ret keeps what it returned.
Return(c) ==
    /\ pc[c] = "return"
    /\ Goto(c, "idle")
    /\ UNCHANGED <<enabled, nextID, chanVars, reader, writeMu, cid, ret, hostVars>>

-----------------------------------------------------------------------------
(* The reader goroutine.  The host answers any request it has received, in *)
(* any order, late, twice or never; blank, malformed and unknown lines are *)
(* skipped without a change of state.                                      *)

\* A reply line is read; its channel is looked up and unregistered together.
ReadReply(id, verdict) ==
    /\ reader.at = "scan"
    /\ id \in sent
    /\ granted' = IF verdict = "grant" THEN granted \union {id} ELSE granted
    /\ Route(id, verdict)
    /\ UNCHANGED <<enabled, nextID, buf, closed, writeMu, callerVars, sent>>

\* ch <- resp blocks while the buffer is full and panics on a closed channel;
\* the deferred recover then ends the goroutine and leaves enabled set.
Send ==
    /\ reader.at = "send"
    /\ \/ /\ reader.id \in closed
          /\ reader' = [NoReply EXCEPT !.at = "exited"]
          /\ UNCHANGED buf
       \/ /\ reader.id \notin closed
          /\ buf[reader.id] = Empty
          /\ buf' = [buf EXCEPT ![reader.id] = reader.verdict]
          /\ reader' = [reader EXCEPT !.at = "close"]
    /\ UNCHANGED <<enabled, nextID, pending, closed, writeMu, callerVars, hostVars>>

Close ==
    /\ reader.at = "close"
    /\ closed' = closed \union {reader.id}
    /\ reader' = NoReply
    /\ UNCHANGED <<enabled, nextID, pending, buf, writeMu, callerVars, hostVars>>

\* End of input, a read error or a line over 1 MiB: under one lock the channel
\* is disabled and everything still pending is closed.
EndOfInput ==
    /\ reader.at = "scan"
    /\ enabled' = FALSE
    /\ closed' = closed \union pending
    /\ pending' = {}
    /\ reader' = [NoReply EXCEPT !.at = "exited"]
    /\ UNCHANGED <<nextID, buf, writeMu, callerVars, hostVars>>

-----------------------------------------------------------------------------

CallerNext(c) ==
    \/ BeginIntrospect(c) \/ BeginEncode(c) \/ Register(c) \/ LockWriter(c)
    \/ Write(c) \/ Receive(c) \/ Timeout(c) \/ Abandon(c)
    \/ IntrospectHTTP(c) \/ Return(c)

ReaderNext ==
    \/ \E id \in sent, verdict \in Verdicts : ReadReply(id, verdict)
    \/ Send
    \/ Close
    \/ EndOfInput

Next == (\E c \in Callers : CallerNext(c)) \/ ReaderNext

\* The steps a call takes by itself once it has begun.
Progress(c) ==
    \/ Register(c) \/ Write(c) \/ Timeout(c) \/ Abandon(c)
    \/ IntrospectHTTP(c) \/ Return(c)

\* Nothing obliges the host to answer or a call to begin.  A caller that can
\* move does; its timer fires; the pipe's write returns (the host drains or
\* closes its end); Go's mutex hands writeMu to every waiter in the end.
Fairness ==
    \A c \in Callers : WF_vars(Progress(c)) /\ SF_vars(LockWriter(c))

Spec     == Init /\ [][Next]_vars
FairSpec == Spec /\ Fairness

-----------------------------------------------------------------------------
(* Properties *)

\* Only ids that were handed out are pending, closed, sent or answered.
TypeOK ==
    /\ enabled \in BOOLEAN
    /\ nextID \in Nat
    /\ pending \subseteq 1 .. nextID
    /\ buf \in [1 .. nextID -> Verdicts \union {Empty}]
    /\ closed \subseteq 1 .. nextID
    /\ reader \in [at : {"scan", "send", "close", "exited"}, id : 0 .. nextID,
                   verdict : Verdicts]
    /\ reader.at \in {"send", "close"} => reader.id \in 1 .. nextID
    /\ writeMu \subseteq Callers
    /\ pc \in [Callers -> Labels]
    /\ cid \in [Callers -> 0 .. nextID]
    /\ ret \in [Callers -> Results]
    /\ sent \subseteq 1 .. nextID
    /\ granted \subseteq sent

Registered == {"write", "writing", "wait", "abandon"}

\* No channel outlives its call: whatever is in the pending map belongs to a
\* call that is still going to receive from it or unregister it (every exit of
\* accountManagerIntrospectTokenWithStdio must leave the map clean).
PendingOwned ==
    \A id \in pending : \E c \in Callers : pc[c] \in Registered /\ cid[c] = id

\* The reader neither panics nor blocks when it delivers: `ch <- resp` and
\* `close(ch)` run outside the lock, so the channel must still be open and its
\* one buffer slot free, whatever callers, duplicates and late replies do.
ReaderNeverStuck ==
    /\ reader.at = "send"  => reader.id \notin closed /\ buf[reader.id] = Empty
    /\ reader.at = "close" => reader.id \notin closed

\* No lost wakeup: until a call gives up, its reply can still reach it: its
\* channel is registered, or in the reader's hands, or full, or closed.
WaiterReachable ==
    \A c \in Callers : pc[c] \in Registered \ {"abandon"} =>
        \/ cid[c] \in pending \union closed
        \/ buf[cid[c]] # Empty
        \/ reader.at = "send" /\ reader.id = cid[c]

\* Once the reader has ended nothing is registered any more and no call is left
\* waiting out its two seconds: enabled is read again under the lock that
\* registers, and the end of input closes what it finds there.
DisabledDrained ==
    ~enabled =>
        /\ pending = {}
        /\ \A c \in Callers :
              pc[c] \in Registered \ {"abandon"} => cid[c] \in closed

\* A token accepted over stdio was accepted by the host in reply to this very
\* request, though ids of both request kinds share one counter and one map.
AcceptedByHost == \A c \in Callers : ret[c] = "stdio" => cid[c] \in granted

\* Every call returns, whether the host answers, stays silent or goes away.
EveryCallReturns == \A c \in Callers : (pc[c] # "idle") ~> (pc[c] = "idle")

-----------------------------------------------------------------------------
(* The abstract view of a call *)

phaseBar == [c \in Callers |-> IF pc[c] = "idle" THEN "idle" ELSE "asking"]

acceptedBar ==
    [c \in Callers |-> pc[c] # "idle" /\ (cid[c] \in granted \/ ret[c] = "http")]

outcomeBar ==
    [c \in Callers |->
        IF pc[c] # "idle" \/ ret[c] = "none" THEN "none"
        ELSE IF ret[c] = "refused" THEN "refused" ELSE "accepted"]

Abstract == INSTANCE TokenCheck
    WITH phase <- phaseBar, accepted <- acceptedBar, outcome <- outcomeBar

\* The stdio client with its fallback implements the token check the handlers
\* rely on, its liveness included.
ImplementsTokenCheck == Abstract!FairSpec

=============================================================================
