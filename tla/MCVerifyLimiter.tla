--------------------------- MODULE MCVerifyLimiter ---------------------------
(***************************************************************************)
(* Model checking VerifyLimiter.  Handlers are interchangeable; two states *)
(* are the same if they differ only in the key and time of a request that  *)
(* will not use them again, which no action reads, or in the order of the  *)
(* failures in judged, of which the properties read number and times.  Two *)
(* keys are tried together only at the first moment of the clock.          *)
(***************************************************************************)
EXTENDS VerifyLimiter, TLC

Symmetry == Permutations(Threads)

Pending(t) ==
    <<pc[t],
      IF pc[t] = "idle" THEN "none" ELSE key[t],
      IF pc[t] \in {"check", "record"} THEN at[t] ELSE 0>>

Times(k) ==
    [time \in 0 .. MaxNow |-> Cardinality({i \in DOMAIN judged[k] : judged[k][i] = time})]

View == <<limits, now, [t \in Threads |-> Pending(t)], [k \in Keys |-> Times(k)]>>

Tried(k) == judged[k] # << >> \/ UnderWay(k) # {}

Focus == (\A k \in Keys : Tried(k)) => now = 0

=============================================================================
