-------------------------- MODULE MCSampleScheduler --------------------------
(***************************************************************************)
(* Model checking SampleScheduler.  Threads are interchangeable.  Once two *)
(* updates have overlapped only two threads, the first moment of the clock *)
(* and the first boot are explored further; and once a write has failed,   *)
(* one thread at a time beside those that execute a task, and one step of  *)
(* the clock or one restart.                                               *)
(***************************************************************************)
EXTENDS SampleScheduler, TLC

Symmetry == Permutations(Threads)

Busy(rest) == Cardinality({p \in Threads : pc[p] \notin rest})
Focus ==
    /\ overlap => now = 0 /\ boots = 0 /\ Busy({"idle"}) <= 2
    /\ unsaved # {} => now + boots <= 1 /\ Busy({"idle", "exec", "done", "killed"}) <= 1

=============================================================================
