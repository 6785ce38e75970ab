--------------------------- MODULE MCAccountStore ---------------------------
(***************************************************************************)
(* Model checking AccountStore.  Threads are interchangeable.  Two threads *)
(* perform any requests; three perform only requests that decide about     *)
(* user names, without write failures, before any restart and before the   *)
(* store holds anything but names, passwords and memberships of its own,   *)
(* under ids spelled plainly.                                              *)
(***************************************************************************)
EXTENDS AccountStore, TLC

Symmetry == Permutations(Threads)

Naming(request) ==
    /\ request.kind \in {"none", "create", "update", "login"}
    /\ request.field \in {"none", "name"}
OnlyNames(s) ==
    /\ s.mcp = Seed
    /\ s.groups = Default.groups
    /\ \A k \in Present(s) : s.accounts[k].note = Seed /\ s.accounts[k].keys = {}
\* Something is stored, or about to be, under an id spelled its own way.
OwnSpelling ==
    \/ misfit
    \/ \E k \in Present(mem) : k.as # Plain
    \/ \E k \in PresentGroups(mem) : k.as # Plain
    \/ \E p \in Threads : job[p].at.as # Plain \/ job[p].group.as # Plain

Focus ==
    \/ /\ \E p \in Threads : pc[p] = "idle"
       /\ misfit => boots = 0 /\ ~failed
    \/ /\ boots = 0 /\ ~failed /\ ~stop /\ ~stopping
       /\ ~OwnSpelling
       /\ \A p \in Threads : Naming(job[p])
       /\ OnlyNames(file)

=============================================================================
