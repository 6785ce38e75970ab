-------------------------- MODULE MCEMailAutoCheck --------------------------
(***************************************************************************)
(* Model checking EMailAutoCheck.  Threads are interchangeable.  Seen       *)
(* forgets what no step will read again, and the numbers of arrays.         *)
(***************************************************************************)
EXTENDS EMailAutoCheck, TLC

Symmetry == Permutations(Threads)

\* Whoever posts a task raises its interval.
Raised == [p \in Threads \union {Seed} |-> IF p = Seed THEN 1 ELSE 2]

SeenJob(p) ==
    CASE pc[p] \in {"idle", "done", "wait", "pick", "turn", "drop"} -> "none"
      [] pc[p] \in {"open", "put", "rename", "reload", "unmark"} ->
            IF job[p].kind \in {"run", "config"} THEN <<job[p].kind, job[p].id>> ELSE job[p].id
      [] OTHER -> job[p]
SeenMine(p) ==
    <<Content(mine[p]), mine[p].tasks = config.tasks, mine[p].accts = config.accts,
      {q \in Procs : mine[q].tasks = mine[p].tasks},
      {q \in Procs : mine[q].accts = mine[p].accts}>>
Seen ==
    <<Content(config), config = Nil, known, loaded, newer, markVars, fileVars, pc,
      [p \in Procs |-> SeenJob(p)], [p \in Procs |-> IF mine[p] = Nil THEN Nil ELSE SeenMine(p)],
      data, now, boots, histVars>>

Active == {p \in Procs : pc[p] \notin {"idle", "done", "wait"}}
Begun == \A p \in Threads : pc[p] # "idle"
Focus ==
    /\ Cardinality(Active) <= 2
    /\ now > 1 => ~clash /\ ~failed /\ ~Begun
    /\ boots > 0 => now = 1 /\ ~overlap /\ ~failed /\ ~Begun

=============================================================================
