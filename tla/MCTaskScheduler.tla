--------------------------- MODULE MCTaskScheduler ---------------------------
(* Bounded instances of TaskScheduler: three tasks, two guests.            *)
EXTENDS TaskScheduler, TLC

CONSTANTS t1, t2, t3, g1, g2

\* Two guests; g2 submits t3, g1 the other tasks.
TwoGroups == [t \in Tasks |-> IF t = t3 THEN g2 ELSE g1]

\* One guest submits the three tasks.
OneGroup == [t \in Tasks |-> g1]

\* All tasks of one module.
OneModule == [t \in Tasks |-> [path |-> "a", function |-> "f"]]

\* t1 and t2 share a module, t3 has another one.
TwoModules == [t \in Tasks |-> [path |-> IF t = t3 THEN "b" ELSE "a", function |-> "f"]]

\* Threads and process identifiers are interchangeable.
ActorSymmetry == Permutations(Workers) \cup Permutations(Processes)
=============================================================================
