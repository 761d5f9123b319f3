-------------------------- MODULE MCStateRegistry --------------------------
(***************************************************************************)
(* Instances of StateRegistry for TLC.  Instants 0, 1 and 2, 3 share one   *)
(* stored instant and one second.  The created event of task t reads after *)
(* some Executor event ids and before others, as a random UUID does.       *)
(***************************************************************************)
EXTENDS StateRegistry, FiniteSets, TLC

CONSTANTS NumTasks, NumEventIds, NumControlEventIds, LastInstant

MCTasks == 1 .. NumTasks
MCEventIds == {2 * i : i \in 1 .. NumEventIds}
MCControlEventIds == 1 .. NumControlEventIds
MCCreatedEventId == [t \in MCTasks |-> 2 * t + 1]
MCTimes == 0 .. LastInstant

Symmetry == Permutations(Executors) \cup Permutations(Teams) \cup Permutations(Tags)
=============================================================================
