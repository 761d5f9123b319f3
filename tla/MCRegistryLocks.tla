-------------------------- MODULE MCRegistryLocks --------------------------
(***************************************************************************)
(* RegistryLocks for TLC: one team Executor and one system Executor.       *)
(***************************************************************************)
EXTENDS RegistryLocks, TLC

CONSTANTS teamA, teamExecutor, systemExecutor

MCExecutors == {teamExecutor, systemExecutor}
MCExecutorTeam == [e \in MCExecutors |-> IF e = teamExecutor THEN teamA ELSE Nil]
MCTaskTeam == [t \in Tasks |-> teamA]

(***************************************************************************)
(* Task 2 is pending; task 1 is yet to be ingested, or is claimed.         *)
(***************************************************************************)
Row(state, e) == [current_state |-> state, executor_id |-> e, ingested_at |-> 1]

MCInitialTables ==
    {<<row, Row("pending", Nil)>> :
        row \in {Row("absent", Nil), Row("created", teamExecutor)}}
=============================================================================
