----------------------------- MODULE MCOperator -----------------------------
(***************************************************************************)
(* What operators write and read, on small instances.  A behaviour keeps   *)
(* to one surface: the definitions and the claims that freeze them, the    *)
(* scope tokens of a claim, or the reads of one operator.                  *)
(***************************************************************************)
EXTENDS LaunchParameters, OperatorReads, TLC

CONSTANTS v1, v2

VARIABLE surface

-----------------------------------------------------------------------------
(* Launch parameters: one key, a value of the team's and one of everybody's. *)

MCKeys == {"k"}
MCWrites == {[env |-> [k \in MCKeys |-> v1], image |-> Absent],
             [env |-> [k \in MCKeys |-> Absent], image |-> "image"]}
MCGlobalWrites == {[env |-> [k \in MCKeys |-> v2], image |-> Absent],
                   [env |-> [k \in MCKeys |-> Absent], image |-> "invalid"]}
MCEnvironments == 0..2
Symmetric == Permutations(Claimants)

-----------------------------------------------------------------------------
(* Rows: a table per listing, with instants that tie and rows of two teams. *)

Row(table, id, at, team, mark, parent, owner) ==
    [table |-> table, id |-> id, at |-> at, team |-> team, mark |-> mark,
     parent |-> parent, owner |-> owner]
Query(endpoint, team, operator, mark, parent, limit) ==
    [endpoint |-> endpoint, team |-> team, operator |-> operator, mark |-> mark,
     parent |-> parent, period |-> 0, limit |-> limit]

MCFixtures ==
    {Row("task_types", 1, 0, 1, 0, 1, 0), Row("task_types", 2, 0, 2, 0, 1, 0),
     Row("task_types", 3, 0, 1, 0, 2, 0),
     Row("executors", 1, 0, 1, 1, 1, 0), Row("executors", 2, 0, 0, 1, 1, 0),
     Row("executors", 3, 0, 2, 1, 1, 0),
     Row("tasks", 1, 0, 1, 2, 1, 1), Row("tasks", 2, 1, 1, 1, 1, 0),
     Row("tasks", 3, 1, 1, 1, 1, 0), Row("tasks", 4, 1, 2, 1, 1, 0),
     Row("task_events", 1, 0, 1, 0, 1, 0), Row("control_events", 21, 1, 1, 1, 1, 0),
     Row("log_chunks", 1, 1, 1, 1, 1, 0),
     Row("executor_events", 1, 0, 1, 1, 1, 0), Row("executor_events", 2, 1, 0, 0, 2, 0),
     Row("environments", 1, 0, 1, 1, 0, 0),
     Row("secrets", 1, 1, 1, 0, 1, 0), Row("secrets", 2, 1, 1, 0, 1, 0),
     Row("secret_versions", 1, 1, 1, 0, 1, 0), Row("secret_versions", 2, 2, 1, 0, 1, 0),
     Row("audit_entries", 1, 1, 1, 1, 1, 0), Row("audit_entries", 2, 1, 1, 2, 1, 0),
     Row("audit_entries", 3, 0, 1, 1, 2, 0)}

MCArrivals ==
    {Row("tasks", 5, 1, 1, 1, 1, 0), Row("tasks", 6, 2, 1, 1, 1, 0),
     Row("task_types", 4, 0, 1, 0, 1, 0),
     Row("task_events", 2, 1, 1, 0, 1, 0), Row("task_events", 3, 2, 1, 0, 1, 0),
     Row("control_events", 22, 1, 1, 2, 1, 0), Row("control_events", 23, 2, 1, 3, 1, 0),
     Row("log_chunks", 2, 1, 1, 0, 1, 0),
     Row("executor_events", 7, 0, 1, 2, 1, 0), Row("executor_events", 8, 1, 0, 3, 2, 4),
     Row("executor_events", 9, 1, 1, 0, 1, 1),
     Row("secrets", 11, 1, 1, 0, 1, 0), Row("secret_versions", 12, 3, 1, 0, 1, 0)}

MCWalks ==
    {Query("/admin/tags", 0, 0, 0, 0, 1), Query("/admin/tags", 0, 0, 0, 1, 1),
     Query("/admin/tasks", 0, 0, 1, 0, 2), Query("/admin/tasks", 2, 0, 1, 0, 2),
     Query("/v1/tasks", 1, 1, 0, 1, 1), Query("/v1/tasks", 1, 2, 0, 1, 1),
     Query("/v1/audit", 1, 1, 0, 0, 1), Query("/v1/audit", 1, 1, 0, 1, 1),
     Query("/v1/environments", 1, 1, 0, 0, 1),
     Query("/v1/secrets", 1, 1, 0, 1, 1), Query("/v1/secrets", 1, 1, 0, 2, 1),
     Query("/v1/versions", 1, 1, 0, 1, 1), Query("/v1/versions", 1, 1, 0, 1, 2),
     Query("/ui/tasks", 1, 0, 0, 0, 1), Query("/ui/tasks", 1, 0, 1, 0, 1),
     [Query("/ui/tasks", 1, 0, 0, 0, 1) EXCEPT !.period = 1],
     Query("/ui/executor-events", 1, 0, 0, 2, 1),
     Query("/ui/executors", 1, 0, 1, 0, 1), Query("/ui/audit", 1, 0, 1, 0, 1),
     Query("/ui/task-events", 1, 0, 0, 1, 1), Query("/ui/executor-events", 1, 0, 0, 1, 1),
     Query("/ui/executor-tasks", 1, 0, 0, 1, 1), Query("/ui/logs", 1, 0, 0, 1, 1)}

\* Around the turn of the years 2020 (53 weeks), 2023/2024 and the end of a February.
MCEpoch == Date(2020, 12, 31)
Dashboards(now, keys) ==
    {[team |-> 1, period |-> "week", key |-> k, now |-> now] : k \in keys[1]} \cup
    {[team |-> 1, period |-> "month", key |-> k, now |-> now] : k \in keys[2]}
MCDashboards ==
    Dashboards(Date(2021, 1, 3), <<{<<>>, <<2020, 53>>, <<2021, 53>>, <<2021, 1>>},
                                   {<<>>, <<2020, 12>>, <<2021, 2>>, <<2020, 13>>}>>)
    \cup UNION {Dashboards(d, <<{<<>>}, {<<>>}>>) :
                 d \in {Date(2023, 12, 31), Date(2024, 2, 29), Date(2024, 12, 30)}}
    \cup {[team |-> 1, period |-> "day", key |-> <<2021, 1>>, now |-> Date(2021, 1, 3)]}

-----------------------------------------------------------------------------
MCInit ==
    /\ LaunchInit /\ ReadsInit
    /\ surface \in {"definitions", "tokens", "reads"}
    \* What the surface does not touch has one initial value.
    /\ surface # "reads" => walk = [NoWalk EXCEPT !.phase = "idle",
                                                 !.query = Query("/ui/logs", 1, 0, 0, 1, 1)]
    /\ surface = "reads" => /\ definitions[0].image = "invalid"
                            /\ \A t \in ClaimedTasks : taskRows[t].override

\* The keyring and the clock stand still while definitions are edited, and few
\* edits are made while tokens are rotated.
MCNext ==
    \/ /\ surface = "definitions"
       /\ UNCHANGED <<scopeKeys, instant, readVars>>
       /\ LaunchNext
    \/ /\ surface = "tokens"
       /\ LaunchNext
       /\ edits' <= 2
       /\ UNCHANGED readVars
    \/ /\ surface = "reads"
       /\ ReadsNext
       /\ UNCHANGED launchVars

MCSpec == MCInit /\ [][MCNext /\ UNCHANGED surface]_<<launchVars, readVars, surface>>

\* Every table, cursor, token and session has the shape the code gives it.
TypeOK == LaunchTypeOK /\ ReadsTypeOK
=============================================================================
