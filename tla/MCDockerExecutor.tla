------------------------- MODULE MCDockerExecutor -------------------------
(***************************************************************************)
(* DockerExecutor for TLC.  Each profile lets some things go wrong, so     *)
(* that one run has both every race within a slot and several slots that   *)
(* compete for capacity and ports.                                         *)
(***************************************************************************)
EXTENDS DockerExecutor, TLC

Only(S, state) == [t \in Tasks |-> IF t \in S THEN state ELSE "other"]

OneTask == [registry |-> Only({1}, "pending"), faults |-> Faults \ {"rival"}, starts |-> 2]

TwoTasks ==
    [registry |-> [Only({1}, "absent") EXCEPT ![2] = "pending"],
     faults |-> {"rival", "stop"}, starts |-> 1]

TwoFailing == [registry |-> Only({1, 2}, "pending"), faults |-> {"docker"}, starts |-> 1]

ThreeTasks == [registry |-> Only(Tasks, "pending"), faults |-> {}, starts |-> 1]

MCProfiles == {OneTask, TwoTasks, TwoFailing, ThreeTasks}
=============================================================================
