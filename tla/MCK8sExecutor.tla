--------------------------- MODULE MCK8sExecutor ---------------------------
(***************************************************************************)
(* K8sExecutor for TLC.  Each profile lets some things go wrong, so that   *)
(* one run has every crash point of one task and several tasks that        *)
(* compete for the capacity.  Two tasks may get one command_id.            *)
(***************************************************************************)
EXTENDS K8sExecutor, TLC

Only(S, state) == [t \in Tasks |-> IF t \in S THEN state ELSE "other"]

OneTask ==
    [registry |-> Only({1}, "pending"), faults |-> {"lost", "agent", "control", "crash"},
     seeds |-> {1}, starts |-> 3]

OneInCluster ==
    [registry |-> Only({1}, "pending"), faults |-> {"lost", "cluster", "pods", "stop"},
     seeds |-> {0, 16}, starts |-> 3]

FineInstants ==
    [registry |-> Only({1}, "pending"), faults |-> {"lost", "nanos", "crash"},
     seeds |-> {1}, starts |-> 3]

TwoFailing ==
    [registry |-> Only({1, 2}, "pending"), faults |-> {"pods", "rival"},
     seeds |-> {1}, starts |-> 1]

TwoCrashing ==
    [registry |-> Only({1, 2}, "pending"), faults |-> {"crash"},
     seeds |-> {1, 2}, starts |-> 2]

ThreeTasks ==
    [registry |-> Only(Tasks, "pending"), faults |-> {"cluster"}, seeds |-> {1}, starts |-> 1]

MCProfiles == {OneTask, OneInCluster, FineInstants, TwoFailing, TwoCrashing, ThreeTasks}
=============================================================================
