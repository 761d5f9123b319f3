--------------------------- MODULE TaskLifecycle ---------------------------
(***************************************************************************)
(* What FlowAI promises about one task, whatever the components do: the    *)
(* task is ingested once, is taken by one Executor that keeps it for good, *)
(* and then moves forward along pending -> created -> running -> finished  *)
(* or failed.  It never moves back and never changes hands.  The State     *)
(* Registry (module StateRegistry) is shown to implement this.             *)
(***************************************************************************)
CONSTANTS Tasks, Executors, Nil

VARIABLES
    status,  \* status[t]: "absent" before ingestion, then the task's state
    owner    \* owner[t]: the Executor the task was assigned to, or Nil

vars == <<status, owner>>

Statuses == {"absent", "pending", "created", "running", "finished", "failed"}

Init ==
    /\ status = [t \in Tasks |-> "absent"]
    /\ owner = [t \in Tasks |-> Nil]

Ingest(t) ==
    /\ status[t] = "absent"
    /\ status' = [status EXCEPT ![t] = "pending"]
    /\ UNCHANGED owner

Assign(t, e) ==
    /\ status[t] = "pending"
    /\ status' = [status EXCEPT ![t] = "created"]
    /\ owner' = [owner EXCEPT ![t] = e]

Start(t) ==
    /\ status[t] = "created"
    /\ status' = [status EXCEPT ![t] = "running"]
    /\ UNCHANGED owner

End(t, outcome) ==
    /\ status[t] = "running"
    /\ status' = [status EXCEPT ![t] = outcome]
    /\ UNCHANGED owner

Next ==
    \E t \in Tasks :
        \/ Ingest(t)
        \/ \E e \in Executors : Assign(t, e)
        \/ Start(t)
        \/ \E outcome \in {"finished", "failed"} : End(t, outcome)

Spec == Init /\ [][Next]_vars
=============================================================================
