---------------------------- MODULE K8sExecutor ----------------------------
(***************************************************************************)
(* The Kubernetes OpenHands Executor (executor/k8s-openhands): one loop    *)
(* that claims tasks and creates Pods, one monitor goroutine per Pod, and  *)
(* a bbolt cache (assignments and an event outbox) from which a restarted  *)
(* process finds its Pods again.                                           *)
(*                                                                         *)
(* A step ends where a crash leaves something different behind: after a    *)
(* write to the cache, and after a call that changes something at the      *)
(* Registry, in the cluster or in OpenHands.  The deletions of Reconcile   *)
(* are one step: the next start makes those that a crash cut off.          *)
(* A call may not arrive, or arrive and not be answered.  Pod names, the   *)
(* first eight characters of the task's UUID, are taken to be distinct.    *)
(* Left out: running_count and the state of the process, which decide      *)
(* nothing, failing writes to the local cache, the missing image and the   *)
(* missing scope token, which the Registry excludes, and published logs.   *)
(***************************************************************************)
EXTENDS Integers, Sequences, FiniteSetsExt

CONSTANTS
    Tasks,     \* task_id values; < is the FIFO order of discovery
    MaxPods,
    Profiles   \* the Registry at first, what may go wrong, the clock, how many starts

Faults == {"lost",     \* a call to the Registry fails, is lost, or its answer is
           "cluster",  \* the same for the Kubernetes API
           "pods",     \* Pods end by themselves
           "agent",    \* health check, submission or stream fail by themselves
           "rival",    \* another Executor claims a task first
           "control",  \* the operator cancels tasks
           "nanos",    \* events carry instants finer than the Registry stores
           "stop",     \* SIGTERM
           "crash"}

RegistryStates == {"pending", "other", "created", "running", "finished", "failed"}
Terminal == {"finished", "failed"}

ASSUME ExecutorConstants ==
    /\ Tasks \subseteq Nat
    /\ MaxPods \in Nat \ {0}
    /\ \A p \in Profiles :
         /\ p.registry \in [Tasks -> RegistryStates]
         /\ p.faults \subseteq Faults
         /\ p.seeds \subseteq 0..255
         /\ p.starts \in Nat

VARIABLES
    faults,         \* what may go wrong in this behaviour
    seeds,          \* what the low byte of the clock may be when a task is first seen
    registry,       \* tasks.current_state; "other": claimed by another Executor
    accepted,       \* event_ids in the Registry's log, as indices of outbox
    control,        \* status of the task's cancel control in the Registry
    issued,         \* executor_ids the Registry has handed out
    pods,           \* pods[t]: phase of the Pod named after t and its command label
    created,        \* created[t]: Pods created for t so far
    unanswered,     \* tasks whose Pod was created without an answer
    conversations,  \* conversations[t]: conversations started for t so far
    executorID,     \* cache, metadata bucket: 0 before the first registration
    assignments,    \* cache, assignments bucket
    outbox,         \* cache, event_outbox bucket; the index is the event_id
    process,        \* what the main goroutine does
    starts,         \* starts of the process that are left
    attach,         \* assignments reconcileCachedWork has yet to reattach
    poll,           \* tickV0002 and startTaskV0002: where they are
    reservations,   \* slotReservations
    lastSeen,       \* lastSeen[t]: the seed of t's command_id, -1 if none
    slots           \* e.pods: slots[t] with the place of its runPodTask

registryVars == <<registry, accepted, control, issued>>
clusterVars == <<pods, created, unanswered, conversations>>
cacheVars == <<executorID, assignments, outbox>>
memory == <<attach, poll, reservations, lastSeen, slots>>
setting == <<faults, seeds>>
vars == <<setting, registryVars, clusterVars, cacheVars, process, starts, memory>>

NoPod == [phase |-> "none", cmd |-> 0]
NoAssignment == [state |-> "none", cmd |-> 0, ref |-> FALSE, conversation |-> FALSE]
NoSlot == [at |-> "none", cmd |-> 0, llm |-> FALSE, conversation |-> FALSE, event |-> 0]
Idle == [at |-> "idle", items |-> {}, task |-> 0, cmd |-> 0, llm |-> FALSE, event |-> 0]

Init ==
    /\ \E p \in Profiles :
         registry = p.registry /\ faults = p.faults /\ seeds = p.seeds /\ starts = p.starts
    /\ accepted = {}
    /\ control = [t \in Tasks |-> "none"]
    /\ issued = 0
    /\ pods = [t \in Tasks |-> NoPod]
    /\ created = [t \in Tasks |-> 0]
    /\ unanswered = {}
    /\ conversations = [t \in Tasks |-> 0]
    /\ executorID = 0
    /\ assignments = [t \in Tasks |-> NoAssignment]
    /\ outbox = <<>>
    /\ process = "down"
    /\ attach = {}
    /\ poll = Idle
    /\ reservations = 0
    /\ lastSeen = [t \in Tasks |-> -1]
    /\ slots = [t \in Tasks |-> NoSlot]

-----------------------------------------------------------------------------
(***************************************************************************)
(* The outcomes of a call to the Registry and of one to the cluster, and   *)
(* of either under the context that SIGTERM cancels.                       *)
(***************************************************************************)
CallsUnder(fault) ==
    {[reached |-> TRUE, answered |-> TRUE]}
      \cup IF fault \in faults
           THEN {[reached |-> TRUE, answered |-> FALSE], [reached |-> FALSE, answered |-> FALSE]}
           ELSE {}

Cancelled == {[reached |-> TRUE, answered |-> FALSE], [reached |-> FALSE, answered |-> FALSE]}

Calls == CallsUnder("lost")
ContextCalls(fault) == IF process = "up" THEN CallsUnder(fault) ELSE Cancelled

(***************************************************************************)
(* POST /v1/tasks/{id}/events at the Registry.  An event that is already   *)
(* in the log is answered as before, unless its instant was cut when it    *)
(* was stored; then the repetition is a conflict.                          *)
(***************************************************************************)
EventOK(id) ==
    LET t == outbox[id].task
        type == outbox[id].type
    IN IF id \in accepted THEN "nanos" \notin faults
       ELSE \/ type = "running" /\ registry[t] = "created"
            \/ type \in Terminal /\ registry[t] = "running"

Post(id, call) ==
    IF call.reached /\ EventOK(id) /\ id \notin accepted
    THEN /\ registry' = [registry EXCEPT ![outbox[id].task] = outbox[id].type]
         /\ accepted' = accepted \cup {id}
    ELSE UNCHANGED <<registry, accepted>>

PostSucceeds(id, call) == call.answered /\ EventOK(id)

(***************************************************************************)
(* appendTaskEvent up to the request: a fresh event_id, stored as pending. *)
(***************************************************************************)
PutOutbox(t, type) ==
    outbox' = Append(outbox, [task |-> t, type |-> type, state |-> "pending"])

UpdateOutboxState(id) == outbox' = [outbox EXCEPT ![id].state = "accepted"]

-----------------------------------------------------------------------------
(***************************************************************************)
(* The environment: other Executors, the operator, and the cluster, whose  *)
(* Pods become ready and end.  Nobody else deletes a Pod.                  *)
(***************************************************************************)
RivalClaims(t) ==
    /\ "rival" \in faults
    /\ registry[t] = "pending"
    /\ registry' = [registry EXCEPT ![t] = "other"]
    /\ UNCHANGED <<setting, accepted, control, issued, clusterVars, cacheVars, process, starts,
                   memory>>

RequestCancel(t) ==
    /\ "control" \in faults
    /\ control[t] = "none"
    /\ control' = [control EXCEPT ![t] = "pending"]
    /\ UNCHANGED <<setting, registry, accepted, issued, clusterVars, cacheVars, process, starts,
                   memory>>

PodChanges(t, phase) ==
    /\ \/ pods[t].phase = "pending" /\ phase = "running"
       \/ /\ "pods" \in faults
          /\ pods[t].phase = "pending" /\ phase = "failed"
       \/ /\ "pods" \in faults
          /\ pods[t].phase = "running" /\ phase \in {"failed", "succeeded"}
    /\ pods' = [pods EXCEPT ![t].phase = phase]
    /\ UNCHANGED <<setting, registryVars, created, unanswered, conversations, cacheVars, process, starts,
                   memory>>

-----------------------------------------------------------------------------
(***************************************************************************)
(* The process.  main takes the lock on the cache, so there is one at a    *)
(* time; whatever ends it takes the monitors with it.                      *)
(***************************************************************************)
Forget ==
    /\ attach' = {}
    /\ poll' = Idle
    /\ reservations' = 0
    /\ lastSeen' = [t \in Tasks |-> -1]
    /\ slots' = [t \in Tasks |-> NoSlot]

Start ==
    /\ process = "down"
    /\ starts > 0
    /\ process' = "registering"
    /\ starts' = starts - 1
    /\ UNCHANGED <<setting, registryVars, clusterVars, cacheVars, memory>>

Stop ==
    /\ "stop" \in faults
    /\ process = "up"
    /\ process' = "stopping"
    /\ UNCHANGED <<setting, registryVars, clusterVars, cacheVars, starts, memory>>

Exit ==
    /\ process = "stopping"
    /\ poll.at = "idle"
    /\ process' = "down"
    /\ Forget
    /\ UNCHANGED <<setting, registryVars, clusterVars, cacheVars, starts>>

Crash ==
    /\ "crash" \in faults
    /\ process # "down"
    /\ process' = "down"
    /\ Forget
    /\ UNCHANGED <<setting, registryVars, clusterVars, cacheVars, starts>>

(***************************************************************************)
(* ensureRegistered.  POST until an executor_id is in the cache, PUT with  *)
(* that one ever after.  An error ends Run.                                *)
(***************************************************************************)
Register(call) ==
    /\ process = "registering"
    /\ call \in Calls
    /\ issued' = IF executorID = 0 /\ call.reached THEN issued + 1 ELSE issued
    /\ process' = IF call.answered THEN "registered" ELSE "stopping"
    /\ UNCHANGED <<setting, registry, accepted, control, clusterVars, cacheVars, starts, memory>>

PutExecutorID ==
    /\ process = "registered"
    /\ executorID' = IF executorID = 0 THEN issued ELSE executorID
    /\ process' = "reconciling"
    /\ UNCHANGED <<setting, registryVars, clusterVars, assignments, outbox, starts, memory>>

(***************************************************************************)
(* Reconcile: an assignment is kept when some Pod carries its command_id.  *)
(***************************************************************************)
PodWithCommand(cmd) == \E u \in Tasks : pods[u].phase # "none" /\ pods[u].cmd = cmd

Cached == {t \in Tasks : assignments[t].state # "none"}

Reconcile(listed) ==
    /\ process = "reconciling"
    /\ listed \/ "cluster" \in faults
    /\ IF listed
       THEN /\ attach' = {t \in Cached : PodWithCommand(assignments[t].cmd)}
            /\ assignments' = [t \in Tasks |->
                                 IF t \in attach' THEN assignments[t] ELSE NoAssignment]
            /\ process' = "retrying"
       ELSE /\ process' = "stopping"
            /\ UNCHANGED <<attach, assignments>>
    /\ UNCHANGED <<setting, registryVars, clusterVars, executorID, outbox, starts, poll,
                   reservations, lastSeen, slots>>

(***************************************************************************)
(* retryPendingOutbox, in the order of the random event_ids.  An answer is *)
(* remembered in poll.event until the event is marked.                     *)
(***************************************************************************)
Pending == {id \in DOMAIN outbox : outbox[id].state = "pending"}

RetryMarksAnyway(id, call) ==
    /\ process = "retrying" /\ poll.event = 0
    /\ id \in Pending
    /\ call \in Calls
    /\ Post(id, call)
    /\ poll' = [Idle EXCEPT !.event = id]
    /\ UNCHANGED <<setting, control, issued, clusterVars, cacheVars, process, starts, attach,
                   reservations, lastSeen, slots>>

RetryPendingOutbox(id, call) ==
    /\ process = "retrying" /\ poll.event = 0
    /\ id \in Pending
    /\ call \in Calls
    /\ Post(id, call)
    /\ IF PostSucceeds(id, call)
       THEN poll' = [Idle EXCEPT !.event = id] /\ UNCHANGED process
       ELSE process' = "stopping" /\ UNCHANGED poll
    /\ UNCHANGED <<setting, control, issued, clusterVars, cacheVars, starts, attach,
                   reservations, lastSeen, slots>>

AcceptRetried ==
    /\ process = "retrying" /\ poll.event # 0
    /\ UpdateOutboxState(poll.event)
    /\ poll' = Idle
    /\ UNCHANGED <<setting, registryVars, clusterVars, executorID, assignments, process, starts,
                   attach, reservations, lastSeen, slots>>

RetriesDone ==
    /\ process = "retrying"
    /\ Pending = {}
    /\ process' = "attaching"
    /\ UNCHANGED <<setting, registryVars, clusterVars, cacheVars, starts, memory>>

(***************************************************************************)
(* The loop of reconcileCachedWork.  The slot knows the conversation, not  *)
(* the prompt nor the LLM parameters.  An assignment without a Pod         *)
(* reference ends Run.                                                     *)
(***************************************************************************)
Attach ==
    LET t == Min(attach)
    IN /\ process = "attaching"
       /\ attach # {}
       /\ attach' = attach \ {t}
       /\ IF assignments[t].ref
          THEN /\ slots' = [slots EXCEPT ![t] =
                    [NoSlot EXCEPT !.at = "watch", !.cmd = assignments[t].cmd,
                                   !.conversation = assignments[t].conversation]]
               /\ UNCHANGED process
          ELSE process' = "stopping" /\ UNCHANGED slots
       /\ UNCHANGED <<setting, registryVars, clusterVars, cacheVars, starts, poll, reservations,
                      lastSeen>>

AttachDone ==
    /\ process = "attaching"
    /\ attach = {}
    /\ process' = "up"
    /\ UNCHANGED <<setting, registryVars, clusterVars, cacheVars, starts, memory>>

-----------------------------------------------------------------------------
(***************************************************************************)
(* tickV0002: list the pending tasks, then try them in FIFO order while    *)
(* there is capacity, by the Executor's count and by the cluster's.        *)
(***************************************************************************)
Slotted == {t \in Tasks : slots[t].at # "none"}
InCluster == {t \in Tasks : pods[t].phase # "none"}

FreeSlots == MaxPods - Cardinality(Slotted) - reservations

HasLocalCapacity == FreeSlots > 0
HasClusterCapacity == FreeSlots > 0 /\ Cardinality(InCluster) < MaxPods

Tick ==
    LET items == {t \in Tasks : registry[t] = "pending"}
    IN /\ process = "up"
       /\ poll.at = "idle"
       /\ HasClusterCapacity
       /\ items # {}
       /\ poll' = [Idle EXCEPT !.at = "next", !.items = items]
       /\ UNCHANGED <<setting, registryVars, clusterVars, cacheVars, process, starts, attach,
                      reservations, lastSeen, slots>>

TickEnds ==
    /\ poll.at = "next"
    /\ \/ ~HasClusterCapacity
       \/ poll.items \subseteq Slotted
       \/ process = "stopping"
       \/ "cluster" \in faults
    /\ poll' = Idle
    /\ UNCHANGED <<setting, registryVars, clusterVars, cacheVars, process, starts, attach,
                   reservations, lastSeen, slots>>

(***************************************************************************)
(* commandIDForStable spells twelve digits that all follow from the low    *)
(* four bits of the seed: there are sixteen command_ids.  commandIDFor     *)
(* takes the remembered seed, unless that is zero.                         *)
(***************************************************************************)
CommandIDForStable(seed) == 1 + (seed % 16)

ClaimIntent(seed) ==
    LET open == poll.items \ Slotted
        t == Min(open)
        cmd == CommandIDForStable(seed)
    IN /\ poll.at = "next"
       /\ process = "up"
       /\ HasClusterCapacity
       /\ open # {}
       /\ lastSeen[t] > 0 => seed = lastSeen[t]
       /\ lastSeen' = [lastSeen EXCEPT ![t] = seed]
       /\ assignments' = [assignments EXCEPT ![t] =
            [NoAssignment EXCEPT !.state = "claiming", !.cmd = cmd]]
       /\ poll' = [Idle EXCEPT !.at = "claim", !.items = {u \in open : u > t}, !.task = t,
                               !.cmd = cmd]
       /\ UNCHANGED <<setting, registryVars, clusterVars, executorID, outbox, process, starts,
                      attach, reservations, slots>>

(***************************************************************************)
(* startTaskV0002.  A refused claim goes on with the next task; any other  *)
(* error, here or below, ends the tick.                                    *)
(***************************************************************************)
Claimable(t) == registry[t] = "pending" /\ \A u \in Tasks : u < t => registry[u] # "pending"

ClaimTask(call) ==
    LET t == poll.task
        granted == call.reached /\ Claimable(t)
    IN /\ poll.at = "claim"
       /\ call \in ContextCalls("lost")
       /\ registry' = IF granted THEN [registry EXCEPT ![t] = "created"] ELSE registry
       /\ poll' = CASE granted /\ call.answered  -> [poll EXCEPT !.at = "open"]
                    [] ~granted /\ call.answered -> [poll EXCEPT !.at = "next"]
                    [] OTHER                     -> Idle
       /\ UNCHANGED <<setting, accepted, control, issued, clusterVars, cacheVars, process, starts,
                      attach, reservations, lastSeen, slots>>

(***************************************************************************)
(* The launch parameters are opened; llm says whether all three that a     *)
(* conversation needs are among them.                                      *)
(***************************************************************************)
OpenEnvironment(call, llm) ==
    /\ poll.at = "open"
    /\ call \in ContextCalls("lost")
    /\ IF call.answered
       THEN /\ assignments' = [assignments EXCEPT ![poll.task].state = "claimed"]
            /\ reservations' = reservations + 1
            /\ poll' = [poll EXCEPT !.at = "event", !.llm = llm]
       ELSE /\ poll' = Idle
            /\ UNCHANGED <<assignments, reservations>>
    /\ UNCHANGED <<setting, registryVars, clusterVars, executorID, outbox, process, starts,
                   attach, lastSeen, slots>>

PutRunning ==
    /\ poll.at = "event"
    /\ PutOutbox(poll.task, "running")
    /\ poll' = [poll EXCEPT !.at = "post", !.event = Len(outbox) + 1]
    /\ UNCHANGED <<setting, registryVars, clusterVars, executorID, assignments, process, starts,
                   attach, reservations, lastSeen, slots>>

PostRunningIgnoresError(call) ==
    /\ poll.at = "post"
    /\ call \in Calls
    /\ Post(poll.event, call)
    /\ poll' = [poll EXCEPT !.at = "accept"]
    /\ UNCHANGED <<setting, control, issued, clusterVars, cacheVars, process, starts, attach,
                   reservations, lastSeen, slots>>

PostRunning(call) ==
    /\ poll.at = "post"
    /\ call \in Calls
    /\ Post(poll.event, call)
    /\ IF PostSucceeds(poll.event, call)
       THEN poll' = [poll EXCEPT !.at = "accept"] /\ UNCHANGED reservations
       ELSE poll' = Idle /\ reservations' = reservations - 1
    /\ UNCHANGED <<setting, control, issued, clusterVars, cacheVars, process, starts, attach,
                   lastSeen, slots>>

AcceptRunning ==
    /\ poll.at = "accept"
    /\ UpdateOutboxState(poll.event)
    /\ poll' = [poll EXCEPT !.at = "create"]
    /\ UNCHANGED <<setting, registryVars, clusterVars, executorID, assignments, process, starts,
                   attach, reservations, lastSeen, slots>>

(***************************************************************************)
(* CreatePod.  An error drops the assignment and sends no event.           *)
(***************************************************************************)
CreatePod(call) ==
    LET t == poll.task
    IN /\ poll.at = "create"
       /\ call \in ContextCalls("cluster")
       /\ IF call.reached
          THEN /\ pods' = [pods EXCEPT ![t] = [phase |-> "pending", cmd |-> poll.cmd]]
               /\ created' = [created EXCEPT ![t] = @ + 1]
          ELSE UNCHANGED <<pods, created>>
       /\ unanswered' = IF call.reached /\ ~call.answered THEN unanswered \cup {t} ELSE unanswered
       /\ poll' = [poll EXCEPT !.at = IF call.answered THEN "install" ELSE "drop"]
       /\ UNCHANGED <<setting, registryVars, conversations, cacheVars, process, starts, attach,
                      reservations, lastSeen, slots>>

DropAssignment ==
    /\ poll.at = "drop"
    /\ assignments' = [assignments EXCEPT ![poll.task] = NoAssignment]
    /\ reservations' = reservations - 1
    /\ poll' = Idle
    /\ UNCHANGED <<setting, registryVars, clusterVars, executorID, outbox, process, starts,
                   attach, lastSeen, slots>>

(***************************************************************************)
(* addPod, the release of the reservation, the assignment with its Pod     *)
(* reference, and the monitor.                                             *)
(***************************************************************************)
InstallKeepsReservation ==
    LET t == poll.task
    IN /\ poll.at = "install"
       /\ slots' = [slots EXCEPT ![t] =
            [NoSlot EXCEPT !.at = "watch", !.cmd = poll.cmd, !.llm = poll.llm]]
       /\ assignments' = [assignments EXCEPT ![t] = [@ EXCEPT !.state = "running", !.ref = TRUE]]
       /\ poll' = [Idle EXCEPT !.at = "next", !.items = poll.items]
       /\ UNCHANGED <<setting, registryVars, clusterVars, executorID, outbox, process, starts,
                      attach, reservations, lastSeen>>

InstallSlot ==
    LET t == poll.task
    IN /\ poll.at = "install"
       /\ slots' = [slots EXCEPT ![t] =
            [NoSlot EXCEPT !.at = "watch", !.cmd = poll.cmd, !.llm = poll.llm]]
       /\ reservations' = reservations - 1
       /\ assignments' = [assignments EXCEPT ![t] = [@ EXCEPT !.state = "running", !.ref = TRUE]]
       /\ poll' = [Idle EXCEPT !.at = "next", !.items = poll.items]
       /\ UNCHANGED <<setting, registryVars, clusterVars, executorID, outbox, process, starts,
                      attach, lastSeen>>

-----------------------------------------------------------------------------
(***************************************************************************)
(* runPodTask.  Finish is its decision for an outcome together with the    *)
(* first write of finishPodTask; PutFailed is that write where a call that *)
(* had its effect led to the decision.                                     *)
(***************************************************************************)
Finish(t, type) ==
    /\ PutOutbox(t, type)
    /\ slots' = [slots EXCEPT ![t] = [@ EXCEPT !.at = "post", !.event = Len(outbox) + 1]]

PutFailed(t) ==
    /\ slots[t].at = "fail"
    /\ Finish(t, "failed")
    /\ UNCHANGED <<setting, registryVars, clusterVars, executorID, assignments, process, starts,
                   attach, poll, reservations, lastSeen>>

(***************************************************************************)
(* The wait for a Pod that runs.  A Pod that succeeded or is gone gives    *)
(* the loop nothing to end with.                                           *)
(***************************************************************************)
WatchIgnoresFailure(t) ==
    /\ slots[t].at = "watch"
    /\ pods[t].phase = "running"
    /\ slots' = [slots EXCEPT ![t].at = "health"]
    /\ UNCHANGED <<setting, registryVars, clusterVars, cacheVars, process, starts, attach, poll,
                   reservations, lastSeen>>

WatchPod(t) ==
    /\ slots[t].at = "watch"
    /\ \/ /\ pods[t].phase = "running"
          /\ slots' = [slots EXCEPT ![t].at = "health"]
          /\ UNCHANGED outbox
       \/ /\ pods[t].phase = "failed"
          /\ Finish(t, "failed")
    /\ UNCHANGED <<setting, registryVars, clusterVars, executorID, assignments, process, starts,
                   attach, poll, reservations, lastSeen>>

HealthCheck(t) ==
    /\ slots[t].at = "health"
    /\ \/ /\ pods[t].phase = "running"
          /\ slots' = [slots EXCEPT ![t].at = "submit"]
          /\ UNCHANGED outbox
       \/ /\ "agent" \in faults \/ pods[t].phase # "running"
          /\ Finish(t, "failed")
    /\ UNCHANGED <<setting, registryVars, clusterVars, executorID, assignments, process, starts,
                   attach, poll, reservations, lastSeen>>

(***************************************************************************)
(* A conversation that the slot does not know is started, which needs the  *)
(* LLM parameters.  Then the conversation is written to the assignment and *)
(* observed.                                                               *)
(***************************************************************************)
StartConversation(t, call) ==
    /\ slots[t].at = "submit" /\ ~slots[t].conversation /\ slots[t].llm
    /\ call \in CallsUnder("agent")
    /\ conversations' = IF call.reached THEN [conversations EXCEPT ![t] = @ + 1] ELSE conversations
    /\ slots' = IF call.answered THEN [slots EXCEPT ![t].conversation = TRUE]
                ELSE [slots EXCEPT ![t].at = "fail"]
    /\ UNCHANGED <<setting, registryVars, pods, created, unanswered, cacheVars, process, starts,
                   attach, poll, reservations, lastSeen>>

SubmitFails(t) ==
    /\ slots[t].at = "submit" /\ ~slots[t].conversation /\ ~slots[t].llm
    /\ Finish(t, "failed")
    /\ UNCHANGED <<setting, registryVars, clusterVars, executorID, assignments, process, starts,
                   attach, poll, reservations, lastSeen>>

PutConversation(t) ==
    /\ slots[t].at = "submit" /\ slots[t].conversation
    /\ assignments' = [assignments EXCEPT ![t] =
         [state |-> "running", cmd |-> slots[t].cmd, ref |-> TRUE, conversation |-> TRUE]]
    /\ slots' = [slots EXCEPT ![t].at = "observe"]
    /\ UNCHANGED <<setting, registryVars, clusterVars, executorID, outbox, process, starts,
                   attach, poll, reservations, lastSeen>>

(***************************************************************************)
(* The select loop: the stream of the conversation has given a status or   *)
(* an error, or the watch reports a failed Pod.                            *)
(***************************************************************************)
ConversationEnds(t, type) ==
    /\ slots[t].at = "observe"
    /\ Finish(t, type)
    /\ UNCHANGED <<setting, registryVars, clusterVars, executorID, assignments, process, starts,
                   attach, poll, reservations, lastSeen>>

PodEnded(t) ==
    /\ slots[t].at = "observe"
    /\ pods[t].phase # "running"
    /\ Finish(t, "failed")
    /\ UNCHANGED <<setting, registryVars, clusterVars, executorID, assignments, process, starts,
                   attach, poll, reservations, lastSeen>>

(***************************************************************************)
(* applyPendingControls: acknowledge, pause the conversation, complete.    *)
(* An error before the end leaves the loop running; the next tick looks at *)
(* pending controls only.                                                  *)
(***************************************************************************)
ControlUnchanged ==
    UNCHANGED <<setting, registry, accepted, issued, clusterVars, cacheVars, process, starts,
                attach, poll, reservations, lastSeen>>

AcknowledgeControl(t, call) ==
    /\ slots[t].at = "observe"
    /\ control[t] = "pending"
    /\ call \in Calls
    /\ control' = IF call.reached THEN [control EXCEPT ![t] = "acknowledged"] ELSE control
    /\ slots' = IF call.answered THEN [slots EXCEPT ![t].at = "pause"] ELSE slots
    /\ ControlUnchanged

PauseConversation(t, ok) ==
    /\ slots[t].at = "pause"
    /\ IF ok THEN pods[t].phase = "running"
       ELSE "agent" \in faults \/ pods[t].phase # "running"
    /\ slots' = [slots EXCEPT ![t].at = IF ok THEN "complete" ELSE "refuse"]
    /\ UNCHANGED control
    /\ ControlUnchanged

FailControl(t, call) ==
    /\ slots[t].at = "refuse"
    /\ call \in Calls
    /\ control' = IF call.reached THEN [control EXCEPT ![t] = "failed"] ELSE control
    /\ slots' = [slots EXCEPT ![t].at = "observe"]
    /\ ControlUnchanged

CompleteControl(t, call) ==
    /\ slots[t].at = "complete"
    /\ call \in Calls
    /\ control' = IF call.reached THEN [control EXCEPT ![t] = "completed"] ELSE control
    /\ slots' = [slots EXCEPT ![t].at = IF call.answered THEN "fail" ELSE "observe"]
    /\ ControlUnchanged

(***************************************************************************)
(* finishPodTask.  Without an accepted event the Pod and the assignment    *)
(* stay; runPodTask gives up the slot either way.                          *)
(***************************************************************************)
PostTerminalForgets(t, call) ==
    /\ slots[t].at = "post"
    /\ call \in Calls
    /\ Post(slots[t].event, call)
    /\ IF PostSucceeds(slots[t].event, call)
       THEN slots' = [slots EXCEPT ![t].at = "accept"] /\ UNCHANGED assignments
       ELSE /\ slots' = [slots EXCEPT ![t] = NoSlot]
            /\ assignments' = [assignments EXCEPT ![t] = NoAssignment]
    /\ UNCHANGED <<setting, control, issued, clusterVars, executorID, outbox, process, starts,
                   attach, poll, reservations, lastSeen>>

PostTerminal(t, call) ==
    /\ slots[t].at = "post"
    /\ call \in Calls
    /\ Post(slots[t].event, call)
    /\ slots' = IF PostSucceeds(slots[t].event, call)
                THEN [slots EXCEPT ![t].at = "accept"]
                ELSE [slots EXCEPT ![t] = NoSlot]
    /\ UNCHANGED <<setting, control, issued, clusterVars, cacheVars, process, starts, attach, poll,
                   reservations, lastSeen>>

AcceptTerminal(t) ==
    /\ slots[t].at = "accept"
    /\ UpdateOutboxState(slots[t].event)
    /\ slots' = [slots EXCEPT ![t].at = "forget"]
    /\ UNCHANGED <<setting, registryVars, clusterVars, executorID, assignments, process, starts,
                   attach, poll, reservations, lastSeen>>

DeleteAssignment(t) ==
    /\ slots[t].at = "forget"
    /\ assignments' = [assignments EXCEPT ![t] = NoAssignment]
    /\ slots' = [slots EXCEPT ![t].at = "delete"]
    /\ UNCHANGED <<setting, registryVars, clusterVars, executorID, outbox, process, starts,
                   attach, poll, reservations, lastSeen>>

DeletePod(t, call) ==
    /\ slots[t].at = "delete"
    /\ call \in CallsUnder("cluster")
    /\ pods' = IF call.reached THEN [pods EXCEPT ![t] = NoPod] ELSE pods
    /\ slots' = [slots EXCEPT ![t] = NoSlot]
    /\ UNCHANGED <<setting, registryVars, created, unanswered, conversations, cacheVars, process, starts,
                   attach, poll, reservations, lastSeen>>

-----------------------------------------------------------------------------
OneCall == [reached: BOOLEAN, answered: BOOLEAN]

Monitor(t) ==
    \/ WatchPod(t)
    \/ HealthCheck(t)
    \/ SubmitFails(t)
    \/ PutConversation(t)
    \/ PodEnded(t)
    \/ \E ok \in BOOLEAN : PauseConversation(t, ok)
    \/ PutFailed(t)
    \/ AcceptTerminal(t)
    \/ DeleteAssignment(t)
    \/ \E call \in OneCall :
         \/ StartConversation(t, call)
         \/ AcknowledgeControl(t, call)
         \/ FailControl(t, call)
         \/ CompleteControl(t, call)
         \/ PostTerminal(t, call)
         \/ DeletePod(t, call)

Environment(t) ==
    \/ RivalClaims(t)
    \/ RequestCancel(t)
    \/ \E phase \in {"running", "failed", "succeeded"} : PodChanges(t, phase)
    \/ \E type \in Terminal : ConversationEnds(t, type)

Main ==
    \/ Start
    \/ Stop
    \/ Exit
    \/ Crash
    \/ PutExecutorID
    \/ AcceptRetried
    \/ RetriesDone
    \/ Attach
    \/ AttachDone
    \/ \E listed \in BOOLEAN : Reconcile(listed)
    \/ \E call \in OneCall :
         \/ Register(call)
         \/ \E id \in DOMAIN outbox : RetryPendingOutbox(id, call)

Poll ==
    \/ Tick
    \/ TickEnds
    \/ \E seed \in seeds : ClaimIntent(seed)
    \/ PutRunning
    \/ AcceptRunning
    \/ DropAssignment
    \/ InstallSlot
    \/ \E call \in OneCall :
         \/ ClaimTask(call)
         \/ \E llm \in BOOLEAN : OpenEnvironment(call, llm)
         \/ PostRunning(call)
         \/ CreatePod(call)

Next ==
    \/ Main
    \/ Poll
    \/ \E t \in Tasks : Monitor(t) \/ Environment(t)

(***************************************************************************)
(* A goroutine that can go on does: every wait of a monitor but the one    *)
(* for the conversation has a timeout.                                     *)
(***************************************************************************)
Spec ==
    /\ Init
    /\ [][Next]_vars
    /\ \A t \in Tasks : WF_vars(Monitor(t))

-----------------------------------------------------------------------------
TypeOK ==
    /\ faults \subseteq Faults
    /\ seeds \subseteq 0..255
    /\ registry \in [Tasks -> RegistryStates]
    /\ accepted \subseteq DOMAIN outbox
    /\ control \in [Tasks -> {"none", "pending", "acknowledged", "completed", "failed"}]
    /\ issued \in Nat
    /\ pods \in [Tasks -> [phase: {"none", "pending", "running", "failed", "succeeded"},
                           cmd: 0..16]]
    /\ created \in [Tasks -> Nat]
    /\ unanswered \subseteq Tasks
    /\ conversations \in [Tasks -> Nat]
    /\ executorID \in 0..issued
    /\ assignments \in [Tasks -> [state: {"none", "claiming", "claimed", "running"}, cmd: 0..16,
                                  ref: BOOLEAN, conversation: BOOLEAN]]
    /\ outbox \in Seq([task: Tasks, type: {"running"} \cup Terminal,
                       state: {"pending", "accepted"}])
    /\ process \in {"down", "registering", "registered", "reconciling", "retrying", "attaching",
                    "up", "stopping"}
    /\ starts \in Nat
    /\ attach \subseteq Tasks
    /\ poll \in [at: {"idle", "next", "claim", "open", "event", "post", "accept", "create",
                      "drop", "install"},
                 items: SUBSET Tasks, task: Tasks \cup {0}, cmd: 0..16, llm: BOOLEAN,
                 event: 0..Len(outbox)]
    /\ reservations =
         IF poll.at \in {"event", "post", "accept", "create", "drop", "install"} THEN 1 ELSE 0
    /\ lastSeen \in [Tasks -> seeds \cup {-1}]
    /\ slots \in [Tasks -> [at: {"none", "watch", "health", "submit", "observe", "pause",
                                 "refuse", "complete", "fail", "post", "accept", "forget",
                                 "delete"},
                            cmd: 0..16, llm: BOOLEAN, conversation: BOOLEAN,
                            event: 0..Len(outbox)]]

(***************************************************************************)
(* A Pod exists only for a task that the Registry has given to this        *)
(* Executor and has recorded as running; a task gets one Pod in its life,  *)
(* and its prompt is submitted once, through every crash, lost answer and  *)
(* restart: a restarted Executor goes on with the conversation in its      *)
(* cache or fails the task.                                                *)
(***************************************************************************)
StartedOnce ==
    \A t \in Tasks :
        /\ created[t] > 0 => registry[t] \in {"running"} \cup Terminal
        /\ created[t] <= 1
        /\ conversations[t] <= 1

(***************************************************************************)
(* The cluster never holds more Pods of this Executor than MaxPods, also   *)
(* when Pods outlive their slots (hasClusterCapacity).                     *)
(***************************************************************************)
PodsWithinCapacity == Cardinality(InCluster) <= MaxPods

(***************************************************************************)
(* Once the Executor has decided how a task ended, the Registry has a      *)
(* terminal event of the task or the outbox holds one to be sent again.    *)
(***************************************************************************)
OutcomeKept ==
    \A id \in DOMAIN outbox :
        outbox[id].type \in Terminal =>
            \/ registry[outbox[id].task] \in Terminal
            \/ \E other \in Pending :
                 /\ outbox[other].task = outbox[id].task
                 /\ outbox[other].type \in Terminal

(***************************************************************************)
(* The Pod of a task that is running at the Registry has its assignment in *)
(* the cache, so that a restart finds it.  The exception is a Pod whose    *)
(* creation was not answered: startTaskV0002 drops the assignment then.    *)
(***************************************************************************)
RunningPodRemembered ==
    \A t \in Tasks :
        pods[t].phase # "none" /\ registry[t] = "running" /\ t \notin unanswered
            => assignments[t].state # "none" /\ assignments[t].cmd = pods[t].cmd

(***************************************************************************)
(* A slot whose Pod failed is given up, so its place can be used again.    *)
(***************************************************************************)
FailedPodFreesSlot ==
    \A t \in Tasks : (slots[t].at # "none" /\ pods[t].phase = "failed") ~> (slots[t].at = "none")
=============================================================================
