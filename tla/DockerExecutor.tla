-------------------------- MODULE DockerExecutor --------------------------
(***************************************************************************)
(* The Docker OpenHands Executor (executor/docker_openhands): one poll     *)
(* goroutine that claims tasks and starts containers, and per task slot    *)
(* three goroutines that race to end it: runTaskV0002 (health check,       *)
(* conversation, event stream, deferred cleanup), watchContainerExitV0002  *)
(* and watchTaskControls.  SIGTERM drains, a crash forgets everything but  *)
(* the containers, and a start kills the containers that were left.        *)
(*                                                                         *)
(* The State Registry, Docker and OpenHands are environment: a call may    *)
(* not arrive, or arrive and not be answered.  command_id is left out: a   *)
(* claim is repeated only while the task is pending, when any command is   *)
(* as good.  So are the capacity observations, which decide nothing, and   *)
(* the missing image and missing scope token, which the Registry excludes. *)
(***************************************************************************)
EXTENDS Integers, FiniteSetsExt

CONSTANTS
    Tasks,          \* task_id values; < is the FIFO order of discovery
    Scope,          \* of the Executor: "team" or "system"
    MaxContainers,
    PortStart,      \* OpenHandsPortStart
    PortEnd,        \* OpenHandsPortEnd
    Profiles        \* the Registry at first, what may go wrong, how many starts

Faults == {"lost",     \* a call to the Registry fails, is lost, or its answer is
           "docker",   \* a Docker call fails
           "rival",    \* another Executor claims a task first
           "control",  \* the operator cancels tasks
           "agent",    \* health check, submission or stream fail by themselves
           "stop",     \* SIGTERM
           "crash"}

RegistryStates == {"absent", "pending", "other", "created", "running", "finished", "failed"}

ASSUME ExecutorConstants ==
    /\ Tasks \subseteq Nat
    /\ Scope \in {"team", "system"}
    /\ MaxContainers \in Nat \ {0}
    /\ PortStart \in Nat /\ PortEnd \in Nat
    /\ PortEnd - PortStart + 1 >= MaxContainers
    /\ Profiles \subseteq [registry: [Tasks -> RegistryStates], faults: SUBSET Faults, starts: Nat]

VARIABLES
    faults,        \* what may go wrong in this behaviour
    registry,      \* tasks.current_state; "other": claimed by another Executor
    control,       \* status of the task's cancel control in the Registry
    sent,          \* sent[t]: terminal events posted for t so far
    process,       \* "up", "stopping", "draining", "down"
    starts,        \* starts of the process that are left
    poll,          \* the poll goroutine: where it is, its list, task and port
    acceptedTasks,
    reservations,  \* slotReservations
    nextPort,
    slots,         \* keys of e.slots
    slot,          \* slot[t]: the taskSlot and its three goroutines
    drainSet,      \* slots drain has yet to stop
    container,     \* container[t]: "none", "running", "exited" or "created", and host port
    abandoned      \* containers nobody looks after any more: the Executor failed to
                   \* remove them, or their start failed and left them behind

registryVars == <<registry, control, sent>>
memory == <<poll, acceptedTasks, reservations, nextPort, slots, slot, drainSet>>
dockerVars == <<container, abandoned>>
vars == <<faults, registryVars, process, starts, memory, dockerVars>>

NoSlot == [port |-> 0, terminal |-> FALSE, acceptedTerminal |-> "none", cancelled |-> FALSE,
           closed |-> FALSE, run |-> "none", exit |-> "none", ctl |-> "none"]

NoContainer == [state |-> "none", port |-> 0]

Idle == [at |-> "idle", items |-> {}, task |-> 0, port |-> 0]

Init ==
    /\ \E p \in Profiles : registry = p.registry /\ faults = p.faults /\ starts = p.starts
    /\ control = [t \in Tasks |-> "none"]
    /\ sent = [t \in Tasks |-> 0]
    /\ process = "down"
    /\ poll = Idle
    /\ acceptedTasks = [t \in Tasks |-> "none"]
    /\ reservations = 0
    /\ nextPort = PortStart
    /\ slots = {}
    /\ slot = [t \in Tasks |-> NoSlot]
    /\ drainSet = {}
    /\ container = [t \in Tasks |-> NoContainer]
    /\ abandoned = {}

-----------------------------------------------------------------------------
(***************************************************************************)
(* The outcomes of a call, and of posting a terminal event.                *)
(***************************************************************************)
Calls ==
    {[reached |-> TRUE, answered |-> TRUE]}
      \cup IF "lost" \in faults
           THEN {[reached |-> TRUE, answered |-> FALSE], [reached |-> FALSE, answered |-> FALSE]}
           ELSE {}

(***************************************************************************)
(* The same under a context that is cancelled: no answer is waited for.    *)
(***************************************************************************)
ContextCalls ==
    IF process = "up" THEN Calls
    ELSE {[reached |-> TRUE, answered |-> FALSE], [reached |-> FALSE, answered |-> FALSE]}

(***************************************************************************)
(* A task event names the task's team.  v0002TaskTeamID finds it in the    *)
(* slot; without the slot only a team Executor knows it, and an event with *)
(* no team is refused.                                                     *)
(***************************************************************************)
PostCalls(t) ==
    IF Scope = "team" \/ t \in slots THEN Calls ELSE {[reached |-> FALSE, answered |-> FALSE]}

PostTerminal(t, type, call) ==
    /\ sent' = [sent EXCEPT ![t] = @ + 1]
    /\ registry' = IF call.reached /\ registry[t] = "running"
                   THEN [registry EXCEPT ![t] = type]
                   ELSE registry

-----------------------------------------------------------------------------
(***************************************************************************)
(* The environment: listeners, other Executors, the operator, containers.  *)
(***************************************************************************)
Ingest(t) ==
    /\ registry[t] = "absent"
    /\ registry' = [registry EXCEPT ![t] = "pending"]
    /\ UNCHANGED <<faults, control, sent, process, starts, memory, dockerVars>>

RivalClaims(t) ==
    /\ "rival" \in faults
    /\ registry[t] = "pending"
    /\ registry' = [registry EXCEPT ![t] = "other"]
    /\ UNCHANGED <<faults, control, sent, process, starts, memory, dockerVars>>

RequestCancel(t) ==
    /\ "control" \in faults
    /\ registry[t] # "absent"
    /\ control[t] = "none"
    /\ control' = [control EXCEPT ![t] = "pending"]
    /\ UNCHANGED <<faults, registry, sent, process, starts, memory, dockerVars>>

Running(t) == container[t].state = "running"

ContainerDies(t) ==
    /\ "docker" \in faults
    /\ Running(t)
    /\ container' = [container EXCEPT ![t].state = "exited"]
    /\ UNCHANGED <<faults, registryVars, process, starts, memory, abandoned>>

-----------------------------------------------------------------------------
(***************************************************************************)
(* tickV0002: list the pending tasks, then try them in FIFO order for as   *)
(* long as there is capacity.  The list is not read again in between.      *)
(***************************************************************************)
FreeSlots == MaxContainers - Cardinality(slots) - reservations

Tick ==
    LET items == {t \in Tasks : registry[t] = "pending"}
    IN /\ process = "up"
       /\ poll.at = "idle"
       /\ FreeSlots # 0
       /\ items # {}
       /\ poll' = [Idle EXCEPT !.at = "next", !.items = items]
       /\ UNCHANGED <<faults, registryVars, process, starts, acceptedTasks, reservations,
                      nextPort, slots, slot, drainSet, dockerVars>>

TryNext ==
    LET open == {t \in poll.items : acceptedTasks[t] = "none" /\ t \notin slots}
    IN /\ poll.at = "next"
       /\ poll' = IF FreeSlots <= 0 \/ open = {} THEN Idle
                  ELSE [poll EXCEPT !.at = "claim",
                                    !.task = Min(open),
                                    !.items = {t \in open : t > Min(open)}]
       /\ UNCHANGED <<faults, registryVars, process, starts, acceptedTasks, reservations,
                      nextPort, slots, slot, drainSet, dockerVars>>

(***************************************************************************)
(* The claim.  A refusal goes on to the next task of the list; any other   *)
(* error ends the tick.                                                    *)
(***************************************************************************)
Claimable(t) == registry[t] = "pending" /\ \A u \in Tasks : u < t => registry[u] # "pending"

ClaimTask(call) ==
    LET t == poll.task
        granted == call.reached /\ Claimable(t)
    IN /\ poll.at = "claim"
       /\ call \in ContextCalls
       /\ registry' = IF granted THEN [registry EXCEPT ![t] = "created"] ELSE registry
       /\ IF granted /\ call.answered
          THEN /\ acceptedTasks' = [acceptedTasks EXCEPT ![t] = "running"]
               /\ reservations' = reservations + 1
               /\ poll' = [poll EXCEPT !.at = "running"]
          ELSE /\ poll' = IF call.answered THEN [poll EXCEPT !.at = "next"] ELSE Idle
               /\ UNCHANGED <<acceptedTasks, reservations>>
       /\ UNCHANGED <<faults, control, sent, process, starts, nextPort, slots, slot,
                      drainSet, dockerVars>>

(***************************************************************************)
(* startTaskV0002 gives up: terminalizeAcceptedV0002, the deferred release *)
(* of the reservation, and the break of the tick's loop.                   *)
(***************************************************************************)
GiveUpKeepsReservation(t) ==
    /\ acceptedTasks' = [acceptedTasks EXCEPT ![t] = "none"]
    /\ poll' = Idle
    /\ UNCHANGED reservations

GiveUp(t) ==
    /\ acceptedTasks' = [acceptedTasks EXCEPT ![t] = "none"]
    /\ reservations' = reservations - 1
    /\ poll' = Idle

WaitCancelled ==
    /\ poll.at = "running"
    /\ process = "stopping"
    /\ GiveUp(poll.task)
    /\ UNCHANGED <<faults, registryVars, process, starts, nextPort, slots, slot, drainSet,
                   dockerVars>>

RunningIgnoresError(call) ==
    LET t == poll.task
    IN /\ poll.at = "running"
       /\ call \in Calls
       /\ registry' = IF call.reached THEN [registry EXCEPT ![t] = "running"] ELSE registry
       /\ poll' = [poll EXCEPT !.at = "open"]
       /\ UNCHANGED <<acceptedTasks, reservations>>
       /\ UNCHANGED <<faults, control, sent, process, starts, nextPort, slots, slot,
                      drainSet, dockerVars>>

AppendRunning(call) ==
    LET t == poll.task
    IN /\ poll.at = "running"
       /\ call \in Calls
       /\ registry' = IF call.reached THEN [registry EXCEPT ![t] = "running"] ELSE registry
       /\ IF call.answered
          THEN poll' = [poll EXCEPT !.at = "open"] /\ UNCHANGED <<acceptedTasks, reservations>>
          ELSE GiveUp(t)
       /\ UNCHANGED <<faults, control, sent, process, starts, nextPort, slots, slot,
                      drainSet, dockerVars>>

(***************************************************************************)
(* Open the environment: a failure, of which a refusal is one, is reported *)
(* as the task's end.  A task without launch parameters opens nothing, and *)
(* goes on under a cancelled context too.                                  *)
(***************************************************************************)
OpenEnvironment ==
    /\ poll.at = "open"
    /\ poll' = [poll EXCEPT !.at = "port"]
    /\ UNCHANGED <<faults, registryVars, process, starts, acceptedTasks, reservations,
                   nextPort, slots, slot, drainSet, dockerVars>>

OpenFails(call) ==
    /\ poll.at = "open"
    /\ \E c \in ContextCalls : ~c.answered
    /\ call \in Calls
    /\ GiveUp(poll.task)
    /\ PostTerminal(poll.task, "failed", call)
    /\ UNCHANGED <<faults, control, process, starts, nextPort, slots, slot, drainSet, dockerVars>>

(***************************************************************************)
(* Ports are handed out upwards from nextPort, passing over the ports of   *)
(* installed slots.  When none is left the task is dropped, and its end is *)
(* not reported.                                                           *)
(***************************************************************************)
AllPorts == nextPort .. PortEnd

FreePorts == {p \in nextPort .. PortEnd : \A t \in slots : slot[t].port # p}

AllocatePort ==
    /\ poll.at = "port"
    /\ IF FreePorts = {}
       THEN GiveUp(poll.task) /\ UNCHANGED nextPort
       ELSE /\ nextPort' = Min(FreePorts) + 1
            /\ poll' = [poll EXCEPT !.at = "start", !.port = Min(FreePorts)]
            /\ UNCHANGED <<acceptedTasks, reservations>>
    /\ UNCHANGED <<faults, registryVars, process, starts, slots, slot, drainSet, dockerVars>>

ReleasePort(p) == nextPort' = IF p < nextPort THEN p ELSE nextPort

(***************************************************************************)
(* Pull and start.  A start that fails may leave a created container, and  *)
(* one whose answer was lost or not waited for, as under the context that  *)
(* SIGTERM cancels, a container that runs.  Nothing removes either.        *)
(***************************************************************************)
PortBound(p) == \E t \in Tasks : Running(t) /\ container[t].port = p

StartFails(left, call) ==
    LET t == poll.task
    IN /\ poll.at = "start"
       /\ "docker" \in faults \/ process # "up" \/ PortBound(poll.port)
       /\ left = "running" => ~PortBound(poll.port)
       /\ call \in Calls
       /\ GiveUp(t)
       /\ ReleasePort(poll.port)
       /\ PostTerminal(t, "failed", call)
       /\ container' = [container EXCEPT ![t] =
            [state |-> left, port |-> IF left = "running" THEN poll.port ELSE 0]]
       /\ abandoned' = IF left = "none" THEN abandoned ELSE abandoned \cup {t}
       /\ UNCHANGED <<faults, control, process, starts, slots, slot, drainSet>>

StartContainer ==
    LET t == poll.task
    IN /\ poll.at = "start"
       /\ process = "up"
       /\ ~PortBound(poll.port)
       /\ container' = [container EXCEPT ![t] = [state |-> "running", port |-> poll.port]]
       /\ slots' = slots \cup {t}
       /\ slot' = [slot EXCEPT ![t] =
            [NoSlot EXCEPT !.port = poll.port, !.run = "health", !.exit = "watch"]]
       /\ reservations' = reservations - 1
       /\ poll' = [poll EXCEPT !.at = "next"]
       /\ UNCHANGED <<faults, registryVars, process, starts, acceptedTasks, nextPort,
                      drainSet, abandoned>>

-----------------------------------------------------------------------------
(***************************************************************************)
(* The slot's goroutines.  claimTerminal succeeds once per slot; who wins  *)
(* it posts the terminal event.  A goroutine that wins it and posts before *)
(* anyone can tell does both in one step.                                  *)
(***************************************************************************)
Cancelled(t) == slot[t].cancelled \/ process # "up"

PostUnlessTerminal(t, type, call) ==
    IF slot[t].terminal THEN UNCHANGED <<registry, sent>> ELSE PostTerminal(t, type, call)

SlotUnchanged ==
    UNCHANGED <<faults, process, starts, poll, reservations, drainSet>>

(***************************************************************************)
(* runTaskV0002: health check and submission, each under the slot context. *)
(***************************************************************************)
RunnerAdvances(t) ==
    /\ slot[t].run \in {"health", "submit"}
    /\ ~Cancelled(t)
    /\ Running(t)
    /\ slot' = [slot EXCEPT ![t] =
         IF @.run = "health" THEN [@ EXCEPT !.run = "submit"]
         ELSE [@ EXCEPT !.run = "stream", !.ctl = "watch"]]
    /\ SlotUnchanged
    /\ UNCHANGED <<registryVars, acceptedTasks, nextPort, slots, dockerVars>>

RunnerFailsQuietly(t, call) ==
    /\ slot[t].run \in {"health", "submit", "stream"}
    /\ Cancelled(t) \/ ~Running(t) \/ "agent" \in faults
    /\ call \in Calls
    /\ slot' = [slot EXCEPT ![t].run = "ended", ![t].terminal = TRUE]
    /\ SlotUnchanged
    /\ UNCHANGED <<registryVars, acceptedTasks, nextPort, slots, dockerVars>>

RunnerFails(t, call) ==
    /\ slot[t].run \in {"health", "submit", "stream"}
    /\ Cancelled(t) \/ ~Running(t) \/ "agent" \in faults
    /\ call \in Calls
    /\ PostUnlessTerminal(t, "failed", call)
    /\ slot' = [slot EXCEPT ![t].run = "ended", ![t].terminal = TRUE]
    /\ SlotUnchanged
    /\ UNCHANGED <<control, acceptedTasks, nextPort, slots, dockerVars>>

(***************************************************************************)
(* streamOpenHandsEvents: a terminal status, or a close frame with code    *)
(* normal or going-away, which the code takes for a normal end.            *)
(***************************************************************************)
StreamTerminal(t, type, call) ==
    /\ slot[t].run = "stream"
    /\ Running(t)
    /\ call \in Calls
    /\ PostUnlessTerminal(t, type, call)
    /\ slot' = [slot EXCEPT ![t] =
         [@ EXCEPT !.run = "ended", !.terminal = TRUE,
                   !.acceptedTerminal = IF slot[t].terminal THEN @ ELSE type]]
    /\ SlotUnchanged
    /\ UNCHANGED <<control, acceptedTasks, nextPort, slots, dockerVars>>

StreamCloses(t) ==
    /\ slot[t].run = "stream"
    /\ "agent" \in faults \/ ~Running(t)
    /\ slot' = [slot EXCEPT ![t].run = "ended", ![t].closed = ~slot[t].terminal]
    /\ SlotUnchanged
    /\ UNCHANGED <<registryVars, acceptedTasks, nextPort, slots, dockerVars>>

(***************************************************************************)
(* The deferred calls, in order: stopControls, terminalizeV0002Slot,       *)
(* cleanupContainer (after the retention delay when a terminal event was   *)
(* recorded), removeSlot.                                                  *)
(***************************************************************************)
TerminalizeFreesSlot(t) ==
    /\ slot[t].run = "ended"
    /\ acceptedTasks' = IF slot[t].terminal THEN acceptedTasks
                        ELSE [acceptedTasks EXCEPT ![t] = "terminal"]
    /\ ReleasePort(slot[t].port)
    /\ slots' = slots \ {t}
    /\ slot' = [slot EXCEPT ![t] =
         [@ EXCEPT !.terminal = TRUE,
                   !.run = IF slot[t].acceptedTerminal # "none" THEN "retain" ELSE "cleanup"]]
    /\ SlotUnchanged
    /\ UNCHANGED <<registryVars, dockerVars>>

TerminalizeSlot(t) ==
    /\ slot[t].run = "ended"
    /\ acceptedTasks' = IF slot[t].terminal THEN acceptedTasks
                        ELSE [acceptedTasks EXCEPT ![t] = "terminal"]
    /\ ReleasePort(slot[t].port)
    /\ slot' = [slot EXCEPT ![t] =
         [@ EXCEPT !.terminal = TRUE,
                   !.run = IF slot[t].acceptedTerminal # "none" THEN "retain" ELSE "cleanup"]]
    /\ SlotUnchanged
    /\ UNCHANGED <<registryVars, slots, dockerVars>>

RetentionEnds(t) ==
    /\ slot[t].run = "retain"
    /\ slot' = [slot EXCEPT ![t].run = "cleanup"]
    /\ SlotUnchanged
    /\ UNCHANGED <<registryVars, acceptedTasks, nextPort, slots, dockerVars>>

(***************************************************************************)
(* Stop, or kill when that fails.  When both fail the container stays.     *)
(***************************************************************************)
RemoveContainer(t) ==
    \/ /\ container' = [container EXCEPT ![t] = NoContainer]
       /\ UNCHANGED abandoned
    \/ /\ "docker" \in faults
       /\ container[t].state # "none"
       /\ abandoned' = abandoned \cup {t}
       /\ UNCHANGED container

CleanupContainer(t) ==
    /\ slot[t].run = "cleanup"
    /\ RemoveContainer(t)
    /\ slot' = [slot EXCEPT ![t].run = "remove"]
    /\ SlotUnchanged
    /\ UNCHANGED <<registryVars, acceptedTasks, nextPort, slots>>

(***************************************************************************)
(* The runner returns; what its watchers no longer read is dropped.        *)
(***************************************************************************)
RemoveSlot(t) ==
    /\ slot[t].run = "remove"
    /\ slots' = slots \ {t}
    /\ slot' = [slot EXCEPT ![t] =
         [@ EXCEPT !.run = "done", !.port = 0, !.acceptedTerminal = "none", !.cancelled = FALSE]]
    /\ SlotUnchanged
    /\ UNCHANGED <<registryVars, acceptedTasks, nextPort, dockerVars>>

-----------------------------------------------------------------------------
(***************************************************************************)
(* watchContainerExitV0002.  It claims the end, posts it, and only then    *)
(* cancels the slot; nobody waits for it.  It may lose its subscription,   *)
(* or subscribe after the container died.  Once the end is claimed it can  *)
(* only return.                                                            *)
(***************************************************************************)
ExitClaimsAgain(t) ==
    /\ slot[t].exit = "watch"
    /\ ~Running(t)
    /\ slot' = [slot EXCEPT ![t].terminal = TRUE, ![t].exit = "post"]
    /\ SlotUnchanged
    /\ UNCHANGED <<registryVars, acceptedTasks, nextPort, slots, dockerVars>>

ExitClaims(t) ==
    /\ slot[t].exit = "watch"
    /\ ~Running(t)
    /\ ~slot[t].terminal
    /\ slot' = [slot EXCEPT ![t].terminal = TRUE, ![t].exit = "post"]
    /\ SlotUnchanged
    /\ UNCHANGED <<registryVars, acceptedTasks, nextPort, slots, dockerVars>>

ExitPosts(t, call) ==
    /\ slot[t].exit = "post"
    /\ call \in PostCalls(t)
    /\ PostTerminal(t, "failed", call)
    /\ slot' = [slot EXCEPT ![t] =
         [@ EXCEPT !.exit = "done", !.cancelled = TRUE,
                   !.acceptedTerminal = IF call.answered THEN "failed" ELSE @]]
    /\ SlotUnchanged
    /\ UNCHANGED <<control, acceptedTasks, nextPort, slots, dockerVars>>

ExitWatcherEnds(t) ==
    /\ slot[t].exit = "watch"
    /\ ~slot[t].terminal
    /\ Cancelled(t) \/ "docker" \in faults
    /\ slot' = [slot EXCEPT ![t].exit = "done"]
    /\ SlotUnchanged
    /\ UNCHANGED <<registryVars, acceptedTasks, nextPort, slots, dockerVars>>

(***************************************************************************)
(* watchTaskControls and applyCancelControl: acknowledge, pause the        *)
(* conversation, complete, then end the task.  The watcher stops after the *)
(* first cancellation it attempts, whatever became of it, and can only     *)
(* return once its context is cancelled.                                   *)
(***************************************************************************)
ControlsStopped(t) == Cancelled(t) \/ slot[t].run # "stream"

SetControl(t, status, call) ==
    control' = IF call.reached THEN [control EXCEPT ![t] = status] ELSE control

ControlSeen(t) ==
    /\ slot[t].ctl = "watch"
    /\ ~ControlsStopped(t)
    /\ control[t] = "pending"
    /\ slot' = [slot EXCEPT ![t].ctl = "acknowledge"]
    /\ SlotUnchanged
    /\ UNCHANGED <<registryVars, acceptedTasks, nextPort, slots, dockerVars>>

ControlAcknowledges(t, call) ==
    /\ slot[t].ctl = "acknowledge"
    /\ call \in Calls
    /\ SetControl(t, "acknowledged", call)
    /\ slot' = [slot EXCEPT ![t].ctl = IF call.answered THEN "pause" ELSE "done"]
    /\ SlotUnchanged
    /\ UNCHANGED <<registry, sent, acceptedTasks, nextPort, slots, dockerVars>>

ControlPauses(t) ==
    /\ slot[t].ctl = "pause"
    /\ ~ControlsStopped(t)
    /\ Running(t)
    /\ slot' = [slot EXCEPT ![t].ctl = "complete"]
    /\ SlotUnchanged
    /\ UNCHANGED <<registryVars, acceptedTasks, nextPort, slots, dockerVars>>

ControlPauseFails(t, call) ==
    /\ slot[t].ctl = "pause"
    /\ ControlsStopped(t) \/ ~Running(t) \/ "agent" \in faults
    /\ call \in Calls
    /\ SetControl(t, "failed", call)
    /\ slot' = [slot EXCEPT ![t].ctl = "done"]
    /\ SlotUnchanged
    /\ UNCHANGED <<registry, sent, acceptedTasks, nextPort, slots, dockerVars>>

ControlCompletes(t, call) ==
    /\ slot[t].ctl = "complete"
    /\ call \in Calls
    /\ SetControl(t, "completed", call)
    /\ slot' = [slot EXCEPT ![t].ctl = IF call.answered THEN "end" ELSE "done"]
    /\ SlotUnchanged
    /\ UNCHANGED <<registry, sent, acceptedTasks, nextPort, slots, dockerVars>>

ControlClaims(t) ==
    /\ slot[t].ctl = "end"
    /\ slot' = [slot EXCEPT ![t] =
         IF @.terminal THEN [@ EXCEPT !.ctl = "done", !.cancelled = TRUE]
         ELSE [@ EXCEPT !.ctl = "post", !.terminal = TRUE]]
    /\ SlotUnchanged
    /\ UNCHANGED <<registryVars, acceptedTasks, nextPort, slots, dockerVars>>

ControlPostsOnly(t, call) ==
    /\ slot[t].ctl = "post"
    /\ call \in PostCalls(t)
    /\ PostTerminal(t, "failed", call)
    /\ slot' = [slot EXCEPT ![t] =
         [@ EXCEPT !.ctl = "done", !.acceptedTerminal = "failed"]]
    /\ SlotUnchanged
    /\ UNCHANGED <<control, acceptedTasks, nextPort, slots, dockerVars>>

ControlPosts(t, call) ==
    /\ slot[t].ctl = "post"
    /\ call \in PostCalls(t)
    /\ PostTerminal(t, "failed", call)
    /\ slot' = [slot EXCEPT ![t] =
         [@ EXCEPT !.ctl = "done", !.acceptedTerminal = "failed", !.cancelled = TRUE]]
    /\ SlotUnchanged
    /\ UNCHANGED <<control, acceptedTasks, nextPort, slots, dockerVars>>

-----------------------------------------------------------------------------
(***************************************************************************)
(* Run.  A start kills what the last process left, as far as Docker lets   *)
(* it, and registers; the process polls until SIGTERM, which cancels every *)
(* context; once the poll goroutine has returned, drain stops the slots'   *)
(* containers one by one and waits for their runners, or for its deadline. *)
(***************************************************************************)
Forgotten ==
    /\ poll' = Idle
    /\ acceptedTasks' = [t \in Tasks |-> "none"]
    /\ reservations' = 0
    /\ nextPort' = PortStart
    /\ slots' = {}
    /\ slot' = [t \in Tasks |-> NoSlot]
    /\ drainSet' = {}

Start(killed) ==
    LET left == {t \in Tasks : container[t].state # "none"}
    IN /\ process = "down"
       /\ starts > 0
       /\ starts' = starts - 1
       /\ killed \subseteq left
       /\ "docker" \in faults \/ killed = left
       /\ process' = "up"
       /\ container' = [t \in Tasks |-> IF t \in killed THEN NoContainer ELSE container[t]]
       /\ abandoned' = left \ killed
       /\ UNCHANGED <<faults, registryVars, memory>>

Sigterm ==
    /\ "stop" \in faults
    /\ process = "up"
    /\ process' = "stopping"
    /\ UNCHANGED <<faults, registryVars, starts, memory, dockerVars>>

Drain ==
    /\ process = "stopping"
    /\ poll.at = "idle"
    /\ process' = "draining"
    /\ drainSet' = slots
    /\ UNCHANGED <<faults, registryVars, starts, poll, acceptedTasks, reservations, nextPort,
                   slots, slot, dockerVars>>

DrainStops(t) ==
    /\ process = "draining"
    /\ t \in drainSet
    /\ drainSet' = drainSet \ {t}
    /\ \/ container' = [container EXCEPT ![t] = NoContainer]
       \/ "docker" \in faults /\ UNCHANGED container
    /\ UNCHANGED <<faults, registryVars, process, starts, poll, acceptedTasks, reservations,
                   nextPort, slots, slot, abandoned>>

DrainEndsEarly ==
    /\ process = "draining"
    /\ drainSet = {}
    /\ process' = "down"
    /\ Forgotten
    /\ UNCHANGED <<faults, registryVars, starts, dockerVars>>

DrainEnds ==
    /\ process = "draining"
    /\ drainSet = {}
    /\ slots = {}
    /\ process' = "down"
    /\ Forgotten
    /\ UNCHANGED <<faults, registryVars, starts, dockerVars>>

(***************************************************************************)
(* The drain deadline expires, or the process is killed.                   *)
(***************************************************************************)
Crash ==
    /\ "crash" \in faults
    /\ process # "down"
    /\ process' = "down"
    /\ Forgotten
    /\ UNCHANGED <<faults, registryVars, starts, dockerVars>>

-----------------------------------------------------------------------------
PollStep ==
    \/ TryNext
    \/ \E call \in ContextCalls : ClaimTask(call)
    \/ WaitCancelled
    \/ \E call \in Calls : AppendRunning(call)
    \/ OpenEnvironment
    \/ \E call \in Calls : OpenFails(call)
    \/ AllocatePort
    \/ \E left \in {"none", "created", "running"}, call \in Calls : StartFails(left, call)
    \/ StartContainer

RunnerStep(t) ==
    \/ RunnerAdvances(t)
    \/ \E call \in Calls : RunnerFails(t, call)
    \/ TerminalizeSlot(t)
    \/ RetentionEnds(t)
    \/ CleanupContainer(t)
    \/ RemoveSlot(t)

StreamStep(t) ==
    \/ \E type \in {"finished", "failed"}, call \in Calls : StreamTerminal(t, type, call)
    \/ StreamCloses(t)

ExitStep(t) == ExitClaims(t) \/ ExitWatcherEnds(t) \/ \E call \in PostCalls(t) : ExitPosts(t, call)

ControlStep(t) ==
    \/ ControlSeen(t)
    \/ \E call \in Calls : ControlAcknowledges(t, call)
    \/ ControlPauses(t)
    \/ \E call \in Calls : ControlPauseFails(t, call)
    \/ \E call \in Calls : ControlCompletes(t, call)
    \/ ControlClaims(t)
    \/ \E call \in PostCalls(t) : ControlPosts(t, call)

Environment(t) == Ingest(t) \/ RivalClaims(t) \/ RequestCancel(t) \/ ContainerDies(t)

Next ==
    \/ Tick
    \/ PollStep
    \/ \E t \in Tasks : \/ RunnerStep(t) \/ StreamStep(t) \/ ExitStep(t)
                        \/ ControlStep(t) \/ Environment(t) \/ DrainStops(t)
    \/ \E killed \in SUBSET Tasks : Start(killed)
    \/ Sigterm \/ Drain \/ DrainEnds \/ Crash

(***************************************************************************)
(* Goroutines run and every call of theirs has a timeout.  Nothing makes   *)
(* OpenHands end a conversation or close the stream, so a runner that      *)
(* reads the stream is only sure to go on once its context is cancelled or *)
(* its container is gone.                                                  *)
(***************************************************************************)
RunnerMustMove(t) ==
    /\ slot[t].run = "stream" => Cancelled(t) \/ ~Running(t)
    /\ RunnerStep(t)

Fairness ==
    \A t \in Tasks : WF_vars(RunnerMustMove(t)) /\ WF_vars(ExitStep(t)) /\ WF_vars(ControlStep(t))

Spec == Init /\ [][Next]_vars /\ Fairness

-----------------------------------------------------------------------------
(***************************************************************************)
(* Type correctness.                                                       *)
(***************************************************************************)
TypeOK ==
    /\ faults \subseteq Faults
    /\ registry \in [Tasks -> RegistryStates]
    /\ control \in [Tasks -> {"none", "pending", "acknowledged", "completed", "failed"}]
    /\ sent \in [Tasks -> Nat]
    /\ process \in {"up", "stopping", "draining", "down"}
    /\ starts \in Nat
    /\ poll.at \in {"idle", "next", "claim", "running", "open", "port", "start"}
    /\ poll.items \subseteq Tasks
    /\ acceptedTasks \in [Tasks -> {"none", "running", "terminal"}]
    /\ reservations \in 0 .. 1
    /\ nextPort \in PortStart .. PortEnd + 1
    /\ slots \subseteq Tasks
    /\ drainSet \subseteq Tasks
    /\ container \in [Tasks -> [state: {"none", "created", "running", "exited"},
                                port: {0} \cup (PortStart .. PortEnd)]]
    /\ abandoned \subseteq Tasks

(***************************************************************************)
(* A task gets at most one terminal event, whoever ends it: the launch     *)
(* that fails, the stream, the container's exit, the operator's control or *)
(* the drain, in any order, and also over restarts of the process.         *)
(***************************************************************************)
OneTerminalEvent == \A t \in Tasks : sent[t] <= 1

(***************************************************************************)
(* Containers that run, those kept for the retention delay included, never *)
(* exceed MaxContainers, counting the one that is about to start.  Only    *)
(* containers come on top that Docker refused to remove, or started        *)
(* without the Executor learning of it.                                    *)
(***************************************************************************)
CapacityHeld ==
    process = "up" =>
        Cardinality({t \in Tasks : Running(t) /\ t \notin abandoned}) + reservations <= MaxContainers

(***************************************************************************)
(* No two slots have the same host port, nor has a slot the port chosen    *)
(* for the container that is about to start, although a port is released   *)
(* before its slot and its container are removed.                          *)
(***************************************************************************)
PortsDistinct ==
    /\ \A t, u \in slots : slot[t].port = slot[u].port => t = u
    /\ poll.at = "start" => \A t \in slots : slot[t].port # poll.port

(***************************************************************************)
(* A terminal event is posted only for a task the Registry has as running: *)
(* no lost call, restart or rival makes the Executor end a task it did not *)
(* start, or start one it does not own.                                    *)
(***************************************************************************)
EndsOnlyRunning == [][\A t \in Tasks : sent'[t] # sent[t] => registry[t] = "running"]_vars

(***************************************************************************)
(* A slot whose goroutines have all returned has posted its terminal event *)
(* unless the stream was closed with a normal close code first.            *)
(***************************************************************************)
Returned(t) ==
    /\ slot[t].run = "done"
    /\ slot[t].exit # "post"
    /\ slot[t].ctl # "post"

ReportedUnlessClosed == \A t \in Tasks : Returned(t) /\ ~slot[t].closed => sent[t] = 1

(***************************************************************************)
(* After a drain that met its deadline no container of a slot runs, except *)
(* one that Docker refused to remove, wherever the slot's goroutines were  *)
(* when SIGTERM came.  The drain knows only slots, so that a container     *)
(* whose start SIGTERM interrupted runs on until the next start kills it.  *)
(***************************************************************************)
DrainLeavesNothing ==
    [][process = "draining" /\ DrainEnds => \A t \in Tasks : ~Running(t) \/ t \in abandoned]_vars

(***************************************************************************)
(* Once anyone has claimed the end of a slot, the slot is freed: a lost    *)
(* post, a control or an exit never leaves it taken for good.              *)
(***************************************************************************)
EndedSlotFreed == \A t \in Tasks : (t \in slots /\ slot[t].terminal) ~> t \notin slots

(***************************************************************************)
(* What the code says of itself and does not keep: every slot that ends    *)
(* has posted finished or failed.                                          *)
(***************************************************************************)
EverySlotReported == \A t \in Tasks : Returned(t) => sent[t] = 1

(***************************************************************************)
(* The configuration check takes a port range of MaxContainers ports to be *)
(* enough.  It is not: a port passed over while its ended slot is retained *)
(* lies below nextPort for good.                                           *)
(***************************************************************************)
PortForEverySlot == poll.at = "port" => FreePorts # {}
=============================================================================
