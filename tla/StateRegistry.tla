--------------------------- MODULE StateRegistry ---------------------------
(***************************************************************************)
(* The task core of the State Registry (svc/state-registry): Executor      *)
(* registration, listener ingestion, team archival, the claim transaction, *)
(* the append-only task event log with its projected state, and operator   *)
(* controls with their own event log.                                      *)
(*                                                                         *)
(* One action is one committed database transaction.  A request that the   *)
(* code rejects, or answers from the stored row, changes no row and is a   *)
(* stuttering step; what the caller is told is defined by the operators    *)
(* ClaimReplays and EventReplays.  Requests arrive in any order, any       *)
(* number of times, with any timestamp of Times: Executor clocks, the      *)
(* Registry's clock and the database clock are not synchronised.           *)
(***************************************************************************)
EXTENDS Integers, Sequences

CONSTANTS
    Teams,           \* team_id values
    Tags,            \* execution tags
    Executors,       \* executor_id values
    Tasks,           \* task_id values, numbers so that task_id order is <
    Sources,         \* external source_id values
    Commands,        \* command_id values
    EventIds,        \* event_id values sent by Executors, ordered by <
    CreatedEventId,  \* CreatedEventId[t] stands for "evt-" followed by task_id
    ControlKeys,     \* (operator, action, idempotency_key) of a control
    ControlEventIds, \* control_event_id values, ordered by <
    Times,           \* instants in the precision clients send (nanoseconds)
    Resolution,      \* client instants per stored instant (microsecond)
    Second,          \* client instants per truncated ingestion second
    Nil

ASSUME OrderedIds ==
    /\ Tasks \subseteq Nat
    /\ EventIds \subseteq Nat
    /\ ControlEventIds \subseteq Nat
    /\ CreatedEventId \in [Tasks -> Nat \ EventIds]
    /\ \A s, t \in Tasks : CreatedEventId[s] = CreatedEventId[t] => s = t

ASSUME Clocks ==
    /\ Times \subseteq Nat
    /\ Resolution \in Nat \ {0}
    /\ Second \in Nat \ {0}

ASSUME NilIsNoIdentifier == Nil \notin Teams \cup Tags \cup Executors \cup Commands

VARIABLES
    executors,      \* table executors: ownership scope, team and tag
    archived,       \* teams with archived_at set
    tasks,          \* table tasks
    events,         \* table task_events, per task in order of acceptance
    controls,       \* task_control_requests.status, per task and key
    controlEvents   \* table task_control_events, per control in order of acceptance

vars == <<executors, archived, tasks, events, controls, controlEvents>>

(***************************************************************************)
(* A timestamptz column keeps microseconds: the driver drops what is       *)
(* below.  ingested_at is cut down to the second.                          *)
(***************************************************************************)
StoredRoundedDown(at) == at - Resolution
Stored(at) == at - (at % Resolution)
TruncSecond(at) == at - (at % Second)

TaskStates == {"absent", "pending", "created", "running", "finished", "failed"}
Terminal == {"finished", "failed"}
ControlStates == {"absent", "pending", "acknowledged", "completed", "failed"}

ExecutorRow == [scope: {"absent", "team", "system"},
                team_id: Teams \cup {Nil},
                authorized_tag: Tags \cup {Nil}]

TaskRow == [current_state: TaskStates,
            team_id: Teams \cup {Nil},
            source_id: Sources \cup {Nil},
            required_tag: Tags \cup {Nil},
            ingested_at: Nat,
            owner_command_id: Commands \cup {Nil},
            executor_id: Executors \cup {Nil}]

(***************************************************************************)
(* sent is not a column: it remembers the occurred_at of the request that  *)
(* was accepted, in the precision the client sent it.                      *)
(***************************************************************************)
TaskEvent == [event_id: Nat, event_type: TaskStates, executor_id: Executors,
              occurred_at: Nat, sent: Nat]

ControlEvent == [control_event_id: Nat, status: ControlStates, occurred_at: Nat]

Controls == Tasks \X ControlKeys

Init ==
    /\ executors = [e \in Executors |->
                      [scope |-> "absent", team_id |-> Nil, authorized_tag |-> Nil]]
    /\ archived = {}
    /\ tasks = [t \in Tasks |->
                  [current_state |-> "absent", team_id |-> Nil, source_id |-> Nil,
                   required_tag |-> Nil, ingested_at |-> 0,
                   owner_command_id |-> Nil, executor_id |-> Nil]]
    /\ events = [t \in Tasks |-> <<>>]
    /\ controls = [c \in Controls |-> "absent"]
    /\ controlEvents = [c \in Controls |-> <<>>]

-----------------------------------------------------------------------------
(***************************************************************************)
(* POST /v1/executors and PUT /v1/executors/{id}.  A first registration    *)
(* inserts the row; a later one may change the tag, never scope or team.   *)
(***************************************************************************)
RegisterRebindsTeam(e, scope, team, tag) ==
    /\ scope = "team" <=> team # Nil
    /\ executors' = [executors EXCEPT ![e] =
         [scope |-> scope, team_id |-> team, authorized_tag |-> tag]]
    /\ UNCHANGED <<archived, tasks, events, controls, controlEvents>>

RegisterExecutor(e, scope, team, tag) ==
    /\ scope = "team" <=> team # Nil
    /\ executors[e].scope # "absent" =>
         /\ executors[e].scope = scope
         /\ executors[e].team_id = team
    /\ executors' = [executors EXCEPT ![e] =
         [scope |-> scope, team_id |-> team, authorized_tag |-> tag]]
    /\ UNCHANGED <<archived, tasks, events, controls, controlEvents>>

(***************************************************************************)
(* A listener submission.  It takes the next unused task_id; a submission  *)
(* with a (team, source) pair that is already stored inserts nothing.      *)
(***************************************************************************)
IngestTask(t, team, source, tag, at) ==
    /\ team \notin archived
    /\ tasks[t].current_state = "absent"
    /\ \A u \in Tasks : tasks[u].current_state # "absent" =>
         tasks[u].team_id # team \/ tasks[u].source_id # source
    /\ tasks' = [tasks EXCEPT ![t] =
         [current_state |-> "pending", team_id |-> team, source_id |-> source,
          required_tag |-> tag, ingested_at |-> TruncSecond(at),
          owner_command_id |-> Nil, executor_id |-> Nil]]
    /\ UNCHANGED <<executors, archived, events, controls, controlEvents>>

ArchiveTeam(team) ==
    /\ team \notin archived
    /\ archived' = archived \cup {team}
    /\ UNCHANGED <<executors, tasks, events, controls, controlEvents>>

-----------------------------------------------------------------------------
(***************************************************************************)
(* Which tasks an Executor may see at all, and in which order.             *)
(***************************************************************************)
Visible(e, t) ==
    /\ executors[e].scope # "absent"
    /\ tasks[t].current_state # "absent"
    /\ executors[e].scope = "team" => executors[e].team_id = tasks[t].team_id

EligibleWhenCreated(e, t) ==
    /\ Visible(e, t)
    /\ executors[e].authorized_tag = tasks[t].required_tag
    /\ tasks[t].current_state \in {"pending", "created"}

Eligible(e, t) ==
    /\ Visible(e, t)
    /\ executors[e].authorized_tag = tasks[t].required_tag
    /\ tasks[t].current_state = "pending"

Earlier(s, t) ==
    \/ tasks[s].ingested_at < tasks[t].ingested_at
    \/ tasks[s].ingested_at = tasks[t].ingested_at /\ s < t

EarlierIgnoringTies(e, t) ==
    \E s \in Tasks : Eligible(e, s) /\ tasks[s].ingested_at < tasks[t].ingested_at

IsEarlierPendingTask(e, t) == \E s \in Tasks : Eligible(e, s) /\ Earlier(s, t)

(***************************************************************************)
(* The first row of DiscoverExecutorTasks, which the Executors claim.      *)
(***************************************************************************)
DiscoveryHead(e) ==
    CHOOSE t \in Tasks :
        Eligible(e, t) /\ \A s \in Tasks : Eligible(e, s) => s = t \/ Earlier(t, s)

ClaimAccepts(e, t) == Eligible(e, t) /\ ~IsEarlierPendingTask(e, t)

ReplaysOnlyWhileCreated(e, t, command) ==
    /\ Visible(e, t)
    /\ executors[e].authorized_tag = tasks[t].required_tag
    /\ tasks[t].current_state = "created"
    /\ tasks[t].owner_command_id = command
    /\ tasks[t].executor_id = e

ClaimReplays(e, t, command) ==
    /\ Visible(e, t)
    /\ executors[e].authorized_tag = tasks[t].required_tag
    /\ tasks[t].current_state # "pending"
    /\ tasks[t].owner_command_id = command
    /\ tasks[t].executor_id = e

(***************************************************************************)
(* A claim assigns the task and appends the first event, created, in one   *)
(* transaction.  An archived team's pending tasks can still be claimed.    *)
(***************************************************************************)
ClaimTask(e, t, command, now) ==
    /\ ClaimAccepts(e, t)
    /\ tasks' = [tasks EXCEPT ![t] =
         [@ EXCEPT !.current_state = "created",
                   !.owner_command_id = command,
                   !.executor_id = e]]
    /\ events' = [events EXCEPT ![t] = Append(@,
         [event_id |-> CreatedEventId[t], event_type |-> "created", executor_id |-> e,
          occurred_at |-> Stored(now), sent |-> now])]
    /\ UNCHANGED <<executors, archived, controls, controlEvents>>

-----------------------------------------------------------------------------
(***************************************************************************)
(* POST /v1/tasks/{id}/events.                                             *)
(***************************************************************************)
allowedTaskEventTypes == {"running"} \cup Terminal

EventEnvelopeOK(e, t) == Visible(e, t) /\ tasks[t].executor_id = e

LifecycleBeforeReplay(e, t, id, type, at) ==
    /\ type \in allowedTaskEventTypes
    /\ EventEnvelopeOK(e, t)
    /\ tasks[t].current_state \notin Terminal
    /\ \E i \in DOMAIN events[t] :
         /\ events[t][i].event_id = id
         /\ events[t][i].event_type = type
         /\ events[t][i].occurred_at = at

EventReplays(e, t, id, type, at) ==
    /\ type \in allowedTaskEventTypes
    /\ EventEnvelopeOK(e, t)
    /\ \E i \in DOMAIN events[t] :
         /\ events[t][i].event_id = id
         /\ events[t][i].event_type = type
         /\ events[t][i].occurred_at = at

TerminalFromCreated(t, type) ==
    \/ type = "running" /\ tasks[t].current_state = "created"
    \/ type \in Terminal /\ tasks[t].current_state \in {"created", "running"}

LifecycleAllows(t, type) ==
    \/ type = "running" /\ tasks[t].current_state = "created"
    \/ type \in Terminal /\ tasks[t].current_state = "running"

(***************************************************************************)
(* Being above the latest stored tuple is being above every stored tuple.  *)
(* The client's instant is compared as sent with instants as stored.       *)
(***************************************************************************)
LaterThanFirst(t, at, id) ==
    \A i \in DOMAIN events[t] : i = 1 =>
        \/ at > events[t][i].occurred_at
        \/ at = events[t][i].occurred_at /\ id > events[t][i].event_id

NotEarlier(t, at, id) ==
    \A i \in DOMAIN events[t] : at >= events[t][i].occurred_at /\ id # events[t][i].event_id

StrictlyLater(t, at, id) ==
    \A i \in DOMAIN events[t] :
        \/ at > events[t][i].occurred_at
        \/ at = events[t][i].occurred_at /\ id > events[t][i].event_id

EventIdUnused(id) ==
    \A u \in Tasks : \A i \in DOMAIN events[u] : events[u][i].event_id # id

AppendTaskEvent(e, t, id, type, at) ==
    /\ EventEnvelopeOK(e, t)
    /\ EventIdUnused(id)
    /\ LifecycleAllows(t, type)
    /\ StrictlyLater(t, at, id)
    /\ events[t] = <<>> => type = "running"
    /\ events' = [events EXCEPT ![t] = Append(@,
         [event_id |-> id, event_type |-> type, executor_id |-> e,
          occurred_at |-> Stored(at), sent |-> at])]
    /\ tasks' = [tasks EXCEPT ![t].current_state = type]
    /\ UNCHANGED <<executors, archived, controls, controlEvents>>

-----------------------------------------------------------------------------
(***************************************************************************)
(* Operator controls.  A repeated key returns the stored request.          *)
(***************************************************************************)
ControlEventIdUnused(id) ==
    \A c \in Controls : \A i \in DOMAIN controlEvents[c] :
        controlEvents[c][i].control_event_id # id

CreateTaskControl(t, key, id, at) ==
    /\ tasks[t].current_state # "absent"
    /\ controls[<<t, key>>] = "absent"
    /\ ControlEventIdUnused(id)
    /\ controls' = [controls EXCEPT ![<<t, key>>] = "pending"]
    /\ controlEvents' = [controlEvents EXCEPT ![<<t, key>>] = Append(@,
         [control_event_id |-> id, status |-> "pending", occurred_at |-> Stored(at)])]
    /\ UNCHANGED <<executors, archived, tasks, events>>

CompletesUnacknowledged(current, next) ==
    \/ current = "pending" /\ next \in {"acknowledged", "completed"}
    \/ current = "acknowledged" /\ next \in {"completed", "failed"}

ValidControlTransition(current, next) ==
    \/ current = "pending" /\ next = "acknowledged"
    \/ current = "acknowledged" /\ next \in {"completed", "failed"}

ControlStrictlyLater(c, at, id) ==
    \A i \in DOMAIN controlEvents[c] :
        \/ at > controlEvents[c][i].occurred_at
        \/ /\ at = controlEvents[c][i].occurred_at
           /\ id > controlEvents[c][i].control_event_id

AppendTaskControlEvent(e, t, key, id, status, at) ==
    /\ controls[<<t, key>>] # "absent"
    /\ EventEnvelopeOK(e, t)
    /\ ControlEventIdUnused(id)
    /\ ValidControlTransition(controls[<<t, key>>], status)
    /\ ControlStrictlyLater(<<t, key>>, at, id)
    /\ controls' = [controls EXCEPT ![<<t, key>>] = status]
    /\ controlEvents' = [controlEvents EXCEPT ![<<t, key>>] = Append(@,
         [control_event_id |-> id, status |-> status, occurred_at |-> Stored(at)])]
    /\ UNCHANGED <<executors, archived, tasks, events>>

-----------------------------------------------------------------------------
Next ==
    \/ \E e \in Executors, scope \in {"team", "system"}, team \in Teams \cup {Nil}, tag \in Tags :
         RegisterExecutor(e, scope, team, tag)
    \/ \E t \in Tasks, team \in Teams, source \in Sources, tag \in Tags, at \in Times :
         IngestTask(t, team, source, tag, at)
    \/ \E team \in Teams : ArchiveTeam(team)
    \/ \E e \in Executors, t \in Tasks, command \in Commands, now \in Times :
         ClaimTask(e, t, command, now)
    \/ \E e \in Executors, t \in Tasks, id \in EventIds,
          type \in {"running"} \cup Terminal, at \in Times :
         AppendTaskEvent(e, t, id, type, at)
    \/ \E t \in Tasks, key \in ControlKeys, id \in ControlEventIds, at \in Times :
         CreateTaskControl(t, key, id, at)
    \/ \E e \in Executors, t \in Tasks, key \in ControlKeys, id \in ControlEventIds,
          status \in ControlStates, at \in Times :
         AppendTaskControlEvent(e, t, key, id, status, at)

Spec == Init /\ [][Next]_vars

-----------------------------------------------------------------------------
(***************************************************************************)
(* Type correctness of the tables.                                         *)
(***************************************************************************)
TypeOK ==
    /\ executors \in [Executors -> ExecutorRow]
    /\ archived \subseteq Teams
    /\ tasks \in [Tasks -> TaskRow]
    /\ events \in [Tasks -> Seq(TaskEvent)]
    /\ controls \in [Controls -> ControlStates]
    /\ controlEvents \in [Controls -> Seq(ControlEvent)]

(***************************************************************************)
(* tasks.current_state is the projection of the accepted events, and these *)
(* are created, running and one terminal event in that order, all by the   *)
(* Executor the task is assigned to: claim and append never leave the row  *)
(* and the log telling different stories, whatever requests interleave.    *)
(***************************************************************************)
LifecycleState(n) == IF n = 1 THEN {"created"} ELSE IF n = 2 THEN {"running"} ELSE Terminal

ProjectsLog(t) ==
    /\ Len(events[t]) \in 0 .. 3
    /\ \A i \in 1 .. Len(events[t]) :
         /\ events[t][i].event_type \in LifecycleState(i)
         /\ events[t][i].executor_id = tasks[t].executor_id
    /\ IF events[t] = <<>>
       THEN /\ tasks[t].current_state \in {"absent", "pending"}
            /\ tasks[t].executor_id = Nil
       ELSE tasks[t].current_state = events[t][Len(events[t])].event_type

StateProjectsLog == \A t \in Tasks : ProjectsLog(t)

(***************************************************************************)
(* Stored event times of a task never go back, although the Registry's     *)
(* clock stamps the first event and Executor clocks the others, and        *)
(* although every instant loses precision when it is stored.               *)
(***************************************************************************)
LogTimesOrdered ==
    \A t \in Tasks : \A i, j \in DOMAIN events[t] :
        i < j => events[t][i].occurred_at <= events[t][j].occurred_at

(***************************************************************************)
(* The order of ListTaskEvents and of the stream: (occurred_at, event_id). *)
(***************************************************************************)
ReadsBefore(x, y) ==
    \/ x.occurred_at < y.occurred_at
    \/ x.occurred_at = y.occurred_at /\ x.event_id < y.event_id

ReadBackInOrder(t) ==
    \A i, j \in DOMAIN events[t] : i < j => ReadsBefore(events[t][i], events[t][j])

AtStoredPrecision(x) == Stored(x.sent) = x.sent

(***************************************************************************)
(* Read-back shows a task's events in the order they were accepted and     *)
(* projected, for events whose senders use the precision of the column.    *)
(***************************************************************************)
ReadBackFollowsLog ==
    \A t \in Tasks :
        (\A i \in DOMAIN events[t] : i > 1 => AtStoredPrecision(events[t][i])) => ReadBackInOrder(t)

(***************************************************************************)
(* A team's task is never in the hands of another team's Executor, not     *)
(* even after the Executor or its replacement registers again.             *)
(***************************************************************************)
TeamIsolation ==
    \A t \in Tasks : tasks[t].executor_id # Nil =>
        \/ executors[tasks[t].executor_id].scope = "system"
        \/ /\ executors[tasks[t].executor_id].scope = "team"
           /\ executors[tasks[t].executor_id].team_id = tasks[t].team_id

(***************************************************************************)
(* Whenever an Executor repeats an event it sent that was accepted, with   *)
(* an instant of the precision the table keeps, it gets the acceptance     *)
(* again: also after the task ended, and after the Executor registered     *)
(* anew.  The created event, which the claim appends, is nobody's to send. *)
(***************************************************************************)
EventRetryReplayed ==
    \A t \in Tasks : \A i \in DOMAIN events[t] :
        events[t][i].event_type # "created" /\ AtStoredPrecision(events[t][i]) =>
            EventReplays(events[t][i].executor_id, t, events[t][i].event_id,
                         events[t][i].event_type, events[t][i].sent)

(***************************************************************************)
(* Whenever the owner repeats its claim with the same command, whatever    *)
(* happened to the task since, it gets the claim back, provided that it is *)
(* still registered with the task's tag.                                   *)
(***************************************************************************)
ClaimRetryReplayed ==
    \A t \in Tasks : \A e \in Executors :
        /\ tasks[t].executor_id = e
        /\ executors[e].authorized_tag = tasks[t].required_tag
        => ClaimReplays(e, t, tasks[t].owner_command_id)

(***************************************************************************)
(* The first task discovery offers an Executor is the one task whose claim *)
(* the Registry accepts, so an Executor that claims the head of its list   *)
(* is not refused unless something changed in between, and tasks ingested  *)
(* within one second do not block each other.                              *)
(***************************************************************************)
DiscoveryHeadClaimable ==
    \A e \in Executors :
        (\E t \in Tasks : Eligible(e, t)) =>
            {t \in Tasks : ClaimAccepts(e, t)} = {DiscoveryHead(e)}

(***************************************************************************)
(* A control's status is the projection of its own event log: requested,   *)
(* acknowledged, then completed or failed, never twice and never skipping. *)
(***************************************************************************)
ControlStatus(n) ==
    IF n = 1 THEN {"pending"} ELSE IF n = 2 THEN {"acknowledged"} ELSE {"completed", "failed"}

ControlProjectsLog ==
    \A c \in Controls :
        /\ Len(controlEvents[c]) \in 0 .. 3
        /\ \A i \in 1 .. Len(controlEvents[c]) : controlEvents[c][i].status \in ControlStatus(i)
        /\ IF controlEvents[c] = <<>>
           THEN controls[c] = "absent"
           ELSE controls[c] = controlEvents[c][Len(controlEvents[c])].status

(***************************************************************************)
(* What the Registry promises about a task, module TaskLifecycle: one      *)
(* ingestion, one owner for good, and only forward moves.                  *)
(***************************************************************************)
LC == INSTANCE TaskLifecycle WITH
        status <- [t \in Tasks |-> tasks[t].current_state],
        owner <- [t \in Tasks |-> tasks[t].executor_id]

ImplementsLifecycle == LC!Spec

(***************************************************************************)
(* What the documents promise without the conditions above.  These three   *)
(* are not kept.  First, a retried event always returns the acceptance.    *)
(***************************************************************************)
EveryEventRetryReplayed ==
    \A t \in Tasks : \A i \in DOMAIN events[t] :
        events[t][i].event_type # "created" =>
            EventReplays(events[t][i].executor_id, t, events[t][i].event_id,
                         events[t][i].event_type, events[t][i].sent)

(***************************************************************************)
(* Read-back order is acceptance order, for instants of any precision.     *)
(***************************************************************************)
EveryReadBackFollowsLog == \A t \in Tasks : ReadBackInOrder(t)

(***************************************************************************)
(* A claim repeated by the original Executor always returns the claim.     *)
(***************************************************************************)
EveryClaimRetryReplayed ==
    \A t \in Tasks : \A e \in Executors :
        tasks[t].executor_id = e => ClaimReplays(e, t, tasks[t].owner_command_id)

=============================================================================
