------------------------ MODULE StateRegistryProofs ------------------------
(***************************************************************************)
(* Proofs about StateRegistry for any number of teams, Executors, tasks,   *)
(* requests and instants, and for any clocks.                              *)
(***************************************************************************)
EXTENDS StateRegistry, WellFoundedInduction, TLAPS

-----------------------------------------------------------------------------
(***************************************************************************)
(* Storing an instant: the truncation of a timestamptz column.             *)
(***************************************************************************)

(***************************************************************************)
(* Quotient and remainder of truncation.                                   *)
(***************************************************************************)
LEMMA Division ==
    ASSUME NEW a \in Nat, NEW r \in Nat \ {0}
    PROVE  /\ a \div r \in Nat
           /\ a % r \in 0 .. r - 1
           /\ a = r * (a \div r) + (a % r)
  BY SMT

(***************************************************************************)
(* A stored instant is an instant, not after the one that was sent.        *)
(***************************************************************************)
LEMMA StoredIsEarlier ==
    ASSUME NEW a \in Nat
    PROVE  Stored(a) \in Nat /\ Stored(a) <= a
<1>1. Resolution \in Nat \ {0}
  BY Clocks
<1>2. (a % Resolution) \in Nat /\ a % Resolution <= a
  BY <1>1, SMT
<1> QED
  BY <1>2 DEF Stored

(***************************************************************************)
(* Truncation to the second yields an instant, for IngestTask.             *)
(***************************************************************************)
LEMMA TruncSecondType ==
    ASSUME NEW a \in Nat
    PROVE  TruncSecond(a) \in Nat
<1>1. (a % Second) \in Nat /\ a % Second <= a
  BY Clocks, SMT
<1> QED
  BY <1>1 DEF TruncSecond

(***************************************************************************)
(* An instant at or after a stored one is still so once it is stored: what *)
(* AppendTaskEvent compares before storing survives the storing.           *)
(***************************************************************************)
LEMMA StoredMonotone ==
    ASSUME NEW a \in Nat, NEW b \in Nat, Stored(b) <= a
    PROVE  Stored(b) <= Stored(a)
<1> DEFINE r == Resolution
           qa == a \div r
           qb == b \div r
<1>1. r \in Nat \ {0}
  BY Clocks
<1>2. qa \in Nat /\ a % r \in 0 .. r - 1 /\ a = r * qa + (a % r)
  BY <1>1, Division, Zenon
<1>3. qb \in Nat /\ b % r \in 0 .. r - 1 /\ b = r * qb + (b % r)
  BY <1>1, Division, Zenon
<1>4. Stored(a) = r * qa /\ Stored(b) = r * qb
  BY <1>1, <1>2, <1>3, SMT DEF Stored
<1>5. a < r * qa + r
  BY <1>1, <1>2, SMT
<1> HIDE DEF r, qa, qb
<1>6. r * qb < r * (qa + 1)
  BY <1>1, <1>2, <1>3, <1>4, <1>5, SMT
<1>7. qb < qa + 1
  BY <1>1, <1>2, <1>3, <1>6, SMT
<1>8. r * qb <= r * qa
  BY <1>1, <1>2, <1>3, <1>7, SMT
<1> QED
  BY <1>4, <1>8

(***************************************************************************)
(* What appending one row to a log leaves in place, and adds.              *)
(***************************************************************************)
LEMMA AppendOne ==
    ASSUME NEW S, NEW s \in Seq(S), NEW x \in S
    PROVE  /\ Append(s, x) \in Seq(S)
           /\ Append(s, x) # <<>>
           /\ Len(Append(s, x)) = Len(s) + 1
           /\ DOMAIN Append(s, x) = 1 .. Len(s) + 1
           /\ \A i \in 1 .. Len(s) : Append(s, x)[i] = s[i]
           /\ Append(s, x)[Len(s) + 1] = x
  BY SMT

-----------------------------------------------------------------------------
(***************************************************************************)
(* Type correctness of the tables is preserved by every transaction.       *)
(***************************************************************************)
LEMMA TypeStep == TypeOK /\ [Next]_vars => TypeOK'
<1> SUFFICES ASSUME TypeOK, [Next]_vars
             PROVE  TypeOK'
  OBVIOUS
<1> USE DEF TypeOK
<1>1. ASSUME NEW e \in Executors, NEW scope \in {"team", "system"},
             NEW team \in Teams \cup {Nil}, NEW tag \in Tags,
             RegisterExecutor(e, scope, team, tag)
      PROVE  TypeOK'
  BY <1>1 DEF RegisterExecutor, ExecutorRow
<1>2. ASSUME NEW t \in Tasks, NEW team \in Teams, NEW source \in Sources,
             NEW tag \in Tags, NEW at \in Times, IngestTask(t, team, source, tag, at)
      PROVE  TypeOK'
  <2>1. TruncSecond(at) \in Nat
    BY Clocks, TruncSecondType
  <2> QED
    BY <1>2, <2>1 DEF IngestTask, TaskRow, TaskStates
<1>3. ASSUME NEW team \in Teams, ArchiveTeam(team)
      PROVE  TypeOK'
  BY <1>3 DEF ArchiveTeam
<1>4. ASSUME NEW e \in Executors, NEW t \in Tasks, NEW command \in Commands,
             NEW now \in Times, ClaimTask(e, t, command, now)
      PROVE  TypeOK'
  <2> DEFINE x == [event_id |-> CreatedEventId[t], event_type |-> "created",
                   executor_id |-> e, occurred_at |-> Stored(now), sent |-> now]
  <2>1. x \in TaskEvent
    BY Clocks, OrderedIds, StoredIsEarlier DEF TaskEvent, TaskStates
  <2>2. Append(events[t], x) \in Seq(TaskEvent)
    BY <2>1, AppendOne
  <2>3. tasks' \in [Tasks -> TaskRow]
    <3> DEFINE row == [tasks[t] EXCEPT !.current_state = "created",
                                       !.owner_command_id = command,
                                       !.executor_id = e]
    <3>1. row \in TaskRow
      BY Zenon DEF TaskRow, TaskStates
    <3>2. tasks' = [tasks EXCEPT ![t] = row]
      BY <1>4 DEF ClaimTask
    <3> QED
      BY <3>1, <3>2
  <2>4. events' \in [Tasks -> Seq(TaskEvent)]
    BY <1>4, <2>2 DEF ClaimTask
  <2> QED
    BY <1>4, <2>3, <2>4 DEF ClaimTask
<1>5. ASSUME NEW e \in Executors, NEW t \in Tasks, NEW id \in EventIds,
             NEW type \in {"running"} \cup Terminal, NEW at \in Times,
             AppendTaskEvent(e, t, id, type, at)
      PROVE  TypeOK'
  <2> DEFINE x == [event_id |-> id, event_type |-> type, executor_id |-> e,
                   occurred_at |-> Stored(at), sent |-> at]
  <2>1. x \in TaskEvent
    BY Clocks, OrderedIds, StoredIsEarlier DEF TaskEvent, TaskStates, Terminal
  <2>2. Append(events[t], x) \in Seq(TaskEvent)
    BY <2>1, AppendOne
  <2>3. tasks' \in [Tasks -> TaskRow]
    <3> DEFINE row == [tasks[t] EXCEPT !.current_state = type]
    <3>1. row \in TaskRow
      BY Zenon DEF TaskRow, TaskStates, Terminal
    <3>2. tasks' = [tasks EXCEPT ![t] = row]
      BY <1>5 DEF AppendTaskEvent
    <3> QED
      BY <3>1, <3>2
  <2>4. events' \in [Tasks -> Seq(TaskEvent)]
    BY <1>5, <2>2 DEF AppendTaskEvent
  <2> QED
    BY <1>5, <2>3, <2>4 DEF AppendTaskEvent
<1>6. ASSUME NEW t \in Tasks, NEW key \in ControlKeys, NEW id \in ControlEventIds,
             NEW at \in Times, CreateTaskControl(t, key, id, at)
      PROVE  TypeOK'
  <2> DEFINE x == [control_event_id |-> id, status |-> "pending", occurred_at |-> Stored(at)]
  <2>1. x \in ControlEvent
    BY Clocks, OrderedIds, StoredIsEarlier DEF ControlEvent, ControlStates
  <2>2. <<t, key>> \in Controls
    BY DEF Controls
  <2>3. Append(controlEvents[<<t, key>>], x) \in Seq(ControlEvent)
    BY <2>1, <2>2, AppendOne
  <2> QED
    BY <1>6, <2>2, <2>3 DEF CreateTaskControl, ControlStates
<1>7. ASSUME NEW e \in Executors, NEW t \in Tasks, NEW key \in ControlKeys,
             NEW id \in ControlEventIds, NEW status \in ControlStates, NEW at \in Times,
             AppendTaskControlEvent(e, t, key, id, status, at)
      PROVE  TypeOK'
  <2> DEFINE x == [control_event_id |-> id, status |-> status, occurred_at |-> Stored(at)]
  <2>1. x \in ControlEvent
    BY Clocks, OrderedIds, StoredIsEarlier DEF ControlEvent
  <2>2. <<t, key>> \in Controls
    BY DEF Controls
  <2>3. Append(controlEvents[<<t, key>>], x) \in Seq(ControlEvent)
    BY <2>1, <2>2, AppendOne
  <2> QED
    BY <1>7, <2>2, <2>3 DEF AppendTaskControlEvent
<1>8. CASE UNCHANGED vars
  BY <1>8 DEF vars
<1> QED
  BY <1>1, <1>2, <1>3, <1>4, <1>5, <1>6, <1>7, <1>8, Zenon DEF Next

-----------------------------------------------------------------------------
(***************************************************************************)
(* What one claim, and one accepted event, do to rows and logs.            *)
(***************************************************************************)

(***************************************************************************)
(* A claim changes one task, whose log gets its created event.             *)
(***************************************************************************)
LEMMA ClaimEffect ==
    ASSUME TypeOK, NEW e \in Executors, NEW t \in Tasks, NEW command \in Commands,
           NEW now \in Times, ClaimTask(e, t, command, now)
    PROVE  /\ \A u \in Tasks \ {t} : tasks'[u] = tasks[u] /\ events'[u] = events[u]
           /\ tasks'[t].current_state = "created"
           /\ tasks'[t].executor_id = e
           /\ tasks'[t].team_id = tasks[t].team_id
           /\ tasks'[t].required_tag = tasks[t].required_tag
           /\ \E x \in TaskEvent :
                /\ x.event_type = "created" /\ x.executor_id = e
                /\ x.occurred_at = Stored(x.sent)
                /\ events'[t] = Append(events[t], x)
           /\ executors' = executors
<1> DEFINE x == [event_id |-> CreatedEventId[t], event_type |-> "created",
                 executor_id |-> e, occurred_at |-> Stored(now), sent |-> now]
<1>1. x \in TaskEvent
  BY Clocks, OrderedIds, StoredIsEarlier DEF TaskEvent, TaskStates
<1>2. events' = [events EXCEPT ![t] = Append(events[t], x)]
  BY DEF ClaimTask
<1>3. events'[t] = Append(events[t], x)
  BY <1>2 DEF TypeOK
<1>4. \A u \in Tasks \ {t} : tasks'[u] = tasks[u] /\ events'[u] = events[u]
  BY <1>2 DEF ClaimTask, TypeOK
<1>5. /\ tasks'[t].current_state = "created"
      /\ tasks'[t].executor_id = e
      /\ tasks'[t].team_id = tasks[t].team_id
      /\ tasks'[t].required_tag = tasks[t].required_tag
  BY DEF ClaimTask, TypeOK, TaskRow
<1>6. \E y \in TaskEvent :
         /\ y.event_type = "created" /\ y.executor_id = e
         /\ y.occurred_at = Stored(y.sent)
         /\ events'[t] = Append(events[t], y)
  BY <1>1, <1>3
<1> QED
  BY <1>4, <1>5, <1>6 DEF ClaimTask

(***************************************************************************)
(* An accepted event changes one task, to the state the event names.       *)
(***************************************************************************)
LEMMA AppendEffect ==
    ASSUME TypeOK, NEW e \in Executors, NEW t \in Tasks, NEW id \in EventIds,
           NEW type \in {"running"} \cup Terminal, NEW at \in Times,
           AppendTaskEvent(e, t, id, type, at)
    PROVE  /\ \A u \in Tasks \ {t} : tasks'[u] = tasks[u] /\ events'[u] = events[u]
           /\ tasks'[t].current_state = type
           /\ tasks'[t].executor_id = tasks[t].executor_id
           /\ tasks[t].executor_id = e
           /\ tasks'[t].team_id = tasks[t].team_id
           /\ tasks'[t].required_tag = tasks[t].required_tag
           /\ \E x \in TaskEvent :
                /\ x.event_id = id /\ x.event_type = type /\ x.executor_id = e
                /\ x.occurred_at = Stored(x.sent) /\ x.sent = at
                /\ events'[t] = Append(events[t], x)
           /\ executors' = executors
<1> DEFINE x == [event_id |-> id, event_type |-> type, executor_id |-> e,
                 occurred_at |-> Stored(at), sent |-> at]
<1>1. x \in TaskEvent
  BY Clocks, OrderedIds, StoredIsEarlier DEF TaskEvent, TaskStates, Terminal
<1>2. events' = [events EXCEPT ![t] = Append(events[t], x)]
  BY DEF AppendTaskEvent
<1>3. events'[t] = Append(events[t], x)
  BY <1>2 DEF TypeOK
<1>4. \A u \in Tasks \ {t} : tasks'[u] = tasks[u] /\ events'[u] = events[u]
  BY <1>2 DEF AppendTaskEvent, TypeOK
<1>5. /\ tasks'[t].current_state = type
      /\ tasks'[t].executor_id = tasks[t].executor_id
      /\ tasks[t].executor_id = e
      /\ tasks'[t].team_id = tasks[t].team_id
      /\ tasks'[t].required_tag = tasks[t].required_tag
  BY DEF AppendTaskEvent, EventEnvelopeOK, TypeOK, TaskRow
<1>6. \E y \in TaskEvent :
         /\ y.event_id = id /\ y.event_type = type /\ y.executor_id = e
         /\ y.occurred_at = Stored(y.sent) /\ y.sent = at
         /\ events'[t] = Append(events[t], y)
  BY <1>1, <1>3
<1> QED
  BY <1>4, <1>5, <1>6 DEF AppendTaskEvent

(***************************************************************************)
(* Archival and controls leave alone what the task invariants speak of.    *)
(***************************************************************************)
LEMMA OtherEffect ==
    /\ \A team \in Teams : ArchiveTeam(team) => UNCHANGED <<tasks, events, executors>>
    /\ \A t \in Tasks, key \in ControlKeys, id \in ControlEventIds, at \in Times :
         CreateTaskControl(t, key, id, at) => UNCHANGED <<tasks, events, executors>>
    /\ \A e \in Executors, t \in Tasks, key \in ControlKeys, id \in ControlEventIds,
          status \in ControlStates, at \in Times :
         AppendTaskControlEvent(e, t, key, id, status, at) => UNCHANGED <<tasks, events, executors>>
    /\ UNCHANGED vars => UNCHANGED <<tasks, events, executors>>
  BY DEF vars, ArchiveTeam, CreateTaskControl, AppendTaskControlEvent

-----------------------------------------------------------------------------
(***************************************************************************)
(* The rows and the logs tell one story, one task at a time.               *)
(***************************************************************************)

(***************************************************************************)
(* The state of a task determines how many events its log holds.           *)
(***************************************************************************)
LEMMA StateGivesLength ==
    ASSUME TypeOK, NEW t \in Tasks, ProjectsLog(t)
    PROVE  /\ tasks[t].current_state \in {"absent", "pending"} =>
                events[t] = <<>> /\ tasks[t].executor_id = Nil
           /\ tasks[t].current_state = "created" => Len(events[t]) = 1
           /\ tasks[t].current_state = "running" => Len(events[t]) = 2
           /\ tasks[t].executor_id # Nil => tasks[t].current_state \notin {"absent", "pending"}
<1>1. CASE events[t] = <<>>
  BY <1>1 DEF ProjectsLog
<1>2. CASE events[t] # <<>>
  <2>1. events[t] \in Seq(TaskEvent)
    BY DEF TypeOK
  <2>2. Len(events[t]) \in 1 .. 3
    BY <1>2, <2>1 DEF ProjectsLog
  <2>3. tasks[t].current_state \in LifecycleState(Len(events[t]))
    BY <1>2, <2>2 DEF ProjectsLog
  <2> QED
    BY <2>2, <2>3 DEF LifecycleState, Terminal
<1> QED
  BY <1>1, <1>2

(***************************************************************************)
(* StateProjectsLog is preserved: a claim starts the log of a pending task *)
(* and an accepted event extends it by the next kind of event.             *)
(***************************************************************************)
LEMMA ProjectsLogStep ==
    TypeOK /\ StateProjectsLog /\ [Next]_vars => StateProjectsLog'
<1> SUFFICES ASSUME TypeOK, StateProjectsLog, [Next]_vars
             PROVE  StateProjectsLog'
  OBVIOUS
<1> USE DEF StateProjectsLog
<1>1. UNCHANGED <<tasks, events, executors>> => StateProjectsLog'
  BY DEF ProjectsLog
<1>2. ASSUME NEW e \in Executors, NEW scope \in {"team", "system"},
             NEW team \in Teams \cup {Nil}, NEW tag \in Tags,
             RegisterExecutor(e, scope, team, tag)
      PROVE  StateProjectsLog'
  BY <1>2 DEF RegisterExecutor, ProjectsLog
<1>3. ASSUME NEW t \in Tasks, NEW team \in Teams, NEW source \in Sources,
             NEW tag \in Tags, NEW at \in Times, IngestTask(t, team, source, tag, at)
      PROVE  StateProjectsLog'
  <2> SUFFICES ASSUME NEW u \in Tasks
               PROVE  ProjectsLog(u)'
    OBVIOUS
  <2>1. CASE u # t
    <3>1. tasks'[u] = tasks[u] /\ events'[u] = events[u]
      BY <1>3, <2>1 DEF IngestTask, TypeOK
    <3> QED
      BY <3>1 DEF ProjectsLog
  <2>2. CASE u = t
    <3>1. events[t] = <<>>
      BY <1>3, StateGivesLength DEF IngestTask
    <3>2. /\ events'[t] = <<>>
          /\ tasks'[t].current_state = "pending"
          /\ tasks'[t].executor_id = Nil
      BY <1>3, <3>1 DEF IngestTask, TypeOK
    <3> QED
      BY <2>2, <3>2 DEF ProjectsLog
  <2> QED
    BY <2>1, <2>2
<1>4. ASSUME NEW e \in Executors, NEW t \in Tasks, NEW command \in Commands,
             NEW now \in Times, ClaimTask(e, t, command, now)
      PROVE  StateProjectsLog'
  <2> SUFFICES ASSUME NEW u \in Tasks
               PROVE  ProjectsLog(u)'
    OBVIOUS
  <2>1. CASE u # t
    <3>1. tasks'[u] = tasks[u] /\ events'[u] = events[u]
      BY <1>4, <2>1, ClaimEffect
    <3> QED
      BY <3>1 DEF ProjectsLog
  <2>2. CASE u = t
    <3>1. events[t] = <<>>
      BY <1>4, StateGivesLength DEF ClaimTask, ClaimAccepts, Eligible
    <3>2. PICK x \in TaskEvent : /\ x.event_type = "created" /\ x.executor_id = e
                                 /\ events'[t] = Append(events[t], x)
      BY <1>4, ClaimEffect
    <3>3. /\ Len(events'[t]) = 1
          /\ events'[t] # <<>>
          /\ events'[t][1] = x
      BY <3>1, <3>2, AppendOne
    <3>4. tasks'[t].current_state = "created" /\ tasks'[t].executor_id = e
      BY <1>4, ClaimEffect
    <3> QED
      BY <2>2, <3>2, <3>3, <3>4 DEF ProjectsLog, LifecycleState
  <2> QED
    BY <2>1, <2>2
<1>5. ASSUME NEW e \in Executors, NEW t \in Tasks, NEW id \in EventIds,
             NEW type \in {"running"} \cup Terminal, NEW at \in Times,
             AppendTaskEvent(e, t, id, type, at)
      PROVE  StateProjectsLog'
  <2> SUFFICES ASSUME NEW u \in Tasks
               PROVE  ProjectsLog(u)'
    OBVIOUS
  <2>1. CASE u # t
    <3>1. tasks'[u] = tasks[u] /\ events'[u] = events[u]
      BY <1>5, <2>1, AppendEffect
    <3> QED
      BY <3>1 DEF ProjectsLog
  <2>2. CASE u = t
    <3> DEFINE n == Len(events[t])
    <3>1. n \in 1 .. 2 /\ type \in LifecycleState(n + 1)
      <4>1. LifecycleAllows(t, type)
        BY <1>5 DEF AppendTaskEvent
      <4>2. /\ tasks[t].current_state = "created" => n = 1
            /\ tasks[t].current_state = "running" => n = 2
        BY StateGivesLength
      <4>3. LifecycleState(1 + 1) = {"running"} /\ LifecycleState(2 + 1) = Terminal
        BY DEF LifecycleState
      <4> HIDE DEF n
      <4>4. CASE type = "running" /\ tasks[t].current_state = "created"
        BY <4>2, <4>3, <4>4
      <4>5. CASE type \in Terminal /\ tasks[t].current_state = "running"
        BY <4>2, <4>3, <4>5
      <4> QED
        BY <4>1, <4>4, <4>5 DEF LifecycleAllows
    <3>2. PICK x \in TaskEvent : /\ x.event_type = type /\ x.executor_id = e
                                 /\ events'[t] = Append(events[t], x)
      BY <1>5, AppendEffect
    <3>3. events[t] \in Seq(TaskEvent)
      BY DEF TypeOK
    <3>4. /\ Len(events'[t]) = n + 1
          /\ events'[t] # <<>>
          /\ \A i \in 1 .. n : events'[t][i] = events[t][i]
          /\ events'[t][n + 1] = x
      BY <3>2, <3>3, AppendOne
    <3>5. /\ tasks'[t].current_state = type
          /\ tasks'[t].executor_id = e
          /\ tasks[t].executor_id = e
      <4>1. tasks'[t].current_state = type
        BY <1>5, AppendEffect
      <4>2. tasks'[t].executor_id = tasks[t].executor_id
        BY <1>5, AppendEffect
      <4>3. tasks[t].executor_id = e
        BY <1>5, AppendEffect
      <4> QED
        BY <4>1, <4>2, <4>3
    <3>6. ASSUME NEW i \in 1 .. n + 1
          PROVE  /\ events'[t][i].event_type \in LifecycleState(i)
                 /\ events'[t][i].executor_id = e
      <4>1. CASE i = n + 1
        BY <3>1, <3>2, <3>4, <4>1
      <4>2. CASE i \in 1 .. n
        BY <3>4, <3>5, <4>2, Zenon DEF ProjectsLog
      <4> QED
        BY <3>1, <4>1, <4>2
    <3> HIDE DEF n
    <3> QED
      BY <2>2, <3>1, <3>2, <3>4, <3>5, <3>6 DEF ProjectsLog
  <2> QED
    BY <2>1, <2>2
<1> QED
  BY <1>1, <1>2, <1>3, <1>4, <1>5, OtherEffect DEF Next

-----------------------------------------------------------------------------
(***************************************************************************)
(* Times in the log.                                                       *)
(***************************************************************************)

(***************************************************************************)
(* Every row of task_events holds the sent instant in stored precision.    *)
(***************************************************************************)
LogStored ==
    \A t \in Tasks : \A i \in DOMAIN events[t] :
        events[t][i].occurred_at = Stored(events[t][i].sent)

(***************************************************************************)
(* A transaction leaves a log alone or appends one event that passed the   *)
(* comparison with every stored one; the log of a pending task is empty,   *)
(* so that the created event passes it too.                                *)
(***************************************************************************)
LEMMA LogGrows ==
    ASSUME TypeOK, StateProjectsLog, [Next]_vars, NEW u \in Tasks
    PROVE  \/ events'[u] = events[u]
           \/ \E x \in TaskEvent :
                /\ events'[u] = Append(events[u], x)
                /\ x.occurred_at = Stored(x.sent)
                /\ StrictlyLater(u, x.sent, x.event_id)
<1> DEFINE Goal ==
      \/ events'[u] = events[u]
      \/ \E x \in TaskEvent :
           /\ events'[u] = Append(events[u], x)
           /\ x.occurred_at = Stored(x.sent)
           /\ StrictlyLater(u, x.sent, x.event_id)
<1>1. UNCHANGED <<tasks, events, executors>> => Goal
  OBVIOUS
<1>2. ASSUME NEW e \in Executors, NEW scope \in {"team", "system"},
             NEW team \in Teams \cup {Nil}, NEW tag \in Tags,
             RegisterExecutor(e, scope, team, tag)
      PROVE  Goal
  BY <1>2 DEF RegisterExecutor
<1>3. ASSUME NEW t \in Tasks, NEW team \in Teams, NEW source \in Sources,
             NEW tag \in Tags, NEW at \in Times, IngestTask(t, team, source, tag, at)
      PROVE  Goal
  BY <1>3 DEF IngestTask
<1>4. ASSUME NEW e \in Executors, NEW t \in Tasks, NEW command \in Commands,
             NEW now \in Times, ClaimTask(e, t, command, now)
      PROVE  Goal
  <2>1. CASE u # t
    BY <1>4, <2>1, ClaimEffect
  <2>2. CASE u = t
    <3>1. PICK x \in TaskEvent : /\ x.occurred_at = Stored(x.sent)
                                 /\ events'[t] = Append(events[t], x)
      BY <1>4, ClaimEffect
    <3>2. events[t] = <<>>
      BY <1>4, StateGivesLength DEF StateProjectsLog, ClaimTask, ClaimAccepts, Eligible
    <3>3. StrictlyLater(t, x.sent, x.event_id)
      BY <3>2 DEF StrictlyLater
    <3> QED
      BY <2>2, <3>1, <3>3
  <2> QED
    BY <2>1, <2>2
<1>5. ASSUME NEW e \in Executors, NEW t \in Tasks, NEW id \in EventIds,
             NEW type \in {"running"} \cup Terminal, NEW at \in Times,
             AppendTaskEvent(e, t, id, type, at)
      PROVE  Goal
  <2>1. CASE u # t
    BY <1>5, <2>1, AppendEffect
  <2>2. CASE u = t
    <3>1. PICK x \in TaskEvent : /\ x.event_id = id /\ x.sent = at
                                 /\ x.occurred_at = Stored(x.sent)
                                 /\ events'[t] = Append(events[t], x)
      BY <1>5, AppendEffect
    <3>2. StrictlyLater(t, x.sent, x.event_id)
      BY <1>5, <3>1 DEF AppendTaskEvent
    <3> QED
      BY <2>2, <3>1, <3>2
  <2> QED
    BY <2>1, <2>2
<1> HIDE DEF Goal
<1>6. Goal
  BY <1>1, <1>2, <1>3, <1>4, <1>5, OtherEffect DEF Next
<1> QED
  BY <1>6 DEF Goal

(***************************************************************************)
(* Stored precision, time order and read-back order survive every step.    *)
(***************************************************************************)
LEMMA LogOrderStep ==
    TypeOK /\ StateProjectsLog /\ LogStored /\ LogTimesOrdered /\ ReadBackFollowsLog /\ [Next]_vars
      => LogStored' /\ LogTimesOrdered' /\ ReadBackFollowsLog'
<1> SUFFICES ASSUME TypeOK, StateProjectsLog, LogStored, LogTimesOrdered, ReadBackFollowsLog,
                    [Next]_vars, NEW u \in Tasks
             PROVE  /\ \A i \in DOMAIN events'[u] :
                         events'[u][i].occurred_at = Stored(events'[u][i].sent)
                    /\ \A i, j \in DOMAIN events'[u] :
                         i < j => events'[u][i].occurred_at <= events'[u][j].occurred_at
                    /\ (\A i \in DOMAIN events'[u] : i > 1 => AtStoredPrecision(events'[u][i]))
                         => \A i, j \in DOMAIN events'[u] :
                              i < j => ReadsBefore(events'[u][i], events'[u][j])
  BY DEF LogStored, LogTimesOrdered, ReadBackFollowsLog, ReadBackInOrder
<1>1. CASE events'[u] = events[u]
  BY <1>1 DEF LogStored, LogTimesOrdered, ReadBackFollowsLog, ReadBackInOrder
<1>2. ASSUME NEW x \in TaskEvent, events'[u] = Append(events[u], x),
             x.occurred_at = Stored(x.sent), StrictlyLater(u, x.sent, x.event_id)
      PROVE  /\ \A i \in DOMAIN events'[u] :
                  events'[u][i].occurred_at = Stored(events'[u][i].sent)
             /\ \A i, j \in DOMAIN events'[u] :
                  i < j => events'[u][i].occurred_at <= events'[u][j].occurred_at
             /\ (\A i \in DOMAIN events'[u] : i > 1 => AtStoredPrecision(events'[u][i]))
                  => \A i, j \in DOMAIN events'[u] :
                       i < j => ReadsBefore(events'[u][i], events'[u][j])
  <2> DEFINE n == Len(events[u])
             s == events[u]
             s1 == events'[u]
  <2>1. /\ s \in Seq(TaskEvent) /\ n \in Nat /\ DOMAIN s = 1 .. n
    BY DEF TypeOK
  <2>2. /\ DOMAIN s1 = 1 .. n + 1
        /\ \A i \in 1 .. n : s1[i] = s[i]
        /\ s1[n + 1] = x
    BY <1>2, <2>1, AppendOne
  <2>3. \A i \in 1 .. n : s[i] \in TaskEvent
    BY <2>1
  <2>4. \A i \in 1 .. n : /\ s[i].occurred_at = Stored(s[i].sent)
                          /\ s[i].sent \in Nat /\ s[i].occurred_at \in Nat /\ s[i].event_id \in Nat
    BY <2>1, <2>3, Zenon DEF LogStored, TaskEvent
  <2>5. x.sent \in Nat /\ x.occurred_at \in Nat /\ x.event_id \in Nat
    BY DEF TaskEvent
  <2>6. \A i \in 1 .. n : s[i].occurred_at <= x.sent
    <3> TAKE i \in 1 .. n
    <3>1. x.sent > s[i].occurred_at \/ x.sent = s[i].occurred_at
      BY <1>2, <2>1 DEF StrictlyLater
    <3> QED
      BY <2>4, <2>5, <3>1
  <2>7. \A i \in 1 .. n : s[i].occurred_at <= x.occurred_at
    BY <1>2, <2>4, <2>5, <2>6, StoredMonotone
  <2>8. \A i, j \in 1 .. n : i < j => s[i].occurred_at <= s[j].occurred_at
    BY <2>1 DEF LogTimesOrdered
  <2>9. ASSUME \A i \in 1 .. n + 1 : i > 1 => AtStoredPrecision(s1[i])
        PROVE  \A i, j \in 1 .. n + 1 : i < j => ReadsBefore(s1[i], s1[j])
    <3>1. \A i \in 1 .. n : i > 1 => AtStoredPrecision(s[i])
      BY <2>1, <2>2, <2>9
    <3>2. \A i, j \in 1 .. n : i < j => ReadsBefore(s[i], s[j])
      BY <2>1, <3>1 DEF ReadBackFollowsLog, ReadBackInOrder
    <3>3. ASSUME NEW i \in 1 .. n
          PROVE  ReadsBefore(s[i], x)
      <4>1. x.occurred_at = x.sent
        BY <1>2, <2>1, <2>2, <2>9 DEF AtStoredPrecision
      <4> QED
        BY <1>2, <2>1, <2>4, <2>5, <4>1 DEF StrictlyLater, ReadsBefore
    <3> HIDE DEF n, s, s1
    <3> QED
      BY <2>1, <2>2, <3>2, <3>3
  <2> HIDE DEF n, s
  <2>10. \A i \in 1 .. n + 1 : s1[i].occurred_at = Stored(s1[i].sent)
    BY <1>2, <2>1, <2>2, <2>4
  <2>11. \A i, j \in 1 .. n + 1 : i < j => s1[i].occurred_at <= s1[j].occurred_at
    BY <2>1, <2>2, <2>7, <2>8, SMTT(20)
  <2> QED
    BY <2>2, <2>9, <2>10, <2>11
<1> QED
  BY <1>1, <1>2, LogGrows

-----------------------------------------------------------------------------
(***************************************************************************)
(* TeamIsolation is preserved: a claim needs visibility, and registering   *)
(* again cannot change the scope or the team of a stored Executor.         *)
(***************************************************************************)
LEMMA TeamIsolationStep ==
    TypeOK /\ StateProjectsLog /\ TeamIsolation /\ [Next]_vars => TeamIsolation'
<1> SUFFICES ASSUME TypeOK, StateProjectsLog, TeamIsolation, [Next]_vars
             PROVE  TeamIsolation'
  OBVIOUS
<1> USE DEF TeamIsolation
<1>1. UNCHANGED <<tasks, events, executors>> => TeamIsolation'
  OBVIOUS
<1>2. ASSUME NEW e \in Executors, NEW scope \in {"team", "system"},
             NEW team \in Teams \cup {Nil}, NEW tag \in Tags,
             RegisterExecutor(e, scope, team, tag)
      PROVE  TeamIsolation'
  <2> SUFFICES ASSUME NEW t \in Tasks, tasks[t].executor_id # Nil
               PROVE  \/ executors'[tasks[t].executor_id].scope = "system"
                      \/ /\ executors'[tasks[t].executor_id].scope = "team"
                         /\ executors'[tasks[t].executor_id].team_id = tasks[t].team_id
    BY <1>2 DEF RegisterExecutor
  <2>1. tasks[t].executor_id \in Executors
    BY DEF TypeOK, TaskRow
  <2>2. CASE tasks[t].executor_id = e
    <3>1. executors[e].scope # "absent"
      BY <2>2
    <3>2. executors'[e].scope = executors[e].scope /\ executors'[e].team_id = executors[e].team_id
      BY <1>2, <3>1 DEF RegisterExecutor, TypeOK
    <3> QED
      BY <2>2, <3>2
  <2>3. CASE tasks[t].executor_id # e
    <3>1. executors'[tasks[t].executor_id] = executors[tasks[t].executor_id]
      BY <1>2, <2>1, <2>3 DEF RegisterExecutor, TypeOK
    <3> QED
      BY <3>1
  <2> QED
    BY <2>2, <2>3
<1>3. ASSUME NEW t \in Tasks, NEW team \in Teams, NEW source \in Sources,
             NEW tag \in Tags, NEW at \in Times, IngestTask(t, team, source, tag, at)
      PROVE  TeamIsolation'
  <2>1. tasks'[t].executor_id = Nil
    BY <1>3 DEF IngestTask, TypeOK
  <2>2. \A u \in Tasks \ {t} : tasks'[u] = tasks[u]
    BY <1>3 DEF IngestTask, TypeOK
  <2>3. executors' = executors
    BY <1>3 DEF IngestTask
  <2> QED
    BY <2>1, <2>2, <2>3
<1>4. ASSUME NEW e \in Executors, NEW t \in Tasks, NEW command \in Commands,
             NEW now \in Times, ClaimTask(e, t, command, now)
      PROVE  TeamIsolation'
  <2>1. \/ executors[e].scope = "system"
        \/ executors[e].scope = "team" /\ executors[e].team_id = tasks[t].team_id
    BY <1>4 DEF ClaimTask, ClaimAccepts, Eligible, Visible, TypeOK, ExecutorRow
  <2>2. tasks'[t].executor_id = e
    BY <1>4, ClaimEffect
  <2>3. tasks'[t].team_id = tasks[t].team_id
    BY <1>4, ClaimEffect
  <2>4. \A u \in Tasks \ {t} : tasks'[u] = tasks[u]
    BY <1>4, ClaimEffect
  <2>5. executors' = executors
    BY <1>4 DEF ClaimTask
  <2> QED
    BY <2>1, <2>2, <2>3, <2>4, <2>5
<1>5. ASSUME NEW e \in Executors, NEW t \in Tasks, NEW id \in EventIds,
             NEW type \in {"running"} \cup Terminal, NEW at \in Times,
             AppendTaskEvent(e, t, id, type, at)
      PROVE  TeamIsolation'
  <2>1. tasks'[t].executor_id = tasks[t].executor_id
    BY <1>5, AppendEffect
  <2>2. tasks'[t].team_id = tasks[t].team_id
    BY <1>5, AppendEffect
  <2>3. \A u \in Tasks \ {t} : tasks'[u] = tasks[u]
    BY <1>5, AppendEffect
  <2>4. executors' = executors
    BY <1>5 DEF AppendTaskEvent
  <2> QED
    BY <2>1, <2>2, <2>3, <2>4
<1> QED
  BY <1>1, <1>2, <1>3, <1>4, <1>5, OtherEffect, Zenon DEF Next

-----------------------------------------------------------------------------
(***************************************************************************)
(* The inductive invariant of the task tables.                             *)
(***************************************************************************)
TaskInv ==
    /\ TypeOK
    /\ StateProjectsLog
    /\ LogStored
    /\ LogTimesOrdered
    /\ ReadBackFollowsLog
    /\ TeamIsolation

(***************************************************************************)
(* The empty database satisfies it.                                        *)
(***************************************************************************)
LEMMA TaskInvInit == Init => TaskInv
<1> SUFFICES ASSUME Init
             PROVE  TaskInv
  OBVIOUS
<1>1. TypeOK
  BY DEF Init, TypeOK, ExecutorRow, TaskRow, TaskStates, ControlStates
<1>2. \A t \in Tasks : /\ events[t] = <<>>
                       /\ tasks[t].current_state = "absent"
                       /\ tasks[t].executor_id = Nil
  BY DEF Init
<1>3. StateProjectsLog
  BY <1>2 DEF StateProjectsLog, ProjectsLog
<1>4. LogStored /\ LogTimesOrdered /\ ReadBackFollowsLog
  BY <1>2 DEF LogStored, LogTimesOrdered, ReadBackFollowsLog, ReadBackInOrder
<1>5. TeamIsolation
  BY <1>2 DEF TeamIsolation
<1> QED
  BY <1>1, <1>3, <1>4, <1>5 DEF TaskInv

(***************************************************************************)
(* TaskInv holds in every reachable state of the Registry.                 *)
(***************************************************************************)
THEOREM TaskInvariant == Spec => []TaskInv
<1>1. TaskInv /\ [Next]_vars => TaskInv'
  BY TypeStep, ProjectsLogStep, LogOrderStep, TeamIsolationStep DEF TaskInv
<1> QED
  BY <1>1, TaskInvInit, PTL DEF Spec

(***************************************************************************)
(* Every table keeps its type.                                             *)
(***************************************************************************)
THEOREM TypeCorrect == Spec => []TypeOK
<1>1. TaskInv => TypeOK
  BY DEF TaskInv
<1> QED
  BY <1>1, TaskInvariant, PTL

(***************************************************************************)
(* A task's state is always the projection of its accepted events, which   *)
(* are a prefix of created, running, terminal, all by the owner.           *)
(***************************************************************************)
THEOREM ProjectionCorrect == Spec => []StateProjectsLog
<1>1. TaskInv => StateProjectsLog
  BY DEF TaskInv
<1> QED
  BY <1>1, TaskInvariant, PTL

(***************************************************************************)
(* Stored event times never go back, for any clocks and any precision.     *)
(***************************************************************************)
THEOREM TimesOrdered == Spec => []LogTimesOrdered
<1>1. TaskInv => LogTimesOrdered
  BY DEF TaskInv
<1> QED
  BY <1>1, TaskInvariant, PTL

(***************************************************************************)
(* Read-back order is acceptance order for senders that use the precision  *)
(* of the column.                                                          *)
(***************************************************************************)
THEOREM ReadBackCorrect == Spec => []ReadBackFollowsLog
<1>1. TaskInv => ReadBackFollowsLog
  BY DEF TaskInv
<1> QED
  BY <1>1, TaskInvariant, PTL

(***************************************************************************)
(* A team-scoped Executor only ever owns tasks of its own team.            *)
(***************************************************************************)
THEOREM TeamsIsolated == Spec => []TeamIsolation
<1>1. TaskInv => TeamIsolation
  BY DEF TaskInv
<1> QED
  BY <1>1, TaskInvariant, PTL

-----------------------------------------------------------------------------
(***************************************************************************)
(* Retries.                                                                *)
(***************************************************************************)

(***************************************************************************)
(* An Executor sees the tasks it owns, whatever it registered since.       *)
(***************************************************************************)
LEMMA OwnerSees ==
    ASSUME TaskInv, NEW t \in Tasks, NEW e \in Executors, tasks[t].executor_id = e
    PROVE  Visible(e, t) /\ tasks[t].current_state # "pending"
<1>1. e # Nil
  BY NilIsNoIdentifier
<1>2. tasks[t].current_state \notin {"absent", "pending"}
  BY <1>1, StateGivesLength DEF TaskInv, StateProjectsLog
<1> QED
  BY <1>1, <1>2 DEF TaskInv, TeamIsolation, Visible

(***************************************************************************)
(* An event of the Executor's that was accepted and is sent again, in      *)
(* stored precision, is answered from the stored row at any later time.    *)
(***************************************************************************)
THEOREM EventRetry == Spec => []EventRetryReplayed
<1>1. TaskInv => EventRetryReplayed
  <2> SUFFICES ASSUME TaskInv, NEW t \in Tasks, NEW i \in DOMAIN events[t],
                      events[t][i].event_type # "created", AtStoredPrecision(events[t][i])
               PROVE  EventReplays(events[t][i].executor_id, t, events[t][i].event_id,
                                   events[t][i].event_type, events[t][i].sent)
    BY DEF EventRetryReplayed
  <2> DEFINE x == events[t][i]
  <2>1. events[t] \in Seq(TaskEvent) /\ DOMAIN events[t] = 1 .. Len(events[t])
    BY DEF TaskInv, TypeOK
  <2>2. x \in TaskEvent
    BY <2>1
  <2>3. x.executor_id \in Executors
    BY <2>2 DEF TaskEvent
  <2>4. x.executor_id = tasks[t].executor_id
    BY <2>1 DEF TaskInv, StateProjectsLog, ProjectsLog
  <2>5. Visible(x.executor_id, t)
    BY <2>3, <2>4, OwnerSees
  <2>6. x.occurred_at = x.sent
    BY DEF TaskInv, LogStored, AtStoredPrecision
  <2>7. x.event_type \in allowedTaskEventTypes
    <3>1. x.event_type \in LifecycleState(i)
      BY <2>1, Zenon DEF TaskInv, StateProjectsLog, ProjectsLog
    <3> QED
      BY <3>1, Zenon DEF LifecycleState, allowedTaskEventTypes
  <2> QED
    BY <2>4, <2>5, <2>6, <2>7 DEF EventReplays, EventEnvelopeOK
<1> QED
  BY <1>1, TaskInvariant, PTL

(***************************************************************************)
(* A claim that its owner repeats with the same command is answered with   *)
(* the claim at any later time, as long as the tag is unchanged.           *)
(***************************************************************************)
THEOREM ClaimRetry == Spec => []ClaimRetryReplayed
<1>1. TaskInv => ClaimRetryReplayed
  BY OwnerSees DEF ClaimRetryReplayed, ClaimReplays
<1> QED
  BY <1>1, TaskInvariant, PTL

-----------------------------------------------------------------------------
(***************************************************************************)
(* The Registry implements TaskLifecycle.                                  *)
(***************************************************************************)
THEOREM Refinement == Spec => ImplementsLifecycle
<1> DEFINE st == [t \in Tasks |-> tasks[t].current_state]
           ow == [t \in Tasks |-> tasks[t].executor_id]
<1>1. Init => LC!Init
  BY DEF Init, LC!Init
<1>2. ASSUME TypeOK, StateProjectsLog, [Next]_vars
      PROVE  [LC!Next]_(LC!vars)
  <2>1. UNCHANGED <<tasks, events, executors>> => UNCHANGED LC!vars
    BY DEF LC!vars
  <2>2. ASSUME NEW e \in Executors, NEW scope \in {"team", "system"},
               NEW team \in Teams \cup {Nil}, NEW tag \in Tags,
               RegisterExecutor(e, scope, team, tag)
        PROVE  UNCHANGED LC!vars
    BY <2>2 DEF RegisterExecutor, LC!vars
  <2>3. ASSUME NEW t \in Tasks, NEW team \in Teams, NEW source \in Sources,
               NEW tag \in Tags, NEW at \in Times, IngestTask(t, team, source, tag, at)
        PROVE  LC!Ingest(t)
    <3>1. /\ tasks'[t].current_state = "pending" /\ tasks'[t].executor_id = Nil
          /\ \A u \in Tasks \ {t} : tasks'[u] = tasks[u]
      BY <1>2, <2>3 DEF IngestTask, TypeOK
    <3>2. tasks[t].current_state = "absent"
      BY <2>3 DEF IngestTask
    <3>3. tasks[t].executor_id = Nil
      BY <1>2, <2>3, <3>2, StateGivesLength DEF StateProjectsLog
    <3>4. st' = [st EXCEPT ![t] = "pending"] /\ ow' = ow
      BY <3>1, <3>3, Zenon
    <3> QED
      BY <3>2, <3>4 DEF LC!Ingest
  <2>4. ASSUME NEW e \in Executors, NEW t \in Tasks, NEW command \in Commands,
               NEW now \in Times, ClaimTask(e, t, command, now)
        PROVE  LC!Assign(t, e)
    <3>1. tasks[t].current_state = "pending"
      BY <2>4 DEF ClaimTask, ClaimAccepts, Eligible
    <3>2. tasks'[t].current_state = "created"
      BY <1>2, <2>4, ClaimEffect
    <3>3. tasks'[t].executor_id = e
      BY <1>2, <2>4, ClaimEffect
    <3>4. \A u \in Tasks \ {t} : tasks'[u] = tasks[u]
      BY <1>2, <2>4, ClaimEffect
    <3>5. st' = [st EXCEPT ![t] = "created"] /\ ow' = [ow EXCEPT ![t] = e]
      BY <3>2, <3>3, <3>4, Zenon
    <3> QED
      BY <3>1, <3>5 DEF LC!Assign
  <2>5. ASSUME NEW e \in Executors, NEW t \in Tasks, NEW id \in EventIds,
               NEW type \in {"running"} \cup Terminal, NEW at \in Times,
               AppendTaskEvent(e, t, id, type, at)
        PROVE  LC!Start(t) \/ \E outcome \in {"finished", "failed"} : LC!End(t, outcome)
    <3>1. LifecycleAllows(t, type)
      BY <2>5 DEF AppendTaskEvent
    <3>2. tasks'[t].current_state = type
      BY <1>2, <2>5, AppendEffect
    <3>3. tasks'[t].executor_id = tasks[t].executor_id
      BY <1>2, <2>5, AppendEffect
    <3>4. \A u \in Tasks \ {t} : tasks'[u] = tasks[u]
      BY <1>2, <2>5, AppendEffect
    <3>5. st' = [st EXCEPT ![t] = type] /\ ow' = ow
      BY <3>2, <3>3, <3>4, Zenon
    <3>6. st[t] = tasks[t].current_state
      OBVIOUS
    <3>7. CASE type = "running" /\ tasks[t].current_state = "created"
      BY <3>5, <3>6, <3>7 DEF LC!Start
    <3>8. CASE type \in Terminal /\ tasks[t].current_state = "running"
      BY <3>5, <3>6, <3>8, Zenon DEF LC!End, Terminal
    <3> QED
      BY <3>1, <3>7, <3>8 DEF LifecycleAllows
  <2> QED
    BY <1>2, <2>1, <2>2, <2>3, <2>4, <2>5, OtherEffect DEF Next, LC!Next
<1> QED
  BY <1>1, <1>2, TaskInvariant, PTL DEF Spec, ImplementsLifecycle, LC!Spec, TaskInv

-----------------------------------------------------------------------------
(***************************************************************************)
(* Controls.                                                               *)
(***************************************************************************)

(***************************************************************************)
(* One control's status against its own log.                               *)
(***************************************************************************)
ControlOK(status, log) ==
    /\ Len(log) \in 0 .. 3
    /\ \A i \in 1 .. Len(log) : log[i].status \in ControlStatus(i)
    /\ IF log = <<>> THEN status = "absent" ELSE status = log[Len(log)].status

(***************************************************************************)
(* Appending an event of the next kind keeps a control in order.           *)
(***************************************************************************)
LEMMA ControlAppend ==
    ASSUME NEW log \in Seq(ControlEvent), NEW current, ControlOK(current, log),
           NEW x \in ControlEvent,
           \/ current = "absent" /\ x.status = "pending"
           \/ ValidControlTransition(current, x.status)
    PROVE  ControlOK(x.status, Append(log, x))
<1> DEFINE n == Len(log)
<1>1. n \in 0 .. 2 /\ x.status \in ControlStatus(n + 1)
  <2>1. CASE log = <<>>
    <3>1. n = 0 /\ current = "absent"
      BY <2>1 DEF ControlOK
    <3>2. x.status = "pending"
      BY <3>1 DEF ValidControlTransition
    <3> QED
      BY <3>1, <3>2 DEF ControlStatus
  <2>2. CASE log # <<>>
    <3>1. n \in 1 .. 3
      BY <2>2 DEF ControlOK
    <3>2. current \in ControlStatus(n)
      BY <2>2, <3>1 DEF ControlOK
    <3> HIDE DEF n
    <3>3. /\ ControlStatus(1) = {"pending"}
          /\ ControlStatus(2) = {"acknowledged"}
          /\ ControlStatus(3) = {"completed", "failed"}
      BY DEF ControlStatus
    <3>4. /\ n = 1 => current = "pending"
          /\ n = 2 => current = "acknowledged"
          /\ n = 3 => current \in {"completed", "failed"}
      BY <3>2, <3>3
    <3>5. CASE n = 1
      <4>1. x.status = "acknowledged"
        BY <3>4, <3>5 DEF ValidControlTransition
      <4> QED
        BY <3>5, <4>1 DEF ControlStatus
    <3>6. CASE n = 2
      <4>1. x.status \in {"completed", "failed"}
        BY <3>4, <3>6 DEF ValidControlTransition
      <4> QED
        BY <3>6, <4>1 DEF ControlStatus
    <3>7. CASE n = 3
      BY <3>4, <3>7 DEF ValidControlTransition
    <3> QED
      BY <3>1, <3>5, <3>6, <3>7
  <2> QED
    BY <2>1, <2>2
<1>2. /\ Len(Append(log, x)) = n + 1
      /\ Append(log, x) # <<>>
      /\ \A i \in 1 .. n : Append(log, x)[i] = log[i]
      /\ Append(log, x)[n + 1] = x
  BY AppendOne
<1>3. \A i \in 1 .. n : log[i].status \in ControlStatus(i)
  BY DEF ControlOK
<1> HIDE DEF n
<1>4. \A i \in 1 .. n + 1 : Append(log, x)[i].status \in ControlStatus(i)
  BY <1>1, <1>2, <1>3
<1> QED
  BY <1>1, <1>2, <1>4 DEF ControlOK

(***************************************************************************)
(* A control's status is always the projection of its log: requested,      *)
(* acknowledged, completed or failed, in that order and each at most once. *)
(***************************************************************************)
THEOREM ControlsCorrect == Spec => []ControlProjectsLog
<1> DEFINE Inv == \A c \in Controls : ControlOK(controls[c], controlEvents[c])
<1>1. Init => Inv
  BY SMTT(20) DEF Init, ControlOK
<1>2. ASSUME TypeOK, Inv, [Next]_vars
      PROVE  Inv'
  <2>1. UNCHANGED <<controls, controlEvents>> => Inv'
    BY <1>2
  <2>2. ASSUME NEW c \in Controls, NEW x \in ControlEvent,
               \/ controls[c] = "absent" /\ x.status = "pending"
               \/ ValidControlTransition(controls[c], x.status),
               controls' = [controls EXCEPT ![c] = x.status],
               controlEvents' = [controlEvents EXCEPT ![c] = Append(controlEvents[c], x)]
        PROVE  Inv'
    <3>1. ControlOK(x.status, Append(controlEvents[c], x))
      BY <1>2, <2>2, ControlAppend DEF TypeOK
    <3>2. \A d \in Controls \ {c} :
            controls'[d] = controls[d] /\ controlEvents'[d] = controlEvents[d]
      BY <1>2, <2>2 DEF TypeOK
    <3>3. controls'[c] = x.status /\ controlEvents'[c] = Append(controlEvents[c], x)
      BY <1>2, <2>2 DEF TypeOK
    <3> QED
      BY <1>2, <3>1, <3>2, <3>3, Zenon
  <2>3. ASSUME NEW t \in Tasks, NEW key \in ControlKeys, NEW id \in ControlEventIds,
               NEW at \in Times, CreateTaskControl(t, key, id, at)
        PROVE  Inv'
    <3> DEFINE x == [control_event_id |-> id, status |-> "pending", occurred_at |-> Stored(at)]
    <3>1. x \in ControlEvent
      BY Clocks, OrderedIds, StoredIsEarlier DEF ControlEvent, ControlStates
    <3>2. <<t, key>> \in Controls
      BY DEF Controls
    <3> QED
      BY <2>2, <2>3, <3>1, <3>2, Zenon DEF CreateTaskControl
  <2>4. ASSUME NEW e \in Executors, NEW t \in Tasks, NEW key \in ControlKeys,
               NEW id \in ControlEventIds, NEW status \in ControlStates, NEW at \in Times,
               AppendTaskControlEvent(e, t, key, id, status, at)
        PROVE  Inv'
    <3> DEFINE x == [control_event_id |-> id, status |-> status, occurred_at |-> Stored(at)]
    <3>1. x \in ControlEvent
      BY Clocks, OrderedIds, StoredIsEarlier DEF ControlEvent
    <3>2. <<t, key>> \in Controls
      BY DEF Controls
    <3> QED
      BY <2>2, <2>4, <3>1, <3>2, Zenon DEF AppendTaskControlEvent
  <2> HIDE DEF Inv
  <2>5. CASE UNCHANGED vars
    BY <2>1, <2>5 DEF vars
  <2> QED
    BY <1>2, <2>1, <2>3, <2>4, <2>5, Zenon
    DEF Next, RegisterExecutor, IngestTask, ArchiveTeam, ClaimTask, AppendTaskEvent
<1>3. Inv => ControlProjectsLog
  BY DEF ControlOK, ControlProjectsLog
<1> HIDE DEF Inv
<1> QED
  BY <1>1, <1>2, <1>3, TypeCorrect, PTL DEF Spec
-----------------------------------------------------------------------------
(***************************************************************************)
(* Every set of task_ids or instants has a least element.                  *)
(***************************************************************************)
LEMMA LeastNatural ==
    ASSUME NEW S, S \subseteq Nat, S # {}
    PROVE  \E x \in S : \A y \in S : x <= y
<1> DEFINE Less == {p \in Nat \X Nat : p[1] < p[2]}
<1>1. IsWellFoundedOn(Less, Nat)
  BY NatLessThanWellFounded DEF OpToRel
<1> HIDE DEF Less
<1>2. PICK x \in S : \A y \in S : <<y, x>> \notin Less
  BY <1>1, WFMin, Zenon
<1>3. \A y \in S : ~(y < x)
  BY <1>2, Zenon DEF Less
<1> QED
  BY <1>3

(***************************************************************************)
(* The first row DiscoverExecutorTasks offers an Executor is the one task  *)
(* whose claim ClaimTask accepts, for any number of tasks.  Of the tasks   *)
(* ingested in the earliest second the one with the least task_id is both. *)
(***************************************************************************)
THEOREM DiscoveryHeadCorrect == Spec => []DiscoveryHeadClaimable
<1>1. ASSUME TypeOK PROVE DiscoveryHeadClaimable
  <2> SUFFICES ASSUME NEW e \in Executors, NEW u \in Tasks, Eligible(e, u)
               PROVE  {t \in Tasks : ClaimAccepts(e, t)} = {DiscoveryHead(e)}
    BY DEF DiscoveryHeadClaimable
  <2> DEFINE E == {t \in Tasks : Eligible(e, t)}
             Seconds == {tasks[t].ingested_at : t \in E}
  <2>1. \A t \in Tasks : t \in Nat /\ tasks[t].ingested_at \in Nat
    BY <1>1, OrderedIds DEF TypeOK, TaskRow
  <2>2. PICK s \in E : \A t \in E : tasks[s].ingested_at <= tasks[t].ingested_at
    <3>1. Seconds \subseteq Nat /\ Seconds # {}
      BY <2>1
    <3>2. PICK at \in Seconds : \A x \in Seconds : at <= x
      BY <3>1, LeastNatural, Zenon
    <3> QED
      BY <3>2
  <2> DEFINE Ties == {t \in E : tasks[t].ingested_at = tasks[s].ingested_at}
  <2>3. PICK h \in Ties : \A t \in Ties : h <= t
    <3>1. Ties \subseteq Nat /\ Ties # {}
      BY <2>1
    <3> QED
      BY <3>1, LeastNatural, Zenon
  <2>4. h \in E /\ \A t \in E : t = h \/ Earlier(h, t)
    BY <2>1, <2>2, <2>3 DEF Earlier
  <2>5. \A t \in E : (\A r \in E : ~Earlier(r, t)) <=> t = h
    BY <2>1, <2>4 DEF Earlier
  <2>6. {t \in Tasks : ClaimAccepts(e, t)} = {h}
    BY <2>4, <2>5 DEF ClaimAccepts, IsEarlierPendingTask
  <2>7. \A t \in E : (\A r \in E : r = t \/ Earlier(t, r)) => t = h
    BY <2>1, <2>4 DEF Earlier
  <2>8. DiscoveryHead(e) = h
    BY <2>4, <2>7 DEF DiscoveryHead
  <2> QED
    BY <2>6, <2>8
<1> QED
  BY <1>1, TypeCorrect, PTL
=============================================================================
