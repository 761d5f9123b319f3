--------------------------- MODULE RegistryLocks ---------------------------
(***************************************************************************)
(* The State Registry's transactions statement by statement.  StateRegistry*)
(* takes each of them as one atomic step; here several sessions run them   *)
(* at once on PostgreSQL: READ COMMITTED, row locks taken by SELECT FOR    *)
(* UPDATE, the key-share lock a foreign-key check takes on the referenced  *)
(* row, one advisory lock per tag, and a deadlock detector that aborts one *)
(* of the sessions that wait for each other.  What a statement read is     *)
(* kept in the session and used, unchecked, when the session commits.      *)
(*                                                                         *)
(* All Executors have the same tag.  Tasks of archived teams, log offsets  *)
(* and the FIFO order are represented; images, payloads and event times    *)
(* are not.                                                                *)
(***************************************************************************)
EXTENDS Integers, Sequences, FiniteSetsExt

CONSTANTS
    Sessions,         \* database sessions
    Executors,        \* registered Executors
    Teams,
    ExecutorTeam,     \* ExecutorTeam[e]: its team, or Nil for scope system
    Tasks,            \* task_id values, ordered by <
    TaskTeam,         \* TaskTeam[t]: the team whose listener submits t
    Seconds,          \* values of date_trunc('second', transaction_timestamp())
    InitialTables,    \* contents of table tasks to start from
    MaxTransactions,  \* bound on the transactions started
    Nil

TaskStates == {"absent", "pending", "created", "running", "finished"}
TaskRow == [current_state: TaskStates, executor_id: Executors \cup {Nil}, ingested_at: Nat]

ASSUME LockConstants ==
    /\ ExecutorTeam \in [Executors -> Teams \cup {Nil}]
    /\ Tasks \subseteq Nat
    /\ TaskTeam \in [Tasks -> Teams]
    /\ Seconds \subseteq Nat
    /\ InitialTables \subseteq [Tasks -> TaskRow]
    /\ MaxTransactions \in Nat
    /\ Nil \notin Executors \cup Teams

VARIABLES
    tasks,     \* committed rows of tasks: state, owner, ingestion second
    archived,  \* committed: teams with archived_at set
    offsets,   \* committed: offsets[t] are the log_offset values of t's chunks
    req,       \* req[s]: the request session s works on, or NoRequest
    pc,        \* pc[s]: the number of its next statement, 0 when idle
    saw,       \* saw[s]: the task state the session read
    offset,    \* offset[s]: the log offset the session computed
    locks,     \* locks held: <<row, mode, session>>
    started    \* transactions started so far

session == <<req, pc, saw, offset>>
vars == <<tasks, archived, offsets, session, locks, started>>

(***************************************************************************)
(* e is the Executor that calls, m the team that owns the task.            *)
(***************************************************************************)
NoRequest == [op |-> "none", e |-> Nil, t |-> Nil, m |-> Nil, at |-> 0]

ExecutorOps == {"claim", "running", "finished", "log", "control"}

Requests ==
    {[op |-> op, e |-> e, t |-> t, m |-> TaskTeam[t], at |-> 0] :
         op \in ExecutorOps, e \in Executors, t \in Tasks}
      \cup {[op |-> "ingest", e |-> Nil, t |-> t, m |-> TaskTeam[t], at |-> at] :
                t \in Tasks, at \in Seconds}
      \cup {[op |-> "archive", e |-> Nil, t |-> Nil, m |-> m, at |-> 0] : m \in Teams}

(***************************************************************************)
(* The statements of each transaction, in the order of the code.           *)
(***************************************************************************)
ProbeBeforeTeamLock(op) ==
    CASE op = "claim"   -> <<"executor", "tag", "task", "probe", "team", "commit">>
      [] op \in {"running", "finished"} -> <<"executor", "task", "audit", "commit">>
      [] op = "log"     -> <<"task", "offset", "insert", "commit">>
      [] op = "control" -> <<"task", "insert", "audit", "commit">>
      [] op \in {"ingest", "archive"} -> <<"team", "commit">>

TaskBeforeExecutor(op) ==
    CASE op = "claim"   -> <<"executor", "tag", "task", "team", "probe", "commit">>
      [] op \in {"running", "finished"} -> <<"task", "executor", "audit", "commit">>
      [] op = "log"     -> <<"task", "offset", "insert", "commit">>
      [] op = "control" -> <<"task", "insert", "audit", "commit">>
      [] op \in {"ingest", "archive"} -> <<"team", "commit">>

Program(op) ==
    CASE op = "claim"   -> <<"executor", "tag", "task", "team", "probe", "commit">>
      [] op \in {"running", "finished"} -> <<"executor", "task", "audit", "commit">>
      [] op = "log"     -> <<"task", "offset", "insert", "commit">>
      [] op = "control" -> <<"task", "insert", "audit", "commit">>
      [] op \in {"ingest", "archive"} -> <<"team", "commit">>

(***************************************************************************)
(* The lock a statement waits for.  "insert" writes a row that references  *)
(* the Executor, "audit" one that references the team.                     *)
(***************************************************************************)
AlwaysShared(r, statement) ==
    CASE statement = "executor" -> {<<<<"executor", r.e>>, "share">>}
      [] statement = "tag"      -> {<<<<"tag", Nil>>, "share">>}
      [] statement = "task"     -> {<<<<"task", r.t>>, "share">>}
      [] statement = "team"     -> {<<<<"team", r.m>>, "share">>}
      [] statement = "insert"   -> {<<<<"executor", r.e>>, "share">>}
      [] statement = "audit"    -> {<<<<"team", r.m>>, "share">>}
      [] OTHER                  -> {}

LockFor(r, statement) ==
    CASE statement = "executor" -> {<<<<"executor", r.e>>, "update">>}
      [] statement = "tag"      -> {<<<<"tag", Nil>>, "update">>}
      [] statement = "task"     -> {<<<<"task", r.t>>, "update">>}
      [] statement = "team"     -> {<<<<"team", r.m>>, "update">>}
      [] statement = "insert"   -> {<<<<"executor", r.e>>, "share">>}
      [] statement = "audit"    -> {<<<<"team", r.m>>, "share">>}
      [] OTHER                  -> {}

Active(s) == pc[s] > 0
Statement(s) == Program(req[s].op)[pc[s]]

(***************************************************************************)
(* The sessions whose locks s has to wait for.                             *)
(***************************************************************************)
WaitsFor(s) ==
    {z \in Sessions \ {s} :
        /\ Active(s)
        /\ \E l \in LockFor(req[s], Statement(s)), mode \in {"update", "share"} :
              <<l[1], mode, z>> \in locks /\ "update" \in {mode, l[2]}}

Deadlocked(X) == X # {} /\ \A s \in X : WaitsFor(s) \cap X # {}

-----------------------------------------------------------------------------
Init ==
    /\ tasks \in InitialTables
    /\ archived = {}
    /\ offsets = [t \in Tasks |-> {}]
    /\ req = [s \in Sessions |-> NoRequest]
    /\ pc = [s \in Sessions |-> 0]
    /\ saw = [s \in Sessions |-> "absent"]
    /\ offset = [s \in Sessions |-> 0]
    /\ locks = {}
    /\ started = 0

(***************************************************************************)
(* A request arrives.  Executors claim tasks they were shown, and report   *)
(* on tasks that were claimed, if not always by themselves.                *)
(***************************************************************************)
Begin(s, r) ==
    /\ ~Active(s)
    /\ r.op \in ExecutorOps => tasks[r.t].current_state # "absent"
    /\ r.op \in ExecutorOps \ {"claim"} => tasks[r.t].executor_id # Nil
    /\ started < MaxTransactions
    /\ started' = started + 1
    /\ req' = [req EXCEPT ![s] = r]
    /\ pc' = [pc EXCEPT ![s] = 1]
    /\ UNCHANGED <<tasks, archived, offsets, saw, offset, locks>>

(***************************************************************************)
(* What the row that was just locked, or read, makes the code return early *)
(* with: nothing was written and the deferred rollback ends the session.   *)
(***************************************************************************)
Visible(e, t) ==
    /\ tasks[t].current_state # "absent"
    /\ ExecutorTeam[e] \in {Nil, TaskTeam[t]}

EarlierPending(e, t) ==
    \E u \in Tasks :
        /\ Visible(e, u)
        /\ tasks[u].current_state = "pending"
        /\ \/ tasks[u].ingested_at < tasks[t].ingested_at
           \/ tasks[u].ingested_at = tasks[t].ingested_at /\ u < t

LifecycleAllows(state, type) ==
    \/ type = "running" /\ state = "created"
    \/ type = "finished" /\ state = "running"

Refused(s) ==
    LET r == req[s]
        Owns == Visible(r.e, r.t) /\ tasks[r.t].executor_id = r.e
    IN \/ /\ r.op = "claim"
          /\ \/ Statement(s) = "task" /\ ~Visible(r.e, r.t)
             \/ Statement(s) = "team" /\ saw[s] # "pending"
             \/ Statement(s) = "probe" /\ EarlierPending(r.e, r.t)
       \/ /\ r.op \in {"running", "finished"} /\ Statement(s) = "task"
          /\ ~(Owns /\ LifecycleAllows(tasks[r.t].current_state, r.op))
       \/ /\ r.op = "log" /\ Statement(s) = "task"
          /\ ~(Owns /\ tasks[r.t].current_state \in {"created", "running"})
       \/ r.op = "control" /\ Statement(s) = "task" /\ ~Owns
       \/ r.op \in {"ingest", "archive"} /\ Statement(s) = "team" /\ r.m \in archived

LastOffset(t) == IF offsets[t] = {} THEN 1 ELSE Max(offsets[t])

NextOffset(t) == IF offsets[t] = {} THEN 1 ELSE 1 + Max(offsets[t])

(***************************************************************************)
(* One statement: it waits for its lock, reads, and goes on.               *)
(***************************************************************************)
Execute(s) ==
    /\ Active(s)
    /\ Statement(s) # "commit"
    /\ WaitsFor(s) = {}
    /\ ~Refused(s)
    /\ locks' = locks \cup {<<l[1], l[2], s>> : l \in LockFor(req[s], Statement(s))}
    /\ saw' = [saw EXCEPT ![s] =
         IF Statement(s) = "task" THEN tasks[req[s].t].current_state ELSE @]
    /\ offset' = [offset EXCEPT ![s] =
         IF Statement(s) = "offset" THEN NextOffset(req[s].t) ELSE @]
    /\ pc' = [pc EXCEPT ![s] = @ + 1]
    /\ UNCHANGED <<tasks, archived, offsets, req, started>>

(***************************************************************************)
(* Commit and rollback release every lock of the session.                  *)
(***************************************************************************)
EndKeepsLocks(s) ==
    /\ req' = [req EXCEPT ![s] = NoRequest]
    /\ pc' = [pc EXCEPT ![s] = 0]
    /\ saw' = [saw EXCEPT ![s] = "absent"]
    /\ offset' = [offset EXCEPT ![s] = 0]
    /\ UNCHANGED <<locks, started>>

End(s) ==
    /\ req' = [req EXCEPT ![s] = NoRequest]
    /\ pc' = [pc EXCEPT ![s] = 0]
    /\ saw' = [saw EXCEPT ![s] = "absent"]
    /\ offset' = [offset EXCEPT ![s] = 0]
    /\ locks' = {l \in locks : l[3] # s}
    /\ UNCHANGED started

Refuse(s) ==
    /\ Active(s)
    /\ Statement(s) # "commit"
    /\ WaitsFor(s) = {}
    /\ Refused(s)
    /\ End(s)
    /\ UNCHANGED <<tasks, archived, offsets>>

(***************************************************************************)
(* PostgreSQL aborts one of the sessions that wait for each other; the     *)
(* Registry answers 500 and its caller sees a failed request.              *)
(***************************************************************************)
AbortDeadlock(s) ==
    /\ \E X \in SUBSET Sessions : s \in X /\ Deadlocked(X)
    /\ End(s)
    /\ UNCHANGED <<tasks, archived, offsets>>

Committing(s, ops) == Active(s) /\ Statement(s) = "commit" /\ req[s].op \in ops

CommitClaim(s) ==
    /\ Committing(s, {"claim"})
    /\ tasks' = [tasks EXCEPT ![req[s].t].current_state = "created",
                              ![req[s].t].executor_id = req[s].e]
    /\ End(s)
    /\ UNCHANGED <<archived, offsets>>

CommitEvent(s) ==
    /\ Committing(s, {"running", "finished"})
    /\ tasks' = [tasks EXCEPT ![req[s].t].current_state = req[s].op]
    /\ End(s)
    /\ UNCHANGED <<archived, offsets>>

CommitLog(s) ==
    /\ Committing(s, {"log"})
    /\ offsets' = [offsets EXCEPT ![req[s].t] = @ \cup {offset[s]}]
    /\ End(s)
    /\ UNCHANGED <<tasks, archived>>

CommitControl(s) ==
    /\ Committing(s, {"control"})
    /\ End(s)
    /\ UNCHANGED <<tasks, archived, offsets>>

(***************************************************************************)
(* ON CONFLICT DO NOTHING: a task that is stored already stays as it is.   *)
(***************************************************************************)
CommitIngest(s) ==
    /\ Committing(s, {"ingest"})
    /\ tasks' = IF tasks[req[s].t].current_state # "absent" THEN tasks
                ELSE [tasks EXCEPT ![req[s].t].current_state = "pending",
                                   ![req[s].t].ingested_at = req[s].at]
    /\ End(s)
    /\ UNCHANGED <<archived, offsets>>

CommitArchivesTask(s) ==
    /\ Committing(s, {"archive"})
    /\ archived' = archived \cup {req[s].t}
    /\ End(s)
    /\ UNCHANGED <<tasks, offsets>>

CommitArchive(s) ==
    /\ Committing(s, {"archive"})
    /\ archived' = archived \cup {req[s].m}
    /\ End(s)
    /\ UNCHANGED <<tasks, offsets>>

Commit(s) ==
    \/ CommitClaim(s)
    \/ CommitEvent(s)
    \/ CommitLog(s)
    \/ CommitControl(s)
    \/ CommitIngest(s)
    \/ CommitArchive(s)

SessionStep(s) == Execute(s) \/ Refuse(s) \/ AbortDeadlock(s) \/ Commit(s)

Next == \E s \in Sessions : SessionStep(s) \/ \E r \in Requests : Begin(s, r)

(***************************************************************************)
(* A session that can go on goes on, and the detector finds every deadlock.*)
(***************************************************************************)
Fairness == \A s \in Sessions : WF_vars(SessionStep(s))

Spec == Init /\ [][Next]_vars /\ Fairness

-----------------------------------------------------------------------------
(***************************************************************************)
(* Type correctness.                                                       *)
(***************************************************************************)
TypeOK ==
    /\ tasks \in [Tasks -> TaskRow]
    /\ archived \subseteq Teams
    /\ offsets \in [Tasks -> SUBSET Nat]
    /\ req \in [Sessions -> Requests \cup {NoRequest}]
    /\ pc \in [Sessions -> 0 .. 6]
    /\ saw \in [Sessions -> TaskStates]
    /\ offset \in [Sessions -> Nat]
    /\ \A l \in locks : l[2] \in {"update", "share"} /\ l[3] \in Sessions
    /\ started \in 0 .. MaxTransactions

(***************************************************************************)
(* What a session read of a task is still so when it commits: claim, event *)
(* and log appends decide on the state they locked, never on a stale one.  *)
(* So the interleaved transactions keep the promise of TaskLifecycle, as   *)
(* the atomic ones of StateRegistry do.                                    *)
(***************************************************************************)
LC == INSTANCE TaskLifecycle WITH
        status <- [t \in Tasks |-> tasks[t].current_state],
        owner <- [t \in Tasks |-> tasks[t].executor_id]

SerializedLifecycle == [][LC!Next]_(LC!vars)

(***************************************************************************)
(* No claim overtakes a teammate: when it commits, no older pending task   *)
(* of the same team is waiting, although ingestions commit concurrently.   *)
(***************************************************************************)
Claimed(t) == tasks[t].current_state = "pending" /\ tasks'[t].current_state = "created"

OlderTeammate(u, t) ==
    /\ TaskTeam[u] = TaskTeam[t]
    /\ tasks[u].current_state = "pending"
    /\ \/ tasks[u].ingested_at < tasks[t].ingested_at
       \/ tasks[u].ingested_at = tasks[t].ingested_at /\ u < t

FifoWithinTeam == [][\A t \in Tasks : Claimed(t) => \A u \in Tasks : ~OlderTeammate(u, t)]_vars

(***************************************************************************)
(* Once archival has committed, no task of the team appears, not even from *)
(* an ingestion that was under way.                                        *)
(***************************************************************************)
ArchivedTeamClosed ==
    [][\A t \in Tasks : tasks[t].current_state = "absent" /\ tasks'[t].current_state # "absent"
          => TaskTeam[t] \notin archived]_vars

(***************************************************************************)
(* No log chunk is added to a task that has ended, although its terminal   *)
(* event races with the append.                                            *)
(***************************************************************************)
NoLogAfterEnd ==
    [][\A t \in Tasks : offsets'[t] # offsets[t] =>
          tasks[t].current_state \in {"created", "running"}]_vars

(***************************************************************************)
(* The offset a log append computed from MAX is free until it inserts: the *)
(* unique index never rejects it, and offsets have no gap.                 *)
(***************************************************************************)
OffsetsDense ==
    /\ \A t \in Tasks : offsets[t] = 1 .. Cardinality(offsets[t])
    /\ \A s \in Sessions : offset[s] # 0 => offset[s] \notin offsets[req[s].t]

(***************************************************************************)
(* The transactions lock rows in the order Executor, tag, task, team,      *)
(* except that a log or control append inserts a row that references the   *)
(* Executor after it locked the task.  Sessions never come to wait for     *)
(* each other without one of these.                                        *)
(***************************************************************************)
OnlyForeignKeyDeadlock ==
    \A X \in SUBSET Sessions : Deadlocked(X) => \E s \in X : Statement(s) = "insert"

(***************************************************************************)
(* Every transaction ends, by commit, refusal or as a deadlock victim: no  *)
(* matter how sessions block each other, they all come to rest.            *)
(***************************************************************************)
TransactionsEnd == []<>(\A s \in Sessions : ~Active(s))

=============================================================================
