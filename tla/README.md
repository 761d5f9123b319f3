# FlowAI: TLA+ models and proofs

FlowAI runs coding tasks for teams. *Listeners* submit tasks to the **State
Registry**, a Go service on PostgreSQL that owns all task state. **Executors**
(one for Docker, one for Kubernetes) poll it for tasks with their tag, claim
the oldest, start an OpenHands container or Pod for each, follow the
conversation and report the end. An **API Gateway** gives operators a session
and proxies the Registry's UI routes and event stream to the **Web UI**.

## The parts, their state, and what makes them hard

| Part | State | Operations | Hard behaviour |
|---|---|---|---|
| Registry: task core (`store/executor.go`, `events.go`, `listener.go`) | tables `executors`, `tasks`, `task_events` | register, ingest, discover, claim, append event | retries, unsynchronised clocks, precision lost in storage, FIFO ties |
| Registry: controls (`controls.go`, `control_events.go`) | `task_control_requests`, `task_control_events` | request, acknowledge, complete, fail | late and repeated outcomes |
| Registry: transactions | row locks, advisory locks, foreign-key locks | the same, statement by statement | interleaving, lock order, stale reads |
| Registry: logs (`task_logs.go`) | `task_log_chunks` | append | next offset from `MAX`, race with the task's end |
| Docker Executor (`executor/docker_openhands`) | slots, reservations, ports, containers | poll, launch, run, watch exit, apply control, drain, restart | four goroutines race to end one task; lost calls; crash |
| Kubernetes Executor (`executor/k8s-openhands`) | Pods, bbolt cache (assignments, outbox) | as above, and reconciliation | crash between Pod and cache; outbox |
| Launch parameters, secrets, scope tokens | definitions, versions, snapshots, keyring | edit, resolve at claim, open | torn snapshot, expiry |
| Listings and cursors (`listing.go`, `ui_operator.go`, `cursor/`) | cursor keyring; the cursors clients hold | walk page by page, rotate keys | rows that are added, moved or changed between two pages; ties |
| Event stream (`ui_stream.go`, `events_stream.go`) | position per connection and per browser | poll, send, reconnect | rows that commit behind the position, broken connections |
| Dashboard (`ui_operator.go`) | none | two counting statements | writes in between; ISO weeks |
| API Gateway | sessions, memberships, tokens, mappings | login, refresh, issue, proxy, logout | stale refresh, open WebSockets |
| Web UI | the page's stream position | reconnect, switch team | late frames |

`PROJECT.json` lists every part with its files and status, the hazards with
the line where each bites, and for every definition the source lines it models.

## Modules

| Module | What it is |
|---|---|
| `TaskLifecycle` | abstract specification: a task is ingested once, gets one owner for good, and only moves forward |
| `StateRegistry` | the Registry's tables; one action per committed transaction |
| `RegistryLocks` | the same transactions statement by statement, with PostgreSQL's locks |
| `StateRegistryProofs` | theorems about `StateRegistry`, checked by TLAPS |
| `DockerExecutor` | the Docker Executor against an unreliable Registry and Docker |
| `K8sExecutor` | the Kubernetes Executor with its persistent cache, against an unreliable Registry, cluster and agent |
| `GatewaySessions` | the API Gateway's sessions, working tokens, proxied requests and WebSockets |
| `GatewaySessionsProofs`, `GatewayGrantProofs`, `GatewayFreshProofs` | theorems about `GatewaySessions`: logout and types, what grants a session rests on, freshness of tokens |
| `LaunchParameters` | definitions, secrets, the snapshot a claim freezes, scope tokens |
| `LaunchParametersProofs` | theorems about `LaunchParameters` |
| `OperatorReads` | listings, event streams and dashboard, read while the tables are written |
| `DashboardCalendar` | the windows of the dashboard: ISO weeks and months |
| `MCStateRegistry`, `MCRegistryLocks`, `MCDockerExecutor`, `MCK8sExecutor`, `MCGateway`, `MCOperator` | values of the constants for TLC; `MCOperator` composes `LaunchParameters` and `OperatorReads` |

Each module with properties also holds, before the definition concerned, a
deliberately wrong variant (`EarlierIgnoringTies`, `ExitClaimsAgain`, ...).
Substituted for the definition it makes a property fail, which shows that the
property depends on that piece of code.

### StateRegistry

A table is a function from key to row; an absent row has state or scope
`"absent"`. A request the code refuses, or answers from a stored row, changes
nothing, so it is no action; `ClaimReplays` and `EventReplays` say when a
repeated request gets the original answer. Time is a number in the precision
clients send. `Stored` drops what the `timestamptz` column does not keep and
`TruncSecond` cuts `ingested_at`, and comparisons are made between the values the
code compares, a sent instant with stored ones. The field `sent` of an event is
a history variable. Requests carry any instant of `Times`: no clock is trusted.
`CreatedEventId[t]` stands for `evt-<task_id>`. Payloads and images are left out;
a retry is taken to carry the same payload.

### RegistryLocks

A session runs the program of its request: lock, read, probe, insert, commit.
A statement waits while another session holds a conflicting lock; what it read
is kept and used without a second look at commit. Foreign-key checks take a
shared lock on the referenced row. PostgreSQL's detector aborts one session of
a deadlock. Locks and detector are external and modelled as documented for READ
COMMITTED. All Executors have one tag, the only case in which they compete.

### DockerExecutor

The poll goroutine is `poll.at`, a program counter through `tickV0002` and
`startTaskV0002`. Every slot has three counters: `run` (`runTaskV0002` and its
deferred calls), `exit` (`watchContainerExitV0002`), `ctl`
(`watchTaskControls`). A step is one call to the outside or one critical
section. `claimTerminal` and the post that follows it are two steps where
another goroutine can tell the difference. A call to the Registry may fail to
arrive, or arrive and not be answered (`Calls`); under a cancelled context it is
never answered (`ContextCalls`). A start of a container that is not answered may
have happened all the same: `StartFails` then leaves a container that runs and
that no slot knows of (`abandoned`). The faults a behaviour may contain are chosen
at the start from `Profiles`. A goroutine that can only return is not stepped.
`sent[t]` counts the terminal events posted and is a history variable.

### K8sExecutor

The cache buckets `metadata`, `assignments` and `event_outbox` are `executorID`,
`assignments` and `outbox`; they survive `Crash`, all else in memory does not.
`process` is `Run`: register, `Reconcile`, `retryPendingOutbox`,
`reconcileCachedWork`, then the loop, whose place in `startTaskV0002` is
`poll.at`. `slots[t].at` is the place of a Pod's `runPodTask`. A step ends after
every write to the cache and after every call that changes something elsewhere,
the points where a crash leaves something different behind: `appendTaskEvent` is
three steps (put, post, mark accepted), a conversation is started in one step
and remembered in the next, a control is answered in one and the outcome put
into the outbox in the next. A call that only reads is one step with what
follows it, and so are the deletions of one `Reconcile`, because the next start
makes those that a crash cut off. `commandIDForStable` gives one of sixteen ids
from the low byte of the clock (`seeds`), so two tasks may share one. `created`,
`conversations` and `unanswered` are history variables.

### GatewaySessions

A login, a callback and a token request are programs whose steps are the calls
to the provider and the statements on the Gateway's database; any number of them
interleave, and the clock ticks between any two. A session row carries the teams
derived from the groups the provider named and the time they are said to have
been observed. `held` records when the operator really was in a group, `lag` and
`since` by how much a recorded time may be off; all three are history
variables. The provider may or may not rotate refresh tokens. Every proxied
request and every new WebSocket is checked once against signature, expiry and
database (`Authenticated`) and is then admitted; forwarding, dialing the Registry
and upgrading the connection are later steps that check nothing again, and
neither do the frames on an open WebSocket.

### LaunchParameters

One action per edit, each of which locks its definition and appends a revision.
A claim is several steps: `BeginClaim` reads the definitions in one statement,
`ResolveDefinition` the secrets of one definition in a statement of its own, and
`CommitClaim` chooses the image, freezes the snapshot and issues the scope
token, or the claim rolls back. `effective`, `edited` and `revoked` remember what
was in force when the claim began. Tokens are opened against the keyring of the
moment, which restarts rotate and cut back.

### OperatorReads and DashboardCalendar

A row is abstracted to table, id, instant, team, mark, parent and owner. Each
listing has its selection (`ListTasks`, ...), its order and its handler
(`listTags`, `uiTasks`, ...), which decodes the cursor, fetches one row more
than the limit and encodes the next cursor: signed and bound to endpoint, caller
and filters for `/v1` and `/admin`, a bare position for `/ui`. Filters are the
team, what a row belongs to, the state or text of its mark, and the period of a
team's tasks, which the code counts back from the clock for every page. Left out
are the date of the task history and the searches in tasks and Executors,
conditions on columns that a row meets until it is written, like a state. A
signed cursor may be sent with another query, one of `/ui` is sent with its own.
Other requests write in between, whole transactions with the audit rows and the
mirrors they make. A stream has the server's position, the batch being sent and
the browser's position. `owed`, `seen`, `known` and `disturbed` are history
variables that say what a reader may count on. The calendar is arithmetic on day
numbers, `package time` being external.

## Runs

| Run | Result | Instance |
|---|---|---|
| `registry` | holds | 2 teams, tags, Executors, tasks and event ids; instants 0..2 with 2 per stored instant; symmetry in teams, tags and Executors |
| `task_log` | holds | 1 task, 3 event ids, 1 control, 3 control events; instants 0..3 |
| `locks` | holds | 3 sessions, 3 transactions of any kind, a team and a system Executor, 2 tasks |
| `docker` | holds | at most 3 tasks, 2 containers, 2 ports, 2 starts; four fault profiles |
| `k8s` | holds | at most 3 tasks, 2 Pods, 3 starts; six fault profiles |
| `gateway` | holds | at most 2 logins, 2 concurrent token requests, 2 groups and teams, 3 ticks; four scopes |
| `operator` | holds | 1 key, 2 definitions and the global one, 2 secrets, 4 edits, 2 keys; 23 stored and 13 arriving rows, 23 listings, pages of 1 or 2, 2 writes |
| `event_retry` | violated | a retried event with sub-microsecond digits gets a conflict |
| `read_back` | violated | two events in one microsecond are read back inverted |
| `claim_retry` | violated | after re-registration with another tag the owner's claim retry finds no task |
| `slot_reported` | violated | a normally closed stream ends a slot with no terminal event |
| `ports` | violated | a released port is lost while its slot is retained |

The passing runs state these properties.

* `registry`: `StateProjectsLog`, the row and the log tell the same story;
  `TeamIsolation`; `ClaimRetryReplayed`; `DiscoveryHeadClaimable`, discovery and
  the FIFO probe agree on which task is first; `ImplementsLifecycle`, refinement
  of `TaskLifecycle`.
* `task_log`: `LogTimesOrdered`, `ReadBackFollowsLog` and `EventRetryReplayed`,
  the last two for senders that use microseconds (the retry of an event the
  Executor itself sent: `created` is refused with 403); `ControlProjectsLog`.
* `locks`: `SerializedLifecycle`, interleaved transactions still make only steps
  of `TaskLifecycle`; `FifoWithinTeam`; `ArchivedTeamClosed`; `NoLogAfterEnd`;
  `OffsetsDense`; `OnlyForeignKeyDeadlock`, the only deadlocks involve the
  foreign-key lock of a log or control insert; `TransactionsEnd`.
* `docker`: `OneTerminalEvent` over all racing goroutines and restarts;
  `CapacityHeld`; `PortsDistinct`; `ReportedUnlessClosed`; `EndsOnlyRunning`;
  `DrainLeavesNothing`, no container of a slot outlives a drain; `EndedSlotFreed`.
* `k8s`: `StartedOnce`, one Pod and one prompt per task over all crashes;
  `PodsWithinCapacity`, also with Pods that outlived their slots; `OutcomeKept`, a
  decided outcome is at the Registry or in the outbox; `RunningPodRemembered`;
  `FailedPodFreesSlot`.
* `gateway`: `FreshWhenIssued`, how old the membership behind a token may be;
  `NoAdmissionAfterLogout`: no token is handed out after a logout, not even by a
  token request under way, and nothing is admitted with one. Whatever was
  admitted before goes on.
* `operator`: `SnapshotCurrent`; `OpensAgree`; `HistoryMatchesDefinition`;
  `ReadsComplete`, the conjunction of what walks (`WalkComplete`), streams
  (`StreamComplete`) and the dashboard (`DashboardAddsUp`) promise.

The violated ones state what a comment or specification of the repository says;
`PROJECT.json` quotes it under `findings`.

### Bounds

* Two tasks are the least for FIFO order and ties, two Executors for rivalry and
  two teams for isolation. Three events are a task's whole log, and instants
  0..3 with two per stored instant give both equal and different stored times.
* Three sessions give a deadlock cycle, or a race of two with a third that
  commits in between. With three transactions each session runs at least one.
* Three tasks on two containers and two ports make a slot wait, be freed and
  its port be used again. Combining every fault with every task is too large,
  so `MCDockerExecutor` has one task with all faults and a restart, two tasks
  with a rival and SIGTERM, two with Docker failures, and three with none.
* `MCK8sExecutor` has one task with every crash point and lost call, three
  starts so that a crash can hit a recovery, two tasks that fail or crash
  together, and three that compete for two Pods.
* In `MCGateway` a membership may be one tick old and a token lives one tick, so
  three ticks see both age; two requests are a refresh that overtakes another.
* In `MCOperator` a behaviour keeps to definitions, tokens or reads, which share no
  state. Four edits are a definition, a secret and two changes to them. Every
  listing has rows that tie and rows of another team, and two writes can fall
  before, between and behind two pages of one row.
* Runs that end in states without a step do not check for deadlock: a process
  with no start left, sessions that have run their transactions, a walk that is
  done, a clock at its horizon.

### Fairness

`RegistryLocks`: a session that can go on does, and the detector finds every
deadlock (weak fairness of each session's steps). `DockerExecutor`: weak
fairness of each slot's goroutines, which Go schedules and whose calls all have
timeouts. OpenHands owes nobody an end, so a runner that reads the stream is fair
only once its context is cancelled or its container is gone. Nothing is
assumed of the poll loop, the environment or the process. `K8sExecutor`: weak
fairness of each Pod's monitor, for the same reason. `GatewaySessions`,
`LaunchParameters` and `OperatorReads` state safety only.

## Proofs

`StateRegistryProofs` proves, for all sets of teams, Executors, tasks, ids and
instants and for every resolution, the properties `TypeOK`, `StateProjectsLog`,
`LogTimesOrdered`, `ReadBackFollowsLog`, `TeamIsolation`, `EventRetryReplayed`,
`ClaimRetryReplayed`, `DiscoveryHeadClaimable`, `ControlProjectsLog` and the
refinement `ImplementsLifecycle`. The assumptions are those of `StateRegistry`: ids and
instants are naturals, the `created` event ids differ from each other and from
the Executors', the resolution is positive, and `Nil` is no identifier.

`TaskInv` is the inductive invariant. It conjoins typing, `StateProjectsLog`,
`LogStored` (every row of the log holds the sent instant in stored precision),
`LogTimesOrdered`, `ReadBackFollowsLog` and `TeamIsolation`; most of them are not
inductive alone. The order check compares a sent instant with stored ones, so
that stored times never go back needs `LogStored` and the monotonicity of
`Stored`; that the `created` event is in order needs the projection, by which
the log of a pending task is empty.
`TeamIsolation` needs the projection, since a task without events has no owner, and
read-back needs both the type and the order. Three lemmas, `ClaimEffect`,
`AppendEffect` and `OtherEffect`, reduce every action to what it does to the tasks
and their logs, so that each conjunct has three cases. `Division` and
`StoredIsEarlier` are the arithmetic of truncation. Retry theorems follow from
the invariant, as does refinement: each action maps to one abstract step or a
stutter. The control log has an invariant of its own. That discovery and the FIFO
probe agree needs only typing and that every set of naturals has a least element
(`LeastNatural`, from the well-foundedness of the order).

`LaunchParametersProofs` proves `HistoryMatchesDefinition` and `OpensAgree` for
all sets of definitions, secrets, tasks, Executors and keys (`LaunchConstants`).
`HistoryInv` adds to the first what the edits rely on: that rows have their
shape, that the revisions of a definition are numbered from 1 to its own without
a gap, that every stored secret belongs to a definition, and that no two active
definitions share a scope. `OpenInv` is behind the second: the
owner and the snapshot of a task are written only by the commit of a claim, and
a claim is open only while its task is pending, so neither is written twice.

The three Gateway modules prove `TypeOK`, `NoAdmissionAfterLogout` and
`FreshWhenIssued` for all sets of groups, teams, logins, requests and tokens and
all lifetimes (`GatewayConstants`). Four invariants carry them.

* `LoginInv`: the state of a login is consumed before its session is created,
  so a login with a state or a callback in flight has no session, and a callback
  in flight has no state left. A deleted session is never created again.
* `TypeInv`: a request in flight names a login and a team. `TypeOK` alone is not
  inductive, since a row is written with what the request carries.
* `GrantInv`: what a callback, a session or a refresh carries was granted by a
  group held no earlier than it says. It holds with every provider.
* `OrderInv`: with a provider that rotates refresh tokens at most one overlapping
  refresh of a session is answered before its result is stored, and it started
  after the one stored before it. So `observed_at` never goes back, and what was
  fresh when a request looked is fresh when its token is recorded; `IssueInv`
  says so of requests about to record and of tokens.

Each action is first reduced to the fields it writes (`BeginEffect`,
`RefreshEffect`, `ReplaceEffect`, ...).

Only model-checked: every property of
`RegistryLocks`, `DockerExecutor`, `K8sExecutor` and `OperatorReads`, of
`LaunchParameters` the type invariant and `SnapshotCurrent`, and everything
about liveness.

## Where the code does less than its documents say

Besides the `findings`, the models show these; the property named is the weaker
statement that holds.

* A row that commits behind the stream's position is never sent
  (`ui_stream.go:16`), though `openspec/specs/state-registry/spec.md:1241` wants a
  frame for each ingested task. `StreamComplete` is about rows a poll could see.
* A snapshot can mix values from before and after an edit
  (`launch_parameter_resolution.go:26`); `spec.md:1096` says "SHALL atomically
  freeze". `SnapshotCurrent` is exact only without a concurrent edit.
* An Executor whose `updated_at` changes during a walk is skipped
  (`ui_operator.go:331`); `qa-e2e/test-cases/v0006.29-all-filterable-views.md:38`
  says "no item is duplicated or skipped". `WalkComplete` leaves out rows that moved,
  and tasks that leave the period between two pages (`ui_operator.go:192`).
* A container whose start SIGTERM interrupts may run with no slot (`v0002.go:274`)
  until the next start kills it; `openspec/specs/executor/spec.md:126` says the
  Executor "removes all owned containers, and exits". `DrainLeavesNothing` is about
  containers of slots.
* With a provider that does not rotate refresh tokens a slow membership refresh
  overwrites a newer one (`httpapi/server.go:403`). `FreshWhenIssued` takes a
  rotating provider for its second part.
* An image that contains `@sha256:` and is not valid passes the handler and fails
  every claim (`store/executor.go:514`), and blocks the tasks behind it.
* A Kubernetes Executor that crashes after its terminal event was accepted and
  before the assignment is dropped decides the outcome again at the next start;
  the second terminal event is refused and stays in the outbox, and every later
  start fails on it (`v0002.go:622`). `OutcomeKept` holds all the same.

## Not modelled

HTTP decoding and status codes, configuration, logging, health probes, the
rendering of the Web UI, migrations as a process, encryption and signatures as
computations, and test code: they hold no state that other parts depend on, or
are pure I/O. Capacity observations and published logs are left out of both
Executors, since nothing there depends on them; the Registry's side of them is in
`OperatorReads` and `RegistryLocks`. Failing writes to the local cache are left
out: bbolt commits or the process has lost its disk. The composition of both
Executors with `StateRegistry` is out of TLC's reach; the Executors' modules have
the Registry's answers as `StateRegistry` gives them (`EventOK`, `Claimable`).
