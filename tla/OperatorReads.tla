---------------------------- MODULE OperatorReads ----------------------------
(***************************************************************************)
(* The reads of the State Registry that span several requests: listings    *)
(* walked page by page with a cursor, the event streams, the dashboard.    *)
(* Rows keep being committed and changed between two pages, between two    *)
(* polls of a stream and between the two statements of the dashboard.      *)
(*                                                                         *)
(* A row is abstracted to what the reads tell apart: its table, its id,    *)
(* its timestamp (or version, or offset), its team, its mark (the state or *)
(* text a filter names), its parent (the task, Executor, environment,      *)
(* secret, resource or tag it belongs to) and, of a task, the Executor     *)
(* that owns it.  Ids are numbers, 0 stands for NULL and for an absent     *)
(* filter.  The mark of a log chunk is its offset, that of a launch        *)
(* parameter definition its scope (1: team), that of a task its state      *)
(* (1: pending, 2: created, 3: running, 4: terminal), that of a control    *)
(* event the status (1: pending, 2: acknowledged, 3: completed or failed), *)
(* that of an Executor whether it is idle (1) or busy (2).  The owner of   *)
(* an Executor event is the task it is about.  The period of a query is    *)
(* its length in instants; only the tasks of a team are listed by period.  *)
(* A task has one control at most.  MACs are perfect.                      *)
(***************************************************************************)
EXTENDS Integers, FiniteSets, Sequences, DashboardCalendar
LOCAL INSTANCE FiniteSetsExt

CONSTANTS
    Fixtures,       \* the rows that exist from the start
    Arrivals,       \* the rows that may be committed
    Walks,          \* the listings an operator may walk: queries
    StreamTeams,    \* the teams an operator may stream
    StreamSurfaces, \* a subset of {"ui", "v1"}
    StreamLimit,    \* 100 in the code
    StreamGrace,    \* how far back a fresh browser starts, 5 s in the code
    DashboardRequests, \* [team, period, key, now]
    DashboardEpoch, \* the day of instant 0
    DayLength,      \* instants of a day
    MaxChanges,     \* changes of rows that exist
    MaxCursorKeys,  \* cursor keys that are ever made active
    MaxClock

Tables == {"task_types", "tasks", "audit_entries", "executors", "task_events",
           "control_events", "log_chunks", "executor_events", "environments",
           "secrets", "secret_versions"}
Rows == [table: Tables, id: Nat, at: Nat, team: Nat, mark: Nat, parent: Nat,
         owner: Nat]

SignedEndpoints == {"/admin/tags", "/admin/tasks", "/v1/tasks", "/v1/audit",
                    "/v1/environments", "/v1/secrets", "/v1/versions"}
UIEndpoints == {"/ui/tasks", "/ui/executors", "/ui/audit", "/ui/task-events",
                "/ui/executor-events", "/ui/executor-tasks", "/ui/logs"}
ReadQueries == [endpoint: SignedEndpoints \cup UIEndpoints, team: Nat, operator: Nat,
                mark: Nat, parent: Nat, period: Nat, limit: Nat \ {0}]

ASSUME ReadConstants ==
    /\ Fixtures \cup Arrivals \subseteq Rows
    /\ Walks \subseteq ReadQueries
    /\ \A q \in Walks : q.period # 0 => q.endpoint = "/ui/tasks"
    /\ StreamTeams \subseteq Nat /\ DashboardEpoch \in Nat /\ DayLength \in Nat \ {0}
    /\ \A d \in DashboardRequests : d.team \in Nat /\ d.now \in Nat
    /\ StreamSurfaces \subseteq {"ui", "v1"}
    /\ StreamLimit \in Nat \ {0} /\ StreamGrace \in Nat
    /\ MaxChanges \in Nat /\ MaxCursorKeys \in Nat \ {0} /\ MaxClock \in Nat \ {0}

VARIABLES
    rows,       \* the tables
    clock,
    changes,    \* number of changes of existing rows, bounded by MaxChanges
    cursorKeys, \* the cursor keyring: [active, keys]
    walk,       \* an operator's walk through a listing
    stream,     \* a browser and the connection that serves it
    dashboard   \* a dashboard request

tableVars == <<rows, clock, changes>>
readVars == <<tableVars, cursorKeys, walk, stream, dashboard>>

Name(r) == <<r.table, r.id>>
RowsOf(table) == {r \in rows : r.table = table}

----------------------------------------------------------------------------
(* Orderings: a key is a tuple compared component by component, and a      *)
(* descending order is the ascending order of the negated components.      *)

Precedes(p, q) ==
    \E i \in DOMAIN p : p[i] < q[i] /\ \A j \in 1..(i - 1) : p[j] = q[j]

Ascending(r) == <<r.at, r.id>>
Descending(r) == <<-r.at, -r.id>>
TagOrder(r) == <<r.team, r.parent, r.id>>
LogOrder(r) == <<r.mark>>

\* No two rows of a listing have the same key: the last component is unique.
Sorted(S, Key(_)) ==
    [i \in 1..Cardinality(S) |->
        CHOOSE r \in S : Cardinality({s \in S : Precedes(Key(s), Key(r))}) = i - 1]
Prefix(s, n) == SubSeq(s, 1, IF Len(s) < n THEN Len(s) ELSE n)

\* The rows past the cursor, <<>> being the first page's.
Past(S, Key(_), after) ==
    {r \in S : after = <<>> \/ Precedes(after, Key(r))}

\* limit + 1 rows are fetched; the last one only tells that there is a next page.
Page(S, Key(_), limit, after) ==
    LET fetched == Prefix(Sorted(Past(S, Key, after), Key), limit + 1)
        items == Prefix(fetched, limit)
    IN  [items |-> items,
         next |-> IF Len(fetched) <= limit THEN <<>> ELSE Key(items[limit])]

\* The log listing fetches limit rows and takes a full page for one that has a next.
LogPage(S, limit, after) ==
    LET items == Prefix(Sorted(Past(S, LogOrder, after), LogOrder), limit)
    IN  [items |-> items,
         next |-> IF Len(items) = limit THEN LogOrder(items[limit]) ELSE <<>>]

\* The definitions are fetched from the first one on, and those the cursor has
\* passed are dropped from what was fetched.
EnvironmentPage(S, limit, after) ==
    LET fetched == Prefix(Sorted(S, Ascending), limit + 1)
        left == SelectSeq(fetched, LAMBDA r : after = <<>> \/ Precedes(after, Ascending(r)))
        items == Prefix(left, limit)
    IN  [items |-> items,
         next |-> IF Len(left) <= limit THEN <<>> ELSE Ascending(items[limit])]

----------------------------------------------------------------------------
(* The rows each listing selects.                                          *)

Filtered(filter, value) == filter = 0 \/ filter = value

\* A team sees its own Executors and the system's whose tag one of its task types has.
UIVisible(team, e) ==
    \/ e.team = team
    \/ e.team = 0 /\ \E tt \in RowsOf("task_types") : tt.team = team /\ tt.parent = e.parent

ListTaskTypes(q, r) ==
    r.table = "task_types" /\ Filtered(q.team, r.team) /\ Filtered(q.parent, r.parent)

ListTasks(q, r) ==
    /\ r.table = "tasks"
    /\ Filtered(q.team, r.team) /\ Filtered(q.mark, r.mark) /\ Filtered(q.parent, r.parent)

\* A period ends with the request: it begins later for every page of a walk.
uiPeriod(q, now, r) == q.period = 0 \/ r.at >= now - q.period

ListUITasks(q, r) ==
    /\ r.table = "tasks" /\ r.team = q.team /\ Filtered(q.mark, r.mark)
    /\ uiPeriod(q, clock, r)

ListUIExecutorTasks(q, r) == ListUITasks(q, r) /\ r.owner = q.parent

ListAuditEntries(q, r) ==
    r.table = "audit_entries" /\ r.team = q.team /\ Filtered(q.parent, r.parent)

ListUIAudit(q, r) == r.table = "audit_entries" /\ r.team = q.team /\ Filtered(q.mark, r.mark)

ListUIExecutors(q, r) ==
    r.table = "executors" /\ UIVisible(q.team, r) /\ Filtered(q.mark, r.mark)

ListUITaskEvents(q, r) ==
    r.table \in {"task_events", "control_events"} /\ r.team = q.team /\ r.parent = q.parent

ListUIExecutorEvents(q, r) == r.table = "executor_events" /\ r.parent = q.parent

\* Mark 1 is the scope of the team: /v1/environments is that scope's older name.
ListLaunchParameters(q, r) == r.table = "environments" /\ r.team = q.team /\ r.mark = 1

ListSecretsPaged(q, r) == r.table = "secrets" /\ r.team = q.team /\ r.parent = q.parent

ListSecretVersionsPaged(q, r) ==
    r.table = "secret_versions" /\ r.team = q.team /\ r.parent = q.parent

ListTaskLogs(q, r) == r.table = "log_chunks" /\ r.team = q.team /\ r.parent = q.parent

Selects(q, r) ==
    CASE q.endpoint = "/admin/tags"                    -> ListTaskTypes(q, r)
      [] q.endpoint \in {"/admin/tasks", "/v1/tasks"}  -> ListTasks(q, r)
      [] q.endpoint = "/ui/tasks"                      -> ListUITasks(q, r)
      [] q.endpoint = "/ui/executor-tasks"             -> ListUIExecutorTasks(q, r)
      [] q.endpoint = "/v1/audit"                      -> ListAuditEntries(q, r)
      [] q.endpoint = "/ui/audit"                      -> ListUIAudit(q, r)
      [] q.endpoint = "/ui/executors"                  -> ListUIExecutors(q, r)
      [] q.endpoint = "/ui/task-events"                -> ListUITaskEvents(q, r)
      [] q.endpoint = "/ui/executor-events"            -> ListUIExecutorEvents(q, r)
      [] q.endpoint = "/v1/environments"               -> ListLaunchParameters(q, r)
      [] q.endpoint = "/v1/secrets"                    -> ListSecretsPaged(q, r)
      [] q.endpoint = "/v1/versions"                   -> ListSecretVersionsPaged(q, r)
      [] q.endpoint = "/ui/logs"                       -> ListTaskLogs(q, r)

Found(q) == {r \in rows : Selects(q, r)}

AscendingEndpoints == {"/ui/task-events", "/ui/executor-events", "/v1/environments",
                       "/v1/secrets", "/v1/versions"}

RowKey(q, r) ==
    CASE q.endpoint = "/admin/tags"          -> TagOrder(r)
      [] q.endpoint = "/ui/logs"             -> LogOrder(r)
      [] q.endpoint \in AscendingEndpoints   -> Ascending(r)
      [] OTHER                               -> Descending(r)

\* The resources in the path of the request are looked up first; 404 otherwise.
GetUITask(q) == \E t \in RowsOf("tasks") : t.id = q.parent /\ t.team = q.team

GetUIExecutor(q) == \E e \in RowsOf("executors") : e.id = q.parent /\ UIVisible(q.team, e)

verifyLaunchDefinitionForSecret(q, environment) ==
    \E d \in RowsOf("environments") : d.id = environment /\ d.team = q.team

----------------------------------------------------------------------------
(* Cursors.  Those of /v1 and /admin are signed and bound to the endpoint, *)
(* the caller and the filters; those of /ui hold the position only.        *)

AdminScope == <<"admin">>
GatewayScope(q) == <<"gateway", q.team, q.operator>>

Bound(q, scope, filters) == [endpoint |-> q.endpoint, scope |-> scope, filters |-> filters]

Encode(bound, after) == [key |-> cursorKeys.active, bound |-> bound, after |-> after]

Decode(bound, token) == token.key \in cursorKeys.keys /\ token.bound = bound

encodeUIAfter(after) == [after |-> after]

Refused == [ok |-> FALSE, items |-> <<>>, token |-> <<>>]

\* The answer to a request; token is <<>> in a request for the first page and in
\* the answer with the last.
SignedPage(bound, token, PageAfter(_)) ==
    LET page == PageAfter(IF token = <<>> THEN <<>> ELSE token.after)
    IN  IF token # <<>> /\ ~Decode(bound, token) THEN Refused
        ELSE [ok |-> TRUE, items |-> page.items,
              token |-> IF page.next = <<>> THEN <<>> ELSE Encode(bound, page.next)]

UIPage(token, PageAfter(_)) ==
    LET page == PageAfter(IF token = <<>> THEN <<>> ELSE token.after)
    IN  [ok |-> TRUE, items |-> page.items,
         token |-> IF page.next = <<>> THEN <<>> ELSE encodeUIAfter(page.next)]

----------------------------------------------------------------------------
(* The handlers.                                                           *)

listTags(q, token) ==
    SignedPage(Bound(q, AdminScope, <<q.team, q.parent>>), token,
        LAMBDA after : Page({r \in rows : ListTaskTypes(q, r)}, TagOrder, q.limit, after))

listAdminTasks(q, token) ==
    SignedPage(Bound(q, AdminScope, <<q.team, q.mark, q.parent>>), token,
        LAMBDA after : Page({r \in rows : ListTasks(q, r)}, Descending, q.limit, after))

listGatewayTasks(q, token) ==
    SignedPage(Bound(q, GatewayScope(q), <<q.team, q.mark, q.parent>>), token,
        LAMBDA after : Page({r \in rows : ListTasks(q, r)}, Descending, q.limit, after))

listAudit(q, token) ==
    SignedPage(Bound(q, GatewayScope(q), <<q.team, q.parent>>), token,
        LAMBDA after : Page({r \in rows : ListAuditEntries(q, r)}, Descending, q.limit, after))

listEnvironments(q, token) ==
    SignedPage(Bound(q, GatewayScope(q), <<q.team>>), token,
        LAMBDA after : EnvironmentPage({r \in rows : ListLaunchParameters(q, r)}, q.limit, after))

\* What the path names is looked up by the listing itself; 404 otherwise.
listSecrets(q, token) ==
    IF ~verifyLaunchDefinitionForSecret(q, q.parent) THEN Refused
    ELSE SignedPage(Bound(q, GatewayScope(q), <<q.team, q.parent>>), token,
            LAMBDA after : Page({r \in rows : ListSecretsPaged(q, r)}, Ascending, q.limit, after))

listVersions(q, token) ==
    IF ~\E s \in RowsOf("secrets") : /\ s.id = q.parent /\ s.team = q.team
                                      /\ verifyLaunchDefinitionForSecret(q, s.parent)
    THEN Refused
    ELSE SignedPage(Bound(q, GatewayScope(q), <<q.team, q.parent>>), token,
            LAMBDA after :
                Page({r \in rows : ListSecretVersionsPaged(q, r)}, Ascending, q.limit, after))

uiTasks(q, token) ==
    UIPage(token, LAMBDA after : Page({r \in rows : ListUITasks(q, r)}, Descending, q.limit, after))

uiExecutors(q, token) ==
    UIPage(token,
        LAMBDA after : Page({r \in rows : ListUIExecutors(q, r)}, Descending, q.limit, after))

uiAudit(q, token) ==
    UIPage(token, LAMBDA after : Page({r \in rows : ListUIAudit(q, r)}, Descending, q.limit, after))

uiTaskEvents(q, token) ==
    IF ~GetUITask(q) THEN Refused
    ELSE UIPage(token,
            LAMBDA after : Page({r \in rows : ListUITaskEvents(q, r)}, Ascending, q.limit, after))

uiExecutorEvents(q, token) ==
    IF ~GetUIExecutor(q) THEN Refused
    ELSE UIPage(token, LAMBDA after :
            Page({r \in rows : ListUIExecutorEvents(q, r)}, Ascending, q.limit, after))

uiExecutorTasks(q, token) ==
    IF ~GetUIExecutor(q) THEN Refused
    ELSE UIPage(token, LAMBDA after :
            Page({r \in rows : ListUIExecutorTasks(q, r)}, Descending, q.limit, after))

uiTaskLogs(q, token) ==
    IF ~GetUITask(q) THEN Refused
    ELSE UIPage(token, LAMBDA after : LogPage({r \in rows : ListTaskLogs(q, r)}, q.limit, after))

Answer(q, token) ==
    CASE q.endpoint = "/admin/tags"          -> listTags(q, token)
      [] q.endpoint = "/admin/tasks"         -> listAdminTasks(q, token)
      [] q.endpoint = "/v1/tasks"            -> listGatewayTasks(q, token)
      [] q.endpoint = "/v1/audit"            -> listAudit(q, token)
      [] q.endpoint = "/v1/environments"     -> listEnvironments(q, token)
      [] q.endpoint = "/v1/secrets"          -> listSecrets(q, token)
      [] q.endpoint = "/v1/versions"         -> listVersions(q, token)
      [] q.endpoint = "/ui/tasks"            -> uiTasks(q, token)
      [] q.endpoint = "/ui/executors"        -> uiExecutors(q, token)
      [] q.endpoint = "/ui/audit"            -> uiAudit(q, token)
      [] q.endpoint = "/ui/task-events"      -> uiTaskEvents(q, token)
      [] q.endpoint = "/ui/executor-events"  -> uiExecutorEvents(q, token)
      [] q.endpoint = "/ui/executor-tasks"   -> uiExecutorTasks(q, token)
      [] q.endpoint = "/ui/logs"             -> uiTaskLogs(q, token)

\* The Registry restarts with a new active key; the former ones still verify.
\* (It matters to a walk that holds a signed cursor.)
RotateCursorKey ==
    /\ walk.phase = "paging" /\ walk.query.endpoint \in SignedEndpoints
    /\ cursorKeys.active < MaxCursorKeys
    /\ cursorKeys' = [active |-> cursorKeys.active + 1,
                      keys |-> cursorKeys.keys \cup {cursorKeys.active + 1}]
    /\ UNCHANGED <<tableVars, walk, stream, dashboard>>

\* A former key is taken out of the configuration.
RetireCursorKey ==
    /\ walk.phase = "paging"
    /\ \E k \in cursorKeys.keys \ {cursorKeys.active} :
        cursorKeys' = [cursorKeys EXCEPT !.keys = @ \ {k}]
    /\ UNCHANGED <<tableVars, walk, stream, dashboard>>

----------------------------------------------------------------------------
(* A walk.  owed is a ghost: the rows found when the walk began that no    *)
(* write has since moved or taken out of the listing, and that have not    *)
(* left its period.                                                        *)

NoWalk == [phase |-> "none", query |-> <<>>, token |-> <<>>, returned |-> <<>>,
           owed |-> {}]

Turn(answer, w) ==
    IF ~answer.ok THEN [w EXCEPT !.phase = "refused"]
    ELSE [w EXCEPT !.phase = IF answer.token = <<>> THEN "done" ELSE "paging",
                   !.token = answer.token, !.returned = @ \o answer.items]

FirstPage ==
    /\ walk.phase = "idle"
    /\ walk' = Turn(Answer(walk.query, <<>>),
                    [walk EXCEPT !.owed = {Name(r) : r \in Found(walk.query)}])
    /\ UNCHANGED <<tableVars, cursorKeys, stream, dashboard>>

NextPage(q) ==
    /\ walk.phase = "paging"
    /\ walk' = Turn(Answer(q, walk.token), walk)
    /\ UNCHANGED <<tableVars, cursorKeys, stream, dashboard>>

\* The operator sends the cursor back with the same query ...
SameQuery == NextPage(walk.query)

\* ... or, on a surface with signed cursors, with other filters or as somebody else.
OtherQuery ==
    /\ walk.phase = "paging" /\ walk.query.endpoint \in SignedEndpoints
    /\ \E q \in Walks : q # walk.query /\ q.endpoint \in SignedEndpoints /\ NextPage(q)

----------------------------------------------------------------------------
(* The event streams.  The server keeps a position of its own and sends    *)
(* the frames of a batch one by one; the browser keeps the position of the *)
(* last frame it received and names it when it connects again.  A frame    *)
(* that is written and lost with the connection is one the server did not  *)
(* send: its position goes with the connection.  seen and known are        *)
(* ghosts: the frames past the position at the last poll, and those of     *)
(* them that the browser's position has since reached.                     *)

FrameTables(surface) ==
    IF surface = "ui" THEN {"tasks", "task_events", "control_events", "log_chunks"}
    ELSE {"task_events"}

\* frame_id is the kind of the frame, a colon and the row's id.
FrameRank == [control_events |-> 1, tasks |-> 2, task_events |-> 3, log_chunks |-> 4]
FrameKey(r) == <<r.at, FrameRank[r.table], r.id>>

Frames(s) == {r \in rows : r.table \in FrameTables(s.surface) /\ r.team = s.team}

\* Mutated: the position is an instant, without the frame.
FramesAfterInstant(s, after) ==
    Prefix(Sorted({r \in Frames(s) : r.at > after[1]}, FrameKey), StreamLimit)

ListUIStreamFrames(s, after) ==
    Prefix(Sorted(Past(Frames(s), FrameKey, after), FrameKey), StreamLimit)

NoStream == [surface |-> "none", team |-> 0, phase |-> "closed", pair |-> <<>>,
             after |-> <<>>, batch |-> <<>>, seen |-> {}, known |-> {}, received |-> <<>>]

\* The page of a team without a position, its stream not yet connected.
FreshPage(surface, team) == [NoStream EXCEPT !.surface = surface, !.team = team]

\* The position the page asks for; without one it starts a little in the past.
streamQuery(page) == IF page.pair # <<>> THEN page.pair ELSE <<clock - StreamGrace, 0, 0>>

\* What the page keeps of a frame.
onmessage(page, frame) == [page EXCEPT !.pair = FrameKey(frame), !.received = Append(@, frame)]

\* The /v1 stream starts at the instant of the upgrade, every time.
Connect ==
    /\ stream.surface # "none" /\ stream.phase = "closed"
    /\ LET page == IF stream.surface = "v1" THEN FreshPage("v1", stream.team) ELSE stream
           from == IF stream.surface = "v1" THEN <<clock, 0, 0>> ELSE streamQuery(page)
       IN  stream' = [page EXCEPT !.phase = "open", !.after = from, !.pair = from]
    /\ UNCHANGED <<tableVars, cursorKeys, walk, dashboard>>

Poll ==
    /\ stream.phase = "open" /\ stream.batch = <<>>
    /\ stream' = [stream EXCEPT
                    !.batch = ListUIStreamFrames(stream, stream.after),
                    !.seen = {r \in Frames(stream) : Precedes(stream.after, FrameKey(r))}]
    /\ stream'.batch # <<>>
    /\ UNCHANGED <<tableVars, cursorKeys, walk, dashboard>>

SendFrame ==
    /\ stream.phase = "open" /\ stream.batch # <<>>
    /\ LET frame == Head(stream.batch)
           reached == {r \in stream.seen : ~Precedes(FrameKey(frame), FrameKey(r))}
       IN  stream' = [onmessage(stream, frame) EXCEPT
                        !.batch = Tail(@), !.after = FrameKey(frame),
                        !.known = @ \cup {Name(r) : r \in reached}]
    /\ UNCHANGED <<tableVars, cursorKeys, walk, dashboard>>

\* A read or write error, the end of the working token or of the process.
Disconnect ==
    /\ stream.phase = "open"
    /\ stream' = [stream EXCEPT !.phase = "closed", !.batch = <<>>, !.after = <<>>,
                                !.seen = {}]
    /\ UNCHANGED <<tableVars, cursorKeys, walk, dashboard>>

SelectTeam(team) ==
    /\ stream.surface = "ui" /\ stream.team # team
    /\ stream' = FreshPage("ui", team)
    /\ UNCHANGED <<tableVars, cursorKeys, walk, dashboard>>

----------------------------------------------------------------------------
(* The dashboard: one statement counts the tasks of the window by state,   *)
(* the next one by day and state, with no snapshot common to both.         *)
(* disturbed is a ghost: a task was written between the two.               *)

TaskStates == 1..4

NoDashboard == [phase |-> "none", request |-> <<>>, window |-> NoWindow, counts |-> <<>>,
                days |-> <<>>, disturbed |-> FALSE]

\* The day of an instant, counted from the first day of the window.
BucketIndex(window, at) == DashboardEpoch + (at \div DayLength) - window.start

InWindow(d, state) ==
    {r \in RowsOf("tasks") : /\ r.team = d.request.team /\ r.mark = state
                             /\ BucketIndex(d.window, r.at) >= 0
                             /\ BucketIndex(d.window, r.at) < d.window.end - d.window.start}

GetUIDashboard ==
    /\ dashboard.phase = "idle"
    /\ LET request == dashboard.request
           window == uiDashboardWindow(request.period, request.key, request.now)
           d == [dashboard EXCEPT !.window = window]
       IN  dashboard' =
            IF window = NoWindow THEN [dashboard EXCEPT !.phase = "refused"]
            ELSE [d EXCEPT !.phase = "counted",
                           !.counts = [s \in TaskStates |-> Cardinality(InWindow(d, s))]]
    /\ UNCHANGED <<tableVars, cursorKeys, walk, stream>>

GetUIDashboardBuckets ==
    /\ dashboard.phase = "counted"
    /\ dashboard' =
        [dashboard EXCEPT
            !.phase = "done",
            !.days = [i \in buckets(dashboard.window) |->
                        [s \in TaskStates |->
                            Cardinality({r \in InWindow(dashboard, s) :
                                            BucketIndex(dashboard.window, r.at) = i})]]]
    /\ UNCHANGED <<tableVars, cursorKeys, walk, stream>>

----------------------------------------------------------------------------
(* The writes of other requests, while something is being read.            *)

ListedTables(endpoint) ==
    CASE endpoint = "/admin/tags"                                -> {"task_types"}
      [] endpoint \in {"/admin/tasks", "/v1/tasks", "/ui/tasks", "/ui/executor-tasks"}
                                                                 -> {"tasks"}
      [] endpoint \in {"/v1/audit", "/ui/audit"}                 -> {"audit_entries"}
      [] endpoint = "/ui/executors"                              -> {"executors", "task_types"}
      [] endpoint = "/ui/task-events"                            -> {"task_events", "control_events"}
      [] endpoint = "/ui/executor-events"                        -> {"executor_events"}
      [] endpoint = "/v1/environments"                           -> {"environments"}
      [] endpoint = "/v1/secrets"                                -> {"secrets"}
      [] endpoint = "/v1/versions"                               -> {"secret_versions"}
      [] endpoint = "/ui/logs"                                   -> {"log_chunks"}

\* The tables the operator is reading; a write elsewhere would go unnoticed.
ReadTables ==
    IF walk.phase \in {"idle", "paging"} THEN ListedTables(walk.query.endpoint)
    ELSE IF stream.surface # "none" THEN FrameTables(stream.surface)
    ELSE IF dashboard.phase \in {"idle", "counted"} THEN {"tasks"} ELSE {}

Fresh(r) == r \in Arrivals /\ Name(r) \notin {Name(s) : s \in rows}

StaysListed(q, r, s) == Name(r) = Name(s) /\ RowKey(q, r) = RowKey(q, s) /\ Selects(q, s)

\* old is replaced by new and the rows of added are inserted, in one transaction.
Commit(old, new, added) ==
    /\ changes < MaxChanges /\ \E r \in new \cup added : r.table \in ReadTables
    /\ changes' = changes + 1
    /\ rows' = (rows \ old) \cup new \cup added
    /\ walk' = [walk EXCEPT !.owed = {n \in @ :
                    \A r \in old : Name(r) = n => \E s \in new : StaysListed(walk.query, r, s)}]
    /\ dashboard' = [dashboard EXCEPT !.disturbed =
                        @ \/ /\ dashboard.phase = "counted"
                             /\ \E r \in old \cup new \cup added : r.table = "tasks"]
    /\ UNCHANGED <<clock, cursorKeys, stream>>

\* A row that a request only inserts.  The database stamps it with the instant its
\* transaction began, so it may commit behind later ones.
Insert(r, table) == r.table = table /\ Fresh(r) /\ r.at <= clock /\ Commit({}, {}, {r})

IngestTask(r) ==
    /\ Insert(r, "tasks")
    /\ \E tt \in RowsOf("task_types") : tt.team = r.team /\ tt.parent = r.parent

CreateTaskType(r) == Insert(r, "task_types")

\* The entry that a request leaves in the audit log.
AuditEntry(row, team, resource) ==
    [table |-> "audit_entries", id |-> 100 + row.id, at |-> clock, team |-> team,
     mark |-> 0, parent |-> resource, owner |-> 0]

\* The first version of a new secret comes with it.
AddSecret(r) ==
    /\ r.table = "secrets" /\ Fresh(r) /\ r.at <= clock
    /\ verifyLaunchDefinitionForSecret([team |-> r.team], r.parent)
    /\ Commit({}, {}, {r, [r EXCEPT !.table = "secret_versions", !.at = 1, !.parent = r.id],
                       AuditEntry(r, r.team, r.id)})

\* The next version of a secret; at is the version.
AddSecretVersion(secret, r) ==
    /\ r.table = "secret_versions" /\ Fresh(r)
    /\ r.parent = secret.id /\ r.team = secret.team
    /\ verifyLaunchDefinitionForSecret([team |-> r.team], secret.parent)
    /\ r.at = 1 + Max({v.at : v \in {v \in RowsOf("secret_versions") : v.parent = secret.id}})
    /\ Commit({}, {}, {r, AuditEntry(r, r.team, secret.id)})

\* The task's Executor answers its control.  The instant is the Executor's and
\* follows the control's last event.
AppendTaskControlEvent(t, event) ==
    /\ Fresh(event) /\ event.parent = t.id /\ event.team = t.team /\ t.owner # 0
    /\ LET before == {c \in RowsOf("control_events") : c.parent = t.id}
       IN  /\ event.mark = Max({c.mark : c \in before} \cup {0}) + 1 /\ event.mark \in {2, 3}
           /\ \A c \in before : Precedes(Ascending(c), Ascending(event))
    /\ Commit({}, {}, {event, AuditEntry(event, t.team, t.id)})

ClaimTask(t, e) ==
    /\ t.owner = 0 /\ e.parent = t.parent /\ e.team \in {0, t.team}
    /\ Commit({t}, {[t EXCEPT !.mark = 2, !.owner = e.id]},
              {[table |-> "task_events", id |-> 50 + t.id, at |-> clock, team |-> t.team,
                mark |-> 0, parent |-> t.id, owner |-> 0]})

\* The instant of an event is its sender's; it follows the task's last event.
AppendTaskEvent(t, event) ==
    /\ Fresh(event) /\ event.parent = t.id /\ event.team = t.team
    /\ t.mark \in {2, 3}
    /\ \A f \in RowsOf("task_events") : f.parent = t.id => Precedes(Ascending(f), Ascending(event))
    /\ Commit({t}, {[t EXCEPT !.mark = @ + 1]}, {event, AuditEntry(event, t.team, event.id)})

AppendTaskLog(t, chunk) ==
    /\ Fresh(chunk) /\ chunk.parent = t.id /\ chunk.team = t.team
    /\ t.mark \in {2, 3}
    /\ LET offsets == {c.mark : c \in {c \in RowsOf("log_chunks") : c.parent = t.id}}
       IN  Commit({}, {}, {[chunk EXCEPT !.mark = Max(offsets \cup {0}) + 1]})

\* An observation is mirrored on the Executor's row, whatever its instant is: a
\* running count (mark 1 or 2) shows, a capacity (3) only touches the row, and
\* any other event (0) is not mirrored.  The audit entry of a system Executor's
\* event has the team of the task it is about.
AppendExecutorEvent(e, event) ==
    LET about == {t \in RowsOf("tasks") : t.id = event.owner /\ e.team \in {0, t.team}}
        team == IF e.team # 0 \/ about = {} THEN e.team ELSE (CHOOSE t \in about : TRUE).team
        mirror == [e EXCEPT !.at = clock, !.mark = IF event.mark = 3 THEN @ ELSE event.mark]
        added == {event, AuditEntry(event, team, event.id)}
    IN  /\ Fresh(event) /\ event.parent = e.id /\ event.team = e.team
        /\ event.owner # 0 => about # {}
        /\ IF event.mark = 0 THEN Commit({}, {}, added) ELSE Commit({e}, {mirror}, added)

TickClock ==
    /\ ReadTables # {} /\ clock < MaxClock
    /\ clock' = clock + 1
    /\ walk' = [walk EXCEPT !.owed = {n \in @ :
                    \A r \in rows : Name(r) = n => uiPeriod(walk.query, clock', r)}]
    /\ UNCHANGED <<rows, changes, cursorKeys, stream, dashboard>>

----------------------------------------------------------------------------
\* One operator reads: a walk, a stream or the dashboard.
ReadsInit ==
    /\ rows = Fixtures /\ clock = 1 /\ changes = 0
    /\ cursorKeys = [active |-> 1, keys |-> {1}]
    /\ \/ /\ walk \in {[NoWalk EXCEPT !.phase = "idle", !.query = q] : q \in Walks}
          /\ stream = NoStream /\ dashboard = NoDashboard
       \/ /\ stream \in {FreshPage(s, team) : s \in StreamSurfaces, team \in StreamTeams}
          /\ walk = NoWalk /\ dashboard = NoDashboard
       \/ /\ dashboard \in {[NoDashboard EXCEPT !.phase = "idle", !.request = d] :
                                d \in DashboardRequests}
          /\ walk = NoWalk /\ stream = NoStream

ReadsNext ==
    \/ FirstPage \/ SameQuery \/ OtherQuery \/ RotateCursorKey \/ RetireCursorKey
    \/ Connect \/ Poll \/ SendFrame \/ Disconnect
    \/ \E team \in StreamTeams : SelectTeam(team)
    \/ GetUIDashboard \/ GetUIDashboardBuckets
    \/ \E r \in Arrivals :
        \/ IngestTask(r) \/ CreateTaskType(r) \/ AddSecret(r)
    \/ \E secret \in RowsOf("secrets"), r \in Arrivals : AddSecretVersion(secret, r)
    \/ \E t \in RowsOf("tasks"), e \in RowsOf("executors") : ClaimTask(t, e)
    \/ \E t \in RowsOf("tasks"), r \in Arrivals :
        \/ r.table = "task_events" /\ AppendTaskEvent(t, r)
        \/ r.table = "control_events" /\ AppendTaskControlEvent(t, r)
        \/ r.table = "log_chunks" /\ AppendTaskLog(t, r)
    \/ \E e \in RowsOf("executors"), r \in Arrivals :
        r.table = "executor_events" /\ AppendExecutorEvent(e, r)
    \/ TickClock

ReadsSpec == ReadsInit /\ [][ReadsNext]_readVars

----------------------------------------------------------------------------
(* Properties.                                                             *)

\* Rows have their columns and every id is used once in its table; a walk holds
\* a cursor exactly while it has pages left.
ReadsTypeOK ==
    /\ rows \subseteq Rows
    /\ \A r, s \in rows : Name(r) = Name(s) => r = s
    /\ clock \in 1..MaxClock /\ changes \in 0..MaxChanges
    /\ cursorKeys.active \in cursorKeys.keys /\ cursorKeys.keys \subseteq 1..MaxCursorKeys
    /\ walk.phase \in {"none", "idle", "paging", "done", "refused"}
    /\ walk.phase = "paging" => walk.token # <<>>
    /\ stream.phase \in {"open", "closed"} /\ Len(stream.batch) <= StreamLimit
    /\ dashboard.phase \in {"none", "idle", "counted", "done", "refused"}

Names(s) == {Name(s[i]) : i \in DOMAIN s}

\* A walk returns no row twice and only rows of the team it was begun for (of
\* Executors and their events also the system's), and when it ends it has returned
\* every row found at its start that no write has moved or taken out of the listing
\* and that is still in the period asked for, whatever was committed between its
\* pages and whatever instants tie.  A signed cursor may also be sent with another
\* query of the signed listings; those of /ui are sent with the query they are for,
\* to which nothing binds them.
WalkComplete ==
    /\ Cardinality(Names(walk.returned)) = Len(walk.returned)
    /\ \A i \in DOMAIN walk.returned :
        LET r == walk.returned[i]
        IN  /\ IF r.table \in {"executors", "executor_events"}
               THEN r.team \in {0, walk.query.team}
               ELSE Filtered(walk.query.team, r.team)
            /\ Filtered(walk.query.parent,
                        IF walk.query.endpoint = "/ui/executor-tasks" THEN r.owner ELSE r.parent)
    /\ walk.phase = "done" => walk.owed \subseteq Names(walk.returned)

\* The frames a browser receives are its team's and strictly increase over all its
\* connections, none twice; a frame that could be read when the server polled is
\* received before the browser's position passes it, also when the batch was full,
\* instants tie or the connection broke in the middle of a batch.
StreamComplete ==
    /\ \A i \in DOMAIN stream.received :
        /\ stream.received[i].team = stream.team
        /\ i > 1 => Precedes(FrameKey(stream.received[i - 1]), FrameKey(stream.received[i]))
    /\ stream.known \subseteq Names(stream.received)

\* The current week or month always has a window, and it contains today; unless a
\* task was written between the two statements, the days of the window add up to
\* the counts by state.
DashboardAddsUp ==
    LET d == dashboard
        total(s) == MapThenSumSet(LAMBDA i : d.days[i][s], DOMAIN d.days)
    IN  /\ d.phase = "refused" => d.request.key # <<>>
        /\ d.phase = "counted" /\ d.request.key = <<>> =>
                d.window.start <= d.request.now /\ d.request.now < d.window.end
        /\ d.phase = "done" /\ ~d.disturbed =>
                \A s \in TaskStates : total(s) = d.counts[s]

\* What an operator reads over several requests is complete, in order and without
\* repetition: pages of a listing (Page), frames of a stream (ListUIStreamFrames)
\* over reconnections, and the two statements of the dashboard.
ReadsComplete == WalkComplete /\ StreamComplete /\ DashboardAddsUp
=============================================================================
