-------------------------- MODULE GatewaySessions --------------------------
(***************************************************************************)
(* The API Gateway's sessions (svc/api-gateway): OIDC login, the teams an  *)
(* operator has access to as derived from the provider's membership claim, *)
(* working tokens for one team, the check of every proxied request, and    *)
(* WebSockets.  Requests of one operator run concurrently; each step is a  *)
(* statement or transaction on the Gateway's database, or a call to the    *)
(* provider.  Time passes between any two steps.                           *)
(*                                                                         *)
(* Ids, hashes, signatures and encryption are perfect: a session is named  *)
(* by the login it came from, a token by a number.  Team names and         *)
(* archived_at are presentation and left out.                              *)
(***************************************************************************)
EXTENDS Integers, FiniteSets

CONSTANTS
    Groups,    \* oidc_team_id values of the membership claim
    Teams,     \* team_id values
    Logins,    \* state values of logins
    Requests,  \* token requests that can be in flight at once
    Tokens,    \* jti values, numbers handed out in order
    StateTTL,
    SessionTTL,
    MembershipMaxAge,
    TokenTTL,
    Scopes,    \* bounds: groups and teams that occur, logins, concurrent requests,
               \* proxied requests and sockets of a token, horizon of the clock
    MaxRefreshTokens,  \* refresh tokens the provider gives out for a login
    None

ASSUME GatewayConstants ==
    /\ None \notin Teams \cup Logins
    /\ Tokens \subseteq Nat
    /\ StateTTL \in Nat \ {0} /\ SessionTTL \in Nat \ {0} /\ TokenTTL \in Nat \ {0}
    /\ MembershipMaxAge \in Nat
    /\ MaxRefreshTokens \in Nat
    /\ Scopes \subseteq [groups: SUBSET Groups, teams: SUBSET Teams, logins: Nat,
                           requests: Nat, proxied: 0..1, horizon: Nat]

VARIABLES
    scope,        \* the bounds of this behaviour
    now,
    members,      \* the provider: groups the operator is in
    held,         \* held[g]: ticks during which the operator was in g at some moment
    rotating,     \* whether the provider replaces the refresh token at every use
    refresh,      \* the last refresh token of each login, counted
    mappings,     \* table oidc_team_mappings: the team of a group
    pending,      \* Flow.pending: expiry of the logins that were started
    callbacks,    \* callbacks in flight, by login
    sessions,     \* table oidc_sessions with the derived access
    requests,     \* POST /auth/v1/token in flight
    tokens,       \* working tokens handed out
    records,      \* table working_token_records
    served,       \* served[j]: a request proxied with token j
    sockets       \* sockets[j]: a WebSocket of token j

provider == <<members, held, rotating, refresh>>
database == <<mappings, sessions, records>>
clients == <<tokens, served, sockets>>
vars == <<scope, now, provider, database, pending, callbacks, requests, clients>>

NoCallback == [at |-> "none", groups |-> {}, asked |-> 0, token |-> 0]
NoSession == [state |-> "none", access |-> {}, observed |-> 0, lag |-> 0, expires |-> 0,
              token |-> 0]
NoRequest == [at |-> "none", session |-> None, team |-> None, start |-> 0, groups |-> {},
              token |-> 0, lag |-> 0]
NoToken == [session |-> None, team |-> None, expires |-> 0, since |-> 0]

Init ==
    /\ scope \in Scopes
    /\ now = 0
    /\ members \in SUBSET scope.groups
    /\ held = [g \in Groups |-> IF g \in members THEN {0} ELSE {}]
    /\ rotating \in BOOLEAN
    /\ refresh = [l \in Logins |-> 0]
    /\ mappings = [g \in Groups |-> None]
    /\ pending = [l \in Logins |-> -1]
    /\ callbacks = [l \in Logins |-> NoCallback]
    /\ sessions = [l \in Logins |-> NoSession]
    /\ requests = [r \in Requests |-> NoRequest]
    /\ tokens = [j \in Tokens |-> NoToken]
    /\ records = {}
    /\ served = [j \in Tokens |-> "none"]
    /\ sockets = [j \in Tokens |-> "none"]

-----------------------------------------------------------------------------
(***************************************************************************)
(* Time, and the provider's membership.                                    *)
(***************************************************************************)
Tick ==
    /\ now < scope.horizon
    /\ now' = now + 1
    /\ held' = [g \in Groups |-> IF g \in members THEN held[g] \cup {now + 1} ELSE held[g]]
    /\ UNCHANGED <<scope, members, rotating, refresh, database, pending, callbacks, requests, clients>>

Join(g) ==
    /\ g \in scope.groups \ members
    /\ members' = members \cup {g}
    /\ held' = [held EXCEPT ![g] = @ \cup {now}]
    /\ UNCHANGED <<scope, now, rotating, refresh, database, pending, callbacks, requests, clients>>

Leave(g) ==
    /\ g \in members
    /\ members' = members \ {g}
    /\ UNCHANGED <<scope, now, held, rotating, refresh, database, pending, callbacks, requests, clients>>

(***************************************************************************)
(* POST /admin/v1/oidc-team-mappings.  Both columns are unique; the same   *)
(* mapping again, and a conflicting one, insert nothing.                   *)
(***************************************************************************)
MappingFree(g, team) == mappings[g] = None /\ \A h \in Groups : mappings[h] # team

RegisterOverwrites(g, team) ==
    /\ mappings[g] = None /\ g \in scope.groups
    /\ mappings' = [mappings EXCEPT ![g] = team]
    /\ UNCHANGED <<scope, now, provider, sessions, records, pending, callbacks, requests, clients>>

RegisterMapping(g, team) ==
    /\ g \in scope.groups
    /\ MappingFree(g, team)
    /\ mappings' = [mappings EXCEPT ![g] = team]
    /\ UNCHANGED <<scope, now, provider, sessions, records, pending, callbacks, requests, clients>>

(***************************************************************************)
(* The INSERT ... SELECT that derives the access from an observation.      *)
(***************************************************************************)
DeriveAccess(groups) == {mappings[g] : g \in groups} \ {None}

-----------------------------------------------------------------------------
(***************************************************************************)
(* Login.  Start also drops the logins that have expired.                  *)
(***************************************************************************)
Unused(l) == pending[l] = -1 /\ callbacks[l].at = "none" /\ sessions[l].state = "none"

StartLogin(l) ==
    /\ Unused(l)
    /\ Cardinality({k \in Logins : ~Unused(k)}) < scope.logins
    /\ pending' = [k \in Logins |-> IF k = l THEN now + StateTTL
                                    ELSE IF pending[k] > now THEN pending[k] ELSE -1]
    /\ UNCHANGED <<scope, now, provider, database, callbacks, requests, clients>>

(***************************************************************************)
(* Complete: the state is consumed first, whatever comes of it.            *)
(***************************************************************************)
Consume(l) ==
    /\ pending[l] # -1
    /\ pending' = [pending EXCEPT ![l] = -1]
    /\ callbacks' = IF pending[l] > now
                    THEN [callbacks EXCEPT ![l] = [NoCallback EXCEPT !.at = "exchange",
                                                                     !.asked = now]]
                    ELSE callbacks
    /\ UNCHANGED <<scope, now, provider, database, requests, clients>>

(***************************************************************************)
(* The provider exchanges the code and states the groups.                  *)
(***************************************************************************)
Exchange(l) ==
    /\ callbacks[l].at = "exchange"
    /\ refresh[l] < MaxRefreshTokens
    /\ refresh' = [refresh EXCEPT ![l] = @ + 1]
    /\ callbacks' = [callbacks EXCEPT ![l].at = "create", ![l].groups = members,
                                      ![l].token = refresh[l] + 1]
    /\ UNCHANGED <<scope, now, members, held, rotating, database, pending, requests, clients>>

(***************************************************************************)
(* SessionStore.Create, with observed_at read after the exchange.          *)
(***************************************************************************)
CreateSession(l) ==
    /\ callbacks[l].at = "create"
    /\ sessions' = [sessions EXCEPT ![l] =
         [state |-> "live", access |-> DeriveAccess(callbacks[l].groups), observed |-> now,
          lag |-> now - callbacks[l].asked, expires |-> now + SessionTTL,
          token |-> callbacks[l].token]]
    /\ callbacks' = [callbacks EXCEPT ![l] = NoCallback]
    /\ UNCHANGED <<scope, now, provider, mappings, records, pending, requests, clients>>

CallbackFails(l) ==
    /\ callbacks[l].at # "none"
    /\ callbacks' = [callbacks EXCEPT ![l] = NoCallback]
    /\ UNCHANGED <<scope, now, provider, database, pending, requests, clients>>

(***************************************************************************)
(* DELETE /auth/v1/session.  The token records go with the session.        *)
(***************************************************************************)
Logout(l) ==
    /\ sessions[l].state = "live"
    /\ sessions' = [sessions EXCEPT ![l] = [NoSession EXCEPT !.state = "deleted"]]
    /\ records' = {j \in records : tokens[j].session # l}
    /\ UNCHANGED <<scope, now, provider, mappings, pending, callbacks, requests, clients>>

-----------------------------------------------------------------------------
(***************************************************************************)
(* POST /auth/v1/token: refreshMembership, TokenContext, Sign, RecordToken.*)
(* It starts by reading the session; a fresh enough observation is taken.  *)
(***************************************************************************)
Live(l) == sessions[l].state = "live" /\ sessions[l].expires > now

AlwaysFresh(l) == MembershipMaxAge > 0
FreshEnough(l) == MembershipMaxAge > 0 /\ now - sessions[l].observed <= MembershipMaxAge

BeginToken(r, l, team) ==
    /\ requests[r].at = "none"
    /\ Cardinality({q \in Requests : requests[q].at # "none"}) < scope.requests
    /\ Live(l)
    /\ requests' = [requests EXCEPT ![r] =
         [NoRequest EXCEPT !.at = IF FreshEnough(l) THEN "context" ELSE "refresh",
                           !.session = l, !.team = team, !.start = now,
                           !.token = sessions[l].token]]
    /\ UNCHANGED <<scope, now, provider, database, pending, callbacks, clients>>

(***************************************************************************)
(* Flow.Refresh.  A provider that rotates refuses a token used before.     *)
(***************************************************************************)
RefreshAtProvider(r) ==
    LET l == requests[r].session
    IN /\ requests[r].at = "refresh"
       /\ rotating => requests[r].token = refresh[l] /\ refresh[l] < MaxRefreshTokens
       /\ refresh' = IF rotating THEN [refresh EXCEPT ![l] = @ + 1] ELSE refresh
       /\ requests' = [requests EXCEPT ![r].at = "replace", ![r].groups = members,
                                       ![r].token = refresh'[l]]
       /\ UNCHANGED <<scope, now, members, held, rotating, database, pending, callbacks, clients>>

(***************************************************************************)
(* ReplaceMembership: one transaction under the lock of the session row.   *)
(* observed_at is the instant read before the provider was asked.          *)
(***************************************************************************)
ReplaceMembership(r) ==
    LET l == requests[r].session
    IN /\ requests[r].at = "replace"
       /\ sessions[l].state = "live"
       /\ sessions' = [sessions EXCEPT ![l] =
            [@ EXCEPT !.access = DeriveAccess(requests[r].groups),
                      !.observed = requests[r].start, !.lag = 0, !.token = requests[r].token]]
       /\ requests' = [requests EXCEPT ![r].at = "context"]
       /\ UNCHANGED <<scope, now, provider, mappings, records, pending, callbacks, clients>>

AccessibleTeams(l) == IF Live(l) THEN sessions[l].access ELSE {}

TokenContext(r) ==
    LET l == requests[r].session
    IN /\ requests[r].at = "context"
       /\ requests[r].team \in AccessibleTeams(l)
       /\ requests' = [requests EXCEPT ![r].at = "record", ![r].lag = sessions[l].lag]
       /\ UNCHANGED <<scope, now, provider, database, pending, callbacks, clients>>

(***************************************************************************)
(* Sign and RecordToken, whose foreign key needs the session row.  The     *)
(* answer carries the token.  since is not stored: the token is good as of *)
(* this instant by the freshness rule, less the time the login took.       *)
(***************************************************************************)
NewToken(r) ==
    [session |-> requests[r].session, team |-> requests[r].team, expires |-> now + TokenTTL,
     since |-> requests[r].start - MembershipMaxAge - requests[r].lag]

RecordTokenAnyway(r, j) ==
    /\ requests[r].at = "record"
    /\ tokens[j] = NoToken
    /\ \A i \in Tokens : i < j => tokens[i] # NoToken
    /\ tokens' = [tokens EXCEPT ![j] = NewToken(r)]
    /\ records' = records \cup {j}
    /\ requests' = [requests EXCEPT ![r] = NoRequest]
    /\ UNCHANGED <<scope, now, provider, mappings, sessions, pending, callbacks, served, sockets>>

RecordToken(r, j) ==
    /\ requests[r].at = "record"
    /\ tokens[j] = NoToken
    /\ \A i \in Tokens : i < j => tokens[i] # NoToken
    /\ sessions[requests[r].session].state = "live"
    /\ tokens' = [tokens EXCEPT ![j] = NewToken(r)]
    /\ records' = records \cup {j}
    /\ requests' = [requests EXCEPT ![r] = NoRequest]
    /\ UNCHANGED <<scope, now, provider, mappings, sessions, pending, callbacks, served, sockets>>

(***************************************************************************)
(* Any step may be refused or fail: the request ends with an error.        *)
(***************************************************************************)
RequestFails(r) ==
    /\ requests[r].at # "none"
    /\ requests' = [requests EXCEPT ![r] = NoRequest]
    /\ UNCHANGED <<scope, now, provider, database, pending, callbacks, clients>>

-----------------------------------------------------------------------------
(***************************************************************************)
(* authenticateWorkingToken: the token itself, then its record joined with *)
(* the session and the access as they are now.                             *)
(***************************************************************************)
ValidateTokenAccess(j) ==
    /\ j \in records
    /\ tokens[j].team \in AccessibleTeams(tokens[j].session)

Verify(j) == tokens[j].expires > now

Authenticated(j) == Verify(j) /\ ValidateTokenAccess(j)

(***************************************************************************)
(* proxyREST authenticates, then forwards: whatever happens in between, a  *)
(* request that was admitted goes to the Registry, whose answer or failure *)
(* ends it.                                                                *)
(***************************************************************************)
ProxyREST(j) ==
    /\ Authenticated(j)
    /\ served[j] = "none" /\ scope.proxied > 0
    /\ served' = [served EXCEPT ![j] = "admitted"]
    /\ UNCHANGED <<scope, now, provider, database, pending, callbacks, requests, tokens, sockets>>

ForwardREST(j) ==
    /\ served[j] = "admitted"
    /\ served' = [served EXCEPT ![j] = "ended"]
    /\ UNCHANGED <<scope, now, provider, database, pending, callbacks, requests, tokens, sockets>>

(***************************************************************************)
(* A WebSocket is authenticated when it is asked for; then the Registry is *)
(* dialed and the client's connection upgraded.  A frame for the client is *)
(* written under clientWrite, which the expiry needs for its close         *)
(* message; a write waits for the client to read.                          *)
(***************************************************************************)
ProxyWebSocket(j) ==
    /\ Authenticated(j)
    /\ sockets[j] = "none" /\ scope.proxied > 0
    /\ sockets' = [sockets EXCEPT ![j] = "admitted"]
    /\ UNCHANGED <<scope, now, provider, database, pending, callbacks, requests, tokens, served>>

DialRegistry(j) ==
    /\ sockets[j] = "admitted"
    /\ sockets' = [sockets EXCEPT ![j] = "dialed"]
    /\ UNCHANGED <<scope, now, provider, database, pending, callbacks, requests, tokens, served>>

Upgrade(j) ==
    /\ sockets[j] = "dialed"
    /\ sockets' = [sockets EXCEPT ![j] = "open"]
    /\ UNCHANGED <<scope, now, provider, database, pending, callbacks, requests, tokens, served>>

CopyFrame(j) ==
    /\ sockets[j] \in {"open", "writing"}
    /\ sockets' = [sockets EXCEPT ![j] = IF @ = "open" THEN "writing" ELSE "open"]
    /\ UNCHANGED <<scope, now, provider, database, pending, callbacks, requests, tokens, served>>

CloseSocket(j) ==
    /\ sockets[j] \in {"admitted", "dialed", "open", "writing"}
    /\ sockets' = [sockets EXCEPT ![j] = "closed"]
    /\ UNCHANGED <<scope, now, provider, database, pending, callbacks, requests, tokens, served>>

ExpireSocket(j) ==
    /\ sockets[j] = "open"
    /\ tokens[j].expires <= now
    /\ sockets' = [sockets EXCEPT ![j] = "closed"]
    /\ UNCHANGED <<scope, now, provider, database, pending, callbacks, requests, tokens, served>>

(***************************************************************************)
(* The Gateway restarts: the database stays, logins that were started and  *)
(* whatever was in flight are gone.                                        *)
(***************************************************************************)
Restart ==
    /\ pending' = [l \in Logins |-> -1]
    /\ callbacks' = [l \in Logins |-> NoCallback]
    /\ requests' = [r \in Requests |-> NoRequest]
    /\ served' = [j \in Tokens |-> IF served[j] = "none" THEN "none" ELSE "ended"]
    /\ sockets' = [j \in Tokens |-> IF sockets[j] = "none" THEN "none" ELSE "closed"]
    /\ UNCHANGED <<scope, now, provider, database, tokens>>

-----------------------------------------------------------------------------
ProxyStep(j) ==
    \/ ProxyREST(j)
    \/ ForwardREST(j)
    \/ ProxyWebSocket(j)
    \/ DialRegistry(j)
    \/ Upgrade(j)
    \/ CopyFrame(j)
    \/ CloseSocket(j)
    \/ ExpireSocket(j)

Next ==
    \/ Tick
    \/ Restart
    \/ \E g \in Groups : Join(g) \/ Leave(g) \/ \E team \in scope.teams : RegisterMapping(g, team)
    \/ \E l \in Logins :
         \/ StartLogin(l)
         \/ Consume(l)
         \/ Exchange(l)
         \/ CreateSession(l)
         \/ CallbackFails(l)
         \/ Logout(l)
    \/ \E r \in Requests :
         \/ \E l \in Logins, team \in scope.teams : BeginToken(r, l, team)
         \/ RefreshAtProvider(r)
         \/ ReplaceMembership(r)
         \/ TokenContext(r)
         \/ \E j \in Tokens : RecordToken(r, j)
         \/ RequestFails(r)
    \/ \E j \in Tokens : ProxyStep(j)

Spec == Init /\ [][Next]_vars

-----------------------------------------------------------------------------
TypeOK ==
    /\ scope \in Scopes
    /\ now \in 0..scope.horizon
    /\ members \subseteq Groups
    /\ held \in [Groups -> SUBSET (0..now)]
    /\ rotating \in BOOLEAN
    /\ refresh \in [Logins -> 0..MaxRefreshTokens]
    /\ mappings \in [Groups -> Teams \cup {None}]
    /\ \A g, h \in Groups : mappings[g] = mappings[h] => g = h \/ mappings[g] = None
    /\ pending \in [Logins -> Int]
    /\ callbacks \in [Logins -> [at: {"none", "exchange", "create"}, groups: SUBSET Groups,
                                 asked: 0..now, token: 0..MaxRefreshTokens]]
    /\ sessions \in [Logins -> [state: {"none", "live", "deleted"}, access: SUBSET Teams,
                                observed: 0..now, lag: 0..now, expires: Nat, token: 0..MaxRefreshTokens]]
    /\ requests \in [Requests -> [at: {"none", "refresh", "replace", "context", "record"},
                                  session: Logins \cup {None}, team: Teams \cup {None},
                                  start: 0..now, groups: SUBSET Groups, token: 0..MaxRefreshTokens,
                                  lag: 0..now]]
    /\ tokens \in [Tokens -> [session: Logins \cup {None}, team: Teams \cup {None},
                              expires: Nat, since: Int]]
    /\ records \subseteq Tokens
    /\ served \in [Tokens -> {"none", "admitted", "ended"}]
    /\ sockets \in [Tokens -> {"none", "admitted", "dialed", "open", "writing", "closed"}]

(***************************************************************************)
(* The operator was in a group of this team at some tick from since on.    *)
(***************************************************************************)
Held(team, since) ==
    \E g \in Groups : mappings[g] = team /\ \E tick \in held[g] : tick >= since

(***************************************************************************)
(* Every team a session gives access to was granted by the provider no     *)
(* earlier than the session claims to have observed it (for the            *)
(* observation of the login, no earlier than the callback began), and a    *)
(* working token is issued only for a team that the provider granted       *)
(* within MembershipMaxAge before the token request.  The latter takes a   *)
(* provider that rotates refresh tokens: without, a slow refresh can       *)
(* overwrite a later one.                                                  *)
(***************************************************************************)
FreshWhenIssued ==
    /\ \A l \in Logins : \A team \in sessions[l].access :
         Held(team, sessions[l].observed - sessions[l].lag)
    /\ rotating => \A j \in Tokens : tokens[j] # NoToken => Held(tokens[j].team, tokens[j].since)

(***************************************************************************)
(* After a logout the session stays deleted, no token of it is handed out, *)
(* not even by token requests that were under way, and neither a request   *)
(* nor a WebSocket with one is admitted.  What was admitted before is not  *)
(* called back: a request may still be forwarded, a WebSocket still be     *)
(* dialed, upgraded and used until its token expires.                      *)
(***************************************************************************)
NoAdmissionAfterLogout ==
    [][\A l \in Logins : sessions[l].state = "deleted" =>
         /\ sessions'[l] = sessions[l]
         /\ \A j \in Tokens : tokens'[j].session = l =>
              /\ tokens[j] = tokens'[j]
              /\ served'[j] # "none" => served[j] # "none"
              /\ sockets'[j] # "none" => sockets[j] # "none"]_vars
=============================================================================
