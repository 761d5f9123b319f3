----------------------- MODULE GatewaySessionsProofs -----------------------
(***************************************************************************)
(* Proofs about GatewaySessions for any number of groups, teams, logins,   *)
(* token requests in flight, working tokens and lifetimes.                 *)
(***************************************************************************)
EXTENDS GatewaySessions, TLAPS

(***************************************************************************)
(* The inductive invariant: a login that is not finished has no session    *)
(* yet.  The state of a login is consumed before its session is created,   *)
(* so that no callback can create a session a second time, not even after  *)
(* the first was deleted.                                                  *)
(***************************************************************************)
LoginInv ==
    /\ pending = [l \in Logins |-> pending[l]]
    /\ callbacks = [l \in Logins |-> callbacks[l]]
    /\ sessions = [l \in Logins |-> sessions[l]]
    /\ tokens = [j \in Tokens |-> tokens[j]]
    /\ served = [j \in Tokens |-> served[j]]
    /\ sockets = [j \in Tokens |-> sockets[j]]
    /\ \A l \in Logins :
         /\ "at" \in DOMAIN callbacks[l]
         /\ pending[l] # -1 \/ callbacks[l].at # "none" => sessions[l].state = "none"
         /\ callbacks[l].at # "none" => pending[l] = -1

\* A step of the proxy changes nothing but the request or the WebSocket it is about.
LEMMA ProxyFrame ==
    ASSUME NEW j \in Tokens, ProxyStep(j)
    PROVE  /\ scope' = scope /\ now' = now
           /\ members' = members /\ held' = held /\ rotating' = rotating /\ refresh' = refresh
           /\ mappings' = mappings /\ sessions' = sessions /\ records' = records
           /\ pending' = pending /\ callbacks' = callbacks /\ requests' = requests
           /\ tokens' = tokens
<1>1. /\ scope' = scope /\ now' = now /\ UNCHANGED provider /\ UNCHANGED database
      /\ pending' = pending /\ callbacks' = callbacks /\ requests' = requests /\ tokens' = tokens
  BY Zenon DEF ProxyStep, ProxyREST, ForwardREST, ProxyWebSocket, DialRegistry, Upgrade, CopyFrame,
               CloseSocket, ExpireSocket
<1> QED
  BY <1>1 DEF provider, database

\* No callback is in flight where NoCallback stands.
LEMMA NoCallbackIdle == NoCallback.at = "none" /\ "at" \in DOMAIN NoCallback
  BY DEF NoCallback

\* The invariant holds when the Gateway first starts.
LEMMA LoginInit == Init => LoginInv
  BY NoCallbackIdle DEF Init, LoginInv, NoSession

(***************************************************************************)
(* The steps of a login and of a session.                                  *)
(***************************************************************************)
LoginStep(l) ==
    \/ StartLogin(l)
    \/ Consume(l)
    \/ Exchange(l)
    \/ CreateSession(l)
    \/ CallbackFails(l)
    \/ Logout(l)

\* Each of them keeps the invariant and leaves deleted sessions alone.
LEMMA LoginStepKeeps ==
    ASSUME LoginInv, NEW l \in Logins, LoginStep(l)
    PROVE  /\ pending' = [k \in Logins |-> pending'[k]]
           /\ callbacks' = [k \in Logins |-> callbacks'[k]]
           /\ sessions' = [k \in Logins |-> sessions'[k]]
           /\ \A k \in Logins :
                /\ "at" \in DOMAIN callbacks'[k]
                /\ pending'[k] # -1 \/ callbacks'[k].at # "none" => sessions'[k].state = "none"
                /\ callbacks'[k].at # "none" => pending'[k] = -1
                /\ sessions[k].state = "deleted" => sessions'[k] = sessions[k]
<1>1. CASE StartLogin(l)
  <2>1. callbacks' = callbacks /\ sessions' = sessions /\ sessions[l].state = "none"
        /\ callbacks[l].at = "none"
    BY <1>1 DEF StartLogin, Unused, database
  <2>2. pending' = [k \in Logins |-> IF k = l THEN now + StateTTL
                                     ELSE IF pending[k] > now THEN pending[k] ELSE -1]
    BY <1>1 DEF StartLogin
  <2>3. \A k \in Logins \ {l} : pending'[k] \in {pending[k], -1}
    BY <2>2
  <2> QED
    BY <2>1, <2>2, <2>3 DEF LoginInv
<1>2. CASE Consume(l)
  <2>1. /\ sessions' = sessions /\ sessions[l].state = "none"
        /\ pending' = [pending EXCEPT ![l] = -1]
    BY <1>2 DEF Consume, database, LoginInv
  <2> DEFINE c == [NoCallback EXCEPT !.at = "exchange", !.asked = now]
  <2>2. callbacks' = [callbacks EXCEPT ![l] = c] \/ callbacks' = callbacks
    BY <1>2 DEF Consume
  <2>3. "at" \in DOMAIN c
    BY DEF NoCallback
  <2> HIDE DEF c
  <2> QED
    BY <2>1, <2>2, <2>3 DEF LoginInv
<1>3. CASE Exchange(l)
  <2>1. /\ sessions' = sessions /\ pending' = pending
        /\ callbacks[l].at = "exchange" /\ sessions[l].state = "none"
    BY <1>3 DEF Exchange, database, LoginInv
  <2>2. callbacks' = [callbacks EXCEPT ![l].at = "create", ![l].groups = members,
                                       ![l].token = refresh[l] + 1]
    BY <1>3 DEF Exchange
  <2>3. /\ callbacks' = [k \in Logins |-> callbacks'[k]]
        /\ \A k \in Logins \ {l} : callbacks'[k] = callbacks[k]
        /\ "at" \in DOMAIN callbacks'[l]
    BY <2>2, Zenon DEF LoginInv
  <2> QED
    BY <2>1, <2>3 DEF LoginInv
<1>4. CASE CreateSession(l)
  <2>1. /\ pending' = pending /\ sessions[l].state = "none"
        /\ callbacks' = [callbacks EXCEPT ![l] = NoCallback]
        /\ pending[l] = -1
    BY <1>4 DEF CreateSession, LoginInv
  <2>2. PICK s : sessions' = [sessions EXCEPT ![l] = s]
    BY <1>4, Zenon DEF CreateSession
  <2> QED
    BY <2>1, <2>2, NoCallbackIdle, Zenon DEF LoginInv
<1>5. CASE CallbackFails(l)
  <2>1. /\ pending' = pending /\ sessions' = sessions
        /\ callbacks' = [callbacks EXCEPT ![l] = NoCallback]
    BY <1>5 DEF CallbackFails, database
  <2> QED
    BY <2>1, NoCallbackIdle DEF LoginInv
<1>6. CASE Logout(l)
  <2>1. pending' = pending /\ callbacks' = callbacks /\ sessions[l].state = "live"
    BY <1>6 DEF Logout
  <2>2. PICK s : sessions' = [sessions EXCEPT ![l] = s]
    BY <1>6, Zenon DEF Logout
  <2> QED
    BY <2>1, <2>2 DEF LoginInv
<1> QED
  BY <1>1, <1>2, <1>3, <1>4, <1>5, <1>6 DEF LoginStep

(***************************************************************************)
(* Every other step of the Gateway leaves unfinished logins alone or drops *)
(* them, and writes a session only while it is live.                       *)
(***************************************************************************)
LEMMA OtherStepKeeps ==
    ASSUME LoginInv, [Next]_vars, \A l \in Logins : ~LoginStep(l)
    PROVE  /\ pending' = [k \in Logins |-> pending'[k]]
           /\ callbacks' = [k \in Logins |-> callbacks'[k]]
           /\ sessions' = [k \in Logins |-> sessions'[k]]
           /\ \A k \in Logins :
                /\ "at" \in DOMAIN callbacks'[k]
                /\ pending'[k] # -1 \/ callbacks'[k].at # "none" => sessions'[k].state = "none"
                /\ callbacks'[k].at # "none" => pending'[k] = -1
                /\ sessions[k].state = "deleted" => sessions'[k] = sessions[k]
<1>1. CASE pending' = pending /\ callbacks' = callbacks /\ sessions' = sessions
  BY <1>1 DEF LoginInv
<1>2. ASSUME NEW r \in Requests, ReplaceMembership(r)
      PROVE  /\ pending' = pending /\ callbacks' = callbacks
             /\ \E l, s : sessions[l].state = "live" /\ sessions' = [sessions EXCEPT ![l] = s]
  BY <1>2, Zenon DEF ReplaceMembership
<1>3. CASE /\ pending' = pending /\ callbacks' = callbacks
           /\ \E l, s : sessions[l].state = "live" /\ sessions' = [sessions EXCEPT ![l] = s]
  <2>1. PICK l, s : sessions[l].state = "live" /\ sessions' = [sessions EXCEPT ![l] = s]
    BY <1>3, Zenon
  <2>2. sessions' = [k \in Logins |-> sessions'[k]]
    BY <2>1 DEF LoginInv
  <2>3. \A k \in Logins : k # l => sessions'[k] = sessions[k]
    BY <2>1 DEF LoginInv
  <2> QED
    BY <1>3, <2>1, <2>2, <2>3 DEF LoginInv
<1>4. CASE Restart
  <2>1. /\ pending' = [l \in Logins |-> -1] /\ callbacks' = [l \in Logins |-> NoCallback]
        /\ sessions' = sessions
    BY <1>4 DEF Restart, database
  <2> QED
    BY <2>1, NoCallbackIdle DEF LoginInv
<1>5. ASSUME \/ Tick
             \/ \E g \in Groups : Join(g) \/ Leave(g)
                                  \/ \E team \in scope.teams : RegisterMapping(g, team)
      PROVE  pending' = pending /\ callbacks' = callbacks /\ sessions' = sessions
  BY <1>5 DEF Tick, Join, Leave, RegisterMapping, database
<1>6. ASSUME NEW r \in Requests,
             \/ \E l \in Logins, team \in scope.teams : BeginToken(r, l, team)
             \/ RefreshAtProvider(r)
             \/ TokenContext(r)
             \/ \E j \in Tokens : RecordToken(r, j)
             \/ RequestFails(r)
      PROVE  pending' = pending /\ callbacks' = callbacks /\ sessions' = sessions
  BY <1>6, Zenon DEF BeginToken, RefreshAtProvider, TokenContext, RecordToken, RequestFails, database
<1>7. ASSUME NEW j \in Tokens, ProxyStep(j)
      PROVE  pending' = pending /\ callbacks' = callbacks /\ sessions' = sessions
  BY <1>7, ProxyFrame, Zenon
<1>8. ASSUME UNCHANGED vars
      PROVE  pending' = pending /\ callbacks' = callbacks /\ sessions' = sessions
  BY <1>8 DEF vars, database
<1> QED
  BY <1>1, <1>2, <1>3, <1>4, <1>5, <1>6, <1>7, <1>8 DEF Next, LoginStep

(***************************************************************************)
(* A step admits nothing with a token of a session that is not live, and   *)
(* hands out no such token.                                                *)
(***************************************************************************)
NothingAdmitted(j) ==
    \/ sessions[tokens'[j].session].state = "live"
    \/ /\ tokens'[j] = tokens[j]
       /\ served'[j] # "none" => served[j] # "none"
       /\ sockets'[j] # "none" => sockets[j] # "none"

\* It holds of every step: all checks of a token look at the session row.
LEMMA TokenStep ==
    ASSUME LoginInv, [Next]_vars
    PROVE  /\ tokens' = [j \in Tokens |-> tokens'[j]]
           /\ served' = [j \in Tokens |-> served'[j]]
           /\ sockets' = [j \in Tokens |-> sockets'[j]]
           /\ \A j \in Tokens : NothingAdmitted(j)
<1>1. CASE tokens' = tokens /\ served' = served /\ sockets' = sockets
  BY <1>1 DEF LoginInv, NothingAdmitted
<1>2. ASSUME NEW r \in Requests, NEW j \in Tokens, RecordToken(r, j)
      PROVE  /\ tokens' = [tokens EXCEPT ![j] = NewToken(r)]
             /\ sessions[NewToken(r).session].state = "live"
             /\ served' = served /\ sockets' = sockets
  BY <1>2 DEF RecordToken, NewToken
<1>3. ASSUME NEW j \in Tokens, Authenticated(j)
      PROVE  sessions[tokens[j].session].state = "live"
  BY <1>3, Zenon DEF Authenticated, ValidateTokenAccess, AccessibleTeams, Live
<1>4. ASSUME NEW j \in Tokens, ProxyREST(j) \/ ForwardREST(j)
      PROVE  /\ sockets' = sockets /\ \E n : served' = [served EXCEPT ![j] = n]
             /\ sessions[tokens[j].session].state = "live" \/ served[j] # "none"
  BY <1>3, <1>4, Zenon DEF ProxyREST, ForwardREST
<1>5. ASSUME NEW j \in Tokens,
             \/ ProxyWebSocket(j) \/ DialRegistry(j) \/ Upgrade(j)
             \/ CopyFrame(j) \/ CloseSocket(j) \/ ExpireSocket(j)
      PROVE  /\ served' = served /\ \E s : sockets' = [sockets EXCEPT ![j] = s]
             /\ sessions[tokens[j].session].state = "live" \/ sockets[j] # "none"
  <2>1. CASE ProxyWebSocket(j)
    BY <1>3, <2>1, Zenon DEF ProxyWebSocket
  <2>2. CASE DialRegistry(j) \/ Upgrade(j)
    BY <2>2, Zenon DEF DialRegistry, Upgrade
  <2>3. CASE CopyFrame(j) \/ CloseSocket(j) \/ ExpireSocket(j)
    BY <2>3 DEF CopyFrame, CloseSocket, ExpireSocket
  <2> QED
    BY <1>5, <2>1, <2>2, <2>3, Zenon
<1>6. ASSUME NEW j \in Tokens, NEW token, tokens' = [tokens EXCEPT ![j] = token],
             sessions[token.session].state = "live", served' = served, sockets' = sockets
      PROVE  /\ tokens' = [i \in Tokens |-> tokens'[i]]
             /\ \A i \in Tokens : NothingAdmitted(i)
  BY <1>6, Zenon DEF LoginInv, NothingAdmitted
<1>7. ASSUME NEW j \in Tokens, NEW n, served' = [served EXCEPT ![j] = n],
             sessions[tokens[j].session].state = "live" \/ served[j] # "none",
             tokens' = tokens, sockets' = sockets
      PROVE  /\ served' = [i \in Tokens |-> served'[i]]
             /\ \A i \in Tokens : NothingAdmitted(i)
  BY <1>7, Zenon DEF LoginInv, NothingAdmitted
<1>8. ASSUME NEW j \in Tokens, NEW s, sockets' = [sockets EXCEPT ![j] = s],
             sessions[tokens[j].session].state = "live" \/ sockets[j] # "none",
             tokens' = tokens, served' = served
      PROVE  /\ sockets' = [i \in Tokens |-> sockets'[i]]
             /\ \A i \in Tokens : NothingAdmitted(i)
  BY <1>8, Zenon DEF LoginInv, NothingAdmitted
<1>9. CASE Restart
  <2>1. /\ tokens' = tokens
        /\ served' = [j \in Tokens |-> IF served[j] = "none" THEN "none" ELSE "ended"]
        /\ sockets' = [j \in Tokens |-> IF sockets[j] = "none" THEN "none" ELSE "closed"]
    BY <1>9 DEF Restart
  <2> QED
    BY <2>1 DEF LoginInv, NothingAdmitted
<1>10. ASSUME \/ Tick
              \/ \E g \in Groups : Join(g) \/ Leave(g)
                                   \/ \E team \in scope.teams : RegisterMapping(g, team)
       PROVE  tokens' = tokens /\ served' = served /\ sockets' = sockets
  BY <1>10 DEF Tick, Join, Leave, RegisterMapping, clients
<1>11. ASSUME NEW r \in Requests,
              \/ \E l \in Logins, team \in scope.teams : BeginToken(r, l, team)
              \/ RefreshAtProvider(r)
              \/ ReplaceMembership(r)
              \/ TokenContext(r)
              \/ RequestFails(r)
       PROVE  tokens' = tokens /\ served' = served /\ sockets' = sockets
  BY <1>11, Zenon DEF BeginToken, RefreshAtProvider, ReplaceMembership, TokenContext, RequestFails,
               clients
<1>12. ASSUME NEW l \in Logins, LoginStep(l)
       PROVE  tokens' = tokens /\ served' = served /\ sockets' = sockets
  BY <1>12 DEF LoginStep, StartLogin, Consume, Exchange, CreateSession, CallbackFails, Logout,
               clients
<1>13. ASSUME UNCHANGED vars
       PROVE  tokens' = tokens /\ served' = served /\ sockets' = sockets
  BY <1>13 DEF vars, clients
<1>14. ASSUME NEW r \in Requests, NEW j \in Tokens, RecordToken(r, j)
       PROVE  /\ tokens' = [i \in Tokens |-> tokens'[i]] /\ served' = served
              /\ sockets' = sockets /\ \A i \in Tokens : NothingAdmitted(i)
  BY <1>2, <1>6, <1>14
<1>15. ASSUME NEW j \in Tokens, ProxyStep(j)
       PROVE  /\ tokens' = tokens
              /\ served' = [i \in Tokens |-> served'[i]]
              /\ sockets' = [i \in Tokens |-> sockets'[i]]
              /\ \A i \in Tokens : NothingAdmitted(i)
  <2>1. tokens' = tokens
    BY <1>15, ProxyFrame, Zenon
  <2>2. CASE ProxyREST(j) \/ ForwardREST(j)
    BY <1>4, <1>7, <2>1, <2>2, Zenon DEF LoginInv
  <2>3. CASE \/ ProxyWebSocket(j) \/ DialRegistry(j) \/ Upgrade(j)
             \/ CopyFrame(j) \/ CloseSocket(j) \/ ExpireSocket(j)
    BY <1>5, <1>8, <2>1, <2>3, Zenon DEF LoginInv
  <2> QED
    BY <1>15, <2>2, <2>3, Zenon DEF ProxyStep
<1> QED
  BY <1>1, <1>9, <1>10, <1>11, <1>12, <1>13, <1>14, <1>15 DEF Next, LoginStep, LoginInv

\* Every step of the Gateway keeps the invariant.
LEMMA LoginInvStep == LoginInv /\ [Next]_vars => LoginInv'
  BY LoginStepKeeps, OtherStepKeeps, TokenStep DEF LoginInv

(***************************************************************************)
(* After DELETE /auth/v1/session the session's row never comes back, no    *)
(* token of it is handed out by a token request that was under way         *)
(* (RecordToken), and authenticateWorkingToken admits neither a request    *)
(* nor a WebSocket with one (ValidateTokenAccess).  What it admitted       *)
(* before the logout is still forwarded.                                   *)
(***************************************************************************)
THEOREM LogoutFinal == Spec => NoAdmissionAfterLogout
<1> DEFINE Quiet ==
      \A l \in Logins : sessions[l].state = "deleted" =>
         /\ sessions'[l] = sessions[l]
         /\ \A j \in Tokens : tokens'[j].session = l =>
              /\ tokens[j] = tokens'[j]
              /\ served'[j] # "none" => served[j] # "none"
              /\ sockets'[j] # "none" => sockets[j] # "none"
<1>1. LoginInv /\ [Next]_vars => Quiet
  <2> SUFFICES ASSUME LoginInv, [Next]_vars, NEW l \in Logins, sessions[l].state = "deleted"
               PROVE  /\ sessions'[l] = sessions[l]
                      /\ \A j \in Tokens : tokens'[j].session = l =>
                           /\ tokens[j] = tokens'[j]
                           /\ served'[j] # "none" => served[j] # "none"
                           /\ sockets'[j] # "none" => sockets[j] # "none"
    OBVIOUS
  <2>1. sessions'[l] = sessions[l]
    BY LoginStepKeeps, OtherStepKeeps
  <2>2. \A j \in Tokens : NothingAdmitted(j)
    BY TokenStep
  <2> QED
    BY <2>1, <2>2 DEF NothingAdmitted
<1>2. LoginInv /\ [Next]_vars => [Quiet]_vars
  BY <1>1
<1> HIDE DEF Quiet
<1>3. Spec => [][Quiet]_vars
  BY <1>2, LoginInit, LoginInvStep, PTL DEF Spec
<1> QED
  BY <1>3 DEF Quiet, NoAdmissionAfterLogout

-----------------------------------------------------------------------------
(***************************************************************************)
(* Types.  A request in flight also has a session and a team, without      *)
(* which the type is not inductive.                                        *)
(***************************************************************************)
CallbackRow ==
    [at: {"none", "exchange", "create"}, groups: SUBSET Groups, asked: 0..now,
     token: 0..MaxRefreshTokens]

SessionRow ==
    [state: {"none", "live", "deleted"}, access: SUBSET Teams, observed: 0..now, lag: 0..now,
     expires: Nat, token: 0..MaxRefreshTokens]

RequestRow ==
    [at: {"none", "refresh", "replace", "context", "record"}, session: Logins \cup {None},
     team: Teams \cup {None}, start: 0..now, groups: SUBSET Groups,
     token: 0..MaxRefreshTokens, lag: 0..now]

TokenRow == [session: Logins \cup {None}, team: Teams \cup {None}, expires: Nat, since: Int]

ClockType == scope \in Scopes /\ now \in 0..scope.horizon

ProviderType ==
    /\ members \subseteq Groups
    /\ held \in [Groups -> SUBSET (0..now)]
    /\ rotating \in BOOLEAN
    /\ refresh \in [Logins -> 0..MaxRefreshTokens]

MappingType ==
    /\ mappings \in [Groups -> Teams \cup {None}]
    /\ \A g, h \in Groups : mappings[g] = mappings[h] => g = h \/ mappings[g] = None

LoginType == pending \in [Logins -> Int] /\ callbacks \in [Logins -> CallbackRow]

SessionType == sessions \in [Logins -> SessionRow]

RequestType ==
    /\ requests \in [Requests -> RequestRow]
    /\ \A r \in Requests : requests[r].at # "none" =>
         requests[r].session \in Logins /\ requests[r].team \in Teams

ClientType ==
    /\ tokens \in [Tokens -> TokenRow]
    /\ records \subseteq Tokens
    /\ served \in [Tokens -> {"none", "admitted", "ended"}]
    /\ sockets \in [Tokens -> {"none", "admitted", "dialed", "open", "writing", "closed"}]

TypeInv ==
    /\ ClockType /\ ProviderType /\ MappingType /\ LoginType /\ SessionType /\ RequestType
    /\ ClientType

(***************************************************************************)
(* What the bounds of a behaviour are.                                     *)
(***************************************************************************)
LEMMA ScopeTyped ==
    ASSUME ClockType
    PROVE  /\ now \in Nat /\ scope.horizon \in Nat /\ scope.teams \subseteq Teams
           /\ scope.groups \subseteq Groups /\ scope.proxied \in 0..1
  BY GatewayConstants DEF ClockType

\* Rows that do not exist have the type of their table.
LEMMA EmptyRowsTyped ==
    ASSUME now \in Nat
    PROVE  /\ NoRequest \in RequestRow /\ NoSession \in SessionRow
           /\ NoToken \in TokenRow /\ NoCallback \in CallbackRow
  BY GatewayConstants
     DEF NoRequest, RequestRow, NoSession, SessionRow, NoToken, TokenRow, NoCallback, CallbackRow

\* Every variable has its type when the Gateway first starts.
LEMMA TypeInit == Init => TypeInv
<1> SUFFICES ASSUME Init PROVE TypeInv
  OBVIOUS
<1>1. ClockType
  BY GatewayConstants DEF Init, ClockType
<1>2. now = 0 /\ now \in Nat /\ scope.groups \subseteq Groups
  BY <1>1, ScopeTyped DEF Init
<1>3. ProviderType
  BY <1>2, GatewayConstants DEF Init, ProviderType
<1>4. MappingType
  BY DEF Init, MappingType
<1>5. LoginType
  BY <1>2, EmptyRowsTyped DEF Init, LoginType
<1>6. SessionType
  BY <1>2, EmptyRowsTyped DEF Init, SessionType
<1>7. RequestType
  <2>1. NoRequest.at = "none"
    BY DEF NoRequest
  <2> QED
    BY <1>2, <2>1, EmptyRowsTyped DEF Init, RequestType
<1>8. ClientType
  BY <1>2, EmptyRowsTyped DEF Init, ClientType
<1> QED
  BY <1>1, <1>3, <1>4, <1>5, <1>6, <1>7, <1>8 DEF TypeInv

(***************************************************************************)
(* As long as the clock stands still what is not written keeps its type.   *)
(***************************************************************************)
LEMMA TypeKept ==
    ASSUME TypeInv, now' = now
    PROVE  /\ CallbackRow' = CallbackRow /\ SessionRow' = SessionRow
           /\ RequestRow' = RequestRow /\ TokenRow' = TokenRow
           /\ scope' = scope => ClockType'
           /\ UNCHANGED provider => ProviderType'
           /\ mappings' = mappings => MappingType'
           /\ pending' = pending /\ callbacks' = callbacks => LoginType'
           /\ sessions' = sessions => SessionType'
           /\ requests' = requests => RequestType'
           /\ records' = records /\ UNCHANGED clients => ClientType'
<1>1. /\ CallbackRow' = CallbackRow /\ SessionRow' = SessionRow
      /\ RequestRow' = RequestRow /\ TokenRow' = TokenRow
  BY DEF CallbackRow, SessionRow, RequestRow, TokenRow
<1>2. scope' = scope => ClockType'
  BY DEF TypeInv, ClockType
<1>3. UNCHANGED provider => ProviderType'
  BY DEF TypeInv, ProviderType, provider
<1>4. mappings' = mappings => MappingType'
  BY DEF TypeInv, MappingType
<1>5. pending' = pending /\ callbacks' = callbacks => LoginType'
  BY <1>1 DEF TypeInv, LoginType
<1>6. sessions' = sessions => SessionType'
  BY <1>1 DEF TypeInv, SessionType
<1>7. requests' = requests => RequestType'
  BY <1>1 DEF TypeInv, RequestType
<1>8. records' = records /\ UNCHANGED clients => ClientType'
  BY <1>1 DEF TypeInv, ClientType, clients
<1> QED
  BY <1>1, <1>2, <1>3, <1>4, <1>5, <1>6, <1>7, <1>8

\* Every step but the clock's leaves the clock and the bounds alone.
LEMMA ClockKept == Next => Tick \/ (now' = now /\ scope' = scope)
  BY ProxyFrame, Zenon
     DEF Next, Restart, Join, Leave, RegisterMapping, StartLogin, Consume, Exchange,
         CreateSession, CallbackFails, Logout, BeginToken, RefreshAtProvider, ReplaceMembership,
         TokenContext, RecordToken, RequestFails

\* The clock only goes forward, and what was observed stays in the past.
LEMMA TickTyped == TypeInv /\ Tick => TypeInv'
<1> SUFFICES ASSUME TypeInv, Tick PROVE TypeInv'
  OBVIOUS
<1>1. now \in Nat /\ now' = now + 1 /\ scope.horizon \in Nat /\ 0..now \subseteq 0..now'
  BY ScopeTyped DEF TypeInv, Tick
<1>2. /\ CallbackRow \subseteq CallbackRow' /\ SessionRow \subseteq SessionRow'
      /\ RequestRow \subseteq RequestRow' /\ TokenRow' = TokenRow
  BY <1>1 DEF CallbackRow, SessionRow, RequestRow, TokenRow
<1>3. ClockType'
  BY <1>1 DEF Tick, TypeInv, ClockType
<1>4. ProviderType'
  <2>1. \A g \in Groups : held[g] \cup {now + 1} \subseteq 0..now' /\ held[g] \subseteq 0..now'
    BY <1>1 DEF TypeInv, ProviderType
  <2> QED
    BY <2>1 DEF Tick, TypeInv, ProviderType
<1>5. MappingType'
  BY DEF Tick, TypeInv, MappingType, database
<1>6. LoginType'
  BY <1>2 DEF Tick, TypeInv, LoginType
<1>7. SessionType'
  BY <1>2 DEF Tick, TypeInv, SessionType, database
<1>8. RequestType'
  BY <1>2 DEF Tick, TypeInv, RequestType
<1>9. ClientType'
  BY <1>2 DEF Tick, TypeInv, ClientType, clients, database
<1> QED
  BY <1>3, <1>4, <1>5, <1>6, <1>7, <1>8, <1>9 DEF TypeInv

\* The derived access are teams.
LEMMA DerivedTyped ==
    ASSUME MappingType, NEW groups \in SUBSET Groups
    PROVE  DeriveAccess(groups) \in SUBSET Teams
  BY DEF MappingType, DeriveAccess

\* Joins, departures, mappings and the restart keep the type.
LEMMA EnvironmentTyped ==
    ASSUME TypeInv, NEW g \in Groups,
           Join(g) \/ Leave(g) \/ \E team \in scope.teams : RegisterMapping(g, team)
    PROVE  TypeInv'
<1>1. now \in Nat /\ scope.teams \subseteq Teams
  BY ScopeTyped DEF TypeInv
<1>2. CASE Join(g)
  <2>1. ProviderType'
    <3>1. held[g] \cup {now} \in SUBSET (0..now)
      BY <1>1 DEF TypeInv, ProviderType
    <3> QED
      BY <1>2, <3>1 DEF Join, TypeInv, ProviderType
  <2> QED
    BY <1>2, <2>1, TypeKept DEF Join, TypeInv, database
<1>3. CASE Leave(g)
  <2>1. ProviderType'
    BY <1>3 DEF Leave, TypeInv, ProviderType
  <2> QED
    BY <1>3, <2>1, TypeKept DEF Leave, TypeInv, database
<1>4. ASSUME NEW team \in scope.teams, RegisterMapping(g, team) PROVE TypeInv'
  <2>1. MappingType'
    <3>1. team \in Teams /\ mappings' = [mappings EXCEPT ![g] = team]
          /\ \A h \in Groups : mappings[h] # team
      BY <1>1, <1>4 DEF RegisterMapping, MappingFree
    <3> QED
      BY <3>1 DEF TypeInv, MappingType
  <2> QED
    BY <1>4, <2>1, TypeKept DEF RegisterMapping, TypeInv
<1> QED
  BY <1>2, <1>3, <1>4

\* A restart leaves rows and requests of their types.
LEMMA RestartTyped == TypeInv /\ Restart => TypeInv'
<1> SUFFICES ASSUME TypeInv, Restart PROVE TypeInv'
  OBVIOUS
<1>1. now \in Nat /\ now' = now /\ scope' = scope
  BY ScopeTyped DEF TypeInv, Restart
<1>2. LoginType'
  BY <1>1, EmptyRowsTyped, TypeKept DEF Restart, LoginType
<1>3. RequestType'
  <2>1. NoRequest.at = "none" /\ NoRequest \in RequestRow'
    BY <1>1, EmptyRowsTyped, TypeKept DEF NoRequest
  <2>2. requests' = [r \in Requests |-> NoRequest]
    BY DEF Restart
  <2> QED
    BY <2>1, <2>2 DEF RequestType
<1>4. ClientType'
  BY <1>1, TypeKept DEF Restart, TypeInv, ClientType, database
<1> QED
  BY <1>1, <1>2, <1>3, <1>4, TypeKept DEF Restart, TypeInv, database

\* The steps of a login leave rows of their types.
LEMMA LoginTyped ==
    ASSUME TypeInv, NEW l \in Logins, LoginStep(l)
    PROVE  TypeInv'
<1>1. /\ now \in Nat /\ now' = now /\ scope' = scope
      /\ NoCallback \in CallbackRow /\ NoSession \in SessionRow
  BY ScopeTyped, EmptyRowsTyped
     DEF TypeInv, LoginStep, StartLogin, Consume, Exchange, CreateSession, CallbackFails, Logout
<1>2. /\ callbacks[l] \in CallbackRow /\ callbacks \in [Logins -> CallbackRow]
      /\ CallbackRow' = CallbackRow
      /\ SessionRow' = SessionRow /\ sessions \in [Logins -> SessionRow]
  BY <1>1, TypeKept DEF TypeInv, LoginType, SessionType
<1>3. CASE StartLogin(l)
  <2>1. LoginType'
    <3>1. \A k \in Logins : pending'[k] \in Int
      BY <1>1, <1>3, GatewayConstants DEF StartLogin, TypeInv, LoginType
    <3>2. pending' = [k \in Logins |-> pending'[k]]
      BY <1>3 DEF StartLogin
    <3> QED
      BY <1>2, <1>3, <3>1, <3>2 DEF StartLogin, LoginType
  <2> QED
    BY <1>1, <1>3, <2>1, TypeKept DEF StartLogin, TypeInv, database
<1>4. CASE Consume(l)
  <2>1. LoginType'
    <3>1. [NoCallback EXCEPT !.at = "exchange", !.asked = now] \in CallbackRow
      <4>1. now \in 0..now
        BY <1>1
      <4> QED
        BY <1>1, <4>1, Zenon DEF CallbackRow
    <3>2. pending' \in [Logins -> Int]
      BY <1>4 DEF Consume, TypeInv, LoginType
    <3>3. callbacks' \in [Logins -> CallbackRow]
      BY <1>2, <1>4, <3>1 DEF Consume
    <3> QED
      BY <1>2, <3>2, <3>3 DEF LoginType
  <2> QED
    BY <1>1, <1>4, <2>1, TypeKept DEF Consume, TypeInv, database
<1>5. CASE Exchange(l)
  <2>1. refresh[l] + 1 \in 0..MaxRefreshTokens /\ members \in SUBSET Groups
    BY <1>5, GatewayConstants DEF Exchange, TypeInv, ProviderType
  <2>2. LoginType'
    <3> DEFINE c == [callbacks[l] EXCEPT !.at = "create", !.groups = members,
                                         !.token = refresh[l] + 1]
    <3>1. callbacks' = [callbacks EXCEPT ![l] = c]
      BY <1>5, Zenon DEF Exchange
    <3>2. c \in CallbackRow
      BY <1>2, <2>1, Zenon DEF CallbackRow
    <3> HIDE DEF c
    <3> QED
      BY <1>2, <1>5, <3>1, <3>2, Zenon DEF Exchange, LoginType, TypeInv
  <2>3. ProviderType'
    BY <1>1, <1>5, <2>1 DEF Exchange, TypeInv, ProviderType
  <2> QED
    BY <1>1, <1>5, <2>2, <2>3, TypeKept DEF Exchange, TypeInv, database
<1>6. CASE CreateSession(l)
  <2>1. SessionType'
    <3> DEFINE s == [state |-> "live", access |-> DeriveAccess(callbacks[l].groups),
                     observed |-> now, lag |-> now - callbacks[l].asked,
                     expires |-> now + SessionTTL, token |-> callbacks[l].token]
    <3>1. sessions' = [sessions EXCEPT ![l] = s]
      BY <1>6 DEF CreateSession
    <3>2. /\ callbacks[l].groups \in SUBSET Groups /\ callbacks[l].asked \in 0..now
          /\ callbacks[l].token \in 0..MaxRefreshTokens
      BY <1>2 DEF CallbackRow
    <3>3. DeriveAccess(callbacks[l].groups) \in SUBSET Teams
      BY <3>2, DerivedTyped DEF TypeInv
    <3>4. now - callbacks[l].asked \in 0..now /\ now + SessionTTL \in Nat /\ now \in 0..now
      BY <1>1, <3>2, GatewayConstants
    <3>5. s \in SessionRow
      BY <3>2, <3>3, <3>4 DEF SessionRow
    <3> HIDE DEF s
    <3> QED
      BY <1>2, <3>1, <3>5 DEF SessionType
  <2>2. LoginType'
    BY <1>1, <1>2, <1>6 DEF CreateSession, LoginType, TypeInv
  <2> QED
    BY <1>1, <1>6, <2>1, <2>2, TypeKept DEF CreateSession, TypeInv
<1>7. CASE CallbackFails(l)
  <2>1. LoginType'
    BY <1>1, <1>2, <1>7 DEF CallbackFails, LoginType, TypeInv
  <2> QED
    BY <1>1, <1>7, <2>1, TypeKept DEF CallbackFails, TypeInv, database
<1>8. CASE Logout(l)
  <2>1. [NoSession EXCEPT !.state = "deleted"] \in SessionRow
    BY <1>1 DEF SessionRow
  <2>2. SessionType'
    BY <1>2, <1>8, <2>1 DEF Logout, SessionType
  <2>3. ClientType'
    BY <1>8, <1>1, TypeKept DEF Logout, TypeInv, ClientType, clients
  <2> QED
    BY <1>1, <1>8, <2>2, <2>3, TypeKept DEF Logout, TypeInv
<1> QED
  BY <1>3, <1>4, <1>5, <1>6, <1>7, <1>8 DEF LoginStep

\* The steps of a token request keep the type.
LEMMA RequestTyped ==
    ASSUME TypeInv, NEW r \in Requests,
           \/ \E l \in Logins, team \in scope.teams : BeginToken(r, l, team)
           \/ RefreshAtProvider(r)
           \/ ReplaceMembership(r)
           \/ TokenContext(r)
           \/ \E j \in Tokens : RecordToken(r, j)
           \/ RequestFails(r)
    PROVE  TypeInv'
<1>1. /\ now \in Nat /\ now' = now /\ scope' = scope /\ now \in 0..now /\ 0 \in 0..now
      /\ NoRequest \in RequestRow /\ scope.teams \subseteq Teams
  <2>1. now \in Nat /\ scope.teams \subseteq Teams
    BY ScopeTyped DEF TypeInv
  <2>2. now' = now /\ scope' = scope
    BY Zenon DEF BeginToken, RefreshAtProvider, ReplaceMembership, TokenContext, RecordToken,
           RequestFails
  <2>3. now \in 0..now /\ 0 \in 0..now
    BY <2>1
  <2> QED
    BY <2>1, <2>2, <2>3, EmptyRowsTyped
<1>2. /\ requests \in [Requests -> RequestRow] /\ requests[r] \in RequestRow
      /\ RequestRow' = RequestRow
      /\ requests[r].at # "none" => requests[r].session \in Logins /\ requests[r].team \in Teams
      /\ SessionRow' = SessionRow /\ sessions \in [Logins -> SessionRow]
      /\ TokenRow' = TokenRow /\ tokens \in [Tokens -> TokenRow]
  BY <1>1, TypeKept DEF TypeInv, RequestType, SessionType, ClientType
<1>3. ASSUME NEW q, q \in RequestRow, requests' = [requests EXCEPT ![r] = q],
             q.at # "none" => q.session \in Logins /\ q.team \in Teams
      PROVE  RequestType'
  BY <1>2, <1>3 DEF RequestType, TypeInv
<1>4. NoRequest.at = "none"
  BY DEF NoRequest
<1>5. ASSUME NEW l \in Logins, NEW team \in scope.teams, BeginToken(r, l, team) PROVE TypeInv'
  <2> DEFINE at == IF FreshEnough(l) THEN "context" ELSE "refresh"
             b == [NoRequest EXCEPT !.at = at, !.session = l, !.team = team]
             q == [b EXCEPT !.start = now, !.token = sessions[l].token]
  <2>1. requests' = [requests EXCEPT ![r] = q]
    BY <1>5, Zenon DEF BeginToken
  <2>2. team \in Teams /\ at \in {"context", "refresh"}
         /\ sessions[l].token \in 0..MaxRefreshTokens
    BY <1>1, <1>2 DEF SessionRow
  <2> HIDE DEF at
  <2>3. b \in RequestRow /\ b.session = l /\ b.team = team
    BY <1>1, <2>2, Zenon DEF RequestRow
  <2> HIDE DEF b
  <2>4. q \in RequestRow /\ q.session = l /\ q.team = team
    BY <1>1, <2>2, <2>3, Zenon DEF RequestRow
  <2> HIDE DEF q
  <2>5. RequestType'
    BY <1>3, <2>1, <2>2, <2>4, Zenon
  <2> QED
    BY <1>1, <1>5, <2>5, TypeKept, Zenon DEF BeginToken, TypeInv, database
<1>6. CASE RefreshAtProvider(r)
  <2> DEFINE l == requests[r].session
             q == [requests[r] EXCEPT !.at = "replace", !.groups = members, !.token = refresh'[l]]
  <2>1. l \in Logins /\ requests[r].at = "refresh" /\ requests[r].team \in Teams
    BY <1>2, <1>6 DEF RefreshAtProvider
  <2>2. refresh' \in [Logins -> 0..MaxRefreshTokens] /\ members \in SUBSET Groups
    <3>1. CASE rotating
      <4>1. refresh[l] < MaxRefreshTokens /\ refresh' = [refresh EXCEPT ![l] = @ + 1]
        BY <1>6, <3>1 DEF RefreshAtProvider
      <4> QED
        BY <2>1, <4>1, GatewayConstants DEF TypeInv, ProviderType
    <3>2. CASE ~rotating
      BY <1>6, <3>2 DEF RefreshAtProvider, TypeInv, ProviderType
    <3> QED
      BY <3>1, <3>2
  <2>3. ProviderType'
    BY <1>1, <1>6, <2>2 DEF RefreshAtProvider, TypeInv, ProviderType
  <2>4. requests' = [requests EXCEPT ![r] = q]
    <3>1. requests' = [requests EXCEPT ![r].at = "replace", ![r].groups = members,
                                       ![r].token = refresh'[l]]
      BY <1>6, Zenon DEF RefreshAtProvider
    <3> QED
      BY <3>1, Zenon
  <2>5. q \in RequestRow /\ q.session = l /\ q.team = requests[r].team
    <3>1. refresh'[l] \in 0..MaxRefreshTokens
      BY <2>1, <2>2
    <3> QED
      BY <1>2, <2>2, <3>1, Zenon DEF RequestRow
  <2> HIDE DEF q
  <2>6. RequestType'
    BY <1>3, <2>1, <2>4, <2>5, Zenon
  <2> QED
    BY <1>1, <1>6, <2>3, <2>6, TypeKept DEF RefreshAtProvider, TypeInv, database
<1>7. ASSUME NEW at \in {"context", "record"}, NEW lag \in 0..now,
             requests[r].at # "none",
             \/ requests' = [requests EXCEPT ![r] = [requests[r] EXCEPT !.at = at]]
             \/ requests' = [requests EXCEPT ![r] = [requests[r] EXCEPT !.at = at, !.lag = lag]]
      PROVE  RequestType'
  <2>1. /\ [requests[r] EXCEPT !.at = at] \in RequestRow
        /\ [requests[r] EXCEPT !.at = at].session = requests[r].session
        /\ [requests[r] EXCEPT !.at = at].team = requests[r].team
    BY <1>2, Zenon DEF RequestRow
  <2>2. /\ [requests[r] EXCEPT !.at = at, !.lag = lag] \in RequestRow
        /\ [requests[r] EXCEPT !.at = at, !.lag = lag].session = requests[r].session
        /\ [requests[r] EXCEPT !.at = at, !.lag = lag].team = requests[r].team
    BY <1>2, Zenon DEF RequestRow
  <2> QED
    BY <1>2, <1>3, <1>7, <2>1, <2>2, Zenon
<1>8. CASE ReplaceMembership(r)
  <2> DEFINE l == requests[r].session
             a == [sessions[l] EXCEPT !.access = DeriveAccess(requests[r].groups),
                                      !.observed = requests[r].start]
             s == [a EXCEPT !.lag = 0, !.token = requests[r].token]
  <2>1. l \in Logins /\ sessions[l] \in SessionRow /\ requests[r].at = "replace"
    BY <1>2, <1>8 DEF ReplaceMembership
  <2>2. /\ requests[r].groups \in SUBSET Groups /\ requests[r].start \in 0..now
        /\ requests[r].token \in 0..MaxRefreshTokens
    BY <1>2, Zenon DEF RequestRow
  <2>3. DeriveAccess(requests[r].groups) \in SUBSET Teams
    BY <2>2, DerivedTyped DEF TypeInv
  <2>4. sessions' = [sessions EXCEPT ![l] = s]
    BY <1>8 DEF ReplaceMembership
  <2>5. a \in SessionRow
    BY <2>1, <2>2, <2>3, Zenon DEF SessionRow
  <2> HIDE DEF a
  <2>6. s \in SessionRow
    BY <1>1, <2>2, <2>5, Zenon DEF SessionRow
  <2> HIDE DEF s
  <2>7. SessionType'
    BY <1>2, <2>4, <2>6, Zenon DEF SessionType
  <2>8. requests' = [requests EXCEPT ![r] = [requests[r] EXCEPT !.at = "context"]]
    BY <1>8 DEF ReplaceMembership
  <2>9. RequestType'
    BY <1>1, <1>7, <2>1, <2>8, Zenon
  <2> QED
    BY <1>1, <1>8, <2>7, <2>9, TypeKept DEF ReplaceMembership, TypeInv
<1>9. CASE TokenContext(r)
  <2> DEFINE l == requests[r].session
  <2>1. /\ requests' = [requests EXCEPT ![r] = [requests[r] EXCEPT !.at = "record",
                                                               !.lag = sessions[l].lag]]
        /\ requests[r].at = "context"
    BY <1>9, Zenon DEF TokenContext
  <2>2. sessions[l].lag \in 0..now
    BY <1>2, <2>1 DEF SessionRow
  <2>3. RequestType'
    BY <1>7, <2>1, <2>2, Zenon
  <2> QED
    BY <1>1, <1>9, <2>3, TypeKept DEF TokenContext, TypeInv, database
<1>10. ASSUME NEW j \in Tokens, RecordToken(r, j) PROVE TypeInv'
  <2>1. /\ requests[r].start \in 0..now /\ requests[r].lag \in 0..now
        /\ requests[r].session \in Logins \cup {None} /\ requests[r].team \in Teams \cup {None}
    BY <1>2, Zenon DEF RequestRow
  <2>2. NewToken(r) \in TokenRow
    <3>1. now \in Nat /\ TokenTTL \in Nat /\ MembershipMaxAge \in Nat
      BY <1>1, GatewayConstants
    <3>2. now + TokenTTL \in Nat
      BY <3>1, SMTT(20)
    <3>3. requests[r].start \in Int /\ requests[r].lag \in Int
      BY <2>1, <3>1
    <3>4. requests[r].start - MembershipMaxAge - requests[r].lag \in Int
      BY <3>1, <3>3
    <3> QED
      BY <2>1, <3>2, <3>4, Zenon DEF NewToken, TokenRow
  <2>3. ClientType'
    BY <1>2, <1>10, <2>2 DEF RecordToken, TypeInv, ClientType
  <2>4. RequestType'
    BY <1>1, <1>3, <1>4, <1>10, Zenon DEF RecordToken
  <2> QED
    BY <1>1, <1>10, <2>3, <2>4, TypeKept DEF RecordToken, TypeInv
<1>11. CASE RequestFails(r)
  <2>1. RequestType'
    BY <1>1, <1>3, <1>4, <1>11, Zenon DEF RequestFails
  <2> QED
    BY <1>1, <1>11, <2>1, TypeKept, Zenon DEF RequestFails, TypeInv, database
<1> QED
  BY <1>5, <1>6, <1>8, <1>9, <1>10, <1>11

\* Proxied requests and WebSockets keep the type.
LEMMA ClientTyped ==
    ASSUME TypeInv, NEW j \in Tokens, ProxyStep(j)
    PROVE  TypeInv'
<1>1. /\ now' = now /\ scope' = scope /\ UNCHANGED provider /\ UNCHANGED database
      /\ pending' = pending /\ callbacks' = callbacks /\ requests' = requests
      /\ tokens' = tokens
  BY ProxyFrame DEF provider, database
<1>2. served' \in [Tokens -> {"none", "admitted", "ended"}]
  <2>1. served' = served \/ \E n \in {"admitted", "ended"} : served' = [served EXCEPT ![j] = n]
    BY Zenon DEF ProxyStep, ProxyREST, ForwardREST, ProxyWebSocket, DialRegistry, Upgrade,
                 CopyFrame, CloseSocket, ExpireSocket
  <2> QED
    BY <2>1 DEF TypeInv, ClientType
<1>3. sockets' \in [Tokens -> {"none", "admitted", "dialed", "open", "writing", "closed"}]
  <2>1. \/ sockets' = sockets
        \/ \E s \in {"admitted", "dialed", "open", "writing", "closed"} :
             sockets' = [sockets EXCEPT ![j] = s]
    BY DEF ProxyStep, ProxyREST, ForwardREST, ProxyWebSocket, DialRegistry, Upgrade,
           CopyFrame, CloseSocket, ExpireSocket
  <2> QED
    BY <2>1 DEF TypeInv, ClientType
<1>4. ClientType'
  BY <1>1, <1>2, <1>3, TypeKept DEF TypeInv, ClientType, database
<1> QED
  BY <1>1, <1>4, TypeKept DEF TypeInv, database

\* Every step keeps the types.
LEMMA TypeStep == TypeInv /\ [Next]_vars => TypeInv'
<1> SUFFICES ASSUME TypeInv, [Next]_vars PROVE TypeInv'
  OBVIOUS
<1>1. CASE UNCHANGED vars
  BY <1>1, TypeKept DEF vars, TypeInv, database
<1>2. CASE Next
  BY <1>2, TickTyped, RestartTyped, EnvironmentTyped, LoginTyped, RequestTyped, ClientTyped, Zenon
     DEF Next, LoginStep
<1> QED
  BY <1>1, <1>2

(***************************************************************************)
(* Every row the Gateway stores has its type, in particular no observation *)
(* lies in the future and no two groups share a team.                      *)
(***************************************************************************)
THEOREM GatewayTyped == Spec => []TypeOK
<1>1. TypeInv => TypeOK
  BY DEF TypeInv, TypeOK, ClockType, ProviderType, MappingType, LoginType, SessionType,
         RequestType, ClientType, CallbackRow, SessionRow, RequestRow, TokenRow
<1> QED
  BY <1>1, TypeInit, TypeStep, PTL DEF Spec

============================================================================
