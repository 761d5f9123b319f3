------------------------ MODULE GatewayFreshProofs -------------------------
(***************************************************************************)
(* Every token is issued from memberships fresh enough: the order of the   *)
(* refreshes of a session, and what the context of a request says.         *)
(***************************************************************************)
EXTENDS GatewayGrantProofs

(***************************************************************************)
(* Freshness of a token.  Two refreshes of one session can overlap.  A     *)
(* provider that rotates refresh tokens orders them: only the request with *)
(* the last refresh token is answered, it read that token from the session *)
(* row after the refresh before it was stored, and no other can be         *)
(* answered until its own is.  So observed_at never goes back, and what    *)
(* was fresh enough when a request looked still is when its token is       *)
(* issued.                                                                 *)
(***************************************************************************)
Ordered(r) ==
    LET s == sessions[requests[r].session]
        last == refresh[requests[r].session]
    IN /\ s.state # "none"
       /\ s.state = "live" =>
            /\ requests[r].at = "refresh" =>
                 /\ requests[r].token <= s.token
                 /\ requests[r].token = s.token => requests[r].start >= s.observed
            /\ requests[r].at = "replace" =>
                 /\ requests[r].token = last /\ s.token < last
                 /\ requests[r].start >= s.observed
            /\ requests[r].at \in {"context", "record"} =>
                 s.observed >= requests[r].start - MembershipMaxAge

OneReplacing ==
    \A q, r \in Requests :
        /\ requests[q].at = "replace" /\ requests[r].at = "replace"
        /\ requests[q].session = requests[r].session
        /\ sessions[requests[r].session].state = "live"
        => q = r

Order ==
    /\ \A l \in Logins : callbacks[l].at = "create" => callbacks[l].token <= refresh[l]
    /\ \A l \in Logins : sessions[l].state = "live" => sessions[l].token <= refresh[l]
    /\ \A r \in Requests : requests[r].at # "none" => Ordered(r)
    /\ OneReplacing

OrderInv == rotating => Order

\* The order holds when the Gateway first starts.
LEMMA OrderInit == Init => OrderInv
<1>1. NoCallback.at = "none" /\ NoRequest.at = "none" /\ NoSession.state = "none"
  BY DEF NoCallback, NoRequest, NoSession
<1> QED
  BY <1>1 DEF Init, OrderInv, Order, OneReplacing

\* A step that only ends callbacks and requests keeps the order.
LEMMA OrderKept ==
    ASSUME Order, refresh' = refresh, sessions' = sessions,
           \A l \in Logins : callbacks'[l] = callbacks[l] \/ callbacks'[l].at # "create",
           \A r \in Requests : requests'[r] = requests[r] \/ requests'[r].at = "none"
    PROVE  Order'
<1>1. \A l \in Logins : callbacks'[l].at = "create" => callbacks'[l].token <= refresh'[l]
  BY DEF Order
<1>2. \A l \in Logins : sessions'[l].state = "live" => sessions'[l].token <= refresh'[l]
  BY DEF Order
<1>3. \A r \in Requests : requests'[r].at # "none" => Ordered(r)'
  BY DEF Order, Ordered
<1>4. OneReplacing'
  BY DEF Order, OneReplacing
<1> QED
  BY <1>1, <1>2, <1>3, <1>4 DEF Order

\* The steps of a login: no request is about its session before it exists.
LEMMA OrderLogin ==
    ASSUME TypeInv, LoginInv, Order, NEW l \in Logins, LoginStep(l)
    PROVE  Order'
<1>1. /\ callbacks \in [Logins -> CallbackRow] /\ sessions \in [Logins -> SessionRow]
      /\ refresh \in [Logins -> 0..MaxRefreshTokens]
      /\ \A r \in Requests : requests[r].at # "none" => requests[r].session \in Logins
  BY DEF TypeInv, LoginType, SessionType, ProviderType, RequestType
<1>2. sessions[l].state = "none" =>
        \A r \in Requests : requests[r].at # "none" => requests[r].session \in Logins \ {l}
  BY <1>1 DEF Order, Ordered
<1>3. CASE StartLogin(l)
  BY <1>3, OrderKept DEF StartLogin, provider, database
<1>4. CASE Consume(l)
  <2> DEFINE c == [NoCallback EXCEPT !.at = "exchange", !.asked = now]
  <2>1. /\ callbacks' = [callbacks EXCEPT ![l] = c] \/ callbacks' = callbacks
        /\ requests' = requests /\ sessions' = sessions /\ refresh' = refresh
    BY <1>4 DEF Consume, provider, database
  <2>2. c.at = "exchange"
    BY DEF NoCallback
  <2> HIDE DEF c
  <2>3. \A k \in Logins : callbacks'[k] = callbacks[k] \/ callbacks'[k].at # "create"
    BY <1>1, <2>1, <2>2
  <2> QED
    BY <2>1, <2>3, OrderKept
<1>5. CASE Exchange(l)
  <2>1. /\ \A k \in Logins \ {l} : callbacks'[k] = callbacks[k] /\ refresh'[k] = refresh[k]
        /\ callbacks'[l].token = refresh'[l]
        /\ sessions' = sessions /\ requests' = requests
        /\ callbacks[l].at = "exchange"
    BY <1>5, ExchangeEffect
  <2>2. sessions[l].state = "none"
    BY <2>1 DEF LoginInv
  <2>3. refresh'[l] \in Int
    BY <1>1, <1>5 DEF Exchange
  <2>4. \A k \in Logins : callbacks'[k].at = "create" => callbacks'[k].token <= refresh'[k]
    BY <2>1, <2>3 DEF Order
  <2>5. \A k \in Logins : sessions'[k].state = "live" => sessions'[k].token <= refresh'[k]
    BY <2>1, <2>2 DEF Order
  <2>6. \A r \in Requests : requests'[r].at # "none" => Ordered(r)'
    BY <1>2, <2>1, <2>2 DEF Order, Ordered
  <2>7. OneReplacing'
    BY <2>1 DEF Order, OneReplacing
  <2> QED
    BY <2>4, <2>5, <2>6, <2>7 DEF Order
<1>6. CASE CreateSession(l)
  <2>1. /\ \A k \in Logins \ {l} : callbacks'[k] = callbacks[k] /\ sessions'[k] = sessions[k]
        /\ callbacks'[l].at = "none" /\ callbacks[l].at = "create"
        /\ sessions'[l].token = callbacks[l].token
        /\ refresh' = refresh /\ requests' = requests
    BY <1>1, <1>6, NoCallbackIdle DEF CreateSession, provider
  <2>2. sessions[l].state = "none"
    BY <2>1 DEF LoginInv
  <2>4. \A k \in Logins : callbacks'[k].at = "create" => callbacks'[k].token <= refresh'[k]
    BY <2>1 DEF Order
  <2>5. \A k \in Logins : sessions'[k].state = "live" => sessions'[k].token <= refresh'[k]
    BY <2>1 DEF Order
  <2>6. \A r \in Requests : requests'[r].at # "none" => Ordered(r)'
    BY <1>2, <2>1, <2>2 DEF Order, Ordered
  <2>7. OneReplacing'
    BY <1>2, <2>1, <2>2 DEF Order, OneReplacing
  <2> QED
    BY <2>4, <2>5, <2>6, <2>7 DEF Order
<1>7. CASE CallbackFails(l)
  <2>1. /\ \A k \in Logins : callbacks'[k] = callbacks[k] \/ callbacks'[k].at # "create"
        /\ refresh' = refresh /\ requests' = requests /\ sessions' = sessions
    BY <1>1, <1>7, NoCallbackIdle DEF CallbackFails, provider, database
  <2> QED
    BY <2>1, OrderKept
<1>8. CASE Logout(l)
  <2>1. [NoSession EXCEPT !.state = "deleted"].state = "deleted"
    BY DEF NoSession
  <2>2. /\ \A k \in Logins \ {l} : sessions'[k] = sessions[k]
        /\ sessions'[l].state = "deleted"
        /\ callbacks' = callbacks /\ refresh' = refresh /\ requests' = requests
    BY <1>1, <1>8, <2>1 DEF Logout, provider
  <2>4. \A k \in Logins : callbacks'[k].at = "create" => callbacks'[k].token <= refresh'[k]
    BY <2>2 DEF Order
  <2>5. \A k \in Logins : sessions'[k].state = "live" => sessions'[k].token <= refresh'[k]
    BY <2>2 DEF Order
  <2>6. \A r \in Requests : requests'[r].at # "none" => Ordered(r)'
    BY <1>1, <2>2 DEF Order, Ordered
  <2>7. OneReplacing'
    BY <1>1, <2>2 DEF Order, OneReplacing
  <2> QED
    BY <2>4, <2>5, <2>6, <2>7 DEF Order
<1> QED
  BY <1>3, <1>4, <1>5, <1>6, <1>7, <1>8 DEF LoginStep

\* A provider that rotates answers the last refresh token and replaces it.
RotatesFor(r) ==
    LET l == requests[r].session
    IN /\ requests[r].token = refresh[l]
       /\ refresh' = [refresh EXCEPT ![l] = refresh[l] + 1]

\* The steps of a token request.
LEMMA OrderRequest ==
    ASSUME TypeInv, Order, NEW r \in Requests,
           \/ \E l \in Logins, team \in scope.teams : BeginToken(r, l, team)
           \/ RefreshAtProvider(r) /\ RotatesFor(r)
           \/ ReplaceMembership(r)
           \/ TokenContext(r)
    PROVE  Order'
<1>1. /\ \A q \in Requests : requests[q].at # "none" => requests[q].session \in Logins
      /\ \A q \in Requests : requests[q].token \in Int /\ requests[q].start \in 0..now
      /\ \A l \in Logins : sessions[l].token \in Int /\ sessions[l].observed \in 0..now
      /\ refresh \in [Logins -> Int]
      /\ now \in Nat /\ MembershipMaxAge \in Nat
  <2>1. now \in Nat /\ MembershipMaxAge \in Nat /\ MaxRefreshTokens \in Nat
    BY ScopeTyped, GatewayConstants DEF TypeInv
  <2>2. refresh \in [Logins -> Int]
    BY <2>1 DEF TypeInv, ProviderType
  <2>3. \A q \in Requests : requests[q].token \in 0..MaxRefreshTokens /\ requests[q].start \in 0..now
    BY DEF TypeInv, RequestType, RequestRow
  <2>4. \A l \in Logins : sessions[l].token \in 0..MaxRefreshTokens /\ sessions[l].observed \in 0..now
    BY DEF TypeInv, SessionType, SessionRow
  <2>5. \A q \in Requests : requests[q].at # "none" => requests[q].session \in Logins
    BY DEF TypeInv, RequestType
  <2> QED
    BY <2>1, <2>2, <2>3, <2>4, <2>5
<1>2. ASSUME NEW l \in Logins, NEW team \in scope.teams, BeginToken(r, l, team) PROVE Order'
  <2>1. /\ \A q \in Requests \ {r} : requests'[q] = requests[q]
        /\ requests'[r].at = IF FreshEnough(l) THEN "context" ELSE "refresh"
        /\ requests'[r].session = l /\ requests'[r].start = now
        /\ requests'[r].token = sessions[l].token /\ sessions[l].state = "live"
    BY <1>2, BeginEffect
  <2>2. sessions' = sessions /\ refresh' = refresh /\ callbacks' = callbacks
    BY <1>2, Zenon DEF BeginToken, provider, database
  <2>3. requests'[r].at = "context" => sessions[l].observed >= now - MembershipMaxAge
    BY <1>1, <2>1 DEF FreshEnough
  <2>4. Ordered(r)'
    BY <1>1, <2>1, <2>2, <2>3 DEF Ordered
  <2>5. \A q \in Requests \ {r} : requests'[q].at # "none" => Ordered(q)'
    BY <2>1, <2>2 DEF Order, Ordered
  <2>6. OneReplacing'
    BY <2>1, <2>2 DEF Order, OneReplacing
  <2> QED
    BY <2>2, <2>4, <2>5, <2>6 DEF Order
<1>3. CASE RefreshAtProvider(r) /\ RotatesFor(r)
  <2> DEFINE l == requests[r].session
  <2>1. /\ \A q \in Requests \ {r} : requests'[q] = requests[q]
        /\ requests[r].at = "refresh" /\ requests'[r].at = "replace"
        /\ requests'[r].session = l /\ requests'[r].start = requests[r].start
        /\ requests'[r].token = refresh'[l]
        /\ sessions' = sessions /\ callbacks' = callbacks
    BY <1>3, RefreshEffect
  <2>2. /\ requests[r].token = refresh[l] /\ refresh' = [refresh EXCEPT ![l] = refresh[l] + 1]
        /\ l \in Logins
    BY <1>1, <1>3, <2>1 DEF RotatesFor
  <2>3. refresh'[l] = refresh[l] + 1 /\ \A k \in Logins \ {l} : refresh'[k] = refresh[k]
    BY <1>1, <2>2
  <2>4. sessions[l].state = "live" =>
          sessions[l].token = refresh[l] /\ requests[r].start >= sessions[l].observed
    <3>1. Ordered(r) /\ (sessions[l].state = "live" => sessions[l].token <= refresh[l])
      BY <2>1, <2>2 DEF Order
    <3>2. sessions[l].state = "live" =>
            /\ refresh[l] <= sessions[l].token
            /\ refresh[l] = sessions[l].token => requests[r].start >= sessions[l].observed
      BY <2>1, <2>2, <3>1 DEF Ordered
    <3>3. sessions[l].token \in Int /\ refresh[l] \in Int
      BY <1>1, <2>2
    <3> QED
      BY <3>1, <3>2, <3>3
  <2>5. sessions[l].state = "live" =>
          \A q \in Requests : requests[q].at = "replace" => requests[q].session # l
    BY <1>1, <2>2, <2>4 DEF Order, Ordered
  <2>6. Ordered(r)'
    BY <1>1, <2>1, <2>2, <2>3, <2>4, SMTT(20) DEF Order, Ordered
  <2>7. \A q \in Requests \ {r} : requests'[q].at # "none" => Ordered(q)'
    BY <1>1, <2>1, <2>3, <2>5, SMTT(20) DEF Order, Ordered
  <2>8. OneReplacing'
    BY <2>1, <2>5 DEF Order, OneReplacing
  <2>9. \A k \in Logins : callbacks'[k].at = "create" => callbacks'[k].token <= refresh'[k]
    <3>1. \A k \in Logins : callbacks[k].token \in 0..MaxRefreshTokens
      BY DEF TypeInv, LoginType, CallbackRow
    <3> QED
      BY <1>1, <2>1, <2>2, <2>3, <3>1 DEF Order
  <2>10. \A k \in Logins : sessions'[k].state = "live" => sessions'[k].token <= refresh'[k]
    BY <1>1, <2>1, <2>2, <2>3 DEF Order
  <2> QED
    BY <2>6, <2>7, <2>8, <2>9, <2>10 DEF Order
<1>4. CASE ReplaceMembership(r)
  <2> DEFINE l == requests[r].session
  <2>1. /\ \A q \in Requests \ {r} : requests'[q] = requests[q]
        /\ requests[r].at = "replace" /\ requests'[r].at = "context"
        /\ requests'[r].session = l /\ requests'[r].start = requests[r].start
        /\ l \in Logins
        /\ \A k \in Logins \ {l} : sessions'[k] = sessions[k]
        /\ sessions[l].state = "live" /\ sessions'[l].state = "live"
        /\ sessions'[l].observed = requests[r].start
        /\ sessions'[l].token = requests[r].token
        /\ refresh' = refresh /\ callbacks' = callbacks
    BY <1>4, ReplaceEffect
  <2>2. /\ requests[r].token = refresh[l] /\ sessions[l].token < refresh[l]
        /\ requests[r].start >= sessions[l].observed
    BY <2>1 DEF Order, Ordered
  <2>3. Ordered(r)'
    BY <1>1, <2>1 DEF Ordered
  <2>4. \A q \in Requests \ {r} : requests[q].at = "replace" => requests[q].session # l
    BY <2>1 DEF Order, OneReplacing
  <2>5. ASSUME NEW q \in Requests \ {r}, requests'[q].at # "none" PROVE Ordered(q)'
    <3>1. Ordered(q) /\ requests'[q] = requests[q] /\ requests[q].session \in Logins
      BY <1>1, <2>1, <2>5 DEF Order
    <3>2. CASE requests[q].session = l
      BY <1>1, <2>1, <2>2, <2>4, <3>1, <3>2, SMTT(20) DEF Ordered
    <3>3. CASE requests[q].session # l
      BY <2>1, <3>1, <3>3 DEF Ordered
    <3> QED
      BY <3>2, <3>3
  <2>6. OneReplacing'
    BY <1>1, <2>1, <2>4 DEF Order, OneReplacing
  <2>7. \A k \in Logins : sessions'[k].state = "live" => sessions'[k].token <= refresh'[k]
    BY <1>1, <2>1, <2>2 DEF Order
  <2>8. \A k \in Logins : callbacks'[k].at = "create" => callbacks'[k].token <= refresh'[k]
    BY <2>1 DEF Order
  <2> QED
    BY <2>3, <2>5, <2>6, <2>7, <2>8 DEF Order
<1>5. CASE TokenContext(r)
  <2>1. /\ \A q \in Requests \ {r} : requests'[q] = requests[q]
        /\ requests[r].at = "context" /\ requests'[r].at = "record"
        /\ requests'[r].session = requests[r].session /\ requests'[r].start = requests[r].start
    BY <1>5, ContextEffect
  <2>2. sessions' = sessions /\ refresh' = refresh /\ callbacks' = callbacks
    BY <1>5 DEF TokenContext, provider, database
  <2>3. \A q \in Requests : requests'[q].at # "none" => Ordered(q)'
    BY <2>1, <2>2 DEF Order, Ordered
  <2>4. OneReplacing'
    BY <2>1, <2>2 DEF Order, OneReplacing
  <2> QED
    BY <2>2, <2>3, <2>4 DEF Order
<1> QED
  BY <1>2, <1>3, <1>4, <1>5

\* Every step keeps the order.
LEMMA OrderStep == TypeInv /\ LoginInv /\ OrderInv /\ [Next]_vars => OrderInv'
<1> SUFFICES ASSUME TypeInv, LoginInv, OrderInv, [Next]_vars PROVE OrderInv'
  OBVIOUS
<1>1. rotating' = rotating
  BY HistoryGrows
<1>2. CASE ~rotating
  BY <1>1, <1>2 DEF OrderInv
<1>3. CASE rotating
  <2>0. Order
    BY <1>3 DEF OrderInv
  <2>1. NoRequest.at = "none"
    BY DEF NoRequest
  <2>2. ASSUME NEW l \in Logins, LoginStep(l) PROVE Order'
    BY <2>0, <2>2, OrderLogin
  <2>3. ASSUME NEW r \in Requests,
               \/ \E l \in Logins, team \in scope.teams : BeginToken(r, l, team)
               \/ RefreshAtProvider(r)
               \/ ReplaceMembership(r)
               \/ TokenContext(r)
        PROVE  Order'
    <3>1. RefreshAtProvider(r) => RotatesFor(r)
      BY <1>3 DEF RefreshAtProvider, RotatesFor
    <3> QED
      BY <2>0, <2>3, <3>1, OrderRequest
  <2>4. ASSUME NEW r \in Requests, (\E j \in Tokens : RecordToken(r, j)) \/ RequestFails(r)
        PROVE  Order'
    <3>1. requests' = [requests EXCEPT ![r] = NoRequest]
      BY <2>4 DEF RecordToken, RequestFails
    <3>2. refresh' = refresh /\ sessions' = sessions /\ callbacks' = callbacks
      BY <2>4 DEF RecordToken, RequestFails, provider, database
    <3>3. \A q \in Requests : requests'[q] = requests[q] \/ requests'[q].at = "none"
      BY <2>1, <3>1 DEF TypeInv, RequestType
    <3> QED
      BY <2>0, <3>2, <3>3, OrderKept
  <2>5. ASSUME Restart PROVE Order'
    <3>1. /\ refresh' = refresh /\ sessions' = sessions
          /\ callbacks' = [l \in Logins |-> NoCallback]
          /\ requests' = [r \in Requests |-> NoRequest]
      BY <2>5 DEF Restart, provider, database
    <3> QED
      BY <2>0, <2>1, <3>1, NoCallbackIdle, OrderKept
  <2>6. ASSUME \/ Tick \/ UNCHANGED vars
               \/ \E g \in Groups : Join(g) \/ Leave(g)
                                    \/ \E team \in scope.teams : RegisterMapping(g, team)
        PROVE  Order'
    <3>1. /\ refresh' = refresh /\ sessions' = sessions /\ callbacks' = callbacks
          /\ requests' = requests
      BY <2>6 DEF Tick, Join, Leave, RegisterMapping, vars, provider, database
    <3> QED
      BY <2>0, <3>1, OrderKept
  <2>7. ASSUME NEW j \in Tokens, ProxyStep(j)
        PROVE  Order'
    <3>1. /\ refresh' = refresh /\ sessions' = sessions /\ callbacks' = callbacks
          /\ requests' = requests
      BY <2>7, ProxyFrame, Zenon
    <3> QED
      BY <2>0, <3>1, OrderKept
  <2>8. Order'
    BY <2>2, <2>3, <2>4, <2>5, <2>6, <2>7 DEF Next, LoginStep
  <2> QED
    BY <2>8 DEF OrderInv
<1> QED
  BY <1>2, <1>3

(***************************************************************************)
(* Tokens that were issued, and requests that are about to issue one.      *)
(***************************************************************************)
Since(r) == requests[r].start - MembershipMaxAge - requests[r].lag

IssueInv ==
    rotating =>
      /\ \A r \in Requests : requests[r].at = "record" => Held(requests[r].team, Since(r))
      /\ \A j \in Tokens : tokens[j] # NoToken =>
           tokens[j].team \in Teams /\ Held(tokens[j].team, tokens[j].since)

\* No request has a context when the Gateway first starts.
LEMMA IssueInit == Init => IssueInv
<1>1. NoRequest.at = "none"
  BY DEF NoRequest
<1> QED
  BY <1>1 DEF Init, IssueInv

\* Which steps let a request record its token, and which hand one out.
LEMMA Issuers ==
    ASSUME TypeInv, [Next]_vars
    PROVE  /\ \A r \in Requests : \/ requests'[r] = requests[r] \/ requests'[r].at # "record"
                                  \/ TokenContext(r)
           /\ \A j \in Tokens : \/ tokens'[j] = tokens[j]
                                \/ \E r \in Requests : RecordToken(r, j)
<1>1. requests \in [Requests -> RequestRow] /\ tokens \in [Tokens -> TokenRow]
  BY DEF TypeInv, RequestType, ClientType
<1>2. NoRequest.at = "none"
  BY DEF NoRequest
<1>3. ASSUME NEW r \in Requests, NEW l \in Logins, NEW team \in scope.teams,
             BeginToken(r, l, team)
      PROVE  /\ tokens' = tokens
             /\ \A q \in Requests : requests'[q] = requests[q] \/ requests'[q].at # "record"
  <2>1. tokens' = tokens
    BY <1>3 DEF BeginToken, clients
  <2>2. /\ \A q \in Requests \ {r} : requests'[q] = requests[q]
        /\ requests'[r].at # "record"
    BY <1>3, BeginEffect
  <2> QED
    BY <2>1, <2>2
<1>4. ASSUME NEW r \in Requests, RefreshAtProvider(r) \/ ReplaceMembership(r)
      PROVE  /\ tokens' = tokens
             /\ \A q \in Requests : requests'[q] = requests[q] \/ requests'[q].at # "record"
  <2>1. tokens' = tokens
    BY <1>4 DEF RefreshAtProvider, ReplaceMembership, clients
  <2> QED
    BY <1>4, <2>1, RefreshEffect, ReplaceEffect
<1>5. ASSUME NEW r \in Requests, TokenContext(r)
      PROVE  tokens' = tokens /\ \A q \in Requests \ {r} : requests'[q] = requests[q]
  BY <1>5, ContextEffect, Zenon DEF TokenContext, clients
<1>6. ASSUME NEW r \in Requests, NEW j \in Tokens, RecordToken(r, j)
      PROVE  /\ \A i \in Tokens \ {j} : tokens'[i] = tokens[i]
             /\ \A q \in Requests : requests'[q] = requests[q] \/ requests'[q].at # "record"
  BY <1>1, <1>2, <1>6 DEF RecordToken
<1>7. ASSUME NEW r \in Requests, RequestFails(r)
      PROVE  /\ tokens' = tokens
             /\ \A q \in Requests : requests'[q] = requests[q] \/ requests'[q].at # "record"
  BY <1>1, <1>2, <1>7 DEF RequestFails, clients
<1>8. CASE Restart
  BY <1>2, <1>8 DEF Restart
<1>9. ASSUME \/ Tick \/ UNCHANGED vars
             \/ \E g \in Groups : Join(g) \/ Leave(g)
                                  \/ \E team \in scope.teams : RegisterMapping(g, team)
             \/ \E l \in Logins : LoginStep(l)
      PROVE  tokens' = tokens /\ requests' = requests
  BY <1>9, Zenon DEF Tick, Join, Leave, RegisterMapping, vars, clients, LoginStep, StartLogin, Consume,
              Exchange, CreateSession, CallbackFails, Logout
<1>10. ASSUME NEW j \in Tokens, ProxyStep(j)
       PROVE  tokens' = tokens /\ requests' = requests
  BY <1>10, ProxyFrame, Zenon
<1> QED
  BY <1>3, <1>4, <1>5, <1>6, <1>7, <1>8, <1>9, <1>10 DEF Next, LoginStep

\* Every step keeps what the contexts of requests say.
LEMMA IssueStep == TypeInv /\ GrantInv /\ OrderInv /\ IssueInv /\ [Next]_vars => IssueInv'
<1> SUFFICES ASSUME TypeInv, GrantInv, OrderInv, IssueInv, [Next]_vars, rotating
             PROVE  /\ \A r \in Requests : requests'[r].at = "record" =>
                         Held(requests[r].team, Since(r))'
                    /\ \A j \in Tokens : tokens'[j] # NoToken =>
                         tokens'[j].team \in Teams /\ Held(tokens[j].team, tokens[j].since)'
  BY HistoryGrows, Zenon DEF IssueInv
<1>1. \A r \in Requests : requests[r].at # "none" =>
        requests[r].session \in Logins /\ requests[r].team \in Teams
  BY DEF TypeInv, RequestType
<1>2. ASSUME NEW r \in Requests, requests'[r].at = "record", NEW team, team = requests'[r].team,
             NEW since, since = Since(r)'
      PROVE  Held(team, since)'
  <2>1. CASE requests'[r] = requests[r]
    <3>1. Held(team, since) /\ team \in Teams
      BY <1>1, <1>2, <2>1 DEF IssueInv, Since
    <3> QED
      BY <3>1, HeldKept
  <2>2. CASE TokenContext(r)
    <3> DEFINE l == requests[r].session
    <3>1. /\ requests[r].at = "context" /\ requests'[r].start = requests[r].start
          /\ requests'[r].team = requests[r].team /\ requests'[r].lag = sessions[l].lag
          /\ sessions[l].state = "live" /\ requests[r].team \in sessions[l].access
      BY <2>2, ContextEffect
    <3>2. l \in Logins /\ team \in Teams
      BY <1>1, <1>2, <3>1
    <3>3. Held(team, sessions[l].observed - sessions[l].lag)
      BY <1>2, <3>1, <3>2 DEF GrantInv
    <3>4. sessions[l].observed >= requests[r].start - MembershipMaxAge
      BY <3>1 DEF OrderInv, Order, Ordered
    <3>5. /\ sessions[l].observed \in 0..now /\ sessions[l].lag \in 0..now
          /\ requests[r].start \in 0..now /\ now \in Nat /\ MembershipMaxAge \in Nat
          /\ held \in [Groups -> SUBSET (0..now)]
      BY <3>2, ScopeTyped, GatewayConstants
         DEF TypeInv, SessionType, SessionRow, RequestType, RequestRow, ProviderType
    <3>6. since = requests[r].start - MembershipMaxAge - sessions[l].lag
      BY <1>2, <3>1 DEF Since
    <3>7. since <= sessions[l].observed - sessions[l].lag /\ since \in Int
      BY <3>4, <3>5, <3>6
    <3>8. Held(team, since)
      <4>1. PICK g \in Groups : /\ mappings[g] = team
                                /\ \E tick \in held[g] :
                                     tick >= sessions[l].observed - sessions[l].lag
        BY <3>3 DEF Held
      <4>2. PICK tick \in held[g] : tick >= sessions[l].observed - sessions[l].lag
        BY <4>1
      <4>3. tick \in 0..now
        BY <3>5
      <4>4. tick >= since
        BY <3>5, <3>7, <4>2, <4>3
      <4> QED
        BY <4>1, <4>4 DEF Held
    <3> QED
      BY <3>2, <3>8, HeldKept
  <2> QED
    BY <1>2, <2>1, <2>2, Issuers
<1>3. ASSUME NEW j \in Tokens, tokens'[j] # NoToken, NEW team, team = tokens'[j].team,
             NEW since, since = tokens'[j].since
      PROVE  team \in Teams /\ Held(team, since)'
  <2>1. CASE tokens'[j] = tokens[j]
    <3>1. Held(team, since) /\ team \in Teams
      BY <1>3, <2>1 DEF IssueInv
    <3> QED
      BY <3>1, HeldKept
  <2>2. ASSUME NEW r \in Requests, RecordToken(r, j)
        PROVE  team \in Teams /\ Held(team, since)'
    <3>1. requests[r].at = "record" /\ tokens'[j] = NewToken(r)
      BY <2>2 DEF RecordToken, TypeInv, ClientType
    <3>2. team = requests[r].team /\ since = Since(r)
      BY <1>3, <3>1 DEF NewToken, Since
    <3>3. team \in Teams /\ Held(team, since)
      BY <1>1, <3>1, <3>2 DEF IssueInv
    <3> QED
      BY <3>3, HeldKept
  <2> QED
    BY <2>1, <2>2, Issuers
<1>4. \A r \in Requests : requests'[r].at = "record" => Held(requests[r].team, Since(r))'
  BY <1>2 DEF Held
<1>5. \A j \in Tokens : tokens'[j] # NoToken =>
        tokens'[j].team \in Teams /\ Held(tokens[j].team, tokens[j].since)'
  BY <1>3 DEF Held
<1> QED
  BY <1>4, <1>5

(***************************************************************************)
(* The access of a session is never older than it says, and with a         *)
(* provider that rotates refresh tokens a working token is only issued for *)
(* a team the provider granted within MembershipMaxAge before the request  *)
(* (refreshMembership, ReplaceMembership, TokenContext), however many      *)
(* requests refresh the session at once and whatever fails in between.     *)
(***************************************************************************)
THEOREM IssuedFresh == Spec => []FreshWhenIssued
<1> DEFINE Inv == TypeInv /\ LoginInv /\ GrantInv /\ OrderInv /\ IssueInv
<1>1. Init => Inv
  BY TypeInit, LoginInit, GrantInit, OrderInit, IssueInit
<1>2. Inv /\ [Next]_vars => Inv'
  BY TypeStep, LoginInvStep, GrantStep, OrderStep, IssueStep
<1>3. Inv => FreshWhenIssued
  BY DEF GrantInv, IssueInv, FreshWhenIssued
<1> HIDE DEF Inv
<1> QED
  BY <1>1, <1>2, <1>3, PTL DEF Spec

============================================================================
