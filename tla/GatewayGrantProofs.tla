------------------------ MODULE GatewayGrantProofs -------------------------
(***************************************************************************)
(* What the steps of a token request change, and that the environments a   *)
(* session or a request carries were granted by groups its user held.      *)
(***************************************************************************)
EXTENDS GatewaySessionsProofs

(***************************************************************************)
(* What each step of a token request writes, field by field.               *)
(***************************************************************************)
LEMMA BeginEffect ==
    ASSUME TypeInv, NEW r \in Requests, NEW l \in Logins, NEW team \in scope.teams,
           BeginToken(r, l, team)
    PROVE  /\ \A q \in Requests \ {r} : requests'[q] = requests[q]
           /\ requests'[r].at = IF FreshEnough(l) THEN "context" ELSE "refresh"
           /\ requests'[r].session = l
           /\ requests'[r].start = now
           /\ requests'[r].token = sessions[l].token
           /\ sessions[l].state = "live"
<1> DEFINE q == [NoRequest EXCEPT !.at = IF FreshEnough(l) THEN "context" ELSE "refresh",
                           !.session = l, !.team = team, !.start = now,
                           !.token = sessions[l].token]
<1>1. requests' = [requests EXCEPT ![r] = q] /\ sessions[l].state = "live"
  BY DEF BeginToken, Live
<1>2. q.at = IF FreshEnough(l) THEN "context" ELSE "refresh"
  BY DEF NoRequest
<1>3. q.session = l /\ q.start = now /\ q.token = sessions[l].token
  BY DEF NoRequest
<1>4. requests \in [Requests -> RequestRow]
  BY DEF TypeInv, RequestType
<1> HIDE DEF q
<1> QED
  BY <1>1, <1>2, <1>3, <1>4

\* What a refresh at the provider changes.
LEMMA RefreshEffect ==
    ASSUME TypeInv, NEW r \in Requests, RefreshAtProvider(r)
    PROVE  /\ \A q \in Requests \ {r} : requests'[q] = requests[q]
           /\ requests[r].at = "refresh" /\ requests'[r].at = "replace"
           /\ requests'[r].session = requests[r].session
           /\ requests'[r].start = requests[r].start
           /\ requests'[r].groups = members
           /\ requests'[r].token = refresh'[requests[r].session]
           /\ sessions' = sessions /\ callbacks' = callbacks /\ held' = held
<1> DEFINE l == requests[r].session
           q == [requests[r] EXCEPT !.at = "replace", !.groups = members, !.token = refresh'[l]]
<1>1. /\ requests' = [requests EXCEPT ![r].at = "replace", ![r].groups = members,
                                      ![r].token = refresh'[l]]
      /\ requests[r].at = "refresh"
  BY Zenon DEF RefreshAtProvider
<1>2. requests' = [requests EXCEPT ![r] = q]
  BY <1>1, Zenon
<1>3. requests[r] \in RequestRow /\ requests \in [Requests -> RequestRow]
  BY DEF TypeInv, RequestType
<1>4. /\ q.at = "replace" /\ q.session = l /\ q.start = requests[r].start
      /\ q.groups = members /\ q.token = refresh'[l]
  BY <1>3 DEF RequestRow
<1> HIDE DEF q
<1>5. sessions' = sessions /\ callbacks' = callbacks /\ held' = held
  BY DEF RefreshAtProvider, database
<1> QED
  BY <1>1, <1>2, <1>3, <1>4, <1>5

\* What the replacement of a session's memberships changes.
LEMMA ReplaceEffect ==
    ASSUME TypeInv, NEW r \in Requests, ReplaceMembership(r)
    PROVE  LET l == requests[r].session
           IN /\ \A q \in Requests \ {r} : requests'[q] = requests[q]
              /\ requests[r].at = "replace" /\ requests'[r].at = "context"
              /\ requests'[r].session = l /\ requests'[r].start = requests[r].start
              /\ l \in Logins
              /\ \A k \in Logins \ {l} : sessions'[k] = sessions[k]
              /\ sessions[l].state = "live" /\ sessions'[l].state = "live"
              /\ sessions'[l].access = DeriveAccess(requests[r].groups)
              /\ sessions'[l].observed = requests[r].start /\ sessions'[l].lag = 0
              /\ sessions'[l].token = requests[r].token
              /\ refresh' = refresh /\ callbacks' = callbacks
<1> DEFINE l == requests[r].session
           a == [sessions[l] EXCEPT !.access = DeriveAccess(requests[r].groups),
                                    !.observed = requests[r].start]
           s == [a EXCEPT !.lag = 0, !.token = requests[r].token]
           q == [requests[r] EXCEPT !.at = "context"]
<1>1. requests[r].at = "replace" /\ sessions[l].state = "live"
  BY DEF ReplaceMembership
<1>2. l \in Logins /\ sessions \in [Logins -> SessionRow] /\ sessions[l] \in SessionRow
  BY <1>1 DEF TypeInv, RequestType, SessionType
<1>3. sessions' = [sessions EXCEPT ![l] = s]
  BY DEF ReplaceMembership
<1>4. /\ a.access = DeriveAccess(requests[r].groups) /\ a.observed = requests[r].start
      /\ a.state = sessions[l].state
      /\ DOMAIN a = {"state", "access", "observed", "lag", "expires", "token"}
  BY <1>2 DEF SessionRow
<1> HIDE DEF a
<1>5. /\ s.access = a.access /\ s.observed = a.observed /\ s.state = a.state
      /\ s.lag = 0 /\ s.token = requests[r].token
  BY <1>4
<1> HIDE DEF s
<1>6. requests' = [requests EXCEPT ![r] = q]
  BY DEF ReplaceMembership
<1>7. requests[r] \in RequestRow /\ requests \in [Requests -> RequestRow]
  BY DEF TypeInv, RequestType
<1>8. q.at = "context" /\ q.session = l /\ q.start = requests[r].start
  BY <1>7 DEF RequestRow
<1> HIDE DEF q
<1>9. refresh' = refresh /\ callbacks' = callbacks
  BY DEF ReplaceMembership, provider
<1>10. /\ \A p \in Requests \ {r} : requests'[p] = requests[p]
       /\ requests'[r].at = "context"
       /\ requests'[r].session = l /\ requests'[r].start = requests[r].start
  BY <1>6, <1>7, <1>8
<1>11. \A k \in Logins \ {l} : sessions'[k] = sessions[k]
  BY <1>2, <1>3
<1>12. /\ sessions'[l].state = "live" /\ sessions'[l].access = DeriveAccess(requests[r].groups)
       /\ sessions'[l].observed = requests[r].start /\ sessions'[l].lag = 0
       /\ sessions'[l].token = requests[r].token
  BY <1>1, <1>2, <1>3, <1>4, <1>5
<1> QED
  BY <1>1, <1>2, <1>9, <1>10, <1>11, <1>12

\* What reading the context of a session changes.
LEMMA ContextEffect ==
    ASSUME TypeInv, NEW r \in Requests, TokenContext(r)
    PROVE  LET l == requests[r].session
           IN /\ \A q \in Requests \ {r} : requests'[q] = requests[q]
              /\ requests[r].at = "context" /\ requests'[r].at = "record"
              /\ requests'[r].session = l /\ requests'[r].start = requests[r].start
              /\ requests'[r].team = requests[r].team /\ requests'[r].lag = sessions[l].lag
              /\ sessions[l].state = "live" /\ requests[r].team \in sessions[l].access
<1> DEFINE l == requests[r].session
           q == [requests[r] EXCEPT !.at = "record", !.lag = sessions[l].lag]
<1>1. /\ requests[r].at = "context" /\ sessions[l].state = "live"
      /\ requests[r].team \in sessions[l].access
      /\ requests' = [requests EXCEPT ![r] = q]
  BY Zenon DEF TokenContext, AccessibleTeams, Live
<1>2. requests[r] \in RequestRow /\ requests \in [Requests -> RequestRow]
  BY DEF TypeInv, RequestType
<1>3. /\ q.at = "record" /\ q.session = l /\ q.start = requests[r].start
      /\ q.team = requests[r].team /\ q.lag = sessions[l].lag
  BY <1>2 DEF RequestRow
<1> HIDE DEF q
<1>4. requests'[r] = q /\ \A p \in Requests \ {r} : requests'[p] = requests[p]
  BY <1>1, <1>2
<1> QED
  BY <1>1, <1>3, <1>4

\* What the exchange of the code writes.
LEMMA ExchangeEffect ==
    ASSUME TypeInv, NEW l \in Logins, Exchange(l)
    PROVE  /\ \A k \in Logins \ {l} : callbacks'[k] = callbacks[k] /\ refresh'[k] = refresh[k]
           /\ callbacks[l].at = "exchange" /\ callbacks'[l].groups = members
           /\ callbacks'[l].asked = callbacks[l].asked
           /\ callbacks'[l].token = refresh'[l]
           /\ sessions' = sessions /\ requests' = requests /\ held' = held
<1> DEFINE c == [callbacks[l] EXCEPT !.at = "create", !.groups = members,
                                     !.token = refresh[l] + 1]
<1>1. /\ callbacks' = [callbacks EXCEPT ![l] = c] /\ callbacks[l].at = "exchange"
      /\ refresh' = [refresh EXCEPT ![l] = refresh[l] + 1]
  BY Zenon DEF Exchange
<1>2. /\ callbacks[l] \in CallbackRow /\ callbacks \in [Logins -> CallbackRow]
      /\ refresh \in [Logins -> 0..MaxRefreshTokens]
  BY DEF TypeInv, LoginType, ProviderType
<1>3. c.groups = members /\ c.asked = callbacks[l].asked /\ c.token = refresh[l] + 1
  BY <1>2 DEF CallbackRow
<1> HIDE DEF c
<1>4. sessions' = sessions /\ requests' = requests /\ held' = held
  BY DEF Exchange, database
<1> QED
  BY <1>1, <1>2, <1>3, <1>4

-----------------------------------------------------------------------------
(***************************************************************************)
(* Grants.  Whatever the Gateway has observed the provider granted, no     *)
(* earlier than it is noted: first in a callback or a request, then in the *)
(* session.                                                                *)
(***************************************************************************)
HeldSince(g, since) == \E tick \in held[g] : tick >= since

GrantInv ==
    /\ \A g \in members : now \in held[g]
    /\ \A l \in Logins : callbacks[l].at = "create" =>
         \A g \in callbacks[l].groups : HeldSince(g, callbacks[l].asked)
    /\ \A r \in Requests : requests[r].at = "replace" =>
         \A g \in requests[r].groups : HeldSince(g, requests[r].start)
    /\ \A l \in Logins : \A team \in sessions[l].access :
         Held(team, sessions[l].observed - sessions[l].lag)

\* The grants hold when the Gateway first starts.
LEMMA GrantInit == Init => GrantInv
<1> SUFFICES ASSUME Init PROVE GrantInv
  OBVIOUS
<1>1. members \subseteq Groups
  BY TypeInit DEF TypeInv, ProviderType
<1>2. \A g \in members : now \in held[g]
  BY <1>1 DEF Init
<1>3. NoCallback.at = "none" /\ NoRequest.at = "none" /\ NoSession.access = {}
  BY DEF NoCallback, NoRequest, NoSession
<1> QED
  BY <1>2, <1>3 DEF Init, GrantInv

\* Grants are not forgotten and a mapping is for good.
LEMMA HistoryGrows ==
    ASSUME TypeInv, [Next]_vars
    PROVE  /\ \A g \in Groups : held[g] \subseteq held'[g]
           /\ \A g \in Groups : mappings[g] # None => mappings'[g] = mappings[g]
           /\ rotating' = rotating
<1>1. held \in [Groups -> SUBSET (0..now)] /\ mappings \in [Groups -> Teams \cup {None}]
  BY DEF TypeInv, ProviderType, MappingType
<1>2. CASE Tick
  BY <1>1, <1>2 DEF Tick, database
<1>3. ASSUME NEW g \in Groups, Join(g)
      PROVE  mappings' = mappings /\ rotating' = rotating /\ \A h \in Groups : held[h] \subseteq held'[h]
  BY <1>1, <1>3 DEF Join, database
<1>4. ASSUME NEW g \in Groups, NEW team \in scope.teams, RegisterMapping(g, team)
      PROVE  /\ held' = held /\ rotating' = rotating
             /\ \A h \in Groups : mappings[h] # None => mappings'[h] = mappings[h]
  BY <1>1, <1>4 DEF RegisterMapping, MappingFree, provider
<1>5. ASSUME NEW g \in Groups, Leave(g)
      PROVE  held' = held /\ rotating' = rotating /\ mappings' = mappings
  BY <1>5 DEF Leave, database
<1>6. ASSUME NEW l \in Logins, LoginStep(l)
      PROVE  held' = held /\ rotating' = rotating /\ mappings' = mappings
  BY <1>6 DEF LoginStep, StartLogin, Consume, Exchange, CreateSession, CallbackFails, Logout,
              provider, database
<1>7. ASSUME NEW r \in Requests,
             \/ \E l \in Logins, team \in scope.teams : BeginToken(r, l, team)
             \/ RefreshAtProvider(r)
             \/ ReplaceMembership(r)
             \/ TokenContext(r)
             \/ \E j \in Tokens : RecordToken(r, j)
             \/ RequestFails(r)
      PROVE  held' = held /\ rotating' = rotating /\ mappings' = mappings
  BY <1>7, Zenon DEF BeginToken, RefreshAtProvider, ReplaceMembership, TokenContext, RecordToken,
              RequestFails, provider, database
<1>8. ASSUME NEW j \in Tokens, ProxyStep(j)
      PROVE  held' = held /\ rotating' = rotating /\ mappings' = mappings
  BY <1>8, ProxyFrame, Zenon
<1>9. ASSUME Restart \/ UNCHANGED vars
      PROVE  held' = held /\ rotating' = rotating /\ mappings' = mappings
  BY <1>9 DEF Restart, vars, provider, database
<1> QED
  BY <1>2, <1>3, <1>4, <1>5, <1>6, <1>7, <1>8, <1>9 DEF Next, LoginStep

\* So a grant of a team that was on record once stays on record.
LEMMA HeldKept ==
    ASSUME TypeInv, [Next]_vars
    PROVE  /\ \A g \in Groups : \A since : HeldSince(g, since) => HeldSince(g, since)'
           /\ \A team \in Teams : \A since : Held(team, since) => Held(team, since)'
<1>1. ASSUME NEW g \in Groups, NEW since, HeldSince(g, since) PROVE HeldSince(g, since)'
  BY <1>1, HistoryGrows DEF HeldSince
<1>2. ASSUME NEW team \in Teams, NEW since, Held(team, since) PROVE Held(team, since)'
  <2>1. PICK g \in Groups : mappings[g] = team /\ \E tick \in held[g] : tick >= since
    BY <1>2 DEF Held
  <2>2. team # None
    BY GatewayConstants
  <2>3. mappings'[g] = team /\ held[g] \subseteq held'[g]
    BY <2>1, <2>2, HistoryGrows
  <2> QED
    BY <2>1, <2>3 DEF Held
<1> QED
  BY <1>1, <1>2

\* The access derived from groups that were held is an access that was held.
LEMMA DerivedHeld ==
    ASSUME NEW groups \in SUBSET Groups, NEW since, \A g \in groups : HeldSince(g, since),
           NEW team \in DeriveAccess(groups)
    PROVE  Held(team, since)
  BY DEF DeriveAccess, HeldSince, Held

\* Which steps write a callback, a request or a session.
LEMMA Writers ==
    ASSUME TypeInv, [Next]_vars
    PROVE  /\ \A l \in Logins : \/ callbacks'[l] = callbacks[l] \/ callbacks'[l].at # "create"
                                \/ Exchange(l)
           /\ \A r \in Requests : \/ requests'[r] = requests[r] \/ requests'[r].at # "replace"
                                  \/ RefreshAtProvider(r)
           /\ \A l \in Logins : \/ sessions'[l] = sessions[l] \/ sessions'[l].access = {}
                                \/ CreateSession(l)
                                \/ \E r \in Requests : ReplaceMembership(r)
                                                       /\ requests[r].session = l
<1>1. /\ callbacks \in [Logins -> CallbackRow] /\ sessions \in [Logins -> SessionRow]
      /\ requests \in [Requests -> RequestRow]
  BY DEF TypeInv, LoginType, SessionType, RequestType
<1>2. ASSUME NEW k \in Logins, LoginStep(k)
      PROVE  /\ requests' = requests
             /\ \A l \in Logins : \/ callbacks'[l] = callbacks[l] \/ callbacks'[l].at # "create"
                                  \/ Exchange(l)
             /\ \A l \in Logins : \/ sessions'[l] = sessions[l] \/ sessions'[l].access = {}
                                  \/ CreateSession(l)
  <2>1. CASE StartLogin(k)
    BY <2>1 DEF StartLogin, database
  <2>2. CASE Consume(k)
    <3> DEFINE c == [NoCallback EXCEPT !.at = "exchange", !.asked = now]
    <3>1. /\ requests' = requests /\ sessions' = sessions
          /\ callbacks' = [callbacks EXCEPT ![k] = c] \/ callbacks' = callbacks
      BY <2>2 DEF Consume, database
    <3>2. c.at = "exchange"
      BY DEF NoCallback
    <3> HIDE DEF c
    <3> QED
      BY <1>1, <3>1, <3>2
  <2>3. CASE Exchange(k)
    BY <2>3, ExchangeEffect
  <2>4. CASE CreateSession(k)
    BY <1>1, <2>4, NoCallbackIdle, Zenon DEF CreateSession
  <2>5. CASE CallbackFails(k)
    BY <1>1, <2>5, NoCallbackIdle DEF CallbackFails, database
  <2>6. CASE Logout(k)
    <3>1. [NoSession EXCEPT !.state = "deleted"].access = {}
      BY DEF NoSession
    <3> QED
      BY <1>1, <2>6, <3>1 DEF Logout
  <2> QED
    BY <1>2, <2>1, <2>2, <2>3, <2>4, <2>5, <2>6 DEF LoginStep
<1>3. ASSUME NEW r \in Requests,
             \/ \E l \in Logins, team \in scope.teams : BeginToken(r, l, team)
             \/ RefreshAtProvider(r)
             \/ TokenContext(r)
             \/ \E j \in Tokens : RecordToken(r, j)
             \/ RequestFails(r)
      PROVE  /\ callbacks' = callbacks /\ sessions' = sessions
             /\ \A q \in Requests : \/ requests'[q] = requests[q] \/ requests'[q].at # "replace"
                                    \/ RefreshAtProvider(q)
  <2>1. callbacks' = callbacks /\ sessions' = sessions
    BY <1>3, Zenon DEF BeginToken, RefreshAtProvider, TokenContext, RecordToken, RequestFails, database
  <2>2. NoRequest.at = "none"
    BY DEF NoRequest
  <2>3. ASSUME requests' = [requests EXCEPT ![r] = NoRequest]
        PROVE  \A q \in Requests : requests'[q] = requests[q] \/ requests'[q].at # "replace"
    BY <1>1, <2>2, <2>3
  <2>4. CASE RequestFails(r) \/ \E j \in Tokens : RecordToken(r, j)
    BY <2>1, <2>3, <2>4 DEF RequestFails, RecordToken
  <2> QED
    BY <1>3, <2>1, <2>4, BeginEffect, RefreshEffect, ContextEffect
<1>4. ASSUME NEW r \in Requests, ReplaceMembership(r)
      PROVE  /\ callbacks' = callbacks
             /\ \A q \in Requests : requests'[q] = requests[q] \/ requests'[q].at # "replace"
             /\ \A l \in Logins \ {requests[r].session} : sessions'[l] = sessions[l]
  BY <1>4, ReplaceEffect
<1>5. CASE Restart
  BY <1>5, NoCallbackIdle DEF Restart, NoRequest, database
<1>6. ASSUME \/ Tick \/ UNCHANGED vars
             \/ \E g \in Groups : Join(g) \/ Leave(g)
                                  \/ \E team \in scope.teams : RegisterMapping(g, team)
      PROVE  callbacks' = callbacks /\ requests' = requests /\ sessions' = sessions
  BY <1>6 DEF Tick, Join, Leave, RegisterMapping, vars, database
<1>7. ASSUME NEW j \in Tokens, ProxyStep(j)
      PROVE  callbacks' = callbacks /\ requests' = requests /\ sessions' = sessions
  BY <1>7, ProxyFrame, Zenon
<1> QED
  BY <1>2, <1>3, <1>4, <1>5, <1>6, <1>7 DEF Next, LoginStep

\* Every step keeps the grants.
LEMMA GrantStep == TypeInv /\ GrantInv /\ [Next]_vars => GrantInv'
<1> SUFFICES ASSUME TypeInv, GrantInv, [Next]_vars PROVE GrantInv'
  OBVIOUS
<1>1. /\ members \subseteq Groups /\ held \in [Groups -> SUBSET (0..now)] /\ now \in Nat
      /\ callbacks \in [Logins -> CallbackRow] /\ requests \in [Requests -> RequestRow]
      /\ sessions \in [Logins -> SessionRow]
  BY ScopeTyped DEF TypeInv, ProviderType, LoginType, RequestType, SessionType
<1>2. \A g \in members' : now' \in held'[g]
  <2>1. CASE Tick
    BY <1>1, <2>1 DEF Tick
  <2>2. ASSUME NEW g \in Groups, Join(g) PROVE \A h \in members' : now' \in held'[h]
    BY <1>1, <2>2 DEF Join, GrantInv
  <2>3. ASSUME NEW g \in Groups, Leave(g) PROVE \A h \in members' : now' \in held'[h]
    BY <2>3 DEF Leave, GrantInv
  <2>4. \/ Tick
        \/ \E g \in Groups : Join(g) \/ Leave(g)
        \/ members' = members /\ held' = held /\ now' = now
    BY ProxyFrame, Zenon
       DEF Next, Restart, RegisterMapping, StartLogin, Consume, Exchange, CreateSession,
           CallbackFails, Logout, BeginToken, RefreshAtProvider, ReplaceMembership, TokenContext,
           RecordToken, RequestFails, provider, vars
  <2> QED
    BY <2>1, <2>2, <2>3, <2>4 DEF GrantInv
<1>3. ASSUME NEW l \in Logins, callbacks'[l].at = "create", NEW g \in callbacks'[l].groups
      PROVE  HeldSince(g, callbacks[l].asked)' /\ callbacks'[l].asked = callbacks[l].asked
  <2>1. callbacks[l].groups \subseteq Groups /\ callbacks[l].asked \in 0..now
    BY <1>1 DEF CallbackRow
  <2>2. CASE callbacks'[l] = callbacks[l]
    BY <1>3, <2>1, <2>2, HeldKept DEF GrantInv
  <2>3. CASE Exchange(l)
    <3>1. /\ callbacks'[l].groups = members /\ callbacks'[l].asked = callbacks[l].asked
          /\ callbacks[l].asked <= now
      BY <1>1, <2>1, <2>3, ExchangeEffect
    <3>2. HeldSince(g, callbacks[l].asked) /\ g \in Groups
      BY <1>1, <1>3, <3>1 DEF GrantInv, HeldSince
    <3> QED
      BY <3>1, <3>2, HeldKept
  <2> QED
    BY <1>3, <2>2, <2>3, Writers
<1>4. ASSUME NEW r \in Requests, requests'[r].at = "replace", NEW g \in requests'[r].groups
      PROVE  HeldSince(g, requests[r].start)' /\ requests'[r].start = requests[r].start
  <2>1. requests[r].groups \subseteq Groups /\ requests[r].start \in 0..now
    BY <1>1 DEF RequestRow
  <2>2. CASE requests'[r] = requests[r]
    BY <1>4, <2>1, <2>2, HeldKept DEF GrantInv
  <2>3. CASE RefreshAtProvider(r)
    <3>1. /\ requests'[r].groups = members /\ requests'[r].start = requests[r].start
          /\ requests[r].start <= now
      BY <1>1, <2>1, <2>3, RefreshEffect
    <3>2. HeldSince(g, requests[r].start) /\ g \in Groups
      BY <1>1, <1>4, <3>1 DEF GrantInv, HeldSince
    <3> QED
      BY <3>1, <3>2, HeldKept
  <2> QED
    BY <1>4, <2>2, <2>3, Writers
<1>5. ASSUME NEW l \in Logins, NEW team \in sessions'[l].access,
             NEW since, since = sessions'[l].observed - sessions'[l].lag
      PROVE  Held(team, since)'
  <2>1. CASE sessions'[l] = sessions[l]
    <3>1. sessions[l].access \subseteq Teams
      BY <1>1 DEF SessionRow
    <3>2. Held(team, since)
      BY <1>5, <2>1 DEF GrantInv
    <3> QED
      BY <1>5, <2>1, <3>1, <3>2, HeldKept
  <2>2. CASE CreateSession(l)
    <3>1. callbacks[l].groups \in SUBSET Groups /\ callbacks[l].asked \in 0..now
      BY <1>1 DEF CallbackRow
    <3>2. /\ sessions'[l].access = DeriveAccess(callbacks[l].groups)
          /\ sessions'[l].observed = now /\ sessions'[l].lag = now - callbacks[l].asked
          /\ callbacks[l].at = "create"
      BY <1>1, <2>2 DEF CreateSession
    <3>3. since = callbacks[l].asked
      BY <1>1, <1>5, <3>1, <3>2
    <3>4. \A g \in callbacks[l].groups : HeldSince(g, since)
      BY <3>2, <3>3 DEF GrantInv
    <3>5. Held(team, since) /\ team \in Teams
      BY <1>5, <3>1, <3>2, <3>4, DerivedHeld, DerivedTyped DEF TypeInv
    <3> QED
      BY <3>5, HeldKept
  <2>3. ASSUME NEW r \in Requests, ReplaceMembership(r), requests[r].session = l
        PROVE  Held(team, since)'
    <3>1. requests[r].groups \in SUBSET Groups /\ requests[r].start \in 0..now
      BY <1>1 DEF RequestRow
    <3>2. /\ sessions'[l].access = DeriveAccess(requests[r].groups)
          /\ sessions'[l].observed = requests[r].start /\ sessions'[l].lag = 0
          /\ requests[r].at = "replace"
      BY <2>3, ReplaceEffect
    <3>3. since = requests[r].start
      BY <1>1, <1>5, <3>1, <3>2
    <3>4. \A g \in requests[r].groups : HeldSince(g, since)
      BY <3>2, <3>3 DEF GrantInv
    <3>5. Held(team, since) /\ team \in Teams
      BY <1>5, <3>1, <3>2, <3>4, DerivedHeld, DerivedTyped DEF TypeInv
    <3> QED
      BY <3>5, HeldKept
  <2> QED
    BY <1>5, <2>1, <2>2, <2>3, Writers
<1>6. \A l \in Logins : \A team \in sessions'[l].access :
        Held(team, sessions[l].observed - sessions[l].lag)'
  BY <1>5 DEF Held
<1>7. \A l \in Logins : callbacks'[l].at = "create" =>
        \A g \in callbacks'[l].groups : HeldSince(g, callbacks[l].asked)'
  BY <1>3
<1>8. \A r \in Requests : requests'[r].at = "replace" =>
        \A g \in requests'[r].groups : HeldSince(g, requests[r].start)'
  BY <1>4
<1> QED
  BY <1>2, <1>6, <1>7, <1>8 DEF GrantInv

============================================================================
