----------------------------- MODULE MCGateway -----------------------------
(***************************************************************************)
(* GatewaySessions for TLC: one login with concurrent token requests for   *)
(* long enough that an observation ages, requests proxied until the token  *)
(* expires, two logins, and two groups.                                    *)
(***************************************************************************)
EXTENDS GatewaySessions, TLC

OneLogin ==
    [groups |-> {"g1"}, teams |-> {"a"}, logins |-> 1, requests |-> 2, proxied |-> 0,
     horizon |-> 3]

Proxying ==
    [groups |-> {"g1"}, teams |-> {"a"}, logins |-> 1, requests |-> 1, proxied |-> 1,
     horizon |-> 2]

TwoLogins ==
    [groups |-> {"g1"}, teams |-> {"a"}, logins |-> 2, requests |-> 1, proxied |-> 1,
     horizon |-> 0]

TwoGroups ==
    [groups |-> {"g1", "g2"}, teams |-> {"a", "b"}, logins |-> 1, requests |-> 1,
     proxied |-> 1, horizon |-> 0]

MCGroups == {"g1", "g2"}
MCTeams == {"a", "b"}
MCScopes == {OneLogin, Proxying, TwoLogins, TwoGroups}

Symmetric == Permutations(Requests) \cup Permutations(Logins)
=============================================================================
