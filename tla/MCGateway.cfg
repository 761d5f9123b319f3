SPECIFICATION Spec
CONSTANTS
    Groups <- MCGroups
    Scopes <- MCScopes
    Teams <- MCTeams
    Logins = {l1, l2}
    Requests = {r1, r2}
    Tokens = {1}
    StateTTL = 1
    SessionTTL = 3
    MembershipMaxAge = 1
    TokenTTL = 1
    MaxRefreshTokens = 3
    None = None
SYMMETRY Symmetric
INVARIANTS
    TypeOK
    FreshWhenIssued
PROPERTIES
    NoAdmissionAfterLogout
CHECK_DEADLOCK FALSE
