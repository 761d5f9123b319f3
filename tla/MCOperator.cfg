SPECIFICATION MCSpec
CONSTANTS
    v1 = v1
    v2 = v2
    Keys <- MCKeys
    Values = {v1, v2}
    Environments <- MCEnvironments
    Secrets = {1, 2}
    ClaimedTasks = {t1}
    Claimants = {x1, x2}
    Writes <- MCWrites
    GlobalWrites <- MCGlobalWrites
    TaskImages = {TRUE, FALSE}
    MaxEdits = 4
    MaxScopeKeys = 2
    ScopeTokenTTL = 1
    LastInstant = 1
    Absent = Absent
    Fixtures <- MCFixtures
    Arrivals <- MCArrivals
    Walks <- MCWalks
    StreamTeams = {1, 2}
    StreamSurfaces = {"ui", "v1"}
    StreamLimit = 2
    StreamGrace = 1
    DashboardRequests <- MCDashboards
    DashboardEpoch <- MCEpoch
    DayLength = 1
    MaxChanges = 2
    MaxCursorKeys = 2
    MaxClock = 2
SYMMETRY Symmetric
INVARIANTS
    TypeOK
    SnapshotCurrent
    OpensAgree
    HistoryMatchesDefinition
    ReadsComplete
CHECK_DEADLOCK FALSE
