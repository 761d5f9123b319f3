SPECIFICATION Spec
CONSTANTS
    Teams = {teamA, teamB}
    Tags = {tag1, tag2}
    Executors = {e1, e2}
    Tasks <- MCTasks
    Sources = {s1}
    Commands = {c1}
    EventIds <- MCEventIds
    CreatedEventId <- MCCreatedEventId
    ControlKeys = {}
    ControlEventIds <- MCControlEventIds
    Times <- MCTimes
    Resolution = 2
    Second = 2
    Nil = Nil
    NumTasks = 2
    NumEventIds = 2
    NumControlEventIds = 0
    LastInstant = 2
SYMMETRY Symmetry
INVARIANTS
    TypeOK
    StateProjectsLog
    TeamIsolation
    ClaimRetryReplayed
    DiscoveryHeadClaimable
PROPERTIES
    ImplementsLifecycle
