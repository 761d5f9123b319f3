SPECIFICATION Spec
CONSTANTS
    Teams = {teamA}
    Tags = {tag1}
    Executors = {e1}
    Tasks <- MCTasks
    Sources = {s1}
    Commands = {c1}
    EventIds <- MCEventIds
    CreatedEventId <- MCCreatedEventId
    ControlKeys = {k1}
    ControlEventIds <- MCControlEventIds
    Times <- MCTimes
    Resolution = 2
    Second = 2
    Nil = Nil
    NumTasks = 1
    NumEventIds = 3
    NumControlEventIds = 3
    LastInstant = 3
INVARIANTS
    LogTimesOrdered
    ReadBackFollowsLog
    EventRetryReplayed
    ControlProjectsLog
