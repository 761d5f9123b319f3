SPECIFICATION Spec
CONSTANTS
    Teams = {teamA}
    Tags = {tag1}
    Executors = {e1}
    Tasks <- MCTasks
    Sources = {s1}
    Commands = {c1}
    EventIds <- MCEventIds
    CreatedEventId <- MCCreatedEventId
    ControlKeys = {}
    ControlEventIds <- MCControlEventIds
    Times <- MCTimes
    Resolution = 2
    Second = 2
    Nil = Nil
    NumTasks = 1
    NumEventIds = 2
    NumControlEventIds = 0
    LastInstant = 3
INVARIANT EveryEventRetryReplayed
