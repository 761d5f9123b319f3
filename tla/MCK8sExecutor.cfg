SPECIFICATION Spec
CONSTANTS
    Tasks = {1, 2, 3}
    MaxPods = 2
    Profiles <- MCProfiles
INVARIANTS
    TypeOK
    StartedOnce
    PodsWithinCapacity
    OutcomeKept
    RunningPodRemembered
PROPERTIES
    FailedPodFreesSlot
CHECK_DEADLOCK FALSE
