SPECIFICATION Spec
CONSTANTS
    Tasks = {1, 2, 3}
    Scope = "system"
    MaxContainers = 2
    PortStart = 1
    PortEnd = 2
    Profiles <- MCProfiles
CHECK_DEADLOCK FALSE
INVARIANT EverySlotReported
