SPECIFICATION Spec
CONSTANTS
    Tasks = {1, 2, 3}
    Scope = "system"
    MaxContainers = 2
    PortStart = 1
    PortEnd = 2
    Profiles <- MCProfiles
INVARIANTS
    TypeOK
    OneTerminalEvent
    CapacityHeld
    PortsDistinct
    ReportedUnlessClosed
PROPERTIES
    EndsOnlyRunning
    DrainLeavesNothing
    EndedSlotFreed
CHECK_DEADLOCK FALSE
