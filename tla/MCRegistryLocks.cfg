SPECIFICATION Spec
CONSTANTS
    Sessions = {s1, s2, s3}
    Executors <- MCExecutors
    Teams = {teamA}
    ExecutorTeam <- MCExecutorTeam
    Tasks = {1, 2}
    TaskTeam <- MCTaskTeam
    Seconds = {1}
    MaxTransactions = 3
    InitialTables <- MCInitialTables
    Nil = Nil
    teamA = teamA
    teamExecutor = teamExecutor
    systemExecutor = systemExecutor
CHECK_DEADLOCK FALSE
INVARIANTS
    TypeOK
    OffsetsDense
    OnlyForeignKeyDeadlock
PROPERTIES
    TransactionsEnd
    SerializedLifecycle
    FifoWithinTeam
    ArchivedTeamClosed
    NoLogAfterEnd
