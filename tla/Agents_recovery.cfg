\* An Exclusive producer and its replay-safe consumer, with two faults.
SPECIFICATION FairSpec
CONSTANTS
    a1 = a1
    a2 = a2
    t1 = t1
    t2 = t2
    t3 = t3
    NoTask = NoTask
    NoLease = NoLease
    NoWork = NoWork
    Execution <- Executions
    Resource = {a1, a2}
    Task = {t1, t2}
    Exclusive = {t1}
    Empty = {}
    Input <- ChainInput
    Supports <- AllSupported
    Cost <- CheaperFirst
    Order <- InOrder
    MaxFaults = 2
INVARIANTS
    TypeOK
    ExclusiveRunsAlone
    HoldersHaveBytes
    AttemptsBoundedByFaults
PROPERTIES
    AgentsRejoin
    WorkGetsDone
    ImplementsLedger
