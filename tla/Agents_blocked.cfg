\* The output of the producer is empty, and one agent may stop.
SPECIFICATION FairSpec
CONSTANTS
    a1 = a1
    a2 = a2
    t1 = t1
    t2 = t2
    t3 = t3
    NoTask = NoTask
    NoLease = NoLease
    NoWork = NoWork
    Execution <- Executions
    Resource = {a1, a2}
    Task = {t1, t2, t3}
    Exclusive = {}
    Empty = {t1}
    Input <- ChainInput
    Supports <- AllSupported
    Cost <- CheaperFirst
    Order <- InOrder
    MaxFaults = 1
PROPERTIES
    OthersContinue
