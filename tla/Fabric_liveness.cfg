SPECIFICATION FairSpec
CONSTANTS
    r1 = r1
    r2 = r2
    t1 = t1
    t2 = t2
    o1 = o1
    o2 = o2
    NoObject = NoObject
    NoIdent = NoIdent
    NoLease = NoLease
    Supports <- AnyPlacement
    Resource = {r1}
    Task = {t1}
    Exclusive = {}
    Object = {o1}
    Ident = {i1}
    Inputs <- NoInputs
    MembershipTTL = 1
    ExecutionTTL = 2
    ClockStepsBack = FALSE
    MaxTime = 4
    MaxExecution = 2
    MaxRegistrations = 2
PROPERTIES
    LapsedLeaseReaped
    SilentResourceLeaves
