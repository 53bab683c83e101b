SPECIFICATION Spec
CONSTANTS
    r1 = r1
    r2 = r2
    t1 = t1
    t2 = t2
    o1 = o1
    o2 = o2
    NoObject = NoObject
    NoIdent = NoIdent
    NoLease = NoLease
    Supports <- AnyPlacement
    Resource = {r1, r2}
    Task = {t1, t2}
    Exclusive = {t1}
    Object = {o1}
    Ident = {i1, i2}
    Inputs <- ChainInputs
    MembershipTTL = 1
    ExecutionTTL = 2
    ClockStepsBack = FALSE
    MaxTime = 4
    MaxExecution = 3
    MaxRegistrations = 2
SYMMETRY ResourceSymmetry
INVARIANTS
    ExclusiveAttemptedOnce
    OneLiveLeasePerResource
    EndpointsMatchMembership
    OutputAsReported
PROPERTIES
    FencedForever
    ObjectsImmutable
