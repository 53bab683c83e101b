SPECIFICATION FairSpec
CONSTANTS
    j1 = j1
    j2 = j2
    j3 = j3
    Job = {j1, j2, j3}
    Role = {1, 2, 3, 4, 5, 6, 7}
    JobOf <- MixedJobOf
    Cooperative = {j1}
    DependsOn <- MixedDependsOn
    OutputRoles = {2, 4, 7}
    FansOut = {3}
    ShardCounts <- MixedShards
    FanIn <- MixedFanIn
    Exclusive = {1, 3}
    Fusable = {4}
    RunEntry = {1, 2, 3, 4, 5, 6, 7}
INVARIANTS
    NoLostWakeup
    LostWorkIsUncertain
PROPERTIES
    SettledRolesStay
    JobsSettle
