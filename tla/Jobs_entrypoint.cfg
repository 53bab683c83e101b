SPECIFICATION Spec
CONSTANTS
    j1 = j1
    j2 = j2
    j3 = j3
    Job = {j1}
    Role = {1, 2, 3, 4, 5, 6}
    JobOf <- FusionJobOf
    Cooperative = {}
    DependsOn <- FusionDependsOn
    OutputRoles = {6}
    FansOut = {5}
    ShardCounts <- FusionShards
    FanIn <- FusionFanIn
    Exclusive = {}
    Fusable = {1, 2, 3, 4}
    RunEntry = {1, 3, 4, 5, 6}
INVARIANTS
    SelectedPrefixIsSubmitted
