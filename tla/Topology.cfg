SPECIFICATION FairSpec
CONSTANTS
    Resource = {1, 2, 3}
    Measured = {fast}
    Configured = {slow}
    Unreachable = Unreachable
    NoLink = NoLink
    Budgets <- PairOrTriple
    MaxReports = 2
INVARIANTS
    TypeOK
    OneLinkPerPair
    ManualLinkStands
    AutomaticLinksAmongMembers
PROPERTIES
    UnreachableLinkWithdrawn
