SPECIFICATION Spec
CONSTANTS
    a1 = a1
    a2 = a2
    a3 = a3
    Agent = {a1, a2, a3}
    Content <- TwoContents
    Wanted <- ThreeBytes
    Uploads <- SomeUploads
    Fetcher = {a1, a2}
    Ranges <- SomeRanges
    Missing = Missing
    MaxFaults = 1
INVARIANTS
    NeverWrongBytes
    FilesAreWhole
    LocationsHoldObject
    FallsOver
    NoFaultNoFailure
