SPECIFICATION MCSpec
CONSTANTS
    Items = 2
    Lengths <- MCLengths
    PageSize = 2
    MaxPages = 3
    MaxChanges = 2
    MaxFaults = 2
INVARIANTS
    FailureReported
    WrittenAtMostOnce
    AppliedWriteReported
PROPERTIES
    WholeListReturned
    DriftIsOneSided
    RunEnds
