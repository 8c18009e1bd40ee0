SPECIFICATION MCSpec
CONSTANTS
    Items = 1
    Lengths <- MCLengths
    PageSize = 2
    MaxPages = 2
    MaxChanges = 0
    MaxFaults = 0
PROPERTIES
    FetchAllMeansAll
