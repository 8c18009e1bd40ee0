SPECIFICATION FairSpec
CONSTANTS
    Storefronts = {a, b}
    First = a
    MaxRows = 2
    MaxOnWay = 3
    MaxTicks = 2
    MaxFailures = 2
INVARIANTS IndInv OnePushOnItsWay ControlsAreForSelected RowTellsTheTruth DoneMeansSettled
PROPERTIES RowComesToAnEnd BatchComesToAnEnd DetailShowsResult
CHECK_DEADLOCK FALSE
