SPECIFICATION FairSpec
CONSTANTS
    Keys = {a, b}
    First = a
    NoKey = NoKey
    MaxOnWay = 2
    MaxChanges = 2
    MaxKeyed = 1
    MaxMisses = 2
INVARIANTS IndInv EmptyMeansEmpty ShowsTheSelected OwnChangeShown
PROPERTIES NothingOverwritten SpinnerEnds WatchingEnds
CHECK_DEADLOCK FALSE
