\* The part of the inductive invariant that is about page loops; by hand.
SPECIFICATION MCSpec
CONSTANTS
    Items = 2
    Lengths <- MCLengths
    PageSize = 2
    MaxPages = 3
    MaxChanges = 2
    MaxFaults = 2
INVARIANTS
    TypeOK
    PagesInv
