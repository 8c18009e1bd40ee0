SPECIFICATION Spec
CONSTANTS
    Keys = {a, b}
    First = a
    NoKey = NoKey
    MaxOnWay = 2
    MaxChanges = 2
    MaxKeyed = 1
    MaxMisses = 2
INVARIANT NoRulesMeansNoRules
CHECK_DEADLOCK FALSE
