CONSTANTS
    Activities = {a1, a2}
    Keys = {k1, k2}
    Placeholder = Placeholder
SPECIFICATION Spec
INVARIANTS
    TypeOK
    ShownIsComplete
    MissedStaysEmpty
    NothingIsLost
PROPERTIES
    EmptyOnlyIfMissed
    UiThreadReturns
CHECK_DEADLOCK FALSE
