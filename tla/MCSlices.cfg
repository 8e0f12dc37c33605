SPECIFICATION Spec
SYMMETRY Places
CONSTANTS
    Slot = {x1, x2, x3}
    Iter = {11}
    Str = {"s", "t"}
    Base <- MCBase
    Kids <- MCKids
    Kind <- MCKind
    NoneAddr = 500
    Offset <- MCOffset
    MaxHolds = 3
    MaxRefs = 2
INVARIANTS TypeOK PointsAtValue MissingReadsNone NeverEarly ExactWhenTidy InOrder
CHECK_DEADLOCK FALSE
