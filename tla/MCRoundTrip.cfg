CONSTANTS
    LongMod = 32
    MaxTrips = 4
    Mangled = {"~hidden"}
    Order <- MCOrder
    IntOf <- MCIntOf
    Values <- MCValues
SPECIFICATION Spec
INVARIANTS TypeOK Exact Settles ReadByHand NumbersInDocument ForeachReads
CHECK_DEADLOCK FALSE
