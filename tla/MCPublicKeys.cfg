CONSTANTS
    LongMod = 32
    MaxTrips = 4
    Mangled = {"~hidden"}
    Order <- MCOrder
    IntOf <- MCIntOf
    Values <- MCValues
SPECIFICATION Spec
CHECK_DEADLOCK FALSE
INVARIANT PublicKeysOnly
