SPECIFICATION Spec
CONSTANTS
    Handle = {1, 2, 3}
    Arr = {1, 2}
    MaxVars = 1
    MaxCopies = 1
    MaxCalls = 1
    MaxLost = 1
INVARIANTS
    TypeOK
    CountsExact
    RunningBuilder
    SafeIfTame
    CleanEnd
PROPERTY MappersStay
CHECK_DEADLOCK FALSE
