SPECIFICATION Spec
CONSTANTS
    Handle = {1, 2, 3}
    Arr = {1, 2}
    MaxVars = 1
    MaxCopies = 1
    MaxCalls = 1
    MaxLost = 1
INVARIANT MapperMandatory
CHECK_DEADLOCK FALSE
