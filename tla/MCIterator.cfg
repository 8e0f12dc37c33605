SPECIFICATION Spec
CONSTANTS
    Driver = {"foreach", "internal", "dual"}
    MaxSize = 4
INVARIANTS TypeOK KeyMatches NullMeansEnd DiesAtRefused
PROPERTY LoopEnds
CHECK_DEADLOCK FALSE
