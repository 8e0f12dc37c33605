SPECIFICATION Spec
CONSTANTS
    Heap <- MCHeap
    Script = Script
    ScriptOps <- MCScriptOps
    MaxOps = 3
    LongMod = 256
INVARIANTS TypeOK Faithful
PROPERTY KeepsPromise
