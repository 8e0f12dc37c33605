SPECIFICATION Spec
CONSTANTS
    Heap <- MCHeap
    Script = Script
    ScriptOps <- MCScriptOps
    MaxOps = 1
    LongMod = 256
    MaxWords = 3
    MaxTagWords = 2
INVARIANTS Faithful NestedWins
