SPECIFICATION Spec
CONSTANTS
    Heap <- MCHeap
    Script = Script
    ScriptOps <- MCScriptOps
    MaxOps = 3
    LongMod = 256
INVARIANTS FrameDiscipline Faithful
PROPERTY SparesUserBuilder
