SPECIFICATION Spec
CONSTANTS
    Doc <- MCDoc
    Given = {"list", "map", "over"}
    Tag = {5, 6}
    Class = {"A", "B"}
    Fits = {"A"}
    Callback = {"f", "junk"}
    Callable = {"f"}
    MaxOps = 4
INVARIANT CallablesOnly
