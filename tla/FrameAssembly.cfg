SPECIFICATION Spec
CONSTANTS
    N = 3
    Frames = 10
    NetCap = 3
    MaxFaults = 3
INVARIANTS TypeOK TailIsAFrame ImageBudget
