SPECIFICATION Spec
CONSTANTS
    Num = 1
    IdxMod = 4
    MaxProbes = 2
INVARIANTS
    NoLostInterrupt
    QueuesProgrammed
