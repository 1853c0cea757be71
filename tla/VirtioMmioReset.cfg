SPECIFICATION Spec
CONSTANTS
    Num = 2
    IdxMod = 4
    MaxProbes = 2
INVARIANT TakesOnlyAvailable
