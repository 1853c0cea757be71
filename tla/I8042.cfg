SPECIFICATION Spec
CONSTANTS
    MaxQueue = 4
INVARIANTS
    NoLostInterrupt
    PrefixPaired
