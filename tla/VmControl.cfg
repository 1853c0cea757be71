SPECIFICATION FairSpec
CONSTANTS
    k1 = k1
    s1 = s1
    N = 2
    Kickers <- MCKickers
    Stoppers <- MCStoppers
INVARIANTS
    TypeOK
    NoLostStop
    NoLostKick
    NoStaleThreadId
    NoDanglingRunPtr
    ErrorsReported
PROPERTIES
    StopTerminates
    KickServed
