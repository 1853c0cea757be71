SPECIFICATION Spec
CONSTANTS
    k1 = k1
    s1 = s1
    N = 1
    Kickers <- MCKickers
    Stoppers <- MCStoppers
INVARIANTS
    NeverStaleThreadId
