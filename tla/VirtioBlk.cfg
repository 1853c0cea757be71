CHECK_DEADLOCK FALSE
SPECIFICATION FairSpec
CONSTANTS
    Num = 2
    IdxMod = 4
    SECTOR_SIZE = 2
    U64 = 16
    U32 = 4
    FileLen = 5
    Values = {0, 1}
    Requests <- MCRequests
    MaxFaults = 1
INVARIANTS
    ChainsConserved
    AnswersTrue
    UsedLenTrue
PROPERTIES
    ImplementsChainQueue
    RequestsComeBack
