SPECIFICATION FairSpec
CONSTANTS
    MaxQueue = 11
    MaxKeys = 5
    QUEUE_SIZE = 4
    IdxMod = 8
INVARIANTS
    NeverDeaf
PROPERTIES
    DecodesPrefix
    SleepEnds
