SPECIFICATION FairSpec
CONSTANTS
    Num = 1
    IdxMod = 2
    MaxProbes = 1
    RX_PENDING_MAX = 2
    MaxFrames = 3
    UsedQueues = {0}
INVARIANTS
    FramesConserved
    NoStuckFrame
PROPERTIES
    FrameDelivered
    ImplementsVirtioMmio
