SPECIFICATION RfbFairSpec
CONSTANTS
    Height = 2
    Formats = {f1, f2}
    Overflowing = {f2}
    DEFAULT = f1
    MaxMsgs = 4
    MaxFrame = 2
    Window = 1
INVARIANTS
    NoStaleRow
PROPERTIES
    RequestAnswered
    KeysGetThrough
    SessionEnds
    SessionStarts
