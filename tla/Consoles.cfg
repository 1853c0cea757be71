SPECIFICATION ConsolesFairSpec
CONSTANTS
    MaxTyped = 4
INVARIANTS
    NoLostInterrupt
    TypedArrives
PROPERTIES
    TypedIsRead
