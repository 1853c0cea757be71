SPECIFICATION VgaSpec
CONSTANTS
    Clients = {c1, c2}
    PAGE_SIZE = 3
    WIDTH = 2
    HEIGHT = 2
    RingMax = 1
    MaxEvents = 3
    MaxFrames = 3
INVARIANTS
    NoStalePixel
SYMMETRY ClientSymmetry
