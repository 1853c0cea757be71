SPECIFICATION MachineSpec
CONSTANTS
    Machines <- MCMachines
    U64 = 1073741824
    ENTRIES = 4
    MaxWrites = 7
INVARIANTS
    MemoryWhole
    BootWhole
    TerminalRestored
    WritesConserved
    AccessSeesWrites
