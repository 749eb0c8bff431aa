SPECIFICATION Spec
CONSTANTS
    HexDigits = 2
    PAGE_SIZE = 2
    PTRS_PER_PTE = 2
    PTRS_PER_PGD = 3
    Sections = {2}
    Frames = {1, 2}
    LastMm = 2
    Addrs = {0, 1, 3, 4, 5, 8, 11}
    PfnMaps <- MCPfnMaps
INVARIANT RemapsEmptyPtes
