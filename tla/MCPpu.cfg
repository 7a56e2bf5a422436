CONSTANTS
    T_CYCLES_PER_SCANLINE = 24
    SCANLINES_PER_FRAME = 5
    GB_HEIGHT = 3
    MODE2_OAM_T_CYCLES = 8
    DrawEnds <- SomeDrawEnds
    LycValues <- SomeLycs
SPECIFICATION FairSpec
INVARIANTS
    PpuInv
PROPERTIES
    VblankComes
    StatComes
    ImplementsPromise
