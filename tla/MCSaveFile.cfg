CONSTANTS
    Roms <- MCRoms
    RamSize <- MCRamSize
    Paths <- MCPaths
    MaxVersion = 2
SPECIFICATION Spec
CHECK_DEADLOCK FALSE
INVARIANTS SaveFileInv NamedLikeRom
PROPERTIES ReopenedAsLeft
