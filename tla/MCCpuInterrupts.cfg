CONSTANTS
    ADDRESSES = 4
    OPCODES <- InterruptOpcodes
    Requests <- TwoSources
    IfValues <- FlagBytes
    IeValues <- EnableBytes
SPECIFICATION FairSpec
INVARIANTS
    CpuInv
PROPERTIES
    NotWhileMasked
    GlitchOnlyByPush
    TimingMatches
    PendingIsTaken
