CONSTANTS
    T_M_RATIO = 4
    BYTE = 4
    DIV_UNIT = 16
    COUNTER = 128
    HALF <- ScaledHalf
    BOOT_DIV = 2
    BOOT_COUNTER = 39
SPECIFICATION FairSpec
INVARIANTS
    SignalTracksCounter
    OwedIsPending
PROPERTIES
    OverflowRaisesInterrupt
    ImplementsPromise
