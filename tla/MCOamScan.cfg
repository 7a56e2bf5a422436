CONSTANTS
    OBJECTS = 4
    MAX_OBJS = 2
    GB_HEIGHT = 2
    Ys <- MCYs
SPECIFICATION Spec
INVARIANTS OamScanInv FirstOnLine
