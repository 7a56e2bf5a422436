CONSTANTS
    GB_WIDTH = 24
    Lines <- MCLines
    Writes <- MCWrites
    Zero <- MCZero
SPECIFICATION DrawSpec
CHECK_DEADLOCK FALSE
INVARIANTS PixelsInv
PROPERTIES ImplementsPromise
