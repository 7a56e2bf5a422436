CONSTANTS
    NUM_BUTTONS = 4
    Line <- SomeLines
    Group <- SomeGroups
    JoypValues <- SomeJoyps
SPECIFICATION FairSpec
INVARIANTS
    JoypadInv
PROPERTIES
    RequestOnFall
    KeysArrive
