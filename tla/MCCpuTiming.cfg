CONSTANTS
    ADDRESSES = 5
    OPCODES <- TimingOpcodes
    Requests = {}
    IfValues = {}
    IeValues = {}
SPECIFICATION Spec
INVARIANTS
    OneBusAccess
PROPERTIES
    TimingMatches
    FootprintMatches
