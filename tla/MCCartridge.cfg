CONSTANTS
    Headers <- MCHeaders
    Values <- MCValues
SPECIFICATION BanksSpec
CHECK_DEADLOCK FALSE
INVARIANTS InBounds BanksApart
