CONSTANTS
    As <- MCAs
    Bs <- MCBs
    Words <- MCWords
SPECIFICATION AluSpec
CHECK_DEADLOCK FALSE
INVARIANTS BytesRight DecimalRight WordsRight
