CONSTANTS
    LEN = 4
    Pages <- FivePages
    PageKind <- KindOfPage
SPECIFICATION FairSpec
INVARIANTS
    PrefixCopied
    CpuSeesTransfer
    LastRequestWins
PROPERTIES
    TransferEndsWhole
    ComesToRest
