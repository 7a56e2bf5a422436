CONSTANT M_CYCLES_PER_FRAME = 3
SPECIFICATION FairSpec
INVARIANTS FramesInv NoTornPicture NoOldPicture
PROPERTIES CloseEnds
