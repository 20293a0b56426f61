CONSTANTS
    b1 = b1
    b2 = b2
    b3 = b3
    Nobody = Nobody
    Boards <- MCBoards
    Absent <- MCAbsent
    Slots  <- MCSlots
    QueueSize = 1
    Removals <- Patient
    FlashFails = FALSE
SPECIFICATION FairSpec
INVARIANT OneTaker
PROPERTY EveryBoardMines
