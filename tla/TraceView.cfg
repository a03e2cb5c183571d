SPECIFICATION Spec
CONSTANTS
    Sizes = {1, 2, 3}
    MaxFrames = 2
    Cut = TRUE
INVARIANTS
    TypeOK
    PrintedInOrder
    AllPrinted
CHECK_DEADLOCK FALSE
