SPECIFICATION Spec
CONSTANTS
    FrameKinds <- FewFrames
    MaxFrames = 3
    MaxRush = 2
    MaxErrors = 0
    MayEnd = FALSE
    SendIdentify = {FALSE}
    Patience = {FALSE}
INVARIANTS
    Faithful
CHECK_DEADLOCK FALSE
