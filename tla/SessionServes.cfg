SPECIFICATION FairSpec
CONSTANTS
    FrameKinds <- Frames
    MaxFrames = 3
    MaxRush = 2
    MaxErrors = 1
    MayEnd = TRUE
    SendIdentify = {TRUE, FALSE}
    Patience = {TRUE, FALSE}
INVARIANTS
    TypeOK
    MessagesUnderstood
    FaithfulToPatient
    AnswersMatch
PROPERTIES
    RequestsAnswered
    LoopReturns
    RadioIsAsked
CHECK_DEADLOCK FALSE
