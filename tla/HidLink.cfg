SPECIFICATION FairSpec
CONSTANTS
    MaxPayload <- Unsorted
    Lengths <- OneToSeven
    MaxFrames = 3
INVARIANTS
    TypeOK
    IntactDelivered
PROPERTIES
    IsFrameLink
CHECK_DEADLOCK FALSE
