SPECIFICATION FairSpec
CONSTANTS
    MaxSection = 2
    Versions <- AnyVersion
    Statuses <- EveryStatus
    TokenKinds <- EveryKind
    MaxTokens = 6
    MaxAttempts = 3
    MaxEarly = 2
    MaxLosses = 2
    Losable <- RadioRequests
INVARIANTS
    TypeOK
    TokensOfOneAttempt
    CertGapFree
    ReopenedForCause
PROPERTIES
    Streams
CHECK_DEADLOCK FALSE
