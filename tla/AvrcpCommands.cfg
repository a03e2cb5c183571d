SPECIFICATION Spec
CONSTANTS
    a = a
    poller = poller
    r1 = r1
    f1 = f1
    NoTitle = NoTitle
    Titles <- OneTitle
    Poller = poller
    Refreshers <- OneRefresher
    Fetchers <- OneFetcher
    MaxTries = 2
    Replies <- Either
    Methods <- PauseOnly
    PhoneEvents <- NoPhoneEvents
    MaxEvents = 1
    Obedient = TRUE
    Timely = TRUE
INVARIANTS
    TypeOK
    BaselineOnlyWhilePlaying
PROPERTIES
    NoBounce
SYMMETRY WorkerSymmetry
