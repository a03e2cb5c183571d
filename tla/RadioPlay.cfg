SPECIFICATION FairSyncSpec
CONSTANTS
    a = a
    b = b
    poller = poller
    f1 = f1
    NoTitle = NoTitle
    Titles <- OneTitle
    Poller = poller
    Refreshers <- NoGoroutines
    Fetchers <- OneFetcher
    MaxTries = 1
    Replies <- StatusOnly
    Methods <- PlayCommand
    PhoneEvents <- Toggle
    MaxEvents = 1
    Obedient = TRUE
    Timely = TRUE
    Lingoes <- Disp
    Masks <- PlayOnly
    IndexLimit = 2
INVARIANTS
    PlayingKnown
    NoSilentPlay
PROPERTIES
    KeepsPromise
    RadioShowsPlay
