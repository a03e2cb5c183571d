SPECIFICATION FairSyncSpec
CONSTANTS
    a = a
    b = b
    poller = poller
    f1 = f1
    NoTitle = NoTitle
    Titles <- TwoTitles
    Poller = poller
    Refreshers <- NoGoroutines
    Fetchers <- OneFetcher
    MaxTries = 1
    Replies <- PositionOnly
    Methods <- NextRewind
    PhoneEvents <- TrackOnly
    MaxEvents = 1
    Obedient = TRUE
    Timely = FALSE
    Lingoes <- Ext
    Masks <- IndexOnOff
    IndexLimit = 2
INVARIANTS
    SyncTypeOK
    NoLostWakeup
    TitleKnown
    NoSilentTitle
PROPERTIES
    RadioShowsTitle
