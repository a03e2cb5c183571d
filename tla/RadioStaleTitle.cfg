SPECIFICATION FairSyncSpec
CONSTANTS
    a = a
    b = b
    poller = poller
    f1 = f1
    NoTitle = NoTitle
    Titles <- OneTitle
    Poller = poller
    Refreshers <- NoGoroutines
    Fetchers <- NoGoroutines
    MaxTries = 1
    Replies <- WithTrack
    Methods <- NoMethods
    PhoneEvents <- NoPhoneEvents
    MaxEvents = 0
    Obedient = TRUE
    Timely = FALSE
    Lingoes <- Ext
    Masks <- IndexOnly
    IndexLimit = 2
PROPERTIES
    RadioShowsTitle
