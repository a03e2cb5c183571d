SPECIFICATION Spec
CONSTANTS
    TrackLength = 8
    Duration = 9
    PollEvery = 2
    ReportEvery = 2
    GuardLength = 4
    TickerEvery = 2
    Units = {"ms", "sec"}
INVARIANTS
    Accurate
    TimerFollows
PROPERTIES
    Smooth
