----------------------------- MODULE MCRadioSync -----------------------------
(* Small instances of RadioSync for TLC. *)
EXTENDS RadioSync

CONSTANTS a, b, poller, f1

OneTitle == {a}
TwoTitles == {a, b}
TrackOnly == {"track"}
OneFetcher == {f1}
NoGoroutines == {}

PositionOnly == {{"Position"}}
WithTrack == {{"Track", "Status", "Position"}}
StatusOnly == {{"Status"}}

NoMethods == {}
PlayCommand == {"Play"}
NextRewind == {"Next", "Rewind"}
Toggle == {"toggle"}
NoPhoneEvents == {}

Ext == {"ext"}
Disp == {"disp"}
PlayOnly == {{"play"}}
IndexOnly == {{"index"}}
IndexOnOff == {{}, {"index"}}
=============================================================================
