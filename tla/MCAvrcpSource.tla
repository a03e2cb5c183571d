---------------------------- MODULE MCAvrcpSource ----------------------------
(* Small instances of AvrcpSource for TLC. *)
EXTENDS AvrcpSource, TLC

CONSTANTS a, poller, r1, f1

OneTitle == {a}
OneRefresher == {r1}
OneFetcher == {f1}
Either == {{"Track", "Status", "Position"}, {"Status", "Position"}}
PauseOnly == {"Pause"}
NoPhoneEvents == {}

\* Next treats the poller and a refresh started by a signal alike.
WorkerSymmetry == Permutations(Workers)
=============================================================================
