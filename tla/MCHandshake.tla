----------------------------- MODULE MCHandshake -----------------------------
(* Small instances of Handshake for TLC. *)
EXTENDS Handshake

AnyVersion == {1, 2}
EveryStatus == {"Continue", "Reset", "Abandon", "NewLink"}
EveryKind == {"known", "unknown", "broken"}
RadioRequests == Requests \cup Answers
=============================================================================
