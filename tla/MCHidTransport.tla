---------------------------- MODULE MCHidTransport ----------------------------
(* Small instances of HidTransport for TLC: three kinds of reports. *)
EXTENDS HidTransport

Unsorted == <<2, 1, 3>>

OneToSeven == 1..7
=============================================================================
