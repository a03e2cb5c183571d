------------------------------ MODULE FrameLink ------------------------------
(***************************************************************************)
(* What a transport promises the layer above it (FrameReader, FrameWriter): *)
(* frames written come out of ReadFrame whole, once and in order, as long  *)
(* as nothing is lost below.  A link that loses something is broken, and   *)
(* promises no more here.                                                  *)
(***************************************************************************)
EXTENDS Sequences

CONSTANT Frames

VARIABLES
    inTransit,     \* the frames written and not yet read
    last,          \* the frame read last, <<>> before the first
    broken

link == <<inTransit, last, broken>>

Init == inTransit = <<>> /\ last = <<>> /\ broken = FALSE

Write(f) ==
    /\ ~broken
    /\ inTransit' = Append(inTransit, f)
    /\ UNCHANGED <<last, broken>>

Read ==
    /\ inTransit # <<>>
    /\ last' = Head(inTransit)
    /\ inTransit' = Tail(inTransit)
    /\ UNCHANGED broken

Break ==
    /\ broken' = TRUE
    /\ inTransit' = <<>> /\ last' = <<>>

Next == Read \/ Break \/ \E f \in Frames : Write(f)

Spec == Init /\ [][Next]_link /\ WF_link(Read)
=============================================================================
