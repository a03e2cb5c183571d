---------------------------- MODULE HidTransport ----------------------------
(***************************************************************************)
(* Package hid: Encoder.WriteFrame cuts a frame into HID reports of the    *)
(* sizes in the report descriptor, Decoder.ReadFrame puts frames together  *)
(* again.  The two ends of a link run the same code here.                  *)
(*                                                                         *)
(* The link keeps the order of reports.  A decoder's result depends only   *)
(* on the reports that arrive, not on how many are under way, so one under *)
(* way at a time is enough.  The link may lose reports, fail to write them, *)
(* or bring them with a report id the descriptor does not have.            *)
(*                                                                         *)
(* Byte j of frame f is <<f, j>>, so any loss, mix or reordering shows.    *)
(***************************************************************************)
EXTENDS Naturals, Sequences

CONSTANTS
    MaxPayload,    \* MaxPayload() of the report definitions, in their order
    Lengths,       \* the lengths of frames
    MaxFrames      \* bound on the number of frames written

ASSUME HidAssumption ==
    /\ MaxPayload \in Seq(Nat \ {0}) /\ MaxPayload # <<>>
    /\ Lengths \subseteq Nat \ {0}
    /\ MaxFrames \in Nat

VARIABLES
    frame,         \* number of frames given to WriteFrame
    len,           \* the length of each of them
    offset,        \* WriteFrame's offset in the current frame
    wire,          \* the report under way, or NoReport
    reading,       \* a ReadFrame call is in progress
    buf,           \* Decoder.buf
    decoded,       \* number of frames that ReadFrame returned
    result,        \* the last of them, as it was when ReadFrame returned
    last,          \* the frame that its last report came from
    lost           \* frames of which a report did not arrive (ghost)

encoder == <<frame, len, offset>>
decoder == <<reading, buf, decoded, result, last>>
vars == <<encoder, wire, decoder, lost>>

DefIds == 1..Len(MaxPayload)
FrameIds == 1..MaxFrames
Pad == <<0, 0>>
Byte == (FrameIds \X (Nat \ {0})) \cup {Pad}
LinkControls == {"Done", "MoreToFollow", "Continue", "ContinueMoreToFollow"}
Report == [id : DefIds \cup {0}, link : LinkControls, frame : FrameIds, data : Seq(Byte)]
NoReport == [id |-> 0, link |-> "Done", frame |-> 0, data |-> <<>>]

Init ==
    /\ frame = 0 /\ offset = 0
    /\ len = [f \in 0..MaxFrames |-> 0]
    /\ wire = NoReport
    /\ reading = FALSE /\ buf = <<>> /\ decoded = 0
    /\ result = <<>> /\ last = 0
    /\ lost = {}

-----------------------------------------------------------------------------
(* Encoder. *)

Left == len[frame] - offset

\* Pick: the first definition that fits, else the last one of the direction.
Fits(size) == {d \in DefIds : MaxPayload[d] >= size}
Pick(size) ==
    IF Fits(size) = {} THEN Len(MaxPayload)
    ELSE CHOOSE d \in Fits(size) : \A e \in Fits(size) : d <= e

\* Mutation of PayloadLen: reports are always full.
PayloadLenFull(def) == MaxPayload[def]

PayloadLen(def) == IF Left > MaxPayload[def] THEN MaxPayload[def] ELSE Left

\* Mutation of LinkControl: the end of a frame is marked alike everywhere.
LinkControlDoneAtEnd(def) ==
    IF Left > MaxPayload[def]
    THEN IF offset = 0 THEN "MoreToFollow" ELSE "ContinueMoreToFollow"
    ELSE "Done"

LinkControl(def) ==
    IF Left > MaxPayload[def]
    THEN IF offset = 0 THEN "MoreToFollow" ELSE "ContinueMoreToFollow"
    ELSE IF offset = 0 THEN "Done" ELSE "Continue"

\* The payload, padded to the length of the report.
ReportData(def) ==
    [i \in 1..MaxPayload[def] |->
        IF i <= PayloadLen(def) THEN <<frame, offset + i>> ELSE Pad]

BeginFrame(n) ==
    /\ Left = 0
    /\ frame < MaxFrames
    /\ frame' = frame + 1
    /\ len' = [len EXCEPT ![frame + 1] = n]
    /\ offset' = 0
    /\ UNCHANGED <<wire, decoder, lost>>

\* One turn of WriteFrame's loop.
WriteReport ==
    /\ Left > 0
    /\ wire = NoReport
    /\ LET def == Pick(Left) IN
          /\ wire' = [id |-> def, link |-> LinkControl(def), frame |-> frame,
                      data |-> ReportData(def)]
          /\ offset' = offset + PayloadLen(def)
    /\ UNCHANGED <<frame, len, decoder, lost>>

\* WriteReport returns an error: so does WriteFrame, the rest is not sent.
WriteFails ==
    /\ Left > 0
    /\ offset' = len[frame]
    /\ lost' = lost \cup {frame}
    /\ UNCHANGED <<frame, len, wire, decoder>>

-----------------------------------------------------------------------------
(* The link (external). *)

Lose ==
    /\ wire # NoReport
    /\ wire' = NoReport
    /\ lost' = lost \cup {wire.frame}
    /\ UNCHANGED <<encoder, decoder>>

Garble ==
    /\ wire # NoReport
    /\ wire' = [wire EXCEPT !.id = 0]
    /\ lost' = lost \cup {wire.frame}
    /\ UNCHANGED <<encoder, decoder>>

-----------------------------------------------------------------------------
(* Decoder. *)

\* ReadFrame is called again once its caller is done with the last frame.
StartRead ==
    /\ ~reading
    /\ reading' = TRUE
    /\ buf' = <<>>
    /\ UNCHANGED <<encoder, wire, decoded, result, last, lost>>

\* Mutation of Accumulate: a report that starts a frame does not reset.
AccumulateAlways(r) == buf \o r.data

Accumulate(r) ==
    IF r.link \in {"Done", "MoreToFollow"} THEN r.data ELSE buf \o r.data

ReadReport ==
    /\ reading
    /\ wire # NoReport
    /\ wire.id \in DefIds
    /\ wire' = NoReport
    /\ buf' = Accumulate(wire)
    /\ IF wire.link \in {"Done", "Continue"}
       THEN /\ reading' = FALSE
            /\ decoded' = decoded + 1
            /\ result' = buf'
            /\ last' = wire.frame
       ELSE UNCHANGED <<reading, decoded, result, last>>
    /\ UNCHANGED <<encoder, lost>>

\* Find does not know the report id: ReadFrame returns the error.
ReadFails ==
    /\ reading
    /\ wire # NoReport
    /\ wire.id \notin DefIds
    /\ wire' = NoReport
    /\ reading' = FALSE
    /\ UNCHANGED <<encoder, buf, decoded, result, last, lost>>

-----------------------------------------------------------------------------
Next ==
    \/ \E n \in Lengths : BeginFrame(n)
    \/ WriteReport \/ WriteFails
    \/ Lose \/ Garble
    \/ StartRead \/ ReadReport \/ ReadFails

Spec == Init /\ [][Next]_vars

\* WriteFrame's loop runs to its end; the reading goroutine is started again
\* and runs.
FairSpec == Spec /\ WF_vars(WriteReport) /\ WF_vars(StartRead) /\ WF_vars(ReadReport)

-----------------------------------------------------------------------------
(* Correctness. *)

\* Every variable has its type; WriteFrame never reads past the frame.
TypeOK ==
    /\ frame \in 0..MaxFrames
    /\ len \in [0..MaxFrames -> Nat]
    /\ offset \in 0..len[frame]
    /\ wire \in Report \cup {NoReport}
    /\ reading \in BOOLEAN
    /\ buf \in Seq(Byte)
    /\ decoded \in Nat
    /\ result \in Seq(Byte)
    /\ last \in 0..MaxFrames
    /\ lost \in SUBSET FrameIds

Bytes(f) == [j \in 1..len[f] |-> <<f, j>>]

\* A sequence of bytes is frame f, followed by nothing but padding.
Holds(s, f) ==
    /\ Len(s) >= len[f]
    /\ \A j \in 1..Len(s) : s[j] = IF j <= len[f] THEN <<f, j>> ELSE Pad

\* Whatever was lost before it, and wherever the loss left the decoder, a
\* frame of which every report arrives is delivered whole and unmixed: the
\* decoder is in step again at the next report that starts a frame.
IntactDelivered == last \in FrameIds \ lost => Holds(result, last)

\* What ReadFrame returned, without the padding.
Payload == [j \in {i \in 1..Len(result) : result[i] # Pad} |-> result[j]]

\* As long as nothing is lost, the two ends are a FrameLink.
Link == INSTANCE FrameLink WITH
    Frames <- {[j \in 1..n |-> <<f, j>>] : f \in FrameIds, n \in Lengths},
    broken <- lost # {},
    inTransit <- IF lost # {} THEN <<>>
                 ELSE [i \in 1..(frame - decoded) |-> Bytes(decoded + i)],
    last <- IF lost # {} THEN <<>> ELSE Payload
IsFrameLink == Link!Spec
=============================================================================
