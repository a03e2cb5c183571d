-------------------------- MODULE HidTransportProofs --------------------------
(***************************************************************************)
(* For every set of report types, every frame length and any losses:       *)
(* a frame of which every report arrives is delivered whole.               *)
(***************************************************************************)
EXTENDS HidTransport, SequenceTheorems, WellFoundedInduction, TLAPS

\* The first n bytes of frame f, and nothing else.
IsPrefix(s, f, n) == Len(s) = n /\ \A j \in 1..n : s[j] = <<f, j>>

\* What the decoder would hold after the report under way, if it arrived
\* now: the whole frame if it is the last one, else all that was sent.
WireInv ==
    wire # NoReport /\ wire.frame \notin lost =>
        /\ wire.id \in DefIds
        /\ wire.link \in {"Continue", "ContinueMoreToFollow"} => reading
        /\ wire.link \in {"Done", "Continue"} => Holds(Accumulate(wire), wire.frame)
        /\ wire.link \in {"MoreToFollow", "ContinueMoreToFollow"} =>
               /\ wire.frame = frame
               /\ offset < len[frame]
               /\ IsPrefix(Accumulate(wire), frame, offset)

\* With nothing under way the decoder holds all that was sent of a frame
\* that is under way and intact.
BufInv ==
    wire = NoReport /\ frame \notin lost /\ 0 < offset /\ offset < len[frame] =>
        reading /\ IsPrefix(buf, frame, offset)

\* Frames not begun are not under way, not lost, and have no length.  While a
\* frame is partly sent, what is under way is of it and is not its last report.
FrameInv ==
    /\ wire.frame <= frame
    /\ wire # NoReport /\ 0 < offset /\ offset < len[frame] =>
           wire.frame = frame /\ wire.link \in {"MoreToFollow", "ContinueMoreToFollow"}
    /\ last <= frame
    /\ \A f \in lost : f <= frame
    /\ len[0] = 0

IInv == TypeOK /\ FrameInv /\ WireInv /\ BufInv /\ IntactDelivered

LEMMA SmallestOf ==
    ASSUME NEW T \in SUBSET Nat, T # {}
    PROVE  \E x \in T : \A y \in T : x <= y
<1> DEFINE Less == {p \in Nat \X Nat : p[1] < p[2]}
<1>1. IsWellFoundedOn(Less, Nat)
    BY NatLessThanWellFounded, Zenon DEF OpToRel
<1>2. PICK x \in T : \A y \in T : ~(<<y, x>> \in Less)
    BY <1>1, WFMin
<1>3. \A y \in T : <<y, x>> \in Less \/ x <= y
  <2>1. \A y \in Nat : y < x \/ x <= y
      OBVIOUS
  <2> QED
      BY <2>1
<1> QED
    BY <1>2, <1>3

\* Pick always finds a definition: the descriptor has at least one.
LEMMA PickType ==
    ASSUME NEW n \in Nat
    PROVE  Pick(n) \in DefIds
<1>1. Len(MaxPayload) \in DefIds
    BY HidAssumption, EmptySeq, LenProperties DEF DefIds
<1>2. Fits(n) \in SUBSET Nat
    BY HidAssumption, LenProperties DEF Fits, DefIds
<1>3. ASSUME Fits(n) # {} PROVE \E d \in Fits(n) : \A e \in Fits(n) : d <= e
    BY <1>2, <1>3, SmallestOf
<1> QED
    BY <1>1, <1>3 DEF Pick, Fits

\* A report carries at least one byte and never more than is left.
LEMMA PayloadType ==
    ASSUME TypeOK, Left > 0, NEW def \in DefIds
    PROVE  /\ Left \in Nat /\ len[frame] \in Nat /\ offset \in Nat
           /\ MaxPayload[def] \in Nat \ {0}
           /\ PayloadLen(def) \in 1..Left
           /\ offset + PayloadLen(def) \in 1..len[frame]
           /\ offset + PayloadLen(def) = len[frame] <=> ~(Left > MaxPayload[def])
<1>1. len[frame] \in Nat /\ offset \in 0..len[frame]
    BY DEF TypeOK
<1>2. MaxPayload[def] \in Nat \ {0}
    BY HidAssumption, ElementOfSeq DEF DefIds
<1> QED
    BY <1>1, <1>2 DEF Left, PayloadLen

\* The data of a report is a sequence of bytes: its payload, then padding.
LEMMA DataType ==
    ASSUME TypeOK, FrameInv, Left > 0, NEW def \in DefIds
    PROVE  /\ frame \in FrameIds
           /\ ReportData(def) \in Seq(Byte)
           /\ Len(ReportData(def)) = MaxPayload[def]
           /\ \A i \in 1..MaxPayload[def] :
                 ReportData(def)[i] = IF i <= PayloadLen(def) THEN <<frame, offset + i>> ELSE Pad
<1>1. /\ offset \in Nat /\ MaxPayload[def] \in Nat /\ len[frame] \in Nat
      /\ PayloadLen(def) \in Nat
    BY PayloadType
<1>2. frame \in FrameIds
  <2>1. frame # 0
      BY <1>1 DEF FrameInv, TypeOK, Left
  <2> QED
      BY <2>1, HidAssumption DEF TypeOK, FrameIds
<1>3. \A i \in 1..MaxPayload[def] : (IF i <= PayloadLen(def) THEN <<frame, offset + i>> ELSE Pad) \in Byte
  <2>1. \A i \in 1..MaxPayload[def] : offset + i \in Nat \ {0}
      BY <1>1
  <2> QED
      BY <1>2, <2>1 DEF Byte
<1>4. ReportData(def) \in [1..MaxPayload[def] -> Byte]
    BY <1>3 DEF ReportData
<1>5. ReportData(def) \in Seq(Byte) /\ Len(ReportData(def)) = MaxPayload[def]
    BY <1>1, <1>4
<1> QED
    BY <1>2, <1>5 DEF ReportData

LEMMA AccumulateType ==
    ASSUME TypeOK, wire # NoReport
    PROVE  Accumulate(wire) \in Seq(Byte)
BY ConcatProperties DEF TypeOK, Report, Accumulate


LEMMA InitInv == Init => IInv
<1> SUFFICES ASSUME Init PROVE IInv
    OBVIOUS
<1>1. MaxFrames \in Nat
    BY HidAssumption
<1>2. TypeOK
  <2>1. len \in [0..MaxFrames -> Nat] /\ len[0] = 0 /\ frame = 0 /\ offset = 0
      BY <1>1 DEF Init
  <2>2. <<>> \in Seq(Byte)
      BY EmptySeq
  <2>3. /\ frame \in 0..MaxFrames /\ offset \in 0..len[frame]
        /\ decoded \in Nat /\ last \in 0..MaxFrames
      BY <1>1, <2>1 DEF Init
  <2>4. /\ wire \in Report \cup {NoReport} /\ reading \in BOOLEAN
        /\ lost \in SUBSET FrameIds
      BY DEF Init
  <2>5. buf \in Seq(Byte) /\ result \in Seq(Byte)
      BY <2>2, Zenon DEF Init
  <2> QED
      BY <2>1, <2>3, <2>4, <2>5, Zenon DEF TypeOK
<1>3. FrameInv
    BY <1>1 DEF FrameInv, Init, NoReport
<1>4. WireInv /\ BufInv
    BY DEF WireInv, BufInv, Init
<1>5. IntactDelivered
    BY <1>1 DEF IntactDelivered, Init, FrameIds
<1> QED
    BY <1>2, <1>3, <1>4, <1>5 DEF IInv

-----------------------------------------------------------------------------
(* The steps of the encoder. *)

LEMMA BeginFrameInv ==
    ASSUME IInv, NEW n \in Lengths, BeginFrame(n)
    PROVE  IInv'
<1> USE DEF BeginFrame
<1>1. /\ frame \in Nat /\ MaxFrames \in Nat /\ n \in Nat \ {0}
      /\ frame + 1 \in 0..MaxFrames /\ len \in [0..MaxFrames -> Nat]
    BY HidAssumption DEF IInv, TypeOK
<1>2. TypeOK'
    BY <1>1 DEF IInv, TypeOK, encoder, decoder
<1>3. wire.frame \in Nat /\ wire.frame <= frame /\ last \in Nat /\ last <= frame
    BY <1>1 DEF IInv, FrameInv, TypeOK, Report, NoReport, FrameIds
<1>4. \A f \in 0..MaxFrames : f <= frame => len'[f] = len[f]
    BY <1>1
<1>5. FrameInv'
    BY <1>1, <1>3, <1>4 DEF IInv, FrameInv, TypeOK, FrameIds, decoder
<1>6. ASSUME wire # NoReport, wire.frame \notin lost PROVE wire.link \in {"Done", "Continue"}
  <2>1. ~(offset < len[frame])
      BY <1>1 DEF IInv, TypeOK, Left
  <2>2. wire.link \in LinkControls
      BY <1>6 DEF IInv, TypeOK, Report
  <2> QED
      BY <1>6, <2>1, <2>2 DEF IInv, WireInv, LinkControls
<1>7. wire.frame \in 0..MaxFrames /\ last \in 0..MaxFrames
    BY <1>1, <1>3
<1>8. WireInv'
    BY <1>4, <1>6, <1>7, <1>3 DEF IInv, WireInv, decoder, Accumulate, Holds
<1>9. BufInv'
    BY DEF BufInv
<1>10. IntactDelivered'
    BY <1>4, <1>7, <1>3 DEF IInv, IntactDelivered, decoder, Holds
<1> QED
    BY <1>2, <1>5, <1>8, <1>9, <1>10 DEF IInv

LEMMA ConcatAt ==
    ASSUME NEW s \in Seq(Byte), NEW t \in Seq(Byte)
    PROVE  /\ s \o t \in Seq(Byte)
           /\ Len(s \o t) = Len(s) + Len(t)
           /\ \A j \in 1..Len(s) + Len(t) :
                 (s \o t)[j] = IF j <= Len(s) THEN s[j] ELSE t[j - Len(s)]
BY ConcatProperties

LEMMA WriteReportInv ==
    ASSUME IInv, WriteReport
    PROVE  IInv'
<1> DEFINE def == Pick(Left)
           pay == PayloadLen(def)
<1> USE DEF WriteReport
<1>1. TypeOK /\ FrameInv /\ Left > 0 /\ Left \in Nat
    BY DEF IInv, TypeOK, Left
<1>2. def \in DefIds
    BY <1>1, PickType
<1>3. /\ len[frame] \in Nat /\ offset \in Nat
      /\ MaxPayload[def] \in Nat \ {0}
      /\ pay \in 1..Left
      /\ offset + pay \in 1..len[frame]
      /\ offset + pay = len[frame] <=> ~(Left > MaxPayload[def])
    BY <1>1, <1>2, PayloadType
<1>4. /\ frame \in FrameIds
      /\ ReportData(def) \in Seq(Byte)
      /\ Len(ReportData(def)) = MaxPayload[def]
      /\ \A i \in 1..MaxPayload[def] :
            ReportData(def)[i] = IF i <= pay THEN <<frame, offset + i>> ELSE Pad
    BY <1>1, <1>2, DataType
<1>5. LinkControl(def) \in LinkControls
    BY DEF LinkControl, LinkControls
<1>6. pay = IF Left > MaxPayload[def] THEN MaxPayload[def] ELSE Left
    BY DEF PayloadLen
<1> HIDE DEF def, pay
<1>7. /\ wire' = [id |-> def, link |-> LinkControl(def), frame |-> frame,
                  data |-> ReportData(def)]
      /\ offset' = offset + pay
      /\ UNCHANGED <<frame, len, decoder, lost>>
    BY DEF def, pay
<1>8. /\ wire' \in Report /\ wire'.frame = frame /\ wire'.id = def
      /\ wire'.link = LinkControl(def) /\ wire'.data = ReportData(def)
    BY <1>2, <1>4, <1>5, <1>7 DEF Report
<1>9. TypeOK'
  <2>1. offset' \in 0..len'[frame']
      BY <1>3, <1>7
  <2> QED
      BY <1>1, <1>7, <1>8, <2>1 DEF TypeOK, decoder
<1>10. frame \in Nat
    BY <1>1 DEF TypeOK
<1>11. Left = len[frame] - offset
    BY DEF Left
<1>12. IF Left > MaxPayload[def]
       THEN /\ LinkControl(def) \in {"MoreToFollow", "ContinueMoreToFollow"}
            /\ LinkControl(def) = "MoreToFollow" <=> offset = 0
       ELSE /\ LinkControl(def) \in {"Done", "Continue"}
            /\ LinkControl(def) = "Done" <=> offset = 0
    BY DEF LinkControl
<1>13. FrameInv'
  <2>1. offset' < len'[frame'] => Left > MaxPayload[def]
      BY <1>3, <1>7
  <2> QED
      BY <1>1, <1>7, <1>8, <1>10, <1>12, <2>1 DEF FrameInv, decoder
<1>14. ASSUME frame \notin lost, offset # 0 PROVE reading /\ IsPrefix(buf, frame, offset)
    BY <1>1, <1>3, <1>11, <1>14 DEF IInv, BufInv
<1>15. buf \in Seq(Byte) /\ Accumulate(wire)' = IF offset = 0 THEN ReportData(def) ELSE buf \o ReportData(def)
    BY <1>1, <1>7, <1>8, <1>12 DEF TypeOK, Accumulate, decoder
<1>16. ASSUME frame \notin lost
       PROVE  /\ Len(Accumulate(wire)') = offset + MaxPayload[def]
              /\ \A j \in 1..offset + MaxPayload[def] :
                    Accumulate(wire)'[j] = IF j <= offset + pay THEN <<frame, j>> ELSE Pad
  <2>1. CASE offset = 0
      BY <1>3, <1>4, <1>15, <2>1
  <2>2. CASE offset # 0
    <3>1. Len(buf) = offset /\ \A j \in 1..offset : buf[j] = <<frame, j>>
        BY <1>14, <1>16, <2>2 DEF IsPrefix
    <3>2. /\ Len(Accumulate(wire)') = offset + MaxPayload[def]
          /\ \A j \in 1..offset + MaxPayload[def] :
                Accumulate(wire)'[j] = IF j <= offset THEN buf[j] ELSE ReportData(def)[j - offset]
      <4>1. Accumulate(wire)' = buf \o ReportData(def) /\ buf \in Seq(Byte)
          BY <1>15, <2>2
      <4> QED
          BY <1>4, <3>1, <4>1, ConcatAt
    <3>3. ASSUME NEW j \in 1..offset + MaxPayload[def], j > offset
          PROVE  ReportData(def)[j - offset] = IF j <= offset + pay THEN <<frame, j>> ELSE Pad
      <4>1. j - offset \in 1..MaxPayload[def] /\ offset + (j - offset) = j
          BY <1>3, <3>3
      <4>2. j - offset <= pay <=> j <= offset + pay
          BY <1>3, <3>3
      <4> QED
          BY <1>4, <4>1, <4>2
    <3>4. ASSUME NEW j \in 1..offset + MaxPayload[def], ~(j > offset)
          PROVE  j \in 1..offset /\ j <= offset /\ j <= offset + pay
        BY <1>3, <3>4
    <3>5. \A j \in 1..offset + MaxPayload[def] : j > offset => ~(j <= offset)
        BY <1>3
    <3> QED
        BY <3>1, <3>2, <3>3, <3>4, <3>5
  <2> QED
      BY <2>1, <2>2
<1>17. WireInv'
  <2>1. LinkControl(def) \in {"Continue", "ContinueMoreToFollow"} /\ frame \notin lost => reading
      BY <1>12, <1>14
  <2>2. ASSUME frame \notin lost, LinkControl(def) \in {"Done", "Continue"}
        PROVE  Holds(Accumulate(wire), wire.frame)'
    <3>1. offset + pay = len[frame] /\ ~(Left > MaxPayload[def])
        BY <1>3, <1>12, <2>2
    <3>2. offset + MaxPayload[def] >= len[frame]
        BY <1>3, <1>11, <3>1
    <3> QED
        BY <1>7, <1>8, <1>16, <2>2, <3>1, <3>2 DEF Holds
  <2>3. ASSUME frame \notin lost,
               LinkControl(def) \in {"MoreToFollow", "ContinueMoreToFollow"}
        PROVE  offset' < len'[frame'] /\ IsPrefix(Accumulate(wire), frame, offset)'
    <3>1. Left > MaxPayload[def] /\ pay = MaxPayload[def]
        BY <1>6, <1>12, <2>3
    <3>2. offset' < len'[frame']
        BY <1>3, <1>7, <1>11, <3>1
    <3>3. \A j \in 1..offset + MaxPayload[def] : j <= offset + MaxPayload[def]
        BY <1>3
    <3> QED
        BY <1>7, <1>16, <2>3, <3>1, <3>2, <3>3 DEF IsPrefix
  <2>4. wire'.frame = frame' /\ frame' = frame /\ lost' = lost /\ reading' = reading
      BY <1>7, <1>8 DEF decoder
  <2> QED
      BY <1>2, <1>8, <2>1, <2>2, <2>3, <2>4 DEF WireInv
<1>18. BufInv'
  <2>1. wire' # NoReport
      BY <1>2, <1>8 DEF NoReport, DefIds
  <2> QED
      BY <2>1 DEF BufInv
<1>19. IntactDelivered'
    BY <1>7 DEF IInv, IntactDelivered, Holds, decoder
<1> QED
    BY <1>9, <1>13, <1>17, <1>18, <1>19, Zenon DEF IInv

\* A write error loses the frame that is partly sent.
LEMMA WriteFailsInv ==
    ASSUME IInv, WriteFails
    PROVE  IInv'
<1> USE DEF WriteFails
<1>1. TypeOK /\ FrameInv /\ Left > 0 /\ UNCHANGED <<frame, len, wire, reading, buf, decoded, result, last>>
    BY DEF IInv, decoder
<1>2. frame \in FrameIds /\ len[frame] \in Nat /\ frame \in Nat
  <2>1. frame # 0 /\ len[frame] \in Nat
      BY <1>1 DEF TypeOK, FrameInv, Left
  <2> QED
      BY <1>1, <2>1, HidAssumption DEF TypeOK, FrameIds
<1>3. offset' = len[frame] /\ lost' = lost \cup {frame}
    OBVIOUS
<1>4. TypeOK'
    BY <1>1, <1>2, <1>3 DEF TypeOK
<1>5. FrameInv'
    BY <1>1, <1>2, <1>3 DEF FrameInv
<1>6. ASSUME wire # NoReport, wire.frame \notin lost'
      PROVE  wire.link \in {"Done", "Continue"}
  <2>1. wire.link \in LinkControls
      BY <1>1, <1>6 DEF TypeOK, Report
  <2> QED
      BY <1>3, <1>6, <2>1 DEF IInv, WireInv, LinkControls
<1>7. WireInv'
    BY <1>1, <1>3, <1>6 DEF IInv, WireInv, Accumulate, Holds
<1>8. BufInv'
    BY <1>1, <1>3 DEF BufInv
<1>9. IntactDelivered'
    BY <1>1, <1>3 DEF IInv, IntactDelivered, Holds
<1> QED
    BY <1>4, <1>5, <1>7, <1>8, <1>9 DEF IInv

-----------------------------------------------------------------------------
(* The steps of the link. *)

LEMMA LinkInv ==
    ASSUME IInv, Lose \/ Garble
    PROVE  IInv'
<1>1. /\ TypeOK /\ FrameInv /\ wire # NoReport /\ lost' = lost \cup {wire.frame}
      /\ UNCHANGED <<frame, len, offset, reading, buf, decoded, result, last>>
      /\ wire' = NoReport \/ wire' = [wire EXCEPT !.id = 0]
    BY DEF IInv, encoder, decoder, Lose, Garble
<1>2. wire \in Report /\ wire.frame \in FrameIds /\ wire.frame \in Nat /\ wire.frame <= frame
    BY <1>1 DEF TypeOK, FrameInv, Report, FrameIds
<1>3. wire' = NoReport \/ (wire' \in Report /\ wire'.frame = wire.frame /\ wire'.link = wire.link)
    BY <1>1, <1>2 DEF Report
<1>4. TypeOK'
    BY <1>1, <1>2, <1>3 DEF TypeOK
<1>5. FrameInv'
  <2>1. frame \in Nat
      BY <1>1 DEF TypeOK
  <2>2. wire'.frame <= frame
      BY <1>2, <1>3, <2>1 DEF NoReport
  <2> QED
      BY <1>1, <1>2, <1>3, <2>2 DEF FrameInv
<1>6. WireInv'
    BY <1>1, <1>3 DEF WireInv
<1>7. BufInv'
    BY <1>1, <1>3 DEF FrameInv, BufInv, NoReport
<1>8. IntactDelivered'
    BY <1>1 DEF IInv, IntactDelivered, Holds
<1> QED
    BY <1>4, <1>5, <1>6, <1>7, <1>8 DEF IInv

-----------------------------------------------------------------------------
(* The steps of the decoder. *)

LEMMA StartReadInv ==
    ASSUME IInv, StartRead
    PROVE  IInv'
<1> USE DEF StartRead
<1>1. /\ ~reading /\ reading' = TRUE /\ buf' = <<>>
      /\ UNCHANGED <<frame, len, offset, wire, decoded, result, last, lost>>
    BY DEF encoder
<1>2. TypeOK'
  <2>1. buf' \in Seq(Byte)
      BY <1>1, EmptySeq, Zenon
  <2> QED
      BY <1>1, <2>1 DEF IInv, TypeOK
<1>3. FrameInv'
    BY <1>1 DEF IInv, FrameInv
<1>4. ASSUME wire # NoReport, wire.frame \notin lost
      PROVE  wire.link \in {"Done", "MoreToFollow"}
  <2>1. wire.link \in LinkControls
      BY <1>4 DEF IInv, TypeOK, Report
  <2> QED
      BY <1>1, <1>4, <2>1 DEF IInv, WireInv, LinkControls
<1>5. WireInv'
    BY <1>1, <1>4 DEF IInv, WireInv, Accumulate, Holds, IsPrefix
<1>6. BufInv'
    BY <1>1 DEF IInv, BufInv
<1>7. IntactDelivered'
    BY <1>1 DEF IInv, IntactDelivered, Holds
<1> QED
    BY <1>2, <1>3, <1>5, <1>6, <1>7 DEF IInv

LEMMA ReadReportInv ==
    ASSUME IInv, ReadReport
    PROVE  IInv'
<1> USE DEF ReadReport
<1>1. /\ TypeOK /\ FrameInv /\ WireInv /\ reading /\ wire # NoReport
      /\ wire' = NoReport /\ buf' = Accumulate(wire)
      /\ UNCHANGED <<frame, len, offset, lost>>
    BY DEF IInv, encoder
<1>2. wire \in Report /\ wire.frame \in FrameIds /\ wire.link \in LinkControls
    BY <1>1 DEF TypeOK, Report
<1>3. IF wire.link \in {"Done", "Continue"}
      THEN /\ reading' = FALSE /\ decoded' = decoded + 1
           /\ result' = buf' /\ last' = wire.frame
      ELSE UNCHANGED <<reading, decoded, result, last>>
    OBVIOUS
<1>4. TypeOK'
  <2>1. buf' \in Seq(Byte)
      BY <1>1, AccumulateType
  <2>2. last' \in 0..MaxFrames /\ decoded' \in Nat /\ result' \in Seq(Byte) /\ reading' \in BOOLEAN
    <3>1. CASE wire.link \in {"Done", "Continue"}
      <4>1. last' \in 0..MaxFrames /\ decoded' \in Nat
          BY <1>1, <1>2, <1>3, <3>1, HidAssumption DEF TypeOK, FrameIds
      <4> QED
          BY <1>3, <2>1, <3>1, <4>1, Zenon
    <3>2. CASE wire.link \notin {"Done", "Continue"}
        BY <1>1, <1>3, <3>2 DEF TypeOK
    <3> QED
        BY <3>1, <3>2
  <2> QED
      BY <1>1, <2>1, <2>2 DEF TypeOK
<1>5. FrameInv'
  <2>1. last' <= frame
      BY <1>1, <1>3 DEF FrameInv
  <2>2. NoReport.frame <= frame
      BY <1>1 DEF TypeOK, NoReport
  <2> QED
      BY <1>1, <2>1, <2>2 DEF FrameInv
<1>6. WireInv'
    BY <1>1 DEF WireInv
<1>7. BufInv'
  <2> SUFFICES ASSUME frame \notin lost, 0 < offset, offset < len[frame]
               PROVE  reading' /\ IsPrefix(buf, frame, offset)'
      BY <1>1 DEF BufInv
  <2>1. wire.frame = frame /\ wire.link \in {"MoreToFollow", "ContinueMoreToFollow"}
      BY <1>1 DEF FrameInv
  <2>2. reading'
      BY <1>1, <1>3, <2>1
  <2>3. IsPrefix(Accumulate(wire), frame, offset)
      BY <1>1, <2>1 DEF WireInv
  <2> QED
      BY <1>1, <2>2, <2>3 DEF IsPrefix
<1>8. IntactDelivered'
  <2>1. CASE wire.link \in {"Done", "Continue"}
    <3>1. wire.frame \notin lost => Holds(Accumulate(wire), wire.frame)
        BY <1>1, <2>1 DEF WireInv
    <3> QED
        BY <1>1, <1>3, <2>1, <3>1 DEF IntactDelivered, Holds
  <2>2. CASE wire.link \notin {"Done", "Continue"}
      BY <1>1, <1>3, <2>2 DEF IInv, IntactDelivered, Holds
  <2> QED
      BY <2>1, <2>2
<1> QED
    BY <1>4, <1>5, <1>6, <1>7, <1>8 DEF IInv

\* Only a report of a lost frame has an id that Find does not know.
LEMMA ReadFailsInv ==
    ASSUME IInv, ReadFails
    PROVE  IInv'
<1> USE DEF ReadFails
<1>1. /\ TypeOK /\ FrameInv /\ wire # NoReport /\ wire.id \notin DefIds
      /\ wire' = NoReport /\ reading' = FALSE
      /\ UNCHANGED <<frame, len, offset, buf, decoded, result, last, lost>>
    BY DEF IInv, encoder
<1>2. wire.frame \in lost
    BY <1>1 DEF IInv, WireInv
<1>3. TypeOK'
    BY <1>1 DEF TypeOK
<1>4. FrameInv'
  <2>1. NoReport.frame <= frame
      BY <1>1 DEF TypeOK, NoReport
  <2> QED
      BY <1>1, <2>1 DEF FrameInv
<1>5. WireInv' /\ BufInv'
    BY <1>1, <1>2 DEF FrameInv, WireInv, BufInv
<1>6. IntactDelivered'
    BY <1>1 DEF IInv, IntactDelivered, Holds
<1> QED
    BY <1>3, <1>4, <1>5, <1>6 DEF IInv

LEMMA StutterInv ==
    ASSUME IInv, UNCHANGED vars
    PROVE  IInv'
<1>1. UNCHANGED <<frame, len, offset, wire, reading, buf, decoded, result, last, lost>>
    BY DEF vars, encoder, decoder
<1>2. TypeOK' /\ FrameInv'
    BY <1>1 DEF IInv, TypeOK, FrameInv
<1>3. WireInv'
    BY <1>1 DEF IInv, WireInv, Accumulate, Holds, IsPrefix
<1>4. BufInv' /\ IntactDelivered'
    BY <1>1 DEF IInv, BufInv, IntactDelivered, Holds, IsPrefix
<1> QED
    BY <1>2, <1>3, <1>4 DEF IInv

-----------------------------------------------------------------------------
LEMMA InvariantHolds == Spec => []IInv
<1>1. Init => IInv
    BY InitInv
<1>2. IInv /\ [Next]_vars => IInv'
    BY BeginFrameInv, WriteReportInv, WriteFailsInv, LinkInv, StartReadInv,
       ReadReportInv, ReadFailsInv, StutterInv DEF Next
<1> QED
    BY <1>1, <1>2, PTL DEF Spec

\* The encoder and the decoder keep their types: WriteFrame's offset never
\* passes the end of the frame, whatever the report types and the losses.
THEOREM HidTypeCorrect == Spec => []TypeOK
<1>1. IInv => TypeOK
    BY DEF IInv
<1> QED
    BY <1>1, InvariantHolds, PTL

\* A frame of which every report arrives is what ReadFrame returns, for every
\* descriptor and every length, whatever was lost before and in between.
THEOREM IntactFramesDelivered == Spec => []IntactDelivered
<1>1. IInv => IntactDelivered
    BY DEF IInv
<1> QED
    BY <1>1, InvariantHolds, PTL
-----------------------------------------------------------------------------
(* While nothing is lost, the two ends are the link of FrameLink. *)

\* What is under way is the last report of the frame before, of which the
\* encoder sent nothing since, or a report of the current frame; decoded counts
\* every frame before it.
CountInv ==
    /\ frame # 0 => len[frame] > 0
    /\ wire # NoReport /\ wire.frame # frame =>
           wire.frame = frame - 1 /\ offset = 0 /\ wire.link \in {"Done", "Continue"}
    /\ wire # NoReport /\ wire.frame = frame /\ wire.link \in {"Done", "Continue"} => Left = 0
    /\ decoded + 1 = IF wire # NoReport THEN wire.frame
                     ELSE IF Left > 0 THEN frame ELSE frame + 1

LinkInvariant == IInv /\ (lost = {} => CountInv)

LEMMA InitLinkInvariant == Init => LinkInvariant
<1> SUFFICES ASSUME Init PROVE CountInv
    BY InitInv DEF LinkInvariant
<1>1. len[0] = 0
    BY HidAssumption DEF Init
<1> QED
    BY <1>1 DEF CountInv, Init, Left

\* What is under way while nothing is lost.
LEMMA WireFacts ==
    ASSUME IInv, lost = {}, wire # NoReport
    PROVE  /\ wire \in Report /\ wire.frame \in FrameIds /\ wire.frame \in 1..frame
           /\ wire.link \in LinkControls /\ wire.id \in DefIds
           /\ wire.link \in {"Done", "Continue"} => Holds(Accumulate(wire), wire.frame)
           /\ wire.link \notin {"Done", "Continue"} => wire.frame = frame /\ Left > 0
<1>1. wire \in Report /\ wire.frame \in FrameIds /\ wire.link \in LinkControls
    BY DEF IInv, TypeOK, Report
<1>2. wire.frame \in 1..frame
    BY <1>1, HidAssumption DEF IInv, FrameInv, TypeOK, FrameIds
<1>3. len[frame] \in Nat /\ offset \in Nat
    BY DEF IInv, TypeOK
<1>4. wire.link \notin {"Done", "Continue"} => wire.link \in {"MoreToFollow", "ContinueMoreToFollow"}
    BY <1>1 DEF LinkControls
<1> QED
    BY <1>1, <1>2, <1>3, <1>4 DEF IInv, WireInv, Left

LEMMA NextLinkInvariant == LinkInvariant /\ [Next]_vars => LinkInvariant'
<1> SUFFICES ASSUME IInv, lost = {} => CountInv, [Next]_vars, lost' = {}
             PROVE  CountInv'
    BY BeginFrameInv, WriteReportInv, WriteFailsInv, LinkInv, StartReadInv,
       ReadReportInv, ReadFailsInv, StutterInv DEF Next, LinkInvariant
<1>1. lost = {}
    BY DEF Next, vars, BeginFrame, WriteReport, WriteFails, Lose, Garble, StartRead,
           ReadReport, ReadFails
<1>2. CountInv /\ TypeOK /\ FrameInv
    BY <1>1 DEF IInv
<1>3. /\ frame \in Nat /\ len[frame] \in Nat /\ offset \in 0..len[frame] /\ decoded \in Nat
      /\ len \in [0..MaxFrames -> Nat] /\ MaxFrames \in Nat /\ len[0] = 0
    BY <1>2, HidAssumption DEF TypeOK, FrameInv
<1>4. ASSUME NEW n \in Lengths, BeginFrame(n) PROVE CountInv'
  <2>1. /\ Left = 0 /\ frame' = frame + 1 /\ offset' = 0 /\ len'[frame'] = n
        /\ UNCHANGED <<wire, decoded>> /\ n \in Nat \ {0}
      BY <1>3, <1>4, HidAssumption DEF BeginFrame, decoder, TypeOK
  <2>2. Left' = n
      BY <2>1, HidAssumption DEF Left
  <2>3. ASSUME wire # NoReport
        PROVE  wire.frame = frame /\ wire.link \in {"Done", "Continue"}
    <3>1. wire.frame \in 1..frame /\ (wire.link \notin {"Done", "Continue"} => Left > 0)
        BY <1>1, <2>3, WireFacts
    <3>2. wire.link \in {"Done", "Continue"}
        BY <2>1, <3>1
    <3>3. wire.frame # frame => Left = len[frame] /\ len[frame] > 0
        BY <1>2, <1>3, <2>3, <3>1 DEF CountInv, Left
    <3> QED
        BY <2>1, <3>2, <3>3
  <2> QED
      BY <1>2, <1>3, <2>1, <2>2, <2>3 DEF CountInv
<1>5. ASSUME WriteReport PROVE CountInv'
  <2> DEFINE def == Pick(Left)
  <2>1. wire = NoReport /\ Left > 0 /\ Left \in Nat
      BY <1>3, <1>5 DEF WriteReport, Left
  <2>2. /\ wire' = [id |-> def, link |-> LinkControl(def), frame |-> frame, data |-> ReportData(def)]
        /\ offset' = offset + PayloadLen(def) /\ UNCHANGED <<frame, len, decoded>>
      BY <1>5 DEF WriteReport, decoder
  <2>3. def \in DefIds
      BY <2>1, PickType
  <2>4. /\ MaxPayload[def] \in Nat
        /\ offset + PayloadLen(def) = len[frame] <=> ~(Left > MaxPayload[def])
      BY <1>2, <2>1, <2>3, PayloadType
  <2> HIDE DEF def
  <2>5. LinkControl(def) \in {"Done", "Continue"} => ~(Left > MaxPayload[def])
      BY DEF LinkControl
  <2>6. wire'.frame = frame' /\ wire'.link = LinkControl(def) /\ wire'.id \in DefIds
      BY <2>2, <2>3
  <2>7. wire'.link \in {"Done", "Continue"} => Left' = 0
      BY <1>3, <2>2, <2>4, <2>5, <2>6 DEF Left
  <2>8. decoded + 1 = frame /\ wire' # NoReport
      BY <1>2, <2>1, <2>6 DEF CountInv, DefIds, NoReport
  <2> QED
      BY <1>2, <2>2, <2>6, <2>7, <2>8 DEF CountInv
<1>6. ASSUME ReadReport PROVE CountInv'
  <2>1. /\ wire # NoReport /\ wire' = NoReport /\ UNCHANGED <<frame, len, offset>>
        /\ decoded' = IF wire.link \in {"Done", "Continue"} THEN decoded + 1 ELSE decoded
      BY <1>6 DEF ReadReport, encoder
  <2>2. /\ wire.frame \in 1..frame
        /\ wire.link \notin {"Done", "Continue"} => wire.frame = frame /\ Left > 0
      BY <1>1, <2>1, WireFacts
  <2>3. Left' = Left
      BY <2>1 DEF Left
  <2>4. decoded + 1 = wire.frame
      BY <1>2, <2>1 DEF CountInv
  <2>5. wire.frame # frame => wire.frame = frame - 1 /\ Left > 0
      BY <1>2, <1>3, <2>1, <2>2 DEF CountInv, Left
  <2>6. wire.frame = frame /\ wire.link \in {"Done", "Continue"} => Left = 0
      BY <1>2, <2>1 DEF CountInv
  <2>7. decoded' + 1 = IF Left > 0 THEN frame ELSE frame + 1
    <3>1. CASE wire.link \in {"Done", "Continue"}
        BY <1>3, <2>1, <2>2, <2>4, <2>5, <2>6, <3>1
    <3>2. CASE wire.link \notin {"Done", "Continue"}
        BY <1>3, <2>1, <2>2, <2>4, <3>2
    <3> QED
        BY <3>1, <3>2
  <2> QED
      BY <1>2, <2>1, <2>3, <2>7 DEF CountInv
<1>7. ASSUME WriteFails \/ Lose \/ Garble PROVE FALSE
    BY <1>7 DEF WriteFails, Lose, Garble
<1>8. ASSUME ReadFails PROVE FALSE
  <2>1. wire # NoReport /\ wire.id \notin DefIds
      BY <1>8 DEF ReadFails
  <2> QED
      BY <1>1, <2>1, WireFacts
<1>9. ASSUME StartRead \/ UNCHANGED vars PROVE CountInv'
  <2>1. UNCHANGED <<frame, len, offset, wire, decoded>>
      BY <1>9 DEF StartRead, encoder, decoder, vars
  <2> QED
      BY <1>2, <2>1 DEF CountInv, Left
<1> QED
    BY <1>4, <1>5, <1>6, <1>7, <1>8, <1>9 DEF Next

\* The payload of a result that holds a frame is the frame.
LEMMA PayloadIsFrame ==
    ASSUME NEW f \in FrameIds, NEW n \in Nat, NEW r \in Seq(Byte), Len(r) >= n,
           \A j \in 1..Len(r) : r[j] = IF j <= n THEN <<f, j>> ELSE Pad
    PROVE  [j \in {i \in 1..Len(r) : r[i] # Pad} |-> r[j]] = [j \in 1..n |-> <<f, j>>]
<1>1. f # 0
    BY DEF FrameIds
<1>2. Len(r) \in Nat
    BY LenProperties
<1>3. ASSUME NEW j \in 1..n PROVE j \in 1..Len(r) /\ r[j] = <<f, j>> /\ r[j] # Pad
  <2>1. j \in 1..Len(r) /\ j <= n
      BY <1>2
  <2>2. <<f, j>> # Pad
      BY <1>1 DEF Pad
  <2> QED
      BY <2>1, <2>2
<1>4. ASSUME NEW j \in 1..Len(r), r[j] # Pad PROVE j \in 1..n
  <2>1. j <= n
      BY <1>4
  <2> QED
      BY <2>1
<1>5. {i \in 1..Len(r) : r[i] # Pad} = 1..n
    BY <1>3, <1>4
<1> QED
    BY <1>3, <1>5

\* A frame more at the end of the frames not yet read.
LEMMA UnreadGrows ==
    ASSUME NEW S, NEW k \in Nat, NEW g \in [1..(k + 1) -> S]
    PROVE  g = Append([i \in 1..k |-> g[i]], g[k + 1])
<1> DEFINE h == [i \in 1..k |-> g[i]]
           a == Append(h, g[k + 1])
<1>1. h \in Seq(S) /\ Len(h) = k /\ g[k + 1] \in S
  <2>1. h \in [1..k -> S] /\ g[k + 1] \in S
      OBVIOUS
  <2> QED
      BY <2>1
<1>2. g \in Seq(S) /\ Len(g) = k + 1
    OBVIOUS
<1>3. /\ a \in Seq(S) /\ Len(a) = k + 1
      /\ \A i \in 1..k : a[i] = h[i]
      /\ a[k + 1] = g[k + 1]
    BY <1>1, AppendProperties
<1>4. \A i \in 1..(k + 1) : g[i] = a[i]
  <2>1. \A i \in 1..k : h[i] = g[i]
      OBVIOUS
  <2>2. \A i \in 1..(k + 1) : i \in 1..k \/ i = k + 1
      OBVIOUS
  <2> QED
      BY <1>3, <2>1, <2>2
<1> QED
    BY <1>2, <1>3, <1>4, SeqEqual

\* The first of the frames not yet read, and the others.
LEMMA UnreadShrinks ==
    ASSUME NEW S, NEW k \in Nat, NEW g \in [1..(k + 1) -> S]
    PROVE  /\ g # <<>> /\ Head(g) = g[1]
           /\ Tail(g) = [i \in 1..k |-> g[i + 1]]
<1>1. g \in Seq(S) /\ Len(g) = k + 1
    OBVIOUS
<1>2. g # <<>>
    BY <1>1, EmptySeq
<1>3. Head(g) = g[1] /\ Tail(g) \in Seq(S) /\ Len(Tail(g)) = k /\ \A i \in 1..k : Tail(g)[i] = g[i + 1]
    BY <1>1, <1>2, HeadTailProperties
<1> DEFINE h == [i \in 1..k |-> g[i + 1]]
<1>4. h \in Seq(S) /\ Len(h) = k
  <2>1. h \in [1..k -> S]
      OBVIOUS
  <2> QED
      BY <2>1
<1>5. \A i \in 1..k : h[i] = Tail(g)[i]
    BY <1>3
<1>6. h = Tail(g)
    BY <1>3, <1>4, <1>5, SeqEqual
<1> QED
    BY <1>2, <1>3, <1>6

LEMMA EmptyFunction == ASSUME NEW g \in [{} -> {}] PROVE g = <<>>
<1>1. g \in Seq({}) /\ Len(g) = 0
  <2>1. {} = 1..0
      OBVIOUS
  <2> QED
      BY <2>1
<1> QED
    BY <1>1, EmptySeq

LEMMA InitLink == Init => Link!Init
<1> SUFFICES ASSUME Init PROVE Link!Init
    OBVIOUS
<1>1. frame - decoded = 0 /\ lost = {} /\ result = <<>>
    BY DEF Init
<1>2. 1..0 = {} /\ {i \in 1..Len(<<>>) : <<>>[i] # Pad} = {}
    BY EmptySeq
<1>3. [i \in 1..0 |-> Bytes(decoded + i)] = <<>>
    BY <1>2, EmptyFunction
<1>4. [j \in {i \in 1..Len(<<>>) : <<>>[i] # Pad} |-> <<>>[j]] = <<>>
    BY <1>2, EmptyFunction
<1> QED
    BY <1>1, <1>3, <1>4 DEF Link!Init, Payload

LEMMA WriteStep ==
    ASSUME IInv, CountInv, lost = {}, NEW n \in Lengths, BeginFrame(n)
    PROVE  \E f \in {[j \in 1..m |-> <<e, j>>] : e \in FrameIds, m \in Lengths} : Link!Write(f)
<1>1. /\ frame' = frame + 1 /\ len' = [len EXCEPT ![frame + 1] = n]
      /\ UNCHANGED <<decoded, result, lost>> /\ Left = 0
    BY DEF BeginFrame, decoder
<1>2. /\ frame \in Nat /\ decoded \in Nat /\ len \in [0..MaxFrames -> Nat]
      /\ frame + 1 \in FrameIds /\ MaxFrames \in Nat /\ frame \in 0..MaxFrames
      /\ n \in Nat
    BY HidAssumption DEF IInv, TypeOK, BeginFrame, FrameIds
<1>3. frame - decoded \in Nat
  <2>1. wire # NoReport => wire.frame \in 1..frame
      BY WireFacts
  <2> QED
      BY <1>1, <1>2, <2>1 DEF CountInv
<1>4. PICK k \in Nat : k = frame - decoded
    BY <1>3
<1>5. PICK g : g = [i \in 1..(k + 1) |-> Bytes(decoded + i)']
    OBVIOUS
<1>6. g = [i \in 1..(frame - decoded) |-> Bytes(decoded + i)]'
  <2>1. frame' - decoded' = k + 1
      BY <1>1, <1>2, <1>4
  <2> QED
      BY <1>5, <2>1, Zenon
<1>7. \A i \in 1..k : g[i] = Bytes(decoded + i)
  <2> SUFFICES ASSUME NEW i \in 1..k PROVE g[i] = Bytes(decoded + i)
      OBVIOUS
  <2>1. i \in 1..(k + 1) /\ decoded + i \in 0..MaxFrames /\ decoded + i # frame + 1
      BY <1>2, <1>4
  <2>2. len'[decoded + i] = len[decoded + i] /\ decoded' = decoded
      BY <1>1, <1>2, <2>1
  <2> QED
      BY <1>5, <2>1, <2>2 DEF Bytes
<1>8. g[k + 1] = [j \in 1..n |-> <<frame + 1, j>>]
  <2>1. k + 1 \in 1..(k + 1) /\ decoded' + (k + 1) = frame + 1
      BY <1>1, <1>2, <1>4
  <2>2. len'[frame + 1] = n
      BY <1>1, <1>2 DEF FrameIds
  <2>3. g[k + 1] = [j \in 1..len'[decoded' + (k + 1)] |-> <<decoded' + (k + 1), j>>]
      BY <1>5, <2>1 DEF Bytes
  <2> QED
      BY <2>1, <2>2, <2>3
<1>9. g = Append([i \in 1..k |-> g[i]], g[k + 1])
  <2>1. g \in [1..(k + 1) -> {g[i] : i \in 1..(k + 1)}]
      BY <1>5
  <2> QED
      BY <2>1, UnreadGrows
<1>10. [i \in 1..k |-> g[i]] = [i \in 1..(frame - decoded) |-> Bytes(decoded + i)]
    BY <1>4, <1>7, Zenon
<1>11. PICK f : f = [j \in 1..n |-> <<frame + 1, j>>]
    OBVIOUS
<1>12. f \in {[j \in 1..m |-> <<e, j>>] : e \in FrameIds, m \in Lengths}
    BY <1>2, <1>11
<1>13. [i \in 1..(frame - decoded) |-> Bytes(decoded + i)]'
          = Append([i \in 1..(frame - decoded) |-> Bytes(decoded + i)], f)
    BY <1>6, <1>8, <1>9, <1>10, <1>11, Zenon
<1>14. Payload' = Payload
    BY <1>1 DEF Payload
<1>15. Link!Write(f)
    BY <1>1, <1>13, <1>14, Zenon DEF Link!Write
<1> QED
    BY <1>12, <1>15

LEMMA ReadStep ==
    ASSUME IInv, CountInv, TypeOK', lost = {}, ReadReport, wire.link \in {"Done", "Continue"}
    PROVE  Link!Read
<1>1. /\ decoded' = decoded + 1 /\ result' = Accumulate(wire) /\ wire # NoReport
      /\ UNCHANGED <<frame, len, lost>>
    BY DEF ReadReport, encoder
<1>2. wire.frame \in FrameIds /\ wire.frame \in 1..frame /\ Holds(Accumulate(wire), wire.frame)
    BY <1>1, WireFacts
<1>3. wire.frame = decoded + 1
    BY <1>1 DEF CountInv
<1>4. TypeOK /\ MaxFrames \in Nat
    BY HidAssumption DEF IInv
<1>5. /\ frame \in Nat /\ decoded \in Nat /\ len[wire.frame] \in Nat
  <2>1. frame \in 0..MaxFrames /\ decoded \in Nat /\ len \in [0..MaxFrames -> Nat]
      BY <1>4 DEF TypeOK
  <2>2. wire.frame \in 0..MaxFrames
      BY <1>2, <1>4 DEF FrameIds
  <2> QED
      BY <1>4, <2>1, <2>2
<1>6. PICK k \in Nat : k + 1 = frame - decoded
  <2>1. frame - decoded - 1 \in Nat /\ frame - decoded - 1 + 1 = frame - decoded
      BY <1>2, <1>3, <1>5
  <2> QED
      BY <2>1
<1>7. Payload' = Bytes(decoded + 1)
  <2>1. result' \in Seq(Byte)
      BY DEF TypeOK
  <2>2. [j \in {i \in 1..Len(result') : result'[i] # Pad} |-> result'[j]]
           = [j \in 1..len[wire.frame] |-> <<wire.frame, j>>]
    <3>1. /\ Len(result') >= len[wire.frame]
          /\ \A j \in 1..Len(result') :
                result'[j] = IF j <= len[wire.frame] THEN <<wire.frame, j>> ELSE Pad
        BY <1>1, <1>2 DEF Holds
    <3> QED
        BY <1>2, <1>5, <2>1, <3>1, PayloadIsFrame
  <2> QED
      BY <1>3, <2>2 DEF Payload, Bytes
<1>8. PICK g : g = [i \in 1..(k + 1) |-> Bytes(decoded + i)]
    OBVIOUS
<1>9. g # <<>> /\ Head(g) = g[1] /\ Tail(g) = [i \in 1..k |-> g[i + 1]]
  <2>1. g \in [1..(k + 1) -> {g[i] : i \in 1..(k + 1)}]
      BY <1>8
  <2> QED
      BY <2>1, UnreadShrinks
<1>10. g[1] = Bytes(decoded + 1)
    BY <1>6, <1>8
<1>11. [i \in 1..k |-> g[i + 1]] = [i \in 1..(frame - decoded) |-> Bytes(decoded + i)]'
  <2>1. frame' - decoded' = k
      BY <1>1, <1>5, <1>6
  <2>2. \A i \in 1..k : g[i + 1] = Bytes(decoded + i)'
    <3> SUFFICES ASSUME NEW i \in 1..k PROVE g[i + 1] = Bytes(decoded + i)'
        OBVIOUS
    <3>1. i + 1 \in 1..(k + 1) /\ decoded + (i + 1) = decoded' + i
        BY <1>1, <1>5, <1>6
    <3>2. g[i + 1] = Bytes(decoded' + i)
        BY <1>8, <3>1
    <3> QED
        BY <1>1, <3>2 DEF Bytes
  <2> QED
      BY <2>1, <2>2, Zenon
<1>12. g = [i \in 1..(frame - decoded) |-> Bytes(decoded + i)]
    BY <1>6, <1>8, Zenon
<1> QED
    BY <1>1, <1>7, <1>9, <1>10, <1>11, <1>12, Zenon DEF Link!Read

LEMMA LinkStep == LinkInvariant /\ [Next]_vars /\ LinkInvariant' => [Link!Next]_(Link!link)
<1> SUFFICES ASSUME LinkInvariant, [Next]_vars, LinkInvariant'
             PROVE  Link!Next \/ UNCHANGED Link!link
    OBVIOUS
<1>1. lost \subseteq lost'
    BY DEF Next, vars, BeginFrame, WriteReport, WriteFails, Lose, Garble, StartRead,
           ReadReport, ReadFails
<1>2. CASE lost = {} /\ lost' # {}
    BY <1>2 DEF Link!Next, Link!Break
<1>3. CASE lost # {}
  <2>1. lost' # {}
      BY <1>1, <1>3
  <2> QED
      BY <1>3, <2>1 DEF Link!link
<1>4. CASE lost = {} /\ lost' = {}
  <2>1. IInv /\ CountInv /\ TypeOK'
      BY <1>4 DEF LinkInvariant, IInv
  <2>2. CASE \E n \in Lengths : BeginFrame(n)
      BY <1>4, <2>1, <2>2, WriteStep DEF Link!Next
  <2>3. CASE ReadReport /\ wire.link \in {"Done", "Continue"}
      BY <1>4, <2>1, <2>3, ReadStep DEF Link!Next
  <2>4. CASE UNCHANGED <<frame, len, decoded, result, lost>>
    <3>1. UNCHANGED <<lost # {}, [i \in 1..(frame - decoded) |-> Bytes(decoded + i)], Payload>>
        BY <2>4 DEF Bytes, Payload
    <3> QED
        BY <1>4, <3>1 DEF Link!link
  <2>5. CASE WriteReport \/ WriteFails \/ Lose \/ Garble \/ StartRead \/ ReadFails \/ UNCHANGED vars
      BY <1>4, <2>4, <2>5 DEF vars, WriteReport, WriteFails, Lose, Garble, StartRead,
           ReadFails, encoder, decoder
  <2>6. CASE ReadReport /\ wire.link \notin {"Done", "Continue"}
      BY <2>4, <2>6 DEF ReadReport, encoder
  <2> QED
      BY <2>2, <2>3, <2>5, <2>6 DEF Next
<1> QED
    BY <1>2, <1>3, <1>4

\* As long as nothing is lost, frames come out of ReadFrame whole, once, and in
\* the order in which WriteFrame took them: every step of the two ends is a
\* step of FrameLink or none.
THEOREM ImplementsFrameLink == Spec => Link!Init /\ [][Link!Next]_(Link!link)
<1>1. Init => LinkInvariant /\ Link!Init
    BY InitLinkInvariant, InitLink
<1> QED
    BY <1>1, NextLinkInvariant, LinkStep, PTL DEF Spec
=============================================================================
