----------------------------- MODULE PacketCodec -----------------------------
(***************************************************************************)
(* PacketWriter and PacketReader: payloads packed into a frame and found   *)
(* again.  A frame is made up of packets written by WritePacket, of noise  *)
(* without a start byte before each, and of the padding that the HID       *)
(* report leaves behind them; one byte of one payload may be damaged.  The *)
(* reader's loop is that of processFrames: until io.EOF, past every other  *)
(* error.                                                                  *)
(*                                                                         *)
(* A byte has Base values (256 in the code), so a large length has two     *)
(* digits in that base.  The frame is a slice of a longer array: parsePacket*)
(* reslices past its end, up to its capacity.                              *)
(***************************************************************************)
EXTENDS Naturals, Sequences, SequencesExt

CONSTANTS
    Base,             \* values of a byte
    PacketStartByte,
    Payloads,         \* payloads to write
    Noise,            \* what may stand before a packet
    Padding,          \* what stands behind the last one
    Beyond,           \* the array behind the frame
    MaxPackets        \* bound on the packets of a frame

Byte == 0..Base - 1

ASSUME PacketCodecAssumption ==
    /\ Base \in Nat \ {0, 1}
    /\ PacketStartByte \in 1..Base - 1
    /\ Payloads \subseteq Seq(Byte) \ {<<>>}
    /\ \A p \in Payloads : Len(p) < Base * Base
    /\ Noise \subseteq Seq(Byte \ {PacketStartByte})
    /\ Padding \in Seq(Byte \ {PacketStartByte}) /\ Beyond \in Seq(Byte)
    /\ MaxPackets \in Nat

VARIABLES
    phase,      \* "writing", "reading", "done" (io.EOF) or "panicked"
    frame,      \* pw.frame, then what is left of it: pd.frame
    written,    \* payloads written (ghost)
    starts,     \* where each payload begins in the frame (ghost)
    damaged,    \* number of the damaged packet, or 0 (ghost)
    astray,     \* there is a start byte inside the damaged packet (ghost)
    got         \* payloads that ReadPacket returned

vars == <<phase, frame, written, starts, damaged, astray, got>>

Init ==
    /\ phase = "writing"
    /\ frame = <<>> /\ written = <<>> /\ starts = <<>> /\ got = <<>>
    /\ damaged = 0 /\ astray = FALSE

-----------------------------------------------------------------------------
AddByte(sum, byte) == (sum + byte) % Base

\* crc after the first k bytes of p, and after all of them.
Crcs(p) ==
    LET crc[k \in 0..Len(p)] == IF k = 0 THEN 0 ELSE AddByte(crc[k - 1], p[k])
    IN crc
CrcOf(p) == Crcs(p)[Len(p)]

\* Mutation of Checksum: not reduced to a byte.
ChecksumUnreduced(p) == Base - CrcOf(p)

Checksum(p) == (Base - CrcOf(p)) % Base

largePacketMinLen == Base

Large(n) == <<0, (n \div Base) % Base, n % Base>>

\* Mutation of Header: the large length starts one later.
HeaderLate(n) == IF n > largePacketMinLen + 1 THEN Large(n) ELSE <<n % Base>>

\* The length bytes of a packet: three for a large one, else one.
Header(n) == IF n > largePacketMinLen THEN Large(n) ELSE <<n % Base>>

\* What WritePacket appends.
Packet(payload) ==
    LET body == Header(Len(payload)) \o payload
    IN <<PacketStartByte>> \o body \o <<Checksum(body)>>

WritePacket(noise, payload) ==
    /\ phase = "writing"
    /\ Len(written) < MaxPackets
    /\ frame' = frame \o noise \o Packet(payload)
    /\ starts' = Append(starts, Len(frame \o noise) + Len(Header(Len(payload))) + 2)
    /\ written' = Append(written, payload)
    /\ UNCHANGED <<phase, damaged, astray, got>>

-----------------------------------------------------------------------------
(* The way to the reader (external). *)

Damage(n, i, byte) ==
    /\ phase = "writing"
    /\ damaged = 0
    /\ LET at == starts[n] + i - 1
           first == starts[n] - Len(Header(Len(written[n])))
           last == starts[n] + Len(written[n])
       IN /\ byte # frame[at]
          /\ frame' = [frame EXCEPT ![at] = byte]
          /\ astray' = (PacketStartByte \in {frame'[k] : k \in first..last})
    /\ damaged' = n
    /\ UNCHANGED <<phase, written, starts, got>>

Deliver ==
    /\ phase = "writing"
    /\ phase' = "reading"
    /\ frame' = frame \o Padding
    /\ UNCHANGED <<written, starts, damaged, astray, got>>

-----------------------------------------------------------------------------
(* ReadPacket, and the loop around it. *)

NextStart(s) == SelectInSeq(s, LAMBDA byte : byte = PacketStartByte)
AfterStart == SubSeq(frame, NextStart(frame) + 1, Len(frame))

\* parseHeader: where the payload begins and how long it is.
PayOff(s) == IF s[1] = 0 THEN 3 ELSE 1
PayLen(s) == IF s[1] = 0 THEN s[2] * Base + s[3] ELSE s[1]
PktLen(s) == PayOff(s) + PayLen(s) + 1

\* data[:pktLen] goes on behind the frame when the packet is longer.
Slice(s) == SubSeq(s \o Beyond, 1, PktLen(s))
Fits(s) == PktLen(s) <= Len(s \o Beyond)
Payload(s) == SubSeq(Slice(s), PayOff(s) + 1, PktLen(s) - 1)

ReadEOF ==
    /\ phase = "reading"
    /\ NextStart(frame) = 0
    /\ phase' = "done"
    /\ UNCHANGED <<frame, written, starts, damaged, astray, got>>

\* Mutation of ReadTooShort: an error leaves the frame where it was.
ReadTooShortStays ==
    /\ phase = "reading"
    /\ NextStart(frame) # 0
    /\ Len(frame) - NextStart(frame) < 3
    /\ UNCHANGED vars

\* parseHeader finds too few bytes: the search goes on behind the start byte.
ReadTooShort ==
    /\ phase = "reading"
    /\ NextStart(frame) # 0
    /\ Len(frame) - NextStart(frame) < 3
    /\ frame' = AfterStart
    /\ UNCHANGED <<phase, written, starts, damaged, astray, got>>

AtPacket ==
    /\ phase = "reading"
    /\ NextStart(frame) # 0
    /\ Len(frame) - NextStart(frame) >= 3

\* Mutation of ReadBadChecksum: the loop gives up.
ReadBadChecksumBreaks ==
    /\ AtPacket
    /\ Fits(AfterStart) /\ Checksum(Slice(AfterStart)) # 0
    /\ phase' = "done"
    /\ UNCHANGED <<frame, written, starts, damaged, astray, got>>

\* "invalid checksum": so here.
ReadBadChecksum ==
    /\ AtPacket
    /\ Fits(AfterStart) /\ Checksum(Slice(AfterStart)) # 0
    /\ frame' = AfterStart
    /\ UNCHANGED <<phase, written, starts, damaged, astray, got>>

ReadGood ==
    /\ AtPacket
    /\ PktLen(AfterStart) <= Len(AfterStart) /\ Checksum(Slice(AfterStart)) = 0
    /\ got' = Append(got, Payload(AfterStart))
    /\ frame' = SubSeq(AfterStart, PktLen(AfterStart) + 1, Len(AfterStart))
    /\ UNCHANGED <<phase, written, starts, damaged, astray>>

\* The slice is out of the capacity, or pd.frame[pktLen:] out of the frame.
ReadPanics ==
    /\ AtPacket
    /\ Fits(AfterStart) =>
          PktLen(AfterStart) > Len(AfterStart) /\ Checksum(Slice(AfterStart)) = 0
    /\ phase' = "panicked"
    /\ UNCHANGED <<frame, written, starts, damaged, astray, got>>

ReadPacket == ReadEOF \/ ReadTooShort \/ ReadBadChecksum \/ ReadGood \/ ReadPanics

-----------------------------------------------------------------------------
Next ==
    \/ \E noise \in Noise, payload \in Payloads : WritePacket(noise, payload)
    \/ \E n \in DOMAIN written : \E i \in DOMAIN written[n], byte \in Byte :
          Damage(n, i, byte)
    \/ Deliver
    \/ ReadPacket

Spec == Init /\ [][Next]_vars
FairSpec == Spec /\ WF_vars(ReadPacket)

-----------------------------------------------------------------------------
(* Correctness. *)

Ended == phase \in {"done", "panicked"}

\* Every variable has its type.
TypeOK ==
    /\ phase \in {"writing", "reading", "done", "panicked"}
    /\ frame \in Seq(Byte)
    /\ written \in Seq(Seq(Byte)) /\ got \in Seq(Seq(Byte))
    /\ starts \in Seq(Nat) /\ Len(starts) = Len(written)
    /\ damaged \in 0..Len(written) /\ astray \in BOOLEAN

\* No payload has largePacketMinLen bytes: that one gets the length byte 0,
\* which says that the packet is a large one.
NoBorderCase == \A i \in DOMAIN written : Len(written[i]) # largePacketMinLen

\* What WritePacket wrote, ReadPacket reads: each payload, once, in order,
\* whatever bytes it is made of and whatever stands between the packets.
RoundTrips ==
    Ended /\ NoBorderCase /\ damaged = 0 => phase = "done" /\ got = written

\* One wrong byte of a payload is noticed and costs that packet alone: the
\* search for a start byte finds the next packet, unless the damaged one has
\* such a byte inside.
DamageIsLocal ==
    Ended /\ NoBorderCase /\ damaged # 0 /\ ~astray =>
        phase = "done" /\ got = RemoveAt(written, damaged)

\* The loop around ReadPacket comes to an end on every frame, errors or not.
ReadingEnds == phase = "reading" ~> Ended
=============================================================================
