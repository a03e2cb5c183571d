----------------------------- MODULE MCPacketCodec -----------------------------
(* Small instances of PacketCodec for TLC: bytes of four values, start byte 2. *)
EXTENDS PacketCodec

SeqsOf(set, n) == [1..n -> set]

\* Every payload of one byte, and some of two, of three, of largePacketMinLen
\* and of more bytes, with start bytes, zeros and lengths among them.
SomePayloads ==
    SeqsOf(Byte, 1)
        \cup {<<0, 2>>, <<2, 3>>, <<1, 1>>, <<2, 1>>, <<1, 2, 1>>, <<2, 2, 1>>,
              <<1, 3, 1, 3>>, <<1, 1, 1, 3, 3>>, <<2, 0, 2, 0, 2>>, <<0, 3, 1, 2, 0>>}

AnyNoise == {<<>>, <<0>>}
Zeros == <<0, 0>>
=============================================================================
