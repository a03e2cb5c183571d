----------------------------- MODULE CommandSerde -----------------------------
(***************************************************************************)
(* Lookup and CommandSerde: how a packet's payload is told to be one of    *)
(* the types registered for its command, with or without a transaction.    *)
(*                                                                         *)
(* A packet says nothing of its type or of a transaction but its length.   *)
(* The types registered for a command are the sequence of their sizes, in  *)
(* the order of registration (mIDToType); a type is its index in it.       *)
(***************************************************************************)
EXTENDS Integers, Sequences

\* What binary.Size and its methods say of a type: its size, if that is fixed,
\* or that it has none, and which of MarshalBinary and UnmarshalBinary it has.
Custom == -1     \* both
Parsed == -2     \* UnmarshalBinary only
Built  == -3     \* MarshalBinary only
Opaque == -4     \* neither
Fixed(size) == size >= 0
Readable(size) == Fixed(size) \/ size \in {Custom, Parsed}
Encodable(size) == Fixed(size) \/ size \in {Custom, Built}

\* The two types that are none of the registered ones.
UnknownPayload == 0
NilPayload == -1     \* the packet was not read to its end

TrxLen == 2
Len2(trx) == IF trx THEN TrxLen ELSE 0

-----------------------------------------------------------------------------
\* Mutation of Fits: the second case is for any payload that is long enough.
FitsWithin(size, n) == Fixed(size) /\ (size = n \/ size <= n - TrxLen)

\* The cases of Lookup's switch: the payload of n bytes is one of this type,
\* or one and a transaction.
Fits(size, n) == Fixed(size) /\ size \in {n, n - TrxLen}
Hits(sizes, n) == {i \in DOMAIN sizes : Fits(sizes[i], n)}
First(S) == CHOOSE i \in S : \A j \in S : i <= j

\* The first type that fits; a command's only type is taken if it does not, with
\* a transaction if the session has them.
Lookup(sizes, n, enabled) ==
    LET first == First(Hits(sizes, n))
    IN CASE Hits(sizes, n) # {} -> [type |-> first, trx |-> sizes[first] # n]
         [] Hits(sizes, n) = {} /\ Len(sizes) = 1 -> [type |-> 1, trx |-> enabled]
         [] OTHER -> [type |-> UnknownPayload, trx |-> FALSE]

\* UnmarshalCmd: the type and the bytes of the payload, and the transaction, of
\* a packet of n bytes after its header.  Bytes left over are ignored.  What an
\* UnmarshalBinary may have against the contents is left out.
Unmarshal(sizes, n, enabled) ==
    LET found == Lookup(sizes, n, enabled)
        size  == sizes[found.type]
        rest  == n - Len2(found.trx)
    IN CASE found.type = UnknownPayload -> [type |-> UnknownPayload, trx |-> FALSE, size |-> n]
         [] found.type # UnknownPayload /\ rest < 0 ->
              [type |-> NilPayload, trx |-> FALSE, size |-> 0]
         [] OTHER ->
              [type |-> IF Readable(size) /\ size <= rest THEN found.type ELSE NilPayload,
               trx  |-> found.trx,
               size |-> IF Fixed(size) /\ size <= rest THEN size ELSE rest]

\* A packet of type i with `size' bytes reads back as what it is.
ReadsBack(sizes, i, size, trx, enabled) ==
    Unmarshal(sizes, size + Len2(trx), enabled) = [type |-> i, trx |-> trx, size |-> size]

-----------------------------------------------------------------------------
\* Mutation of HandleCmdID: StartIDPS does not turn transactions on.
HandleCmdIDOff(id, enabled) == enabled /\ id # "IdentifyDeviceLingoes"

\* handleCmdID: TrxEnabled after a General command with this id went through.
HandleCmdID(id, enabled) ==
    \/ id = "StartIDPS"
    \/ enabled /\ id \notin {"IdentifyDeviceLingoes", "RequestIdentify"}
=============================================================================
