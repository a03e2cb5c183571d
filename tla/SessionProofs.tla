---------------------------- MODULE SessionProofs ----------------------------
(***************************************************************************)
(* What Lookup can tell from a length, for any sizes that are registered;  *)
(* and the session that reads commands with it.  A radio that waits until  *)
(* its frame is served: the buffer that the reader and the main loop share *)
(* does it no harm, for frames of any messages, any number of them, of     *)
(* errors and of repeated RequestIdentify.  And it and the pod keep to the *)
(* same mode, whatever frames change it.                                   *)
(***************************************************************************)
EXTENDS Session, TLAPS, WellFoundedInduction

\* The smallest of a set of numbers is the one that First finds.
LEMMA FirstIs ==
    ASSUME NEW S \in SUBSET Int, NEW i \in S, \A j \in S : i <= j
    PROVE  First(S) = i
<1>1. \A k \in S : (\A j \in S : k <= j) => k = i
  OBVIOUS
<1>2. First(S) \in S /\ \A j \in S : First(S) <= j
  BY DEF First
<1>. QED
  BY <1>1, <1>2

\* Any set of natural numbers that is not empty has a smallest one.
LEMMA FirstExists ==
    ASSUME NEW S \in SUBSET Nat, S # {}
    PROVE  First(S) \in S /\ \A j \in S : First(S) <= j
<1>1. PICK i \in S : \A j \in S : ~(<<j, i>> \in OpToRel(<, Nat))
  BY NatLessThanWellFounded, WFMin
<1>2. \A j \in S : ~(j < i)
  BY <1>1 DEF OpToRel
<1>3. \A j \in S : i <= j
  BY <1>2
<1>. QED
  BY <1>3 DEF First

\* Lookup takes the first type that fits the length.
LEMMA LookupFits ==
    ASSUME NEW sizes \in Seq(Int), NEW n \in Nat, NEW enabled \in BOOLEAN,
           Hits(sizes, n) # {}
    PROVE  LET first == First(Hits(sizes, n))
           IN /\ first \in DOMAIN sizes /\ Fits(sizes[first], n)
              /\ \A j \in DOMAIN sizes : Fits(sizes[j], n) => first <= j
              /\ Lookup(sizes, n, enabled) = [type |-> first, trx |-> sizes[first] # n]
<1>. DEFINE hits == Hits(sizes, n)
<1>1. hits \in SUBSET Nat
  BY DEF Hits
<1>2. First(hits) \in hits /\ \A j \in hits : First(hits) <= j
  BY <1>1, FirstExists
<1>3. Lookup(sizes, n, enabled) = [type |-> First(hits), trx |-> sizes[First(hits)] # n]
  BY DEF Lookup
<1>. QED
  BY <1>2, <1>3 DEF Hits

\* A packet whose type has a fixed size reads back as what it is, in either
\* mode, exactly if no type registered before it fits its length as well.
THEOREM LookupExact ==
    ASSUME NEW sizes \in Seq(Int), NEW i \in DOMAIN sizes, Fixed(sizes[i]),
           NEW trx \in BOOLEAN, NEW enabled \in BOOLEAN
    PROVE  ReadsBack(sizes, i, sizes[i], trx, enabled)
             <=> \A j \in 1..i - 1 : ~Fits(sizes[j], sizes[i] + Len2(trx))
<1>. DEFINE n == sizes[i] + Len2(trx)
            hits == Hits(sizes, n)
            first == First(hits)
<1>1. n \in Nat /\ Len2(trx) \in {0, 2} /\ (Len2(trx) = 0 <=> ~trx) /\ i \in Nat /\ i >= 1
      /\ sizes[i] \in Nat
  BY DEF Len2, TrxLen, Fixed
<1>2. i \in hits
  BY <1>1 DEF Hits, Fits, Len2, TrxLen
<1>3. /\ first \in DOMAIN sizes /\ Fits(sizes[first], n)
      /\ \A j \in DOMAIN sizes : Fits(sizes[j], n) => first <= j
      /\ Lookup(sizes, n, enabled) = [type |-> first, trx |-> sizes[first] # n]
  BY <1>1, <1>2, LookupFits
<1>4. first \in Nat /\ first >= 1 /\ first # UnknownPayload /\ first <= i
  BY <1>1, <1>2, <1>3 DEF UnknownPayload, Hits
<1>5. ASSUME first = i
      PROVE  Unmarshal(sizes, n, enabled) = [type |-> i, trx |-> trx, size |-> sizes[i]]
  <2>1. Lookup(sizes, n, enabled) = [type |-> i, trx |-> trx]
    BY <1>1, <1>3, <1>5
  <2>2. n - Len2(trx) = sizes[i]
    BY <1>1
  <2>. QED
    BY <1>1, <1>4, <1>5, <2>1, <2>2 DEF Unmarshal, Readable, Fixed
<1>6. ASSUME first # i
      PROVE  Unmarshal(sizes, n, enabled).type # i
  <2>1. Unmarshal(sizes, n, enabled).type \in {first, UnknownPayload, NilPayload}
    BY <1>3 DEF Unmarshal
  <2>. QED
    BY <1>1, <1>6, <2>1 DEF UnknownPayload, NilPayload
<1>. HIDE DEF n, hits, first
<1>7. ReadsBack(sizes, i, sizes[i], trx, enabled) <=> first = i
  BY <1>5, <1>6 DEF ReadsBack, n
<1>8. ASSUME first = i, NEW j \in 1..i - 1
      PROVE  ~Fits(sizes[j], n)
  BY <1>1, <1>3, <1>8
<1>9. ASSUME first # i
      PROVE  first \in 1..i - 1
  BY <1>1, <1>4, <1>9
<1>. QED
  BY <1>3, <1>7, <1>8, <1>9 DEF n

\* So where two types are registered, both are told in either mode unless their
\* sizes are equal or a transaction apart.
THEOREM TwoTypes ==
    ASSUME NEW s \in Nat, NEW t \in Nat, NEW enabled \in BOOLEAN
    PROVE  (\A i \in {1, 2}, trx \in BOOLEAN : ReadsBack(<<s, t>>, i, <<s, t>>[i], trx, enabled))
             <=> s \notin {t - TrxLen, t, t + TrxLen}
<1>. DEFINE sizes == <<s, t>>
<1>1. sizes \in Seq(Int) /\ DOMAIN sizes = {1, 2} /\ sizes[1] = s /\ sizes[2] = t
  OBVIOUS
<1>. HIDE DEF sizes
<1>2. Fixed(sizes[1]) /\ Fixed(sizes[2])
  BY <1>1 DEF Fixed
<1>3. \A trx \in BOOLEAN : ReadsBack(sizes, 1, sizes[1], trx, enabled)
  BY <1>1, <1>2, LookupExact
<1>4. \A trx \in BOOLEAN :
          ReadsBack(sizes, 2, sizes[2], trx, enabled) <=> ~Fits(s, t + Len2(trx))
  <2>. TAKE trx \in BOOLEAN
  <2>1. ReadsBack(sizes, 2, sizes[2], trx, enabled)
          <=> \A j \in 1..2 - 1 : ~Fits(sizes[j], sizes[2] + Len2(trx))
    BY <1>1, <1>2, LookupExact
  <2>2. 1..2 - 1 = {1}
    OBVIOUS
  <2>. QED
    BY <1>1, <2>1, <2>2
<1>5. Fits(s, t + Len2(TRUE)) \/ Fits(s, t + Len2(FALSE)) <=> s \in {t - TrxLen, t, t + TrxLen}
  BY DEF Fits, Fixed, Len2, TrxLen
<1>. QED
  BY <1>1, <1>3, <1>4, <1>5 DEF sizes

\* Where a command's only type has no fixed size, the mode decides: what was
\* sent in the other mode does not read back.
THEOREM OpenTypeNeedsMode ==
    ASSUME NEW s \in {Custom, Parsed}, NEW size \in Nat,
           NEW trx \in BOOLEAN, NEW enabled \in BOOLEAN
    PROVE  ReadsBack(<<s>>, 1, size, trx, enabled) <=> trx = enabled
<1>. DEFINE sizes == <<s>>
            n == size + Len2(trx)
<1>1. sizes \in Seq(Int) /\ DOMAIN sizes = {1} /\ sizes[1] = s /\ Len(sizes) = 1
      /\ s \in {-1, -2} /\ ~Fixed(s) /\ Readable(s)
  BY DEF Custom, Parsed, Fixed, Readable
<1>. HIDE DEF sizes
<1>2. Hits(sizes, n) = {}
  BY <1>1 DEF Hits, Fits
<1>3. Lookup(sizes, n, enabled) = [type |-> 1, trx |-> enabled]
  BY <1>1, <1>2 DEF Lookup
<1>4. UnknownPayload = 0 /\ NilPayload = -1
  BY DEF UnknownPayload, NilPayload
<1>5. CASE n - Len2(enabled) < 0
  <2>1. Unmarshal(sizes, n, enabled).type # 1
    BY <1>3, <1>4, <1>5 DEF Unmarshal
  <2>2. trx = enabled => n - Len2(enabled) = size
    BY DEF Len2, TrxLen
  <2>3. trx # enabled
    BY <1>5, <2>2
  <2>. QED
    BY <2>1, <2>3 DEF ReadsBack, sizes
<1>6. CASE ~(n - Len2(enabled) < 0)
  <2>1. s <= n - Len2(enabled)
    BY <1>1, <1>6 DEF Len2, TrxLen
  <2>2. Unmarshal(sizes, n, enabled)
          = [type |-> 1, trx |-> enabled, size |-> n - Len2(enabled)]
    BY <1>1, <1>3, <1>4, <1>6, <2>1 DEF Unmarshal
  <2>3. trx = enabled => n - Len2(enabled) = size
    BY DEF Len2, TrxLen
  <2>. QED
    BY <2>2, <2>3 DEF ReadsBack, sizes
<1>. QED
  BY <1>5, <1>6

-----------------------------------------------------------------------------
(* The session. *)

\* s is a sequence, of whatever.
IsSeq(s) == \E S : s \in Seq(S)

\* It is of commands that are numbered from k + 1 on.
Numbered(s, k) == IsSeq(s) /\ \A i \in 1..Len(s) : s[i].n = k + i

LEMMA SeqLen == ASSUME NEW s, IsSeq(s) PROVE Len(s) \in Nat /\ DOMAIN s = 1..Len(s)
  BY DEF IsSeq

LEMMA SeqEmpty == IsSeq(<<>>) /\ Len(<<>>) = 0
<1>1. <<>> \in Seq({})
  OBVIOUS
<1>. QED
  BY <1>1 DEF IsSeq

LEMMA SeqAppend ==
    ASSUME NEW s, IsSeq(s), NEW c
    PROVE  /\ IsSeq(Append(s, c)) /\ Len(Append(s, c)) = Len(s) + 1
           /\ \A i \in 1..Len(s) : Append(s, c)[i] = s[i]
           /\ Append(s, c)[Len(s) + 1] = c
<1>1. PICK S : s \in Seq(S)
  BY DEF IsSeq
<1>. DEFINE T == S \cup {c}
<1>2. s \in Seq(T) /\ c \in T
  BY <1>1
<1>. HIDE DEF T
<1>3. Append(s, c) \in Seq(T)
  BY <1>2
<1>4. IsSeq(Append(s, c))
  BY <1>3 DEF IsSeq
<1>. QED
  BY <1>2, <1>4

LEMMA SeqTail ==
    ASSUME NEW s, IsSeq(s), s # <<>>
    PROVE  /\ IsSeq(Tail(s)) /\ Len(s) >= 1 /\ Len(Tail(s)) = Len(s) - 1
           /\ Head(s) = s[1]
           /\ \A i \in 1..Len(s) - 1 : Tail(s)[i] = s[i + 1]
<1>1. PICK S : s \in Seq(S)
  BY DEF IsSeq
<1>2. Tail(s) \in Seq(S)
  BY <1>1
<1>. QED
  BY <1>1, <1>2 DEF IsSeq

LEMMA SeqConcat ==
    ASSUME NEW s, NEW t, IsSeq(s), IsSeq(t)
    PROVE  IsSeq(s \o t) /\ Len(s \o t) = Len(s) + Len(t)
<1>1. PICK S : s \in Seq(S)
  BY DEF IsSeq
<1>2. PICK T : t \in Seq(T)
  BY DEF IsSeq
<1>. DEFINE U == S \cup T
<1>3. s \in Seq(U) /\ t \in Seq(U)
  BY <1>1, <1>2
<1>. HIDE DEF U
<1>4. s \o t \in Seq(U)
  BY <1>3
<1>5. IsSeq(s \o t)
  BY <1>4 DEF IsSeq
<1>. QED
  BY <1>3, <1>5

LEMMA NumberedEmpty == \A k : Numbered(<<>>, k)
  BY SeqEmpty DEF Numbered

LEMMA NumberedAppend ==
    ASSUME NEW s, NEW k \in Nat, Numbered(s, k), NEW c, c.n = k + Len(s) + 1
    PROVE  Numbered(Append(s, c), k) /\ Len(Append(s, c)) = Len(s) + 1
<1>1. /\ IsSeq(Append(s, c)) /\ Len(Append(s, c)) = Len(s) + 1 /\ Len(s) \in Nat
      /\ \A i \in 1..Len(s) : Append(s, c)[i] = s[i]
      /\ Append(s, c)[Len(s) + 1] = c
  BY SeqAppend, SeqLen DEF Numbered
<1>2. \A i \in 1..Len(s) + 1 : i \in 1..Len(s) \/ i = Len(s) + 1
  BY <1>1
<1>. QED
  BY <1>1, <1>2 DEF Numbered

LEMMA NumberedTail ==
    ASSUME NEW s, NEW k \in Nat, Numbered(s, k), s # <<>>
    PROVE  Numbered(Tail(s), k + 1) /\ Head(s).n = k + 1 /\ Len(Tail(s)) = Len(s) - 1
<1>1. /\ IsSeq(Tail(s)) /\ Len(s) \in Nat /\ Len(s) >= 1 /\ Len(Tail(s)) = Len(s) - 1
      /\ Head(s) = s[1]
      /\ \A i \in 1..Len(s) - 1 : Tail(s)[i] = s[i + 1]
  BY SeqTail, SeqLen DEF Numbered
<1>2. \A i \in 1..Len(s) - 1 : i + 1 \in 1..Len(s)
  BY <1>1
<1>. QED
  BY <1>1, <1>2 DEF Numbered

-----------------------------------------------------------------------------
(* Where the commands are. *)

\* The commands of a sequence follow those that are handled, and are the last.
Rest(s) == Numbered(s, Len(handled)) /\ Len(commands) = Len(handled) + Len(s)

\* One frame at a time: it is on its way to the reader, or in frameCh,
OnTheWay ==
    \/ inbound = <<>> /\ Len(commands) = Len(handled)
       /\ (frameCh # <<>> => Head(frameCh).err # "none")
    \/ inbound = <<>> /\ mainPc = "select"
       /\ frameCh # <<>> /\ Head(frameCh).err = "none" /\ Rest(Head(frameCh).data)
    \/ mainPc \in {"select", "readAgain", "returned"}
       /\ inbound # <<>> /\ Tail(inbound) = <<>> /\ Rest(Head(inbound))
       /\ (frameCh # <<>> => Head(frameCh).err # "none")

\* or being parsed,
InParser ==
    /\ IsSeq(data) /\ pos \in 1..Len(data) + 1
    /\ \A i \in pos..Len(data) : data[i].n = Len(handled) + Len(inCmds) + (i - pos + 1)
    /\ Len(commands) = Len(handled) + Len(inCmds) + (Len(data) - pos + 1)

\* or being handled.
Pipeline ==
    /\ Numbered(handled, 0) /\ IsSeq(commands) /\ IsSeq(fresh)
    /\ mainPc \in {"identify", "startRead", "select", "readAgain", "returned"} =>
          data = <<>> /\ inCmds = <<>> /\ OnTheWay
    /\ mainPc \in {"readNext", "parse", "handle", "send"} =>
          inbound = <<>> /\ (frameCh # <<>> => Head(frameCh).err # "none")
    /\ mainPc = "readNext" => inCmds = <<>>
    /\ mainPc \in {"readNext", "parse"} => Numbered(inCmds, Len(handled)) /\ InParser
    /\ mainPc = "handle" => data = <<>> /\ Rest(inCmds)
    /\ mainPc = "send" => data = <<>> /\ inCmds = <<>> /\ Len(commands) = Len(handled)

\* The next ReadFrame begins when the last one's result is taken.
OneRead ==
    /\ mainPc \in {"identify", "startRead", "select", "readNext", "readAgain", "parse",
                  "handle", "send", "returned"}
    /\ mainPc \in {"identify", "startRead", "readNext", "readAgain", "returned"} =>
          readPc = "off" /\ frameCh = <<>>
    /\ readPc \in {"off", "reading"} /\ (readPc = "reading" => frameCh = <<>>)
    /\ frameCh # <<>> => /\ Head(frameCh).err \in {"none", "error", "EOF"}
                         /\ Head(frameCh).err # "none" => Head(frameCh).data = <<>>

SessionInv == OneRead /\ (patient => Pipeline)

LEMMA SessionInit == Init => SessionInv
<1>. SUFFICES ASSUME Init PROVE SessionInv
  OBVIOUS
<1>1. mainPc \in {"identify", "startRead"}
  BY DEF Init
<1>. QED
  BY <1>1, SeqEmpty, NumberedEmpty DEF Init, SessionInv, OneRead, Pipeline, OnTheWay

LEMMA OneReadStep == ASSUME OneRead, [Next]_vars PROVE OneRead'
<1>. USE DEF OneRead
<1>1. CASE IdentifyFirst \/ FirstRead \/ StartRead
  BY <1>1 DEF IdentifyFirst, FirstRead, StartRead, readVars
<1>7. CASE ReceiveEOF \/ ReceiveFrame
  <2>1. readPc = "off"
    BY <1>7 DEF ReceiveEOF, ReceiveFrame
  <2>. QED
    BY <1>7, <2>1 DEF ReceiveEOF, ReceiveFrame, readVars
<1>2. CASE ParsePacket \/ ParseTorn \/ AllParsed \/ HandlePacket \/ AllHandled
           \/ SendAnswer \/ BackToSelect
  BY <1>2 DEF ParsePacket, ParseTorn, AllParsed, HandlePacket, AllHandled, SendAnswer,
     BackToSelect, readVars
<1>3. CASE RetryStep \/ BecomeReady \/ \E kinds \in FrameKinds : SendFrame(kinds)
  BY <1>3 DEF RetryStep, RetryCheck, RetrySend, BecomeReady, SendFrame, mainVars, readVars
<1>4. CASE StorePacket
  BY <1>4 DEF StorePacket
<1>5. CASE ReadFrameReturns \/ ReadFrameFails \/ ReadFrameEnds
  <2>1. /\ readPc = "reading" /\ readPc' = "off" /\ UNCHANGED mainPc
        /\ \E e \in {"none", "error", "EOF"} : \E d :
              frameCh' = <<[err |-> e, data |-> d]>> /\ (e # "none" => d = <<>>)
    BY <1>5 DEF ReadFrameReturns, ReadFrameFails, ReadFrameEnds, mainVars
  <2>4. PICK e \in {"none", "error", "EOF"} :
            \E d : frameCh' = <<[err |-> e, data |-> d]>> /\ (e # "none" => d = <<>>)
    BY <2>1
  <2>2. PICK d : frameCh' = <<[err |-> e, data |-> d]>> /\ (e # "none" => d = <<>>)
    BY <2>4
  <2>3. Head(frameCh').err = e /\ Head(frameCh').data = d
    BY <2>2
  <2>. QED
    BY <2>1, <2>2, <2>3
<1>6. CASE UNCHANGED vars
  BY <1>6 DEF vars, mainVars, readVars
<1>. QED
  BY <1>1, <1>2, <1>3, <1>4, <1>5, <1>6, <1>7 DEF Next, MainStep, ReadStep

\* What the other goroutines do to the pipeline: nothing.
LEMMA PipelineStays ==
    ASSUME Pipeline, UNCHANGED <<handled, commands, data, pos, inCmds, frameCh, inbound, mainPc>>,
           IsSeq(fresh')
    PROVE  Pipeline'
<1>1. UNCHANGED <<handled, commands, data, pos, inCmds, frameCh, inbound>>
  OBVIOUS
<1>2. OnTheWay' <=> OnTheWay
  BY DEF OnTheWay, Rest
<1>3. InParser' <=> InParser
  BY DEF InParser
<1>4. Rest(inCmds)' <=> Rest(inCmds)
  BY DEF Rest
<1>. QED
  BY <1>1, <1>2, <1>3, <1>4 DEF Pipeline

LEMMA PipelineReceive ==
    ASSUME OneRead, Pipeline, ReceiveEOF \/ ReceiveFrame
    PROVE  Pipeline'
<1>1. /\ mainPc = "select" /\ data = <<>> /\ inCmds = <<>> /\ OnTheWay /\ frameCh # <<>>
      /\ frameCh' = <<>>
      /\ UNCHANGED <<handled, commands, inbound, inCmds, fresh>>
  BY DEF ReceiveEOF, ReceiveFrame, Pipeline, readVars, radioVars, ghosts, mainVars
<1>2. CASE Head(frameCh).err # "none"
  <2>1. data' = <<>> /\ mainPc' \in {"readAgain", "returned"}
    BY <1>1, <1>2 DEF ReceiveEOF, ReceiveFrame, OneRead
  <2>2. OnTheWay'
    BY <1>1, <1>2, <2>1 DEF OnTheWay, Rest
  <2>. QED
    BY <1>1, <2>1, <2>2 DEF Pipeline
<1>3. CASE Head(frameCh).err = "none"
  <2>1. /\ mainPc' = "readNext" /\ data' = Head(frameCh).data /\ pos' = 1
        /\ inbound = <<>> /\ Rest(data')
    BY <1>1, <1>3 DEF ReceiveEOF, ReceiveFrame, OnTheWay
  <2>2. IsSeq(data') /\ Len(data') \in Nat /\ pos' \in 1..Len(data') + 1
    BY <2>1, SeqLen DEF Rest, Numbered
  <2>3. Len(handled) \in Nat /\ Len(inCmds) = 0
    BY <1>1, SeqLen, SeqEmpty DEF Pipeline, Numbered
  <2>4. InParser'
    BY <1>1, <2>1, <2>2, <2>3 DEF InParser, Rest, Numbered
  <2>5. Numbered(inCmds, Len(handled))'
    BY <1>1, NumberedEmpty
  <2>. QED
    BY <1>1, <2>1, <2>4, <2>5 DEF Pipeline
<1>. QED
  BY <1>2, <1>3

LEMMA PipelineParse ==
    ASSUME Pipeline, ParsePacket
    PROVE  Pipeline'
<1>. DEFINE c == ReadCommand(data[pos], trxEnabled')
<1>1. /\ mainPc = "parse" /\ Numbered(inCmds, Len(handled)) /\ InParser /\ pos <= Len(data)
      /\ inCmds' = Append(inCmds, c) /\ pos' = pos + 1
      /\ UNCHANGED <<handled, commands, data, frameCh, inbound, mainPc, fresh>>
  BY DEF ParsePacket, Pipeline, readVars, radioVars, ghosts
<1>2. c.n = data[pos].n
  BY DEF ReadCommand
<1>. HIDE DEF c
<1>3. Len(data) \in Nat /\ Len(handled) \in Nat /\ Len(inCmds) \in Nat /\ pos \in 1..Len(data)
  BY <1>1, SeqLen DEF InParser, Pipeline, Numbered
<1>4. c.n = Len(handled) + Len(inCmds) + 1
  <2>1. pos \in pos..Len(data) /\ pos - pos = 0
    BY <1>3
  <2>2. data[pos].n = Len(handled) + Len(inCmds) + (pos - pos + 1)
    BY <1>1, <2>1 DEF InParser
  <2>. QED
    BY <1>2, <1>3, <2>2
<1>5. Numbered(inCmds', Len(handled)) /\ Len(inCmds') = Len(inCmds) + 1
  BY <1>1, <1>3, <1>4, NumberedAppend
<1>6. InParser'
  BY <1>1, <1>3, <1>5 DEF InParser
<1>. QED
  BY <1>1, <1>5, <1>6 DEF Pipeline

LEMMA PipelineHandle ==
    ASSUME Pipeline, HandlePacket
    PROVE  Pipeline'
<1>1. /\ mainPc = "handle" /\ data = <<>> /\ Rest(inCmds) /\ inCmds # <<>> /\ inbound = <<>>
      /\ handled' = Append(handled, Head(inCmds)) /\ inCmds' = Tail(inCmds)
      /\ UNCHANGED <<commands, data, frameCh, inbound, mainPc, fresh>>
  BY DEF HandlePacket, Pipeline, readVars, radioVars
<1>2. Len(handled) \in Nat /\ Len(inCmds) \in Nat
  BY <1>1, SeqLen DEF Pipeline, Rest, Numbered
<1>3. /\ Numbered(inCmds', Len(handled) + 1) /\ Head(inCmds).n = Len(handled) + 1
      /\ Len(inCmds') = Len(inCmds) - 1
  BY <1>1, <1>2, NumberedTail DEF Rest
<1>4. Numbered(handled', 0) /\ Len(handled') = Len(handled) + 1
  BY <1>1, <1>2, <1>3, NumberedAppend DEF Pipeline
<1>5. Rest(inCmds)'
  BY <1>1, <1>2, <1>3, <1>4 DEF Rest
<1>. QED
  BY <1>1, <1>4, <1>5 DEF Pipeline

\* A frame that is read while the main loop waits goes nowhere near its data.
LEMMA PipelineRead ==
    ASSUME OneRead, Pipeline, StorePacket \/ ReadFrameReturns
    PROVE  Pipeline'
<1>1. /\ inbound # <<>> /\ readPc = "reading" /\ frameCh = <<>>
      /\ UNCHANGED <<handled, commands, inCmds, mainPc, pos>>
  BY DEF StorePacket, ReadFrameReturns, OneRead, mainVars, radioVars, ghosts
<1>2. /\ mainPc = "select" /\ data = <<>> /\ inCmds = <<>> /\ OnTheWay
  BY <1>1 DEF Pipeline, OneRead
<1>3. Tail(inbound) = <<>> /\ Rest(Head(inbound))
  BY <1>1, <1>2 DEF OnTheWay
<1>4. Len(fresh) \in Nat /\ Len(data) = 0
  BY <1>2, SeqLen, SeqEmpty DEF Pipeline
<1>5. CASE StorePacket
  <2>1. UNCHANGED data
    BY <1>4, <1>5 DEF StorePacket
  <2>2. IsSeq(fresh')
    BY <1>5, SeqAppend DEF StorePacket, Pipeline
  <2>3. UNCHANGED <<frameCh, inbound>>
    BY <1>5 DEF StorePacket
  <2>. QED
    BY <1>1, <2>1, <2>2, <2>3, PipelineStays
<1>6. CASE ReadFrameReturns
  <2>1. /\ frameCh' = <<[err |-> "none", data |-> Head(inbound)]>> /\ inbound' = <<>>
        /\ UNCHANGED <<data, fresh>>
    BY <1>3, <1>6 DEF ReadFrameReturns, mainVars
  <2>2. frameCh' # <<>> /\ Head(frameCh').err = "none" /\ Head(frameCh').data = Head(inbound)
    BY <2>1
  <2>3. Rest(Head(frameCh).data)'
    BY <1>1, <1>3, <2>2 DEF Rest
  <2>4. OnTheWay'
    BY <1>1, <1>2, <2>1, <2>2, <2>3 DEF OnTheWay
  <2>. QED
    BY <1>1, <1>2, <2>1, <2>4 DEF Pipeline
<1>. QED
  BY <1>5, <1>6

LEMMA PipelineNoFrame ==
    ASSUME OneRead, Pipeline, ReadFrameFails \/ ReadFrameEnds
    PROVE  Pipeline'
<1>1. /\ frameCh = <<>>
      /\ \E e \in {"error", "EOF"} : frameCh' = <<[err |-> e, data |-> <<>>]>>
      /\ UNCHANGED <<handled, commands, inCmds, mainPc, pos, data, inbound, fresh>>
  BY DEF ReadFrameFails, ReadFrameEnds, OneRead, mainVars, radioVars, ghosts
<1>2. frameCh' # <<>> /\ Head(frameCh').err # "none"
  BY <1>1
<1>3. OnTheWay => OnTheWay'
  BY <1>1, <1>2 DEF OnTheWay, Rest
<1>4. InParser' <=> InParser
  BY <1>1 DEF InParser
<1>5. Rest(inCmds)' <=> Rest(inCmds)
  BY <1>1 DEF Rest
<1>. QED
  BY <1>1, <1>2, <1>3, <1>4, <1>5 DEF Pipeline

LEMMA PipelineSend ==
    ASSUME OneRead, patient, Pipeline, NEW kinds \in FrameKinds, SendFrame(kinds)
    PROVE  Pipeline'
<1>. DEFINE f == Frame(kinds)
<1>1. /\ inbound = <<>> /\ frameCh = <<>> /\ mainPc = "select"
      /\ inbound' = Append(inbound, f) /\ commands' = commands \o f
      /\ UNCHANGED <<handled, inCmds, mainPc, pos, data, frameCh, fresh>>
  BY DEF SendFrame, Served, mainVars, readVars, ghosts
<1>2. data = <<>> /\ inCmds = <<>> /\ Len(commands) = Len(handled)
  BY <1>1 DEF Pipeline, OnTheWay
<1>3. kinds \in Seq(Message) /\ Len(kinds) \in Nat /\ DOMAIN kinds = 1..Len(kinds)
      /\ kinds # <<>>
  BY SessionAssumption
<1>4. /\ IsSeq(f) /\ Len(f) = Len(kinds)
      /\ \A i \in 1..Len(f) : f[i].n = Len(commands) + i
  <2>. DEFINE S == {f[i] : i \in 1..Len(kinds)}
  <2>1. f \in [1..Len(kinds) -> S]
    BY <1>3 DEF Frame
  <2>2. \A i \in 1..Len(kinds) : f[i].n = Len(commands) + i
    BY <1>3 DEF Frame
  <2>. HIDE DEF f, S
  <2>3. f \in Seq(S) /\ Len(f) = Len(kinds)
    BY <1>3, <2>1
  <2>. QED
    BY <2>2, <2>3 DEF IsSeq
<1>. HIDE DEF f
<1>5. Numbered(f, Len(handled)) /\ f # <<>>
  BY <1>2, <1>3, <1>4, SeqEmpty DEF Numbered
<1>6. IsSeq(commands') /\ Len(commands') = Len(handled) + Len(f)
  BY <1>1, <1>2, <1>4, SeqConcat DEF Pipeline
<1>7. inbound' = <<f>>
  BY <1>1
<1>8. inbound' # <<>> /\ Tail(inbound') = <<>> /\ Head(inbound') = f
  BY <1>7
<1>9. OnTheWay'
  BY <1>1, <1>5, <1>6, <1>8 DEF OnTheWay, Rest
<1>. QED
  BY <1>1, <1>2, <1>6, <1>9 DEF Pipeline

LEMMA PipelineStep ==
    ASSUME OneRead, patient, Pipeline, [Next]_vars
    PROVE  Pipeline'
<1>1. CASE ReceiveEOF \/ ReceiveFrame
  BY <1>1, PipelineReceive
<1>2. CASE ParsePacket
  BY <1>2, PipelineParse
<1>3. CASE HandlePacket
  BY <1>3, PipelineHandle
<1>4. CASE StorePacket \/ ReadFrameReturns
  BY <1>4, PipelineRead
<1>5. CASE ReadFrameFails \/ ReadFrameEnds
  BY <1>5, PipelineNoFrame
<1>6. CASE \E kinds \in FrameKinds : SendFrame(kinds)
  BY <1>6, PipelineSend
<1>7. CASE ParseTorn
  BY <1>7 DEF ParseTorn, Pipeline
<1>8. CASE IdentifyFirst \/ FirstRead
  <2>1. /\ mainPc \in {"identify", "startRead"} /\ mainPc' \in {"startRead", "select"}
        /\ UNCHANGED <<handled, commands, data, inCmds, frameCh, inbound, fresh>>
    BY <1>8 DEF IdentifyFirst, FirstRead, readVars, radioVars, ghosts
  <2>2. OnTheWay'
    BY <2>1 DEF Pipeline, OnTheWay, Rest
  <2>. QED
    BY <2>1, <2>2 DEF Pipeline
<1>9. CASE StartRead
  <2>1. /\ UNCHANGED <<handled, commands, data, pos, inCmds, frameCh, inbound>>
        /\ fresh' = <<>>
        /\ \/ mainPc = "readNext" /\ mainPc' = "parse"
           \/ mainPc = "readAgain" /\ mainPc' = "select"
    BY <1>9 DEF StartRead, radioVars, ghosts
  <2>2. CASE mainPc = "readNext" /\ mainPc' = "parse"
    <3>1. InParser' <=> InParser
      BY <2>1 DEF InParser
    <3>. QED
      BY <2>1, <2>2, <3>1, SeqEmpty DEF Pipeline
  <2>3. CASE mainPc = "readAgain" /\ mainPc' = "select"
    <3>1. OnTheWay'
      BY <2>1, <2>3 DEF Pipeline, OnTheWay, Rest
    <3>. QED
      BY <2>1, <2>3, <3>1, SeqEmpty DEF Pipeline
  <2>. QED
    BY <2>1, <2>2, <2>3
<1>10. CASE AllParsed
  <2>1. /\ mainPc = "parse" /\ mainPc' = "handle" /\ data' = <<>> /\ pos > Len(data)
        /\ InParser /\ Numbered(inCmds, Len(handled))
        /\ UNCHANGED <<handled, commands, inCmds, frameCh, inbound, fresh>>
    BY <1>10 DEF AllParsed, Pipeline, readVars, radioVars, ghosts
  <2>2. Len(data) \in Nat /\ Len(inCmds) \in Nat /\ Len(handled) \in Nat
    BY <2>1, SeqLen DEF InParser, Pipeline, Numbered
  <2>3. Rest(inCmds)'
    BY <2>1, <2>2 DEF InParser, Rest
  <2>. QED
    BY <2>1, <2>3 DEF Pipeline
<1>11. CASE AllHandled
  <2>1. /\ mainPc = "handle" /\ mainPc' = "send" /\ inCmds = <<>>
        /\ UNCHANGED <<handled, commands, data, inCmds, frameCh, inbound, fresh>>
    BY <1>11 DEF AllHandled, readVars, radioVars, ghosts
  <2>2. Len(handled) \in Nat
    BY SeqLen DEF Pipeline, Numbered
  <2>3. Len(commands) = Len(handled)
    BY <2>1, <2>2, SeqEmpty DEF Pipeline, Rest
  <2>. QED
    BY <2>1, <2>3 DEF Pipeline
<1>12. CASE BackToSelect
  <2>1. /\ mainPc = "send" /\ mainPc' = "select"
        /\ UNCHANGED <<handled, commands, data, inCmds, frameCh, inbound, fresh>>
    BY <1>12 DEF BackToSelect, readVars, radioVars, ghosts
  <2>2. OnTheWay'
    BY <2>1 DEF Pipeline, OnTheWay
  <2>. QED
    BY <2>1, <2>2 DEF Pipeline
<1>13. CASE SendAnswer \/ RetryStep \/ BecomeReady \/ UNCHANGED vars
  <2>1. UNCHANGED <<handled, commands, data, pos, inCmds, frameCh, inbound, mainPc, fresh>>
    BY <1>13 DEF SendAnswer, RetryStep, RetryCheck, RetrySend, BecomeReady, vars, mainVars,
       readVars, radioVars, ghosts
  <2>2. IsSeq(fresh')
    BY <2>1 DEF Pipeline
  <2>. QED
    BY <2>1, <2>2, PipelineStays
<1>. QED
  BY <1>1, <1>2, <1>3, <1>4, <1>5, <1>6, <1>7, <1>8, <1>9, <1>10, <1>11, <1>12, <1>13
  DEF Next, MainStep, ReadStep

LEMMA PatientStays == ASSUME [Next]_vars PROVE UNCHANGED patient
<1>1. CASE MainStep
  BY <1>1 DEF MainStep, IdentifyFirst, FirstRead, ReceiveEOF, ReceiveFrame, StartRead, ParsePacket,
     ParseTorn, AllParsed, HandlePacket, AllHandled, SendAnswer, BackToSelect, radioVars
<1>2. CASE RetryStep \/ ReadStep \/ ReadFrameFails \/ ReadFrameEnds
  BY <1>2 DEF RetryStep, RetryCheck, RetrySend, ReadStep, StorePacket, ReadFrameReturns,
     ReadFrameFails, ReadFrameEnds, radioVars
<1>3. CASE BecomeReady \/ \E kinds \in FrameKinds : SendFrame(kinds)
  BY <1>3 DEF BecomeReady, SendFrame
<1>. QED
  BY <1>1, <1>2, <1>3 DEF Next, vars, radioVars

\* The commands of a radio that sends a frame only when its last one is served are
\* handled once and in the order of sending, although frames are parsed in the
\* buffer that is being read into, and whatever reads fail; and when all is
\* served, none of them has been missed.
THEOREM PatientIsServed ==
    Spec => [](patient => Faithful /\ (Served => Len(handled) = Len(commands)))
<1>1. Init => SessionInv
  BY SessionInit
<1>2. SessionInv /\ [Next]_vars => SessionInv'
  BY OneReadStep, PipelineStep, PatientStays DEF SessionInv
<1>3. SessionInv => (patient => Faithful /\ (Served => Len(handled) = Len(commands)))
  <2>. SUFFICES ASSUME SessionInv, patient
                PROVE  Faithful /\ (Served => Len(handled) = Len(commands))
    OBVIOUS
  <2>1. Faithful
    <3>1. Numbered(handled, 0) /\ DOMAIN handled = 1..Len(handled) /\ Len(handled) \in Nat
      BY SeqLen DEF SessionInv, Pipeline, Numbered
    <3>2. \A i \in 1..Len(handled) : handled[i].n = 0 + i
      BY <3>1 DEF Numbered
    <3>. QED
      BY <3>1, <3>2 DEF Faithful
  <2>2. Served => Len(handled) = Len(commands)
    BY DEF Served, SessionInv, Pipeline, OnTheWay
  <2>. QED
    BY <2>1, <2>2
<1>. QED
  BY <1>1, <1>2, <1>3, PTL DEF Spec

-----------------------------------------------------------------------------
(* Types. *)

LEMMA SeqSubset == ASSUME NEW S, NEW T, S \subseteq T, NEW s \in Seq(S) PROVE s \in Seq(T)
  OBVIOUS

LEMMA SeqParts ==
    ASSUME NEW T, NEW s \in Seq(T), s # <<>>
    PROVE  Head(s) \in T /\ Tail(s) \in Seq(T)
  OBVIOUS

LEMMA SeqMade == ASSUME NEW T, NEW n \in Nat, NEW t \in [1..n -> T] PROVE t \in Seq(T)
  OBVIOUS

LEMMA SeqUpdate ==
    ASSUME NEW T, NEW s \in Seq(T), NEW i, NEW c \in T
    PROVE  [s EXCEPT ![i] = c] \in Seq(T)
<1>. DEFINE t == [s EXCEPT ![i] = c]
<1>1. s \in [1..Len(s) -> T] /\ Len(s) \in Nat
  OBVIOUS
<1>2. t \in [1..Len(s) -> T]
  BY <1>1
<1>. QED
  BY <1>1, <1>2, SeqMade

LEMMA SeqJoin ==
    ASSUME NEW T, NEW s \in Seq(T), NEW t \in Seq(T)
    PROVE  /\ s \o t \in Seq(T) /\ Len(s \o t) = Len(s) + Len(t)
           /\ \A k \in 1..Len(s) : (s \o t)[k] = s[k]
           /\ \A k \in 1..Len(t) : (s \o t)[Len(s) + k] = t[k]
  OBVIOUS

LEMMA SizesType ==
    ASSUME NEW lingo \in Lingoes, NEW id
    PROVE  Sizes(lingo, id) \in Seq(Int)
<1>1. CASE id \in DOMAIN Registered[lingo]
  <2>1. Registered[lingo][id] \in Seq(Opaque..25)
    BY <1>1, RegisteredAssumption
  <2>2. Opaque..25 \subseteq Int
    OBVIOUS
  <2>3. Registered[lingo][id] \in Seq(Int)
    BY <2>1, <2>2, SeqSubset
  <2>. QED
    BY <1>1, <2>3 DEF Sizes
<1>2. CASE id \notin DOMAIN Registered[lingo]
  BY <1>2 DEF Sizes
<1>. QED
  BY <1>1, <1>2

LEMMA UnmarshalType ==
    ASSUME NEW sizes \in Seq(Int), NEW n \in Nat, NEW enabled \in BOOLEAN
    PROVE  Unmarshal(sizes, n, enabled) \in [type : Int, trx : BOOLEAN, size : Nat]
<1>. DEFINE found == Lookup(sizes, n, enabled)
<1>1. found \in [type : {UnknownPayload} \cup DOMAIN sizes, trx : BOOLEAN]
  <2>1. CASE Hits(sizes, n) # {}
    <3>1. First(Hits(sizes, n)) \in DOMAIN sizes
          /\ found = [type |-> First(Hits(sizes, n)), trx |-> sizes[First(Hits(sizes, n))] # n]
      BY <2>1, LookupFits
    <3>. QED
      BY <3>1
  <2>2. CASE Hits(sizes, n) = {}
    BY <2>2 DEF Lookup
  <2>. QED
    BY <2>1, <2>2
<1>. HIDE DEF found
<1>2. Len2(found.trx) \in {0, 2} /\ UnknownPayload = 0 /\ NilPayload = -1
  BY DEF Len2, TrxLen, UnknownPayload, NilPayload
<1>3. CASE found.type = UnknownPayload
  BY <1>2, <1>3 DEF Unmarshal, found
<1>4. CASE found.type # UnknownPayload /\ n - Len2(found.trx) < 0
  BY <1>2, <1>4 DEF Unmarshal, found
<1>5. CASE found.type # UnknownPayload /\ ~(n - Len2(found.trx) < 0)
  <2>1. sizes[found.type] \in Int /\ found.type \in Int
    BY <1>1, <1>5
  <2>. QED
    BY <1>1, <1>2, <1>5, <2>1 DEF Unmarshal, found, Fixed
<1>. QED
  BY <1>3, <1>4, <1>5

LEMMA ReadCommandType ==
    ASSUME NEW c \in Command, NEW enabled \in BOOLEAN
    PROVE  ReadCommand(c, enabled) \in Command
<1>. DEFINE r == Unmarshal(Sizes(c.lingo, c.id), c.size + Len2(c.trx), enabled)
<1>1. Sizes(c.lingo, c.id) \in Seq(Int)
  BY SizesType DEF Command
<1>2. c.size + Len2(c.trx) \in Nat
  BY DEF Command, Len2, TrxLen
<1>3. r \in [type : Int, trx : BOOLEAN, size : Nat]
  BY <1>1, <1>2, UnmarshalType
<1>. HIDE DEF r
<1>4. ReadCommand(c, enabled) = [c EXCEPT !.type = r.type, !.trx = r.trx, !.size = r.size]
  BY DEF ReadCommand, r
<1>. QED
  BY <1>3, <1>4 DEF Command

LEMMA ResponsesType ==
    ASSUME NEW c \in Command, NEW ui \in BOOLEAN
    PROVE  Responses(c, ui) \in Seq(Response)
<1>1. c.lingo \in Lingoes /\ c.n \in Nat /\ c.trx \in BOOLEAN
  BY DEF Command
<1>2. ASSUME NEW id \in Names, NEW type \in {1, 2}
      PROVE  Answer(c, id, type) \in Response
  BY <1>1 DEF Answer, Response
<1>3. "ACK" \in Names
  BY AnswersAssumption DEF Names, Lingoes
<1>4. LastAnswer(c) # "" => LastAnswer(c) \in Names
  <2>1. CASE c.type = UnknownPayload /\ c.lingo = "General"
    <3>1. LastAnswer(c) = "ACK"
      BY <2>1 DEF LastAnswer, UnknownPayload
    <3>. QED
      BY <1>3, <3>1
  <2>2. CASE /\ c.type # UnknownPayload \/ c.lingo # "General"
             /\ c.type > 0 /\ c.id \in DOMAIN Answers[c.lingo] /\ <<c.id, c.type>> \notin Unhandled
    <3>1. LastAnswer(c) = Answers[c.lingo][c.id]
      BY <2>2 DEF LastAnswer
    <3>. QED
      BY <1>1, <2>2, <3>1, AnswersAssumption DEF Names
  <2>3. CASE /\ ~(c.type = UnknownPayload /\ c.lingo = "General")
             /\ ~(c.type > 0 /\ c.id \in DOMAIN Answers[c.lingo] /\ <<c.id, c.type>> \notin Unhandled)
    BY <2>3, Zenon DEF LastAnswer
  <2>. QED
    BY <2>1, <2>2, <2>3
<1>. DEFINE a == Answer(c, "ACK", 2)
            b == Answer(c, LastAnswer(c), 1)
<1>5. CASE LastAnswer(c) = ""
  <2>1. Responses(c, ui) = <<>>
    BY <1>5, Zenon DEF Responses
  <2>. QED
    BY <2>1
<1>6. CASE LastAnswer(c) # ""
  <2>1. a \in Response /\ b \in Response
    BY <1>2, <1>3, <1>4, <1>6
  <2>2. Responses(c, ui) = (IF SwitchesMode(c, ui) THEN <<a>> ELSE <<>>) \o <<b>>
    BY <1>6 DEF Responses
  <2>. HIDE DEF a, b
  <2>3. <<a>> \o <<b>> \in Seq(Response) /\ <<>> \o <<b>> \in Seq(Response)
    BY <2>1
  <2>. QED
    BY <2>2, <2>3
<1>. QED
  BY <1>5, <1>6

LEMMA FrameType ==
    ASSUME commands \in Seq(Command), radioTrx \in BOOLEAN, NEW kinds \in FrameKinds
    PROVE  /\ Frame(kinds) \in Seq(Command) /\ Len(Frame(kinds)) = Len(kinds)
           /\ Len(kinds) \in Nat \ {0} /\ DOMAIN kinds = 1..Len(kinds)
           /\ \A i \in 1..Len(kinds) : Trx(kinds, i) \in BOOLEAN
<1>1. kinds \in Seq(Message) /\ Len(kinds) \in Nat \ {0} /\ DOMAIN kinds = 1..Len(kinds)
      /\ Len(commands) \in Nat
  BY SessionAssumption
<1>2. \A i : Trx(kinds, i) \in BOOLEAN
  BY DEF Trx
<1>3. ASSUME NEW i \in 1..Len(kinds)
      PROVE  Frame(kinds)[i] \in Command
  <2>1. kinds[i] \in Message
    BY <1>1
  <2>2. Len(commands) + i \in Nat \ {0} /\ Len(commands) + Len(kinds) \in Nat
    BY <1>1
  <2>. QED
    BY <1>1, <1>2, <2>1, <2>2 DEF Frame, Message, Command
<1>4. Frame(kinds) \in [1..Len(kinds) -> Command]
  BY <1>1, <1>3 DEF Frame
<1>. HIDE DEF Frame
<1>5. Frame(kinds) \in Seq(Command) /\ Len(Frame(kinds)) = Len(kinds)
  BY <1>1, <1>4
<1>. QED
  BY <1>1, <1>2, <1>5

\* TypeOK by parts: the goroutines' steps, the bytes, what is written.
PcTypes ==
    /\ mainPc \in {"identify", "startRead", "select", "readNext", "readAgain", "parse",
                  "handle", "send", "returned"}
    /\ retryPc \in {"off", "wait", "send", "stopped"}
    /\ readPc \in {"off", "reading"}
    /\ {handshakeDone, trxEnabled, aliased, radioTrx, patient, ready, asked, extended}
         \subseteq BOOLEAN
    /\ Len(frameCh) <= 1 /\ (readPc = "reading" => frameCh = <<>>)
    /\ frames \in 0..MaxFrames /\ errors \in 0..MaxErrors
DataTypes ==
    /\ {data, fresh, inCmds, commands, handled} \subseteq Seq(Command)
    /\ frameCh \in Seq([err : {"none", "error", "EOF"}, data : Seq(Command)])
    /\ inbound \in Seq(Seq(Command))
    /\ pos \in Nat \ {0}
AnswerTypes ==
    /\ outCmds \in Seq(Response)
    /\ answers \in SUBSET [n : Nat, id : Names, type : {1, 2}, trx : BOOLEAN]

LEMMA TypeParts == TypeOK <=> PcTypes /\ DataTypes /\ AnswerTypes
  BY DEF TypeOK, PcTypes, DataTypes, AnswerTypes

LEMMA TypeInit == Init => TypeOK
<1>. SUFFICES ASSUME Init PROVE TypeOK
  OBVIOUS
<1>1. mainPc \in {"identify", "startRead"}
  BY DEF Init
<1>2. patient \in BOOLEAN /\ 0 \in 0..MaxFrames /\ 0 \in 0..MaxErrors
  BY SessionAssumption DEF Init
<1>3. <<>> \in Seq(Command) /\ <<>> \in Seq(Response) /\ <<>> \in Seq(Seq(Command))
      /\ <<>> \in Seq([err : {"none", "error", "EOF"}, data : Seq(Command)]) /\ Len(<<>>) = 0
  OBVIOUS
<1>4. PcTypes
  <2>1. Len(frameCh) = 0 /\ frameCh = <<>>
    BY DEF Init
  <2>2. {handshakeDone, trxEnabled, aliased, radioTrx, patient, ready, asked, extended}
         \subseteq BOOLEAN
    BY <1>2 DEF Init
  <2>. QED
    BY <1>1, <1>2, <2>1, <2>2 DEF Init, PcTypes
<1>5. DataTypes /\ AnswerTypes
  BY <1>3 DEF Init, DataTypes, AnswerTypes
<1>. QED
  BY <1>4, <1>5, TypeParts

LEMMA PcTypesStep == ASSUME TypeOK, OneRead, [Next]_vars PROVE PcTypes'
<1>. USE TypeParts DEF PcTypes
<1>2. \A id : HandleCmdID(id, trxEnabled) \in BOOLEAN
  BY DEF HandleCmdID
<1>3. CASE IdentifyFirst \/ RetryStep
  BY <1>2, <1>3 DEF IdentifyFirst, RetryStep, RetryCheck, RetrySend, SendRequestIdentify, readVars,
     radioVars, mainVars
<1>4. CASE FirstRead \/ StartRead
  <2>1. frameCh' = <<>> /\ Len(frameCh') = 0 /\ readPc' = "reading"
    BY <1>4 DEF FirstRead, StartRead, OneRead
  <2>. QED
    BY <1>4, <2>1 DEF FirstRead, StartRead, readVars, radioVars
<1>5. CASE ReceiveEOF \/ ReceiveFrame
  <2>1. frameCh' = <<>> /\ Len(frameCh') = 0
    BY <1>5 DEF ReceiveEOF, ReceiveFrame
  <2>2. handshakeDone' \in BOOLEAN /\ mainPc' \in {"returned", "readAgain", "readNext"}
    BY <1>5 DEF ReceiveEOF, ReceiveFrame
  <2>. QED
    BY <1>5, <2>1, <2>2 DEF ReceiveEOF, ReceiveFrame, readVars, radioVars
<1>6. CASE ParsePacket
  BY <1>2, <1>6 DEF ParsePacket, readVars, radioVars
<1>7. CASE ParseTorn \/ AllParsed \/ AllHandled \/ SendAnswer \/ BackToSelect
  BY <1>7 DEF ParseTorn, AllParsed, AllHandled, SendAnswer, BackToSelect, readVars, radioVars
<1>8. CASE HandlePacket
  BY <1>8 DEF HandlePacket, readVars, radioVars
<1>9. CASE StorePacket
  BY <1>9 DEF StorePacket, radioVars
<1>10. CASE ReadFrameReturns \/ ReadFrameFails \/ ReadFrameEnds
  <2>1. Len(frameCh') = 1 /\ readPc' = "off"
    BY <1>10 DEF ReadFrameReturns, ReadFrameFails, ReadFrameEnds
  <2>2. errors' \in 0..MaxErrors
    BY <1>10, SessionAssumption DEF ReadFrameReturns, ReadFrameFails, ReadFrameEnds
  <2>. QED
    BY <1>10, <2>1, <2>2
    DEF ReadFrameReturns, ReadFrameFails, ReadFrameEnds, mainVars, radioVars
<1>11. CASE BecomeReady
  BY <1>11 DEF BecomeReady, mainVars, readVars
<1>12. ASSUME NEW kinds \in FrameKinds, SendFrame(kinds)
       PROVE  PcTypes'
  <2>1. Trx(kinds, Len(kinds)) \in BOOLEAN
    BY DEF Trx
  <2>2. frames' \in 0..MaxFrames
    BY <1>12, SessionAssumption DEF SendFrame
  <2>. QED
    BY <1>12, <2>1, <2>2 DEF SendFrame, mainVars, readVars
<1>13. CASE UNCHANGED vars
  BY <1>13 DEF vars, mainVars, readVars, radioVars
<1>. QED
  BY <1>3, <1>4, <1>5, <1>6, <1>7, <1>8, <1>9, <1>10, <1>11, <1>12, <1>13
  DEF Next, MainStep, ReadStep

LEMMA DataTypesStep == ASSUME TypeOK, [Next]_vars PROVE DataTypes'
<1>. USE TypeParts DEF DataTypes
<1>0. <<>> \in Seq(Command)
      /\ <<>> \in Seq([err : {"none", "error", "EOF"}, data : Seq(Command)])
  OBVIOUS
<1>1. CASE IdentifyFirst \/ FirstRead \/ AllHandled \/ SendAnswer \/ BackToSelect \/ RetryStep
           \/ BecomeReady \/ UNCHANGED vars
  BY <1>1 DEF IdentifyFirst, FirstRead, AllHandled, SendAnswer, BackToSelect, RetryStep,
     RetryCheck, RetrySend, BecomeReady, vars, mainVars, readVars, radioVars, ghosts
<1>2. CASE ReceiveEOF
  BY <1>0, <1>2 DEF ReceiveEOF, readVars, radioVars, ghosts
<1>3. CASE ReceiveFrame
  <2>1. Head(frameCh) \in [err : {"none", "error", "EOF"}, data : Seq(Command)]
    BY <1>3, SeqParts DEF ReceiveFrame
  <2>. QED
    BY <1>0, <1>3, <2>1 DEF ReceiveFrame, readVars, radioVars, ghosts
<1>4. CASE StartRead \/ AllParsed
  BY <1>0, <1>4 DEF StartRead, AllParsed, readVars, radioVars, ghosts
<1>5. CASE ParseTorn
  BY <1>5 DEF ParseTorn, readVars, radioVars, ghosts
<1>6. CASE ParsePacket
  <2>. DEFINE c == ReadCommand(data[pos], trxEnabled')
  <2>1. data[pos] \in Command
    BY <1>6 DEF ParsePacket
  <2>2. trxEnabled' \in BOOLEAN
    BY <1>6 DEF ParsePacket, HandleCmdID
  <2>3. c \in Command
    BY <2>1, <2>2, ReadCommandType
  <2>. HIDE DEF c
  <2>4. inCmds' = Append(inCmds, c)
    BY <1>6 DEF ParsePacket, c
  <2>. QED
    BY <1>6, <2>3, <2>4 DEF ParsePacket, readVars, radioVars, ghosts
<1>7. CASE HandlePacket
  <2>1. Head(inCmds) \in Command /\ Tail(inCmds) \in Seq(Command)
    BY <1>7 DEF HandlePacket
  <2>2. handled' \in Seq(Command) /\ inCmds' \in Seq(Command)
    BY <1>7, <2>1 DEF HandlePacket
  <2>. QED
    BY <1>7, <2>2 DEF HandlePacket, readVars, radioVars
<1>8. CASE StorePacket
  <2>. DEFINE i == Len(fresh) + 1
              c == Head(inbound)[i]
  <2>1. Head(inbound) \in Seq(Command)
    BY <1>8 DEF StorePacket
  <2>2. i \in 1..Len(Head(inbound)) /\ i \in Nat
    BY <1>8, <2>1 DEF StorePacket
  <2>3. c \in Command
    BY <2>1, <2>2
  <2>4. /\ fresh' = Append(fresh, c)
        /\ data' \in {data, [data EXCEPT ![i] = c]}
    BY <1>8 DEF StorePacket
  <2>7. [data EXCEPT ![i] = c] \in Seq(Command)
    BY <2>3, SeqUpdate
  <2>. HIDE DEF c, i
  <2>5. fresh' \in Seq(Command)
    BY <2>3, <2>4
  <2>6. data' \in Seq(Command)
    BY <2>4, <2>7
  <2>. QED
    BY <1>8, <2>5, <2>6 DEF StorePacket, radioVars, ghosts
<1>11. ASSUME NEW e \in {"none", "error", "EOF"}, NEW d \in Seq(Command)
       PROVE  <<[err |-> e, data |-> d]>>
                \in Seq([err : {"none", "error", "EOF"}, data : Seq(Command)])
  OBVIOUS
<1>9. CASE ReadFrameReturns
  <2>1. Tail(inbound) \in Seq(Seq(Command))
    BY <1>9, SeqParts DEF ReadFrameReturns
  <2>2. <<[err |-> "none", data |-> fresh]>>
          \in Seq([err : {"none", "error", "EOF"}, data : Seq(Command)])
    BY <1>11
  <2>. QED
    BY <1>9, <2>1, <2>2 DEF ReadFrameReturns, mainVars, radioVars, ghosts
<1>12. CASE ReadFrameFails \/ ReadFrameEnds
  BY <1>0, <1>11, <1>12 DEF ReadFrameFails, ReadFrameEnds, mainVars, radioVars, ghosts
<1>10. ASSUME NEW kinds \in FrameKinds, SendFrame(kinds)
       PROVE  DataTypes'
  <2>. DEFINE f == Frame(kinds)
  <2>1. f \in Seq(Command)
    BY FrameType DEF PcTypes
  <2>2. inbound' = Append(inbound, f) /\ commands' = commands \o f
        /\ UNCHANGED <<data, fresh, inCmds, handled, pos, frameCh>>
    BY <1>10 DEF SendFrame, mainVars, readVars, ghosts
  <2>. HIDE DEF f
  <2>3. inbound' \in Seq(Seq(Command)) /\ commands' \in Seq(Command)
    BY <2>1, <2>2
  <2>. QED
    BY <2>2, <2>3
<1>. QED
  BY <1>1, <1>2, <1>3, <1>4, <1>5, <1>6, <1>7, <1>8, <1>9, <1>10, <1>12 DEF Next, MainStep, ReadStep

LEMMA AnswerTypesStep == ASSUME TypeOK, [Next]_vars PROVE AnswerTypes'
<1>. USE TypeParts DEF AnswerTypes
<1>1. CASE HandlePacket
  <2>1. Head(inCmds) \in Command /\ extended \in BOOLEAN
    BY <1>1 DEF HandlePacket, DataTypes, PcTypes
  <2>2. Responses(Head(inCmds), extended) \in Seq(Response)
    BY <2>1, ResponsesType
  <2>3. outCmds' \in {outCmds, outCmds \o Responses(Head(inCmds), extended)}
        /\ UNCHANGED answers
    BY <1>1 DEF HandlePacket
  <2>4. outCmds' \in Seq(Response)
    <3>1. PICK rs \in Seq(Response) : rs = Responses(Head(inCmds), extended)
      BY <2>2
    <3>2. outCmds \in Seq(Response) /\ outCmds \o rs \in Seq(Response)
      BY <3>1
    <3>3. CASE outCmds' = outCmds
      BY ONLY <3>2, <3>3
    <3>4. CASE outCmds' = outCmds \o rs
      BY ONLY <3>2, <3>4
    <3>. QED
      BY <2>3, <3>1, <3>3, <3>4
  <2>. QED
    BY <2>3, <2>4
<1>2. CASE SendAnswer
  <2>1. Head(outCmds) \in Response /\ Tail(outCmds) \in Seq(Response)
    BY <1>2 DEF SendAnswer
  <2>2. Marshal(Head(outCmds)) \in [n : Nat, id : Names, type : {1, 2}, trx : BOOLEAN]
    BY <2>1 DEF Marshal, Response
  <2>. QED
    BY <1>2, <2>1, <2>2 DEF SendAnswer
<1>3. CASE ~HandlePacket /\ ~SendAnswer
  <2>1. UNCHANGED <<outCmds, answers>>
    BY <1>3 DEF Next, MainStep, ReadStep, RetryStep, IdentifyFirst, FirstRead, ReceiveEOF,
       ReceiveFrame, StartRead, ParsePacket, ParseTorn, AllParsed, AllHandled, BackToSelect,
       RetryCheck, RetrySend, StorePacket, ReadFrameReturns, ReadFrameFails, ReadFrameEnds,
       BecomeReady, SendFrame, vars, mainVars, ghosts
  <2>. QED
    BY <2>1
<1>. QED
  BY <1>1, <1>2, <1>3

-----------------------------------------------------------------------------
(* What is read is what was sent. *)

\* The mode in which the radio is after its k-th command.
ModeAfter(k) == k > 0 /\ commands[k].trx

\* It turns transactions off after its j-th command and up to its k-th.
Switched(j, k) == \E m \in j + 1..k : commands[m].id = "IdentifyDeviceLingoes"

\* The radio numbers its commands, and each has the transaction of its mode.
SentInv ==
    /\ radioTrx = ModeAfter(Len(commands))
    /\ \A k \in 1..Len(commands) :
          /\ commands[k].n = k /\ commands[k].last \in k..Len(commands)
          /\ Sendable(commands[k])
          /\ commands[k].trx = HandleCmdID(commands[k].id, ModeAfter(k - 1))
          /\ \A j \in 1..k : commands[j].trx => commands[k].trx \/ Switched(j, k)

\* In a frame, a command's transaction is that of the mode before it.
LEMMA TrxNext ==
    ASSUME NEW kinds, NEW i \in Nat \ {0}, kinds[i].id # "RequestIdentify", radioTrx \in BOOLEAN
    PROVE  Trx(kinds, i) = HandleCmdID(kinds[i].id, IF i = 1 THEN radioTrx ELSE Trx(kinds, i - 1))
<1>. DEFINE Off(k) == kinds[k].id = "IdentifyDeviceLingoes"
            On(k) == kinds[k].id = "StartIDPS"
            off == Off(i)
            on == On(i)
<1>1. ~(on /\ off)
  OBVIOUS
<1>2. Trx(kinds, i) <=>
        (radioTrx /\ \A k \in 1..i : ~Off(k)) \/ \E j \in 1..i : On(j) /\ \A k \in j + 1..i : ~Off(k)
  BY DEF Trx
<1>3. CASE i = 1
  <2>1. 1..1 = {1} /\ 1 + 1..1 = {}
    OBVIOUS
  <2>2. Trx(kinds, i) <=> (radioTrx /\ ~off) \/ on
    BY <1>2, <1>3, <2>1
  <2>. QED
    BY <1>1, <1>3, <2>2 DEF HandleCmdID, Trx
<1>4. CASE i # 1
  <2>1. Trx(kinds, i - 1) <=>
          \/ radioTrx /\ \A k \in 1..i - 1 : ~Off(k)
          \/ \E j \in 1..i - 1 : On(j) /\ \A k \in j + 1..i - 1 : ~Off(k)
    BY DEF Trx
  <2>2. \A k : k \in 1..i <=> k \in 1..i - 1 \/ k = i
    BY <1>4
  <2>3. \A j \in 1..i - 1 : \A k : k \in j + 1..i <=> k \in j + 1..i - 1 \/ k = i
    BY <1>4
  <2>4. i + 1..i = {}
    OBVIOUS
  <2>. HIDE DEF On, Off
  <2>5. Trx(kinds, i) <=> on \/ (Trx(kinds, i - 1) /\ ~off)
    <3>1. ASSUME on PROVE Trx(kinds, i)
      BY <1>2, <2>2, <2>4, <3>1
    <3>2. ASSUME Trx(kinds, i - 1), ~off PROVE Trx(kinds, i)
      BY <1>2, <2>1, <2>2, <2>3, <3>2
    <3>3. ASSUME Trx(kinds, i), ~on PROVE Trx(kinds, i - 1) /\ ~off
      <4>1. CASE radioTrx /\ \A k \in 1..i : ~Off(k)
        BY <2>1, <2>2, <4>1
      <4>2. CASE \E j \in 1..i : On(j) /\ \A k \in j + 1..i : ~Off(k)
        BY <2>1, <2>2, <2>3, <3>3, <4>2
      <4>. QED
        BY <1>2, <3>3, <4>1, <4>2
    <3>. QED
      BY <3>1, <3>2, <3>3
  <2>. QED
    BY <1>4, <2>5 DEF HandleCmdID, On, Off, Trx
<1>. QED
  BY <1>3, <1>4

\* What a frame brings to the commands.
LEMMA FrameSent ==
    ASSUME commands \in Seq(Command), radioTrx \in BOOLEAN, NEW kinds \in FrameKinds,
           SendFrame(kinds)
    PROVE  LET n == Len(commands)
               l == Len(kinds)
           IN /\ n \in Nat /\ l \in Nat \ {0} /\ Len(commands') = n + l
              /\ Frame(kinds) \in Seq(Command) /\ Len(Frame(kinds)) = l
              /\ \A k \in 1..n : commands'[k] = commands[k]
              /\ \A i \in 1..l :
                    /\ commands'[n + i] = Frame(kinds)[i]
                    /\ Frame(kinds)[i].n = n + i /\ Frame(kinds)[i].last = n + l
                    /\ Frame(kinds)[i].id = kinds[i].id /\ Frame(kinds)[i].id # "RequestIdentify"
                    /\ Frame(kinds)[i].trx = Trx(kinds, i) /\ Sendable(Frame(kinds)[i])
                    /\ Trx(kinds, i) \in BOOLEAN
              /\ radioTrx' = Trx(kinds, l)
<1>. DEFINE n == Len(commands)
            l == Len(kinds)
            f == Frame(kinds)
<1>1. f \in Seq(Command) /\ Len(f) = l /\ l \in Nat \ {0} /\ DOMAIN kinds = 1..l /\ n \in Nat
  BY FrameType
<1>2. ASSUME NEW i \in 1..l
      PROVE  /\ f[i].n = n + i /\ f[i].last = n + l /\ f[i].trx = Trx(kinds, i)
             /\ f[i].lingo = kinds[i].lingo /\ f[i].id = kinds[i].id
             /\ f[i].type = kinds[i].type /\ f[i].size = kinds[i].size
  BY <1>1 DEF Frame
<1>3. \A i \in 1..l : Sendable(kinds[i])
  BY <1>1, SessionAssumption
<1>4. \A i \in 1..l : Sendable(f[i])
  BY <1>2, <1>3 DEF Sendable
<1>5. \A i \in 1..l : kinds[i].id # "RequestIdentify"
  BY <1>3 DEF Sendable
<1>6. commands' = commands \o f /\ radioTrx' = Trx(kinds, l)
  BY DEF SendFrame
<1>. HIDE DEF f
<1>7. Len(commands') = n + l /\ (\A k \in 1..n : commands'[k] = commands[k])
      /\ \A i \in 1..l : commands'[n + i] = f[i]
  <2>1. /\ Len(commands \o f) = n + l /\ \A k \in 1..n : (commands \o f)[k] = commands[k]
        /\ \A k \in 1..l : (commands \o f)[n + k] = f[k]
    <3>1. ASSUME NEW t \in Seq(Command)
          PROVE  /\ Len(commands \o t) = n + Len(t)
                 /\ \A k \in 1..n : (commands \o t)[k] = commands[k]
                 /\ \A k \in 1..Len(t) : (commands \o t)[n + k] = t[k]
      BY SeqJoin
    <3>2. f \in Seq(Command) /\ Len(f) = l
      BY <1>1
    <3>. QED
      BY <3>1, <3>2
  <2>. QED
    BY <1>6, <2>1
<1>8. \A i \in 1..l : Trx(kinds, i) \in BOOLEAN
  BY FrameType
<1>. QED
  BY <1>1, <1>2, <1>4, <1>5, <1>6, <1>7, <1>8 DEF f

LEMMA SentStays ==
    ASSUME SentInv, UNCHANGED <<commands, radioTrx>>
    PROVE  SentInv'
<1>1. UNCHANGED <<commands, radioTrx>>
  OBVIOUS
<1>. QED
  BY <1>1 DEF SentInv, ModeAfter, Switched

LEMMA SentSend ==
    ASSUME TypeOK, SentInv, NEW kinds \in FrameKinds, SendFrame(kinds)
    PROVE  SentInv'
<1>0. commands \in Seq(Command) /\ radioTrx \in BOOLEAN
  BY DEF TypeOK
<1>20. PICK n, l, f : n = Len(commands) /\ l = Len(kinds) /\ f = Frame(kinds)
  OBVIOUS
<1>1. /\ n \in Nat /\ l \in Nat \ {0} /\ Len(commands') = n + l
      /\ \A k \in 1..n : commands'[k] = commands[k]
      /\ \A i \in 1..l :
            /\ commands'[n + i] = f[i]
            /\ f[i].n = n + i /\ f[i].last = n + l
            /\ f[i].id = kinds[i].id /\ f[i].id # "RequestIdentify"
            /\ f[i].trx = Trx(kinds, i) /\ Sendable(f[i])
            /\ Trx(kinds, i) \in BOOLEAN
      /\ radioTrx' = Trx(kinds, l)
  BY <1>0, <1>20, FrameSent
<1>2. ASSUME NEW i \in 1..l
      PROVE  f[i].trx = HandleCmdID(f[i].id, IF i = 1 THEN radioTrx ELSE Trx(kinds, i - 1))
  <2>1. Trx(kinds, i) = HandleCmdID(kinds[i].id, IF i = 1 THEN radioTrx ELSE Trx(kinds, i - 1))
    BY <1>0, <1>1, TrxNext
  <2>. QED
    BY <1>1, <2>1
<1>3. \A k \in 1..n : ModeAfter(k - 1)' = ModeAfter(k - 1)
  BY <1>1 DEF ModeAfter
<1>4. ASSUME NEW i \in 1..l
      PROVE  ModeAfter(n + i - 1)' = IF i = 1 THEN radioTrx ELSE Trx(kinds, i - 1)
  <2>1. CASE i = 1
    <3>1. n + i - 1 = n
      BY <1>1, <2>1
    <3>2. ModeAfter(n)' = ModeAfter(n)
      BY <1>1 DEF ModeAfter
    <3>. QED
      BY <1>20, <2>1, <3>1, <3>2 DEF SentInv
  <2>2. CASE i # 1
    <3>1. i - 1 \in 1..l /\ n + i - 1 = n + (i - 1) /\ n + i - 1 > 0
      BY <1>1, <2>2
    <3>. QED
      BY <1>1, <2>2, <3>1 DEF ModeAfter
  <2>. QED
    BY <2>1, <2>2
<1>5. ASSUME NEW j \in 1..n, NEW k \in 1..n, j <= k, Switched(j, k)
      PROVE  Switched(j, k)'
  BY <1>1, <1>5 DEF Switched
<1>6. ASSUME NEW i \in 1..l, NEW j \in 1..n + l, ~Switched(j, n + i)'
      PROVE  /\ \A k \in 1..i : n + k \in j + 1..n + i => kinds[k].id # "IdentifyDeviceLingoes"
             /\ j \in 1..n => ~Switched(j, n)
  <2>1. ASSUME NEW k \in 1..i, n + k \in j + 1..n + i
        PROVE  kinds[k].id # "IdentifyDeviceLingoes"
    BY <1>1, <1>6, <2>1 DEF Switched
  <2>2. ASSUME j \in 1..n, NEW m \in j + 1..n
        PROVE  commands[m].id # "IdentifyDeviceLingoes"
    <3>1. m \in j + 1..n + i /\ m \in 1..n
      BY <1>1, <2>2
    <3>. QED
      BY <1>1, <1>6, <2>2, <3>1 DEF Switched
  <2>. QED
    BY <2>1, <2>2 DEF Switched
<1>7. ASSUME NEW i \in 1..l, NEW j \in 1..n + i, commands'[j].trx, ~Switched(j, n + i)'
      PROVE  Trx(kinds, i)
  <2>1. /\ \A k \in 1..i : n + k \in j + 1..n + i => kinds[k].id # "IdentifyDeviceLingoes"
        /\ j \in 1..n => ~Switched(j, n)
    BY <1>1, <1>6, <1>7
  <2>2. CASE j \in 1..n
    <3>1. \A k \in 1..i : n + k \in j + 1..n + i
      BY <1>1, <2>2
    <3>2. n \in 1..n /\ j \in 1..n /\ n > 0
      BY <1>1, <2>2
    <3>3. commands[n].trx
      BY <1>1, <1>20, <1>7, <2>1, <2>2, <3>2 DEF SentInv
    <3>4. radioTrx
      BY <1>20, <3>2, <3>3 DEF SentInv, ModeAfter
    <3>. QED
      BY <2>1, <3>1, <3>4 DEF Trx
  <2>3. CASE j \notin 1..n
    <3>. DEFINE j0 == j - n
    <3>1. j0 \in 1..i /\ j0 \in 1..l /\ j = n + j0
      BY <1>1, <2>3
    <3>2. Trx(kinds, j0)
      BY <1>1, <1>7, <3>1
    <3>3. \A k \in j0 + 1..i : k \in 1..i /\ n + k \in j + 1..n + i
      BY <1>1, <3>1
    <3>4. \A k \in j0 + 1..i : kinds[k].id # "IdentifyDeviceLingoes"
      BY <2>1, <3>3
    <3>. HIDE DEF j0
    <3>5. CASE radioTrx /\ \A k \in 1..j0 : kinds[k].id # "IdentifyDeviceLingoes"
      <4>1. \A k \in 1..i : k \in 1..j0 \/ k \in j0 + 1..i
        BY <1>1, <3>1
      <4>. QED
        BY <3>4, <3>5, <4>1 DEF Trx
    <3>6. ASSUME NEW m \in 1..j0, kinds[m].id = "StartIDPS",
                 \A k \in m + 1..j0 : kinds[k].id # "IdentifyDeviceLingoes"
          PROVE  Trx(kinds, i)
      <4>1. m \in 1..i /\ \A k \in m + 1..i : k \in m + 1..j0 \/ k \in j0 + 1..i
        BY <1>1, <3>1
      <4>. QED
        BY <3>4, <3>6, <4>1 DEF Trx
    <3>. QED
      BY <3>2, <3>5, <3>6 DEF Trx
  <2>. QED
    BY <2>2, <2>3
<1>8. radioTrx' = ModeAfter(n + l)'
  <2>1. l \in 1..l /\ n + l > 0
    BY <1>1
  <2>. QED
    BY <1>1, <2>1 DEF ModeAfter
<1>9. ASSUME NEW k \in 1..n
      PROVE  /\ commands'[k].n = k /\ commands'[k].last \in k..n + l
             /\ Sendable(commands'[k])
             /\ commands'[k].trx = HandleCmdID(commands'[k].id, ModeAfter(k - 1)')
             /\ \A j \in 1..k : commands'[j].trx => commands'[k].trx \/ Switched(j, k)'
  <2>1. /\ commands[k].n = k /\ commands[k].last \in k..n
        /\ Sendable(commands[k])
        /\ commands[k].trx = HandleCmdID(commands[k].id, ModeAfter(k - 1))
        /\ \A j \in 1..k : commands[j].trx => commands[k].trx \/ Switched(j, k)
    BY <1>20 DEF SentInv
  <2>2. commands'[k] = commands[k] /\ k..n \subseteq k..n + l
    BY <1>1
  <2>3. \A j \in 1..k : j \in 1..n /\ j <= k /\ commands'[j] = commands[j]
    BY <1>1
  <2>. QED
    BY <1>3, <1>5, <2>1, <2>2, <2>3
<1>10. ASSUME NEW i \in 1..l
       PROVE  LET k == n + i
              IN /\ commands'[k].n = k /\ commands'[k].last \in k..n + l
                 /\ Sendable(commands'[k])
                 /\ commands'[k].trx = HandleCmdID(commands'[k].id, ModeAfter(k - 1)')
                 /\ \A j \in 1..k : commands'[j].trx => commands'[k].trx \/ Switched(j, k)'
  <2>1. commands'[n + i] = f[i] /\ n + i \in n + i..n + l
    BY <1>1
  <2>2. f[i].trx = HandleCmdID(f[i].id, ModeAfter(n + i - 1)')
    BY <1>2, <1>4
  <2>3. \A j \in 1..n + i : commands'[j].trx => f[i].trx \/ Switched(j, n + i)'
    BY <1>1, <1>7
  <2>. QED
    BY <1>1, <2>1, <2>2, <2>3
<1>11. \A k \in 1..n + l : k \in 1..n \/ (k - n \in 1..l /\ k = n + (k - n))
  BY <1>1
<1>12. ASSUME NEW k \in 1..n + l
       PROVE  /\ commands'[k].n = k /\ commands'[k].last \in k..n + l
              /\ Sendable(commands'[k])
              /\ commands'[k].trx = HandleCmdID(commands'[k].id, ModeAfter(k - 1)')
              /\ \A j \in 1..k : commands'[j].trx => commands'[k].trx \/ Switched(j, k)'
  BY <1>9, <1>10, <1>11
<1>13. Len(commands') = n + l
  BY <1>1
<1>. HIDE DEF ModeAfter, Switched
<1>. QED
  BY <1>8, <1>12, <1>13 DEF SentInv

LEMMA SentStep == ASSUME TypeOK, SentInv, [Next]_vars PROVE SentInv'
<1>1. CASE \E kinds \in FrameKinds : SendFrame(kinds)
  BY <1>1, SentSend
<1>2. CASE ~\E kinds \in FrameKinds : SendFrame(kinds)
  <2>1. UNCHANGED <<commands, radioTrx>>
    BY <1>2 DEF Next, MainStep, ReadStep, RetryStep, IdentifyFirst, FirstRead, ReceiveEOF,
       ReceiveFrame, StartRead, ParsePacket, ParseTorn, AllParsed, HandlePacket, AllHandled,
       SendAnswer, BackToSelect, RetryCheck, RetrySend, StorePacket, ReadFrameReturns,
       ReadFrameFails, ReadFrameEnds, BecomeReady, vars, radioVars
  <2>. QED
    BY <2>1, SentStays
<1>. QED
  BY <1>1, <1>2

\* h is c as UnmarshalCmd has read it.
AsRead(h, c) ==
    /\ h.n = c.n
    /\ \/ h = c
       \/ c.type = UnknownPayload
       \/ retryPc # "off" /\ ~Fixed(Sizes(c.lingo, c.id)[1])

\* s holds the commands after the handled ones.
SentNext(s) == \A i \in 1..Len(s) : s[i] = commands[Len(handled) + i]

\* Whatever is in the pipeline is what was sent, and the mode that of the radio
\* after the last command that was parsed.
ReadInv ==
    /\ frameCh # <<>> => SentNext(Head(frameCh).data)
    /\ inbound # <<>> => SentNext(Head(inbound))
    /\ mainPc \in {"readNext", "parse"} =>
          \A i \in pos..Len(data) : data[i] = commands[Len(handled) + Len(inCmds) + (i - pos + 1)]
    /\ \A i \in 1..Len(inCmds) : AsRead(inCmds[i], commands[Len(handled) + i])
    /\ \A i \in 1..Len(handled) : AsRead(handled[i], commands[i])
    /\ retryPc = "off" => trxEnabled = ModeAfter(Len(handled) + Len(inCmds))

\* A command that a radio may send is read as it is sent, unless it has the
\* wrong mode and no size.
LEMMA ReadCommandSent ==
    ASSUME NEW c \in Command, Sendable(c), NEW enabled \in BOOLEAN,
           c.type # UnknownPayload, Fixed(Sizes(c.lingo, c.id)[1]) \/ c.trx = enabled
    PROVE  ReadCommand(c, enabled) = c
<1>. DEFINE r == Unmarshal(Sizes(c.lingo, c.id), c.size + Len2(c.trx), enabled)
<1>1. c.trx \in BOOLEAN
  BY DEF Command
<1>2. ReadsBack(Sizes(c.lingo, c.id), c.type, c.size, c.trx, enabled)
  BY <1>1 DEF Sendable
<1>3. r = [type |-> c.type, trx |-> c.trx, size |-> c.size]
  BY <1>2 DEF ReadsBack
<1>. HIDE DEF r
<1>4. r.type = c.type /\ r.trx = c.trx /\ r.size = c.size
  BY <1>3
<1>5. ReadCommand(c, enabled) = [c EXCEPT !.type = r.type, !.trx = r.trx, !.size = r.size]
  BY DEF ReadCommand, r
<1>. QED
  BY <1>4, <1>5 DEF Command

\* The goroutine that repeats RequestIdentify does not go back to "off".
LEMMA RetryStays == ASSUME [Next]_vars, retryPc' = "off", TypeOK PROVE retryPc = "off"
  BY DEF Next, MainStep, ReadStep, RetryStep, IdentifyFirst, FirstRead, ReceiveEOF,
     ReceiveFrame, StartRead, ParsePacket, ParseTorn, AllParsed, HandlePacket, AllHandled,
     SendAnswer, BackToSelect, RetryCheck, RetrySend, StorePacket, ReadFrameReturns,
     ReadFrameFails, ReadFrameEnds, BecomeReady, SendFrame, vars

\* What was read as it should be stays so.
LEMMA AsReadStays ==
    ASSUME NEW h, NEW c, AsRead(h, c), retryPc' = "off" => retryPc = "off"
    PROVE  AsRead(h, c)'
  BY DEF AsRead

LEMMA ReadStays ==
    ASSUME ReadInv, UNCHANGED <<handled, commands, inCmds, inbound>>,
           frameCh' # <<>> => UNCHANGED frameCh \/ Head(frameCh').data = <<>>,
           mainPc' \in {"readNext", "parse"} =>
              mainPc \in {"readNext", "parse"} /\ UNCHANGED <<data, pos>>,
           retryPc' = "off" => retryPc = "off" /\ UNCHANGED trxEnabled
    PROVE  ReadInv'
<1>1. UNCHANGED <<handled, commands, inCmds, inbound>>
  OBVIOUS
<1>2. \A s : SentNext(s)' <=> SentNext(s)
  BY <1>1 DEF SentNext
<1>3. ASSUME NEW d, d = <<>> PROVE SentNext(d)'
  <2>1. Len(d) = 0
    BY <1>3
  <2>. QED
    BY <2>1 DEF SentNext
<1>4. frameCh' # <<>> => SentNext(Head(frameCh).data)'
  BY <1>2, <1>3 DEF ReadInv
<1>5. inbound' # <<>> => SentNext(Head(inbound))'
  BY <1>1, <1>2 DEF ReadInv
<1>6. \A h, c : AsRead(h, c) => AsRead(h, c)'
  BY AsReadStays
<1>7. \A k : ModeAfter(k)' = ModeAfter(k)
  BY <1>1 DEF ModeAfter
<1>. HIDE DEF ModeAfter, AsRead, SentNext
<1>. QED
  BY <1>1, <1>4, <1>5, <1>6, <1>7 DEF ReadInv

LEMMA ReadReceive ==
    ASSUME Pipeline, ReadInv, ReceiveFrame
    PROVE  ReadInv'
<1>1. /\ UNCHANGED <<handled, commands, inCmds, inbound, trxEnabled, retryPc>>
      /\ frameCh # <<>> /\ frameCh' = <<>>
      /\ data' = Head(frameCh).data /\ pos' = 1
      /\ inCmds = <<>> /\ IsSeq(handled)
  BY DEF ReceiveFrame, Pipeline, radioVars, ghosts, Numbered
<1>2. Len(inCmds) = 0 /\ Len(handled) \in Nat
  BY <1>1, SeqEmpty, SeqLen
<1>3. SentNext(data')
  BY <1>1 DEF ReadInv
<1>4. ASSUME NEW i \in pos'..Len(data')
      PROVE  data'[i] = commands[Len(handled) + Len(inCmds) + (i - pos' + 1)]
  <2>1. i \in 1..Len(data') /\ Len(handled) + Len(inCmds) + (i - pos' + 1) = Len(handled) + i
    BY <1>1, <1>2
  <2>. QED
    BY <1>3, <2>1 DEF SentNext
<1>5. \A s : SentNext(s)' <=> SentNext(s)
  BY <1>1 DEF SentNext
<1>6. \A h, c : AsRead(h, c) => AsRead(h, c)'
  BY <1>1, AsReadStays
<1>7. \A k : ModeAfter(k)' = ModeAfter(k)
  BY <1>1 DEF ModeAfter
<1>. HIDE DEF ModeAfter, AsRead, SentNext
<1>. QED
  BY <1>1, <1>4, <1>5, <1>6, <1>7 DEF ReadInv

LEMMA ReadParse ==
    ASSUME TypeOK, SentInv, Pipeline, ReadInv, ParsePacket
    PROVE  ReadInv'
<1>0. /\ commands \in Seq(Command) /\ inCmds \in Seq(Command) /\ data \in Seq(Command)
      /\ Len(commands) \in Nat /\ Len(handled) \in Nat /\ handled \in Seq(Command)
      /\ trxEnabled \in BOOLEAN
  BY DEF TypeOK
<1>1. /\ UNCHANGED <<handled, commands, data, frameCh, inbound, retryPc, mainPc>>
      /\ mainPc = "parse" /\ pos' = pos + 1 /\ pos \in 1..Len(data)
      /\ Len(commands) = Len(handled) + Len(inCmds) + (Len(data) - pos + 1)
  BY <1>0 DEF ParsePacket, radioVars, ghosts, Pipeline, InParser
<1>2. PICK n, c, e : n = Len(handled) + Len(inCmds) + 1 /\ c = data[pos] /\ e = trxEnabled'
  OBVIOUS
<1>3. n \in 1..Len(commands) /\ n \in Nat
  BY <1>0, <1>1, <1>2
<1>4. c = commands[n] /\ c \in Command
  <2>1. pos \in pos..Len(data) /\ n = Len(handled) + Len(inCmds) + (pos - pos + 1)
    BY <1>0, <1>1, <1>2
  <2>2. \A i \in pos..Len(data) :
           data[i] = commands[Len(handled) + Len(inCmds) + (i - pos + 1)]
    BY <1>1 DEF ReadInv
  <2>3. data[pos] = commands[n]
    BY <2>1, <2>2
  <2>4. data[pos] \in Command
    BY <1>0, <1>1
  <2>. QED
    BY <1>2, <2>3, <2>4
<1>5. /\ Sendable(c) /\ c.trx = HandleCmdID(c.id, ModeAfter(n - 1)) /\ c.trx \in BOOLEAN
  BY <1>3, <1>4 DEF SentInv, Command
<1>6. e = HandleCmdID(c.id, trxEnabled) /\ e \in BOOLEAN
  BY <1>2 DEF ParsePacket, HandleCmdID
<1>7. retryPc = "off" => e = c.trx
  <2>1. n - 1 = Len(handled) + Len(inCmds)
    BY <1>0, <1>2
  <2>2. retryPc = "off" => trxEnabled = ModeAfter(n - 1)
    BY <2>1 DEF ReadInv
  <2>. QED
    BY <1>5, <1>6, <2>2
<1>8. PICK r : r = ReadCommand(c, e)
  OBVIOUS
<1>9. r.n = c.n
  BY <1>8 DEF ReadCommand
<1>10. AsRead(r, c)
  <2>1. CASE c.type = UnknownPayload
    BY <1>9, <2>1 DEF AsRead
  <2>2. CASE c.type # UnknownPayload /\ (Fixed(Sizes(c.lingo, c.id)[1]) \/ c.trx = e)
    <3>1. r = c
      BY <1>4, <1>5, <1>6, <1>8, <2>2, ReadCommandSent
    <3>. QED
      BY <3>1 DEF AsRead
  <2>3. CASE ~Fixed(Sizes(c.lingo, c.id)[1]) /\ c.trx # e
    BY <1>7, <1>9, <2>3 DEF AsRead
  <2>. QED
    BY <2>1, <2>2, <2>3
<1>11. inCmds' = Append(inCmds, r)
  BY <1>2, <1>8 DEF ParsePacket
<1>12. /\ Len(inCmds') = Len(inCmds) + 1 /\ \A i \in 1..Len(inCmds) : inCmds'[i] = inCmds[i]
       /\ inCmds'[Len(inCmds) + 1] = r
  <2>1. IsSeq(inCmds)
    BY <1>0 DEF IsSeq
  <2>. QED
    BY <1>11, <2>1, SeqAppend
<1>13. ASSUME NEW i \in 1..Len(inCmds')
       PROVE  AsRead(inCmds'[i], commands[Len(handled) + i])
  <2>1. CASE i \in 1..Len(inCmds)
    BY <1>12, <2>1 DEF ReadInv
  <2>2. CASE i = Len(inCmds) + 1
    BY <1>0, <1>2, <1>4, <1>10, <1>12, <2>2
  <2>. QED
    BY <1>0, <1>12, <2>1, <2>2
<1>14. \A h, d : AsRead(h, d) => AsRead(h, d)'
  BY <1>1, AsReadStays
<1>15. ASSUME NEW i \in pos'..Len(data)
       PROVE  data[i] = commands[Len(handled) + Len(inCmds') + (i - pos' + 1)]
  <2>1. /\ i \in pos..Len(data)
        /\ Len(handled) + Len(inCmds') + (i - pos' + 1) = Len(handled) + Len(inCmds) + (i - pos + 1)
    BY <1>0, <1>1, <1>12
  <2>. QED
    BY <1>1, <2>1 DEF ReadInv
<1>16. \A s : SentNext(s)' <=> SentNext(s)
  BY <1>1 DEF SentNext
<1>17. retryPc = "off" => trxEnabled' = ModeAfter(Len(handled) + Len(inCmds))'
  <2>1. n = Len(handled) + Len(inCmds') /\ n > 0
    BY <1>0, <1>2, <1>12
  <2>2. ModeAfter(n)' = c.trx
    BY <1>1, <1>4, <1>5, <2>1 DEF ModeAfter
  <2>3. ModeAfter(Len(handled) + Len(inCmds))' = ModeAfter(n)'
    BY <1>1, <2>1 DEF ModeAfter
  <2>. QED
    BY <1>2, <1>7, <2>2, <2>3
<1>. HIDE DEF ModeAfter, AsRead, SentNext
<1>. QED
  BY <1>1, <1>13, <1>14, <1>15, <1>16, <1>17 DEF ReadInv

LEMMA ReadHandle ==
    ASSUME TypeOK, OneRead, Pipeline, ReadInv, HandlePacket
    PROVE  ReadInv'
<1>0. /\ inCmds \in Seq(Command) /\ handled \in Seq(Command)
      /\ Len(inCmds) \in Nat /\ Len(handled) \in Nat /\ IsSeq(inCmds) /\ IsSeq(handled)
  BY DEF TypeOK, IsSeq
<1>1. /\ UNCHANGED <<commands, frameCh, retryPc, mainPc, trxEnabled>>
      /\ mainPc = "handle" /\ inbound' = <<>>
      /\ frameCh' # <<>> => Head(frameCh').err # "none"
      /\ inCmds # <<>> /\ inCmds' = Tail(inCmds) /\ handled' = Append(handled, Head(inCmds))
  BY DEF HandlePacket, radioVars, Pipeline
<1>2. /\ Len(inCmds) >= 1 /\ Len(inCmds') = Len(inCmds) - 1 /\ Head(inCmds) = inCmds[1]
      /\ \A i \in 1..Len(inCmds) - 1 : inCmds'[i] = inCmds[i + 1]
  BY <1>0, <1>1, SeqTail
<1>3. /\ Len(handled') = Len(handled) + 1 /\ \A i \in 1..Len(handled) : handled'[i] = handled[i]
      /\ handled'[Len(handled) + 1] = Head(inCmds)
  BY <1>0, <1>1, SeqAppend
<1>4. ASSUME NEW i \in 1..Len(handled')
      PROVE  AsRead(handled'[i], commands[i])
  <2>1. CASE i \in 1..Len(handled)
    BY <1>3, <2>1 DEF ReadInv
  <2>2. CASE i = Len(handled) + 1
    <3>1. 1 \in 1..Len(inCmds)
      BY <1>0, <1>2
    <3>. QED
      BY <1>2, <1>3, <2>2, <3>1 DEF ReadInv
  <2>. QED
    BY <1>0, <1>3, <2>1, <2>2
<1>5. ASSUME NEW i \in 1..Len(inCmds')
      PROVE  AsRead(inCmds'[i], commands[Len(handled') + i])
  <2>1. i + 1 \in 1..Len(inCmds) /\ i \in 1..Len(inCmds) - 1
        /\ Len(handled') + i = Len(handled) + (i + 1)
    BY <1>0, <1>2, <1>3
  <2>2. AsRead(inCmds[i + 1], commands[Len(handled) + (i + 1)])
    BY <2>1 DEF ReadInv
  <2>. QED
    BY <1>2, <2>1, <2>2
<1>6. \A h, c : AsRead(h, c) => AsRead(h, c)'
  BY <1>1, AsReadStays
<1>7. retryPc = "off" => trxEnabled' = ModeAfter(Len(handled) + Len(inCmds))'
  <2>1. Len(handled') + Len(inCmds') = Len(handled) + Len(inCmds)
    BY <1>0, <1>2, <1>3
  <2>. QED
    BY <1>1, <2>1 DEF ReadInv, ModeAfter
<1>8. frameCh' # <<>> => SentNext(Head(frameCh).data)'
  <2>. SUFFICES ASSUME frameCh' # <<>> PROVE SentNext(Head(frameCh).data)'
    OBVIOUS
  <2>1. Head(frameCh').data = <<>>
    BY <1>1 DEF OneRead
  <2>2. Len(Head(frameCh').data) = 0
    BY <2>1
  <2>. QED
    BY <2>2 DEF SentNext
<1>9. inbound' = <<>>
  BY <1>1
<1>. HIDE DEF ModeAfter, AsRead, SentNext
<1>. QED
  BY <1>1, <1>4, <1>5, <1>6, <1>7, <1>8, <1>9 DEF ReadInv

LEMMA ReadReturns ==
    ASSUME Pipeline, OneRead, ReadInv, ReadFrameReturns
    PROVE  ReadInv'
<1>1. /\ UNCHANGED <<handled, commands, inCmds, retryPc, trxEnabled, mainPc>>
      /\ inbound # <<>> /\ readPc = "reading" /\ fresh = Head(inbound)
      /\ frameCh' = <<[err |-> "none", data |-> fresh]>> /\ inbound' = Tail(inbound)
  BY DEF ReadFrameReturns, mainVars, radioVars, ghosts
<1>2. mainPc = "select"
  BY <1>1 DEF Pipeline, OneRead
<1>3. Head(frameCh').data = Head(inbound) /\ inbound' = <<>>
  BY <1>1, <1>2 DEF Pipeline, OnTheWay
<1>4. \A h, c : AsRead(h, c) => AsRead(h, c)'
  BY <1>1, AsReadStays
<1>5. SentNext(Head(frameCh).data)'
  BY <1>1, <1>3 DEF ReadInv, SentNext
<1>6. \A k : ModeAfter(k)' = ModeAfter(k)
  BY <1>1 DEF ModeAfter
<1>. HIDE DEF ModeAfter, AsRead, SentNext
<1>. QED
  BY <1>1, <1>2, <1>3, <1>4, <1>5, <1>6 DEF ReadInv

LEMMA ReadSend ==
    ASSUME TypeOK, patient, Pipeline, ReadInv, NEW kinds \in FrameKinds, SendFrame(kinds)
    PROVE  ReadInv'
<1>0. commands \in Seq(Command) /\ radioTrx \in BOOLEAN
      /\ IsSeq(inCmds) /\ IsSeq(handled)
  BY DEF TypeOK, IsSeq
<1>1. PICK n, l, f : n = Len(commands) /\ l = Len(kinds) /\ f = Frame(kinds)
  OBVIOUS
<1>2. /\ n \in Nat /\ l \in Nat \ {0} /\ f \in Seq(Command) /\ Len(f) = l
      /\ \A k \in 1..n : commands'[k] = commands[k]
      /\ \A i \in 1..l : commands'[n + i] = f[i]
  BY <1>0, <1>1, FrameSent
<1>3. /\ UNCHANGED <<handled, inCmds, retryPc, trxEnabled, mainPc, frameCh>>
      /\ mainPc = "select" /\ inbound = <<>> /\ frameCh = <<>> /\ inbound' = Append(inbound, f)
  BY <1>1 DEF SendFrame, Served, mainVars, ghosts
<1>4. inCmds = <<>> /\ Len(inCmds) = 0 /\ Len(handled) = n /\ Head(inbound') = f
  BY <1>1, <1>3, SeqEmpty DEF Pipeline, OnTheWay
<1>5. SentNext(Head(inbound))'
  BY <1>2, <1>3, <1>4 DEF SentNext
<1>6. \A h, c : AsRead(h, c) => AsRead(h, c)'
  BY <1>3, AsReadStays
<1>7. ModeAfter(n)' = ModeAfter(n)
  BY <1>2 DEF ModeAfter
<1>8. Len(handled) + Len(inCmds) = n /\ UNCHANGED (Len(handled) + Len(inCmds))
  BY <1>2, <1>3, <1>4
<1>9. ModeAfter(Len(handled) + Len(inCmds))' = ModeAfter(Len(handled) + Len(inCmds))
  BY <1>7, <1>8 DEF ModeAfter
<1>10. \A i \in 1..Len(handled) : AsRead(handled[i], commands'[i])
  BY <1>2, <1>4 DEF ReadInv
<1>11. \A i : i \notin 1..Len(inCmds')
  BY <1>3, <1>4
<1>. HIDE DEF ModeAfter, AsRead, SentNext
<1>. QED
  BY <1>3, <1>5, <1>6, <1>9, <1>10, <1>11 DEF ReadInv

LEMMA ReadInvStep ==
    ASSUME TypeOK, SentInv, OneRead, patient, Pipeline, ReadInv, [Next]_vars
    PROVE  ReadInv'
<1>0. retryPc' = "off" => retryPc = "off"
  BY RetryStays
<1>1. CASE ReceiveFrame
  BY <1>1, ReadReceive
<1>2. CASE ParsePacket
  BY <1>2, ReadParse
<1>3. CASE HandlePacket
  BY <1>3, ReadHandle
<1>4. CASE ReadFrameReturns
  BY <1>4, ReadReturns
<1>5. CASE \E kinds \in FrameKinds : SendFrame(kinds)
  BY <1>5, ReadSend
<1>6. CASE ParseTorn
  BY <1>6 DEF ParseTorn, Pipeline
<1>7. CASE \/ IdentifyFirst \/ FirstRead \/ ReceiveEOF \/ StartRead \/ AllParsed \/ AllHandled
           \/ SendAnswer \/ BackToSelect \/ RetryStep \/ BecomeReady \/ UNCHANGED vars
  <2>1. /\ UNCHANGED <<handled, commands, inCmds, inbound>>
        /\ frameCh' # <<>> => UNCHANGED frameCh
    BY <1>7 DEF IdentifyFirst, FirstRead, ReceiveEOF, StartRead, AllParsed, AllHandled, SendAnswer,
       BackToSelect, RetryStep, RetryCheck, RetrySend, BecomeReady, vars, mainVars, radioVars, ghosts
  <2>2. mainPc' \in {"readNext", "parse"} =>
           mainPc \in {"readNext", "parse"} /\ UNCHANGED <<data, pos>>
    BY <1>7 DEF IdentifyFirst, FirstRead, ReceiveEOF, StartRead, AllParsed, AllHandled, SendAnswer,
       BackToSelect, RetryStep, RetryCheck, RetrySend, BecomeReady, vars, mainVars
  <2>3. retryPc' = "off" => UNCHANGED trxEnabled
    BY <1>7 DEF IdentifyFirst, FirstRead, ReceiveEOF, StartRead, AllParsed, AllHandled, SendAnswer,
       BackToSelect, RetryStep, RetryCheck, RetrySend, BecomeReady, vars
  <2>. QED
    BY <1>0, <2>1, <2>2, <2>3, ReadStays
<1>8. CASE StorePacket
  <2>1. mainPc = "select" /\ mainPc' = mainPc
    BY <1>8 DEF StorePacket, Pipeline, OneRead
  <2>2. /\ UNCHANGED <<handled, commands, inCmds, inbound, frameCh, trxEnabled>>
    BY <1>8 DEF StorePacket, radioVars, ghosts
  <2>. QED
    BY <1>0, <2>1, <2>2, ReadStays
<1>9. CASE ReadFrameFails \/ ReadFrameEnds
  <2>1. /\ UNCHANGED <<handled, commands, inCmds, inbound, data, pos, mainPc, trxEnabled>>
        /\ \E e : frameCh' = <<[err |-> e, data |-> <<>>]>>
    BY <1>9 DEF ReadFrameFails, ReadFrameEnds, mainVars, radioVars, ghosts
  <2>2. Head(frameCh').data = <<>>
    BY <2>1
  <2>. QED
    BY <1>0, <2>1, <2>2, ReadStays
<1>. QED
  BY <1>1, <1>2, <1>3, <1>4, <1>5, <1>6, <1>7, <1>8, <1>9 DEF Next, MainStep, ReadStep

-----------------------------------------------------------------------------
(* What is answered is what was asked. *)

\* The answer a has the transaction of the command c.
Matches(a, c) == a.trx = c.trx \/ c.type = UnknownPayload

\* The commands that are not handled are of the last frame; so are those whose
\* answers are not sent.
AnswerInv ==
    /\ \A k \in Len(handled) + 1..Len(commands) : commands[k].last = Len(commands)
    /\ mainPc \notin {"handle", "send"} => outCmds = <<>>
    /\ \A i \in 1..Len(outCmds) :
          /\ outCmds[i].n \in 1..Len(commands)
          /\ commands[outCmds[i].n].last = Len(commands)
          /\ retryPc = "off" => Matches(outCmds[i], commands[outCmds[i].n])
    /\ \A a \in answers :
          /\ a.n \in 1..Len(commands)
          /\ retryPc = "off" => Matches(a, commands[a.n]) \/ Switched(a.n, commands[a.n].last)

LEMMA AnswerStays ==
    ASSUME AnswerInv, UNCHANGED <<handled, commands, outCmds, answers>>,
           mainPc' \notin {"handle", "send"} => mainPc \notin {"handle", "send"} \/ outCmds = <<>>,
           retryPc' = "off" => retryPc = "off"
    PROVE  AnswerInv'
<1>1. UNCHANGED <<handled, commands, outCmds, answers>>
  OBVIOUS
<1>2. \A a, c : Matches(a, c)' <=> Matches(a, c)
  BY DEF Matches
<1>3. \A j, k : Switched(j, k)' <=> Switched(j, k)
  BY <1>1 DEF Switched
<1>. HIDE DEF Matches, Switched
<1>. QED
  BY <1>1, <1>2, <1>3 DEF AnswerInv

\* Every response to a command has its number and its transaction.
LEMMA ResponsesMatch ==
    ASSUME NEW c, NEW ui, NEW i \in 1..Len(Responses(c, ui))
    PROVE  Responses(c, ui)[i].n = c.n /\ Responses(c, ui)[i].trx = c.trx
<1>. DEFINE a == Answer(c, "ACK", 2)
            b == Answer(c, LastAnswer(c), 1)
<1>1. a.n = c.n /\ a.trx = c.trx /\ b.n = c.n /\ b.trx = c.trx
  BY DEF Answer
<1>2. Responses(c, ui) \in {<<>>, <<>> \o <<b>>, <<a>> \o <<b>>}
  BY Zenon DEF Responses
<1>. HIDE DEF a, b
<1>4. CASE Responses(c, ui) = <<>>
  <2>1. Len(<<>>) = 0
    OBVIOUS
  <2>. QED
    BY <1>4, <2>1
<1>5. CASE Responses(c, ui) = <<>> \o <<b>>
  <2>1. Len(<<>> \o <<b>>) = 1 /\ (<<>> \o <<b>>)[1] = b
    OBVIOUS
  <2>. QED
    BY <1>1, <1>5, <2>1
<1>6. CASE Responses(c, ui) = <<a>> \o <<b>>
  <2>1. /\ Len(<<a>> \o <<b>>) = 2
        /\ (<<a>> \o <<b>>)[1] = a /\ (<<a>> \o <<b>>)[2] = b
    OBVIOUS
  <2>. QED
    BY <1>1, <1>6, <2>1
<1>. QED
  BY <1>2, <1>4, <1>5, <1>6

LEMMA AnswerHandle ==
    ASSUME TypeOK, SentInv, Pipeline, ReadInv, AnswerInv, HandlePacket
    PROVE  AnswerInv'
<1>0. /\ inCmds \in Seq(Command) /\ handled \in Seq(Command) /\ Len(commands) \in Nat
      /\ Len(inCmds) \in Nat /\ Len(handled) \in Nat /\ IsSeq(handled) /\ IsSeq(inCmds)
      /\ extended \in BOOLEAN /\ outCmds \in Seq(Response)
  BY DEF TypeOK, IsSeq
<1>1. /\ UNCHANGED <<commands, answers, retryPc, mainPc>>
      /\ mainPc = "handle" /\ inCmds # <<>> /\ handled' = Append(handled, Head(inCmds))
      /\ outCmds' \in {outCmds, outCmds \o Responses(Head(inCmds), extended)}
      /\ Len(commands) = Len(handled) + Len(inCmds)
  BY DEF HandlePacket, radioVars, Pipeline, Rest
<1>2. PICK c, n, rs : /\ c = Head(inCmds) /\ n = Len(handled) + 1
                      /\ rs \in {<<>>, Responses(c, extended)}
                      /\ outCmds' = outCmds \o rs
  <2>1. outCmds \o <<>> = outCmds
    BY <1>0
  <2>. QED
    BY <1>1, <2>1
<1>3. c = inCmds[1] /\ 1 \in 1..Len(inCmds) /\ Len(handled') = n /\ c \in Command
  BY <1>0, <1>1, <1>2, SeqTail, SeqAppend, SeqParts
<1>4. n \in 1..Len(commands) /\ n \in Len(handled) + 1..Len(commands)
  BY <1>0, <1>1, <1>2, <1>3
<1>5. AsRead(c, commands[n]) /\ commands[n].n = n /\ commands[n].last = Len(commands)
  <2>1. AsRead(inCmds[1], commands[Len(handled) + 1])
    BY <1>3 DEF ReadInv
  <2>2. commands[n].n = n
    BY <1>4 DEF SentInv
  <2>3. commands[n].last = Len(commands)
    BY <1>4 DEF AnswerInv
  <2>. QED
    BY <1>2, <1>3, <2>1, <2>2, <2>3
<1>6. rs \in Seq(Response) /\ \A i \in 1..Len(rs) : rs[i].n = c.n /\ rs[i].trx = c.trx
  <2>1. CASE rs = Responses(c, extended)
    <3>1. Responses(c, extended) \in Seq(Response)
      BY <1>0, <1>3, ResponsesType
    <3>2. \A i \in 1..Len(Responses(c, extended)) :
             Responses(c, extended)[i].n = c.n /\ Responses(c, extended)[i].trx = c.trx
      BY ResponsesMatch
    <3>. QED
      BY <2>1, <3>1, <3>2
  <2>2. CASE rs = <<>>
    BY <2>2
  <2>. QED
    BY <1>2, <2>1, <2>2
<1>7. ASSUME NEW i \in 1..Len(rs)
      PROVE  rs[i].n = n /\ (retryPc = "off" => Matches(rs[i], commands[n]))
  BY <1>5, <1>6 DEF AsRead, Matches
<1>8. /\ Len(outCmds') = Len(outCmds) + Len(rs)
      /\ \A i \in 1..Len(outCmds) : outCmds'[i] = outCmds[i]
      /\ \A i \in 1..Len(rs) : outCmds'[Len(outCmds) + i] = rs[i]
  BY <1>0, <1>1, <1>2, <1>6, SeqJoin
<1>9. ASSUME NEW i \in 1..Len(outCmds')
      PROVE  /\ outCmds'[i].n \in 1..Len(commands)
             /\ commands[outCmds'[i].n].last = Len(commands)
             /\ retryPc = "off" => Matches(outCmds'[i], commands[outCmds'[i].n])
  <2>1. CASE i \in 1..Len(outCmds)
    BY <1>8, <2>1 DEF AnswerInv
  <2>2. CASE i \notin 1..Len(outCmds)
    <3>1. PICK k \in 1..Len(rs) : i = Len(outCmds) + k
      <4>1. i - Len(outCmds) \in 1..Len(rs) /\ i = Len(outCmds) + (i - Len(outCmds))
        BY <1>0, <1>6, <1>8, <2>2
      <4>. QED
        BY <4>1
    <3>2. outCmds'[i] = rs[k] /\ rs[k].n = n /\ (retryPc = "off" => Matches(rs[k], commands[n]))
      BY <1>7, <1>8, <3>1
    <3>. QED
      BY <1>4, <1>5, <3>2
  <2>. QED
    BY <2>1, <2>2
<1>10. \A k \in Len(handled') + 1..Len(commands) : k \in Len(handled) + 1..Len(commands)
  BY <1>0, <1>2, <1>3
<1>11. \A a, d : Matches(a, d)' <=> Matches(a, d)
  BY DEF Matches
<1>12. \A j, k : Switched(j, k)' <=> Switched(j, k)
  BY <1>1 DEF Switched
<1>. HIDE DEF Matches, Switched
<1>. QED
  BY <1>1, <1>9, <1>10, <1>11, <1>12 DEF AnswerInv

LEMMA AnswerSent ==
    ASSUME TypeOK, SentInv, Pipeline, ReadInv, AnswerInv, SendAnswer
    PROVE  AnswerInv'
<1>0. /\ Len(commands) \in Nat /\ Len(handled) \in Nat /\ IsSeq(outCmds) /\ Len(outCmds) \in Nat
      /\ trxEnabled \in BOOLEAN /\ commands \in Seq(Command) /\ outCmds \in Seq(Response)
  BY DEF TypeOK, IsSeq
<1>1. /\ UNCHANGED <<handled, commands, retryPc, mainPc>>
      /\ mainPc = "send" /\ outCmds # <<>> /\ outCmds' = Tail(outCmds)
      /\ Len(handled) + Len(inCmds) = Len(commands)
      /\ \A a \in answers' : a \in answers \/ a = Marshal(Head(outCmds))
  <2>1. inCmds = <<>> /\ Len(commands) = Len(handled)
    BY DEF SendAnswer, Pipeline
  <2>2. Len(inCmds) = 0
    BY <2>1
  <2>. QED
    BY <1>0, <2>1, <2>2 DEF SendAnswer, radioVars
<1>2. PICK o, a : o = Head(outCmds) /\ a = Marshal(o)
  OBVIOUS
<1>3. /\ o = outCmds[1] /\ 1 \in 1..Len(outCmds) /\ Len(outCmds') = Len(outCmds) - 1
      /\ \A i \in 1..Len(outCmds) - 1 : outCmds'[i] = outCmds[i + 1]
  BY <1>0, <1>1, <1>2, SeqTail
<1>4. /\ o.n \in 1..Len(commands) /\ commands[o.n].last = Len(commands)
      /\ retryPc = "off" => Matches(o, commands[o.n])
  <2>1. /\ outCmds[1].n \in 1..Len(commands) /\ commands[outCmds[1].n].last = Len(commands)
        /\ retryPc = "off" => Matches(outCmds[1], commands[outCmds[1].n])
    BY <1>3 DEF AnswerInv
  <2>. QED
    BY <1>3, <2>1
<1>5. a.n = o.n /\ a.trx = (trxEnabled /\ o.trx) /\ o.trx \in BOOLEAN
  <2>1. o \in Response
    BY <1>0, <1>3
  <2>. QED
    BY <1>2, <2>1 DEF Marshal, Response
<1>6. ASSUME retryPc = "off"
      PROVE  Matches(a, commands[o.n]) \/ Switched(o.n, Len(commands))
  <2>1. CASE commands[o.n].type = UnknownPayload
    BY <2>1 DEF Matches
  <2>2. CASE o.trx = commands[o.n].trx
    <3>1. trxEnabled = commands[Len(commands)].trx
      <4>1. trxEnabled = ModeAfter(Len(commands))
        BY <1>1, <1>6 DEF ReadInv
      <4>2. Len(commands) > 0 /\ Len(commands) \in 1..Len(commands)
        BY <1>0, <1>4
      <4>3. commands[Len(commands)].trx \in BOOLEAN
        <5>1. commands[Len(commands)] \in Command
          BY <1>0, <4>2
        <5>. QED
          BY <5>1 DEF Command
      <4>. QED
        BY <4>1, <4>2, <4>3 DEF ModeAfter
    <3>2. commands[o.n].trx => commands[Len(commands)].trx \/ Switched(o.n, Len(commands))
      BY <1>0, <1>4 DEF SentInv
    <3>. QED
      BY <1>0, <1>5, <2>2, <3>1, <3>2 DEF Matches
  <2>. QED
    BY <1>4, <1>6, <2>1, <2>2 DEF Matches
<1>7. ASSUME NEW b \in answers'
      PROVE  /\ b.n \in 1..Len(commands)
             /\ retryPc = "off" => Matches(b, commands[b.n]) \/ Switched(b.n, commands[b.n].last)
  <2>1. CASE b \in answers
    BY <2>1 DEF AnswerInv
  <2>2. CASE b = a
    BY <1>4, <1>5, <1>6, <2>2
  <2>. QED
    BY <1>1, <1>2, <2>1, <2>2
<1>8. ASSUME NEW i \in 1..Len(outCmds')
      PROVE  /\ outCmds'[i].n \in 1..Len(commands)
             /\ commands[outCmds'[i].n].last = Len(commands)
             /\ retryPc = "off" => Matches(outCmds'[i], commands[outCmds'[i].n])
  <2>1. i \in 1..Len(outCmds) - 1 /\ i + 1 \in 1..Len(outCmds)
    BY <1>0, <1>3
  <2>. QED
    BY <1>3, <2>1 DEF AnswerInv
<1>11. \A x, d : Matches(x, d)' <=> Matches(x, d)
  BY DEF Matches
<1>12. \A j, k : Switched(j, k)' <=> Switched(j, k)
  BY <1>1 DEF Switched
<1>. HIDE DEF Matches, Switched
<1>. QED
  BY <1>1, <1>7, <1>8, <1>11, <1>12 DEF AnswerInv

LEMMA AnswerSend ==
    ASSUME TypeOK, SentInv, patient, Pipeline, AnswerInv, NEW kinds \in FrameKinds, SendFrame(kinds)
    PROVE  AnswerInv'
<1>0. commands \in Seq(Command) /\ radioTrx \in BOOLEAN
  BY DEF TypeOK
<1>1. PICK n, l, f : n = Len(commands) /\ l = Len(kinds) /\ f = Frame(kinds)
  OBVIOUS
<1>2. /\ n \in Nat /\ l \in Nat \ {0} /\ Len(commands') = n + l
      /\ \A k \in 1..n : commands'[k] = commands[k]
      /\ \A i \in 1..l : commands'[n + i] = f[i] /\ f[i].last = n + l
  BY <1>0, <1>1, FrameSent
<1>3. /\ UNCHANGED <<handled, outCmds, answers, retryPc, mainPc>> /\ mainPc = "select"
      /\ Len(handled) = n /\ outCmds = <<>>
  BY <1>1 DEF SendFrame, Served, mainVars, ghosts, Pipeline, OnTheWay, AnswerInv
<1>4. ASSUME NEW k \in Len(handled') + 1..Len(commands')
      PROVE  commands'[k].last = Len(commands')
  <2>1. k - n \in 1..l /\ k = n + (k - n)
    BY <1>2, <1>3
  <2>. QED
    BY <1>2, <2>1
<1>5. ASSUME NEW a \in answers'
      PROVE  /\ a.n \in 1..Len(commands')
             /\ retryPc = "off" => Matches(a, commands'[a.n]) \/ Switched(a.n, commands[a.n].last)'
  <2>1. /\ a.n \in 1..n
        /\ retryPc = "off" => Matches(a, commands[a.n]) \/ Switched(a.n, commands[a.n].last)
    BY <1>1, <1>3 DEF AnswerInv
  <2>2. commands'[a.n] = commands[a.n] /\ a.n \in 1..Len(commands')
    BY <1>2, <2>1
  <2>3. commands[a.n].last \in a.n..n
    BY <1>1, <2>1 DEF SentInv
  <2>4. PICK last : last = commands[a.n].last
    OBVIOUS
  <2>5. Switched(a.n, last) => Switched(a.n, last)'
    <3>1. \A m \in a.n + 1..last : m \in 1..n
      BY <1>2, <2>1, <2>3, <2>4
    <3>. QED
      BY <1>2, <3>1 DEF Switched
  <2>6. Switched(a.n, last)' => Switched(a.n, commands[a.n].last)'
    BY <2>2, <2>4
  <2>. QED
    BY <2>1, <2>2, <2>4, <2>5, <2>6
<1>6. \A x, d : Matches(x, d)' <=> Matches(x, d)
  BY DEF Matches
<1>7. Len(outCmds') = 0
  BY <1>3
<1>. HIDE DEF Matches, Switched
<1>. QED
  BY <1>3, <1>4, <1>5, <1>6, <1>7 DEF AnswerInv

LEMMA AnswerInvStep ==
    ASSUME TypeOK, SentInv, OneRead, patient, Pipeline, ReadInv, AnswerInv, [Next]_vars
    PROVE  AnswerInv'
<1>1. CASE HandlePacket
  BY <1>1, AnswerHandle
<1>2. CASE SendAnswer
  BY <1>2, AnswerSent
<1>3. CASE \E kinds \in FrameKinds : SendFrame(kinds)
  BY <1>3, AnswerSend
<1>4. CASE ~(HandlePacket \/ SendAnswer \/ \E kinds \in FrameKinds : SendFrame(kinds))
  <2>1. UNCHANGED <<handled, commands, outCmds, answers>>
    BY <1>4 DEF Next, MainStep, ReadStep, RetryStep, IdentifyFirst, FirstRead, ReceiveEOF,
       ReceiveFrame, StartRead, ParsePacket, ParseTorn, AllParsed, AllHandled, BackToSelect,
       RetryCheck, RetrySend, StorePacket, ReadFrameReturns, ReadFrameFails, ReadFrameEnds,
       BecomeReady, vars, mainVars, radioVars, ghosts
  <2>2. mainPc' \notin {"handle", "send"} => mainPc \notin {"handle", "send"} \/ outCmds = <<>>
    BY <1>4 DEF Next, MainStep, ReadStep, RetryStep, IdentifyFirst, FirstRead, ReceiveEOF,
       ReceiveFrame, StartRead, ParsePacket, ParseTorn, AllParsed, AllHandled, BackToSelect,
       RetryCheck, RetrySend, StorePacket, ReadFrameReturns, ReadFrameFails, ReadFrameEnds,
       BecomeReady, vars, mainVars
  <2>. QED
    BY <2>1, <2>2, RetryStays, AnswerStays
<1>. QED
  BY <1>1, <1>2, <1>3, <1>4

-----------------------------------------------------------------------------
\* All of it: what is needed of any radio, and of one that waits.
ServiceInv ==
    /\ TypeOK /\ OneRead /\ SentInv
    /\ patient => Pipeline /\ ReadInv /\ AnswerInv

LEMMA ServiceInit == Init => ServiceInv
<1>. SUFFICES ASSUME Init PROVE ServiceInv
  OBVIOUS
<1>1. TypeOK /\ OneRead /\ (patient => Pipeline)
  BY TypeInit, SessionInit DEF SessionInv
<1>2. /\ Len(commands) = 0 /\ Len(handled) = 0 /\ Len(inCmds) = 0 /\ Len(outCmds) = 0
      /\ commands = <<>> /\ outCmds = <<>> /\ answers = {} /\ frameCh = <<>> /\ inbound = <<>>
      /\ mainPc \in {"identify", "startRead"} /\ ~trxEnabled /\ ~radioTrx
      /\ trxEnabled \in BOOLEAN /\ radioTrx \in BOOLEAN
  BY DEF Init
<1>3. SentInv
  BY <1>2 DEF SentInv, ModeAfter
<1>4. ReadInv
  BY <1>2 DEF ReadInv, ModeAfter
<1>5. AnswerInv
  BY <1>2 DEF AnswerInv
<1>. QED
  BY <1>1, <1>3, <1>4, <1>5 DEF ServiceInv

LEMMA ServiceStep == ServiceInv /\ [Next]_vars => ServiceInv'
<1>. SUFFICES ASSUME ServiceInv, [Next]_vars PROVE ServiceInv'
  OBVIOUS
<1>1. TypeOK'
  <2>1. PcTypes' /\ DataTypes' /\ AnswerTypes'
    BY PcTypesStep, DataTypesStep, AnswerTypesStep DEF ServiceInv
  <2>. QED
    BY <2>1 DEF TypeOK, PcTypes, DataTypes, AnswerTypes
<1>2. OneRead' /\ SentInv'
  BY OneReadStep, SentStep DEF ServiceInv
<1>3. ASSUME patient' PROVE Pipeline' /\ ReadInv' /\ AnswerInv'
  BY <1>3, PatientStays, PipelineStep, ReadInvStep, AnswerInvStep DEF ServiceInv
<1>. QED
  BY <1>1, <1>2, <1>3 DEF ServiceInv

LEMMA ServiceHolds == Spec => []ServiceInv
  BY ServiceInit, ServiceStep, PTL DEF Spec

\* The reader is never stuck on frameCh, whatever the radio sends and when.
THEOREM SessionTypeCorrect == Spec => []TypeOK
<1>1. ServiceInv => TypeOK
  BY DEF ServiceInv
<1>. QED
  BY <1>1, ServiceHolds, PTL

\* What is handled for a patient radio is what it sent, in number, type and
\* transaction: the shared buffer does not change it, and the modes of the two
\* sides do not drift apart, in sessions of any length.
THEOREM PatientIsFaithful == Spec => []FaithfulToPatient
<1>1. ServiceInv => FaithfulToPatient
  <2>. SUFFICES ASSUME ServiceInv, patient, NEW i \in DOMAIN handled
                PROVE  /\ handled[i].n = i
                       /\ \/ handled[i] = commands[i]
                          \/ commands[i].type = UnknownPayload
                          \/ retryPc # "off" /\ ~Fixed(Sizes(commands[i].lingo, commands[i].id)[1])
    BY DEF FaithfulToPatient
  <2>1. IsSeq(handled) /\ Numbered(handled, 0)
    BY DEF ServiceInv, Pipeline, Numbered
  <2>2. i \in 1..Len(handled) /\ i \in Nat
    BY <2>1, SeqLen
  <2>3. handled[i].n = 0 + i
    BY <2>1, <2>2 DEF Numbered
  <2>4. AsRead(handled[i], commands[i])
    BY <2>2 DEF ServiceInv, ReadInv
  <2>. QED
    BY <2>2, <2>3, <2>4 DEF AsRead
<1>. QED
  BY <1>1, ServiceHolds, PTL

\* And its answers carry transactions as its requests do: the radio's mode is the
\* pod's after every frame, although Lookup and handleCmdID go by lengths and ids.
THEOREM AnswersAreMatched == Spec => []AnswersMatch
<1>1. ServiceInv => AnswersMatch
  <2>. SUFFICES ASSUME ServiceInv, patient, retryPc = "off", NEW a \in answers
                PROVE  LET c == commands[a.n]
                       IN \/ a.trx = c.trx
                          \/ c.type = UnknownPayload
                          \/ \E m \in c.n + 1..c.last : commands[m].id = "IdentifyDeviceLingoes"
    BY DEF AnswersMatch
  <2>1. /\ a.n \in 1..Len(commands)
        /\ Matches(a, commands[a.n]) \/ Switched(a.n, commands[a.n].last)
    BY DEF ServiceInv, AnswerInv
  <2>2. commands[a.n].n = a.n
    BY <2>1 DEF ServiceInv, SentInv
  <2>. QED
    BY <2>1, <2>2 DEF Matches, Switched
<1>. QED
  BY <1>1, ServiceHolds, PTL
=============================================================================
