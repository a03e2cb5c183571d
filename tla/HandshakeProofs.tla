---------------------------- MODULE HandshakeProofs ----------------------------
(***************************************************************************)
(* The handshake, for any number of sections, attempts, timeouts and       *)
(* losses, whatever the link may lose.                                     *)
(***************************************************************************)
EXTENDS Handshake, FiniteSetTheorems, FunctionTheorems, TLAPS

\* The messages of a queue.
On(s) == {s[i] : i \in 1..Len(s)}

LEMMA OnAppend ==
    ASSUME NEW S, NEW s \in Seq(S), NEW m \in S
    PROVE  Append(s, m) \in Seq(S) /\ On(Append(s, m)) = On(s) \cup {m}
<1>1. /\ Append(s, m) \in Seq(S) /\ Len(Append(s, m)) = Len(s) + 1 /\ Len(s) \in Nat
      /\ \A i \in 1..Len(s) : Append(s, m)[i] = s[i]
      /\ Append(s, m)[Len(s) + 1] = m
  OBVIOUS
<1>2. 1..Len(s) + 1 = (1..Len(s)) \cup {Len(s) + 1}
  BY <1>1
<1>. QED
  BY <1>1, <1>2 DEF On

LEMMA OnTail ==
    ASSUME NEW S, NEW s \in Seq(S), s # <<>>
    PROVE  /\ Tail(s) \in Seq(S) /\ On(Tail(s)) \subseteq On(s)
           /\ Head(s) \in On(s) /\ Head(s) \in S
<1>1. /\ Tail(s) \in Seq(S) /\ Len(s) \in Nat /\ Len(s) >= 1 /\ Len(Tail(s)) = Len(s) - 1
      /\ \A i \in 1..Len(s) - 1 : Tail(s)[i] = s[i + 1]
      /\ Head(s) = s[1] /\ s[1] \in S
  OBVIOUS
<1>2. \A i \in 1..Len(s) - 1 : i + 1 \in 1..Len(s)
  BY <1>1
<1>. QED
  BY <1>1, <1>2 DEF On

LEMMA OnConcat ==
    ASSUME NEW S, NEW s \in Seq(S), NEW t \in Seq(S)
    PROVE  s \o t \in Seq(S) /\ On(s \o t) = On(s) \cup On(t)
<1>1. /\ s \o t \in Seq(S) /\ Len(s \o t) = Len(s) + Len(t) /\ Len(s) \in Nat /\ Len(t) \in Nat
      /\ \A i \in 1..Len(s) : (s \o t)[i] = s[i]
      /\ \A i \in 1..Len(t) : (s \o t)[Len(s) + i] = t[i]
  OBVIOUS
<1>2. \A i \in 1..Len(s) + Len(t) : i \in 1..Len(s) \/ \E j \in 1..Len(t) : i = Len(s) + j
  <2>. TAKE i \in 1..Len(s) + Len(t)
  <2>1. i > Len(s) => i - Len(s) \in 1..Len(t) /\ i = Len(s) + (i - Len(s))
    BY <1>1
  <2>. QED
    BY <1>1, <2>1
<1>3. On(s \o t) \subseteq On(s) \cup On(t)
  BY <1>1, <1>2 DEF On
<1>4. \A i \in 1..Len(t) : Len(s) + i \in 1..Len(s) + Len(t)
  BY <1>1
<1>5. On(s) \subseteq On(s \o t)
  BY <1>1 DEF On
<1>6. ASSUME NEW i \in 1..Len(t)
      PROVE  t[i] \in On(s \o t)
  <2>1. (s \o t)[Len(s) + i] = t[i] /\ Len(s) + i \in 1..Len(s \o t)
    BY <1>1, <1>4
  <2>. QED
    BY <2>1 DEF On
<1>7. On(t) \subseteq On(s \o t)
  BY <1>6 DEF On
<1>. QED
  BY <1>1, <1>3, <1>5, <1>7

LEMMA OnFew ==
    /\ On(<<>>) = {}
    /\ \A m : On(<<m>>) = {m}
    /\ \A m, n : On(<<m, n>>) = {m, n}
<1>1. 1..0 = {} /\ 1..1 = {1} /\ 1..2 = {1, 2}
  OBVIOUS
<1>2. On(<<>>) = {}
  BY <1>1 DEF On
<1>3. ASSUME NEW m PROVE On(<<m>>) = {m}
  <2>1. Len(<<m>>) = 1 /\ <<m>>[1] = m
    OBVIOUS
  <2>. QED
    BY <1>1, <2>1 DEF On
<1>4. ASSUME NEW m, NEW n PROVE On(<<m, n>>) = {m, n}
  <2>1. Len(<<m, n>>) = 2 /\ <<m, n>>[1] = m /\ <<m, n>>[2] = n
    OBVIOUS
  <2>. QED
    BY <1>1, <2>1 DEF On
<1>. QED
  BY <1>2, <1>3, <1>4

-----------------------------------------------------------------------------
(* Which request an answer belongs to. *)

\* Requests of tokens are of an attempt, and no section beyond the last is sent.
PartOK(m) ==
    /\ m.cmd = "SetFIDTokenValues" => m.part \in 1..MaxAttempts
    /\ m.cmd = "RetDevAuthenticationInfo" => m.part \in 0..MaxSection

\* The radio never uses a number twice, so what has the number of the request
\* that it waits for is that request, or an answer to it.
NumberInv ==
    /\ \A m \in On(toPod) :
          /\ m.trx \in 1..trx /\ PartOK(m)
          /\ m.trx = waiting.trx => m = waiting
    /\ waiting # Nothing => waiting.trx \in 1..trx /\ PartOK(waiting)
    /\ waiting.cmd = "StartIDPS" => attempts >= 1
    /\ \A r \in On(toRadio) :
          r.cmd \in Answers =>
              /\ r.trx \in 1..trx
              /\ r.trx = waiting.trx =>
                    /\ r.part = waiting.part
                    /\ waiting.cmd = "RetDevAuthenticationInfo" /\ r.cmd = "ACK"
                         => r.part < MaxSection

\* Where an answer to req is allowed.
AnswersOf(req, r) ==
    r.cmd \in Answers =>
        /\ r.trx = req.trx /\ r.part = req.part
        /\ req.cmd = "RetDevAuthenticationInfo" /\ r.cmd = "ACK" => r.part < MaxSection

LEMMA PodHandlesReply ==
    ASSUME TypeOK, NumberInv, PodHandles
    PROVE  \E req \in ToPod :
              /\ req = Head(toPod) /\ req \in On(toPod)
              /\ toRadio' \in Seq(ToRadio)
              /\ \A r \in On(toRadio') : r \in On(toRadio) \/ AnswersOf(req, r)
<1>. DEFINE req == Head(toPod)
<1>1. toPod \in Seq(ToPod) /\ toRadio \in Seq(ToRadio) /\ toPod # <<>>
  BY DEF TypeOK, PodHandles
<1>2. req \in ToPod /\ req \in On(toPod)
  BY <1>1, OnTail
<1>3. Handle(req)
  BY DEF PodHandles
<1>. HIDE DEF req
<1>4. PartOK(req) /\ req.cmd \in Requests /\ req.part \in Nat
  BY <1>2 DEF NumberInv, ToPod
<1>5. ASSUME NEW cmd \in Answers, NEW status \in AnyStatus,
             req.cmd = "RetDevAuthenticationInfo" /\ cmd = "ACK" => req.part < MaxSection
      PROVE  RespondStatus(req, cmd, status) \in ToRadio /\ AnswersOf(req, RespondStatus(req, cmd, status))
  BY <1>2, <1>5 DEF RespondStatus, ToPod, ToRadio, AnswersOf
<1>6. ASSUME NEW cmd \in PodRequests
      PROVE  Send(cmd) \in ToRadio /\ AnswersOf(req, Send(cmd))
  BY <1>6 DEF Send, Nothing, ToRadio, AnswersOf, AnyStatus, Answers, PodRequests
<1>7. ASSUME NEW r \in ToRadio, AnswersOf(req, r), Reply(<<r>>)
      PROVE  toRadio' \in Seq(ToRadio)
             /\ \A m \in On(toRadio') : m \in On(toRadio) \/ AnswersOf(req, m)
  <2>. DEFINE t == <<r>>
  <2>1. t \in Seq(ToRadio) /\ On(t) = {r} /\ toRadio' = toRadio \o t
    BY OnFew, <1>7 DEF Reply
  <2>. HIDE DEF t
  <2>2. toRadio' \in Seq(ToRadio) /\ On(toRadio') = On(toRadio) \cup {r}
    BY <1>1, <2>1, OnConcat
  <2>. QED
    BY <1>7, <2>2
<1>8. ASSUME NEW r \in ToRadio, NEW q \in ToRadio, AnswersOf(req, r), AnswersOf(req, q),
             Reply(<<r, q>>)
      PROVE  toRadio' \in Seq(ToRadio)
             /\ \A m \in On(toRadio') : m \in On(toRadio) \/ AnswersOf(req, m)
  <2>. DEFINE t == <<r, q>>
  <2>1. t \in Seq(ToRadio) /\ On(t) = {r, q} /\ toRadio' = toRadio \o t
    BY OnFew, <1>8 DEF Reply
  <2>. HIDE DEF t
  <2>2. toRadio' \in Seq(ToRadio) /\ On(toRadio') = On(toRadio) \cup {r, q}
    BY <1>1, <2>1, OnConcat
  <2>. QED
    BY <1>8, <2>2
<1>9. CASE UNCHANGED toRadio
  BY <1>1, <1>2, <1>9 DEF req
<1>10. "none" \in AnyStatus /\ "OK" \in AnyStatus /\ "TimeLimitNotExceeded" \in AnyStatus
       /\ "WillNotAccept" \in AnyStatus
  BY DEF AnyStatus
<1>11. CASE StartIDPS(req) \/ SetFIDTokenValues(req)
  <2>1. toRadio' = toRadio \o <<>> \/ \E cmd \in {"ACK", "RetFIDTokenValueACKs"} : Reply(<<Respond(req, cmd)>>)
    BY <1>11 DEF StartIDPS, SetFIDTokenValues, Reply
  <2>2. toRadio \o <<>> = toRadio
    BY <1>1
  <2>3. req.cmd # "RetDevAuthenticationInfo"
    BY <1>11 DEF StartIDPS, SetFIDTokenValues
  <2>. QED
    BY <1>2, <1>5, <1>7, <1>9, <1>10, <2>1, <2>2, <2>3 DEF Respond, Answers, req
<1>12. CASE EndIDPS(req)
  <2>1. req.cmd # "RetDevAuthenticationInfo"
    BY <1>12 DEF EndIDPS
  <2>2. \A st \in {"OK", "TimeLimitNotExceeded", "WillNotAccept"} :
            RespondStatus(req, "IDPSStatus", st) \in ToRadio
            /\ AnswersOf(req, RespondStatus(req, "IDPSStatus", st))
    BY <1>5, <1>10, <2>1 DEF Answers
  <2>3. Send("GetDevAuthenticationInfo") \in ToRadio /\ AnswersOf(req, Send("GetDevAuthenticationInfo"))
    BY <1>6 DEF PodRequests
  <2>4. \/ Reply(<<RespondStatus(req, "IDPSStatus", "OK"), Send("GetDevAuthenticationInfo")>>)
        \/ \E st \in {"OK", "TimeLimitNotExceeded", "WillNotAccept"} :
              Reply(<<RespondStatus(req, "IDPSStatus", st)>>)
        \/ UNCHANGED toRadio
    BY <1>12 DEF EndIDPS
  <2>5. CASE Reply(<<RespondStatus(req, "IDPSStatus", "OK"), Send("GetDevAuthenticationInfo")>>)
    BY <1>2, <1>8, <2>2, <2>3, <2>5 DEF req
  <2>6. CASE \E st \in {"OK", "TimeLimitNotExceeded", "WillNotAccept"} :
                Reply(<<RespondStatus(req, "IDPSStatus", st)>>)
    BY <1>2, <1>7, <2>2, <2>6 DEF req
  <2>. QED
    BY <1>9, <2>4, <2>5, <2>6
<1>13. CASE RetDevAuthenticationInfo(req) \/ RetDevAuthenticationInfoV1(req)
  <2>1. \/ req.part < MaxSection /\ Reply(<<Respond(req, "ACK")>>)
        \/ Reply(<<Respond(req, "AckDevAuthenticationInfo"), Send("GetDevAuthenticationSignatureV2")>>)
        \/ Reply(<<Respond(req, "AckDevAuthenticationInfo")>>)
    BY <1>13 DEF RetDevAuthenticationInfo, RetDevAuthenticationInfoV1
  <2>2. Respond(req, "AckDevAuthenticationInfo") \in ToRadio
        /\ AnswersOf(req, Respond(req, "AckDevAuthenticationInfo"))
    BY <1>5, <1>10 DEF Respond, Answers
  <2>3. Send("GetDevAuthenticationSignatureV2") \in ToRadio
        /\ AnswersOf(req, Send("GetDevAuthenticationSignatureV2"))
    BY <1>6 DEF PodRequests
  <2>4. req.part < MaxSection => Respond(req, "ACK") \in ToRadio /\ AnswersOf(req, Respond(req, "ACK"))
    BY <1>5, <1>10 DEF Respond, Answers
  <2>5. CASE Reply(<<Respond(req, "AckDevAuthenticationInfo"), Send("GetDevAuthenticationSignatureV2")>>)
    BY <1>2, <1>8, <2>2, <2>3, <2>5 DEF req
  <2>. QED
    BY <1>2, <1>7, <2>1, <2>2, <2>4, <2>5 DEF req
<1>14. CASE RetDevAuthenticationSignature(req) \/ RetAccSampleRateCaps(req)
  <2>1. \E cmd \in {"AckDevAuthenticationStatus", "AccAck"},
           q \in {"GetAccSampleRateCaps", "NewiPodTrackInfo"} :
              Reply(<<Respond(req, cmd), Send(q)>>)
    BY <1>14 DEF RetDevAuthenticationSignature, RetAccSampleRateCaps
  <2>2. \A cmd \in {"AckDevAuthenticationStatus", "AccAck"} :
            Respond(req, cmd) \in ToRadio /\ AnswersOf(req, Respond(req, cmd))
    BY <1>5, <1>10 DEF Respond, Answers
  <2>3. \A q \in {"GetAccSampleRateCaps", "NewiPodTrackInfo"} :
            Send(q) \in ToRadio /\ AnswersOf(req, Send(q))
    BY <1>6 DEF PodRequests
  <2>. QED
    BY <1>2, <1>8, <2>1, <2>2, <2>3 DEF req
<1>. QED
  BY <1>3, <1>11, <1>12, <1>13, <1>14 DEF Handle

\* A new request of the radio.
LEMMA NewRequest ==
    ASSUME TypeOK, NumberInv,
           NEW cmd \in Requests, NEW status \in AnyStatus, NEW part \in Nat,
           RequestStatus(cmd, status, part),
           cmd = "SetFIDTokenValues" => part \in 1..MaxAttempts,
           cmd = "RetDevAuthenticationInfo" => part \in 0..MaxSection,
           cmd = "StartIDPS" => attempts' >= 1, On(toRadio') \subseteq On(toRadio)
    PROVE  /\ toPod' \in Seq(ToPod) /\ waiting' \in ToPod \cup {Nothing} /\ trx' \in Nat
           /\ \E m \in ToPod : /\ m.cmd = cmd /\ m.part = part /\ m.trx = trx'
                               /\ toPod' = Append(toPod, m)
                               /\ On(toPod') = On(toPod) \cup {m}
                               /\ waiting' \in {m, Nothing}
                               /\ status # "NewLink" => waiting' = m
           /\ NumberInv'
<1>. DEFINE m == [cmd |-> cmd, status |-> status, trx |-> trx + 1, part |-> part]
<1>1. toPod \in Seq(ToPod) /\ trx \in Nat
  BY DEF TypeOK
<1>2. m \in ToPod /\ m.cmd = cmd /\ m.part = part /\ m.trx = trx + 1
  BY <1>1 DEF ToPod
<1>3. toPod' = Append(toPod, m) /\ trx' = trx + 1 /\ waiting' \in {m, Nothing}
      /\ (status # "NewLink" => waiting' = m)
  BY DEF RequestStatus
<1>4. PartOK(m)
  BY <1>2 DEF PartOK
<1>. HIDE DEF m
<1>5. toPod' \in Seq(ToPod) /\ On(toPod') = On(toPod) \cup {m}
  BY <1>1, <1>2, <1>3, OnAppend
<1>6. m # Nothing /\ Nothing.trx = 0
  BY <1>2 DEF Nothing, Requests
<1>7. waiting'.trx \in {0, trx + 1} /\ (waiting'.trx = trx + 1 => waiting' = m)
  BY <1>1, <1>2, <1>3, <1>6
<1>8. ASSUME NEW q \in On(toPod')
      PROVE  q.trx \in 1..trx' /\ PartOK(q) /\ (q.trx = waiting'.trx => q = waiting')
  <2>1. CASE q \in On(toPod)
    BY <1>1, <1>3, <1>7, <2>1 DEF NumberInv
  <2>2. CASE q = m
    BY <1>1, <1>2, <1>3, <1>4, <1>7, <2>2
  <2>. QED
    BY <1>5, <2>1, <2>2
<1>9. ASSUME NEW r \in On(toRadio'), r.cmd \in Answers
      PROVE  r.trx \in 1..trx' /\ r.trx # waiting'.trx
  BY <1>1, <1>3, <1>7, <1>9 DEF NumberInv
<1>10. NumberInv'
  <2>1. \A q \in On(toPod') : q.trx \in 1..trx' /\ PartOK(q) /\ (q.trx = waiting'.trx => q = waiting')
    BY <1>8
  <2>2. waiting' # Nothing => waiting'.trx \in 1..trx' /\ PartOK(waiting')
    BY <1>1, <1>2, <1>3, <1>4
  <2>4. waiting'.cmd = "StartIDPS" => attempts' >= 1
    BY <1>2, <1>3 DEF Nothing
  <2>3. \A r \in On(toRadio') : r.cmd \in Answers => r.trx \in 1..trx' /\ r.trx # waiting'.trx
    BY <1>9
  <2>. QED
    BY <2>1, <2>2, <2>3, <2>4 DEF NumberInv, PartOK
<1>11. toPod' \in Seq(ToPod) /\ waiting' \in ToPod \cup {Nothing} /\ trx' \in Nat
  BY <1>1, <1>2, <1>3, <1>5
<1>12. /\ m \in ToPod /\ m.cmd = cmd /\ m.part = part /\ m.trx = trx'
       /\ toPod' = Append(toPod, m) /\ On(toPod') = On(toPod) \cup {m}
       /\ waiting' \in {m, Nothing} /\ (status # "NewLink" => waiting' = m)
  BY <1>2, <1>3, <1>5
<1>. QED
  BY <1>10, <1>11, <1>12

\* Messages go, and what the radio waits for stays or is given up.
LEMMA FewerMessages ==
    ASSUME TypeOK, NumberInv, On(toPod') \subseteq On(toPod), On(toRadio') \subseteq On(toRadio),
           waiting' \in {waiting, Nothing}, UNCHANGED trx, attempts' \in Nat, attempts' >= attempts
    PROVE  NumberInv'
<1>1. Nothing.trx = 0 /\ trx \in Nat /\ attempts \in Nat
  BY DEF Nothing, TypeOK
<1>2. CASE waiting' = waiting
  <2>1. \A q \in On(toPod') :
            q.trx \in 1..trx' /\ PartOK(q) /\ (q.trx = waiting'.trx => q = waiting')
    BY <1>2 DEF NumberInv
  <2>2. \A r \in On(toRadio') :
            r.cmd \in Answers =>
                /\ r.trx \in 1..trx'
                /\ r.trx = waiting'.trx =>
                      /\ r.part = waiting'.part
                      /\ waiting'.cmd = "RetDevAuthenticationInfo" /\ r.cmd = "ACK"
                           => r.part < MaxSection
    BY <1>2 DEF NumberInv
  <2>3. waiting'.cmd = "StartIDPS" => attempts' >= 1
    BY <1>1, <1>2 DEF NumberInv
  <2>4. waiting' # Nothing => waiting'.trx \in 1..trx' /\ PartOK(waiting')
    BY <1>2 DEF NumberInv
  <2>. QED
    BY <2>1, <2>2, <2>3, <2>4 DEF NumberInv, PartOK
<1>3. CASE waiting' = Nothing
  <2>1. \A q \in On(toPod') : q.trx \in 1..trx' /\ PartOK(q) /\ q.trx # waiting'.trx
    BY <1>1, <1>3 DEF NumberInv
  <2>2. \A r \in On(toRadio') : r.cmd \in Answers => r.trx \in 1..trx' /\ r.trx # waiting'.trx
    BY <1>1, <1>3 DEF NumberInv
  <2>3. Nothing.cmd # "StartIDPS"
    BY DEF Nothing
  <2>. QED
    BY <1>3, <2>1, <2>2, <2>3 DEF NumberInv, PartOK
<1>. QED
  BY <1>2, <1>3

-----------------------------------------------------------------------------
(* Types. *)

LEMMA HandshakeInit == Init => TypeOK /\ NumberInv
<1>. SUFFICES ASSUME Init PROVE TypeOK /\ NumberInv
  OBVIOUS
<1>1. TypeOK
  BY HandshakeAssumption DEF Init, TypeOK
<1>2. Nothing.cmd = "none"
  BY DEF Nothing
<1>. QED
  BY <1>1, <1>2, OnFew DEF Init, NumberInv

LEMMA PodTypes ==
    ASSUME TypeOK, NumberInv, PodHandles
    PROVE  TypeOK' /\ NumberInv'
<1>1. PICK req \in ToPod :
          /\ req = Head(toPod) /\ req \in On(toPod)
          /\ toRadio' \in Seq(ToRadio)
          /\ \A r \in On(toRadio') : r \in On(toRadio) \/ AnswersOf(req, r)
  BY PodHandlesReply
<1>2. /\ toPod' \in Seq(ToPod) /\ On(toPod') \subseteq On(toPod)
      /\ UNCHANGED <<radioVars, early, losses>> /\ Handle(req)
  BY <1>1, OnTail DEF PodHandles, TypeOK
<1>3. NumberInv'
  <2>1. ASSUME NEW r \in On(toRadio'), r.cmd \in Answers, r \notin On(toRadio)
        PROVE  /\ r.trx = req.trx /\ r.part = req.part
               /\ req.cmd = "RetDevAuthenticationInfo" /\ r.cmd = "ACK" => r.part < MaxSection
    BY <1>1, <2>1 DEF AnswersOf
  <2>2. req.trx \in 1..trx /\ (req.trx = waiting.trx => req = waiting)
    BY <1>1 DEF NumberInv
  <2>. QED
    BY <1>2, <2>1, <2>2 DEF NumberInv, PartOK, radioVars
<1>4. TypeOK'
  <2>1. PartOK(req) /\ req.part \in Nat
    BY <1>1 DEF NumberInv, ToPod
  <2>2. tokens' \in Seq(1..MaxAttempts)
    <3>1. \/ UNCHANGED tokens \/ tokens' = <<>>
          \/ req.cmd = "SetFIDTokenValues" /\ tokens' = Append(tokens, req.part)
      BY <1>2 DEF Handle, StartIDPS, SetFIDTokenValues, EndIDPS, RetDevAuthenticationInfo,
         RetDevAuthenticationInfoV1, RetDevAuthenticationSignature, RetAccSampleRateCaps, podVars
    <3>2. req.cmd = "SetFIDTokenValues" => Append(tokens, req.part) \in Seq(1..MaxAttempts)
      BY <2>1 DEF PartOK, TypeOK
    <3>3. tokens \in Seq(1..MaxAttempts) /\ <<>> \in Seq(1..MaxAttempts)
      BY DEF TypeOK
    <3>. QED
      BY <3>1, <3>2, <3>3
  <2>3. devCertBuf' \in Seq(0..MaxSection) /\ accepted' \in Seq(0..MaxSection)
    <3>1. req.cmd = "RetDevAuthenticationInfo" => Accumulate(req.part) \in Seq(0..MaxSection)
      <4>1. <<>> \in Seq(0..MaxSection) /\ devCertBuf \in Seq(0..MaxSection)
        BY DEF TypeOK
      <4>2. ASSUME req.part \in 0..MaxSection, NEW buf \in Seq(0..MaxSection)
            PROVE  Append(buf, req.part) \in Seq(0..MaxSection)
        BY <4>2
      <4>3. req.cmd = "RetDevAuthenticationInfo" => req.part \in 0..MaxSection
        BY <2>1 DEF PartOK
      <4>. QED
        BY <4>1, <4>2, <4>3 DEF Accumulate
    <3>2. \/ UNCHANGED <<devCertBuf, accepted>>
          \/ /\ req.cmd = "RetDevAuthenticationInfo"
             /\ devCertBuf' = Accumulate(req.part)
             /\ accepted' \in {accepted, devCertBuf'}
      BY <1>2 DEF Handle, StartIDPS, SetFIDTokenValues, EndIDPS, RetDevAuthenticationInfo,
         RetDevAuthenticationInfoV1, RetDevAuthenticationSignature, RetAccSampleRateCaps, podVars
    <3>. QED
      BY <3>1, <3>2 DEF TypeOK
  <2>4. opened' \in Nat
    BY <1>2 DEF TypeOK, Handle, StartIDPS, SetFIDTokenValues, EndIDPS, RetDevAuthenticationInfo,
       RetDevAuthenticationInfoV1, RetDevAuthenticationSignature, RetAccSampleRateCaps, podVars
  <2>. QED
    BY <1>1, <1>2, <2>2, <2>3, <2>4 DEF TypeOK, radioVars
<1>. QED
  BY <1>3, <1>4

LEMMA RadioTypes ==
    ASSUME TypeOK, NumberInv, RadioReceives
    PROVE  TypeOK' /\ NumberInv'
<1>. DEFINE r == Head(toRadio)
<1>1. /\ toRadio' \in Seq(ToRadio) /\ On(toRadio') \subseteq On(toRadio)
      /\ r \in ToRadio /\ r \in On(toRadio)
  BY OnTail DEF RadioReceives, TypeOK
<1>2. /\ UNCHANGED <<podVars, version, kind, attempts, early, losses>>
      /\ RadioGoesOn(r) \/ RadioIgnores(r) \/ RadioServes(r)
  BY DEF RadioReceives
<1>. HIDE DEF r
<1>3. attempts \in Nat /\ attempts <= MaxAttempts /\ waiting \in ToPod \cup {Nothing}
      /\ "none" \in AnyStatus /\ kind \in AnyStatus /\ Statuses \subseteq AnyStatus
      /\ Nothing.cmd = "none" /\ Nothing.trx = 0
  BY HandshakeAssumption DEF TypeOK, AnyStatus, Nothing
<1>4. SUFFICES /\ toPod' \in Seq(ToPod) /\ waiting' \in ToPod \cup {Nothing} /\ trx' \in Nat
               /\ radio' \in {"start", "identifying", "streaming", "stopped"}
               /\ NumberInv'
  BY <1>1, <1>2 DEF TypeOK, podVars
<1>6. CASE UNCHANGED <<toPod, trx>> /\ waiting' \in {waiting, Nothing}
           /\ radio' \in {radio, "start", "stopped", "streaming"}
  <2>1. NumberInv'
    BY <1>1, <1>2, <1>3, <1>6, FewerMessages
  <2>. QED
    BY <1>3, <1>6, <2>1 DEF TypeOK
<1>7. ASSUME NEW cmd \in Requests, NEW status \in AnyStatus, NEW part \in Nat,
             RequestStatus(cmd, status, part), cmd # "StartIDPS",
             radio' \in {radio, "stopped"},
             cmd = "SetFIDTokenValues" => part \in 1..MaxAttempts,
             cmd = "RetDevAuthenticationInfo" => part \in 0..MaxSection
      PROVE  /\ toPod' \in Seq(ToPod) /\ waiting' \in ToPod \cup {Nothing} /\ trx' \in Nat
             /\ radio' \in {"start", "identifying", "streaming", "stopped"}
             /\ NumberInv'
  <2>2. radio' \in {"start", "identifying", "streaming", "stopped"}
    BY <1>7 DEF TypeOK
  <2>. QED
    BY <1>1, <1>7, <2>2, NewRequest
<1>8. CASE RadioGoesOn(r)
  <2>1. /\ r.cmd \in Answers /\ r.trx = waiting.trx /\ waiting # Nothing
        /\ waiting.cmd = "StartIDPS" => attempts \in 1..MaxAttempts
    BY <1>1, <1>3, <1>8 DEF RadioGoesOn, NumberInv
  <2>2. CASE waiting.cmd = "StartIDPS" /\ RequestStatus("SetFIDTokenValues", kind, attempts)
             /\ UNCHANGED radio
    BY <1>3, <1>7, <2>1, <2>2 DEF Requests
  <2>3. CASE \E status \in Statuses : RequestStatus("EndIDPS", status, 0)
             /\ radio' = IF status = "NewLink" THEN "stopped" ELSE radio
    <3>1. PICK status \in Statuses : RequestStatus("EndIDPS", status, 0)
             /\ radio' = IF status = "NewLink" THEN "stopped" ELSE radio
      BY <2>3
    <3>. QED
      BY <1>3, <1>7, <2>1, <3>1 DEF Requests
  <2>4. CASE waiting.cmd = "RetDevAuthenticationInfo" /\ r.cmd = "ACK"
             /\ Request("RetDevAuthenticationInfo", r.part + 1) /\ UNCHANGED radio
    <3>1. r.part \in Nat /\ r.part < MaxSection
      BY <1>1, <2>1, <2>4 DEF NumberInv, ToRadio
    <3>2. r.part + 1 \in Nat /\ r.part + 1 \in 0..MaxSection
      BY <3>1, HandshakeAssumption
    <3>. QED
      BY <1>3, <1>7, <2>1, <2>4, <3>2 DEF Requests, Request
  <2>. QED
    BY <1>6, <1>8, <2>2, <2>3, <2>4 DEF RadioGoesOn
<1>9. CASE RadioIgnores(r)
  BY <1>6, <1>9 DEF RadioIgnores
<1>10. CASE RadioServes(r)
  <2>1. CASE r.cmd = "NewiPodTrackInfo" /\ radio' = "streaming" /\ UNCHANGED <<waiting, toPod, trx>>
    BY <1>6, <2>1
  <2>2. 0 \in 0..MaxSection
    BY HandshakeAssumption
  <2>3. CASE UNCHANGED radio /\ \E cmd \in {"RetDevAuthenticationInfo",
                "RetDevAuthenticationSignature", "RetAccSampleRateCaps"} : Request(cmd, 0)
    BY <1>3, <1>7, <2>2, <2>3 DEF Request, Requests
  <2>. QED
    BY <1>10, <2>1, <2>3 DEF RadioServes
<1>. QED
  BY <1>2, <1>8, <1>9, <1>10

LEMMA IdentifyTypes ==
    ASSUME TypeOK, NumberInv, Identify
    PROVE  TypeOK' /\ NumberInv'
<1>1. /\ attempts \in Nat /\ attempts' = attempts + 1 /\ attempts' \in 0..MaxAttempts
      /\ "StartIDPS" \in Requests /\ "none" \in AnyStatus /\ 0 \in Nat
      /\ RequestStatus("StartIDPS", "none", 0) /\ radio' = "identifying"
      /\ UNCHANGED <<podVars, toRadio, version, kind, early, losses>>
  BY HandshakeAssumption DEF Identify, TypeOK, Request, Requests, AnyStatus
<1>2. attempts' >= 1 /\ On(toRadio') \subseteq On(toRadio)
  BY <1>1
<1>3. toPod' \in Seq(ToPod) /\ waiting' \in ToPod \cup {Nothing} /\ trx' \in Nat /\ NumberInv'
  BY <1>1, <1>2, NewRequest
<1>4. TypeOK'
  BY <1>1, <1>3 DEF TypeOK, podVars
<1>. QED
  BY <1>3, <1>4

LEMMA ResendTypes ==
    ASSUME TypeOK, NumberInv, Resend, early' \in 0..MaxEarly
    PROVE  TypeOK' /\ NumberInv' /\ On(toPod') = On(toPod) \cup {waiting} /\ waiting \in ToPod
<1>1. /\ toPod \in Seq(ToPod) /\ waiting \in ToPod /\ toPod' = Append(toPod, waiting)
      /\ UNCHANGED <<podVars, toRadio, radioVars, losses>>
  BY DEF Resend, TypeOK
<1>2. toPod' \in Seq(ToPod) /\ On(toPod') = On(toPod) \cup {waiting}
  BY <1>1, OnAppend
<1>3. TypeOK'
  BY <1>1, <1>2 DEF TypeOK, podVars, radioVars
<1>4. waiting.trx \in 1..trx /\ PartOK(waiting)
  BY DEF Resend, NumberInv
<1>5. \A q \in On(toPod') : q.trx \in 1..trx /\ PartOK(q) /\ (q.trx = waiting.trx => q = waiting)
  BY <1>2, <1>4 DEF NumberInv
<1>6. NumberInv'
  BY <1>1, <1>4, <1>5 DEF NumberInv, PartOK, radioVars
<1>. QED
  BY <1>1, <1>2, <1>3, <1>6

LEMMA LoseTypes ==
    ASSUME TypeOK, NumberInv, Lose
    PROVE  TypeOK' /\ NumberInv'
<1>1. /\ toPod' \in Seq(ToPod) /\ On(toPod') \subseteq On(toPod)
      /\ toRadio' \in Seq(ToRadio) /\ On(toRadio') \subseteq On(toRadio)
  BY OnTail DEF Lose, TypeOK
<1>2. UNCHANGED <<podVars, radioVars, early>> /\ losses' \in 0..MaxLosses
  BY HandshakeAssumption DEF Lose, TypeOK
<1>3. TypeOK'
  BY <1>1, <1>2 DEF TypeOK, podVars, radioVars
<1>4. waiting' \in {waiting, Nothing} /\ UNCHANGED trx /\ attempts' \in Nat /\ attempts' >= attempts
  BY <1>2 DEF radioVars, TypeOK
<1>. QED
  BY <1>1, <1>3, <1>4, FewerMessages

LEMMA HandshakeTypeStep ==
    ASSUME TypeOK, NumberInv, [Next]_vars
    PROVE  TypeOK' /\ NumberInv'
<1>1. CASE PodHandles
  BY <1>1, PodTypes
<1>2. CASE Start \/ StartOver
  BY <1>2, IdentifyTypes DEF Start, StartOver
<1>3. CASE RadioReceives
  BY <1>3, RadioTypes
<1>4. CASE LateResend \/ EarlyResend
  <2>1. early' \in 0..MaxEarly
    <3>1. MaxEarly \in Nat /\ early \in 0..MaxEarly
      BY HandshakeAssumption DEF TypeOK
    <3>2. early' = early \/ (early < MaxEarly /\ early' = early + 1)
      BY <1>4 DEF LateResend, EarlyResend
    <3>. QED
      BY <3>1, <3>2
  <2>. QED
    BY <1>4, <2>1, ResendTypes DEF LateResend, EarlyResend
<1>5. CASE Lose
  BY <1>5, LoseTypes
<1>6. CASE UNCHANGED vars
  <2>1. TypeOK'
    BY <1>6 DEF TypeOK, vars, podVars, radioVars
  <2>2. /\ On(toPod') \subseteq On(toPod) /\ On(toRadio') \subseteq On(toRadio)
        /\ waiting' \in {waiting, Nothing} /\ UNCHANGED trx
        /\ attempts' \in Nat /\ attempts' >= attempts
    <3>1. attempts \in Nat
      BY HandshakeAssumption DEF TypeOK
    <3>. QED
      BY <1>6, <3>1 DEF vars, radioVars
  <2>. QED
    BY <2>1, <2>2, FewerMessages
<1>. QED
  BY <1>1, <1>2, <1>3, <1>4, <1>5, <1>6 DEF Next

\* Every variable has its type, however many requests are lost or repeated; above
\* all, the pod is never sent a section beyond the last of the certificate.
THEOREM HandshakeTypeCorrect == Spec => []TypeOK
<1>1. Init => TypeOK /\ NumberInv
  BY HandshakeInit
<1>2. TypeOK /\ NumberInv /\ [Next]_vars => (TypeOK /\ NumberInv)'
  BY HandshakeTypeStep
<1>. QED
  BY <1>1, <1>2, PTL DEF Spec

-----------------------------------------------------------------------------
(* The tokens of one attempt. *)

\* The attempts of the tokens that a queue still has,
Asked(s) == {m.part : m \in {n \in On(s) : n.cmd = "SetFIDTokenValues"}}
\* and of all tokens that the pod has or will get.
Parts == On(tokens) \cup Asked(toPod)

\* The radio waits for its StartIDPS to be answered, and the answer is on its way.
Answered ==
    waiting.cmd = "StartIDPS" /\ \E r \in On(toRadio) : r.cmd \in Answers /\ r.trx = waiting.trx

\* No tokens are under way behind the StartIDPS that the radio waits for: when it
\* is handled, those of earlier attempts are gone.
NoneBehind ==
    waiting.cmd = "StartIDPS" =>
        \A i, j \in 1..Len(toPod) :
            i < j /\ toPod[i].trx = waiting.trx => toPod[j].cmd # "SetFIDTokenValues"

TokenInv ==
    /\ \A p, q \in Parts : p = q
    /\ waiting.cmd = "SetFIDTokenValues" \/ Answered => Parts \subseteq {attempts}
    /\ waiting.cmd = "SetFIDTokenValues" => waiting.part = attempts
    /\ NoneBehind

\* Taking from a queue leaves nothing behind.
LEMMA NoneBehindStays ==
    ASSUME TypeOK, NoneBehind, toPod' = toPod \/ (toPod # <<>> /\ toPod' = Tail(toPod)),
           waiting' \in {waiting, Nothing}
    PROVE  NoneBehind'
<1>1. CASE waiting' = Nothing
  BY <1>1 DEF NoneBehind, Nothing
<1>2. CASE waiting' = waiting /\ toPod' = toPod
  BY <1>2 DEF NoneBehind
<1>3. CASE waiting' = waiting /\ toPod # <<>> /\ toPod' = Tail(toPod)
  <2>1. /\ Len(toPod) \in Nat /\ Len(toPod') = Len(toPod) - 1
        /\ \A i \in 1..Len(toPod) - 1 : toPod'[i] = toPod[i + 1]
    BY <1>3 DEF TypeOK
  <2>. SUFFICES ASSUME waiting.cmd = "StartIDPS", NEW i \in 1..Len(toPod'), NEW j \in 1..Len(toPod'),
                       i < j, toPod'[i].trx = waiting.trx
                PROVE  toPod'[j].cmd # "SetFIDTokenValues"
    BY <1>3 DEF NoneBehind
  <2>2. i + 1 \in 1..Len(toPod) /\ j + 1 \in 1..Len(toPod) /\ i + 1 < j + 1
        /\ toPod'[i] = toPod[i + 1] /\ toPod'[j] = toPod[j + 1]
    BY <2>1
  <2>. QED
    BY <2>2 DEF NoneBehind
<1>. QED
  BY <1>1, <1>2, <1>3

\* Nor does a new request that is not of tokens, or one the radio waits for with
\* a number of its own.
LEMMA NoneBehindAppend ==
    ASSUME TypeOK, NEW m \in ToPod, toPod' = Append(toPod, m),
           \/ waiting'.cmd # "StartIDPS"
           \/ /\ m.cmd = "StartIDPS"
              /\ \/ waiting' = waiting /\ NoneBehind
                 \/ \A q \in On(toPod) : q.trx # waiting'.trx
    PROVE  NoneBehind'
<1>1. /\ Len(toPod) \in Nat /\ Len(toPod') = Len(toPod) + 1
      /\ \A i \in 1..Len(toPod) : toPod'[i] = toPod[i] /\ toPod'[i] \in On(toPod)
      /\ toPod'[Len(toPod) + 1] = m
  BY DEF TypeOK, On
<1>. SUFFICES ASSUME waiting'.cmd = "StartIDPS", NEW i \in 1..Len(toPod'), NEW j \in 1..Len(toPod'),
                     i < j, toPod'[i].trx = waiting'.trx, j \in 1..Len(toPod)
              PROVE  toPod'[j].cmd # "SetFIDTokenValues"
  BY <1>1 DEF NoneBehind
<1>2. i \in 1..Len(toPod) /\ j \in 1..Len(toPod)
  BY <1>1
<1>. QED
  BY <1>1, <1>2 DEF NoneBehind

\* A step that adds no tokens and no answers.
LEMMA FewerTokens ==
    ASSUME TypeOK, TokenInv, Parts' \subseteq Parts, On(toRadio') \subseteq On(toRadio),
           waiting' \in {waiting, Nothing}, UNCHANGED attempts, NoneBehind'
    PROVE  TokenInv'
<1>1. Nothing.cmd = "none"
  BY DEF Nothing
<1>2. waiting'.cmd = "SetFIDTokenValues" \/ Answered' =>
          waiting.cmd = "SetFIDTokenValues" \/ Answered
  BY <1>1 DEF Answered
<1>. QED
  BY <1>1, <1>2 DEF TokenInv

LEMMA PodTokens ==
    ASSUME TypeOK, NumberInv, TokenInv, PodHandles
    PROVE  TokenInv'
<1>1. PICK req \in ToPod :
          /\ req = Head(toPod) /\ req \in On(toPod)
          /\ \A r \in On(toRadio') : r \in On(toRadio) \/ AnswersOf(req, r)
  BY PodHandlesReply
<1>2. /\ toPod \in Seq(ToPod) /\ toPod # <<>> /\ toPod' = Tail(toPod)
      /\ On(toPod') \subseteq On(toPod)
      /\ UNCHANGED <<waiting, attempts>> /\ Handle(req)
  BY <1>1, OnTail DEF PodHandles, TypeOK, radioVars
<1>3. \/ UNCHANGED tokens \/ tokens' = <<>>
      \/ req.cmd = "SetFIDTokenValues" /\ tokens' = Append(tokens, req.part)
  BY <1>2 DEF Handle, StartIDPS, SetFIDTokenValues, EndIDPS, RetDevAuthenticationInfo,
     RetDevAuthenticationInfoV1, RetDevAuthenticationSignature, RetAccSampleRateCaps, podVars
<1>4. req.cmd = "StartIDPS" => tokens' = <<>>
  BY <1>2 DEF Handle, StartIDPS, SetFIDTokenValues, EndIDPS, RetDevAuthenticationInfo,
     RetDevAuthenticationInfoV1, RetDevAuthenticationSignature, RetAccSampleRateCaps
<1>5. Parts' \subseteq Parts
  <2>1. req.cmd = "SetFIDTokenValues" => req.part \in Asked(toPod) /\ req.part \in 1..MaxAttempts
    BY <1>1 DEF Asked, NumberInv, PartOK
  <2>2. tokens \in Seq(1..MaxAttempts)
    BY DEF TypeOK
  <2>3. On(tokens') \subseteq On(tokens) \cup Asked(toPod)
    <3>1. req.cmd = "SetFIDTokenValues" => On(Append(tokens, req.part)) = On(tokens) \cup {req.part}
      <4>. DEFINE Attempt == 1..MaxAttempts
      <4>1. tokens \in Seq(Attempt) /\ (req.cmd = "SetFIDTokenValues" => req.part \in Attempt)
        BY <2>1, <2>2
      <4>. HIDE DEF Attempt
      <4>. QED
        BY <4>1, OnAppend
    <3>2. CASE UNCHANGED tokens
      BY <3>2
    <3>3. CASE tokens' = <<>>
      <4>1. On(tokens') = {}
        BY <3>3, OnFew
      <4>. QED
        BY <4>1
    <3>4. CASE req.cmd = "SetFIDTokenValues" /\ tokens' = Append(tokens, req.part)
      <4>1. On(tokens') = On(tokens) \cup {req.part}
        BY <3>1, <3>4
      <4>. QED
        BY <2>1, <3>4, <4>1
    <3>. QED
      BY <1>3, <3>2, <3>3, <3>4
  <2>4. Asked(toPod') \subseteq Asked(toPod)
    BY <1>2 DEF Asked
  <2>. QED
    BY <2>3, <2>4 DEF Parts
<1>6. NoneBehind'
  BY <1>2, NoneBehindStays DEF TokenInv
<1>7. ASSUME waiting.cmd = "SetFIDTokenValues" \/ Answered'
      PROVE  Parts' \subseteq {attempts}
  <2>1. CASE waiting.cmd = "SetFIDTokenValues" \/ Answered
    BY <1>5, <2>1 DEF TokenInv
  <2>2. CASE Answered' /\ ~Answered
    <3>1. PICK r \in On(toRadio') : r.cmd \in Answers /\ r.trx = waiting.trx /\ r \notin On(toRadio)
      BY <1>2, <2>2 DEF Answered
    <3>2. req = waiting /\ req.cmd = "StartIDPS"
      BY <1>1, <1>2, <2>2, <3>1 DEF AnswersOf, NumberInv, Answered
    <3>3. On(tokens') = {}
      BY <1>4, <3>2, OnFew
    <3>4. ASSUME NEW m \in On(toPod')
          PROVE  m.cmd # "SetFIDTokenValues"
      <4>1. /\ Len(toPod) \in Nat /\ Len(toPod) >= 1 /\ Len(toPod') = Len(toPod) - 1
            /\ toPod[1] = req
            /\ \A i \in 1..Len(toPod) - 1 : toPod'[i] = toPod[i + 1]
        BY <1>1, <1>2
      <4>2. PICK i \in 1..Len(toPod) - 1 : m = toPod[i + 1]
        BY <3>4, <4>1 DEF On
      <4>3. 1 \in 1..Len(toPod) /\ i + 1 \in 1..Len(toPod) /\ 1 < i + 1
        BY <4>1
      <4>. QED
        BY <3>2, <4>1, <4>2, <4>3 DEF TokenInv, NoneBehind
    <3>5. Asked(toPod') = {}
      BY <3>4 DEF Asked
    <3>. QED
      BY <3>3, <3>5 DEF Parts
  <2>. QED
    BY <1>7, <2>1, <2>2
<1>. QED
  BY <1>2, <1>5, <1>6, <1>7 DEF TokenInv

\* The requests that carry no tokens and do not start IDPS.
LEMMA OtherRequest ==
    ASSUME TypeOK, NumberInv, TokenInv, UNCHANGED <<tokens, attempts>>,
           NEW m \in ToPod, m.cmd \notin {"SetFIDTokenValues", "StartIDPS"},
           toPod' = Append(toPod, m), On(toPod') = On(toPod) \cup {m},
           waiting' \in {m, Nothing}
    PROVE  TokenInv'
<1>1. waiting'.cmd \notin {"SetFIDTokenValues", "StartIDPS"}
  BY DEF Nothing
<1>2. NoneBehind'
  BY <1>1, NoneBehindAppend
<1>3. Parts' = Parts
  BY DEF Parts, Asked
<1>. QED
  BY <1>1, <1>2, <1>3 DEF TokenInv, Answered

LEMMA RadioTokens ==
    ASSUME TypeOK, NumberInv, TokenInv, RadioReceives
    PROVE  TokenInv'
<1>. DEFINE r == Head(toRadio)
<1>1. On(toRadio') \subseteq On(toRadio) /\ r \in ToRadio /\ r \in On(toRadio)
  BY OnTail DEF RadioReceives, TypeOK
<1>2. /\ UNCHANGED <<tokens, attempts>>
      /\ RadioGoesOn(r) \/ RadioIgnores(r) \/ RadioServes(r)
  BY DEF RadioReceives, podVars
<1>. HIDE DEF r
<1>3. attempts \in 0..MaxAttempts /\ attempts \in Nat
      /\ "none" \in AnyStatus /\ kind \in AnyStatus /\ Statuses \subseteq AnyStatus
      /\ kind # "NewLink" /\ 0 \in 0..MaxSection /\ MaxSection \in Nat
  BY HandshakeAssumption DEF TypeOK, AnyStatus
<1>4. CASE UNCHANGED toPod /\ waiting' \in {waiting, Nothing}
  <2>1. NoneBehind'
    BY <1>4, NoneBehindStays DEF TokenInv
  <2>2. Parts' \subseteq Parts
    BY <1>2, <1>4 DEF Parts
  <2>. QED
    BY <1>1, <1>2, <1>4, <2>1, <2>2, FewerTokens
<1>5. ASSUME NEW cmd \in Requests \ {"SetFIDTokenValues", "StartIDPS"}, NEW status \in AnyStatus,
             NEW part \in Nat, RequestStatus(cmd, status, part),
             cmd = "RetDevAuthenticationInfo" => part \in 0..MaxSection
      PROVE  TokenInv'
  <2>1. PICK m \in ToPod : /\ m.cmd = cmd
                           /\ toPod' = Append(toPod, m) /\ On(toPod') = On(toPod) \cup {m}
                           /\ waiting' \in {m, Nothing}
    BY <1>1, <1>5, NewRequest
  <2>. QED
    BY <1>2, <1>5, <2>1, OtherRequest
<1>6. CASE RadioGoesOn(r)
  <2>1. /\ r.cmd \in Answers /\ r.trx = waiting.trx
        /\ waiting.cmd = "StartIDPS" => Answered /\ attempts \in 1..MaxAttempts
    BY <1>1, <1>3, <1>6 DEF RadioGoesOn, NumberInv, Answered
  <2>2. CASE waiting.cmd = "StartIDPS" /\ RequestStatus("SetFIDTokenValues", kind, attempts)
    <3>1. "SetFIDTokenValues" \in Requests
      BY DEF Requests
    <3>2. PICK m \in ToPod : /\ m.cmd = "SetFIDTokenValues" /\ m.part = attempts
                             /\ toPod' = Append(toPod, m) /\ On(toPod') = On(toPod) \cup {m}
                             /\ waiting' = m
      BY <1>1, <1>3, <2>1, <2>2, <3>1, NewRequest
    <3>3. Parts' = Parts \cup {attempts}
      BY <1>2, <3>2 DEF Parts, Asked
    <3>4. NoneBehind'
      BY <3>2, NoneBehindAppend
    <3>5. Parts \subseteq {attempts}
      BY <2>1, <2>2 DEF TokenInv
    <3>. QED
      BY <1>2, <3>2, <3>3, <3>4, <3>5 DEF TokenInv
  <2>3. CASE \E status \in Statuses : RequestStatus("EndIDPS", status, 0)
    BY <1>3, <1>5, <2>3 DEF Requests
  <2>4. CASE waiting.cmd = "RetDevAuthenticationInfo" /\ r.cmd = "ACK"
             /\ Request("RetDevAuthenticationInfo", r.part + 1)
    <3>1. r.part \in Nat /\ r.part < MaxSection
      BY <1>1, <2>1, <2>4 DEF NumberInv, ToRadio
    <3>2. r.part + 1 \in Nat /\ r.part + 1 \in 0..MaxSection
      BY <1>3, <3>1
    <3>. QED
      BY <1>3, <1>5, <2>4, <3>2 DEF Requests, Request
  <2>. QED
    BY <1>4, <1>6, <2>2, <2>3, <2>4 DEF RadioGoesOn
<1>7. CASE RadioIgnores(r)
  BY <1>4, <1>7 DEF RadioIgnores
<1>8. CASE RadioServes(r)
  BY <1>3, <1>4, <1>5, <1>8 DEF RadioServes, Request, Requests
<1>. QED
  BY <1>2, <1>6, <1>7, <1>8

LEMMA IdentifyTokens ==
    ASSUME TypeOK, NumberInv, TokenInv, Identify
    PROVE  TokenInv'
<1>1. /\ attempts \in Nat /\ attempts' = attempts + 1 /\ attempts' \in Nat /\ trx \in Nat
      /\ "StartIDPS" \in Requests /\ "none" \in AnyStatus /\ 0 \in Nat
      /\ RequestStatus("StartIDPS", "none", 0)
      /\ UNCHANGED <<tokens, toRadio>> /\ trx' = trx + 1
  BY HandshakeAssumption DEF Identify, TypeOK, Request, RequestStatus, Requests, AnyStatus, podVars
<1>2. attempts' >= 1 /\ On(toRadio') \subseteq On(toRadio)
  BY <1>1
<1>3. PICK m \in ToPod : /\ m.cmd = "StartIDPS" /\ m.trx = trx'
                         /\ toPod' = Append(toPod, m) /\ On(toPod') = On(toPod) \cup {m}
                         /\ waiting' = m
  BY <1>1, <1>2, NewRequest
<1>4. Parts' = Parts
  BY <1>1, <1>3 DEF Parts, Asked
<1>5. \A q \in On(toPod) : q.trx # waiting'.trx
  BY <1>1, <1>3 DEF NumberInv
<1>6. NoneBehind'
  BY <1>3, <1>5, NoneBehindAppend
<1>7. ~Answered'
  BY <1>1, <1>3 DEF Answered, NumberInv
<1>. QED
  BY <1>3, <1>4, <1>6, <1>7 DEF TokenInv

LEMMA ResendTokens ==
    ASSUME TypeOK, NumberInv, TokenInv, Resend, early' \in 0..MaxEarly
    PROVE  TokenInv'
<1>1. /\ waiting \in ToPod /\ toPod' = Append(toPod, waiting)
      /\ On(toPod') = On(toPod) \cup {waiting}
      /\ UNCHANGED <<tokens, toRadio, waiting, attempts>>
  BY ResendTypes DEF Resend, podVars, radioVars
<1>2. Answered' <=> Answered
  BY <1>1 DEF Answered
<1>3. CASE waiting.cmd = "SetFIDTokenValues"
  <2>1. Parts' = Parts \cup {attempts}
    BY <1>1, <1>3 DEF Parts, Asked, TokenInv
  <2>2. NoneBehind'
    BY <1>1, <1>3 DEF NoneBehind
  <2>. QED
    BY <1>1, <1>3, <2>1, <2>2 DEF TokenInv
<1>4. CASE waiting.cmd # "SetFIDTokenValues"
  <2>1. Parts' = Parts
    BY <1>1, <1>4 DEF Parts, Asked
  <2>2. waiting.cmd = "StartIDPS" => NoneBehind'
    BY <1>1, NoneBehindAppend DEF TokenInv
  <2>3. NoneBehind'
    BY <1>1, <2>2 DEF NoneBehind
  <2>. QED
    BY <1>1, <1>2, <1>4, <2>1, <2>3 DEF TokenInv
<1>. QED
  BY <1>3, <1>4

LEMMA LoseTokens ==
    ASSUME TypeOK, TokenInv, Lose
    PROVE  TokenInv'
<1>1. /\ On(toPod') \subseteq On(toPod) /\ On(toRadio') \subseteq On(toRadio)
      /\ toPod' = toPod \/ (toPod # <<>> /\ toPod' = Tail(toPod))
      /\ UNCHANGED <<tokens, waiting, attempts>>
  BY OnTail DEF Lose, TypeOK, podVars, radioVars
<1>2. NoneBehind'
  BY <1>1, NoneBehindStays DEF TokenInv
<1>3. Parts' \subseteq Parts
  BY <1>1 DEF Parts, Asked
<1>. QED
  BY <1>1, <1>2, <1>3, FewerTokens

LEMMA TokenStep ==
    ASSUME TypeOK, NumberInv, TokenInv, [Next]_vars
    PROVE  TokenInv'
<1>1. CASE PodHandles
  BY <1>1, PodTokens
<1>2. CASE Start \/ StartOver
  BY <1>2, IdentifyTokens DEF Start, StartOver
<1>3. CASE RadioReceives
  BY <1>3, RadioTokens
<1>4. CASE LateResend \/ EarlyResend
  <2>1. early' \in 0..MaxEarly
    BY HandshakeTypeStep DEF TypeOK
  <2>. QED
    BY <1>4, <2>1, ResendTokens DEF LateResend, EarlyResend
<1>5. CASE Lose
  BY <1>5, LoseTokens
<1>6. CASE UNCHANGED vars
  <2>1. UNCHANGED <<tokens, toPod, toRadio, waiting, attempts>>
    BY <1>6 DEF vars, podVars, radioVars
  <2>2. Parts' = Parts /\ (NoneBehind' <=> NoneBehind)
    BY <2>1 DEF Parts, Asked, NoneBehind
  <2>. QED
    BY <2>1, <2>2, FewerTokens DEF TokenInv
<1>. QED
  BY <1>1, <1>2, <1>3, <1>4, <1>5, <1>6 DEF Next

\* DevGeneral.tokens, emptied by StartIDPS only, never holds tokens of two attempts
\* to identify, however often a radio starts over, gives up waiting and asks again,
\* and whatever is lost on the way.
THEOREM TokensNeverMix == Spec => []TokensOfOneAttempt
<1>1. Init => TypeOK /\ NumberInv /\ TokenInv
  <2>. SUFFICES ASSUME Init PROVE TokenInv
    BY HandshakeInit
  <2>1. tokens = <<>> /\ toPod = <<>> /\ waiting.cmd = "none"
    BY DEF Init, Nothing
  <2>2. On(tokens) = {} /\ On(toPod) = {}
    BY <2>1, OnFew
  <2>3. Parts = {}
    BY <2>2 DEF Parts, Asked
  <2>. QED
    BY <2>1, <2>3 DEF TokenInv, NoneBehind
<1>2. TypeOK /\ NumberInv /\ TokenInv /\ [Next]_vars => (TypeOK /\ NumberInv /\ TokenInv)'
  BY HandshakeTypeStep, TokenStep
<1>3. TypeOK /\ TokenInv => TokensOfOneAttempt
  <2>. SUFFICES ASSUME TypeOK, TokenInv, NEW i \in DOMAIN tokens, NEW j \in DOMAIN tokens
                PROVE  tokens[i] = tokens[j]
    BY DEF TokensOfOneAttempt
  <2>1. DOMAIN tokens = 1..Len(tokens)
    BY DEF TypeOK
  <2>. QED
    BY <2>1 DEF TokenInv, Parts, On
<1>. QED
  BY <1>1, <1>2, <1>3, PTL DEF Spec
-----------------------------------------------------------------------------
(* What the steps have in common. *)

\* A section of the certificate, and whether the one the radio waits for is
\* acknowledged.
IsSection(m) == m.cmd = "RetDevAuthenticationInfo"
Pending == \E r \in On(toRadio) : r.cmd \in Answers /\ r.trx = waiting.trx
SectionAcked ==
    IsSection(waiting) /\ \E r \in On(toRadio) : r.cmd = "ACK" /\ r.trx = waiting.trx

\* The radio sends m, a request with a number of its own.
Asks(m) ==
    /\ UNCHANGED <<podVars, early, losses>>
    /\ toPod' = Append(toPod, m)
    /\ m.trx = trx + 1
    /\ waiting' \in {m, Nothing}
    /\ toRadio' = toRadio \/ (toRadio # <<>> /\ toRadio' = Tail(toRadio))
    /\ IsSection(m) =>
           /\ waiting' = m
           /\ m.part = 0 \/ (SectionAcked /\ m.part = waiting.part + 1)

\* A message is taken or lost, and nothing else happens but that the radio may
\* have all it waited for.
Fewer ==
    /\ UNCHANGED <<podVars, early>>
    /\ losses' >= losses
    /\ toPod' = toPod \/ (losses' > losses /\ toPod # <<>> /\ toPod' = Tail(toPod))
    /\ On(toRadio') \subseteq On(toRadio)
    /\ waiting' \in {waiting, Nothing}
    /\ losses' = losses /\ waiting' = waiting => (Pending' <=> Pending)

\* What the pod may answer to a request.
AnswersTo(cmd) ==
    CASE cmd = "StartIDPS" -> {"ACK"}
      [] cmd = "SetFIDTokenValues" -> {"RetFIDTokenValueACKs"}
      [] cmd = "EndIDPS" -> {"IDPSStatus"}
      [] cmd = "RetDevAuthenticationInfo" -> {"ACK", "AckDevAuthenticationInfo"}
      [] cmd = "RetDevAuthenticationSignature" -> {"AckDevAuthenticationStatus"}
      [] cmd = "RetAccSampleRateCaps" -> {"AccAck"}
      [] OTHER -> {}
IsAnswer(req, r) == r \in ToRadio /\ r.cmd \in AnswersTo(req.cmd) /\ r.trx = req.trx

\* What the pod sends that lets the radio ask again.
Driving == {"ACK", "RetFIDTokenValueACKs", "GetDevAuthenticationInfo",
            "GetDevAuthenticationSignatureV2", "GetAccSampleRateCaps"}

\* What becomes of the certificate when r answers req.
Keeps == UNCHANGED <<devCertBuf, accepted>>
TakesSection(req) ==
    /\ IsSection(req)
    /\ devCertBuf' = Accumulate(req.part)
    /\ UNCHANGED accepted \/ (accepted' = devCertBuf' /\ req.part >= MaxSection)
Collects(req, r) == (Keeps /\ (IsSection(req) => r.cmd # "ACK")) \/ TakesSection(req)

\* The pod takes req and sends no answer, one, or one and a request of its own.
Silent(req) == ~IsSection(req) /\ Keeps /\ UNCHANGED <<toRadio, opened>>
AnswersOnce(req) ==
    \E r \in ToRadio : /\ IsAnswer(req, r) /\ Collects(req, r)
                       /\ toRadio' = Append(toRadio, r)
                       /\ UNCHANGED opened
AnswersAndAsks(req) ==
    \E r, q \in ToRadio : /\ IsAnswer(req, r) /\ Collects(req, r)
                          /\ r.cmd \notin Driving /\ q.cmd \in PodRequests
                          /\ toRadio' = Append(Append(toRadio, r), q)
                          /\ opened' = IF q.cmd = "NewiPodTrackInfo" THEN opened + 1 ELSE opened

LEMMA OnHead ==
    ASSUME NEW S, NEW s \in Seq(S), s # <<>>
    PROVE  On(s) = On(Tail(s)) \cup {Head(s)}
<1>1. /\ Len(s) \in Nat /\ Len(s) >= 1 /\ Len(Tail(s)) = Len(s) - 1
      /\ \A i \in 1..Len(s) - 1 : Tail(s)[i] = s[i + 1]
      /\ Head(s) = s[1]
  OBVIOUS
<1>2. ASSUME NEW i \in 1..Len(s)
      PROVE  s[i] \in On(Tail(s)) \cup {Head(s)}
  <2>1. i # 1 => i - 1 \in 1..Len(s) - 1 /\ (i - 1) + 1 = i
    BY <1>1
  <2>2. i # 1 => s[i] \in On(Tail(s))
    BY <1>1, <2>1 DEF On
  <2>. QED
    BY <1>1, <2>2
<1>. QED
  BY <1>2, OnTail DEF On

\* What the radio does with a message from the pod.
LEMMA RadioShape ==
    ASSUME TypeOK, NumberInv, RadioReceives
    PROVE  Fewer \/ \E m \in ToPod : Asks(m)
<1>. DEFINE r == Head(toRadio)
<1>1. /\ toRadio \in Seq(ToRadio) /\ toRadio # <<>> /\ toRadio' = Tail(toRadio)
      /\ On(toRadio') \subseteq On(toRadio) /\ On(toRadio) = On(toRadio') \cup {r}
      /\ r \in ToRadio /\ r \in On(toRadio)
  BY OnTail, OnHead DEF RadioReceives, TypeOK
<1>2. /\ UNCHANGED <<podVars, version, kind, attempts, early, losses>>
      /\ RadioGoesOn(r) \/ RadioIgnores(r) \/ RadioServes(r)
  BY DEF RadioReceives
<1>. HIDE DEF r
<1>3. /\ attempts \in Nat /\ trx \in Nat /\ losses \in Nat
      /\ "none" \in AnyStatus /\ kind \in AnyStatus /\ Statuses \subseteq AnyStatus
      /\ kind # "NewLink" /\ "none" # "NewLink"
  BY HandshakeAssumption DEF TypeOK, AnyStatus
<1>4. CASE UNCHANGED toPod /\ waiting' \in {waiting, Nothing}
           /\ (waiting' = waiting => (Pending' <=> Pending))
  BY <1>1, <1>2, <1>3, <1>4 DEF Fewer
<1>5. ASSUME NEW cmd \in Requests, NEW status \in AnyStatus, NEW part \in Nat,
             RequestStatus(cmd, status, part),
             cmd = "RetDevAuthenticationInfo" =>
                /\ status = "none"
                /\ part = 0 \/ (SectionAcked /\ part = waiting.part + 1)
      PROVE  \E m \in ToPod : Asks(m)
  <2>. DEFINE m == [cmd |-> cmd, status |-> status, trx |-> trx + 1, part |-> part]
  <2>1. m \in ToPod /\ m.cmd = cmd /\ m.part = part /\ m.trx = trx + 1
    BY <1>3 DEF ToPod
  <2>2. toPod' = Append(toPod, m) /\ waiting' \in {m, Nothing} /\ (status # "NewLink" => waiting' = m)
    BY <1>5 DEF RequestStatus
  <2>. HIDE DEF m
  <2>3. IsSection(m) => /\ waiting' = m
                        /\ m.part = 0 \/ (SectionAcked /\ m.part = waiting.part + 1)
    BY <1>3, <1>5, <2>1, <2>2 DEF IsSection
  <2>4. Asks(m)
    BY <1>1, <1>2, <2>1, <2>2, <2>3 DEF Asks
  <2>. QED
    BY <2>1, <2>4
<1>6. CASE RadioGoesOn(r)
  <2>1. /\ r.cmd \in Answers /\ r.trx = waiting.trx /\ waiting # Nothing
        /\ waiting.cmd = "RetDevAuthenticationInfo" /\ r.cmd = "ACK" =>
              r.part = waiting.part /\ r.part \in Nat /\ SectionAcked
    BY <1>1, <1>6 DEF RadioGoesOn, NumberInv, Nothing, SectionAcked, IsSection, ToRadio
  <2>2. CASE RequestStatus("SetFIDTokenValues", kind, attempts)
    BY <1>3, <1>5, <2>2 DEF Requests
  <2>3. CASE \E status \in Statuses : RequestStatus("EndIDPS", status, 0)
    BY <1>3, <1>5, <2>3 DEF Requests
  <2>4. CASE waiting.cmd = "RetDevAuthenticationInfo" /\ r.cmd = "ACK"
             /\ Request("RetDevAuthenticationInfo", r.part + 1)
    <3>1. r.part + 1 \in Nat /\ r.part + 1 = waiting.part + 1
      BY <2>1, <2>4
    <3>. QED
      BY <1>3, <1>5, <2>1, <2>4, <3>1 DEF Requests, Request
  <2>5. CASE waiting' = Nothing /\ UNCHANGED toPod
    BY <1>4, <2>1, <2>5
  <2>. QED
    BY <1>6, <2>2, <2>3, <2>4, <2>5 DEF RadioGoesOn
<1>7. CASE RadioIgnores(r)
  <2>1. UNCHANGED <<waiting, toPod>> /\ r.trx # waiting.trx
    BY <1>7 DEF RadioIgnores
  <2>2. Pending' <=> Pending
    BY <1>1, <2>1 DEF Pending
  <2>. QED
    BY <1>4, <2>1, <2>2
<1>8. CASE RadioServes(r)
  <2>1. CASE r.cmd = "NewiPodTrackInfo" /\ UNCHANGED <<waiting, toPod>>
    <3>1. r.cmd \notin Answers
      BY <2>1 DEF Answers
    <3>2. Pending' <=> Pending
      BY <1>1, <2>1, <3>1 DEF Pending
    <3>. QED
      BY <1>4, <2>1, <3>2
  <2>2. CASE \E cmd \in {"RetDevAuthenticationInfo",
                "RetDevAuthenticationSignature", "RetAccSampleRateCaps"} : Request(cmd, 0)
    BY <1>3, <1>5, <2>2 DEF Request, Requests
  <2>. QED
    BY <1>8, <2>1, <2>2 DEF RadioServes
<1>. QED
  BY <1>2, <1>6, <1>7, <1>8

LEMMA StepShape ==
    ASSUME TypeOK, NumberInv, [Next]_vars
    PROVE  \/ PodHandles
           \/ Fewer
           \/ \E m \in ToPod : Asks(m)
           \/ LateResend \/ EarlyResend
<1>1. CASE Start \/ StartOver
  <2>. DEFINE m == [cmd |-> "StartIDPS", status |-> "none", trx |-> trx + 1, part |-> 0]
  <2>1. m \in ToPod /\ m.trx = trx + 1 /\ ~IsSection(m)
    BY DEF ToPod, TypeOK, AnyStatus, Requests, IsSection
  <2>2. Asks(m)
    BY <1>1, <2>1 DEF Start, StartOver, Identify, Request, RequestStatus, Asks
  <2>. QED
    BY <2>1, <2>2
<1>2. CASE Lose
  <2>1. /\ toPod' = toPod \/ (toPod # <<>> /\ toPod' = Tail(toPod))
        /\ On(toRadio') \subseteq On(toRadio)
        /\ UNCHANGED <<podVars, waiting, early>> /\ losses' = losses + 1
    BY <1>2, OnTail DEF Lose, TypeOK, radioVars
  <2>2. losses' > losses /\ losses' >= losses /\ losses' # losses
    BY <2>1, HandshakeAssumption DEF TypeOK
  <2>. QED
    BY <2>1, <2>2 DEF Fewer
<1>3. CASE UNCHANGED vars
  <2>1. UNCHANGED <<podVars, toPod, toRadio, waiting, early, losses>>
    BY <1>3 DEF vars, podVars, radioVars
  <2>2. losses' >= losses /\ losses' = losses
    BY <2>1, HandshakeAssumption DEF TypeOK
  <2>. QED
    BY <2>1, <2>2 DEF Fewer, Pending
<1>. QED
  BY <1>1, <1>2, <1>3, RadioShape DEF Next

-----------------------------------------------------------------------------
(* The sections of the certificate. *)

\* Sections follow each other from the first on; one may be there again.
GapFree(s) ==
    s # <<>> => /\ s[1] = 0
                /\ \A i \in 1..(Len(s) - 1) : s[i + 1] \in {s[i], s[i] + 1}

\* The pod may be given section k next,
Fits(k) == k > 0 => devCertBuf # <<>> /\ devCertBuf[Len(devCertBuf)] \in {k - 1, k}
\* and m before it.
Near(m, k) == IsSection(m) /\ k > 0 => m.part \in {k - 1, k}

\* The sections under way to the pod, and the one the radio would send again,
\* fit behind what the pod has whatever of them is lost.  Behind the request the
\* radio waits for there is only that request again, so once a section is
\* acknowledged no other is under way.
SectionInv ==
    /\ GapFree(devCertBuf) /\ GapFree(accepted)
    /\ accepted # <<>> => accepted[Len(accepted)] = MaxSection
    /\ \A i \in 1..Len(toPod) :
          IsSection(toPod[i]) => /\ Fits(toPod[i].part)
                                 /\ \A j \in 1..i : Near(toPod[j], toPod[i].part)
    /\ IsSection(waiting) => Fits(waiting.part) /\ \A m \in On(toPod) : Near(m, waiting.part)
    /\ \A i, j \in 1..Len(toPod) : i < j /\ toPod[i] = waiting => toPod[j] = waiting
    /\ SectionAcked => /\ devCertBuf # <<>> /\ devCertBuf[Len(devCertBuf)] = waiting.part
                       /\ \A m \in On(toPod) : m = waiting

\* Nothing was lost, and the radio waited for every answer.
Clean == early = 0 /\ losses = 0
Exact(s) == \A i \in 1..Len(s) : s[i] = i - 1

\* Then every section is sent and acknowledged once.
OnceInv ==
    Clean =>
       /\ Exact(devCertBuf) /\ Exact(accepted)
       /\ \A i \in 1..Len(toPod) :
             IsSection(toPod[i]) /\ toPod[i].part > 0 =>
                 /\ Len(devCertBuf) = toPod[i].part
                 /\ \A j \in 1..Len(toPod) : j < i => ~IsSection(toPod[j])
       /\ IsSection(waiting) =>
             /\ waiting \in On(toPod) \/ Pending
             /\ Pending => waiting \notin On(toPod)
             /\ \A i, j \in 1..Len(toPod) : toPod[i] = waiting /\ toPod[j] = waiting => i = j

LEMMA AppendFacts ==
    ASSUME NEW S, NEW s \in Seq(S), NEW m \in S
    PROVE  /\ Len(s) \in Nat /\ Len(Append(s, m)) = Len(s) + 1
           /\ Append(s, m) \in Seq(S) /\ Append(s, m) # <<>>
           /\ \A i \in 1..Len(s) : Append(s, m)[i] = s[i]
           /\ Append(s, m)[Len(s) + 1] = m
           /\ s # <<>> => Len(s) >= 1
<1>1. s # <<>> => Len(s) >= 1
  OBVIOUS
<1>2. Len(Append(s, m)) = Len(s) + 1 /\ Len(s) \in Nat /\ Len(<<>>) = 0
  OBVIOUS
<1>3. Append(s, m) # <<>>
  BY <1>2
<1>. QED
  BY <1>1, <1>3

\* A section that fits is appended without a gap, or starts afresh.
LEMMA SectionAppended ==
    ASSUME TypeOK, NEW p \in 0..MaxSection, GapFree(devCertBuf), Fits(p)
    PROVE  /\ GapFree(Accumulate(p)) /\ Accumulate(p) # <<>>
           /\ Accumulate(p)[Len(Accumulate(p))] = p
           /\ Exact(devCertBuf) /\ (p > 0 => Len(devCertBuf) = p) => Exact(Accumulate(p))
<1>. DEFINE Section == 0..MaxSection
            d == IF p = 0 THEN <<>> ELSE devCertBuf
            t == Append(d, p)
<1>1. devCertBuf \in Seq(Section) /\ p \in Section /\ p \in Nat
  BY HandshakeAssumption DEF TypeOK
<1>2. d \in Seq(Section)
  <2>1. <<>> \in Seq(Section)
    OBVIOUS
  <2>. QED
    BY <1>1, <2>1
<1>3. Accumulate(p) = t
  BY DEF Accumulate
<1>4. p = 0 => Len(d) = 0
  OBVIOUS
<1>5. p # 0 => d = devCertBuf /\ d # <<>> /\ d[Len(d)] \in {p - 1, p} /\ GapFree(d)
  BY <1>1 DEF Fits
<1>6. Exact(devCertBuf) /\ (p > 0 => Len(devCertBuf) = p) => Len(d) = p /\ (p # 0 => Exact(d))
  BY <1>1, <1>4, <1>5
<1>. HIDE DEF d, Section
<1>7. /\ Len(d) \in Nat /\ Len(t) = Len(d) + 1 /\ t \in Seq(Section) /\ t # <<>>
      /\ \A i \in 1..Len(d) : t[i] = d[i]
      /\ t[Len(d) + 1] = p
      /\ d # <<>> => Len(d) >= 1
  BY <1>1, <1>2, AppendFacts
<1>. HIDE DEF t
<1>8. t[Len(t)] = p
  BY <1>7
<1>9. GapFree(t)
  <2>1. CASE p = 0
    <3>1. Len(t) = 1 /\ t[1] = 0
      BY <1>4, <1>7, <2>1
    <3>. QED
      BY <3>1 DEF GapFree
  <2>2. CASE p # 0
    <3>1. d[1] = 0 /\ \A i \in 1..(Len(d) - 1) : d[i + 1] \in {d[i], d[i] + 1}
      BY <1>5, <2>2 DEF GapFree
    <3>2. t[1] = 0
      BY <1>5, <1>7, <2>2, <3>1
    <3>3. ASSUME NEW i \in 1..(Len(t) - 1)
          PROVE  t[i + 1] \in {t[i], t[i] + 1}
      <4>1. CASE i = Len(d)
        <5>1. t[i + 1] = p /\ t[i] = d[Len(d)]
          BY <1>7, <3>3, <4>1
        <5>2. p - 1 + 1 = p
          BY <1>1
        <5>. QED
          BY <1>5, <2>2, <5>1, <5>2
      <4>2. CASE i # Len(d)
        <5>1. i \in 1..(Len(d) - 1) /\ i \in 1..Len(d) /\ i + 1 \in 1..Len(d)
          BY <1>7, <3>3, <4>2
        <5>. QED
          BY <1>7, <3>1, <5>1
      <4>. QED
        BY <4>1, <4>2
    <3>. QED
      BY <3>2, <3>3 DEF GapFree
  <2>. QED
    BY <2>1, <2>2
<1>10. ASSUME Exact(devCertBuf), p > 0 => Len(devCertBuf) = p PROVE Exact(t)
  <2>1. Len(d) = p /\ (p # 0 => Exact(d))
    BY <1>6, <1>10
  <2>2. ASSUME NEW i \in 1..Len(t) PROVE t[i] = i - 1
    <3>1. CASE i = Len(d) + 1
      BY <1>1, <1>7, <2>1, <3>1
    <3>2. CASE i # Len(d) + 1
      <4>1. i \in 1..Len(d) /\ p # 0
        BY <1>7, <2>1, <2>2, <3>2
      <4>. QED
        BY <1>7, <2>1, <4>1 DEF Exact
    <3>. QED
      BY <3>1, <3>2
  <2>. QED
    BY <2>2 DEF Exact
<1>. QED
  BY <1>3, <1>7, <1>8, <1>9, <1>10

\* What the pod does with a command.
LEMMA PodAnswers ==
    ASSUME TypeOK, NumberInv, PodHandles
    PROVE  \E req \in ToPod :
              /\ toPod # <<>> /\ req = Head(toPod) /\ toPod' = Tail(toPod) /\ req \in On(toPod)
              /\ UNCHANGED <<waiting, attempts, early, losses>>
              /\ Silent(req) \/ AnswersOnce(req) \/ AnswersAndAsks(req)
<1>. DEFINE req == Head(toPod)
<1>1. /\ toPod \in Seq(ToPod) /\ toRadio \in Seq(ToRadio) /\ toPod # <<>> /\ toPod' = Tail(toPod)
      /\ Handle(req) /\ UNCHANGED <<waiting, attempts, early, losses>>
  BY DEF TypeOK, PodHandles, radioVars
<1>2. req \in ToPod /\ req \in On(toPod)
  BY <1>1, OnTail
<1>. HIDE DEF req
<1>3. "none" \in AnyStatus /\ "OK" \in AnyStatus /\ "TimeLimitNotExceeded" \in AnyStatus
      /\ "WillNotAccept" \in AnyStatus
  BY DEF AnyStatus
<1>4. ASSUME NEW cmd \in AnswersTo(req.cmd), NEW status \in AnyStatus
      PROVE  /\ RespondStatus(req, cmd, status) \in ToRadio
             /\ IsAnswer(req, RespondStatus(req, cmd, status))
             /\ RespondStatus(req, cmd, status).cmd = cmd
  <2>1. cmd \in Answers
    BY <1>4 DEF AnswersTo, Answers
  <2>. QED
    BY <1>2, <2>1 DEF RespondStatus, ToPod, ToRadio, IsAnswer
<1>5. ASSUME NEW cmd \in AnswersTo(req.cmd)
      PROVE  /\ Respond(req, cmd) \in ToRadio /\ IsAnswer(req, Respond(req, cmd))
             /\ Respond(req, cmd).cmd = cmd
  BY <1>3, <1>4 DEF Respond
<1>6. ASSUME NEW cmd \in PodRequests
      PROVE  Send(cmd) \in ToRadio /\ Send(cmd).cmd = cmd
  BY <1>3 DEF Send, Nothing, ToRadio
<1>7. ASSUME NEW r \in ToRadio, Reply(<<r>>)
      PROVE  toRadio' = Append(toRadio, r)
  BY <1>1, <1>7 DEF Reply
<1>8. ASSUME NEW r \in ToRadio, NEW q \in ToRadio, Reply(<<r, q>>)
      PROVE  toRadio' = Append(Append(toRadio, r), q)
  BY <1>1, <1>8 DEF Reply
<1>9. CASE StartIDPS(req)
  <2>1. "ACK" \in AnswersTo(req.cmd) /\ ~IsSection(req) /\ Keeps /\ UNCHANGED opened
        /\ Reply(<<Respond(req, "ACK")>>)
    BY <1>9 DEF StartIDPS, AnswersTo, IsSection, Keeps
  <2>2. AnswersOnce(req)
    BY <1>5, <1>7, <2>1 DEF AnswersOnce, Collects
  <2>. QED
    BY <1>1, <1>2, <2>2 DEF req
<1>10. CASE SetFIDTokenValues(req)
  <2>1. /\ "RetFIDTokenValueACKs" \in AnswersTo(req.cmd) /\ ~IsSection(req)
        /\ Keeps /\ UNCHANGED opened
        /\ Reply(<<Respond(req, "RetFIDTokenValueACKs")>>) \/ Reply(<<>>)
    BY <1>10 DEF SetFIDTokenValues, AnswersTo, IsSection, Keeps
  <2>2. CASE Reply(<<Respond(req, "RetFIDTokenValueACKs")>>)
    <3>1. AnswersOnce(req)
      BY <1>5, <1>7, <2>1, <2>2 DEF AnswersOnce, Collects
    <3>. QED
      BY <1>1, <1>2, <3>1 DEF req
  <2>3. CASE Reply(<<>>)
    <3>1. UNCHANGED toRadio
      BY <1>1, <2>3 DEF Reply
    <3>2. Silent(req)
      BY <2>1, <3>1 DEF Silent
    <3>. QED
      BY <1>1, <1>2, <3>2 DEF req
  <2>. QED
    BY <2>1, <2>2, <2>3
<1>11. CASE EndIDPS(req)
  <2>1. "IDPSStatus" \in AnswersTo(req.cmd) /\ ~IsSection(req) /\ Keeps /\ UNCHANGED opened
    BY <1>11 DEF EndIDPS, AnswersTo, IsSection, Keeps, podVars
  <2>2. \/ Reply(<<RespondStatus(req, "IDPSStatus", "OK"), Send("GetDevAuthenticationInfo")>>)
        \/ \E st \in {"OK", "TimeLimitNotExceeded", "WillNotAccept"} :
              Reply(<<RespondStatus(req, "IDPSStatus", st)>>)
        \/ UNCHANGED toRadio
    BY <1>11 DEF EndIDPS
  <2>3. CASE Reply(<<RespondStatus(req, "IDPSStatus", "OK"), Send("GetDevAuthenticationInfo")>>)
    <3>1. /\ "GetDevAuthenticationInfo" \in PodRequests
          /\ "GetDevAuthenticationInfo" # "NewiPodTrackInfo" /\ "IDPSStatus" \notin Driving
      BY DEF PodRequests, Driving
    <3>2. AnswersAndAsks(req)
      BY <1>3, <1>4, <1>6, <1>8, <2>1, <2>3, <3>1 DEF AnswersAndAsks, Collects
    <3>. QED
      BY <1>1, <1>2, <3>2 DEF req
  <2>4. CASE \E st \in {"OK", "TimeLimitNotExceeded", "WillNotAccept"} :
              Reply(<<RespondStatus(req, "IDPSStatus", st)>>)
    <3>1. AnswersOnce(req)
      BY <1>3, <1>4, <1>7, <2>1, <2>4 DEF AnswersOnce, Collects
    <3>. QED
      BY <1>1, <1>2, <3>1 DEF req
  <2>5. CASE UNCHANGED toRadio
    <3>1. Silent(req)
      BY <2>1, <2>5 DEF Silent
    <3>. QED
      BY <1>1, <1>2, <3>1 DEF req
  <2>. QED
    BY <2>2, <2>3, <2>4, <2>5
<1>12. CASE RetDevAuthenticationInfo(req) \/ RetDevAuthenticationInfoV1(req)
  <2>1. /\ "ACK" \in AnswersTo(req.cmd) /\ "AckDevAuthenticationInfo" \in AnswersTo(req.cmd)
        /\ IsSection(req) /\ UNCHANGED opened
        /\ "AckDevAuthenticationInfo" \notin Driving /\ "AckDevAuthenticationInfo" # "ACK"
        /\ "GetDevAuthenticationSignatureV2" \in PodRequests
        /\ "GetDevAuthenticationSignatureV2" # "NewiPodTrackInfo"
    BY <1>12 DEF RetDevAuthenticationInfo, RetDevAuthenticationInfoV1, AnswersTo, IsSection,
                 podVars, Driving, PodRequests
  <2>2. req.part \in Nat /\ MaxSection \in Nat
    BY <1>2, HandshakeAssumption DEF ToPod
  <2>3. \/ Reply(<<Respond(req, "ACK")>>) /\ TakesSection(req)
        \/ /\ Reply(<<Respond(req, "AckDevAuthenticationInfo"), Send("GetDevAuthenticationSignatureV2")>>)
           /\ TakesSection(req)
        \/ Reply(<<Respond(req, "AckDevAuthenticationInfo")>>) /\ Keeps
    BY <1>12, <2>1, <2>2 DEF RetDevAuthenticationInfo, RetDevAuthenticationInfoV1, podVars, TakesSection, Keeps
  <2>4. CASE Reply(<<Respond(req, "ACK")>>) /\ TakesSection(req)
    <3>1. AnswersOnce(req)
      BY <1>5, <1>7, <2>1, <2>4 DEF AnswersOnce, Collects
    <3>. QED
      BY <1>1, <1>2, <3>1 DEF req
  <2>5. CASE /\ Reply(<<Respond(req, "AckDevAuthenticationInfo"), Send("GetDevAuthenticationSignatureV2")>>)
             /\ TakesSection(req)
    <3>1. AnswersAndAsks(req)
      BY <1>5, <1>6, <1>8, <2>1, <2>5 DEF AnswersAndAsks, Collects
    <3>. QED
      BY <1>1, <1>2, <3>1 DEF req
  <2>6. CASE Reply(<<Respond(req, "AckDevAuthenticationInfo")>>) /\ Keeps
    <3>1. AnswersOnce(req)
      BY <1>5, <1>7, <2>1, <2>6 DEF AnswersOnce, Collects
    <3>. QED
      BY <1>1, <1>2, <3>1 DEF req
  <2>. QED
    BY <2>3, <2>4, <2>5, <2>6
<1>13. CASE RetDevAuthenticationSignature(req)
  <2>1. /\ "AckDevAuthenticationStatus" \in AnswersTo(req.cmd) /\ ~IsSection(req)
        /\ Keeps /\ UNCHANGED opened
        /\ "AckDevAuthenticationStatus" \notin Driving
        /\ "GetAccSampleRateCaps" \in PodRequests /\ "GetAccSampleRateCaps" # "NewiPodTrackInfo"
        /\ Reply(<<Respond(req, "AckDevAuthenticationStatus"), Send("GetAccSampleRateCaps")>>)
    BY <1>13 DEF RetDevAuthenticationSignature, AnswersTo, IsSection, Keeps, podVars, Driving, PodRequests
  <2>2. AnswersAndAsks(req)
    BY <1>5, <1>6, <1>8, <2>1 DEF AnswersAndAsks, Collects
  <2>. QED
    BY <1>1, <1>2, <2>2 DEF req
<1>14. CASE RetAccSampleRateCaps(req)
  <2>1. /\ "AccAck" \in AnswersTo(req.cmd) /\ ~IsSection(req)
        /\ Keeps /\ opened' = opened + 1
        /\ "AccAck" \notin Driving
        /\ "NewiPodTrackInfo" \in PodRequests
        /\ Reply(<<Respond(req, "AccAck"), Send("NewiPodTrackInfo")>>)
    BY <1>14 DEF RetAccSampleRateCaps, AnswersTo, IsSection, Keeps, podVars, Driving, PodRequests
  <2>2. AnswersAndAsks(req)
    BY <1>5, <1>6, <1>8, <2>1 DEF AnswersAndAsks, Collects
  <2>. QED
    BY <1>1, <1>2, <2>2 DEF req
<1>. QED
  BY <1>1, <1>9, <1>10, <1>11, <1>12, <1>13, <1>14 DEF Handle

LEMMA AnswersToAnswers == \A cmd : AnswersTo(cmd) \subseteq Answers
  BY DEF AnswersTo, Answers

\* What that does to the certificate and to what is under way.
LEMMA PodShape ==
    ASSUME TypeOK, NumberInv, PodHandles
    PROVE  \E req \in ToPod :
              /\ toPod # <<>> /\ req = Head(toPod) /\ toPod' = Tail(toPod) /\ req \in On(toPod)
              /\ UNCHANGED <<waiting, early, losses>>
              /\ On(toRadio) \subseteq On(toRadio')
              /\ \A r \in On(toRadio') :
                    r \in On(toRadio) \/ (r.cmd \in Answers => IsAnswer(req, r))
              /\ IsSection(req) => \E r \in On(toRadio') : IsAnswer(req, r)
              /\ \/ /\ Keeps
                    /\ IsSection(req) =>
                          \A r \in On(toRadio') : r \in On(toRadio) \/ r.cmd # "ACK"
                 \/ TakesSection(req)
<1>1. PICK req \in ToPod :
          /\ toPod # <<>> /\ req = Head(toPod) /\ toPod' = Tail(toPod) /\ req \in On(toPod)
          /\ UNCHANGED <<waiting, attempts, early, losses>>
          /\ Silent(req) \/ AnswersOnce(req) \/ AnswersAndAsks(req)
  BY PodAnswers
<1>2. toRadio \in Seq(ToRadio)
  BY DEF TypeOK
<1>3. CASE Silent(req)
  BY <1>1, <1>3 DEF Silent
<1>4. CASE AnswersOnce(req)
  <2>1. PICK r \in ToRadio : IsAnswer(req, r) /\ Collects(req, r) /\ toRadio' = Append(toRadio, r)
    BY <1>4 DEF AnswersOnce
  <2>2. On(toRadio') = On(toRadio) \cup {r}
    BY <1>2, <2>1, OnAppend
  <2>. QED
    BY <1>1, <2>1, <2>2 DEF Collects
<1>5. CASE AnswersAndAsks(req)
  <2>1. PICK r \in ToRadio, q \in ToRadio :
            /\ IsAnswer(req, r) /\ Collects(req, r) /\ q.cmd \in PodRequests
            /\ toRadio' = Append(Append(toRadio, r), q)
    BY <1>5 DEF AnswersAndAsks
  <2>2. On(toRadio') = On(toRadio) \cup {r} \cup {q}
    <3>. DEFINE t == Append(toRadio, r)
    <3>1. t \in Seq(ToRadio) /\ On(t) = On(toRadio) \cup {r}
      BY <1>2, OnAppend
    <3>. HIDE DEF t
    <3>2. On(Append(t, q)) = On(t) \cup {q}
      BY <3>1, OnAppend
    <3>. QED
      BY <2>1, <3>1, <3>2 DEF t
  <2>3. q.cmd \notin Answers /\ q.cmd # "ACK"
    BY <2>1 DEF PodRequests, Answers
  <2>. QED
    BY <1>1, <2>1, <2>2, <2>3 DEF Collects
<1>. QED
  BY <1>1, <1>3, <1>4, <1>5

LEMMA TailFacts ==
    ASSUME NEW S, NEW s \in Seq(S), s # <<>>
    PROVE  /\ Len(s) \in Nat /\ Len(s) >= 1 /\ Len(Tail(s)) = Len(s) - 1
           /\ \A i \in 1..Len(Tail(s)) : i + 1 \in 1..Len(s) /\ Tail(s)[i] = s[i + 1]
           /\ Head(s) = s[1] /\ 1 \in 1..Len(s)
<1>1. Len(s) \in Nat /\ Len(s) >= 1 /\ Len(Tail(s)) = Len(s) - 1
      /\ \A i \in 1..Len(s) - 1 : Tail(s)[i] = s[i + 1]
      /\ Head(s) = s[1]
  OBVIOUS
<1>. QED
  BY <1>1

\* The parts of SectionInv that are about what is under way.
QueueFits ==
    \A i \in 1..Len(toPod) :
        IsSection(toPod[i]) => /\ Fits(toPod[i].part)
                               /\ \A j \in 1..i : Near(toPod[j], toPod[i].part)
WaitingFits ==
    IsSection(waiting) => Fits(waiting.part) /\ \A m \in On(toPod) : Near(m, waiting.part)
WaitingLast == \A i, j \in 1..Len(toPod) : i < j /\ toPod[i] = waiting => toPod[j] = waiting
AckedLast ==
    SectionAcked => /\ devCertBuf # <<>> /\ devCertBuf[Len(devCertBuf)] = waiting.part
                    /\ \A m \in On(toPod) : m = waiting

\* The first message leaves the queue.
LEMMA HeadLeaves ==
    ASSUME TypeOK, SectionInv, toPod # <<>>, toPod' = Tail(toPod), UNCHANGED waiting
    PROVE  /\ On(toPod') \subseteq On(toPod)
           /\ WaitingLast'
           /\ Head(toPod) = waiting => \A m \in On(toPod') : m = waiting
           /\ IsSection(Head(toPod)) =>
                 /\ \A i \in 1..Len(toPod') :
                       IsSection(toPod'[i]) => Near(Head(toPod), toPod'[i].part)
                 /\ IsSection(waiting) => Near(Head(toPod), waiting.part)
           /\ \A i \in 1..Len(toPod') : \A j \in 1..i :
                 IsSection(toPod'[i]) => Near(toPod'[j], toPod'[i].part) /\ Fits(toPod'[i].part)
<1>1. /\ Len(toPod) \in Nat /\ Len(toPod) >= 1 /\ Len(toPod') = Len(toPod) - 1
      /\ \A i \in 1..Len(toPod') : i + 1 \in 1..Len(toPod) /\ toPod'[i] = toPod[i + 1]
      /\ Head(toPod) = toPod[1] /\ 1 \in 1..Len(toPod)
      /\ On(toPod') \subseteq On(toPod) /\ Head(toPod) \in On(toPod)
  BY TailFacts, OnTail DEF TypeOK
<1>2. WaitingLast'
  <2>. SUFFICES ASSUME NEW i \in 1..Len(toPod'), NEW j \in 1..Len(toPod'),
                       i < j, toPod'[i] = waiting
                PROVE  toPod'[j] = waiting
    BY DEF WaitingLast
  <2>1. i + 1 < j + 1
    BY <1>1
  <2>. QED
    BY <1>1, <2>1 DEF SectionInv
<1>3. ASSUME Head(toPod) = waiting, NEW m \in On(toPod')
      PROVE  m = waiting
  <2>1. PICK i \in 1..Len(toPod') : m = toPod'[i]
    BY <1>3 DEF On
  <2>2. 1 < i + 1
    BY <1>1
  <2>. QED
    BY <1>1, <1>3, <2>1, <2>2 DEF SectionInv
<1>4. ASSUME NEW i \in 1..Len(toPod'), IsSection(toPod'[i])
      PROVE  Near(Head(toPod), toPod'[i].part) /\ Fits(toPod'[i].part)
  <2>1. 1 \in 1..(i + 1)
    BY <1>1
  <2>. QED
    BY <1>1, <1>4, <2>1 DEF SectionInv
<1>5. ASSUME NEW i \in 1..Len(toPod'), NEW j \in 1..i, IsSection(toPod'[i])
      PROVE  Near(toPod'[j], toPod'[i].part)
  <2>1. j + 1 \in 1..(i + 1) /\ j \in 1..Len(toPod')
    BY <1>1
  <2>. QED
    BY <1>1, <1>5, <2>1 DEF SectionInv
<1>6. IsSection(waiting) => Near(Head(toPod), waiting.part)
  BY <1>1 DEF SectionInv
<1>. QED
  BY <1>1, <1>2, <1>3, <1>4, <1>5, <1>6

LEMMA PodSections ==
    ASSUME TypeOK, NumberInv, SectionInv, PodHandles
    PROVE  SectionInv'
<1>1. PICK req \in ToPod :
          /\ toPod # <<>> /\ req = Head(toPod) /\ toPod' = Tail(toPod) /\ req \in On(toPod)
          /\ UNCHANGED <<waiting, early, losses>>
          /\ \A r \in On(toRadio') :
                r \in On(toRadio) \/ (r.cmd \in Answers => IsAnswer(req, r))
          /\ \/ /\ Keeps
                /\ IsSection(req) =>
                      \A r \in On(toRadio') : r \in On(toRadio) \/ r.cmd # "ACK"
             \/ TakesSection(req)
  BY PodShape
<1>2. /\ On(toPod') \subseteq On(toPod)
      /\ WaitingLast'
      /\ req = waiting => \A m \in On(toPod') : m = waiting
      /\ IsSection(req) =>
            /\ \A i \in 1..Len(toPod') : IsSection(toPod'[i]) => Near(req, toPod'[i].part)
            /\ IsSection(waiting) => Near(req, waiting.part)
      /\ \A i \in 1..Len(toPod') : \A j \in 1..i :
            IsSection(toPod'[i]) => Near(toPod'[j], toPod'[i].part) /\ Fits(toPod'[i].part)
  BY <1>1, HeadLeaves
<1>. DEFINE Fresh == \E r \in On(toRadio') : r \notin On(toRadio) /\ r.cmd = "ACK"
<1>3. SectionAcked' => SectionAcked \/ (req = waiting /\ Fresh)
  <2>. SUFFICES ASSUME IsSection(waiting), NEW r \in On(toRadio'), r.cmd = "ACK", r.trx = waiting.trx
                PROVE  SectionAcked \/ (req = waiting /\ Fresh)
    BY <1>1 DEF SectionAcked, IsSection
  <2>1. CASE r \in On(toRadio)
    BY <2>1 DEF SectionAcked
  <2>2. CASE r \notin On(toRadio)
    <3>1. req = waiting
      BY <1>1, <2>2 DEF Answers, IsAnswer, NumberInv
    <3>. QED
      BY <1>1, <2>2, <3>1
  <2>. QED
    BY <2>1, <2>2
<1>4. CASE Keeps /\ (IsSection(req) => ~Fresh)
  <2>1. GapFree(devCertBuf') /\ GapFree(accepted')
        /\ (accepted' # <<>> => accepted'[Len(accepted')] = MaxSection)
    BY <1>4 DEF Keeps, SectionInv
  <2>2. QueueFits'
    BY <1>2, <1>4 DEF QueueFits, Keeps, Fits, Near, IsSection
  <2>3. WaitingFits'
    BY <1>1, <1>2, <1>4 DEF WaitingFits, Keeps, Fits, Near, IsSection, SectionInv
  <2>4. SectionAcked' => SectionAcked
    BY <1>1, <1>3, <1>4 DEF SectionAcked
  <2>5. AckedLast'
    BY <1>1, <1>2, <1>4, <2>4 DEF AckedLast, SectionInv, Keeps
  <2>. QED
    BY <1>2, <2>1, <2>2, <2>3, <2>5
       DEF SectionInv, QueueFits, WaitingFits, WaitingLast, AckedLast, GapFree
<1>5. CASE TakesSection(req)
  <2>. DEFINE d == Accumulate(req.part)
  <2>1. IsSection(req) /\ req.part \in 0..MaxSection /\ devCertBuf' = d
        /\ (UNCHANGED accepted \/ (accepted' = d /\ req.part >= MaxSection))
    BY <1>1, <1>5 DEF TakesSection, NumberInv, PartOK, IsSection
  <2>2. Fits(req.part)
    <3>1. 1 \in 1..Len(toPod) /\ req = toPod[1]
      BY <1>1, TailFacts DEF TypeOK
    <3>. QED
      BY <2>1, <3>1 DEF SectionInv
  <2>3. GapFree(d) /\ d # <<>> /\ d[Len(d)] = req.part
    BY <2>1, <2>2, SectionAppended DEF SectionInv
  <2>. HIDE DEF d
  <2>4. req.part >= MaxSection => req.part = MaxSection
    BY <2>1, HandshakeAssumption
  <2>5. GapFree(devCertBuf') /\ GapFree(accepted')
        /\ (accepted' # <<>> => accepted'[Len(accepted')] = MaxSection)
    BY <2>1, <2>3, <2>4 DEF SectionInv
  <2>6. \A k : IsSection(req) /\ Near(req, k) => (k > 0 => devCertBuf' # <<>> /\ devCertBuf'[Len(devCertBuf')] \in {k - 1, k})
    BY <2>1, <2>3 DEF Near
  <2>7. QueueFits'
    BY <1>2, <2>1, <2>6 DEF QueueFits, Fits, Near, IsSection
  <2>8. WaitingFits'
    BY <1>1, <1>2, <2>1, <2>6 DEF WaitingFits, Fits, Near, IsSection, SectionInv
  <2>9. AckedLast'
    <3>. SUFFICES ASSUME SectionAcked'
                  PROVE  /\ devCertBuf' # <<>> /\ devCertBuf'[Len(devCertBuf')] = waiting'.part
                         /\ \A m \in On(toPod') : m = waiting'
      BY DEF AckedLast
    <3>1. req = waiting
      BY <1>1, <1>3 DEF SectionInv
    <3>. QED
      BY <1>1, <1>2, <2>1, <2>3, <3>1
  <2>. QED
    BY <1>2, <2>5, <2>7, <2>8, <2>9
       DEF SectionInv, QueueFits, WaitingFits, WaitingLast, AckedLast, GapFree
<1>. QED
  BY <1>1, <1>4, <1>5

LEMMA FewerSections ==
    ASSUME TypeOK, SectionInv, Fewer
    PROVE  SectionInv'
<1>1. /\ UNCHANGED <<devCertBuf, accepted>> /\ waiting' \in {waiting, Nothing}
      /\ On(toRadio') \subseteq On(toRadio)
      /\ toPod' = toPod \/ (toPod # <<>> /\ toPod' = Tail(toPod))
      /\ toPod \in Seq(ToPod)
  BY DEF Fewer, podVars, TypeOK
<1>2. On(toPod') \subseteq On(toPod)
  BY <1>1, OnTail
<1>3. ~IsSection(Nothing) /\ \A m \in On(toPod) : m # Nothing
  <2>1. \A m \in On(toPod) : m \in ToPod
    BY <1>1 DEF On
  <2>. QED
    BY <2>1 DEF Nothing, IsSection, ToPod, Requests
<1>4. QueueFits'
  <2>. SUFFICES ASSUME NEW i \in 1..Len(toPod'), IsSection(toPod'[i])
                PROVE  Fits(toPod'[i].part)
                       /\ \A j \in 1..i : Near(toPod'[j], toPod'[i].part)
    BY <1>1 DEF QueueFits, Fits, IsSection, Near
  <2>1. CASE toPod' = toPod
    BY <2>1 DEF SectionInv
  <2>2. CASE toPod # <<>> /\ toPod' = Tail(toPod)
    <3>1. i + 1 \in 1..Len(toPod) /\ \A j \in 1..i : toPod'[j] = toPod[j + 1] /\ j + 1 \in 1..(i + 1)
      BY <1>1, <2>2, TailFacts
    <3>. QED
      BY <3>1 DEF SectionInv
  <2>. QED
    BY <1>1, <2>1, <2>2
<1>5. WaitingFits'
  BY <1>1, <1>2, <1>3 DEF WaitingFits, SectionInv, Fits, IsSection, Near
<1>6. WaitingLast'
  <2>1. CASE waiting' = Nothing
    <3>1. \A i \in 1..Len(toPod') : toPod'[i] # waiting'
      BY <1>2, <1>3, <2>1 DEF On
    <3>. QED
      BY <3>1 DEF WaitingLast
  <2>2. CASE waiting' = waiting /\ toPod' = toPod
    BY <2>2 DEF WaitingLast, SectionInv
  <2>3. CASE waiting' = waiting /\ toPod # <<>> /\ toPod' = Tail(toPod)
    BY <2>3, HeadLeaves
  <2>. QED
    BY <1>1, <2>1, <2>2, <2>3
<1>7. AckedLast'
  <2>1. SectionAcked' => SectionAcked /\ waiting' = waiting
    BY <1>1, <1>3 DEF SectionAcked, IsSection
  <2>. QED
    BY <1>1, <1>2, <2>1 DEF AckedLast, SectionInv
<1>. QED
  BY <1>1, <1>4, <1>5, <1>6, <1>7
     DEF SectionInv, QueueFits, WaitingFits, WaitingLast, AckedLast, GapFree

\* One message more to the pod.
LEMMA LongerQueue ==
    ASSUME TypeOK, SectionInv, NEW m \in ToPod, toPod' = Append(toPod, m), UNCHANGED devCertBuf,
           IsSection(m) => Fits(m.part) /\ \A q \in On(toPod) : Near(q, m.part)
    PROVE  /\ QueueFits'
           /\ On(toPod') = On(toPod) \cup {m}
           /\ \A i \in 1..Len(toPod') :
                 (i \in 1..Len(toPod) /\ toPod'[i] = toPod[i]) \/ (i = Len(toPod) + 1 /\ toPod'[i] = m)
           /\ Len(toPod) \in Nat /\ Len(toPod') = Len(toPod) + 1
           /\ toPod'[Len(toPod) + 1] = m
<1>1. /\ Len(toPod) \in Nat /\ Len(toPod') = Len(toPod) + 1
      /\ \A i \in 1..Len(toPod) : toPod'[i] = toPod[i]
      /\ toPod'[Len(toPod) + 1] = m
      /\ On(toPod') = On(toPod) \cup {m}
  BY AppendFacts, OnAppend DEF TypeOK
<1>2. \A i \in 1..Len(toPod') :
         (i \in 1..Len(toPod) /\ toPod'[i] = toPod[i]) \/ (i = Len(toPod) + 1 /\ toPod'[i] = m)
  BY <1>1
<1>3. m.part \in Nat
  BY DEF ToPod
<1>4. Near(m, m.part)
  BY <1>3 DEF Near
<1>5. ASSUME NEW i \in 1..Len(toPod'), IsSection(toPod'[i])
      PROVE  Fits(toPod'[i].part) /\ \A j \in 1..i : Near(toPod'[j], toPod'[i].part)
  <2>1. CASE i \in 1..Len(toPod) /\ toPod'[i] = toPod[i]
    <3>1. \A j \in 1..i : j \in 1..Len(toPod)
      BY <1>1, <2>1
    <3>. QED
      BY <1>1, <1>5, <2>1, <3>1 DEF SectionInv
  <2>2. CASE i = Len(toPod) + 1 /\ toPod'[i] = m
    <3>1. \A j \in 1..i : toPod'[j] \in On(toPod')
      BY <1>1, <2>2 DEF On
    <3>. QED
      BY <1>1, <1>4, <1>5, <2>2, <3>1
  <2>. QED
    BY <1>2, <2>1, <2>2
<1>6. QueueFits'
  BY <1>5 DEF QueueFits, Fits, IsSection, Near
<1>. QED
  BY <1>1, <1>2, <1>6

LEMMA AsksSections ==
    ASSUME TypeOK, NumberInv, SectionInv, NEW m \in ToPod, Asks(m)
    PROVE  SectionInv'
<1>1. /\ UNCHANGED <<devCertBuf, accepted>> /\ waiting' \in {m, Nothing}
      /\ toPod' = Append(toPod, m) /\ m.trx = trx + 1
      /\ On(toRadio') \subseteq On(toRadio) /\ trx \in Nat /\ m.part \in Nat
  BY OnTail DEF Asks, podVars, TypeOK, ToPod
<1>2. ASSUME IsSection(m)
      PROVE  Fits(m.part) /\ \A q \in On(toPod) : Near(q, m.part)
  <2>1. CASE m.part = 0
    BY <2>1 DEF Fits, Near
  <2>2. CASE SectionAcked /\ m.part = waiting.part + 1
    <3>1. IsSection(waiting) /\ waiting.part \in Nat /\ waiting.part = m.part - 1
      BY <1>1, <2>2 DEF SectionAcked, IsSection, Nothing, TypeOK, ToPod
    <3>2. devCertBuf # <<>> /\ devCertBuf[Len(devCertBuf)] = waiting.part
          /\ \A q \in On(toPod) : q = waiting
      BY <2>2 DEF SectionInv
    <3>. QED
      BY <3>1, <3>2 DEF Fits, Near
  <2>. QED
    BY <1>2, <2>1, <2>2 DEF Asks
<1>3. /\ QueueFits' /\ On(toPod') = On(toPod) \cup {m} /\ Len(toPod) \in Nat
      /\ Len(toPod') = Len(toPod) + 1
      /\ \A i \in 1..Len(toPod') :
            (i \in 1..Len(toPod) /\ toPod'[i] = toPod[i]) \/ (i = Len(toPod) + 1 /\ toPod'[i] = m)
  BY <1>1, <1>2, LongerQueue
<1>4. ~IsSection(Nothing) /\ Nothing.trx = 0
  BY DEF Nothing, IsSection
<1>5. WaitingFits'
  <2>. SUFFICES ASSUME IsSection(waiting')
                PROVE  Fits(waiting'.part) /\ \A q \in On(toPod') : Near(q, waiting'.part)
    BY <1>1 DEF WaitingFits, Fits, IsSection, Near
  <2>1. waiting' = m /\ IsSection(m)
    BY <1>1, <1>4
  <2>2. Near(m, m.part)
    BY <1>1 DEF Near
  <2>. QED
    BY <1>2, <1>3, <2>1, <2>2
<1>6. waiting' \notin On(toPod)
  <2>1. \A q \in On(toPod) : q.trx \in 1..trx
    BY DEF NumberInv
  <2>. QED
    BY <1>1, <1>4, <2>1
<1>7. WaitingLast'
  <2>. SUFFICES ASSUME NEW i \in 1..Len(toPod'), NEW j \in 1..Len(toPod'), i < j,
                       toPod'[i] = waiting'
                PROVE  FALSE
    BY DEF WaitingLast
  <2>1. i \in 1..Len(toPod) /\ toPod'[i] = toPod[i]
    BY <1>3
  <2>. QED
    BY <1>6, <2>1 DEF On
<1>8. ~SectionAcked'
  <2>1. \A r \in On(toRadio') : r.cmd = "ACK" => r.trx \in 1..trx
    BY <1>1 DEF NumberInv, Answers
  <2>2. \A r \in On(toRadio') : r.cmd = "ACK" => r.trx # waiting'.trx
    BY <1>1, <1>4, <2>1
  <2>. QED
    BY <2>2 DEF SectionAcked
<1>. QED
  BY <1>1, <1>3, <1>5, <1>7, <1>8
     DEF SectionInv, QueueFits, WaitingFits, WaitingLast, GapFree

LEMMA ResendSections ==
    ASSUME TypeOK, SectionInv, Resend
    PROVE  SectionInv'
<1>1. /\ UNCHANGED <<devCertBuf, accepted, waiting, toRadio>>
      /\ toPod' = Append(toPod, waiting) /\ waiting \in ToPod
  BY DEF Resend, podVars, radioVars, TypeOK
<1>2. IsSection(waiting) => Fits(waiting.part) /\ \A q \in On(toPod) : Near(q, waiting.part)
  BY DEF SectionInv
<1>3. /\ QueueFits' /\ On(toPod') = On(toPod) \cup {waiting} /\ Len(toPod) \in Nat
      /\ Len(toPod') = Len(toPod) + 1
      /\ \A i \in 1..Len(toPod') :
            \/ i \in 1..Len(toPod) /\ toPod'[i] = toPod[i]
            \/ i = Len(toPod) + 1 /\ toPod'[i] = waiting
  BY <1>1, <1>2, LongerQueue
<1>4. Near(waiting, waiting.part)
  BY <1>1 DEF Near, ToPod
<1>5. WaitingFits'
  BY <1>1, <1>2, <1>3, <1>4 DEF WaitingFits, Fits, IsSection, Near
<1>6. WaitingLast'
  <2>. SUFFICES ASSUME NEW i \in 1..Len(toPod'), NEW j \in 1..Len(toPod'), i < j,
                       toPod'[i] = waiting
                PROVE  toPod'[j] = waiting
    BY <1>1 DEF WaitingLast
  <2>1. CASE j \in 1..Len(toPod) /\ toPod'[j] = toPod[j]
    <3>1. i \in 1..Len(toPod) /\ toPod'[i] = toPod[i]
      BY <1>3, <2>1
    <3>. QED
      BY <2>1, <3>1 DEF SectionInv
  <2>. QED
    BY <1>3, <2>1
<1>7. AckedLast'
  <2>1. SectionAcked' => SectionAcked
    BY <1>1 DEF SectionAcked
  <2>. QED
    BY <1>1, <1>3, <2>1 DEF AckedLast, SectionInv
<1>. QED
  BY <1>1, <1>3, <1>5, <1>6, <1>7
     DEF SectionInv, QueueFits, WaitingFits, WaitingLast, AckedLast, GapFree

LEMMA SectionStep ==
    ASSUME TypeOK, NumberInv, SectionInv, [Next]_vars
    PROVE  SectionInv'
BY StepShape, PodSections, FewerSections, AsksSections, ResendSections DEF LateResend, EarlyResend

\* The parts of OnceInv.
NextOnly ==
    \A i \in 1..Len(toPod) :
        IsSection(toPod[i]) /\ toPod[i].part > 0 =>
            /\ Len(devCertBuf) = toPod[i].part
            /\ \A j \in 1..Len(toPod) : j < i => ~IsSection(toPod[j])
SentOnce ==
    IsSection(waiting) =>
        /\ waiting \in On(toPod) \/ Pending
        /\ Pending => waiting \notin On(toPod)
        /\ \A i, j \in 1..Len(toPod) : toPod[i] = waiting /\ toPod[j] = waiting => i = j

LEMMA OnceParts ==
    OnceInv <=> (Clean => Exact(devCertBuf) /\ Exact(accepted) /\ NextOnly /\ SentOnce)
  BY DEF OnceInv, NextOnly, SentOnce

LEMMA PodOnce ==
    ASSUME TypeOK, NumberInv, SectionInv, OnceInv, PodHandles
    PROVE  OnceInv'
<1>1. PICK req \in ToPod :
          /\ toPod # <<>> /\ req = Head(toPod) /\ toPod' = Tail(toPod) /\ req \in On(toPod)
          /\ UNCHANGED <<waiting, early, losses>>
          /\ On(toRadio) \subseteq On(toRadio')
          /\ \A r \in On(toRadio') :
                r \in On(toRadio) \/ (r.cmd \in Answers => IsAnswer(req, r))
          /\ IsSection(req) => \E r \in On(toRadio') : IsAnswer(req, r)
          /\ Keeps \/ TakesSection(req)
  BY PodShape
<1>. SUFFICES ASSUME Clean'
              PROVE  Exact(devCertBuf') /\ Exact(accepted') /\ NextOnly' /\ SentOnce'
  BY DEF OnceInv, NextOnly, SentOnce, Exact
<1>2. Exact(devCertBuf) /\ Exact(accepted) /\ NextOnly /\ SentOnce
  BY <1>1, OnceParts DEF Clean
<1>3. /\ Len(toPod) \in Nat /\ Len(toPod) >= 1 /\ Len(toPod') = Len(toPod) - 1
      /\ \A i \in 1..Len(toPod') : i + 1 \in 1..Len(toPod) /\ toPod'[i] = toPod[i + 1]
      /\ req = toPod[1] /\ 1 \in 1..Len(toPod)
      /\ On(toPod') \subseteq On(toPod) /\ On(toPod) = On(toPod') \cup {req}
  BY <1>1, TailFacts, OnTail, OnHead DEF TypeOK
<1>4. SentOnce'
  <2>. SUFFICES ASSUME IsSection(waiting)
                PROVE  /\ waiting \in On(toPod') \/ Pending'
                       /\ Pending' => waiting \notin On(toPod')
                       /\ \A i, j \in 1..Len(toPod') : toPod'[i] = waiting /\ toPod'[j] = waiting => i = j
    BY <1>1 DEF SentOnce, IsSection
  <2>1. Pending => Pending'
    BY <1>1 DEF Pending
  <2>2. req = waiting => Pending'
    BY <1>1, AnswersToAnswers DEF IsAnswer, Pending
  <2>3. ASSUME NEW i \in 1..Len(toPod'), NEW j \in 1..Len(toPod'), toPod'[i] = waiting, toPod'[j] = waiting
        PROVE  i = j
    <3>1. i + 1 = j + 1
      BY <1>2, <1>3, <2>3 DEF SentOnce
    <3>. QED
      BY <1>3, <3>1
  <2>4. req = waiting => waiting \notin On(toPod')
    <3>1. req = waiting => \A i \in 1..Len(toPod') : toPod[i + 1] # waiting
      <4>1. \A i \in 1..Len(toPod') : i + 1 # 1
        BY <1>3
      <4>. QED
        BY <1>2, <1>3, <4>1 DEF SentOnce
    <3>. QED
      BY <1>3, <3>1 DEF On
  <2>5. Pending' => Pending \/ req = waiting
    <3>. SUFFICES ASSUME NEW r \in On(toRadio'), r.cmd \in Answers, r.trx = waiting.trx
                  PROVE  r \in On(toRadio) \/ req = waiting
      BY <1>1 DEF Pending
    <3>. QED
      BY <1>1 DEF IsAnswer, NumberInv
  <2>. QED
    BY <1>2, <1>3, <2>1, <2>2, <2>3, <2>4, <2>5 DEF SentOnce
<1>5. CASE Keeps
  <2>1. NextOnly'
    <3>. SUFFICES ASSUME NEW i \in 1..Len(toPod'), IsSection(toPod'[i]), toPod'[i].part > 0
                  PROVE  /\ Len(devCertBuf) = toPod'[i].part
                         /\ \A j \in 1..Len(toPod') : j < i => ~IsSection(toPod'[j])
      BY <1>5 DEF NextOnly, Keeps, IsSection
    <3>1. Len(devCertBuf) = toPod'[i].part
          /\ \A j \in 1..Len(toPod) : j < i + 1 => ~IsSection(toPod[j])
      BY <1>2, <1>3 DEF NextOnly
    <3>2. \A j \in 1..Len(toPod') : j < i => j + 1 < i + 1
      BY <1>3
    <3>. QED
      BY <1>3, <3>1, <3>2
  <2>. QED
    BY <1>2, <1>4, <1>5, <2>1 DEF Keeps
<1>6. CASE TakesSection(req)
  <2>. DEFINE d == Accumulate(req.part)
  <2>1. IsSection(req) /\ req.part \in 0..MaxSection /\ devCertBuf' = d
        /\ (UNCHANGED accepted \/ accepted' = d)
    BY <1>1, <1>6 DEF TakesSection, NumberInv, PartOK, IsSection
  <2>2. GapFree(devCertBuf) /\ Fits(req.part)
    BY <1>3, <2>1 DEF SectionInv
  <2>3. req.part > 0 => Len(devCertBuf) = req.part
    BY <1>2, <1>3, <2>1 DEF NextOnly
  <2>4. Exact(d)
    BY <1>2, <2>1, <2>2, <2>3, SectionAppended
  <2>. HIDE DEF d
  <2>5. NextOnly'
    <3>. SUFFICES ASSUME NEW i \in 1..Len(toPod'), IsSection(toPod'[i]), toPod'[i].part > 0
                  PROVE  FALSE
      BY DEF NextOnly, IsSection
    <3>1. 1 < i + 1
      BY <1>3
    <3>. QED
      BY <1>2, <1>3, <2>1, <3>1 DEF NextOnly
  <2>. QED
    BY <1>2, <1>4, <2>1, <2>4, <2>5
<1>. QED
  BY <1>1, <1>5, <1>6

LEMMA FewerOnce ==
    ASSUME TypeOK, NumberInv, OnceInv, Fewer
    PROVE  OnceInv'
<1>. SUFFICES ASSUME Clean'
              PROVE  Exact(devCertBuf') /\ Exact(accepted') /\ NextOnly' /\ SentOnce'
  BY DEF OnceInv, NextOnly, SentOnce, Exact
<1>1. losses' >= losses /\ losses \in Nat /\ losses' = 0 /\ early' = early /\ early' = 0
  BY HandshakeAssumption DEF Fewer, Clean, TypeOK
<1>2. losses' = losses /\ losses = 0
  BY <1>1
<1>3. /\ UNCHANGED <<devCertBuf, accepted, toPod>> /\ waiting' \in {waiting, Nothing}
      /\ waiting' = waiting => (Pending' <=> Pending)
  BY <1>1, <1>2 DEF Fewer, podVars
<1>4. Exact(devCertBuf) /\ Exact(accepted) /\ NextOnly /\ SentOnce
  BY <1>1, <1>2, OnceParts DEF Clean
<1>5. NextOnly'
  BY <1>3, <1>4 DEF NextOnly
<1>6. SentOnce'
  <2>1. ~IsSection(Nothing)
    BY DEF Nothing, IsSection
  <2>2. CASE waiting' = Nothing
    BY <2>1, <2>2 DEF SentOnce, IsSection
  <2>3. CASE waiting' = waiting
    BY <1>3, <1>4, <2>3 DEF SentOnce, IsSection
  <2>. QED
    BY <1>3, <2>2, <2>3
<1>. QED
  BY <1>3, <1>4, <1>5, <1>6

LEMMA AsksOnce ==
    ASSUME TypeOK, NumberInv, SectionInv, OnceInv, NEW m \in ToPod, Asks(m)
    PROVE  OnceInv'
<1>1. /\ UNCHANGED <<devCertBuf, accepted, early, losses>> /\ waiting' \in {m, Nothing}
      /\ toPod' = Append(toPod, m) /\ m.trx = trx + 1
      /\ On(toRadio') \subseteq On(toRadio) /\ trx \in Nat /\ m.part \in Nat
  BY OnTail DEF Asks, podVars, TypeOK, ToPod
<1>. SUFFICES ASSUME Clean'
              PROVE  Exact(devCertBuf') /\ Exact(accepted') /\ NextOnly' /\ SentOnce'
  BY DEF OnceInv, NextOnly, SentOnce, Exact
<1>2. Exact(devCertBuf) /\ Exact(accepted) /\ NextOnly /\ SentOnce
  BY <1>1, OnceParts DEF Clean
<1>3. /\ On(toPod') = On(toPod) \cup {m} /\ Len(toPod) \in Nat /\ Len(toPod') = Len(toPod) + 1
      /\ \A i \in 1..Len(toPod) : toPod'[i] = toPod[i]
      /\ toPod'[Len(toPod) + 1] = m
  BY <1>1, AppendFacts, OnAppend DEF TypeOK
<1>4. \A i \in 1..Len(toPod') : i \in 1..Len(toPod) \/ i = Len(toPod) + 1
  BY <1>3
<1>5. ASSUME IsSection(m), m.part > 0
      PROVE  Len(devCertBuf) = m.part /\ Len(toPod) = 0
  <2>1. SectionAcked /\ m.part = waiting.part + 1
    BY <1>5 DEF Asks
  <2>2. IsSection(waiting) /\ Pending /\ waiting.part \in Nat
    BY <2>1 DEF SectionAcked, Pending, IsSection, Nothing, TypeOK, ToPod, Answers
  <2>3. devCertBuf # <<>> /\ devCertBuf[Len(devCertBuf)] = waiting.part
        /\ \A q \in On(toPod) : q = waiting
    BY <2>1 DEF SectionInv
  <2>4. Len(devCertBuf) \in 1..Len(devCertBuf) /\ Len(devCertBuf) \in Nat
    <3>1. devCertBuf \in Seq(0..MaxSection)
      BY DEF TypeOK
    <3>. QED
      BY <2>3, <3>1
  <2>5. waiting \notin On(toPod)
    BY <1>2, <2>2 DEF SentOnce
  <2>6. Len(toPod) = 0
    <3>1. Len(toPod) # 0 => toPod[1] \in On(toPod)
      BY <1>3 DEF On
    <3>. QED
      BY <2>3, <2>5, <3>1
  <2>. QED
    BY <1>2, <2>1, <2>2, <2>3, <2>4, <2>6 DEF Exact
<1>6. NextOnly'
  <2>. SUFFICES ASSUME NEW i \in 1..Len(toPod'), IsSection(toPod'[i]), toPod'[i].part > 0
                PROVE  /\ Len(devCertBuf) = toPod'[i].part
                       /\ \A j \in 1..Len(toPod') : j < i => ~IsSection(toPod'[j])
    BY <1>1 DEF NextOnly, IsSection
  <2>1. CASE i \in 1..Len(toPod)
    <3>1. \A j \in 1..Len(toPod') : j < i => j \in 1..Len(toPod)
      BY <1>3, <2>1
    <3>. QED
      BY <1>2, <1>3, <2>1, <3>1 DEF NextOnly
  <2>2. CASE i = Len(toPod) + 1
    <3>1. Len(devCertBuf) = m.part /\ Len(toPod) = 0 /\ toPod'[i] = m
      BY <1>3, <1>5, <2>2
    <3>. QED
      BY <1>3, <2>2, <3>1
  <2>. QED
    BY <1>4, <2>1, <2>2
<1>7. SentOnce'
  <2>. SUFFICES ASSUME IsSection(waiting')
                PROVE  /\ waiting' \in On(toPod') \/ Pending'
                       /\ Pending' => waiting' \notin On(toPod')
                       /\ \A i, j \in 1..Len(toPod') : toPod'[i] = waiting' /\ toPod'[j] = waiting' => i = j
    BY DEF SentOnce, IsSection
  <2>1. waiting' = m
    BY <1>1 DEF Nothing, IsSection
  <2>2. ~Pending'
    <3>1. \A r \in On(toRadio') : r.cmd \in Answers => r.trx \in 1..trx
      BY <1>1 DEF NumberInv
    <3>. QED
      BY <1>1, <2>1, <3>1 DEF Pending
  <2>3. m \notin On(toPod)
    BY <1>1 DEF NumberInv
  <2>4. \A i \in 1..Len(toPod') : toPod'[i] = m => i = Len(toPod) + 1
    BY <1>3, <1>4, <2>3 DEF On
  <2>. QED
    BY <1>3, <2>1, <2>2, <2>4
<1>. QED
  BY <1>1, <1>2, <1>6, <1>7

LEMMA LateResendOnce ==
    ASSUME TypeOK, OnceInv, LateResend
    PROVE  OnceInv'
<1>1. /\ UNCHANGED <<devCertBuf, accepted, waiting, toRadio, early, losses>>
      /\ toPod' = Append(toPod, waiting) /\ toPod = <<>> /\ toRadio = <<>>
  BY DEF LateResend, Resend, podVars, radioVars
<1>. SUFFICES ASSUME Clean'
              PROVE  Exact(devCertBuf') /\ Exact(accepted') /\ NextOnly' /\ SentOnce'
  BY DEF OnceInv, NextOnly, SentOnce, Exact
<1>2. Exact(devCertBuf) /\ Exact(accepted) /\ NextOnly /\ SentOnce
  BY <1>1, OnceParts DEF Clean
<1>3. On(toPod) = {} /\ On(toRadio) = {}
  BY <1>1, OnFew
<1>4. ~IsSection(waiting)
  BY <1>2, <1>3 DEF SentOnce, Pending
<1>5. Len(toPod') = 1 /\ toPod'[1] = waiting
  BY <1>1
<1>6. NextOnly'
  BY <1>4, <1>5 DEF NextOnly, IsSection
<1>7. SentOnce'
  BY <1>1, <1>4 DEF SentOnce, IsSection
<1>. QED
  BY <1>1, <1>2, <1>6, <1>7

LEMMA OnceStep ==
    ASSUME TypeOK, NumberInv, SectionInv, OnceInv, [Next]_vars
    PROVE  OnceInv'
<1>1. CASE EarlyResend
  <2>1. early' = early + 1 /\ early \in Nat
    BY <1>1, HandshakeAssumption DEF EarlyResend, TypeOK
  <2>. QED
    BY <2>1 DEF OnceInv, Clean
<1>. QED
  BY <1>1, StepShape, PodOnce, FewerOnce, AsksOnce, LateResendOnce

LEMMA ExactIsCertificate ==
    ASSUME NEW s \in Seq(0..MaxSection), s # <<>>, Exact(s), s[Len(s)] = MaxSection
    PROVE  s = Certificate
<1>1. Len(s) \in Nat /\ Len(s) \in 1..Len(s) /\ DOMAIN s = 1..Len(s) /\ MaxSection \in Nat
      /\ s = [i \in 1..Len(s) |-> s[i]]
  BY HandshakeAssumption
<1>2. Len(s) - 1 = MaxSection
  BY <1>1 DEF Exact
<1>3. Len(s) = MaxSection + 1
  BY <1>1, <1>2
<1>4. [i \in 1..Len(s) |-> s[i]] = [i \in 1..Len(s) |-> i - 1]
  BY DEF Exact
<1>. QED
  BY <1>1, <1>3, <1>4 DEF Certificate

LEMMA SectionsInit == Init => SectionInv /\ OnceInv
<1>. SUFFICES ASSUME Init PROVE SectionInv /\ OnceInv
  OBVIOUS
<1>1. devCertBuf = <<>> /\ accepted = <<>> /\ toPod = <<>> /\ Len(toPod) = 0 /\ Len(devCertBuf) = 0
      /\ Len(accepted) = 0
  BY DEF Init
<1>2. ~IsSection(waiting)
  BY DEF Init, Nothing, IsSection
<1>3. SectionInv
  BY <1>1, <1>2 DEF SectionInv, GapFree, SectionAcked
<1>4. OnceInv
  BY <1>1, <1>2 DEF OnceInv, Exact
<1>. QED
  BY <1>3, <1>4

\* What the pod takes for the certificate of the radio starts with the first
\* section, ends with the last and leaves none out, however sections and their
\* acknowledgements are lost, repeated or cut short by another identification;
\* and where nothing is lost and the radio waits, it is the certificate.
THEOREM CertificateIsGapFree == Spec => []CertGapFree
<1>. DEFINE Inv == TypeOK /\ NumberInv /\ SectionInv /\ OnceInv
<1>1. Init => Inv
  BY HandshakeInit, SectionsInit
<1>2. Inv /\ [Next]_vars => Inv'
  BY HandshakeTypeStep, SectionStep, OnceStep
<1>3. Inv => CertGapFree
  <2>. SUFFICES ASSUME Inv, accepted # <<>>
                PROVE  /\ accepted[1] = 0 /\ Last(accepted) = MaxSection
                       /\ \A i \in 1..(Len(accepted) - 1) : accepted[i + 1] \in {accepted[i], accepted[i] + 1}
                       /\ (early = 0 /\ losses = 0 => accepted = Certificate)
    BY DEF CertGapFree
  <2>1. accepted \in Seq(0..MaxSection) /\ GapFree(accepted) /\ accepted[Len(accepted)] = MaxSection
    BY DEF TypeOK, SectionInv
  <2>2. early = 0 /\ losses = 0 => accepted = Certificate
    BY <2>1, ExactIsCertificate DEF OnceInv, Clean
  <2>. QED
    BY <2>1, <2>2 DEF GapFree, Last
<1>. QED
  BY <1>1, <1>2, <1>3, PTL DEF Spec

-----------------------------------------------------------------------------
(* How often the audio stream is opened. *)

\* Of the answer to the request it waits for the radio makes what it should.
KindInv ==
    \A r \in On(toRadio) :
        r.cmd \in Answers /\ r.trx = waiting.trx => r.cmd \in AnswersTo(waiting.cmd)

LEMMA KindStep ==
    ASSUME TypeOK, NumberInv, KindInv, [Next]_vars
    PROVE  KindInv'
<1>. SUFFICES ASSUME NEW r \in On(toRadio'), r.cmd \in Answers, r.trx = waiting'.trx
              PROVE  r.cmd \in AnswersTo(waiting'.cmd)
  BY DEF KindInv
<1>1. Nothing.trx = 0 /\ trx \in Nat /\ (r \in On(toRadio) => r.trx \in 1..trx)
  BY DEF Nothing, TypeOK, NumberInv
<1>2. CASE PodHandles
  <2>1. PICK req \in ToPod :
            /\ req \in On(toPod) /\ UNCHANGED waiting
            /\ \A q \in On(toRadio') :
                  q \in On(toRadio) \/ (q.cmd \in Answers => IsAnswer(req, q))
    BY <1>2, PodShape
  <2>. QED
    BY <2>1 DEF KindInv, NumberInv, IsAnswer
<1>3. CASE Fewer
  BY <1>1, <1>3 DEF Fewer, KindInv
<1>4. CASE \E m \in ToPod : Asks(m)
  <2>1. On(toRadio') \subseteq On(toRadio) /\ waiting'.trx \in {0, trx + 1}
    BY <1>1, <1>4, OnTail DEF Asks, TypeOK
  <2>. QED
    BY <1>1, <2>1
<1>5. CASE LateResend \/ EarlyResend
  BY <1>5 DEF LateResend, EarlyResend, Resend, radioVars, KindInv
<1>. QED
  BY <1>2, <1>3, <1>4, <1>5, StepShape

\* How many messages of a queue let the radio ask again.
Drives(s) == {i \in 1..Len(s) : s[i].cmd \in Driving}
DriveCount(s) == Cardinality(Drives(s))
One(m) == IF m.cmd \in Driving THEN 1 ELSE 0

LEMMA DrivesFinite ==
    ASSUME NEW S, NEW s \in Seq(S)
    PROVE  IsFiniteSet(Drives(s)) /\ DriveCount(s) \in Nat
<1>1. Len(s) \in Nat /\ IsFiniteSet(1..Len(s)) /\ Drives(s) \in SUBSET (1..Len(s))
  BY FS_Interval DEF Drives
<1>. QED
  BY <1>1, FS_Subset, FS_CardinalityType DEF DriveCount

LEMMA DrivesEmpty == DriveCount(<<>>) = 0
<1>1. Drives(<<>>) = {}
  BY DEF Drives
<1>. QED
  BY <1>1, FS_EmptySet DEF DriveCount

LEMMA DrivesAppend ==
    ASSUME NEW S, NEW s \in Seq(S), NEW m \in S
    PROVE  DriveCount(Append(s, m)) = DriveCount(s) + One(m)
<1>1. /\ Len(s) \in Nat /\ Len(Append(s, m)) = Len(s) + 1
      /\ \A i \in 1..Len(s) : Append(s, m)[i] = s[i]
      /\ Append(s, m)[Len(s) + 1] = m
  BY AppendFacts
<1>2. Len(s) + 1 \notin Drives(s) /\ IsFiniteSet(Drives(s)) /\ DriveCount(s) \in Nat
  BY <1>1, DrivesFinite DEF Drives
<1>3. 1..(Len(s) + 1) = (1..Len(s)) \cup {Len(s) + 1}
  BY <1>1
<1>4. CASE m.cmd \in Driving
  <2>1. Drives(Append(s, m)) = Drives(s) \cup {Len(s) + 1}
    BY <1>1, <1>3, <1>4 DEF Drives
  <2>. QED
    BY <1>2, <1>4, <2>1, FS_AddElement DEF DriveCount, One
<1>5. CASE m.cmd \notin Driving
  <2>1. Drives(Append(s, m)) = Drives(s)
    BY <1>1, <1>3, <1>5 DEF Drives
  <2>. QED
    BY <1>2, <1>5, <2>1 DEF DriveCount, One
<1>. QED
  BY <1>4, <1>5

LEMMA DrivesTail ==
    ASSUME NEW S, NEW s \in Seq(S), s # <<>>
    PROVE  DriveCount(s) = DriveCount(Tail(s)) + One(Head(s))
<1>. DEFINE D == Drives(Tail(s))
            E == Drives(s) \ {1}
            f == [i \in D |-> i + 1]
<1>1. /\ Len(s) \in Nat /\ Len(s) >= 1 /\ Len(Tail(s)) = Len(s) - 1
      /\ \A i \in 1..Len(Tail(s)) : i + 1 \in 1..Len(s) /\ Tail(s)[i] = s[i + 1]
      /\ Head(s) = s[1] /\ 1 \in 1..Len(s) /\ Tail(s) \in Seq(S)
  BY TailFacts, OnTail
<1>2. /\ IsFiniteSet(Drives(s)) /\ DriveCount(s) \in Nat
      /\ IsFiniteSet(D) /\ DriveCount(Tail(s)) \in Nat
  BY <1>1, DrivesFinite
<1>3. f \in [D -> E]
  <2>. SUFFICES ASSUME NEW i \in D PROVE i + 1 \in E
    OBVIOUS
  <2>1. i \in 1..Len(Tail(s)) /\ Tail(s)[i].cmd \in Driving
    BY DEF Drives
  <2>2. i + 1 # 1
    BY <1>1, <2>1
  <2>. QED
    BY <1>1, <2>1, <2>2 DEF Drives
<1>4. \A a, b \in D : f[a] = f[b] => a = b
  <2>. SUFFICES ASSUME NEW a \in D, NEW b \in D, a + 1 = b + 1 PROVE a = b
    OBVIOUS
  <2>1. a \in 1..Len(Tail(s)) /\ b \in 1..Len(Tail(s))
    BY DEF Drives
  <2>. QED
    BY <1>1, <2>1
<1>5. \A t \in E : \E i \in D : f[i] = t
  <2>. SUFFICES ASSUME NEW t \in E PROVE \E i \in D : i + 1 = t
    OBVIOUS
  <2>1. t \in 1..Len(s) /\ s[t].cmd \in Driving /\ t # 1
    BY DEF Drives
  <2>2. t - 1 \in 1..Len(Tail(s)) /\ (t - 1) + 1 = t
    BY <1>1, <2>1
  <2>3. Tail(s)[t - 1] = s[t]
    BY <1>1, <2>2
  <2>4. t - 1 \in D
    BY <2>1, <2>2, <2>3 DEF Drives
  <2>. QED
    BY <2>2, <2>4
<1>6. f \in Bijection(D, E)
  BY <1>3, <1>4, <1>5, Fun_IsBij
<1>7. Cardinality(E) = Cardinality(D)
  <2>1. ExistsBijection(D, E)
    BY <1>6 DEF ExistsBijection
  <2>. QED
    BY <1>2, <2>1, FS_Bijection
<1>8. Cardinality(E) = IF 1 \in Drives(s) THEN DriveCount(s) - 1 ELSE DriveCount(s)
  BY <1>2, FS_RemoveElement DEF DriveCount
<1>9. 1 \in Drives(s) <=> Head(s).cmd \in Driving
  BY <1>1 DEF Drives
<1>. QED
  BY <1>2, <1>7, <1>8, <1>9 DEF DriveCount, One

\* The radio waits for an answer that is not under way, nor is its request: only
\* a timeout goes on from here.
Idle == waiting # Nothing /\ waiting \notin On(toPod) /\ ~Pending
Due == IF Idle THEN 1 ELSE 0

\* Whatever may still open the stream was set off by an attempt, by a message
\* lost or by impatience, and each of these set off one thing at a time.
PotentialInv ==
    opened + Len(toPod) + DriveCount(toRadio) + Due <= attempts + early + losses

LEMMA PotentialTypes ==
    ASSUME TypeOK
    PROVE  /\ opened \in Nat /\ Len(toPod) \in Nat /\ DriveCount(toRadio) \in Nat
           /\ attempts \in Nat /\ early \in Nat /\ losses \in Nat
           /\ toPod \in Seq(ToPod) /\ toRadio \in Seq(ToRadio)
           /\ Due \in {0, 1} /\ (Due = 1 <=> Idle)
<1>1. toPod \in Seq(ToPod) /\ toRadio \in Seq(ToRadio) /\ Len(toPod) \in Nat
  BY DEF TypeOK
<1>2. DriveCount(toRadio) \in Nat
  BY <1>1, DrivesFinite
<1>. QED
  BY <1>1, <1>2, HandshakeAssumption DEF TypeOK, Due

LEMMA PodPotential ==
    ASSUME TypeOK, NumberInv, PotentialInv, PodHandles, TypeOK'
    PROVE  PotentialInv'
<1>1. PICK req \in ToPod :
          /\ toPod # <<>> /\ req = Head(toPod) /\ toPod' = Tail(toPod) /\ req \in On(toPod)
          /\ UNCHANGED <<waiting, attempts, early, losses>>
          /\ Silent(req) \/ AnswersOnce(req) \/ AnswersAndAsks(req)
  BY PodAnswers
<1>2. /\ opened \in Nat /\ Len(toPod) \in Nat /\ DriveCount(toRadio) \in Nat
      /\ attempts \in Nat /\ early \in Nat /\ losses \in Nat
      /\ toPod \in Seq(ToPod) /\ toRadio \in Seq(ToRadio)
      /\ Due \in {0, 1} /\ (Due = 1 <=> Idle)
  BY PotentialTypes
<1>3. Due' \in {0, 1} /\ (Due' = 1 <=> Idle')
  BY DEF Due
<1>4. Len(toPod') = Len(toPod) - 1 /\ On(toPod) = On(toPod') \cup {req}
  BY <1>1, <1>2, TailFacts, OnHead
<1>5. ASSUME NEW r \in On(toRadio'), IsAnswer(req, r), On(toRadio) \subseteq On(toRadio')
      PROVE  Due' <= Due
  <2>1. req = waiting => Pending'
    BY <1>1, <1>5, AnswersToAnswers DEF IsAnswer, Pending
  <2>2. Pending => Pending'
    BY <1>1, <1>5 DEF Pending
  <2>3. Idle' => Idle
    BY <1>1, <1>4, <2>1, <2>2 DEF Idle
  <2>. QED
    BY <1>2, <1>3, <2>3
<1>6. CASE Silent(req)
  <2>1. UNCHANGED <<toRadio, opened>>
    BY <1>6 DEF Silent
  <2>2. DriveCount(toRadio') = DriveCount(toRadio)
    BY <2>1
  <2>3. Due' <= Due + 1
    BY <1>2, <1>3
  <2>. QED
    BY <1>1, <1>2, <1>3, <1>4, <2>1, <2>2, <2>3 DEF PotentialInv
<1>7. CASE AnswersOnce(req)
  <2>1. PICK r \in ToRadio : IsAnswer(req, r) /\ toRadio' = Append(toRadio, r) /\ UNCHANGED opened
    BY <1>7 DEF AnswersOnce
  <2>2. On(toRadio') = On(toRadio) \cup {r}
    BY <1>2, <2>1, OnAppend
  <2>3. DriveCount(toRadio') = DriveCount(toRadio) + One(r)
    BY <1>2, <2>1, DrivesAppend
  <2>4. Due' <= Due /\ One(r) \in {0, 1}
    BY <1>5, <2>1, <2>2 DEF One
  <2>. QED
    BY <1>1, <1>2, <1>3, <1>4, <2>1, <2>3, <2>4 DEF PotentialInv
<1>8. CASE AnswersAndAsks(req)
  <2>1. PICK r \in ToRadio, q \in ToRadio :
            /\ IsAnswer(req, r) /\ r.cmd \notin Driving /\ q.cmd \in PodRequests
            /\ toRadio' = Append(Append(toRadio, r), q)
            /\ opened' = IF q.cmd = "NewiPodTrackInfo" THEN opened + 1 ELSE opened
    BY <1>8 DEF AnswersAndAsks
  <2>. DEFINE t == Append(toRadio, r)
  <2>2. t \in Seq(ToRadio) /\ On(t) = On(toRadio) \cup {r} /\ DriveCount(t) = DriveCount(toRadio) + One(r)
    BY <1>2, OnAppend, DrivesAppend
  <2>3. toRadio' = Append(t, q)
    BY <2>1
  <2>. HIDE DEF t
  <2>4. On(toRadio') = On(t) \cup {q} /\ DriveCount(toRadio') = DriveCount(t) + One(q)
    BY <2>2, <2>3, OnAppend, DrivesAppend
  <2>5. Due' <= Due
    BY <1>5, <2>1, <2>2, <2>4
  <2>6. One(r) = 0 /\ (q.cmd = "NewiPodTrackInfo" => One(q) = 0) /\ One(q) \in {0, 1}
    BY <2>1 DEF One, Driving
  <2>7. opened' + One(q) <= opened + 1
    BY <1>2, <2>1, <2>6
  <2>8. opened' \in Nat
    BY <1>2, <2>1
  <2>9. DriveCount(toRadio') = DriveCount(toRadio) + One(q)
    BY <1>2, <2>2, <2>4, <2>6
  <2>10. UNCHANGED <<attempts, early, losses>>
    BY <1>1
  <2>11. opened + Len(toPod) + DriveCount(toRadio) + Due <= attempts + early + losses
    BY DEF PotentialInv
  <2>12. One(q) \in Int /\ Len(toPod') \in Int /\ Due \in Int /\ Due' \in Int
    BY <1>2, <1>3, <1>4, <2>6
  <2>13. opened' + (Len(toPod) - 1) + (DriveCount(toRadio) + One(q)) + Due' <= attempts + early + losses
    <3>1. PICK k \in Int : k = One(q)
      BY <2>12
    <3>2. PICK d \in Int : d = Due
      BY <2>12
    <3>3. PICK e \in Int : e = Due'
      BY <2>12
    <3>4. PICK c \in Nat : c = DriveCount(toRadio)
      BY <1>2
    <3>5. PICK l \in Nat : l = Len(toPod)
      BY <1>2
    <3>6. opened + l + c + d <= attempts + early + losses /\ opened' + k <= opened + 1 /\ e <= d
      BY <2>5, <2>7, <2>11, <3>1, <3>2, <3>3, <3>4, <3>5
    <3>7. PICK o \in Nat : o = opened
      BY <1>2
    <3>8. PICK oo \in Nat : oo = opened'
      BY <2>8
    <3>9. PICK a \in Nat : a = attempts + early + losses
      BY <1>2
    <3>10. o + l + c + d <= a /\ oo + k <= o + 1 /\ e <= d
      BY <3>6, <3>7, <3>8, <3>9
    <3>11. oo + (l - 1) + (c + k) + e <= a
      BY ONLY <3>10
    <3>. QED
      BY <3>1, <3>3, <3>4, <3>5, <3>7, <3>8, <3>9, <3>11
  <2>. QED
    BY <1>4, <2>9, <2>10, <2>13 DEF PotentialInv
<1>. QED
  BY <1>1, <1>6, <1>7, <1>8

\* A request is under way, and if the radio waits it is for that.
LEMMA RequestIsDue ==
    ASSUME TypeOK, NEW m \in ToPod, toPod' = Append(toPod, m), waiting' \in {m, Nothing}
    PROVE  Due' = 0 /\ Len(toPod') = Len(toPod) + 1
<1>1. On(toPod') = On(toPod) \cup {m} /\ Len(toPod') = Len(toPod) + 1
  BY OnAppend, AppendFacts DEF TypeOK
<1>. QED
  BY <1>1 DEF Due, Idle

LEMMA RadioPotential ==
    ASSUME TypeOK, NumberInv, KindInv, PotentialInv, RadioReceives
    PROVE  PotentialInv'
<1>. DEFINE r == Head(toRadio)
<1>1. /\ opened \in Nat /\ Len(toPod) \in Nat /\ DriveCount(toRadio) \in Nat
      /\ attempts \in Nat /\ early \in Nat /\ losses \in Nat
      /\ toPod \in Seq(ToPod) /\ toRadio \in Seq(ToRadio)
      /\ Due \in {0, 1} /\ (Due = 1 <=> Idle)
  BY PotentialTypes
<1>2. /\ toRadio # <<>> /\ toRadio' = Tail(toRadio)
      /\ UNCHANGED <<opened, attempts, early, losses>>
      /\ RadioGoesOn(r) \/ RadioIgnores(r) \/ RadioServes(r)
  BY DEF RadioReceives, podVars
<1>3. /\ On(toRadio) = On(toRadio') \cup {r} /\ r \in On(toRadio) /\ r \in ToRadio
      /\ DriveCount(toRadio) = DriveCount(toRadio') + One(r) /\ One(r) \in {0, 1}
      /\ toRadio' \in Seq(ToRadio)
  BY <1>1, <1>2, OnHead, OnTail, DrivesTail DEF One
<1>. HIDE DEF r
<1>4. DriveCount(toRadio') \in Nat
  BY <1>3, DrivesFinite
<1>5. /\ "none" \in AnyStatus /\ kind \in AnyStatus /\ Statuses \subseteq AnyStatus /\ trx \in Nat
  BY HandshakeAssumption DEF TypeOK, AnyStatus
<1>6. CASE UNCHANGED <<toPod, waiting>> /\ (Pending' <=> Pending)
  <2>1. Due' = Due
    BY <1>6 DEF Due, Idle
  <2>. QED
    BY <1>1, <1>2, <1>3, <1>4, <1>6, <2>1 DEF PotentialInv
<1>7. CASE waiting' = Nothing /\ UNCHANGED toPod
  <2>1. Due' = 0
    BY <1>7 DEF Due, Idle
  <2>. QED
    BY <1>1, <1>2, <1>3, <1>4, <1>7, <2>1 DEF PotentialInv
<1>8. ASSUME NEW cmd \in Requests, NEW status \in AnyStatus, NEW part \in Nat,
             RequestStatus(cmd, status, part), r.cmd \in Driving
      PROVE  PotentialInv'
  <2>. DEFINE m == [cmd |-> cmd, status |-> status, trx |-> trx + 1, part |-> part]
  <2>1. m \in ToPod
    BY <1>5 DEF ToPod
  <2>2. toPod' = Append(toPod, m) /\ waiting' \in {m, Nothing}
    BY <1>8 DEF RequestStatus
  <2>. HIDE DEF m
  <2>3. Due' = 0 /\ Len(toPod') = Len(toPod) + 1
    BY <2>1, <2>2, RequestIsDue
  <2>4. One(r) = 1
    BY <1>8 DEF One
  <2>. QED
    BY <1>1, <1>2, <1>3, <1>4, <2>3, <2>4 DEF PotentialInv
<1>9. CASE RadioGoesOn(r)
  <2>1. r.cmd \in Answers /\ r.trx = waiting.trx /\ r.cmd \in AnswersTo(waiting.cmd)
    BY <1>3, <1>9 DEF RadioGoesOn, KindInv
  <2>2. CASE waiting.cmd = "StartIDPS" /\ RequestStatus("SetFIDTokenValues", kind, attempts)
    <3>1. r.cmd \in Driving
      BY <2>1, <2>2 DEF AnswersTo, Driving
    <3>. QED
      BY <1>1, <1>5, <1>8, <2>2, <3>1 DEF Requests
  <2>3. CASE waiting.cmd = "SetFIDTokenValues"
             /\ \E status \in Statuses : RequestStatus("EndIDPS", status, 0)
    <3>1. r.cmd \in Driving
      BY <2>1, <2>3 DEF AnswersTo, Driving
    <3>. QED
      BY <1>5, <1>8, <2>3, <3>1 DEF Requests
  <2>4. CASE r.cmd = "ACK" /\ Request("RetDevAuthenticationInfo", r.part + 1)
    <3>1. r.cmd \in Driving /\ r.part + 1 \in Nat
      BY <1>3, <2>4 DEF Driving, ToRadio
    <3>. QED
      BY <1>5, <1>8, <2>4, <3>1 DEF Requests, Request
  <2>. QED
    BY <1>7, <1>9, <2>2, <2>3, <2>4 DEF RadioGoesOn
<1>10. CASE RadioIgnores(r)
  <2>1. UNCHANGED <<toPod, waiting>> /\ r.trx # waiting.trx
    BY <1>10 DEF RadioIgnores
  <2>2. Pending' <=> Pending
    BY <1>3, <2>1 DEF Pending
  <2>. QED
    BY <1>6, <2>1, <2>2
<1>11. CASE RadioServes(r)
  <2>1. CASE r.cmd = "NewiPodTrackInfo" /\ UNCHANGED <<waiting, toPod>>
    <3>1. r.cmd \notin Answers
      BY <2>1 DEF Answers
    <3>2. Pending' <=> Pending
      BY <1>3, <2>1, <3>1 DEF Pending
    <3>. QED
      BY <1>6, <2>1, <3>2
  <2>2. CASE r.cmd \in Driving /\ \E cmd \in {"RetDevAuthenticationInfo",
                "RetDevAuthenticationSignature", "RetAccSampleRateCaps"} : Request(cmd, 0)
    BY <1>5, <1>8, <2>2 DEF Request, Requests
  <2>. QED
    BY <1>11, <2>1, <2>2 DEF RadioServes, Driving
<1>. QED
  BY <1>2, <1>9, <1>10, <1>11

LEMMA OtherPotential ==
    ASSUME TypeOK, PotentialInv, Start \/ StartOver \/ LateResend \/ EarlyResend \/ UNCHANGED vars
    PROVE  PotentialInv'
<1>1. /\ opened \in Nat /\ Len(toPod) \in Nat /\ DriveCount(toRadio) \in Nat
      /\ attempts \in Nat /\ early \in Nat /\ losses \in Nat
      /\ toPod \in Seq(ToPod) /\ toRadio \in Seq(ToRadio)
      /\ Due \in {0, 1} /\ (Due = 1 <=> Idle)
  BY PotentialTypes
<1>2. CASE Start \/ StartOver
  <2>. DEFINE m == [cmd |-> "StartIDPS", status |-> "none", trx |-> trx + 1, part |-> 0]
  <2>1. m \in ToPod
    BY DEF ToPod, TypeOK, AnyStatus, Requests
  <2>2. /\ toPod' = Append(toPod, m) /\ waiting' \in {m, Nothing} /\ attempts' = attempts + 1
        /\ UNCHANGED <<opened, toRadio, early, losses>>
    BY <1>2 DEF Start, StartOver, Identify, Request, RequestStatus, podVars
  <2>. HIDE DEF m
  <2>3. Due' = 0 /\ Len(toPod') = Len(toPod) + 1
    BY <2>1, <2>2, RequestIsDue
  <2>4. DriveCount(toRadio') = DriveCount(toRadio)
    BY <2>2
  <2>. QED
    BY <1>1, <2>2, <2>3, <2>4 DEF PotentialInv
<1>3. CASE LateResend \/ EarlyResend
  <2>1. /\ waiting \in ToPod /\ toPod' = Append(toPod, waiting) /\ waiting' = waiting
        /\ UNCHANGED <<opened, toRadio, attempts, losses>>
    BY <1>3 DEF LateResend, EarlyResend, Resend, podVars, radioVars, TypeOK
  <2>2. Due' = 0 /\ Len(toPod') = Len(toPod) + 1
    BY <2>1, RequestIsDue
  <2>3. DriveCount(toRadio') = DriveCount(toRadio)
    BY <2>1
  <2>4. CASE LateResend
    <3>1. waiting # Nothing /\ toPod = <<>> /\ toRadio = <<>> /\ UNCHANGED early
      BY <2>4 DEF LateResend, Resend
    <3>2. On(toPod) = {} /\ On(toRadio) = {}
      BY <3>1, OnFew
    <3>3. Due = 1
      BY <3>1, <3>2 DEF Due, Idle, Pending
    <3>. QED
      BY <1>1, <2>1, <2>2, <2>3, <3>1, <3>3 DEF PotentialInv
  <2>5. CASE EarlyResend
    <3>1. early' = early + 1
      BY <2>5 DEF EarlyResend
    <3>. QED
      BY <1>1, <2>1, <2>2, <2>3, <3>1 DEF PotentialInv
  <2>. QED
    BY <1>3, <2>4, <2>5
<1>4. CASE UNCHANGED vars
  <2>1. UNCHANGED <<opened, toPod, toRadio, waiting, attempts, early, losses>>
    BY <1>4 DEF vars, podVars, radioVars
  <2>2. Due' = Due /\ DriveCount(toRadio') = DriveCount(toRadio)
    BY <2>1 DEF Due, Idle, Pending
  <2>. QED
    BY <2>1, <2>2 DEF PotentialInv
<1>. QED
  BY <1>2, <1>3, <1>4

LEMMA LosePotential ==
    ASSUME TypeOK, PotentialInv, Lose
    PROVE  PotentialInv'
<1>1. /\ opened \in Nat /\ Len(toPod) \in Nat /\ DriveCount(toRadio) \in Nat
      /\ attempts \in Nat /\ early \in Nat /\ losses \in Nat
      /\ toPod \in Seq(ToPod) /\ toRadio \in Seq(ToRadio)
      /\ Due \in {0, 1} /\ (Due = 1 <=> Idle)
  BY PotentialTypes
<1>2. /\ losses' = losses + 1 /\ UNCHANGED <<opened, attempts, early>>
      /\ Due' \in {0, 1}
  BY DEF Lose, podVars, radioVars, Due
<1>3. CASE toPod # <<>> /\ toPod' = Tail(toPod) /\ UNCHANGED toRadio
  <2>1. Len(toPod') = Len(toPod) - 1
    BY <1>1, <1>3, TailFacts
  <2>2. DriveCount(toRadio') = DriveCount(toRadio)
    BY <1>3
  <2>. QED
    BY <1>1, <1>2, <2>1, <2>2 DEF PotentialInv
<1>4. CASE toRadio # <<>> /\ toRadio' = Tail(toRadio) /\ UNCHANGED toPod
  <2>1. /\ DriveCount(toRadio) = DriveCount(toRadio') + One(Head(toRadio))
        /\ One(Head(toRadio)) \in {0, 1} /\ toRadio' \in Seq(ToRadio)
    BY <1>1, <1>4, DrivesTail, OnTail DEF One
  <2>2. DriveCount(toRadio') \in Nat
    BY <2>1, DrivesFinite
  <2>3. Len(toPod') = Len(toPod)
    BY <1>4
  <2>4. DriveCount(toRadio') <= DriveCount(toRadio)
    BY <2>1, <2>2
  <2>5. Due' <= Due + 1
    BY <1>1, <1>2
  <2>. QED
    BY <1>1, <1>2, <2>2, <2>3, <2>4, <2>5 DEF PotentialInv
<1>. QED
  BY <1>3, <1>4 DEF Lose

\* NewiPodTrackInfo is sent at most once for each identification, each loss and
\* each impatience of the radio, for any number of them and in whatever order they
\* come: nothing that the pod does multiplies what the radio repeats.
THEOREM ReopeningsHaveCauses == Spec => []ReopenedForCause
<1>. DEFINE Inv == TypeOK /\ NumberInv /\ KindInv /\ PotentialInv
<1>1. Init => Inv
  <2>. SUFFICES ASSUME Init PROVE KindInv /\ PotentialInv
    BY HandshakeInit
  <2>1. /\ toPod = <<>> /\ toRadio = <<>> /\ waiting = Nothing /\ opened = 0
        /\ attempts = 0 /\ early = 0 /\ losses = 0 /\ Len(toPod) = 0
    BY DEF Init
  <2>2. KindInv
    BY <2>1, OnFew DEF KindInv
  <2>3. DriveCount(toRadio) = 0 /\ Due = 0
    BY <2>1, DrivesEmpty DEF Due, Idle
  <2>4. PotentialInv
    BY <2>1, <2>3 DEF PotentialInv
  <2>. QED
    BY <2>2, <2>4
<1>2. Inv /\ [Next]_vars => Inv'
  <2>. SUFFICES ASSUME Inv, [Next]_vars PROVE PotentialInv'
    BY HandshakeTypeStep, KindStep
  <2>1. TypeOK'
    BY HandshakeTypeStep
  <2>. QED
    BY <2>1, PodPotential, RadioPotential, OtherPotential, LosePotential DEF Next
<1>3. Inv => ReopenedForCause
  BY PotentialTypes DEF PotentialInv, ReopenedForCause
<1>. QED
  BY <1>1, <1>2, <1>3, PTL DEF Spec

=============================================================================
