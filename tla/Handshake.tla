------------------------------ MODULE Handshake ------------------------------
(***************************************************************************)
(* From StartIDPS to an open audio stream: HandleGeneral and HandleAudio   *)
(* with DevGeneral, against a radio that identifies itself, presents its   *)
(* certificate, signs a challenge and tells its sample rates.              *)
(*                                                                         *)
(* The handlers keep almost no state and answer what comes, so the order   *)
(* of things rests on the radio (external).  It numbers its requests, takes *)
(* only the answer to the one it waits for, sends it again on a timeout,   *)
(* serves whatever the pod requests, and may start over.  The link keeps   *)
(* the order; it loses messages, for sendCmds only logs a failed write.    *)
(*                                                                         *)
(* A section of the certificate is its number.  The FID tokens of a request *)
(* are the attempt they belong to, and whether all are known to the pod, one *)
(* is of an unknown type, or one is broken: an accessory info of a type that *)
(* is not known, or too short.                                             *)
(***************************************************************************)
EXTENDS Naturals, Sequences, SequencesExt

CONSTANTS
    MaxSection,    \* CertMaxSection of the radio's certificate
    Versions,      \* the major versions of authentication a radio may have
    Statuses,      \* the statuses with which it may end IDPS
    TokenKinds,    \* what tokens it may have: "known", "unknown", "broken"
    MaxTokens,     \* bound on the tokens the pod has when a request is repeated
    MaxAttempts,   \* bound on how often it starts IDPS
    MaxEarly,      \* bound on timeouts while the answer is still under way
    MaxLosses,     \* bound on losses
    Losable        \* the commands that may be lost

ASSUME HandshakeAssumption ==
    /\ MaxSection \in Nat
    /\ Versions \subseteq Nat
    /\ Statuses \subseteq {"Continue", "Reset", "Abandon", "NewLink"}
    /\ TokenKinds \subseteq {"known", "unknown", "broken"}
    /\ {MaxTokens, MaxAttempts, MaxEarly, MaxLosses} \subseteq Nat

VARIABLES
    devCertBuf,    \* the certificate sections received
    tokens,        \* DevGeneral.tokens
    accepted,      \* devCertBuf at the last AckDevAuthenticationInfo (ghost)
    opened,        \* number of NewiPodTrackInfo sent (ghost)
    toPod,         \* commands on the way from the radio
    toRadio,       \* commands on the way to it
    radio,         \* "start", "identifying", "streaming" or "stopped" (external)
    version,       \* its authentication version (external)
    kind,          \* what its tokens are (external)
    waiting,       \* the request it wants an answer to, or Nothing (external)
    trx,           \* number of requests it has made (external)
    attempts,      \* number of times it has started IDPS (external)
    early, losses  \* counters for the bounds

podVars == <<devCertBuf, tokens, accepted, opened>>
radioVars == <<radio, version, kind, waiting, trx, attempts>>
vars == <<podVars, toPod, toRadio, radioVars, early, losses>>

Requests == {"StartIDPS", "SetFIDTokenValues", "EndIDPS", "RetDevAuthenticationInfo",
             "RetDevAuthenticationSignature", "RetAccSampleRateCaps"}
Answers == {"ACK", "RetFIDTokenValueACKs", "IDPSStatus", "AckDevAuthenticationInfo",
            "AckDevAuthenticationStatus", "AccAck"}
PodRequests == {"GetDevAuthenticationInfo", "GetDevAuthenticationSignatureV2",
                "GetAccSampleRateCaps", "NewiPodTrackInfo"}
AnyStatus == Statuses \cup TokenKinds \cup {"OK", "TimeLimitNotExceeded", "WillNotAccept", "none"}

\* part is a section or an attempt, 0 where there is none.
Nothing == [cmd |-> "none", status |-> "none", trx |-> 0, part |-> 0]
Certificate == [i \in 1..(MaxSection + 1) |-> i - 1]

Init ==
    /\ devCertBuf = <<>> /\ tokens = <<>>
    /\ accepted = <<>> /\ opened = 0
    /\ toPod = <<>> /\ toRadio = <<>>
    /\ radio = "start"
    /\ version \in Versions /\ kind \in TokenKinds
    /\ waiting = Nothing
    /\ trx = 0 /\ attempts = 0
    /\ early = 0 /\ losses = 0

-----------------------------------------------------------------------------
(* The pod: one command is taken, its handler runs, its answers are sent. *)

\* Respond copies the transaction of the request; Send is a request of the pod.
RespondStatus(req, cmd, status) ==
    [cmd |-> cmd, status |-> status, trx |-> req.trx, part |-> req.part]
Respond(req, cmd) == RespondStatus(req, cmd, "none")
Send(cmd) == [Nothing EXCEPT !.cmd = cmd]

Reply(cmds) == toRadio' = toRadio \o cmds

\* Mutation of StartIDPS: the tokens of the last attempt are kept.
StartIDPSKeeps(req) ==
    /\ req.cmd = "StartIDPS"
    /\ Reply(<<Respond(req, "ACK")>>)
    /\ UNCHANGED podVars

StartIDPS(req) ==
    /\ req.cmd = "StartIDPS"
    /\ tokens' = <<>>
    /\ Reply(<<Respond(req, "ACK")>>)
    /\ UNCHANGED <<devCertBuf, accepted, opened>>

\* FIDTokenValue.UnmarshalBinary: a token of an unknown type is kept as bytes, but
\* an error in one leaves the request without a payload.
Unmarshalled(k) == k # "broken"

\* ackFIDTokenValue, and the MarshalBinary of its result: nothing is written of an
\* answer with one that it has no acknowledgement for.
Acknowledged(k) == k = "known"

SetFIDTokenValues(req) ==
    /\ req.cmd = "SetFIDTokenValues"
    /\ tokens' = IF Unmarshalled(req.status) THEN Append(tokens, req.part) ELSE tokens
    /\ Reply(IF Acknowledged(req.status) THEN <<Respond(req, "RetFIDTokenValueACKs")>> ELSE <<>>)
    /\ UNCHANGED <<devCertBuf, accepted, opened>>

\* Mutation of EndIDPS: it is left to the radio to go on.
EndIDPSOnly(req) ==
    /\ req.cmd = "EndIDPS"
    /\ Reply(IF req.status = "NewLink" THEN <<>> ELSE <<RespondStatus(req, "IDPSStatus", "OK")>>)
    /\ UNCHANGED podVars

EndIDPS(req) ==
    /\ req.cmd = "EndIDPS"
    /\ \/ /\ req.status = "Continue"
          /\ Reply(<<RespondStatus(req, "IDPSStatus", "OK"), Send("GetDevAuthenticationInfo")>>)
       \/ /\ req.status = "Reset"
          /\ Reply(<<RespondStatus(req, "IDPSStatus", "TimeLimitNotExceeded")>>)
       \/ /\ req.status = "Abandon"
          /\ Reply(<<RespondStatus(req, "IDPSStatus", "WillNotAccept")>>)
       \/ /\ req.status = "NewLink"
          /\ UNCHANGED toRadio
    /\ UNCHANGED podVars

\* Mutation of Accumulate: the first section does not start afresh.
AccumulateOnly(section) == Append(devCertBuf, section)

\* devCertBuf after a section: the first one starts afresh.
Accumulate(section) == Append(IF section = 0 THEN <<>> ELSE devCertBuf, section)

\* Mutation of RetDevAuthenticationInfo: the last section is not seen as such.
RetDevAuthenticationInfoLate(req) ==
    /\ req.cmd = "RetDevAuthenticationInfo"
    /\ version >= 2
    /\ devCertBuf' = Accumulate(req.part)
    /\ IF req.part <= MaxSection
       THEN Reply(<<Respond(req, "ACK")>>) /\ UNCHANGED accepted
       ELSE /\ Reply(<<Respond(req, "AckDevAuthenticationInfo"),
                       Send("GetDevAuthenticationSignatureV2")>>)
            /\ accepted' = devCertBuf'
    /\ UNCHANGED <<tokens, opened>>

\* A section of the certificate; after the last, the challenge.
RetDevAuthenticationInfo(req) ==
    /\ req.cmd = "RetDevAuthenticationInfo"
    /\ version >= 2
    /\ devCertBuf' = Accumulate(req.part)
    /\ IF req.part < MaxSection
       THEN Reply(<<Respond(req, "ACK")>>) /\ UNCHANGED accepted
       ELSE /\ Reply(<<Respond(req, "AckDevAuthenticationInfo"),
                       Send("GetDevAuthenticationSignatureV2")>>)
            /\ accepted' = devCertBuf'
    /\ UNCHANGED <<tokens, opened>>

\* Version 1 has no certificate: it is acknowledged and nothing follows.
RetDevAuthenticationInfoV1(req) ==
    /\ req.cmd = "RetDevAuthenticationInfo"
    /\ version < 2
    /\ Reply(<<Respond(req, "AckDevAuthenticationInfo")>>)
    /\ UNCHANGED podVars

\* The signature is taken as it is; OnAuthenticationComplete starts the audio.
RetDevAuthenticationSignature(req) ==
    /\ req.cmd = "RetDevAuthenticationSignature"
    /\ Reply(<<Respond(req, "AckDevAuthenticationStatus"), Send("GetAccSampleRateCaps")>>)
    /\ UNCHANGED podVars

\* Mutation of RetAccSampleRateCaps: the rate is told twice.
RetAccSampleRateCapsTwice(req) ==
    /\ req.cmd = "RetAccSampleRateCaps"
    /\ Reply(<<Respond(req, "AccAck"), Send("NewiPodTrackInfo"), Send("NewiPodTrackInfo")>>)
    /\ opened' = opened + 2
    /\ UNCHANGED <<devCertBuf, tokens, accepted>>

\* HandleAudio.
RetAccSampleRateCaps(req) ==
    /\ req.cmd = "RetAccSampleRateCaps"
    /\ Reply(<<Respond(req, "AccAck"), Send("NewiPodTrackInfo")>>)
    /\ opened' = opened + 1
    /\ UNCHANGED <<devCertBuf, tokens, accepted>>

Handle(req) ==
    \/ StartIDPS(req) \/ SetFIDTokenValues(req) \/ EndIDPS(req)
    \/ RetDevAuthenticationInfo(req) \/ RetDevAuthenticationInfoV1(req)
    \/ RetDevAuthenticationSignature(req) \/ RetAccSampleRateCaps(req)

PodHandles ==
    /\ toPod # <<>>
    /\ toPod' = Tail(toPod)
    /\ Handle(Head(toPod))
    /\ UNCHANGED <<radioVars, early, losses>>

-----------------------------------------------------------------------------
(* The radio (external). *)

RequestStatus(cmd, status, part) ==
    LET m == [cmd |-> cmd, status |-> status, trx |-> trx + 1, part |-> part] IN
    /\ toPod' = Append(toPod, m)
    /\ trx' = trx + 1
    /\ waiting' = IF status = "NewLink" THEN Nothing ELSE m
Request(cmd, part) == RequestStatus(cmd, "none", part)

Identify ==
    /\ attempts < MaxAttempts
    /\ attempts' = attempts + 1
    /\ radio' = "identifying"
    /\ Request("StartIDPS", 0)
    /\ UNCHANGED <<podVars, toRadio, version, kind, early, losses>>

Start == radio = "start" /\ Identify
StartOver == radio # "start" /\ Identify

\* The answer it waits for: the next request, or it waits for the pod.
RadioGoesOn(r) ==
    /\ r.cmd \in Answers /\ r.trx = waiting.trx
    /\ \/ /\ waiting.cmd = "StartIDPS"
          /\ RequestStatus("SetFIDTokenValues", kind, attempts)
          /\ UNCHANGED radio
       \/ /\ waiting.cmd = "SetFIDTokenValues"
          /\ \E status \in Statuses :
                /\ RequestStatus("EndIDPS", status, 0)
                /\ radio' = IF status = "NewLink" THEN "stopped" ELSE radio
       \/ /\ r.cmd = "IDPSStatus"
          /\ waiting' = Nothing
          /\ \/ r.status = "OK" /\ UNCHANGED radio
             \/ r.status = "TimeLimitNotExceeded" /\ radio' = "start"
             \/ r.status = "WillNotAccept" /\ radio' = "stopped"
          /\ UNCHANGED <<toPod, trx>>
       \/ /\ waiting.cmd = "RetDevAuthenticationInfo" /\ r.cmd = "ACK"
          /\ Request("RetDevAuthenticationInfo", r.part + 1)
          /\ UNCHANGED radio
       \/ /\ r.cmd \in {"AckDevAuthenticationInfo", "AckDevAuthenticationStatus", "AccAck"}
          /\ waiting' = Nothing
          /\ UNCHANGED <<radio, toPod, trx>>

\* It has given up the request that this answers.
RadioIgnores(r) ==
    /\ r.cmd \in Answers /\ r.trx # waiting.trx
    /\ UNCHANGED <<radio, waiting, toPod, trx>>

RadioServes(r) ==
    \/ /\ r.cmd = "GetDevAuthenticationInfo"
       /\ Request("RetDevAuthenticationInfo", 0)
       /\ UNCHANGED radio
    \/ /\ r.cmd = "GetDevAuthenticationSignatureV2"
       /\ Request("RetDevAuthenticationSignature", 0)
       /\ UNCHANGED radio
    \/ /\ r.cmd = "GetAccSampleRateCaps"
       /\ Request("RetAccSampleRateCaps", 0)
       /\ UNCHANGED radio
    \/ /\ r.cmd = "NewiPodTrackInfo"
       /\ radio' = "streaming"
       /\ UNCHANGED <<waiting, toPod, trx>>

RadioReceives ==
    /\ toRadio # <<>>
    /\ toRadio' = Tail(toRadio)
    /\ RadioGoesOn(Head(toRadio)) \/ RadioIgnores(Head(toRadio)) \/ RadioServes(Head(toRadio))
    /\ UNCHANGED <<podVars, version, kind, attempts, early, losses>>

\* A timeout: nothing is under way any more, or the radio was impatient.
Resend ==
    /\ waiting # Nothing
    /\ toPod' = Append(toPod, waiting)
    /\ UNCHANGED <<podVars, toRadio, radioVars, losses>>

LateResend ==
    /\ toPod = <<>> /\ toRadio = <<>>
    /\ Len(tokens) < MaxTokens
    /\ Resend
    /\ UNCHANGED early
EarlyResend ==
    /\ toPod # <<>> \/ toRadio # <<>>
    /\ early < MaxEarly
    /\ early' = early + 1
    /\ Resend

Lose ==
    /\ losses < MaxLosses
    /\ losses' = losses + 1
    /\ \/ /\ toPod # <<>> /\ Head(toPod).cmd \in Losable
          /\ toPod' = Tail(toPod) /\ UNCHANGED toRadio
       \/ /\ toRadio # <<>> /\ Head(toRadio).cmd \in Losable
          /\ toRadio' = Tail(toRadio) /\ UNCHANGED toPod
    /\ UNCHANGED <<podVars, radioVars, early>>

-----------------------------------------------------------------------------
Next ==
    \/ PodHandles
    \/ Start \/ StartOver \/ RadioReceives \/ LateResend \/ EarlyResend
    \/ Lose

Spec == Init /\ [][Next]_vars

\* The pod's main loop is scheduled; the radio starts, listens, and times out.
FairSpec ==
    /\ Spec
    /\ WF_vars(PodHandles)
    /\ WF_vars(Start) /\ WF_vars(RadioReceives) /\ WF_vars(LateResend)

-----------------------------------------------------------------------------
(* Correctness. *)

ToPod == [cmd : Requests, status : AnyStatus, trx : Nat, part : Nat]
ToRadio == [cmd : Answers \cup PodRequests, status : AnyStatus, trx : Nat, part : Nat]

\* Every variable has its type; no section beyond the last is asked for.
TypeOK ==
    /\ devCertBuf \in Seq(0..MaxSection) /\ accepted \in Seq(0..MaxSection)
    /\ tokens \in Seq(1..MaxAttempts)
    /\ opened \in Nat /\ trx \in Nat
    /\ toPod \in Seq(ToPod) /\ toRadio \in Seq(ToRadio)
    /\ radio \in {"start", "identifying", "streaming", "stopped"}
    /\ version \in Versions /\ kind \in TokenKinds
    /\ waiting \in ToPod \cup {Nothing}
    /\ attempts \in 0..MaxAttempts /\ early \in 0..MaxEarly /\ losses \in 0..MaxLosses

\* Tokens of different attempts never mix, however the attempts overlap.
TokensOfOneAttempt == \A i, j \in DOMAIN tokens : tokens[i] = tokens[j]

\* What is accepted as a certificate lacks no section and has them in order,
\* whatever is lost; a section is in it twice only if it was sent again.  ("All
\* certificate sections received, acknowledging final section".)
CertGapFree ==
    accepted # <<>> =>
        /\ accepted[1] = 0 /\ Last(accepted) = MaxSection
        /\ \A i \in 1..(Len(accepted) - 1) : accepted[i + 1] \in {accepted[i], accepted[i] + 1}
        /\ early = 0 /\ losses = 0 => accepted = Certificate

\* An identification opens the audio stream, and what opens it again has a cause
\* of its own on the radio's side or on the link: one more identification, one
\* message lost, one timeout before the answer.  The pod does not multiply them;
\* but it does not suppress them either: NewiPodTrackInfo goes out at each, though
\* it "must be sent once when starting a new track, and re-sent only if the sample
\* rate changes", and the rate is the same.
ReopenedForCause == opened <= attempts + early + losses

\* A radio that has no token the pod does not know, and that proves itself by a
\* certificate, never waits for ever, whatever requests of it and answers to it
\* are lost: it gets its audio stream or has ended the identification otherwise.
Streams == version >= 2 /\ kind = "known" => <>[](radio # "identifying")
=============================================================================
