------------------------------- MODULE Session -------------------------------
(***************************************************************************)
(* processFrames(): one session with a radio.  Three goroutines:           *)
(*                                                                         *)
(*  - the main loop takes a frame, asks for the next one to be read, parses *)
(*    all packets of the frame, handles all commands and writes the answers; *)
(*  - the reader runs one ReadFrame and passes the result on frameCh;      *)
(*  - with --request-identify, a goroutine sends RequestIdentify every 3 s *)
(*    until handshakeDone.                                                 *)
(*                                                                         *)
(* The main loop and the reader share the decoder's buffer: the frame that *)
(* ReadFrame returned is a slice of the buffer the next ReadFrame fills.   *)
(* All three share the CommandSerde, whose TrxEnabled says whether packets *)
(* carry a transaction id.                                                 *)
(*                                                                         *)
(* A command is its number in the order of sending, its lingo and name, the *)
(* type and size of its payload, whether it carries a transaction, and the *)
(* number of the last command of its frame.  Handlers answer as Messages   *)
(* says; of what they do, here is the change of the UI mode, and more is in *)
(* Handshake and RadioSync.  The notify branch of the loop is in RadioSync, *)
(* the ticker's in Position.                                               *)
(***************************************************************************)
EXTENDS Naturals, Messages, SequencesExt

CONSTANTS
    FrameKinds,    \* what a frame of the radio may carry: sequences of messages
    MaxFrames,     \* bound on the frames a patient radio sends
    MaxRush,       \* bound on the frames an impatient one sends
    MaxErrors,     \* bound on failing reads
    MayEnd,        \* TRUE: a read may find the end of the stream
    SendIdentify,  \* --request-identify: the values it may have
    Patience       \* TRUE: a radio may be patient, and send a frame only once
                   \* the last is served; FALSE: it may be impatient

\* A type of UnknownPayload is none that is registered.
Message == [lingo : Lingoes, id : STRING, type : Nat, size : Nat]

\* What a radio sends: not RequestIdentify, which is the pod's to send; and of the
\* registered types those that are told from their length alone, if it is fixed,
\* else from length and mode.  (MessagesUnderstood: all that a handler serves are.)
Sendable(m) ==
    /\ m.id # "RequestIdentify"
    /\ \A trx, enabled \in BOOLEAN :
          m.type # UnknownPayload /\ (Fixed(Sizes(m.lingo, m.id)[1]) \/ trx = enabled)
              => ReadsBack(Sizes(m.lingo, m.id), m.type, m.size, trx, enabled)

ASSUME SessionAssumption ==
    /\ FrameKinds \subseteq Seq(Message) \ {<<>>}
    /\ \A kinds \in FrameKinds : \A i \in DOMAIN kinds : Sendable(kinds[i])
    /\ MaxFrames \in Nat /\ MaxRush \in 0..MaxFrames /\ MaxErrors \in Nat
    /\ MayEnd \in BOOLEAN
    /\ SendIdentify \subseteq BOOLEAN /\ Patience \subseteq BOOLEAN

VARIABLES
    mainPc, retryPc, readPc,    \* next step of each goroutine
    handshakeDone,
    trxEnabled,                 \* serde.TrxEnabled
    frameCh,                    \* frameCh: sequence of at most one result
    data,                       \* fr.data, as its bytes are now
    pos,                        \* packetReader: next packet of it
    fresh,                      \* what the running ReadFrame has stored
    aliased,                    \* its buffer is still the array under data
    inCmds, outCmds,            \* inCmdBuf, outCmdBuf
    inbound,                    \* frames on the way from the radio
    radioTrx,                   \* the radio's packets carry transactions (external)
    patient,                    \* it is a patient one (external)
    ready,                      \* the USB device is enumerated (external)
    asked,                      \* a RequestIdentify has reached the radio (ghost)
    extended,                   \* dev.UIMode() is UIModeExtended
    commands,                   \* every command the radio sent (ghost)
    handled,                    \* the commands handled, as read and in order (ghost)
    answers,                    \* answers written, with their request's number (ghost)
    frames, errors              \* counters for the bounds

mainVars == <<mainPc, handshakeDone, data, pos, inCmds, outCmds, extended>>
readVars == <<readPc, fresh, aliased>>
radioVars == <<radioTrx, patient, ready, commands, frames>>
ghosts == <<handled, answers>>
vars == <<mainVars, retryPc, readVars, trxEnabled, frameCh, inbound, radioVars,
          asked, ghosts, errors>>

Init ==
    /\ mainPc \in {IF identify THEN "identify" ELSE "startRead" : identify \in SendIdentify}
    /\ retryPc = "off" /\ readPc = "off"
    /\ handshakeDone = FALSE
    /\ trxEnabled = FALSE
    /\ frameCh = <<>>
    /\ data = <<>> /\ pos = 1
    /\ fresh = <<>> /\ aliased = FALSE
    /\ inCmds = <<>> /\ outCmds = <<>> /\ extended = FALSE
    /\ inbound = <<>>
    /\ radioTrx = FALSE /\ patient \in Patience /\ ready \in BOOLEAN
    /\ asked = FALSE
    /\ commands = <<>> /\ handled = <<>> /\ answers = {}
    /\ frames = 0 /\ errors = 0

-----------------------------------------------------------------------------
(* CommandSerde. *)

\* UnmarshalCmd, after handleCmdID.
ReadCommand(c, enabled) ==
    LET r == Unmarshal(Sizes(c.lingo, c.id), c.size + Len2(c.trx), enabled)
    IN [c EXCEPT !.type = r.type, !.trx = r.trx, !.size = r.size]

\* EnterRemoteUIMode and ExitRemoteUIMode in the other mode.
SwitchesMode(c, ui) ==
    c.type = 1 /\ c.id = IF ui THEN "ExitRemoteUIMode" ELSE "EnterRemoteUIMode"

\* The last answer to a command: its name, or "" if there is none.  Only the
\* General handler answers an unknown one.
LastAnswer(c) ==
    CASE c.type = UnknownPayload /\ c.lingo = "General" -> "ACK"
      [] c.type > 0 /\ c.id \in DOMAIN Answers[c.lingo] /\ <<c.id, c.type>> \notin Unhandled ->
           Answers[c.lingo][c.id]
      [] OTHER -> ""

\* handlePacket: what Respond is called with for a command.  A switch of modes is
\* acknowledged as pending first.  An answer has the transaction of its request.
Answer(c, id, type) == [n |-> c.n, lingo |-> c.lingo, id |-> id, type |-> type, trx |-> c.trx]
Responses(c, ui) ==
    IF LastAnswer(c) = "" THEN <<>>
    ELSE (IF SwitchesMode(c, ui) THEN <<Answer(c, "ACK", 2)>> ELSE <<>>)
           \o <<Answer(c, LastAnswer(c), 1)>>

\* The handler may find that it has no answer to what is asked.
MayRefuse(c) == c.type > 0 /\ <<c.lingo, c.id>> \in ByArgument

\* MarshalCmd: what goes on the wire of an answer; nothing if it cannot be
\* written.
Written(a) == Encodable(Sizes(a.lingo, a.id)[a.type])
Marshal(a) == [n |-> a.n, id |-> a.id, type |-> a.type, trx |-> trxEnabled /\ a.trx]

-----------------------------------------------------------------------------
(* The main loop. *)

\* sendRI(): MarshalCmd turns transactions off; before the device is
\* enumerated the report is silently dropped.
SendRequestIdentify ==
    /\ trxEnabled' = HandleCmdID("RequestIdentify", trxEnabled)
    /\ asked' = (asked \/ ready)

IdentifyFirst ==
    /\ mainPc = "identify"
    /\ SendRequestIdentify
    /\ retryPc' = "wait"
    /\ mainPc' = "startRead"
    /\ UNCHANGED <<handshakeDone, data, pos, inCmds, outCmds, extended, readVars, frameCh,
                   inbound, radioVars, ghosts, errors>>

FirstRead ==
    /\ mainPc = "startRead"
    /\ readPc' = "reading"
    /\ mainPc' = "select"
    /\ UNCHANGED <<handshakeDone, data, pos, inCmds, outCmds, extended, retryPc, fresh, aliased,
                   trxEnabled, frameCh, inbound, radioVars, asked, ghosts, errors>>

\* `case fr := <-frameCh' at the end of the stream: processFrames returns.
ReceiveEOF ==
    /\ mainPc = "select"
    /\ frameCh # <<>>
    /\ Head(frameCh).err = "EOF"
    /\ frameCh' = <<>>
    /\ mainPc' = "returned"
    /\ UNCHANGED <<handshakeDone, data, pos, inCmds, outCmds, extended, retryPc, readVars,
                   trxEnabled, inbound, radioVars, asked, ghosts, errors>>

\* `case fr := <-frameCh', up to startRead().  Any other result, an error too,
\* ends the repetition of RequestIdentify.
ReceiveFrame ==
    /\ mainPc = "select"
    /\ frameCh # <<>>
    /\ Head(frameCh).err # "EOF"
    /\ frameCh' = <<>>
    /\ handshakeDone' = TRUE
    /\ data' = Head(frameCh).data
    /\ pos' = 1
    /\ mainPc' = IF Head(frameCh).err = "error" THEN "readAgain" ELSE "readNext"
    /\ UNCHANGED <<inCmds, outCmds, extended, retryPc, readVars, trxEnabled, inbound,
                   radioVars, asked, ghosts, errors>>

\* Mutation of StartRead: after an error the loop goes on without it.
StartReadUnlessError ==
    /\ mainPc \in {"readNext", "readAgain"}
    /\ mainPc' = IF mainPc = "readNext" THEN "parse" ELSE "select"
    /\ IF mainPc = "readNext"
       THEN readPc' = "reading" /\ fresh' = <<>> /\ aliased' = TRUE
       ELSE UNCHANGED readVars
    /\ UNCHANGED <<handshakeDone, data, pos, inCmds, outCmds, extended, retryPc, trxEnabled,
                   frameCh, inbound, radioVars, asked, ghosts, errors>>

\* startRead(): the next ReadFrame resets the buffer that fr.data lies in.
\* After an error that is all.
StartRead ==
    /\ mainPc \in {"readNext", "readAgain"}
    /\ readPc' = "reading"
    /\ fresh' = <<>>
    /\ aliased' = TRUE
    /\ mainPc' = IF mainPc = "readNext" THEN "parse" ELSE "select"
    /\ UNCHANGED <<handshakeDone, data, pos, inCmds, outCmds, extended, retryPc, trxEnabled,
                   frameCh, inbound, radioVars, asked, ghosts, errors>>

\* ReadPacket, UnmarshalCmd, WriteCommand to inCmdBuf.
ParsePacket ==
    /\ mainPc = "parse"
    /\ pos <= Len(data)
    /\ trxEnabled' = HandleCmdID(data[pos].id, trxEnabled)
    /\ inCmds' = Append(inCmds, ReadCommand(data[pos], trxEnabled'))
    /\ pos' = pos + 1
    /\ UNCHANGED <<mainPc, handshakeDone, data, outCmds, extended, retryPc, readVars, frameCh,
                   inbound, radioVars, asked, ghosts, errors>>

\* The reader is storing these very bytes: the checksum fails.
ParseTorn ==
    /\ mainPc = "parse"
    /\ pos <= Len(data)
    /\ readPc = "reading" /\ aliased /\ inbound # <<>>
    /\ pos = Len(fresh) + 1
    /\ pos' = pos + 1
    /\ UNCHANGED <<mainPc, handshakeDone, data, inCmds, outCmds, extended, retryPc, readVars,
                   trxEnabled, frameCh, inbound, radioVars, asked, ghosts, errors>>

\* io.EOF of the packet reader.
AllParsed ==
    /\ mainPc = "parse"
    /\ pos > Len(data)
    /\ data' = <<>>
    /\ mainPc' = "handle"
    /\ UNCHANGED <<handshakeDone, pos, inCmds, outCmds, extended, retryPc, readVars,
                   trxEnabled, frameCh, inbound, radioVars, asked, ghosts, errors>>

\* Mutation of HandlePacket: the last command comes first.
HandlePacketLast ==
    /\ mainPc = "handle"
    /\ inCmds # <<>>
    /\ LET c == Last(inCmds) IN
          /\ handled' = Append(handled, c)
          /\ \/ outCmds' = outCmds \o Responses(c, extended)
             \/ MayRefuse(c) /\ UNCHANGED outCmds
          /\ extended' = (extended # SwitchesMode(c, extended))
    /\ inCmds' = Front(inCmds)
    /\ UNCHANGED <<mainPc, handshakeDone, data, pos, retryPc, readVars, trxEnabled,
                   frameCh, inbound, radioVars, asked, answers, errors>>

\* handlePacket for one command.
HandlePacket ==
    /\ mainPc = "handle"
    /\ inCmds # <<>>
    /\ LET c == Head(inCmds) IN
          /\ handled' = Append(handled, c)
          /\ \/ outCmds' = outCmds \o Responses(c, extended)
             \/ MayRefuse(c) /\ UNCHANGED outCmds
          /\ extended' = (extended # SwitchesMode(c, extended))
    /\ inCmds' = Tail(inCmds)
    /\ UNCHANGED <<mainPc, handshakeDone, data, pos, retryPc, readVars, trxEnabled,
                   frameCh, inbound, radioVars, asked, answers, errors>>

\* Then sendCmds.
AllHandled ==
    /\ mainPc = "handle"
    /\ inCmds = <<>>
    /\ mainPc' = "send"
    /\ UNCHANGED <<handshakeDone, data, pos, inCmds, outCmds, extended, retryPc, readVars,
                   trxEnabled, frameCh, inbound, radioVars, asked, ghosts, errors>>

\* Mutation of SendAnswer: sendCmds gives up when an answer cannot be written.
SendAnswerOrStop ==
    /\ mainPc = "send"
    /\ outCmds # <<>>
    /\ answers' = answers \cup
         (IF Written(Head(outCmds)) THEN {Marshal(Head(outCmds))} ELSE {})
    /\ outCmds' = IF Written(Head(outCmds)) THEN Tail(outCmds) ELSE <<>>
    /\ UNCHANGED <<mainPc, handshakeDone, data, pos, inCmds, extended, retryPc, readVars,
                   trxEnabled, frameCh, inbound, radioVars, asked, handled, errors>>

\* One turn of sendCmds.
SendAnswer ==
    /\ mainPc = "send"
    /\ outCmds # <<>>
    /\ answers' = answers \cup
         (IF Written(Head(outCmds)) THEN {Marshal(Head(outCmds))} ELSE {})
    /\ outCmds' = Tail(outCmds)
    /\ UNCHANGED <<mainPc, handshakeDone, data, pos, inCmds, extended, retryPc, readVars,
                   trxEnabled, frameCh, inbound, radioVars, asked, handled, errors>>

\* Mutation of BackToSelect: it asks for a frame as well.
BackToSelectReads ==
    /\ mainPc = "send"
    /\ outCmds = <<>>
    /\ mainPc' = "select"
    /\ readPc' = "reading" /\ fresh' = <<>>
    /\ UNCHANGED <<handshakeDone, data, pos, inCmds, outCmds, extended, retryPc, aliased,
                   trxEnabled, frameCh, inbound, radioVars, asked, ghosts, errors>>

BackToSelect ==
    /\ mainPc = "send"
    /\ outCmds = <<>>
    /\ mainPc' = "select"
    /\ UNCHANGED <<handshakeDone, data, pos, inCmds, outCmds, extended, retryPc, readVars,
                   trxEnabled, frameCh, inbound, radioVars, asked, ghosts, errors>>

-----------------------------------------------------------------------------
(* The goroutine that repeats RequestIdentify. *)

\* The ticker is stopped when processFrames returns.
RetryCheck ==
    /\ retryPc = "wait"
    /\ mainPc # "returned"
    /\ retryPc' = IF handshakeDone THEN "stopped" ELSE "send"
    /\ UNCHANGED <<mainVars, readVars, trxEnabled, frameCh, inbound, radioVars,
                   asked, ghosts, errors>>

\* Mutation of RetrySend: one repetition only.
RetrySendOnce ==
    /\ retryPc = "send"
    /\ SendRequestIdentify
    /\ retryPc' = "stopped"
    /\ UNCHANGED <<mainVars, readVars, frameCh, inbound, radioVars, ghosts, errors>>

RetrySend ==
    /\ retryPc = "send"
    /\ SendRequestIdentify
    /\ retryPc' = "wait"
    /\ UNCHANGED <<mainVars, readVars, frameCh, inbound, radioVars, ghosts, errors>>

-----------------------------------------------------------------------------
(* The reader. *)

\* A packet's worth of the next frame is stored, over the bytes of the last
\* frame unless the buffer has grown and moved.
StorePacket ==
    /\ readPc = "reading"
    /\ inbound # <<>>
    /\ Len(fresh) < Len(Head(inbound))
    /\ LET i == Len(fresh) + 1
           c == Head(inbound)[i]
       IN /\ fresh' = Append(fresh, c)
          /\ aliased' \in {FALSE, aliased}
          /\ data' = IF aliased' /\ i <= Len(data) THEN [data EXCEPT ![i] = c] ELSE data
    /\ UNCHANGED <<mainPc, handshakeDone, pos, inCmds, outCmds, extended, retryPc, readPc,
                   trxEnabled, frameCh, inbound, radioVars, asked, ghosts, errors>>

ReadFrameReturns ==
    /\ readPc = "reading"
    /\ inbound # <<>>
    /\ fresh = Head(inbound)
    /\ frameCh' = <<[err |-> "none", data |-> fresh]>>
    /\ inbound' = Tail(inbound)
    /\ readPc' = "off"
    /\ UNCHANGED <<mainVars, retryPc, fresh, aliased, trxEnabled, radioVars, asked,
                   ghosts, errors>>

ReadFrameFails ==
    /\ readPc = "reading"
    /\ fresh = <<>>
    /\ errors < MaxErrors
    /\ errors' = errors + 1
    /\ frameCh' = <<[err |-> "error", data |-> <<>>]>>
    /\ readPc' = "off"
    /\ UNCHANGED <<mainVars, retryPc, fresh, aliased, trxEnabled, inbound, radioVars,
                   asked, ghosts>>

ReadFrameEnds ==
    /\ readPc = "reading"
    /\ fresh = <<>>
    /\ MayEnd
    /\ frameCh' = <<[err |-> "EOF", data |-> <<>>]>>
    /\ readPc' = "off"
    /\ UNCHANGED <<mainVars, retryPc, fresh, aliased, trxEnabled, inbound, radioVars,
                   asked, ghosts, errors>>

-----------------------------------------------------------------------------
(* The radio (external). *)

\* Whether the i-th command of a frame carries a transaction: StartIDPS and what
\* follows it does, IdentifyDeviceLingoes and what follows it does not.
Trx(kinds, i) ==
    \/ radioTrx /\ \A k \in 1..i : kinds[k].id # "IdentifyDeviceLingoes"
    \/ \E j \in 1..i :
          /\ kinds[j].id = "StartIDPS"
          /\ \A k \in j + 1..i : kinds[k].id # "IdentifyDeviceLingoes"
Frame(kinds) ==
    [i \in DOMAIN kinds |->
        [n |-> Len(commands) + i, lingo |-> kinds[i].lingo, id |-> kinds[i].id,
         type |-> kinds[i].type, size |-> kinds[i].size, trx |-> Trx(kinds, i),
         last |-> Len(commands) + Len(kinds)]]

Served == inbound = <<>> /\ frameCh = <<>> /\ mainPc = "select"

SendFrame(kinds) ==
    /\ ready
    /\ frames < IF patient THEN MaxFrames ELSE MaxRush
    /\ patient => Served
    /\ frames' = frames + 1
    /\ inbound' = Append(inbound, Frame(kinds))
    /\ commands' = commands \o Frame(kinds)
    /\ radioTrx' = Trx(kinds, Len(kinds))
    /\ UNCHANGED <<mainVars, retryPc, readVars, trxEnabled, frameCh, patient, ready,
                   asked, ghosts, errors>>

BecomeReady ==
    /\ ~ready
    /\ ready' = TRUE
    /\ UNCHANGED <<mainVars, retryPc, readVars, trxEnabled, frameCh, inbound, radioTrx,
                   patient, commands, frames, asked, ghosts, errors>>

-----------------------------------------------------------------------------
MainStep ==
    \/ IdentifyFirst \/ FirstRead \/ ReceiveEOF \/ ReceiveFrame \/ StartRead
    \/ ParsePacket \/ ParseTorn \/ AllParsed \/ HandlePacket \/ AllHandled
    \/ SendAnswer \/ BackToSelect
RetryStep == RetryCheck \/ RetrySend
ReadStep == StorePacket \/ ReadFrameReturns

Next ==
    \/ MainStep \/ RetryStep \/ ReadStep \/ ReadFrameFails \/ ReadFrameEnds
    \/ BecomeReady
    \/ \E kinds \in FrameKinds : SendFrame(kinds)

Spec == Init /\ [][Next]_vars

\* The goroutines are scheduled and the ticker ticks.
FairSpec == Spec /\ WF_vars(MainStep) /\ WF_vars(RetryStep) /\ WF_vars(ReadStep)

-----------------------------------------------------------------------------
(* Correctness. *)

Command ==
    [n : Nat \ {0}, lingo : Lingoes, id : STRING, type : Int, size : Nat, trx : BOOLEAN,
     last : Nat]
Names == UNION {DOMAIN Registered[lingo] : lingo \in Lingoes}
Response == [n : Nat, lingo : Lingoes, id : Names, type : {1, 2}, trx : BOOLEAN]

\* Every variable has its type; frameCh never holds more than its capacity,
\* so the reader is never stuck on it.
TypeOK ==
    /\ mainPc \in {"identify", "startRead", "select", "readNext", "readAgain", "parse",
                  "handle", "send", "returned"}
    /\ retryPc \in {"off", "wait", "send", "stopped"}
    /\ readPc \in {"off", "reading"}
    /\ {handshakeDone, trxEnabled, aliased, radioTrx, patient, ready, asked, extended}
         \subseteq BOOLEAN
    /\ {data, fresh, inCmds, commands, handled} \subseteq Seq(Command)
    /\ outCmds \in Seq(Response)
    /\ frameCh \in Seq([err : {"none", "error", "EOF"}, data : Seq(Command)])
    /\ Len(frameCh) <= 1 /\ (readPc = "reading" => frameCh = <<>>)
    /\ inbound \in Seq(Seq(Command))
    /\ pos \in Nat \ {0}
    /\ answers \in SUBSET [n : Nat, id : Names, type : {1, 2}, trx : BOOLEAN]
    /\ frames \in 0..MaxFrames /\ errors \in 0..MaxErrors

\* Whatever mode the session is in: no request that a handler serves is mistaken
\* for another one of its command, nor its transaction for a part of it, although
\* Lookup goes by the length alone.  Nor is what the pod sends, when `ipod view'
\* reads it, but for a few; and five answers are all that cannot be written.
MessagesUnderstood ==
    /\ Requests \subseteq UnderstoodIf[trxEnabled]
    /\ Sent \ UnderstoodIf[trxEnabled] = Misread
    /\ {m \in Sent : ~Encodable(Sizes(m[1], m[2])[m[3]])} = Unwritten

\* Commands are handled as the radio sent them: all, once, in order.  (ReadFrame
\* "reads a frame that contains one or more iap packets".)
Faithful == \A i \in DOMAIN handled : handled[i].n = i

\* So it is with a radio that does not send on while a frame is being served,
\* wherever the reader is with the next one and whatever reads fail.  And what
\* is handled is of the type that was sent and has its transaction, whatever the
\* mode if the type's size is fixed; if it is not, a RequestIdentify in between
\* may have turned transactions off.
FaithfulToPatient ==
    patient =>
        \A i \in DOMAIN handled :
            /\ handled[i].n = i
            /\ \/ handled[i] = commands[i]
               \/ commands[i].type = UnknownPayload
               \/ retryPc # "off" /\ ~Fixed(Sizes(commands[i].lingo, commands[i].id)[1])

\* Without --request-identify, an answer carries a transaction when its request
\* did, whatever switches of mode went before and whatever frames tear; unless a
\* later command of its frame, parsed before the answer is written, turns them
\* off.  An unknown command is left out: its transaction is not parsed, so its
\* ACK never has one.
AnswersMatch ==
    patient /\ retryPc = "off" =>
        \A a \in answers :
            LET c == commands[a.n]
            IN \/ a.trx = c.trx
               \/ c.type = UnknownPayload
               \/ \E m \in c.n + 1..c.last : commands[m].id = "IdentifyDeviceLingoes"

\* Every request of a patient radio gets its last answer while the session
\* lasts, failing reads, repeated RequestIdentify, and answers that cannot be
\* written or are refused before it or not: again and again all that it sent are
\* answered, but for those that may be refused for what they ask.
Answered(c) ==
    \/ LastAnswer(c) = "" \/ MayRefuse(c)
    \/ <<c.lingo, LastAnswer(c), 1>> \in Unwritten
    \/ \E a \in answers : a.n = c.n /\ a.id = LastAnswer(c) /\ a.type = 1
RequestsAnswered ==
    []<>(\/ ~patient
         \/ \A n \in DOMAIN commands : Answered(commands[n])
         \/ mainPc = "returned")

\* Failing reads and frames that tear while they are parsed do not end the
\* session: until the stream ends, the loop is again and again back in its
\* select with every frame taken.
LoopReturns ==
    []<>(\/ mainPc = "select" /\ frameCh = <<>> /\ inbound = <<>>
         \/ mainPc = "returned")

\* A radio that waits to be asked is asked, unless a read fails first: an
\* error counts as a response.  ("Send immediately and retry every 3s until the
\* radio responds.")
RadioIsAsked ==
    ready /\ retryPc # "off"
        ~> asked \/ commands # <<>> \/ errors > 0 \/ mainPc = "returned"
=============================================================================
