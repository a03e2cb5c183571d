# A TLA+ model of ipod

`ipod` lets a small Linux computer pose as an iPod to a car radio. The radio
talks the iPod Accessory Protocol over USB HID; the music comes from a phone
over Bluetooth, whose AVRCP state is read from BlueZ. This directory holds a
specification of the program in TLA+, small instances that TLC checks, and
proofs that TLAPS checks. All source paths below are relative to `src/`.

## 1. The system

### Parts, their state and their operations

| part | state | operations | modules |
|---|---|---|---|
| **AVRCP source** `avrcp/avrcp.go` | `Source.state`, `lastKnownTitle`, `lastKnownPlaying`, `optimisticUntil`, `posRefreshedAt` (under `mu`); the atomic flags `trackChanged`, `playStateChanged`; `notifyCh` (capacity 1) | `loop`/`refresh`, `watchSignals`, `fetchTrackWithRetry`/`fetchTrack`, `MediaControl`, `PlaybackStatus`, `TrackChanged`, `PlayStateChanged` | `AvrcpSource`, `Notifier`, `Position` |
| **session** `cmd/ipod/main.go` `processFrames` | `frameCh`, `handshakeDone`, `inCmdBuf`, `outCmdBuf`, the `CommandSerde`, the packet reader over `fr.data` | main loop, one goroutine per `ReadFrame`, the goroutine that repeats `RequestIdentify` | `Session`; its notify branch: `RadioSync`; its ticker: `Position` |
| **Extended Interface** `lingo-extremote` | `notifyMask`, `trackIndex` | subscriptions, title, index and status requests, `PlayControl`, notifications | `RadioSync`, `Position`; its answers: `Messages` |
| **Display Remote** `lingo-dispremote` | `eventMask`, `trackIndex` | the same on other commands | `RadioSync`, `Position`, `Messages` |
| **General and Digital Audio** `lingo-general`, `lingo-audio`, `cmd/ipod/general.go`, `audio.go` | `devCertBuf`, `DevGeneral.tokens`, the UI mode | IDPS, FID tokens, authentication, start of audio; switches of mode | `Handshake`; the mode: `Session` |
| **command serde** `cmd.go`, `lingo.go` | `TrxEnabled`, the transaction of a request | `UnmarshalCmd`, `MarshalCmd`, `Lookup`, `Respond` | `CommandSerde`, `Session` |
| **message tables** `lingo-*/` | `mIDToType`, filled by `init` | registration; what the handlers answer | `Messages` |
| **packets** `packet.go`, `crc.go` | what is left of the frame | `WritePacket`, `ReadPacket` | `PacketCodec` |
| **HID transport** `hid/` | the decoder's buffer, the encoder's offset | `WriteFrame`, `ReadFrame`, `Pick` | `HidTransport` |
| **transport interface** `transport.go` | – | frames in, frames out | `FrameLink` |
| **alias cache** `cmd/ipod/general.go` | `btAlias`, the file `btAliasFile` | refresh every minute, load, persist | `BtAlias` |
| **traces** `trace/`, `dumpTrace` in `main.go` | the message queue, one decoder per frame | log, load, take a direction, print | `TraceDump` |

Not modelled: the command line, device files and logging (pure I/O and
wording), generated Stringers and string helpers. Section 8 lists what is left
out of the parts that are modelled.

### How they interact

* The radio's HID reports become frames (`hid`), frames become packets
  (`packet.go`), packets become commands (`cmd.go`, `lingo.go`), commands go to
  the handler of their lingo, which appends answers to `outCmdBuf`; the main
  loop marshals and writes them after the last command of the frame.
* The AVRCP source has its own goroutines: the poll loop, refreshes started by
  D-Bus signals, and track fetches. They raise a flag and poke `notifyCh`. The
  main loop selects on `notifyCh`, frames and the position ticker, swaps the
  flags and sends notifications to a radio that subscribed to them.
* A handler calls `MediaControl` on the main loop, which talks to BlueZ and
  writes the source's state at once, before BlueZ has confirmed anything.
* The certificate's verification in `HandleGeneral` ends in a call of
  `DevGeneral.OnAuthenticationComplete`, which starts the Digital Audio lingo.
* The alias cache is read by the handlers; only its own goroutine writes it.

### What is hard

* **Interleavings.** `refresh` and `fetchTrack` are several critical sections
  with BlueZ calls between them, and three kinds of goroutines run them at
  once, together with `MediaControl`. Each copies `s.state` in one section and
  publishes the copy in another.
* **Wake-ups.** A flag and a non-blocking send on one side, a receive and two
  swaps on the other.
* **Order of publication and notification.** A radio re-reads what it is told
  has changed; if it is told first, it reads the old value.
* **Aliasing.** The frame that `ReadFrame` returns is the decoder's buffer.
* **Loss and retries.** The radio repeats what it gets no answer to; the pod
  repeats nothing but `RequestIdentify`.
* **Crashes.** The car's ignition kills the program, also in the middle of
  `os.WriteFile`.
* **Time.** A guard window of 1.5 s hides BlueZ's lag behind a command;
  positions between polls are dead reckoning.
* **Lengths that speak.** A packet does not say whether it carries a
  transaction, nor which of its command's types it is: its length has to.
* **Boundaries.** 255/256 bytes of payload, report sizes.

Every hazard is listed with its line in `PROJECT.json`, with the properties
that would show it going wrong.

### What makes each part correct

* AVRCP source: what it compares new values with is what it has published; no
  raised flag is stranded; a poll does not undo a command within the window; a
  paused position does not run on. (A fetch may undo a command: section 7.)
* Serde and tables: every request that a handler serves is told from its packet,
  in a session with and one without transactions.
* Session and notify branch: commands are handled once and in order; each
  answer carries the transaction its request had; the loop returns; a
  subscribed radio ends up showing what the phone plays, with the exceptions of
  section 7.
* Handshake: tokens of one attempt; a certificate without gaps; audio opened
  again only for a cause on the radio's side or the link (once is what the
  documentation asks for: section 7); a radio that persists gets sound.
* Transport: whole frames come out whole, whatever happened to others.
* Alias cache: the file only ever holds a connected phone's name, and memory
  and file get back to it. Traces: everything recorded is printed, in order.

## 2. Modules

    Notifier <--- implemented by --- AvrcpSource <--- EXTENDS --- RadioSync
                                        |                            |
                                 MCAvrcpSource              MCRadioSync, RadioSyncProofs
    FrameLink <-- implemented by --- HidTransport
                                        |
                           HidTransportProofs, MCHidTransport
    CommandSerde <-- EXTENDS -- Messages <-- EXTENDS -- Session (MCSession, SessionProofs)
    Handshake (MCHandshake, HandshakeProofs)   Position (PositionProofs)
    BtAlias (BtAliasProofs)   TraceDump (TraceDumpProofs)
    PacketCodec (MCPacketCodec, PacketCodecProofs)

The modules divide the program by layer. `FrameLink` is what `Session` takes a
transport to be: frames whole and in order, or an error. `Session` takes
packets and handlers as given: a command is handled in one step. `Handshake` and
`RadioSync` are what handlers do, above an ordered link. `AvrcpSource` has the
interleavings of the source, with a position that is only "has a baseline or
not"; `Position` has the arithmetic of the position, with each poll one step.

### AvrcpSource

A step is one critical section, one atomic operation, one channel operation or
one call of `busctl`.

| state | code |
|---|---|
| `state` | `s.state`: `title` stands for title, artist, album and duration, though the code compares the title alone; two tracks of one title are one track here |
| `lastKnownTitle`, `lastKnownPlaying` | the fields of that name |
| `optimistic` | `time.Now().Before(s.optimisticUntil)` |
| `baseline` | `!s.posRefreshedAt.IsZero()` |
| `flag`, `notifyCh` | the two atomics; how many values the channel holds |
| `pc`, `reply`, `next`, `tries` | program counter of each goroutine, its `props` or `track`, its `next`, its `i` |
| `mainPc`, `method` | where the client (main loop) is: in `select`, at a swap, or inside `MediaControl` and with which method |
| `phone`, `bluez` | what the phone plays, what BlueZ says it plays (external) |
| `late`, `budget` | workers with an answer from before BlueZ's last change; a bound on events |

`GetAll` and `Snapshot` begin a `refresh`. With `Track` in the reply, `Compare`,
`Learn` and `Apply` follow it section by section; without, `fetchTrack`
(`GetSucceeds` or `GetFails`, `FetchSnapshot`, `FetchStore`) and then `Patch`.
`StartFetch` is `go s.fetchTrackWithRetry`. `StoreTrack`/`SendTrack` and
`StorePlay`/`SendPlay` are the two halves of `signalTrackChanged` and
`signalPlayStateChanged` (`avrcp.go:60-68,85-91`); `Receive`, `TakeTrack`,
`TakePlay` and `ReadPlay` are what the main loop does with them; `Call`,
`CallStore`, `CallSend` and `CallBusctl` are `MediaControl`. A `GetAll` reply carries
any of the sets of properties in `Replies`. The ordinary one has no `Track`
(`avrcp.go:279-280`), so that a fetch follows; one with a `Track` that BlueZ has a
fresh value of is allowed for by `586-587`.

### RadioSync

Adds `mask`, `trackIndex` (the subscriptions and the index that the handlers
keep) and a radio (external): what it shows, the index it has seen, the
requests it has on the way. `NotifyTrack`/`NotifyPlay` are the notify branch of
`processFrames` with `notifyTrackChanged` and the play-state notifications of
both lingoes; `AnswerTitle`/`AnswerStatus` are the requests; a `PlayControl` that
becomes a `MediaControl` is `Call` in `SourceStep`. The radio asks for the title when
it is told of an index other than the one it knows. `AnswerTitle` serves the
index and the title in one step: radios ask for both in a row, and the main
loop handles nothing else between two packets of a frame. A radio that uses the
Display Remote alone gets its titles empty (`binary.Write` refuses a structure
with a `[]byte`, and `RetIndexedPlayingTrackInfo.MarshalBinary` drops the error),
so it never shows one.

`writtenBack` is a history variable, which no step reads. It becomes true when
`FetchStore` stores a play state other than the cached one (`WritesBack`, hazard
`avrcp.go:360`), and false with the next change that is signalled: a command, or
one that a refresh finds (`lastKnownPlaying` changes). The properties of the play
state name it where what they say does not hold of the code.

### HidTransport and FrameLink

`BeginFrame`, `WriteReport` and `WriteFails` are `Encoder.WriteFrame` report by
report; `StartRead`, `ReadReport` and `ReadFails` are `Decoder.ReadFrame`. Byte
`j` of frame `f` is the pair `<<f, j>>`, so a mix of frames cannot pass for one
of them. The link loses reports or garbles their id. Two ends of the same code
face each other, which is how the package's own tests use it.

### CommandSerde and Messages

The types registered for a command are the sequence of their sizes in the order
of registration, with four marks for types that have none: both of
`MarshalBinary` and `UnmarshalBinary`, one of them, or neither. `Fits`, `Lookup`
and `Unmarshal` are the code's functions on lengths. `Messages` has the five
lingoes' registrations, 194 commands by the name of their first type, and for
every request the command of the last answer that its handler gives (`Answers`);
`ASSUME`s check that the tables fit each other. `ByArgument` has the three requests
that have no answer for some of their arguments. `Unasked` has what the pod sends
of its own accord.

### Session

A command is its number, lingo, name, type, size and transaction; `ReadCommand`
is `UnmarshalCmd` on them. Handlers answer what `Messages` says, in the mode of
the UI that decides between the two acknowledgements of a switch; one that
depends on an argument may stay without an answer (`MayRefuse`).
`ReceiveFrame`, `StartRead`, `ParsePacket`, `HandlePacket`, `SendAnswer` and
`BackToSelect` are a turn of the main loop (`mainPc`), `StorePacket` and
`ReadFrameReturns` the reader goroutine (`readPc`), `RetryCheck` and `RetrySend`
the one that repeats `RequestIdentify` (`retryPc`). `data` is
what the bytes of `fr.data` are *now*: while `aliased`, every report the running
`ReadFrame` stores replaces a command of it. `trxEnabled` is written where a
command of one of three names goes through `handleCmdID` (`HandleCmdID`).
`SendAnswer` writes nothing for an answer that has no `MarshalBinary` and goes on
with the next (`main.go:382-385`). A `patient` radio sends a
frame when its last one is served, an impatient one when it likes.

### Handshake

`PodHandles` is one message through `HandleGeneral` or `HandleAudio`, whole. The
radio is external: it numbers its requests, repeats one when a timeout passes
(`LateResend` when it was lost, `EarlyResend` while the answer is on its way),
serves what the pod asks, and may start over. `devCertBuf` is the sequence of
sections received, `tokens` the attempts the tokens belong to. The tokens of a
radio (`kind`) are all known to the pod; or one is of an unknown type, which is
stored but has no acknowledgement, so that the whole answer is not written; or
one is broken, and the request has no payload.

### PacketCodec

A byte has `Base` values, so the length prefix of a large packet has two digits
in that base and the checksum is taken modulo it. The frame is a slice of a
longer array: `data[:pktLen]` past the frame yields `Beyond`, and past the
capacity it panics (`ReadPanics`), as Go's reslicing does.

### Position

Ticks of 250 ms. Clock readings are ages. `PollWithTrack`, `PollWithoutTrack`
and `PollFails` are `refresh` on the fields that have to do with the position,
`MediaPlay` and `MediaPause` are `MediaControl`, `TrackPos` is `PlaybackStatus`.
The tick at which the position ticker runs sends `TrackPos`, while playing, to
the `timer` of a radio in each unit that it has subscribed to: milliseconds, or
whole seconds (`Told`).

### BtAlias

`ListDevices`, `Scan`, `FallBack`, `Truncate` and `Write` are a turn of the
refresher call by call, `StartUp` the load from the file.
`Kill` may come between any two, also between the two halves of `os.WriteFile`.

### TraceDump

`FirstReport`/`NextReport` log; `Load`, `StartFrame`, `TakeHead`, `ReadReport` and
`ReadEOF` are `dumpTrace` with `Queue` and the direction's reader; `queue` is the list
from which a direction takes its messages out of the middle. A recorded frame is
whole, unless the trace ends in it: one that `WriteFrame` abandons when a report
cannot be written (`hid.go:61-63`), of which the tracer has logged what went through
(`trace.go:144-150`), cannot be in a trace here. Nor can a report with an id that
the decoder does not know, so `ReadReport` has no failing `ReadFrame`, which
`dumpTrace` logs and goes on behind (`main.go:692-694`).

## 3. Abstract specifications

* **Notifier**: a set of pending kinds; `Raise` adds one, `Take` removes one, and
  none stays for ever. `AvrcpSource` implements it with
  `pending <- {k \in Kinds : flag[k]}` (`KeepsPromise`). TLC checks it with the
  liveness part in `RadioPlay`, TLAPS proves the safety part.
* **FrameLink**: written frames come out whole, once and in order while nothing
  below is lost. `HidTransport` implements it with the frames not yet decoded as
  `inTransit`, and what `ReadFrame` returned, without the padding, as `last`
  (`IsFrameLink`). TLC checks it with the liveness part in `HidLink`, TLAPS
  proves the safety part.

## 4. Runs

Bounds are the smallest at which the behaviour the run is about happens; each
property has a plausible bug ("mutant") that TLC finds at these bounds.

| run | question | bounds and why they suffice |
|---|---|---|
| `AvrcpCommands` | What can undo a command inside the guard window (`NoBounce`): no poll, and a fetch only by writing back a copy from before it. Does a paused position ever run on (`BaselineOnlyWhilePlaying`)? | The poll loop, a refresh and a fetch that signals start, one Pause (what the code calls a bounce: "Paused→Playing→Paused"; Play is in `RadioPlay`, all three commands are in the proof), from any state of the phone and a BlueZ that knows it or does not: every reply that can be held across the command is. The fetch has two tries, so that one fails and the other does not. The two refreshes are alike (`SYMMETRY`). Replies with and without `Track` take both ways through `refresh`. `Timely`: see below. |
| `RadioTitle` | Is a title ever lost between fetchers, flags and a radio that subscribes and unsubscribes? Does it end up shown? | Poll loop, one fetcher that fetches any number of times, two titles, one change of track by phone or radio, so that with the first title there are two changes and a fetch may hold the title that has gone. Replies have a `Position` alone: the play state takes no part in this question. The index wraps at 2, that is, within these changes. |
| `RadioPlay` | Does a radio ever show an old play state in silence, and does it and `IsPlaying()` end up with the phone's, when every poll fetches the track as it ordinarily does? And `Notifier`. | The poll loop, replies with a `Status` and no `Track`, and one fetcher that fetches any number of times: a copy of the state is held by either across anything. One event, a Play by the radio or a toggle on the phone: with the play state that the first poll finds there are two changes, so that a copy and the state may differ and the second change may come while the first is on its way. A radio of the Display Remote, which has to ask for the status when it subscribes; the Extended Interface's, which gets it at once, is in the proof (`PlayIsTold`). Titles take no part. `Timely` keeps the run small; the proofs of its two invariants are without it. |
| `RadioStaleTitle` | *Violated*: where `GetAll` brings the title, a radio is left with the old one. | One poll loop and one title. |
| `HidLink` | Whole frames out of a lossy link; without losses a `FrameLink`. | Reports of 1, 2 and 3 bytes in no order, frames of 1 to 7: one report, exactly two, exactly three, and padding in the last. Three frames: a broken one, one it may spoil, and a good one. |
| `SessionServes` | Are commands understood, handled once and in order, and answered with their transactions, until the end of the stream? | Three frames out of four kinds that turn transactions on and off, also behind another command of the frame, which may or may not be answered, and carry what is not registered, what has two types, no fixed size, two answers or one that cannot be written; an error, an end, with and without `--request-identify`. `MessagesUnderstood` goes through all of the tables in both modes. |
| `SessionImpatient` | *Violated*: a radio that does not wait finds its commands overwritten. | Two frames. |
| `HandshakeLossy` | Identification to audio with losses and timeouts. | Two losses, two early resends, three attempts, three sections: the second attempt may meet the first one's leftovers, the third the second's. Six tokens at most when a request is repeated for want of an answer (`MaxTokens`): a radio whose tokens are stored but never acknowledged repeats them for ever. |
| `PacketFrames` | Round trip, and one damaged byte. | One or two packets of 1 to 5 bytes in base 4, where lengths from 4 on are large ones. |
| `Position` | Is the position sent to the radio near the phone's, and does it run smoothly? | A track of 8 ticks (two seconds, so that the seconds turn), a duration of 9, polls, BlueZ's reports and the ticker at most 2 apart, a window of 4: longer than any of these, as in the code, and shorter than the track. The play state, the position and all ages are finite: the state space is complete, and the proofs do without these values. |
| `BtAlias` | Kills and failing calls against file and memory. | Three phones (a connected one, another, a fallback), four faults. |
| `TraceView` | Every interleaving of two frames per direction. | Frames of 1 to 3 reports: a frame with a first, a middle and a last one. |

`CHECK_DEADLOCK FALSE` is set where a run comes to an end by itself: a bounded
number of frames (`HidLink`, `Session…`, `PacketFrames`, `TraceView`) or attempts
(`HandshakeLossy`).

### Assumptions of the instances

* `Timely` (`AvrcpCommands`, `RadioPlay`): refreshes in flight and BlueZ settle within the
  1.5 s window. The code relies on it; `busctl` has no timeout. Without it
  `NoBounce` fails, and this is noted under the hazards.
* `Obedient`: the phone executes the command. The code writes the new state
  before the call and does not look at its outcome.
* `RadioTitle` and `RadioPlay` take replies without `Track`, as `avrcp.go:279-280` says
  that they are; `RadioStaleTitle` has the other kind, and `AvrcpCommands` both.
* `writtenBack` (`RadioPlay`). In the ordinary configuration the copy that a fetch
  writes back may undo a newer play state, and the radio may be left with it until
  the next change that is signalled (section 7). The properties say that this is
  the only way in which it goes wrong: where no fetch has written back another
  play state since the last signalled change, the known play state is the one
  that can be read, the radio gets it, and `IsPlaying()` comes back to the phone's
  state even after a write-back.
* `Losable` (`HandshakeLossy`): requests of the radio and answers to it. One of
  the pod's own requests lost stops the handshake for good (hazard
  `main.go:389`), so `Streams` cannot hold with them.

## 5. Fairness

* `RadioSync`: weak fairness on every goroutine's steps (the Go scheduler), on
  BlueZ catching up and on the window running out (time). Strong fairness on
  `Receive`, `AnswerTitle` and `AnswerStatus`: each is a ready branch of the same
  `select`, which picks at random among the ready ones, so a branch ready again
  and again is taken. Strong fairness on the poller's `GetSucceeds`: BlueZ
  does not refuse every `Get(Track)`.
* `HidTransport`: weak fairness on writing the rest of a frame and on reading.
* `Session`: weak fairness on the three goroutines; none on the radio.
* `Handshake`: weak fairness on the pod, and on a radio that starts, serves what
  it receives and repeats a lost request. Not on resending early.
* `PacketCodec`: the reading loop runs. `BtAlias`: the goroutine runs and the
  minute passes, each only while the program is up; no fairness on kills or
  faults, which are bounded.
* `AvrcpSource` alone, `Position` and `TraceDump` have safety properties only.

## 6. Proofs

TLAPS checks eight modules of proofs, for every value of the constants that
satisfies the module's named assumption, and under what a theorem adds to it in
its own `ASSUME`.

`RadioSyncProofs` begins with `AvrcpSource` (`ConstantsAssumption`):

* `TypeCorrect`: `TypeOK` is inductive. It is split into the goroutines' locals
  (`LocalsOK`) and the shared state (`SharedOK`), with one lemma for the steps
  of goroutines and one for the client, the phone and BlueZ.
* `WakeupsSurvive`: `NoLostWakeup` says that a raised flag has a value in the
  channel, a sender that has yet to send, or a consumer that has yet to swap
  it. It is inductive with `TypeOK`; the interesting step is `SendNotify` on a
  full channel, where the value that fills it serves for both.
* `ImplementsNotifier`: each step raises, takes or leaves the pending set.
* `TitlesAreKnown` (`TitleKnown`), assuming that no reply carries `Track`.
  `TitleInv` adds that no goroutine holds such a reply or is in the sections
  that serve it (`compare`, `learn`, `apply`). Those left either write the title
  and what it is compared with in one section, or neither.
* `PausedHasNoBaseline` (`BaselineOnlyWhilePlaying`), assuming of BlueZ that a reply
  with a position has a status (`StatusWithPosition`), and nothing of what fetches
  write back: `fetchTrack` writes `s.state` only, and the second merge, which may
  take a playing state that was written back for a reason to set the baseline,
  drops it again with the status of the same reply.
* `GuardWindowHolds` (`NoBounce`), for an obedient phone that nobody else
  operates, a BlueZ that is `Timely`, and commands among Play, Pause and Stop; as
  in the run, a reply with `Track` has `Status`. That the play state of `IsPlaying()`
  changes only with a command, a write-back, or to the known one follows from
  `PlayChange`: a step keeps the two play states, makes them equal, or is a
  write-back. That the known one changes only with a command needs `WindowInv`:
  from the first command on the phone plays as the last command says; once the
  window is closed BlueZ does too, no reply from before it is held any more, and
  every other reply says what BlueZ says (`Settled`). What a goroutine applies is
  what its reply said (`NextFromReply`), so outside the window `Apply` and `Patch`
  leave the known play state, and inside it the guard holds them off.

Then `RadioSync`, every step of which is one of `AvrcpSource` or leaves it alone
(`RunsSource`), so that the theorems above hold there too.

* `SyncTypeCorrect` (`SyncTypeOK`): with `TypeOK`, the radio's variables and the
  index keep their types.
* `TitlesAreTold` (`NoSilentTitle`), for a radio of the Extended Interface and
  replies without `Track`. `NoSilentTitle` says that a subscribed radio shows the
  title, is asking for it, or a notification is on its way to it. Two lemmas
  follow what is on its way through the source (`TrackStaysOnItsWay`,
  `NewTitleIsOnItsWay`). It is not inductive alone: a radio that is told of the
  index it knows does not ask. `IndexSeen` adds that a subscribed radio which is
  not asking knows the handlers' index, so the next one differs, wherever it
  wraps.
* `PlayingIsKnown` (`PlayingKnown`), without assumptions beyond those on constants:
  the play state is the one last compared until a fetch writes another back, and
  again with the next command or the next change that a refresh finds, since both
  set the two together. The history variable is what makes it inductive.
* `PlayIsTold` (`NoSilentPlay`), as general: like `TitlesAreTold`, for the play state
  and a radio of either lingo or both. `NewPlayIsOnItsWay` uses `PlayingKnown`: a
  play state that is new and not written back differs from the known one, so its
  notification follows.

`HidTransportProofs` (`HidAssumption`): `HidTypeCorrect`, `ImplementsFrameLink` and
`IntactFramesDelivered`, for every report descriptor (in any order) and any frame
lengths. `IInv` adds to `IntactDelivered`: the report on the wire continues the
frame where the encoder's offset says (`WireInv`), the decoder's buffer is a
prefix of the frame it belongs to unless a report of it was lost (`BufInv`), and
frames complete in order (`FrameInv`). `IntactDelivered` is not inductive without
them: nothing else ties the buffer to what was sent. For `FrameLink`, `CountInv`
adds how far the decoder is while nothing is lost: the report on the wire is of
the frame that the encoder is in, or the last one of the frame before.

`HandshakeProofs` (`HandshakeAssumption`), whatever `Losable` says may be lost:

* `HandshakeTypeCorrect` (`TypeOK`). That no section beyond the last is asked for
  rests on which request an acknowledgement is for. `NumberInv`: the radio uses
  no number twice, what has the number of the request it waits for is that
  request or an answer to it, and the acknowledgement of a section is never the
  last section's.
* `TokensNeverMix` (`TokensOfOneAttempt`). `TokenInv` takes the tokens of the pod
  and those still under way together: all are of one attempt; once the radio has
  its `StartIDPS` answered they are of this attempt, because when the pod handled
  it, nothing but later requests was behind it in the queue (`NoneBehind`).
* `CertificateIsGapFree` (`CertGapFree`). `SectionInv`: every section under way, and
  the one that the radio would send again, repeats or continues what the pod has,
  whatever of it is lost; and behind the request that the radio waits for there is
  nothing but that request again, so that an acknowledged section has no other one
  after it. `OnceInv` says for a link without losses that each section is there
  once, on its way or acknowledged.
* `ReopeningsHaveCauses` (`ReopenedForCause`). `PotentialInv` counts what may still open the
  stream: requests on their way to the pod, messages that make the radio send one
  (`DriveCount`), and a radio that nothing but its timeout moves (`Due`). With what
  has been opened they are no more than the attempts, losses and early resends:
  a step hands such a thing on, uses it up, or is one of the three. `KindInv`, that
  an answer the radio accepts is one to its request, keeps a late answer from
  driving it twice.

`PositionProofs` (`PositionAssumption`):

* `PositionTypeCorrect`.
* `PositionIsAccurate` (`Accurate`), for tracks not longer than the duration.
  `Based`: every path that stops the source drops the baseline. `Near`: the last
  polled position is behind the phone by no more than the time since, and the
  baseline is no older than that.
* `TimersFollow` (`TimerFollows`) adds `Calm` and `OnTime`: a tick of the ticker
  within the calm has left the timer right, and it falls behind by a tick a tick.
* `PositionIsSmooth` (`Smooth`), for tracks shorter than the duration. `NotAhead`:
  what is extrapolated is not ahead of a phone that just plays, so that a poll
  takes nothing back.

`BtAliasProofs` (`BtAliasAssumption`): `BtAliasTypeCorrect` and `FileIsConfirmed`
(`FileConfirmed`). `BtAliasInv` adds that what is on its way to the file is the name
of a device that was connected: `FallBack` changes the name but goes round
`persistBTAlias`.

`SessionProofs` begins with theorems about the serde's operators, for all
registrations: `LookupExact` (a packet is read back as what it is exactly if no type
before it fits its length), `TwoTypes` (two sizes are told apart unless equal or a
transaction apart), `OpenTypeNeedsMode` (a type without a fixed size needs the
session's mode). They say what `MessagesUnderstood` found in the tables.

Then the session (`SessionAssumption`, `AnswersAssumption`). The first asks that a
radio sends what can be told in the right mode (`Sendable`); `MessagesUnderstood`
finds this of every message in the tables but those that it lists.

* `SessionTypeCorrect` (`TypeOK`), of any radio: above all, whoever reads a frame
  finds `frameCh` empty.
* `PatientIsServed`: with `patient`, `Faithful` holds, and nothing sent is missing
  from `handled` once the loop is back in its select with nothing under way.
  `Pipeline` says where the commands of the one frame that such a radio has under
  way are (`OnTheWay`, `InParser`, or in `inCmds`), and that they carry on the
  numbers of those handled. The shared buffer does no harm because `OneRead` holds:
  a running `ReadFrame` and a frame under way to it meet only while the main loop
  has no data. Without `patient` nothing of it holds, as `SessionImpatient` shows.
* `PatientIsFaithful` (`FaithfulToPatient`). `SentInv` says what the radio's frames
  are: each command has the transaction that the mode before it demands. `ReadInv`
  follows the pod along the pipeline: what is parsed is what was sent, and
  `trxEnabled` is the radio's mode after the last command that was parsed. The
  theorems about `Lookup` then give that it reads as what it was.
* `AnswersAreMatched` (`AnswersMatch`), without `--request-identify`. `AnswerInv`
  follows the answers. They are marshalled after the whole frame is parsed, so the
  mode may have changed since: it may have been turned off by an
  `IdentifyDeviceLingoes` later in the frame, the exception that `AnswersMatch`
  names, but turning it on leaves earlier answers without a transaction.

`TraceDumpProofs` (`TraceAssumption`): `TraceTypeCorrect` (`TypeOK`),
`FramesPrintedInOrder` (`PrintedInOrder`) and `AllFramesPrinted` (`AllPrinted`), for
frames of any number of reports, any interleaving and any cut. `TraceInv`: the trace
has every part of what is recorded, each direction's in order. `DumpInv(c)` gives
each direction a cursor `c`, the frame that is next in it: the queue is what remains
of the trace behind the cursors and the buffer, in order (`Cursor`, `QueueOrder`);
the buffer is the beginning of the frame at its cursor, which began before all that
remains (`Reading`); what is printed are the frames before the cursors (`PrintInv`).
So a report dequeued from the middle is always the next of its frame (`NextPart`),
and a reader that finds nothing is at a frame that the trace cuts off
(`StopsAtCut`).

`PacketCodecProofs` (`PacketCodecAssumption`): `CodecTypeCorrect` (`TypeOK`),
`PacketsRoundTrip` (`RoundTrips`) and `DamageStaysLocal` (`DamageIsLocal`), for bytes
of any number of values, any payloads but those of `NoBorderCase`, any noise and
padding without a start byte, and any number of packets. Three parts:

* The checksum. The sums of a packet are a recursive function of its bytes
  (`Crcs`); a fact about all of them is proved of the first position at which it
  would fail (`Smallest`). With its checksum a packet sums up to 0 (`Sealed`), and
  two that differ in one byte never have the same sum (`SumsDiffer`).
* One packet. `Parses`: `parseHeader` finds offset and length of a payload in what
  follows the start byte, because only a large packet's length begins with 0;
  this is where 256 bytes fail. `ReadsRest`: the checksum of what is read fits
  exactly if nothing in it is damaged, and then the payload is the one written.
  Nothing from behind the frame is read.
* The frame. `Laid` says where packets are: apart from each other, a start byte
  before each, none in between, none inside a damaged packet that is not astray.
  Writing, damage and padding keep it (`LayWrite`, `LayDamage`, `LayPad`).
  `PacketInv`: the frame is laid out until it is delivered; the reader then has
  what is behind some place `o` of such a frame, there is no start byte between
  `o` and packet `m + 1` (`At`), and it has returned the first `m` payloads without
  the damaged one (`Got`). So each step meets the next packet (`ReadsNext`), and
  there is always one step it can take: it reads an intact packet, refuses a
  damaged one and ends behind the last. The properties alone say nothing of a
  frame half read.

Only model-checked:

* all liveness (`RadioShowsTitle`, `RadioShowsPlay`, `Streams`, `Converges`,
  `RequestsAnswered`, `LoopReturns`, `RadioIsAsked`, `ReadingEnds`, the liveness
  halves of `KeepsPromise` and `IsFrameLink`), which is beyond this prover;
* `MessagesUnderstood`, which goes through the 194 registered commands and depends
  on no constant: TLC's check of it is complete.

## 7. Where the code does not do what it says

* `RadioStaleTitle`: `refresh` signals a title that `GetAll` brought (`avrcp.go:575-580`)
  before it publishes it (`627-629`). `main.go:457-458` wants the car to refresh
  its display with the new title; it refreshes it with the old one, and nothing
  signals again. `fetchTrack` (`396-407`) has the right order.
* `SessionImpatient`: `startRead` (`main.go:490`) runs the next `ReadFrame` before
  the frame it just got is parsed, in the same `bytes.Buffer` (`hid.go:89-119`).
  A radio that waits for its answers never meets this (`FaithfulToPatient`).

Two more that no run shows as a violation, because a property excepts them and
says so:

* A fetch undoes a command. `fetchTrack` copies `s.state` (`avrcp.go:360-361`) and
  stores the copy later (`403`); a `MediaControl` in between is undone, although it
  updates the state "so that IsPlaying() is accurate before the next AVRCP poll
  cycle" (`173-174`). It need not be a rare fetch: every poll without `Track` does one.
  If the main loop reads the play state now (`76-78`), it sends the old one to the
  radio. The poll that follows (or the very one that wrote back) puts `s.state` right
  (`602-615`), but compares with `lastKnownPlaying`, which was right all the time, so
  it signals nothing: the radio shows the wrong play state until the next command
  or change on the phone, against "so the radio reflects phone-side pause/resume
  immediately (2-way sync)" (`main.go:471-472`). Without `\/ writtenBack` in
  `RadioShowsPlay`, TLC shows it with the poll loop alone, no fetcher, nothing
  happening on the phone and one Play, in 25 steps.
* The stream is opened again. `NewiPodTrackInfo` "must be sent once when starting a
  new track, and re-sent only if the sample rate changes" (`lingo-audio/audio.go:54-56`),
  because it "triggers a full audio-pipeline reinit on the car"
  (`lingo-extremote/handler.go:220-224`, `261-263`). `HandleAudio` sends it for every
  `RetAccSampleRateCaps` (`lingo-audio/handler.go:54-62`), and the pod asks for these
  after every signature: a radio that repeats one or identifies again gets it again,
  at the same rate. `ReopenedForCause` says only that each time has a cause of its own.

Smaller ones, on which no run rests, are among the hazards: the 256-byte payload
(`packet.go:96`), a check for `io.ErrUnexpectedEOF` that reslicing keeps from firing
(`packet.go:53`), "best matching" reports that need a sorted descriptor
(`report_def.go:76`), the position notification "the car expects unconditionally"
(`extremote/notify.go:65`), the alias that an `os.WriteFile` cut short loses
(`general.go:83`), five answers that cannot be written (`Unwritten`), titles that
reach a Display Remote empty (`dispremote.go:331`), tokens that keep a radio
without an answer (`lingo-general/handler.go:76`).

## 8. Left out, and the plan

Left out of modelled parts: the text of titles and their truncation; `busctl`
and `dbus-monitor` output and the latter's restart; what fixed answers, database
and display answers say; preferences and event masks of the General lingo, which
only the radio reads back; the payload of `SetUIMode`; the pod's authentication
by the radio beyond who answers whom; binary encoding of payloads, and what an
`UnmarshalBinary` has against their contents but for FID tokens; the text form
of traces, and the one serde that `ipod view` has for both directions.
`SupportedSampleRates` and `SetSampleRate` are called by nobody.

The order of work has been: the AVRCP source and what a radio sees of it; the
layers below it (transport, packets, session); the handshake; position, alias
and traces; the proofs of the first two; `Lookup` over every registered message,
the ticker, tokens the pod does not know, and the proofs of the radio, the
handshake, the position and the alias; then the proofs of what a session reads
and answers, of the guard window, of the certificate and the stream, of the
transport as a `FrameLink`, of the traces and of the packets. What would be next:
titles over the Display Remote once its answers have text, and a model of `ipod
view` that reads both directions with one serde.
