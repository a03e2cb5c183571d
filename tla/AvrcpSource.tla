----------------------------- MODULE AvrcpSource -----------------------------
(***************************************************************************)
(* avrcp.Source: the cache of the phone's playback state and the goroutines *)
(* that fill it.                                                           *)
(*                                                                         *)
(*  - Poller is loop(): refresh() every 500 ms, for ever.                  *)
(*  - Refreshers are the `go s.refresh()` started by watchSignals() on any *)
(*    signal that names a player object.                                   *)
(*  - Fetchers are the `go s.fetchTrackWithRetry(...)` it starts when the  *)
(*    "Track" property is invalidated.                                     *)
(*  - The client is the main loop of cmd/ipod: it calls MediaControl from  *)
(*    the command handlers and takes TrackChanged()/PlayStateChanged()     *)
(*    when the notify channel wakes it.                                    *)
(*                                                                         *)
(* A step is one critical section of s.mu, one atomic operation, one       *)
(* channel operation or one busctl call.  `title' stands for the whole     *)
(* track identity (title, artist, album, duration); deviceName and the log *)
(* de-duplication are left out.                                            *)
(***************************************************************************)
EXTENDS Naturals

CONSTANTS
    Titles,       \* the titles the phone may show
    NoTitle,      \* "", no metadata seen yet
    Poller,       \* the goroutine of loop()
    Refreshers,   \* goroutines of refresh() started by a D-Bus signal
    Fetchers,     \* goroutines of fetchTrackWithRetry()
    MaxTries,     \* its maxTries (5 in the code)
    Replies,      \* the sets of properties that a GetAll reply may carry
    Methods,      \* the methods the client passes to MediaControl
    PhoneEvents,  \* what the user does on the phone: "toggle", "track"
    MaxEvents,    \* bound on phone events and MediaControl calls together
    Obedient,     \* TRUE: the phone executes every busctl method call
    Timely        \* TRUE: BlueZ and all refreshes in flight settle in 1500 ms

Properties == {"Track", "Status", "Position"}
Kinds == {"track", "play"}
AllMethods == {"Play", "Pause", "Stop", "Next", "Previous", "FastForward", "Rewind"}
Workers == {Poller} \cup Refreshers
Procs == Workers \cup Fetchers
AnyTitle == Titles \cup {NoTitle}

ASSUME ConstantsAssumption ==
    /\ NoTitle \notin Titles
    /\ Poller \notin Refreshers \cup Fetchers
    /\ Refreshers \cap Fetchers = {}
    /\ MaxTries \in Nat \ {0}
    /\ MaxEvents \in Nat
    /\ Replies \subseteq SUBSET Properties
    /\ Methods \subseteq AllMethods
    /\ PhoneEvents \subseteq {"toggle", "track"}
    /\ Obedient \in BOOLEAN /\ Timely \in BOOLEAN

VARIABLES
    state,             \* s.state
    lastKnownTitle,    \* s.lastKnownTitle
    lastKnownPlaying,  \* s.lastKnownPlaying
    optimistic,        \* time.Now().Before(s.optimisticUntil)
    baseline,          \* ~s.posRefreshedAt.IsZero()
    flag,              \* s.trackChanged, s.playStateChanged
    notifyCh,          \* number of values in s.notifyCh
    pc,                \* next step of each goroutine
    reply,             \* its copy of BlueZ's answer: props, or track
    next,              \* its local PlayState `next'
    tries,             \* i of fetchTrackWithRetry
    mainPc,            \* next step of the client
    method,            \* argument of the MediaControl call in progress, else "Play"
    phone,             \* what the phone plays (external)
    bluez,             \* BlueZ's cached view of it, which lags (external)
    late,              \* workers that read BlueZ before its last change
    budget             \* events left

cache == <<state, lastKnownTitle, lastKnownPlaying, optimistic, baseline>>
signals == <<flag, notifyCh>>
procs == <<pc, reply, next, tries, late>>
client == <<mainPc, method>>
world == <<phone, bluez, budget>>
vars == <<cache, signals, procs, client, world>>

PlayState == [title : AnyTitle, playing : BOOLEAN]
Blank == [title |-> NoTitle, playing |-> FALSE]
Nothing == [has |-> {}, title |-> NoTitle, playing |-> FALSE]

ProcSteps == {"idle", "snapshot", "compare", "learn", "apply", "get",
              "fetchSnapshot", "fetchStore", "patch",
              "storeTrack", "sendTrack", "storePlay", "sendPlay"}
ClientSteps == {"select", "takeTrack", "takePlay", "readPlay",
                "callStore", "callSend", "callBusctl"}

Init ==
    /\ state = Blank
    /\ lastKnownTitle = NoTitle
    /\ lastKnownPlaying = FALSE
    /\ optimistic = FALSE
    /\ baseline = FALSE
    /\ flag = [k \in Kinds |-> FALSE]
    /\ notifyCh = 0
    /\ pc = [p \in Procs |-> "idle"]
    /\ reply = [p \in Procs |-> Nothing]
    /\ next = [p \in Procs |-> Blank]
    /\ tries = [f \in Fetchers |-> 0]
    /\ mainPc = "select"
    /\ method = "Play"
    /\ phone \in PlayState
    /\ bluez \in {phone, Blank}
    /\ late = {}
    /\ budget = MaxEvents

-----------------------------------------------------------------------------
(* Control of the goroutines. *)

Goto(p, step) == pc' = [pc EXCEPT ![p] = step]

\* The goroutine has used its locals for the last time.
Leave(p, step) ==
    /\ Goto(p, step)
    /\ reply' = [reply EXCEPT ![p] = Nothing]
    /\ next' = [next EXCEPT ![p] = Blank]
    /\ tries' = IF p \in Fetchers THEN [tries EXCEPT ![p] = 0] ELSE tries
    /\ late' = late \ {p}

Return(p) == Leave(p, "idle")

Continue(p, step) ==
    /\ Goto(p, step)
    /\ UNCHANGED <<reply, next, tries, late>>

\* What follows the track part of a refresh, or the whole of a fetchTrack.
AfterTrack(p) ==
    IF p \in Fetchers THEN Return(p)
    ELSE Continue(p, IF "Track" \in reply[p].has THEN "apply" ELSE "patch")

-----------------------------------------------------------------------------
(* refresh(): busctl GetAll, then merge the reply into the cache. *)

\* An answer from BlueZ.  A failed call returns at once and changes nothing.
GetAll(w) ==
    /\ w \in Workers
    /\ pc[w] = "idle"
    /\ \E has \in Replies :
          reply' = [reply EXCEPT ![w] =
              [has |-> has,
               title |-> IF "Track" \in has THEN bluez.title ELSE NoTitle,
               playing |-> "Status" \in has /\ bluez.playing]]
    /\ Goto(w, "snapshot")
    /\ UNCHANGED <<next, tries, late, cache, signals, client, world>>

\* The Track property is there and is not an empty dictionary.
HasMetadata(r) == "Track" \in r.has /\ r.title # NoTitle

\* The reply laid over a copy of the cache.
Overlay(r) ==
    [title |-> IF HasMetadata(r) THEN r.title ELSE state.title,
     playing |-> IF "Status" \in r.has THEN r.playing ELSE state.playing]

\* next := s.state under the read lock, and the overlay of the reply.
Snapshot(w) ==
    /\ pc[w] = "snapshot"
    /\ LET r == reply[w] IN
          \/ /\ "Track" \notin r.has
             /\ Continue(w, "get")
          \/ /\ "Track" \in r.has
             /\ r.has \cap {"Status", "Position"} # {} \/ HasMetadata(r)
             /\ Goto(w, IF HasMetadata(r) THEN "compare" ELSE "apply")
             /\ next' = [next EXCEPT ![w] = Overlay(r)]
             /\ UNCHANGED <<reply, tries, late>>
          \/ /\ r.has = {"Track"} /\ ~HasMetadata(r)     \* !gotAny
             /\ Return(w)
    /\ UNCHANGED <<cache, signals, client, world>>

Compare(w) ==
    /\ pc[w] = "compare"
    /\ Continue(w, IF next[w].title # lastKnownTitle THEN "learn" ELSE "apply")
    /\ UNCHANGED <<cache, signals, client, world>>

Learn(w) ==
    /\ pc[w] = "learn"
    /\ lastKnownTitle' = next[w].title
    /\ Continue(w, "storeTrack")
    /\ UNCHANGED <<state, lastKnownPlaying, optimistic, baseline, signals, client, world>>

\* The last critical section of refresh(): publish `next', but let a recent
\* MediaControl override a status that contradicts it.
Apply(w) ==
    /\ pc[w] = "apply"
    /\ LET suppressed == next[w].playing # lastKnownPlaying /\ optimistic
           playing == IF suppressed THEN lastKnownPlaying ELSE next[w].playing
       IN /\ state' = [next[w] EXCEPT !.playing = playing]
          /\ lastKnownPlaying' = playing
          /\ baseline' = (playing /\ ("Position" \in reply[w].has \/ baseline))
          /\ IF playing # lastKnownPlaying THEN Leave(w, "storePlay") ELSE Return(w)
    /\ UNCHANGED <<lastKnownTitle, optimistic, signals, client, world>>

-----------------------------------------------------------------------------
(* fetchTrack(): busctl Get("Track"), alone or inside refresh(). *)

StartFetch(f) ==
    /\ f \in Fetchers
    /\ pc[f] = "idle"
    /\ Continue(f, "get")
    /\ UNCHANGED <<cache, signals, client, world>>

GetSucceeds(p) ==
    /\ pc[p] = "get"
    /\ bluez.title # NoTitle
    /\ reply' = [reply EXCEPT ![p].title = bluez.title]
    /\ Goto(p, "fetchSnapshot")
    /\ UNCHANGED <<next, tries, late, cache, signals, client, world>>

\* BlueZ does not have the track: refresh() goes on without it, a fetcher
\* tries again until it has made maxTries attempts.
GetFails(p) ==
    /\ pc[p] = "get"
    /\ IF p \in Workers THEN Continue(p, "patch")
       ELSE IF tries[p] + 1 = MaxTries THEN Return(p)
       ELSE /\ tries' = [tries EXCEPT ![p] = @ + 1]
            /\ UNCHANGED <<pc, reply, next, late>>
    /\ UNCHANGED <<cache, signals, client, world>>

\* next := s.state, in a critical section of its own.
FetchSnapshot(p) ==
    /\ pc[p] = "fetchSnapshot"
    /\ next' = [next EXCEPT ![p] = [state EXCEPT !.title = reply[p].title]]
    /\ Goto(p, "fetchStore")
    /\ UNCHANGED <<reply, tries, late, cache, signals, client, world>>

\* Mutation of FetchStore: the title is published but not remembered.
FetchStoreForgets(p) ==
    /\ pc[p] = "fetchStore"
    /\ state' = next[p]
    /\ IF next[p].title # lastKnownTitle THEN Continue(p, "storeTrack") ELSE AfterTrack(p)
    /\ UNCHANGED <<lastKnownTitle, lastKnownPlaying, optimistic, baseline, signals, client, world>>

FetchStore(p) ==
    /\ pc[p] = "fetchStore"
    /\ state' = next[p]
    /\ lastKnownTitle' = next[p].title
    /\ IF next[p].title # lastKnownTitle THEN Continue(p, "storeTrack") ELSE AfterTrack(p)
    /\ UNCHANGED <<lastKnownPlaying, optimistic, baseline, signals, client, world>>

\* Mutation of Patch: a suppressed status is published all the same.
PatchPublishesSuppressed(w) ==
    /\ pc[w] = "patch"
    /\ LET r == reply[w]
           playing == IF "Status" \in r.has THEN r.playing ELSE state.playing
           changed == "Status" \in r.has /\ r.playing # lastKnownPlaying /\ ~optimistic
       IN /\ state' = [state EXCEPT !.playing = playing]
          /\ lastKnownPlaying' = IF changed THEN playing ELSE lastKnownPlaying
          /\ baseline' = /\ "Status" \in r.has => playing
                         /\ ("Position" \in r.has /\ state.playing) \/ baseline
          /\ IF changed THEN Leave(w, "storePlay") ELSE Return(w)
    /\ UNCHANGED <<lastKnownTitle, optimistic, signals, client, world>>

\* The critical section of refresh() that follows fetchTrack.
Patch(w) ==
    /\ pc[w] = "patch"
    /\ LET r == reply[w]
           differs == "Status" \in r.has /\ r.playing # lastKnownPlaying
           playing == IF "Status" \notin r.has THEN state.playing
                      ELSE IF differs /\ optimistic THEN lastKnownPlaying
                      ELSE r.playing
           changed == differs /\ ~optimistic
       IN /\ state' = [state EXCEPT !.playing = playing]
          /\ lastKnownPlaying' = IF changed THEN playing ELSE lastKnownPlaying
          /\ baseline' = /\ "Status" \in r.has => playing
                         /\ ("Position" \in r.has /\ state.playing) \/ baseline
          /\ IF changed THEN Leave(w, "storePlay") ELSE Return(w)
    /\ UNCHANGED <<lastKnownTitle, optimistic, signals, client, world>>

-----------------------------------------------------------------------------
(* signalTrackChanged() and signalPlayStateChanged(). *)

StoreFlag(k) == flag' = [flag EXCEPT ![k] = TRUE] /\ UNCHANGED notifyCh

\* Mutation of NonBlockingSend: a channel without a buffer, no one receiving.
SendToUnbuffered == UNCHANGED <<flag, notifyCh>>

\* Mutation of NonBlockingSend: a channel without a bound.
SendUnbounded == notifyCh' = notifyCh + 1 /\ UNCHANGED flag

\* A send that never blocks: a full channel already holds a wake-up.
NonBlockingSend == notifyCh' = 1 /\ UNCHANGED flag

StoreTrack(p) ==
    /\ pc[p] = "storeTrack"
    /\ StoreFlag("track")
    /\ Continue(p, "sendTrack")
    /\ UNCHANGED <<cache, client, world>>

SendTrack(p) ==
    /\ pc[p] = "sendTrack"
    /\ NonBlockingSend
    /\ AfterTrack(p)
    /\ UNCHANGED <<cache, client, world>>

StorePlay(p) ==
    /\ pc[p] = "storePlay"
    /\ StoreFlag("play")
    /\ Continue(p, "sendPlay")
    /\ UNCHANGED <<cache, client, world>>

SendPlay(p) ==
    /\ pc[p] = "sendPlay"
    /\ NonBlockingSend
    /\ Return(p)
    /\ UNCHANGED <<cache, client, world>>

-----------------------------------------------------------------------------
(* The client: processFrames() and the handlers it calls. *)

Receive ==
    /\ mainPc = "select"
    /\ notifyCh = 1
    /\ notifyCh' = 0
    /\ mainPc' = "takeTrack"
    /\ UNCHANGED <<flag, method, cache, procs, world>>

\* Mutation of TakeTrack: `else if' between the two kinds of change.
TakeOneKind ==
    /\ mainPc = "takeTrack"
    /\ flag' = [flag EXCEPT !["track"] = FALSE]
    /\ mainPc' = IF flag["track"] THEN "select" ELSE "takePlay"
    /\ UNCHANGED <<notifyCh, method, cache, procs, world>>

TakeTrack ==
    /\ mainPc = "takeTrack"
    /\ flag' = [flag EXCEPT !["track"] = FALSE]
    /\ mainPc' = "takePlay"
    /\ UNCHANGED <<notifyCh, method, cache, procs, world>>

TakePlay ==
    /\ mainPc = "takePlay"
    /\ flag' = [flag EXCEPT !["play"] = FALSE]
    /\ mainPc' = IF flag["play"] THEN "readPlay" ELSE "select"
    /\ UNCHANGED <<notifyCh, method, cache, procs, world>>

\* state.Playing is read after the swap, in a critical section of its own.
ReadPlay ==
    /\ mainPc = "readPlay"
    /\ mainPc' = "select"
    /\ UNCHANGED <<method, signals, cache, procs, world>>

\* The workers whose answer predates a change; followed only where Timely asks.
MarkLate == IF Timely THEN {w \in Workers : pc[w] # "idle"} ELSE {}

\* Mutation of Call: pausing keeps the dead-reckoning baseline.
CallKeepsBaseline(m) ==
    /\ mainPc = "select"
    /\ budget > 0
    /\ budget' = budget - 1
    /\ method' = m
    /\ IF m \in {"Play", "Pause", "Stop"}
       THEN /\ state' = [state EXCEPT !.playing = (m = "Play")]
            /\ lastKnownPlaying' = (m = "Play")
            /\ optimistic' = TRUE
            /\ late' = MarkLate
            /\ mainPc' = "callStore"
       ELSE /\ mainPc' = "callBusctl"
            /\ UNCHANGED <<state, lastKnownPlaying, optimistic, late>>
    /\ UNCHANGED <<lastKnownTitle, baseline, signals, pc, reply, next, tries, phone, bluez>>

\* MediaControl(m), up to the end of its critical section.
Call(m) ==
    /\ mainPc = "select"
    /\ budget > 0
    /\ budget' = budget - 1
    /\ method' = m
    /\ IF m \in {"Play", "Pause", "Stop"}
       THEN /\ state' = [state EXCEPT !.playing = (m = "Play")]
            /\ lastKnownPlaying' = (m = "Play")
            /\ baseline' = (m = "Play" /\ baseline)
            /\ optimistic' = TRUE
            /\ late' = MarkLate
            /\ mainPc' = "callStore"
       ELSE /\ mainPc' = "callBusctl"
            /\ UNCHANGED <<state, lastKnownPlaying, baseline, optimistic, late>>
    /\ UNCHANGED <<lastKnownTitle, signals, pc, reply, next, tries, phone, bluez>>

CallStore ==
    /\ mainPc = "callStore"
    /\ StoreFlag("play")
    /\ mainPc' = "callSend"
    /\ UNCHANGED <<method, cache, procs, world>>

CallSend ==
    /\ mainPc = "callSend"
    /\ NonBlockingSend
    /\ mainPc' = "callBusctl"
    /\ UNCHANGED <<method, cache, procs, world>>

\* What the phone does with the method call (external).
Executes(m) ==
    \/ m = "Play" /\ phone' = [phone EXCEPT !.playing = TRUE]
    \/ m \in {"Pause", "Stop"} /\ phone' = [phone EXCEPT !.playing = FALSE]
    \/ m \in {"Next", "Previous"} /\ \E t \in Titles : phone' = [phone EXCEPT !.title = t]
    \/ m \in {"FastForward", "Rewind"} /\ phone' = phone

CallBusctl ==
    /\ mainPc = "callBusctl"
    /\ Executes(method) \/ (~Obedient /\ phone' = phone)
    /\ mainPc' = "select"
    /\ method' = "Play"
    /\ UNCHANGED <<bluez, budget, cache, signals, procs>>

-----------------------------------------------------------------------------
(* The phone, BlueZ and the clock (external). *)

PhoneEvent(e) ==
    /\ budget > 0
    /\ budget' = budget - 1
    /\ \/ e = "toggle" /\ phone' = [phone EXCEPT !.playing = ~@]
       \/ e = "track" /\ \E t \in Titles \ {phone.title} : phone' = [phone EXCEPT !.title = t]
    /\ UNCHANGED <<bluez, cache, signals, procs, client>>

BluezUpdate ==
    /\ bluez # phone
    /\ bluez' = phone
    /\ late' = IF optimistic THEN MarkLate ELSE {}
    /\ UNCHANGED <<phone, budget, pc, reply, next, tries, cache, signals, client>>

\* 1500 ms after the last Play, Pause or Stop.  A Timely system has told
\* BlueZ by then, and no refresh still holds an answer from before.
GuardExpires ==
    /\ optimistic
    /\ Timely => mainPc \notin {"callStore", "callSend", "callBusctl"} /\ bluez = phone /\ late = {}
    /\ optimistic' = FALSE
    /\ late' = {}
    /\ UNCHANGED <<state, lastKnownTitle, lastKnownPlaying, baseline,
                   pc, reply, next, tries, signals, client, world>>

-----------------------------------------------------------------------------
Running(p) ==
    \/ Snapshot(p) \/ Compare(p) \/ Learn(p) \/ Apply(p)
    \/ GetSucceeds(p) \/ GetFails(p) \/ FetchSnapshot(p) \/ FetchStore(p) \/ Patch(p)
    \/ StoreTrack(p) \/ SendTrack(p) \/ StorePlay(p) \/ SendPlay(p)

TakesNotification == Receive \/ TakeTrack \/ TakePlay \/ ReadPlay
FinishesCall == CallStore \/ CallSend \/ CallBusctl
ClientStep == TakesNotification \/ FinishesCall

Environment == (\E e \in PhoneEvents : PhoneEvent(e)) \/ BluezUpdate \/ GuardExpires

Next ==
    \/ \E p \in Procs : GetAll(p) \/ StartFetch(p) \/ Running(p)
    \/ \E m \in Methods : Call(m)
    \/ ClientStep
    \/ Environment

Spec == Init /\ [][Next]_vars

-----------------------------------------------------------------------------
(* Correctness. *)

\* Every variable has its type; a fetcher never passes its last attempt.
TypeOK ==
    /\ state \in PlayState
    /\ lastKnownTitle \in AnyTitle
    /\ lastKnownPlaying \in BOOLEAN
    /\ optimistic \in BOOLEAN
    /\ baseline \in BOOLEAN
    /\ flag \in [Kinds -> BOOLEAN]
    /\ notifyCh \in 0..1
    /\ pc \in [Procs -> ProcSteps]
    /\ reply \in [Procs -> [has : SUBSET Properties, title : AnyTitle, playing : BOOLEAN]]
    /\ next \in [Procs -> PlayState]
    /\ tries \in [Fetchers -> 0..(MaxTries - 1)]
    /\ mainPc \in ClientSteps
    /\ method \in AllMethods
    /\ phone \in PlayState
    /\ bluez \in PlayState
    /\ late \in SUBSET Workers
    /\ budget \in 0..MaxEvents

\* A goroutine or the client has raised a flag and has not yet sent.
AboutToSend ==
    \/ \E p \in Procs : pc[p] \in {"sendTrack", "sendPlay"}
    \/ mainPc = "callSend"

\* The client is awake and has not yet passed the swap of this kind.
WillTake(k) == mainPc \in (IF k = "track" THEN {"takeTrack"} ELSE {"takeTrack", "takePlay"})

\* A raised flag is never stranded: there is a value in the channel, someone
\* is about to put one there, or the client is on its way to the flag.
\* (signalTrackChanged and signalPlayStateChanged against `case <-notifyCh'.)
NoLostWakeup == \A k \in Kinds : flag[k] => notifyCh = 1 \/ AboutToSend \/ WillTake(k)

\* The flags and the channel implement the abstract Notifier.
Promise == INSTANCE Notifier WITH pending <- {k \in Kinds : flag[k]}
KeepsPromise == Promise!Spec

\* While only fetchTrack writes titles (GetAll carries no Track), the cached
\* title is the one last compared, however many goroutines interleave, so a
\* title the car can read has always been signalled.
TitleKnown == state.title = lastKnownTitle

\* A source whose last known state is paused has no baseline, whatever copy of
\* an older state a fetch has brought back: PlaybackStatus does not let the
\* position of a paused phone run on, though IsPlaying() may say that it plays.
BaselineOnlyWhilePlaying == baseline => lastKnownPlaying

\* A MediaControl(Play, Pause or Stop) in its critical section.
Commands == mainPc = "select" /\ mainPc' = "callStore"

\* fetchTrack stores a copy with a play state that is no longer the cached one.
WritesBack == \E p \in Procs : FetchStore(p) /\ next[p].playing # state.playing

\* The play state that IsPlaying() returns becomes the known one again.
Repairs == state'.playing = lastKnownPlaying /\ UNCHANGED lastKnownPlaying

\* The guard window does its work: with a phone that obeys, no user at the
\* phone and a BlueZ that settles in time, from the first command on only
\* MediaControl changes the play state, the one that IsPlaying() returns and the
\* one that polls are compared with.  No refresh() bounces either.  The
\* exception is fetchTrack, which may store a copy from before the command;
\* what follows that is a return to what was commanded.
NoBounce ==
    [][budget < MaxEvents /\ <<state.playing, lastKnownPlaying>>' # <<state.playing, lastKnownPlaying>>
           => Commands \/ WritesBack \/ Repairs]_vars
=============================================================================
