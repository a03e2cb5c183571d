------------------------------- MODULE Position -------------------------------
(***************************************************************************)
(* The playback position: avrcp.Source keeps the position that BlueZ       *)
(* reported last and the time of that report, PlaybackStatus adds the time *)
(* that has passed since.  The ticker of the main loop sends the sum,      *)
(* TrackPos, as it is at that moment, to a radio that has subscribed to it, *)
(* in milliseconds (lingo 0x04), in seconds (lingo 0x03), or both.  The    *)
(* answers to the radio's requests bring it the same sum.                  *)
(*                                                                         *)
(* Time passes in ticks of 250 ms; positions and durations are in ticks.   *)
(* Clock readings are ages: since is now - posRefreshedAt, guard is        *)
(* optimisticUntil - now.  A poll and a MediaControl are one step each:    *)
(* how they interleave is in AvrcpSource.                                  *)
(***************************************************************************)
EXTENDS Integers

CONSTANTS
    TrackLength,    \* of the tracks that the phone plays
    Duration,       \* PlaybackStatus's dur: what is known of it, or the fallback
    PollEvery,      \* ticks between two polls, at most
    ReportEvery,    \* ticks after which BlueZ knows the phone's play state
    GuardLength,    \* the guard window after MediaControl
    TickerEvery,    \* ticks between two of the position ticker
    Units           \* what the radio subscribes to: "ms", "sec"

ASSUME PositionAssumption ==
    /\ TrackLength \in Nat \ {0} /\ Duration \in Nat \ {0}
    /\ PollEvery \in Nat \ {0} /\ ReportEvery \in Nat \ {0} /\ TickerEvery \in Nat \ {0}
    /\ GuardLength \in Nat
    /\ Units \subseteq {"ms", "sec"}

VARIABLES
    position, playing,   \* state.Position, state.Playing
    since,               \* the age of posRefreshedAt, Zero if IsZero()
    lastKnownPlaying,
    guard,               \* what is left of the guard window
    phone,               \* what the phone plays (external)
    bluez,               \* the play state BlueZ last heard of (external)
    pollAge, reportAge,  \* ticks since the last poll, the last report
    tickerAge,           \* ticks since the position ticker's last
    timer,               \* the position that the radio was last told (external)
    calm,                \* ticks for which the source has been playing, and not
                         \* astray, until now (ghost)
    astray,              \* the last poll failed, or the phone has changed its
                         \* position since, other than by playing (ghost)
    steady               \* the phone has done nothing but play since BlueZ heard
                         \* from it (1), and since it was then polled (2) (ghost)

Zero == -1

cache == <<position, playing, since, lastKnownPlaying, guard>>
ages == <<pollAge, reportAge>>
ghosts == <<astray, steady>>
radio == <<tickerAge, timer>>
vars == <<cache, phone, bluez, ages, radio, ghosts, calm>>

Stopped == [pos |-> 0, playing |-> FALSE]

Init ==
    /\ position = 0 /\ playing = FALSE
    /\ since = Zero
    /\ lastKnownPlaying = FALSE
    /\ guard = 0
    /\ phone = Stopped /\ bluez = FALSE
    /\ pollAge = 0 /\ reportAge = 0
    /\ tickerAge = 0 /\ timer = [u \in Units |-> 0]
    /\ astray = FALSE /\ steady = 0 /\ calm = 0

-----------------------------------------------------------------------------
(* PlaybackStatus. *)

AtMost(a, b) == IF a <= b THEN a ELSE b

\* trackPos.
TrackPos ==
    IF playing /\ since # Zero /\ since < Duration
    THEN AtMost(position + since, Duration)
    ELSE position

-----------------------------------------------------------------------------
(* refresh. *)

\* BlueZ computes Position when it is asked.
PolledPos == phone.pos

\* Whether a poll takes the reported play state, or the guard suppresses it.
NewPlaying ==
    IF bluez # lastKnownPlaying /\ guard > 0 THEN lastKnownPlaying ELSE bluez

Polled ==
    /\ pollAge' = 0
    /\ astray' = FALSE
    /\ steady' = IF steady = 0 THEN 0 ELSE 2
    /\ UNCHANGED <<guard, phone, bluez, reportAge>>

\* GetAll brought the Track: the whole state is written.
PollWithTrack ==
    /\ position' = PolledPos
    /\ playing' = NewPlaying
    /\ lastKnownPlaying' = NewPlaying
    /\ since' = IF NewPlaying THEN 0 ELSE Zero
    /\ Polled

\* Mutation of PollWithoutTrack: the time of the report is not noted.
PollWithoutTrackForgets ==
    /\ position' = PolledPos
    /\ playing' = NewPlaying
    /\ lastKnownPlaying' = NewPlaying
    /\ since' = IF ~NewPlaying THEN Zero ELSE since
    /\ Polled

\* It did not: position and play state are patched in, in this order.
PollWithoutTrack ==
    /\ position' = PolledPos
    /\ playing' = NewPlaying
    /\ lastKnownPlaying' = NewPlaying
    /\ since' = IF ~NewPlaying THEN Zero ELSE IF playing THEN 0 ELSE since
    /\ Polled

\* No player path, or no properties: refresh returns.
PollFails ==
    /\ pollAge' = 0
    /\ astray' = TRUE
    /\ UNCHANGED <<cache, phone, bluez, reportAge, steady>>

-----------------------------------------------------------------------------
(* MediaControl; the phone obeys or not. *)

Obeys(on) ==
    /\ phone' \in {phone, [phone EXCEPT !.playing = on]}
    /\ steady' = IF phone' = phone THEN steady ELSE 0
    /\ UNCHANGED astray

MediaPlay ==
    /\ playing' = TRUE /\ lastKnownPlaying' = TRUE
    /\ guard' = GuardLength
    /\ Obeys(TRUE)
    /\ UNCHANGED <<position, since, bluez, ages>>

\* Mutation of MediaPause: the baseline is kept.
MediaPauseKeeps ==
    /\ playing' = FALSE /\ lastKnownPlaying' = FALSE
    /\ guard' = GuardLength
    /\ Obeys(FALSE)
    /\ UNCHANGED <<position, since, bluez, ages>>

MediaPause ==
    /\ playing' = FALSE /\ lastKnownPlaying' = FALSE
    /\ since' = Zero
    /\ guard' = GuardLength
    /\ Obeys(FALSE)
    /\ UNCHANGED <<position, bluez, ages>>

-----------------------------------------------------------------------------
(* The position ticker. *)

\* A second, as against the milliseconds that ticks stand for.
Length(u) == IF u = "sec" THEN 4 ELSE 1

\* Mutation of Told: milliseconds on either lingo.
ToldUnconverted(u) == TrackPos

\* SendTrackPositionMs, SendTrackPositionSec.
Told(u) == TrackPos \div Length(u)

\* `case <-positionTicker.C': nothing is sent while the source is paused.
PositionTicker ==
    /\ tickerAge = TickerEvery
    /\ tickerAge' = 0
    /\ timer' = IF playing THEN [u \in Units |-> Told(u)] ELSE timer
    /\ UNCHANGED <<cache, phone, bluez, ages, ghosts, calm>>

-----------------------------------------------------------------------------
(* The phone, BlueZ and time (external). *)

PhoneToggles ==
    /\ phone' = [phone EXCEPT !.playing = ~@]
    /\ steady' = 0
    /\ UNCHANGED <<cache, bluez, ages, astray>>

PhoneSeeks ==
    /\ phone' \in {[phone EXCEPT !.pos = p] : p \in 0..TrackLength}
    /\ astray' = TRUE /\ steady' = 0
    /\ UNCHANGED <<cache, bluez, ages>>

BluezReport ==
    /\ bluez' = phone.playing
    /\ reportAge' = 0
    /\ steady' = IF phone.playing /\ steady = 0 THEN 1 ELSE steady
    /\ UNCHANGED <<cache, phone, pollAge, astray>>

\* The next track starts when one is at its end.
Advanced ==
    IF ~phone.playing THEN phone
    ELSE [phone EXCEPT !.pos = IF @ = TrackLength THEN 0 ELSE @ + 1]

\* A poll or a report that is due comes before time goes on.  Ages beyond
\* Duration are all the same.
Tick ==
    /\ pollAge < PollEvery /\ reportAge < ReportEvery /\ tickerAge < TickerEvery
    /\ pollAge' = pollAge + 1 /\ reportAge' = reportAge + 1 /\ tickerAge' = tickerAge + 1
    /\ since' = IF since = Zero THEN Zero ELSE AtMost(since + 1, Duration)
    /\ guard' = IF guard = 0 THEN 0 ELSE guard - 1
    /\ phone' = Advanced
    /\ astray' = (astray \/ phone'.pos < phone.pos)
    /\ steady' = IF phone'.pos < phone.pos THEN 0 ELSE steady
    /\ calm' = IF playing /\ ~astray' THEN AtMost(calm + 1, TickerEvery + 1) ELSE 0
    /\ UNCHANGED <<position, playing, lastKnownPlaying, bluez, timer>>

-----------------------------------------------------------------------------
\* Every other step takes no time.
NoTime ==
    /\ calm' = IF playing' /\ ~astray' THEN calm ELSE 0
    /\ UNCHANGED radio

Next ==
    \/ (\/ PollWithTrack \/ PollWithoutTrack \/ PollFails
        \/ MediaPlay \/ MediaPause
        \/ PhoneToggles \/ PhoneSeeks \/ BluezReport) /\ NoTime
    \/ PositionTicker \/ Tick

Spec == Init /\ [][Next]_vars

-----------------------------------------------------------------------------
(* Correctness. *)

\* Every variable has its type; ages and positions stay in their bounds.
TypeOK ==
    /\ position \in 0..TrackLength
    /\ playing \in BOOLEAN /\ lastKnownPlaying \in BOOLEAN
    /\ bluez \in BOOLEAN /\ astray \in BOOLEAN
    /\ steady \in 0..2
    /\ since \in Zero..Duration
    /\ guard \in 0..GuardLength
    /\ phone \in [pos : 0..TrackLength, playing : BOOLEAN]
    /\ pollAge \in 0..PollEvery /\ reportAge \in 0..ReportEvery
    /\ tickerAge \in 0..TickerEvery /\ timer \in [Units -> 0..TrackLength \cup 0..Duration]
    /\ calm \in 0..TickerEvery + 1

Distance(a, b) == IF a > b THEN a - b ELSE b - a

\* Between two polls the reported position is off by no more than the time
\* since the last one, through pauses and resumptions from either side, guard
\* windows, and phones that ignore the radio: extrapolation never starts from
\* a baseline of before a pause.  Seeks and new tracks show at the next poll
\* that does not fail.
Accurate == ~astray => Distance(TrackPos, phone.pos) <= pollAge

\* What the ticker last told a radio stays near the phone's position: while the
\* source plays and knows of no jump, off by no more than a poll and a tick of
\* the ticker, and what a full second drops.  ("It is what drives the car's
\* on-screen playback timer.")
TimerFollows ==
    calm > TickerEvery =>
        \A u \in Units :
            LET behind == phone.pos - timer[u] * Length(u)
                late   == PollEvery + tickerAge
            IN -late <= behind /\ behind < late + Length(u)

\* While the phone does nothing but play, the radio's timer does not go back,
\* however many polls fail.  ("The car's timer advances smoothly between
\* BlueZ's ~1Hz position updates.")
Smooth ==
    [][steady = 2 /\ playing /\ steady' = 2 /\ playing' => TrackPos' >= TrackPos]_vars
=============================================================================
