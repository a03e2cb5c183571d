---------------------------- MODULE PositionProofs ----------------------------
(***************************************************************************)
(* Position's invariants, for tracks, intervals and guard windows of any   *)
(* length.  Near is what makes Accurate inductive: the position of the last *)
(* poll is behind the phone's by no more than the time since, and so is the *)
(* baseline.  OnTime says the same of what the ticker last told.           *)
(***************************************************************************)
EXTENDS Position, TLAPS

\* A paused position has no baseline to run on from.
Based == ~playing => since = Zero

\* Since the last poll.
Near ==
    ~astray => /\ position <= phone.pos /\ phone.pos <= position + pollAge
               /\ since # Zero => since <= pollAge

Calm == calm > 0 => playing /\ ~astray

\* A tick of the ticker within the calm has left the radio's timer right.
Late(u) ==
    LET behind == phone.pos - timer[u] * Length(u)
        late   == PollEvery + tickerAge
    IN -late <= behind /\ behind < late + Length(u)
OnTime == calm > tickerAge => \A u \in Units : Late(u)

\* While the phone just plays, what is extrapolated is not ahead of it.
NotAhead ==
    /\ steady > 0 => phone.playing
    /\ steady = 2 => /\ position <= phone.pos
                     /\ since # Zero => position + since <= phone.pos

IInv == TypeOK /\ Based /\ Near /\ Calm

\* The steps that take no time, by name.
Moves ==
    \/ PollWithTrack \/ PollWithoutTrack \/ PollFails
    \/ MediaPlay \/ MediaPause
    \/ PhoneToggles \/ PhoneSeeks \/ BluezReport

-----------------------------------------------------------------------------
LEMMA TypeInit == Init => TypeOK
<1>. SUFFICES ASSUME Init PROVE TypeOK
  OBVIOUS
<1>1. timer \in [Units -> 0..TrackLength \cup 0..Duration]
  BY PositionAssumption DEF Init
<1>2. phone \in [pos : 0..TrackLength, playing : BOOLEAN]
  BY PositionAssumption DEF Init, Stopped
<1>3. since \in Zero..Duration
  BY PositionAssumption DEF Init, Zero
<1>4. /\ position \in 0..TrackLength /\ guard \in 0..GuardLength /\ steady \in 0..2
      /\ pollAge \in 0..PollEvery /\ reportAge \in 0..ReportEvery
      /\ tickerAge \in 0..TickerEvery /\ calm \in 0..TickerEvery + 1
  BY PositionAssumption DEF Init
<1>5. /\ playing \in BOOLEAN /\ lastKnownPlaying \in BOOLEAN
      /\ bluez \in BOOLEAN /\ astray \in BOOLEAN
  BY DEF Init
<1>. QED
  BY <1>1, <1>2, <1>3, <1>4, <1>5 DEF TypeOK

\* Told's quotient, bounded.
LEMMA ToldBounds ==
    ASSUME NEW u \in Units, TrackPos \in Nat
    PROVE  /\ Length(u) \in {1, 4} /\ Told(u) \in Nat
           /\ Told(u) * Length(u) <= TrackPos
           /\ TrackPos < Told(u) * Length(u) + Length(u)
           /\ Told(u) <= TrackPos
<1>1. CASE Length(u) = 1
  BY <1>1 DEF Told
<1>2. CASE Length(u) = 4
  BY <1>2 DEF Told
<1>. QED
  BY <1>1, <1>2 DEF Length

\* The position that is sent is one of the track or the duration.
LEMMA TrackPosTyped ==
    ASSUME TypeOK
    PROVE  TrackPos \in 0..TrackLength \cup 0..Duration
  BY PositionAssumption DEF TypeOK, TrackPos, AtMost, Zero

\* What a step that takes no time changes keeps its type.
LEMMA TypeMoves ==
    ASSUME TypeOK, Moves /\ NoTime
    PROVE  TypeOK'
<1>. USE PositionAssumption
<1>1. position' \in 0..TrackLength /\ guard' \in 0..GuardLength /\ steady' \in 0..2
      /\ pollAge' \in 0..PollEvery /\ reportAge' \in 0..ReportEvery
  <2>1. CASE PollWithTrack
    BY <2>1 DEF PollWithTrack, TypeOK, Zero, Polled, Obeys, NewPlaying, PolledPos, cache, ages, ghosts, radio
  <2>2. CASE PollWithoutTrack
    BY <2>2 DEF PollWithoutTrack, TypeOK, Zero, Polled, Obeys, NewPlaying, PolledPos, cache, ages, ghosts, radio
  <2>3. CASE PollFails
    BY <2>3 DEF PollFails, TypeOK, Zero, Polled, Obeys, NewPlaying, PolledPos, cache, ages, ghosts, radio
  <2>4. CASE MediaPlay
    BY <2>4 DEF MediaPlay, TypeOK, Zero, Polled, Obeys, NewPlaying, PolledPos, cache, ages, ghosts, radio
  <2>5. CASE MediaPause
    BY <2>5 DEF MediaPause, TypeOK, Zero, Polled, Obeys, NewPlaying, PolledPos, cache, ages, ghosts, radio
  <2>6. CASE PhoneToggles
    BY <2>6 DEF PhoneToggles, TypeOK, Zero, Polled, Obeys, NewPlaying, PolledPos, cache, ages, ghosts, radio
  <2>7. CASE PhoneSeeks
    BY <2>7 DEF PhoneSeeks, TypeOK, Zero, Polled, Obeys, NewPlaying, PolledPos, cache, ages, ghosts, radio
  <2>8. CASE BluezReport
    BY <2>8 DEF BluezReport, TypeOK, Zero, Polled, Obeys, NewPlaying, PolledPos, cache, ages, ghosts, radio
  <2>. QED
    BY <2>1, <2>2, <2>3, <2>4, <2>5, <2>6, <2>7, <2>8 DEF Moves
<1>2. since' \in Zero..Duration
  <2>1. CASE PollWithTrack
    BY <2>1 DEF PollWithTrack, TypeOK, Zero, Polled, Obeys, NewPlaying, PolledPos, cache, ages, ghosts, radio
  <2>2. CASE PollWithoutTrack
    BY <2>2 DEF PollWithoutTrack, TypeOK, Zero, Polled, Obeys, NewPlaying, PolledPos, cache, ages, ghosts, radio
  <2>3. CASE PollFails
    BY <2>3 DEF PollFails, TypeOK, Zero, Polled, Obeys, NewPlaying, PolledPos, cache, ages, ghosts, radio
  <2>4. CASE MediaPlay
    BY <2>4 DEF MediaPlay, TypeOK, Zero, Polled, Obeys, NewPlaying, PolledPos, cache, ages, ghosts, radio
  <2>5. CASE MediaPause
    BY <2>5 DEF MediaPause, TypeOK, Zero, Polled, Obeys, NewPlaying, PolledPos, cache, ages, ghosts, radio
  <2>6. CASE PhoneToggles
    BY <2>6 DEF PhoneToggles, TypeOK, Zero, Polled, Obeys, NewPlaying, PolledPos, cache, ages, ghosts, radio
  <2>7. CASE PhoneSeeks
    BY <2>7 DEF PhoneSeeks, TypeOK, Zero, Polled, Obeys, NewPlaying, PolledPos, cache, ages, ghosts, radio
  <2>8. CASE BluezReport
    BY <2>8 DEF BluezReport, TypeOK, Zero, Polled, Obeys, NewPlaying, PolledPos, cache, ages, ghosts, radio
  <2>. QED
    BY <2>1, <2>2, <2>3, <2>4, <2>5, <2>6, <2>7, <2>8 DEF Moves
<1>3. phone' \in [pos : 0..TrackLength, playing : BOOLEAN]
  <2>1. CASE PollWithTrack
    BY <2>1 DEF PollWithTrack, TypeOK, Zero, Polled, Obeys, NewPlaying, PolledPos, cache, ages, ghosts, radio
  <2>2. CASE PollWithoutTrack
    BY <2>2 DEF PollWithoutTrack, TypeOK, Zero, Polled, Obeys, NewPlaying, PolledPos, cache, ages, ghosts, radio
  <2>3. CASE PollFails
    BY <2>3 DEF PollFails, TypeOK, Zero, Polled, Obeys, NewPlaying, PolledPos, cache, ages, ghosts, radio
  <2>4. CASE MediaPlay
    BY <2>4 DEF MediaPlay, TypeOK, Zero, Polled, Obeys, NewPlaying, PolledPos, cache, ages, ghosts, radio
  <2>5. CASE MediaPause
    BY <2>5 DEF MediaPause, TypeOK, Zero, Polled, Obeys, NewPlaying, PolledPos, cache, ages, ghosts, radio
  <2>6. CASE PhoneToggles
    BY <2>6 DEF PhoneToggles, TypeOK, Zero, Polled, Obeys, NewPlaying, PolledPos, cache, ages, ghosts, radio
  <2>7. CASE PhoneSeeks
    BY <2>7 DEF PhoneSeeks, TypeOK, Zero, Polled, Obeys, NewPlaying, PolledPos, cache, ages, ghosts, radio
  <2>8. CASE BluezReport
    BY <2>8 DEF BluezReport, TypeOK, Zero, Polled, Obeys, NewPlaying, PolledPos, cache, ages, ghosts, radio
  <2>. QED
    BY <2>1, <2>2, <2>3, <2>4, <2>5, <2>6, <2>7, <2>8 DEF Moves
<1>4. playing' \in BOOLEAN /\ lastKnownPlaying' \in BOOLEAN
      /\ bluez' \in BOOLEAN /\ astray' \in BOOLEAN
  <2>1. CASE PollWithTrack
    BY <2>1 DEF PollWithTrack, TypeOK, Zero, Polled, Obeys, NewPlaying, PolledPos, cache, ages, ghosts, radio
  <2>2. CASE PollWithoutTrack
    BY <2>2 DEF PollWithoutTrack, TypeOK, Zero, Polled, Obeys, NewPlaying, PolledPos, cache, ages, ghosts, radio
  <2>3. CASE PollFails
    BY <2>3 DEF PollFails, TypeOK, Zero, Polled, Obeys, NewPlaying, PolledPos, cache, ages, ghosts, radio
  <2>4. CASE MediaPlay
    BY <2>4 DEF MediaPlay, TypeOK, Zero, Polled, Obeys, NewPlaying, PolledPos, cache, ages, ghosts, radio
  <2>5. CASE MediaPause
    BY <2>5 DEF MediaPause, TypeOK, Zero, Polled, Obeys, NewPlaying, PolledPos, cache, ages, ghosts, radio
  <2>6. CASE PhoneToggles
    BY <2>6 DEF PhoneToggles, TypeOK, Zero, Polled, Obeys, NewPlaying, PolledPos, cache, ages, ghosts, radio
  <2>7. CASE PhoneSeeks
    BY <2>7 DEF PhoneSeeks, TypeOK, Zero, Polled, Obeys, NewPlaying, PolledPos, cache, ages, ghosts, radio
  <2>8. CASE BluezReport
    BY <2>8 DEF BluezReport, TypeOK, Zero, Polled, Obeys, NewPlaying, PolledPos, cache, ages, ghosts, radio
  <2>. QED
    BY <2>1, <2>2, <2>3, <2>4, <2>5, <2>6, <2>7, <2>8 DEF Moves
<1>5. tickerAge' \in 0..TickerEvery /\ timer' \in [Units -> 0..TrackLength \cup 0..Duration]
  BY DEF NoTime, radio, TypeOK
<1>6. calm' \in 0..TickerEvery + 1
  BY DEF NoTime, TypeOK
<1>. QED
  BY <1>1, <1>2, <1>3, <1>4, <1>5, <1>6 DEF TypeOK

\* A tick adds one to every age that is not at its bound.
LEMMA TypeTick ==
    ASSUME TypeOK, Tick
    PROVE  TypeOK'
<1>. USE PositionAssumption
<1>1. phone' \in [pos : 0..TrackLength, playing : BOOLEAN]
  BY DEF Tick, TypeOK, Advanced
<1>2. since' \in Zero..Duration
  BY DEF Tick, TypeOK, AtMost, Zero
<1>3. /\ position' \in 0..TrackLength /\ guard' \in 0..GuardLength /\ steady' \in 0..2
      /\ pollAge' \in 0..PollEvery /\ reportAge' \in 0..ReportEvery
      /\ tickerAge' \in 0..TickerEvery
  BY DEF Tick, TypeOK
<1>4. /\ playing' \in BOOLEAN /\ lastKnownPlaying' \in BOOLEAN
      /\ bluez' \in BOOLEAN /\ astray' \in BOOLEAN
  BY DEF Tick, TypeOK
<1>5. timer' \in [Units -> 0..TrackLength \cup 0..Duration]
  BY DEF Tick, TypeOK
<1>6. calm' \in 0..TickerEvery + 1
  BY DEF Tick, TypeOK, AtMost
<1>. QED
  BY <1>1, <1>2, <1>3, <1>4, <1>5, <1>6 DEF TypeOK

\* What the ticker sends is a position, or a part of one.
LEMMA TypeTicker ==
    ASSUME TypeOK, PositionTicker
    PROVE  TypeOK'
<1>. USE PositionAssumption
<1>1. ASSUME NEW u \in Units
      PROVE  Told(u) \in 0..TrackLength \cup 0..Duration
  <2>1. TrackPos \in 0..TrackLength \cup 0..Duration /\ TrackPos \in Nat
    BY TrackPosTyped
  <2>2. Told(u) \in Nat /\ Told(u) <= TrackPos
    BY <2>1, ToldBounds
  <2>. QED
    BY <2>1, <2>2
<1>2. timer' \in [Units -> 0..TrackLength \cup 0..Duration]
  BY <1>1 DEF PositionTicker, TypeOK
<1>3. tickerAge' \in 0..TickerEvery
  BY DEF PositionTicker
<1>. QED
  BY <1>2, <1>3 DEF PositionTicker, TypeOK, cache, ages, ghosts

\* TypeOK is inductive on its own.
LEMMA TypeStep == TypeOK /\ [Next]_vars => TypeOK'
<1>. SUFFICES ASSUME TypeOK, [Next]_vars PROVE TypeOK'
  OBVIOUS
<1>1. CASE Moves /\ NoTime
  BY <1>1, TypeMoves
<1>2. CASE PositionTicker
  BY <1>2, TypeTicker
<1>3. CASE Tick
  BY <1>3, TypeTick
<1>4. CASE UNCHANGED vars
  BY <1>4 DEF TypeOK, vars, cache, ages, radio, ghosts
<1>. QED
  BY <1>1, <1>2, <1>3, <1>4 DEF Next, Moves

\* Positions, ages and timers stay in their ranges.
THEOREM PositionTypeCorrect == Spec => []TypeOK
  BY TypeInit, TypeStep, PTL DEF Spec

-----------------------------------------------------------------------------
\* Every path that stops the source drops the baseline.
LEMMA BasedStep == TypeOK /\ Based /\ [Next]_vars => Based'
<1>. SUFFICES ASSUME TypeOK, Based, [Next]_vars PROVE Based'
  OBVIOUS
<1>1. CASE PollWithTrack /\ NoTime
  BY <1>1 DEF PollWithTrack, TypeOK, Based, Zero, Polled, Obeys, NewPlaying, PolledPos, cache, ages, ghosts, radio
<1>2. CASE PollWithoutTrack /\ NoTime
  BY <1>2 DEF PollWithoutTrack, TypeOK, Based, Zero, Polled, Obeys, NewPlaying, PolledPos, cache, ages, ghosts, radio
<1>3. CASE PollFails /\ NoTime
  BY <1>3 DEF PollFails, TypeOK, Based, Zero, Polled, Obeys, NewPlaying, PolledPos, cache, ages, ghosts, radio
<1>4. CASE MediaPlay /\ NoTime
  BY <1>4 DEF MediaPlay, TypeOK, Based, Zero, Polled, Obeys, NewPlaying, PolledPos, cache, ages, ghosts, radio
<1>5. CASE MediaPause /\ NoTime
  BY <1>5 DEF MediaPause, TypeOK, Based, Zero, Polled, Obeys, NewPlaying, PolledPos, cache, ages, ghosts, radio
<1>6. CASE PhoneToggles /\ NoTime
  BY <1>6 DEF PhoneToggles, TypeOK, Based, Zero, Polled, Obeys, NewPlaying, PolledPos, cache, ages, ghosts, radio
<1>7. CASE PhoneSeeks /\ NoTime
  BY <1>7 DEF PhoneSeeks, TypeOK, Based, Zero, Polled, Obeys, NewPlaying, PolledPos, cache, ages, ghosts, radio
<1>8. CASE BluezReport /\ NoTime
  BY <1>8 DEF BluezReport, TypeOK, Based, Zero, Polled, Obeys, NewPlaying, PolledPos, cache, ages, ghosts, radio
<1>9. CASE Tick
  BY <1>9 DEF Tick, TypeOK, Based, Zero, Polled, Obeys, NewPlaying, PolledPos, cache, ages, ghosts, radio
<1>10. CASE PositionTicker
  BY <1>10 DEF PositionTicker, TypeOK, Based, Zero, Polled, Obeys, NewPlaying, PolledPos, cache, ages, ghosts, radio
<1>11. CASE UNCHANGED vars
  BY <1>11 DEF vars, TypeOK, Based, Zero, Polled, Obeys, NewPlaying, PolledPos, cache, ages, ghosts, radio
<1>. QED
  BY <1>1, <1>2, <1>3, <1>4, <1>5, <1>6, <1>7, <1>8, <1>9, <1>10, <1>11 DEF Next

\* A poll brings the phone's position; between polls the phone gains at most
\* one tick a tick, and one that jumps is astray.
LEMMA NearStep == TypeOK /\ Based /\ Near /\ [Next]_vars => Near'
<1>. SUFFICES ASSUME TypeOK, Based, Near, [Next]_vars PROVE Near'
  OBVIOUS
<1>. USE PositionAssumption
<1>1. CASE PollWithTrack /\ NoTime
  BY <1>1 DEF PollWithTrack, TypeOK, Based, Near, Zero, Advanced, AtMost, Polled, Obeys, NewPlaying, PolledPos, cache, ages, ghosts, radio
<1>2. CASE PollWithoutTrack /\ NoTime
  BY <1>2 DEF PollWithoutTrack, TypeOK, Based, Near, Zero, Advanced, AtMost, Polled, Obeys, NewPlaying, PolledPos, cache, ages, ghosts, radio
<1>3. CASE PollFails /\ NoTime
  BY <1>3 DEF PollFails, TypeOK, Based, Near, Zero, Advanced, AtMost, Polled, Obeys, NewPlaying, PolledPos, cache, ages, ghosts, radio
<1>4. CASE MediaPlay /\ NoTime
  BY <1>4 DEF MediaPlay, TypeOK, Based, Near, Zero, Advanced, AtMost, Polled, Obeys, NewPlaying, PolledPos, cache, ages, ghosts, radio
<1>5. CASE MediaPause /\ NoTime
  BY <1>5 DEF MediaPause, TypeOK, Based, Near, Zero, Advanced, AtMost, Polled, Obeys, NewPlaying, PolledPos, cache, ages, ghosts, radio
<1>6. CASE PhoneToggles /\ NoTime
  BY <1>6 DEF PhoneToggles, TypeOK, Based, Near, Zero, Advanced, AtMost, Polled, Obeys, NewPlaying, PolledPos, cache, ages, ghosts, radio
<1>7. CASE PhoneSeeks /\ NoTime
  BY <1>7 DEF PhoneSeeks, TypeOK, Based, Near, Zero, Advanced, AtMost, Polled, Obeys, NewPlaying, PolledPos, cache, ages, ghosts, radio
<1>8. CASE BluezReport /\ NoTime
  BY <1>8 DEF BluezReport, TypeOK, Based, Near, Zero, Advanced, AtMost, Polled, Obeys, NewPlaying, PolledPos, cache, ages, ghosts, radio
<1>9. CASE Tick
  BY <1>9 DEF Tick, TypeOK, Based, Near, Zero, Advanced, AtMost, Polled, Obeys, NewPlaying, PolledPos, cache, ages, ghosts, radio
<1>10. CASE PositionTicker
  BY <1>10 DEF PositionTicker, TypeOK, Based, Near, Zero, Advanced, AtMost, Polled, Obeys, NewPlaying, PolledPos, cache, ages, ghosts, radio
<1>11. CASE UNCHANGED vars
  BY <1>11 DEF vars, TypeOK, Based, Near, Zero, Advanced, AtMost, Polled, Obeys, NewPlaying, PolledPos, cache, ages, ghosts, radio
<1>. QED
  BY <1>1, <1>2, <1>3, <1>4, <1>5, <1>6, <1>7, <1>8, <1>9, <1>10, <1>11 DEF Next

\* Calm is over as soon as the source stops or the phone jumps.
LEMMA CalmStep == TypeOK /\ Calm /\ [Next]_vars => Calm'
<1>. SUFFICES ASSUME TypeOK, Calm, [Next]_vars PROVE Calm'
  OBVIOUS
<1>1. CASE PollWithTrack /\ NoTime
  BY <1>1 DEF PollWithTrack, TypeOK, Calm, NoTime, Polled, Obeys, NewPlaying, PolledPos, cache, ages, ghosts, radio
<1>2. CASE PollWithoutTrack /\ NoTime
  BY <1>2 DEF PollWithoutTrack, TypeOK, Calm, NoTime, Polled, Obeys, NewPlaying, PolledPos, cache, ages, ghosts, radio
<1>3. CASE PollFails /\ NoTime
  BY <1>3 DEF PollFails, TypeOK, Calm, NoTime, Polled, Obeys, NewPlaying, PolledPos, cache, ages, ghosts, radio
<1>4. CASE MediaPlay /\ NoTime
  BY <1>4 DEF MediaPlay, TypeOK, Calm, NoTime, Polled, Obeys, NewPlaying, PolledPos, cache, ages, ghosts, radio
<1>5. CASE MediaPause /\ NoTime
  BY <1>5 DEF MediaPause, TypeOK, Calm, NoTime, Polled, Obeys, NewPlaying, PolledPos, cache, ages, ghosts, radio
<1>6. CASE PhoneToggles /\ NoTime
  BY <1>6 DEF PhoneToggles, TypeOK, Calm, NoTime, Polled, Obeys, NewPlaying, PolledPos, cache, ages, ghosts, radio
<1>7. CASE PhoneSeeks /\ NoTime
  BY <1>7 DEF PhoneSeeks, TypeOK, Calm, NoTime, Polled, Obeys, NewPlaying, PolledPos, cache, ages, ghosts, radio
<1>8. CASE BluezReport /\ NoTime
  BY <1>8 DEF BluezReport, TypeOK, Calm, NoTime, Polled, Obeys, NewPlaying, PolledPos, cache, ages, ghosts, radio
<1>9. CASE Tick
  BY <1>9 DEF Tick, TypeOK, Calm, NoTime, Polled, Obeys, NewPlaying, PolledPos, cache, ages, ghosts, radio
<1>10. CASE PositionTicker
  BY <1>10 DEF PositionTicker, TypeOK, Calm, NoTime, Polled, Obeys, NewPlaying, PolledPos, cache, ages, ghosts, radio
<1>11. CASE UNCHANGED vars
  BY <1>11 DEF vars, TypeOK, Calm, NoTime, Polled, Obeys, NewPlaying, PolledPos, cache, ages, ghosts, radio
<1>. QED
  BY <1>1, <1>2, <1>3, <1>4, <1>5, <1>6, <1>7, <1>8, <1>9, <1>10, <1>11 DEF Next

\* Between polls the reported position is off by no more than the time since
\* the last: for any track, if the duration that is known is not too short.
THEOREM PositionIsAccurate ==
    ASSUME TrackLength <= Duration
    PROVE  Spec => []Accurate
<1>1. Init => TypeOK /\ Based /\ Near
  BY TypeInit DEF Init, Based, Near, Stopped, Zero
<1>2. TypeOK /\ Based /\ Near /\ [Next]_vars => (TypeOK /\ Based /\ Near)'
  BY TypeStep, BasedStep, NearStep
<1>3. TypeOK /\ Near => Accurate
  BY PositionAssumption DEF TypeOK, Near, Accurate, Distance, TrackPos, AtMost, Zero
<1>. QED
  BY <1>1, <1>2, <1>3, PTL DEF Spec

-----------------------------------------------------------------------------
\* What the ticker sends is right then.
LEMMA ToldInTime ==
    ASSUME TypeOK, Near, ~astray, TrackLength <= Duration, NEW u \in Units
    PROVE  LET behind == phone.pos - Told(u) * Length(u)
           IN -PollEvery <= behind /\ behind < PollEvery + Length(u)
<1>. USE PositionAssumption
<1>1. TrackPos \in Nat /\ TrackPos - phone.pos <= PollEvery /\ phone.pos - TrackPos <= PollEvery
  BY DEF TypeOK, Near, TrackPos, AtMost, Zero
<1>2. phone.pos \in Nat /\ PollEvery \in Nat
  BY DEF TypeOK
<1>3. /\ Length(u) \in {1, 4} /\ Told(u) \in Nat
      /\ Told(u) * Length(u) <= TrackPos
      /\ TrackPos < Told(u) * Length(u) + Length(u)
  BY <1>1, ToldBounds
<1>4. Told(u) * Length(u) \in Nat
  BY <1>3
<1>. QED
  BY <1>1, <1>2, <1>3, <1>4

\* The timer is right after a tick of the ticker, and no more than a tick worse
\* after each tick; what takes no time does not move a phone that is calm.
LEMMA OnTimeStep ==
    ASSUME TrackLength <= Duration, TypeOK, TypeOK', Near, Calm, OnTime, [Next]_vars
    PROVE  OnTime'
<1>. USE PositionAssumption
<1>. SUFFICES ASSUME calm' > tickerAge', NEW u \in Units PROVE Late(u)'
  BY DEF OnTime
<1>1. CASE Moves /\ NoTime
  <2>1. calm' = calm /\ tickerAge' = tickerAge /\ timer' = timer /\ ~astray'
    BY <1>1 DEF NoTime, radio, TypeOK
  <2>2. phone'.pos = phone.pos
    BY <1>1, <2>1 DEF Moves, TypeOK, PollWithTrack, PollWithoutTrack, PollFails, MediaPlay,
       MediaPause, PhoneToggles, PhoneSeeks, BluezReport, Polled, Obeys, cache, ages, ghosts
  <2>. QED
    BY <2>1, <2>2 DEF OnTime, Late
<1>2. CASE PositionTicker
  <2>1. playing /\ ~astray /\ tickerAge' = 0 /\ phone' = phone
    BY <1>2 DEF PositionTicker, Calm, ghosts, TypeOK
  <2>2. timer'[u] = Told(u)
    BY <1>2, <2>1 DEF PositionTicker
  <2>. QED
    BY <2>1, <2>2, ToldInTime DEF Late
<1>3. CASE Tick
  <2>1. /\ calm > tickerAge /\ timer' = timer /\ tickerAge' = tickerAge + 1 /\ ~astray'
    BY <1>3 DEF Tick, TypeOK, AtMost
  <2>2. phone'.pos - phone.pos \in {0, 1}
    BY <1>3, <2>1 DEF Tick, TypeOK, Advanced
  <2>3. Late(u)
    BY <2>1 DEF OnTime
  <2>4. /\ Length(u) \in {1, 4} /\ timer[u] \in Int /\ phone.pos \in Int /\ phone'.pos \in Int
        /\ PollEvery \in Int /\ tickerAge \in Int
    BY DEF Length, TypeOK
  <2>5. timer[u] * Length(u) \in Int
    BY <2>4
  <2>. QED
    BY <2>1, <2>2, <2>3, <2>4, <2>5 DEF Late
<1>4. CASE UNCHANGED vars
  BY <1>4 DEF vars, radio, OnTime, Late
<1>. QED
  BY <1>1, <1>2, <1>3, <1>4 DEF Next, Moves

\* A radio's timer stays near the phone's position, for any intervals of polls
\* and of the ticker.
THEOREM TimersFollow ==
    ASSUME TrackLength <= Duration
    PROVE  Spec => []TimerFollows
<1>1. Init => IInv /\ OnTime
  BY TypeInit DEF IInv, Init, Based, Near, Calm, OnTime, Stopped, Zero
<1>2. IInv /\ OnTime /\ [Next]_vars => (IInv /\ OnTime)'
  BY TypeStep, BasedStep, NearStep, CalmStep, OnTimeStep DEF IInv
<1>3. IInv /\ OnTime => TimerFollows
  BY PositionAssumption DEF IInv, TypeOK, OnTime, Late, TimerFollows
<1>. QED
  BY <1>1, <1>2, <1>3, PTL DEF Spec

-----------------------------------------------------------------------------
\* What runs on from the baseline is not ahead of a phone that just plays.
LEMMA NotAheadStep == TypeOK /\ Based /\ NotAhead /\ [Next]_vars => NotAhead'
<1>. SUFFICES ASSUME TypeOK, Based, NotAhead, [Next]_vars PROVE NotAhead'
  OBVIOUS
<1>. USE PositionAssumption
<1>1. CASE PollWithTrack /\ NoTime
  BY <1>1 DEF PollWithTrack, TypeOK, Based, NotAhead, Zero, Advanced, AtMost, Polled, Obeys, NewPlaying, PolledPos, cache, ages, ghosts, radio
<1>2. CASE PollWithoutTrack /\ NoTime
  BY <1>2 DEF PollWithoutTrack, TypeOK, Based, NotAhead, Zero, Advanced, AtMost, Polled, Obeys, NewPlaying, PolledPos, cache, ages, ghosts, radio
<1>3. CASE PollFails /\ NoTime
  BY <1>3 DEF PollFails, TypeOK, Based, NotAhead, Zero, Advanced, AtMost, Polled, Obeys, NewPlaying, PolledPos, cache, ages, ghosts, radio
<1>4. CASE MediaPlay /\ NoTime
  BY <1>4 DEF MediaPlay, TypeOK, Based, NotAhead, Zero, Advanced, AtMost, Polled, Obeys, NewPlaying, PolledPos, cache, ages, ghosts, radio
<1>5. CASE MediaPause /\ NoTime
  BY <1>5 DEF MediaPause, TypeOK, Based, NotAhead, Zero, Advanced, AtMost, Polled, Obeys, NewPlaying, PolledPos, cache, ages, ghosts, radio
<1>6. CASE PhoneToggles /\ NoTime
  BY <1>6 DEF PhoneToggles, TypeOK, Based, NotAhead, Zero, Advanced, AtMost, Polled, Obeys, NewPlaying, PolledPos, cache, ages, ghosts, radio
<1>7. CASE PhoneSeeks /\ NoTime
  BY <1>7 DEF PhoneSeeks, TypeOK, Based, NotAhead, Zero, Advanced, AtMost, Polled, Obeys, NewPlaying, PolledPos, cache, ages, ghosts, radio
<1>8. CASE BluezReport /\ NoTime
  BY <1>8 DEF BluezReport, TypeOK, Based, NotAhead, Zero, Advanced, AtMost, Polled, Obeys, NewPlaying, PolledPos, cache, ages, ghosts, radio
<1>9. CASE Tick
  BY <1>9 DEF Tick, TypeOK, Based, NotAhead, Zero, Advanced, AtMost, Polled, Obeys, NewPlaying, PolledPos, cache, ages, ghosts, radio
<1>10. CASE PositionTicker
  BY <1>10 DEF PositionTicker, TypeOK, Based, NotAhead, Zero, Advanced, AtMost, Polled, Obeys, NewPlaying, PolledPos, cache, ages, ghosts, radio
<1>11. CASE UNCHANGED vars
  BY <1>11 DEF vars, TypeOK, Based, NotAhead, Zero, Advanced, AtMost, Polled, Obeys, NewPlaying, PolledPos, cache, ages, ghosts, radio
<1>. QED
  BY <1>1, <1>2, <1>3, <1>4, <1>5, <1>6, <1>7, <1>8, <1>9, <1>10, <1>11 DEF Next

\* The radio's timer does not go back while the phone just plays: a poll puts it
\* where the phone is, and a tick one further, as a shorter baseline than the
\* duration is all there is time for within the track.
THEOREM PositionIsSmooth ==
    ASSUME TrackLength < Duration
    PROVE  Spec => Smooth
<1>1. Init => TypeOK /\ Based /\ NotAhead
  BY TypeInit DEF Init, Based, NotAhead, Stopped, Zero
<1>2. TypeOK /\ Based /\ NotAhead /\ [Next]_vars => (TypeOK /\ Based /\ NotAhead)'
  BY TypeStep, BasedStep, NotAheadStep
<1>3. ASSUME TypeOK, TypeOK', Based, NotAhead, NotAhead', [Next]_vars,
             steady = 2, playing, steady' = 2, playing'
      PROVE  TrackPos' >= TrackPos
  <2>. USE PositionAssumption
  <2>1. CASE PollWithTrack /\ NoTime
    BY <1>3, <2>1 DEF PollWithTrack, TypeOK, Based, NotAhead, TrackPos, AtMost, Zero, Advanced, Polled, Obeys, NewPlaying, PolledPos, cache, ages, ghosts, radio
  <2>2. CASE PollWithoutTrack /\ NoTime
    BY <1>3, <2>2 DEF PollWithoutTrack, TypeOK, Based, NotAhead, TrackPos, AtMost, Zero, Advanced, Polled, Obeys, NewPlaying, PolledPos, cache, ages, ghosts, radio
  <2>3. CASE PollFails /\ NoTime
    BY <1>3, <2>3 DEF PollFails, TypeOK, Based, NotAhead, TrackPos, AtMost, Zero, Advanced, Polled, Obeys, NewPlaying, PolledPos, cache, ages, ghosts, radio
  <2>4. CASE MediaPlay /\ NoTime
    BY <1>3, <2>4 DEF MediaPlay, TypeOK, Based, NotAhead, TrackPos, AtMost, Zero, Advanced, Polled, Obeys, NewPlaying, PolledPos, cache, ages, ghosts, radio
  <2>5. CASE MediaPause /\ NoTime
    BY <1>3, <2>5 DEF MediaPause, TypeOK, Based, NotAhead, TrackPos, AtMost, Zero, Advanced, Polled, Obeys, NewPlaying, PolledPos, cache, ages, ghosts, radio
  <2>6. CASE PhoneToggles /\ NoTime
    BY <1>3, <2>6 DEF PhoneToggles, TypeOK, Based, NotAhead, TrackPos, AtMost, Zero, Advanced, Polled, Obeys, NewPlaying, PolledPos, cache, ages, ghosts, radio
  <2>7. CASE PhoneSeeks /\ NoTime
    BY <1>3, <2>7 DEF PhoneSeeks, TypeOK, Based, NotAhead, TrackPos, AtMost, Zero, Advanced, Polled, Obeys, NewPlaying, PolledPos, cache, ages, ghosts, radio
  <2>8. CASE BluezReport /\ NoTime
    BY <1>3, <2>8 DEF BluezReport, TypeOK, Based, NotAhead, TrackPos, AtMost, Zero, Advanced, Polled, Obeys, NewPlaying, PolledPos, cache, ages, ghosts, radio
  <2>9. CASE Tick
    BY <1>3, <2>9 DEF Tick, TypeOK, Based, NotAhead, TrackPos, AtMost, Zero, Advanced, Polled, Obeys, NewPlaying, PolledPos, cache, ages, ghosts, radio
  <2>10. CASE PositionTicker
    BY <1>3, <2>10 DEF PositionTicker, TypeOK, Based, NotAhead, TrackPos, AtMost, Zero, Advanced, Polled, Obeys, NewPlaying, PolledPos, cache, ages, ghosts, radio
  <2>11. CASE UNCHANGED vars
    BY <1>3, <2>11 DEF vars, TypeOK, TrackPos, AtMost, Zero, cache
  <2>. QED
    BY <1>3, <2>1, <2>2, <2>3, <2>4, <2>5, <2>6, <2>7, <2>8, <2>9, <2>10, <2>11 DEF Next
<1>. QED
  BY <1>1, <1>2, <1>3, PTL DEF Spec, Smooth
=============================================================================
