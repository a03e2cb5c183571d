--------------------------- MODULE RadioSyncProofs ---------------------------
(***************************************************************************)
(* Proofs about AvrcpSource, and about what the radio is told of it, for   *)
(* any number of goroutines, titles, retries, reply shapes and events.  The *)
(* theorems about Spec say nothing of RadioSync's variables: they hold of   *)
(* the source alone, and when handlers and a radio are put around it.  On   *)
(* top of them, those about SyncSpec: what a subscribed radio shows.       *)
(***************************************************************************)
EXTENDS RadioSync, TLAPS

\* What a goroutine's locals may hold; the types of Leave and Continue.
LocalsOK ==
    /\ pc \in [Procs -> ProcSteps]
    /\ reply \in [Procs -> [has : SUBSET Properties, title : AnyTitle, playing : BOOLEAN]]
    /\ next \in [Procs -> PlayState]
    /\ tries \in [Fetchers -> 0..(MaxTries - 1)]
    /\ late \in SUBSET Workers

\* The two ways a step ends keep the types of the locals.
LEMMA LeaveType ==
    ASSUME NEW p \in Procs, NEW step \in ProcSteps, LocalsOK, Leave(p, step)
    PROVE  LocalsOK'
<1>1. Nothing \in [has : SUBSET Properties, title : AnyTitle, playing : BOOLEAN]
      /\ Blank \in PlayState
    BY DEF Nothing, Blank, PlayState, AnyTitle
<1>2. 0 \in 0..(MaxTries - 1)
    BY ConstantsAssumption
<1> QED
    BY <1>1, <1>2 DEF Leave, Goto, LocalsOK

LEMMA ContinueType ==
    ASSUME NEW p \in Procs, NEW step \in ProcSteps, LocalsOK, Continue(p, step)
    PROVE  LocalsOK'
BY DEF Continue, Goto, LocalsOK

LEMMA AfterTrackType ==
    ASSUME NEW p \in Procs, LocalsOK, AfterTrack(p)
    PROVE  LocalsOK'
BY LeaveType, ContinueType DEF AfterTrack, Return, ProcSteps

\* TypeOK splits into the locals and the rest.
SharedOK ==
    /\ state \in PlayState
    /\ lastKnownTitle \in AnyTitle
    /\ lastKnownPlaying \in BOOLEAN
    /\ optimistic \in BOOLEAN
    /\ baseline \in BOOLEAN
    /\ flag \in [Kinds -> BOOLEAN]
    /\ notifyCh \in 0..1
    /\ mainPc \in ClientSteps
    /\ method \in AllMethods
    /\ phone \in PlayState
    /\ bluez \in PlayState
    /\ budget \in 0..MaxEvents

LEMMA TypeSplit == TypeOK <=> LocalsOK /\ SharedOK
BY DEF TypeOK, LocalsOK, SharedOK

LEMMA TypeInit == Init => TypeOK
<1> SUFFICES ASSUME Init PROVE TypeOK
    OBVIOUS
<1>1. 0 \in 0..(MaxTries - 1) /\ MaxEvents \in 0..MaxEvents
    BY ConstantsAssumption
<1>2. Blank \in PlayState /\ Nothing \in [has : SUBSET Properties, title : AnyTitle, playing : BOOLEAN]
    BY DEF Blank, Nothing, PlayState, AnyTitle
<1>3. phone \in PlayState /\ bluez \in PlayState
    BY <1>2 DEF Init
<1>4. LocalsOK
    BY <1>1, <1>2 DEF Init, LocalsOK, ProcSteps
<1>5. SharedOK
  <2>1. flag \in [Kinds -> BOOLEAN]
      BY DEF Init
  <2>2. state \in PlayState /\ lastKnownTitle \in AnyTitle
      BY <1>2 DEF Init, AnyTitle
  <2>3. mainPc \in ClientSteps /\ method \in AllMethods
      BY DEF Init, ClientSteps, AllMethods
  <2>4. budget \in 0..MaxEvents /\ notifyCh \in 0..1
      BY <1>1 DEF Init
  <2>5. lastKnownPlaying \in BOOLEAN /\ optimistic \in BOOLEAN /\ baseline \in BOOLEAN
      BY DEF Init
  <2> QED
      BY <1>3, <2>1, <2>2, <2>3, <2>4, <2>5 DEF SharedOK
<1> QED
    BY <1>4, <1>5, TypeSplit

\* Steps of a goroutine keep the types.
LEMMA GoroutineType ==
    ASSUME LocalsOK, SharedOK, NEW p \in Procs,
           GetAll(p) \/ StartFetch(p) \/ Running(p)
    PROVE  LocalsOK' /\ SharedOK'
<1> USE DEF cache, signals, procs, client, world
<1>1. CASE GetAll(p)
  <2>1. "snapshot" \in ProcSteps
      BY DEF ProcSteps
  <2>2. PICK has \in Replies :
            reply' = [reply EXCEPT ![p] =
                [has |-> has,
                 title |-> IF "Track" \in has THEN bluez.title ELSE NoTitle,
                 playing |-> "Status" \in has /\ bluez.playing]]
      BY <1>1 DEF GetAll
  <2>3. [has |-> has,
         title |-> IF "Track" \in has THEN bluez.title ELSE NoTitle,
         playing |-> "Status" \in has /\ bluez.playing]
            \in [has : SUBSET Properties, title : AnyTitle, playing : BOOLEAN]
    <3>1. (IF "Track" \in has THEN bluez.title ELSE NoTitle) \in AnyTitle
        BY DEF SharedOK, PlayState, AnyTitle
    <3>2. ("Status" \in has /\ bluez.playing) \in BOOLEAN
        BY DEF SharedOK, PlayState
    <3>3. has \in SUBSET Properties
        BY ConstantsAssumption
    <3> QED
        BY <3>1, <3>2, <3>3
  <2>4. LocalsOK'
      BY <1>1, <2>1, <2>2, <2>3 DEF GetAll, Goto, LocalsOK
  <2> QED
      BY <1>1, <2>4 DEF GetAll, SharedOK
<1>2. CASE StartFetch(p)
    BY <1>2, ContinueType DEF StartFetch, ProcSteps, SharedOK
<1>3. CASE Snapshot(p)
  <2>1. Overlay(reply[p]) \in PlayState
      BY DEF Overlay, LocalsOK, SharedOK, PlayState, AnyTitle
  <2>2. CASE Continue(p, "get")
      BY <1>3, <2>2, ContinueType DEF Snapshot, ProcSteps, SharedOK
  <2>3. CASE Return(p)
      BY <1>3, <2>3, LeaveType DEF Snapshot, Return, ProcSteps, SharedOK
  <2>4. CASE /\ Goto(p, IF HasMetadata(reply[p]) THEN "compare" ELSE "apply")
             /\ next' = [next EXCEPT ![p] = Overlay(reply[p])]
             /\ UNCHANGED <<reply, tries, late>>
    <3>1. (IF HasMetadata(reply[p]) THEN "compare" ELSE "apply") \in ProcSteps
        BY DEF ProcSteps
    <3>2. LocalsOK'
        BY <2>1, <2>4, <3>1 DEF Goto, LocalsOK
    <3> QED
        BY <1>3, <3>2 DEF Snapshot, SharedOK
  <2> QED
      BY <1>3, <2>2, <2>3, <2>4 DEF Snapshot
<1>4. CASE Compare(p)
    BY <1>4, ContinueType DEF Compare, ProcSteps, SharedOK
<1>5. CASE Learn(p)
  <2>1. next[p].title \in AnyTitle
      BY DEF LocalsOK, PlayState
  <2> QED
      BY <1>5, <2>1, ContinueType DEF Learn, ProcSteps, SharedOK
<1>6. CASE Apply(p)
  <2> DEFINE suppressed == next[p].playing # lastKnownPlaying /\ optimistic
             playing == IF suppressed THEN lastKnownPlaying ELSE next[p].playing
  <2>1. next[p] \in PlayState /\ playing \in BOOLEAN
      BY DEF LocalsOK, SharedOK, PlayState
  <2>2. state' = [next[p] EXCEPT !.playing = playing] /\ lastKnownPlaying' = playing
      BY <1>6 DEF Apply
  <2>3. state' \in PlayState
    <3> HIDE DEF playing
    <3> QED
        BY <2>1, <2>2 DEF PlayState
  <2>4. baseline' \in BOOLEAN
      BY <1>6 DEF Apply
  <2>5. LocalsOK'
      BY <1>6, LeaveType DEF Apply, Return, ProcSteps
  <2> QED
      BY <1>6, <2>1, <2>2, <2>3, <2>4, <2>5 DEF Apply, SharedOK
<1>7. CASE GetSucceeds(p)
  <2>1. "fetchSnapshot" \in ProcSteps /\ bluez.title \in AnyTitle
      BY DEF ProcSteps, SharedOK, PlayState
  <2>2. LocalsOK'
      BY <1>7, <2>1 DEF GetSucceeds, Goto, LocalsOK
  <2> QED
      BY <1>7, <2>2 DEF GetSucceeds, SharedOK
<1>8. CASE GetFails(p)
  <2>1. CASE p \in Workers
      BY <1>8, <2>1, ContinueType DEF GetFails, ProcSteps, SharedOK
  <2>2. CASE p \notin Workers /\ tries[p] + 1 = MaxTries
      BY <1>8, <2>2, LeaveType DEF GetFails, Return, ProcSteps, SharedOK
  <2>3. CASE p \notin Workers /\ tries[p] + 1 # MaxTries
    <3>1. tries[p] + 1 \in 0..(MaxTries - 1)
      <4>1. tries[p] \in 0..(MaxTries - 1)
          BY <2>3 DEF LocalsOK, Procs
      <4>2. MaxTries \in Nat
          BY ConstantsAssumption
      <4> QED
          BY <2>3, <4>1, <4>2
    <3>2. LocalsOK'
        BY <1>8, <2>3, <3>1 DEF GetFails, LocalsOK
    <3> QED
        BY <1>8, <3>2 DEF GetFails, SharedOK
  <2> QED
      BY <2>1, <2>2, <2>3
<1>9. CASE FetchSnapshot(p)
  <2>1. [state EXCEPT !.title = reply[p].title] \in PlayState /\ "fetchStore" \in ProcSteps
      BY DEF LocalsOK, SharedOK, PlayState, ProcSteps
  <2>2. LocalsOK'
      BY <1>9, <2>1 DEF FetchSnapshot, Goto, LocalsOK
  <2> QED
      BY <1>9, <2>2 DEF FetchSnapshot, SharedOK
<1>10. CASE FetchStore(p)
  <2>1. next[p] \in PlayState /\ next[p].title \in AnyTitle
      BY DEF LocalsOK, PlayState
  <2>2. LocalsOK'
      BY <1>10, AfterTrackType, ContinueType DEF FetchStore, ProcSteps
  <2> QED
      BY <1>10, <2>1, <2>2 DEF FetchStore, SharedOK
<1>11. CASE Patch(p)
  <2> DEFINE r == reply[p]
             differs == "Status" \in r.has /\ r.playing # lastKnownPlaying
             playing == IF "Status" \notin r.has THEN state.playing
                        ELSE IF differs /\ optimistic THEN lastKnownPlaying
                        ELSE r.playing
  <2>1. state \in PlayState /\ playing \in BOOLEAN
      BY DEF LocalsOK, SharedOK, PlayState
  <2>2. state' = [state EXCEPT !.playing = playing]
        /\ lastKnownPlaying' \in {playing, lastKnownPlaying}
        /\ baseline' \in BOOLEAN
      BY <1>11 DEF Patch
  <2>3. state' \in PlayState /\ lastKnownPlaying' \in BOOLEAN
    <3> HIDE DEF playing
    <3> QED
        BY <2>1, <2>2 DEF PlayState, SharedOK
  <2>4. LocalsOK'
      BY <1>11, LeaveType DEF Patch, Return, ProcSteps
  <2> QED
      BY <1>11, <2>2, <2>3, <2>4 DEF Patch, SharedOK
<1>12. CASE StoreTrack(p)
    BY <1>12, ContinueType DEF StoreTrack, StoreFlag, ProcSteps, SharedOK
<1>13. CASE SendTrack(p)
    BY <1>13, AfterTrackType DEF SendTrack, NonBlockingSend, SharedOK
<1>14. CASE StorePlay(p)
    BY <1>14, ContinueType DEF StorePlay, StoreFlag, ProcSteps, SharedOK
<1>15. CASE SendPlay(p)
    BY <1>15, LeaveType DEF SendPlay, NonBlockingSend, Return, ProcSteps, SharedOK
<1> QED
    BY <1>1, <1>2, <1>3, <1>4, <1>5, <1>6, <1>7, <1>8, <1>9, <1>10, <1>11, <1>12,
       <1>13, <1>14, <1>15 DEF Running

\* Steps of the client, the phone, BlueZ and the clock keep the types.
LEMMA WorldType ==
    ASSUME LocalsOK, SharedOK,
           (\E m \in Methods : Call(m)) \/ ClientStep \/ Environment
    PROVE  LocalsOK' /\ SharedOK'
<1> USE DEF cache, signals, procs, client, world
<1>1. CASE \E m \in Methods : Call(m)
  <2>1. PICK m \in Methods : Call(m)
      BY <1>1
  <2>2. m \in AllMethods /\ budget' \in 0..MaxEvents
    <3>1. budget \in 0..MaxEvents /\ budget > 0 /\ budget' = budget - 1
        BY <2>1 DEF Call, SharedOK
    <3>2. MaxEvents \in Nat
        BY ConstantsAssumption
    <3>3. m \in AllMethods
        BY ConstantsAssumption
    <3> QED
        BY <3>1, <3>2, <3>3
  <2>3. state' \in PlayState /\ baseline' \in BOOLEAN /\ lastKnownPlaying' \in BOOLEAN
        /\ optimistic' \in BOOLEAN /\ mainPc' \in ClientSteps
    <3>1. CASE m \in {"Play", "Pause", "Stop"}
        BY <2>1, <3>1 DEF Call, SharedOK, PlayState, ClientSteps
    <3>2. CASE m \notin {"Play", "Pause", "Stop"}
        BY <2>1, <3>2 DEF Call, SharedOK, ClientSteps
    <3> QED
        BY <3>1, <3>2
  <2>4. late' \in SUBSET Workers
      BY <2>1 DEF Call, MarkLate, LocalsOK
  <2>5. LocalsOK'
      BY <2>1, <2>4 DEF Call, LocalsOK
  <2> QED
      BY <2>1, <2>2, <2>3, <2>5 DEF Call, SharedOK
<1>2. CASE ClientStep
  <2>1. flag' \in [Kinds -> BOOLEAN] /\ notifyCh' \in 0..1
    <3>1. UNCHANGED flag \/ \E k \in Kinds, v \in BOOLEAN : flag' = [flag EXCEPT ![k] = v]
        BY <1>2 DEF ClientStep, TakesNotification, FinishesCall, Receive, TakeTrack, TakePlay,
           ReadPlay, CallStore, CallSend, CallBusctl, StoreFlag, NonBlockingSend, Kinds
    <3>2. notifyCh' \in {0, 1, notifyCh}
        BY <1>2 DEF ClientStep, TakesNotification, FinishesCall, Receive, TakeTrack, TakePlay,
           ReadPlay, CallStore, CallSend, CallBusctl, StoreFlag, NonBlockingSend
    <3>3. flag \in [Kinds -> BOOLEAN] /\ notifyCh \in 0..1
        BY DEF SharedOK
    <3>4. notifyCh' \in 0..1
        BY <3>2, <3>3
    <3>5. flag' \in [Kinds -> BOOLEAN]
        BY <3>1, <3>3
    <3> QED
        BY <3>4, <3>5
  <2>2. mainPc' \in ClientSteps /\ method' \in AllMethods
      BY <1>2 DEF ClientStep, TakesNotification, FinishesCall, Receive, TakeTrack, TakePlay,
         ReadPlay, CallStore, CallSend, CallBusctl, SharedOK, ClientSteps, AllMethods
  <2>3. phone' \in PlayState
    <3>1. CASE UNCHANGED phone
        BY <3>1 DEF SharedOK
    <3>2. CASE CallBusctl /\ Executes(method)
        BY <3>2 DEF Executes, SharedOK, PlayState, AnyTitle
    <3> QED
        BY <1>2, <3>1, <3>2 DEF ClientStep, TakesNotification, FinishesCall, Receive,
           TakeTrack, TakePlay, ReadPlay, CallStore, CallSend, CallBusctl
  <2>4. UNCHANGED <<cache, procs, bluez, budget>>
      BY <1>2 DEF ClientStep, TakesNotification, FinishesCall, Receive, TakeTrack, TakePlay,
         ReadPlay, CallStore, CallSend, CallBusctl
  <2> QED
      BY <2>1, <2>2, <2>3, <2>4 DEF LocalsOK, SharedOK
<1>3. CASE Environment
  <2>1. CASE \E e \in PhoneEvents : PhoneEvent(e)
    <3>1. PICK e \in PhoneEvents : PhoneEvent(e)
        BY <2>1
    <3>2. phone' \in PlayState
        BY <3>1 DEF PhoneEvent, SharedOK, PlayState, AnyTitle
    <3>3. budget' \in 0..MaxEvents
      <4>1. budget \in 0..MaxEvents /\ budget > 0 /\ budget' = budget - 1
          BY <3>1 DEF PhoneEvent, SharedOK
      <4>2. MaxEvents \in Nat
          BY ConstantsAssumption
      <4> QED
          BY <4>1, <4>2
    <3> QED
        BY <3>1, <3>2, <3>3 DEF PhoneEvent, LocalsOK, SharedOK
  <2>2. CASE BluezUpdate
    <3>1. late' \in SUBSET Workers
        BY <2>2 DEF BluezUpdate, MarkLate
    <3> QED
        BY <2>2, <3>1 DEF BluezUpdate, LocalsOK, SharedOK
  <2>3. CASE GuardExpires
      BY <2>3 DEF GuardExpires, LocalsOK, SharedOK
  <2> QED
      BY <1>3, <2>1, <2>2, <2>3 DEF Environment
<1> QED
    BY <1>1, <1>2, <1>3

LEMMA TypeStep == TypeOK /\ [Next]_vars => TypeOK'
<1> SUFFICES ASSUME LocalsOK, SharedOK, [Next]_vars
             PROVE  LocalsOK' /\ SharedOK'
    BY TypeSplit DEF TypeOK, LocalsOK, SharedOK
<1>1. CASE UNCHANGED vars
    BY <1>1 DEF vars, cache, signals, procs, client, world, LocalsOK, SharedOK
<1>2. CASE Next
    BY <1>2, GoroutineType, WorldType DEF Next
<1> QED
    BY <1>1, <1>2

\* Every variable keeps its type.
THEOREM TypeCorrect == Spec => []TypeOK
BY TypeInit, TypeStep, PTL DEF Spec

-----------------------------------------------------------------------------
(* No wake-up is lost. *)

\* Storing a flag is always followed by the send that wakes the client, and
\* the client, once woken, passes both swaps: NoLostWakeup is inductive.
LEMMA WakeupStep == TypeOK /\ NoLostWakeup /\ [Next]_vars => NoLostWakeup'
<1> SUFFICES ASSUME LocalsOK, SharedOK, NoLostWakeup, [Next]_vars, NEW k \in Kinds, flag'[k]
             PROVE  notifyCh' = 1 \/ AboutToSend' \/ WillTake(k)'
    BY TypeSplit DEF NoLostWakeup
<1> USE DEF cache, signals, procs, client, world
\* Steps that leave the flags alone and nobody short of a send.
<1>1. ASSUME UNCHANGED <<flag, notifyCh, mainPc>>,
             \A q \in Procs : pc[q] \in {"sendTrack", "sendPlay"} => pc'[q] = pc[q]
      PROVE  notifyCh' = 1 \/ AboutToSend' \/ WillTake(k)'
    BY <1>1 DEF NoLostWakeup, AboutToSend, WillTake
<1>2. CASE UNCHANGED vars
    BY <1>1, <1>2 DEF vars
<1>3. CASE \E p \in Procs : GetAll(p) \/ StartFetch(p) \/ Running(p)
  <2>1. PICK p \in Procs : GetAll(p) \/ StartFetch(p) \/ Running(p)
      BY <1>3
  <2>2. CASE SendTrack(p) \/ SendPlay(p)
      BY <2>2 DEF SendTrack, SendPlay, NonBlockingSend
  <2>3. CASE StoreTrack(p) \/ StorePlay(p)
    <3>1. pc'[p] \in {"sendTrack", "sendPlay"}
        BY <2>3 DEF StoreTrack, StorePlay, Continue, Goto, LocalsOK
    <3> QED
        BY <3>1 DEF AboutToSend
  <2>4. CASE GetAll(p) \/ StartFetch(p) \/ Snapshot(p) \/ Compare(p) \/ Learn(p) \/ Apply(p)
             \/ GetSucceeds(p) \/ GetFails(p) \/ FetchSnapshot(p) \/ FetchStore(p) \/ Patch(p)
    <3>1. UNCHANGED <<flag, notifyCh, mainPc>> /\ pc[p] \notin {"sendTrack", "sendPlay"}
        BY <2>4 DEF GetAll, StartFetch, Snapshot, Compare, Learn, Apply, GetSucceeds, GetFails,
           FetchSnapshot, FetchStore, Patch
    <3>2. \A q \in Procs \ {p} : pc'[q] = pc[q]
        BY <2>4 DEF GetAll, StartFetch, Snapshot, Compare, Learn, Apply, GetSucceeds, GetFails,
           FetchSnapshot, FetchStore, Patch, AfterTrack, Return, Leave, Continue, Goto, LocalsOK
    <3> QED
        BY <1>1, <3>1, <3>2
  <2> QED
      BY <2>1, <2>2, <2>3, <2>4 DEF Running
<1>4. CASE \E m \in Methods : Call(m)
    BY <1>4 DEF Call, NoLostWakeup, AboutToSend, WillTake
<1>5. CASE ClientStep
  <2>1. CASE Receive
      BY <2>1 DEF Receive, WillTake
  <2>2. CASE TakeTrack
      BY <2>2 DEF TakeTrack, NoLostWakeup, AboutToSend, WillTake, SharedOK, Kinds
  <2>3. CASE TakePlay
      BY <2>3 DEF TakePlay, NoLostWakeup, AboutToSend, WillTake, SharedOK, Kinds
  <2>4. CASE ReadPlay
      BY <2>4 DEF ReadPlay, NoLostWakeup, AboutToSend, WillTake
  <2>5. CASE CallStore
      BY <2>5 DEF CallStore, AboutToSend
  <2>6. CASE CallSend
      BY <2>6 DEF CallSend, NonBlockingSend
  <2>7. CASE CallBusctl
      BY <2>7 DEF CallBusctl, NoLostWakeup, AboutToSend, WillTake
  <2> QED
      BY <1>5, <2>1, <2>2, <2>3, <2>4, <2>5, <2>6, <2>7
         DEF ClientStep, TakesNotification, FinishesCall
<1>6. CASE Environment
    BY <1>1, <1>6 DEF Environment, PhoneEvent, BluezUpdate, GuardExpires
<1> QED
    BY <1>2, <1>3, <1>4, <1>5, <1>6 DEF Next

\* No raised flag is ever stranded, however many goroutines signal at once.
THEOREM WakeupsSurvive == Spec => []NoLostWakeup
<1>1. Init => NoLostWakeup
    BY DEF Init, NoLostWakeup, Kinds
<1> QED
    BY <1>1, TypeCorrect, WakeupStep, PTL DEF Spec

-----------------------------------------------------------------------------
(* The flags and the channel implement the abstract Notifier. *)

\* Every step of the source raises one kind, takes one kind or stutters.
LEMMA NotifierStep ==
    TypeOK /\ [Next]_vars => [Promise!Next]_{k \in Kinds : flag[k]}
<1> SUFFICES ASSUME flag \in [Kinds -> BOOLEAN], Next, UNCHANGED flag => FALSE
             PROVE  Promise!Next
    BY DEF TypeOK, vars, signals, Promise!Next
<1> USE DEF cache, signals, procs, client, world
<1>1. ASSUME NEW k \in Kinds, StoreFlag(k)
      PROVE  Promise!Next
    BY <1>1 DEF StoreFlag, Promise!Next, Promise!Raise
<1>2. ASSUME NEW k \in Kinds, flag' = [flag EXCEPT ![k] = FALSE]
      PROVE  Promise!Next
  <2>1. flag[k]
      BY <1>2
  <2> QED
      BY <1>2, <2>1 DEF Promise!Next, Promise!Take
<1>3. CASE \E p \in Procs : GetAll(p) \/ StartFetch(p) \/ Running(p)
    BY <1>1, <1>3 DEF GetAll, StartFetch, Running, Snapshot, Compare, Learn, Apply, GetSucceeds,
       GetFails, FetchSnapshot, FetchStore, Patch, StoreTrack, SendTrack, StorePlay, SendPlay,
       NonBlockingSend, Kinds
<1>4. CASE (\E m \in Methods : Call(m)) \/ Environment
    BY <1>4 DEF Call, Environment, PhoneEvent, BluezUpdate, GuardExpires
<1>5. CASE ClientStep
    BY <1>1, <1>2, <1>5 DEF ClientStep, TakesNotification, FinishesCall, Receive, TakeTrack,
       TakePlay, ReadPlay, CallStore, CallSend, CallBusctl, NonBlockingSend, Kinds
<1> QED
    BY <1>3, <1>4, <1>5 DEF Next

\* The safety half of KeepsPromise: the source behaves like the Notifier.
THEOREM ImplementsNotifier ==
    Spec => Promise!Init /\ [][Promise!Next]_{k \in Kinds : flag[k]}
<1>1. Init => Promise!Init
    BY DEF Init, Promise!Init, Kinds
<1> QED
    BY <1>1, TypeCorrect, NotifierStep, PTL DEF Spec

-----------------------------------------------------------------------------
(* What the car can read is what was last signalled. *)

\* While GetAll never carries Track, the code that compares a title outside
\* the critical section that publishes it is not reached.
TitleInv ==
    /\ TitleKnown
    /\ \A p \in Procs : /\ "Track" \notin reply[p].has
                         /\ pc[p] \notin {"compare", "learn", "apply"}

LEMMA TitleStep ==
    ASSUME \A has \in Replies : "Track" \notin has, TypeOK, TitleInv, [Next]_vars
    PROVE  TitleInv'
<1> USE DEF cache, signals, procs, client, world
<1>1. LocalsOK /\ SharedOK
    BY TypeSplit
<1>2. CASE UNCHANGED vars
    BY <1>2 DEF vars, TitleInv, TitleKnown
<1>3. CASE \E p \in Procs : GetAll(p) \/ StartFetch(p) \/ Running(p)
  <2>1. PICK p \in Procs : GetAll(p) \/ StartFetch(p) \/ Running(p)
      BY <1>3
  <2>2. TitleKnown'
    <3>1. CASE FetchStore(p)
        BY <3>1 DEF FetchStore, TitleKnown
    <3>2. CASE Patch(p)
        BY <1>1, <3>2 DEF Patch, TitleInv, TitleKnown, SharedOK, PlayState
    <3>3. CASE GetAll(p) \/ StartFetch(p) \/ Snapshot(p) \/ GetSucceeds(p) \/ GetFails(p)
               \/ FetchSnapshot(p) \/ StoreTrack(p) \/ SendTrack(p) \/ StorePlay(p) \/ SendPlay(p)
        BY <3>3 DEF GetAll, StartFetch, Snapshot, GetSucceeds, GetFails, FetchSnapshot,
           StoreTrack, SendTrack, StorePlay, SendPlay, TitleInv, TitleKnown
    <3>4. ~Compare(p) /\ ~Learn(p) /\ ~Apply(p)
        BY DEF Compare, Learn, Apply, TitleInv
    <3> QED
        BY <2>1, <3>1, <3>2, <3>3, <3>4 DEF Running
  <2>3. ASSUME NEW q \in Procs
        PROVE  "Track" \notin reply'[q].has
    <3>1. CASE GetAll(p)
        BY <1>1, <3>1 DEF GetAll, TitleInv, LocalsOK
    <3>2. CASE GetSucceeds(p)
        BY <1>1, <3>2 DEF GetSucceeds, TitleInv, LocalsOK
    <3>3. CASE UNCHANGED reply
        BY <3>3 DEF TitleInv
    <3>4. CASE reply' = [reply EXCEPT ![p] = Nothing]
        BY <1>1, <3>4 DEF Nothing, TitleInv, LocalsOK
    <3> QED
        BY <2>1, <3>1, <3>2, <3>3, <3>4 DEF StartFetch, Running, Snapshot, Compare, Learn,
           Apply, GetFails, FetchSnapshot, FetchStore, Patch, StoreTrack, SendTrack, StorePlay,
           SendPlay, AfterTrack, Return, Leave, Continue
  <2>4. ASSUME NEW q \in Procs
        PROVE  pc'[q] \notin {"compare", "learn", "apply"}
    <3>1. "Track" \notin reply[p].has /\ pc[p] \notin {"compare", "learn", "apply"}
        BY DEF TitleInv
    <3>2. CASE UNCHANGED pc
        BY <3>2 DEF TitleInv
    <3>3. CASE \E step \in ProcSteps \ {"compare", "learn", "apply"} : Goto(p, step)
        BY <1>1, <3>3 DEF Goto, TitleInv, LocalsOK
    <3> QED
        BY <2>1, <3>1, <3>2, <3>3 DEF GetAll, StartFetch, Running, Snapshot, Compare, Learn,
           Apply, GetSucceeds, GetFails, FetchSnapshot, FetchStore, Patch, StoreTrack, SendTrack,
           StorePlay, SendPlay, AfterTrack, Return, Leave, Continue, ProcSteps
  <2> QED
      BY <2>2, <2>3, <2>4 DEF TitleInv
<1>4. CASE \E m \in Methods : Call(m)
    BY <1>1, <1>4 DEF Call, TitleInv, TitleKnown, SharedOK, PlayState
<1>5. CASE ClientStep \/ Environment
    BY <1>5 DEF ClientStep, TakesNotification, FinishesCall, Receive, TakeTrack, TakePlay,
       ReadPlay, CallStore, CallSend, CallBusctl, Environment, PhoneEvent, BluezUpdate,
       GuardExpires, TitleInv, TitleKnown
<1> QED
    BY <1>2, <1>3, <1>4, <1>5 DEF Next

\* However many refreshes and fetches interleave, while titles come through
\* Get("Track") alone the cached title is the one last compared and signalled.
THEOREM TitlesAreKnown ==
    ASSUME \A has \in Replies : "Track" \notin has
    PROVE  Spec => []TitleKnown
<1>1. Init => TitleInv
    BY DEF Init, TitleInv, TitleKnown, Blank, Nothing
<1>2. TypeOK /\ TitleInv /\ [Next]_vars => TitleInv'
    BY TitleStep
<1>3. TitleInv => TitleKnown
    BY DEF TitleInv
<1> QED
    BY <1>1, <1>2, <1>3, TypeCorrect, PTL DEF Spec

-----------------------------------------------------------------------------
(* The play state that is shown and the one that polls are compared with. *)

\* A step leaves both alone, or it makes them equal and tells whoever listens
\* if the known one changed.
PlayKept ==
    /\ ~Commands
    /\ state'.playing = state.playing
    /\ lastKnownPlaying' = lastKnownPlaying

PlayAgrees ==
    /\ state'.playing = lastKnownPlaying'
    /\ \/ Commands
       \/ lastKnownPlaying' = lastKnownPlaying
       \/ \E p \in Procs : pc'[p] = "storePlay"

\* Or it is the write-back of a fetch.
LEMMA PlayChange ==
    ASSUME TypeOK, Next
    PROVE  PlayKept \/ PlayAgrees \/ (WritesBack /\ lastKnownPlaying' = lastKnownPlaying)
<1> USE DEF cache, signals, procs, client, world
<1>1. LocalsOK /\ SharedOK
    BY TypeSplit
<1>2. ASSUME NEW p \in Procs, Apply(p)
      PROVE  PlayAgrees
  <2> DEFINE suppressed == next[p].playing # lastKnownPlaying /\ optimistic
             playing == IF suppressed THEN lastKnownPlaying ELSE next[p].playing
  <2>1. next[p] \in PlayState
      BY <1>1 DEF LocalsOK
  <2>2. /\ state' = [next[p] EXCEPT !.playing = playing] /\ lastKnownPlaying' = playing
        /\ IF playing # lastKnownPlaying THEN Leave(p, "storePlay") ELSE Return(p)
      BY <1>2 DEF Apply
  <2>3. Leave(p, "storePlay") => pc'[p] = "storePlay"
      BY <1>1 DEF Leave, Goto, LocalsOK
  <2> HIDE DEF playing
  <2> QED
      BY <2>1, <2>2, <2>3 DEF PlayAgrees, PlayState
<1>3. ASSUME NEW p \in Procs, Patch(p)
      PROVE  PlayKept \/ PlayAgrees
  <2> DEFINE r == reply[p]
             differs == "Status" \in r.has /\ r.playing # lastKnownPlaying
             playing == IF "Status" \notin r.has THEN state.playing
                        ELSE IF differs /\ optimistic THEN lastKnownPlaying
                        ELSE r.playing
             changed == differs /\ ~optimistic
  <2>1. state \in PlayState
      BY <1>1 DEF SharedOK
  <2>2. /\ state' = [state EXCEPT !.playing = playing]
        /\ lastKnownPlaying' = IF changed THEN playing ELSE lastKnownPlaying
        /\ IF changed THEN Leave(p, "storePlay") ELSE Return(p)
        /\ UNCHANGED mainPc
      BY <1>3 DEF Patch
  <2>3. Leave(p, "storePlay") => pc'[p] = "storePlay"
      BY <1>1 DEF Leave, Goto, LocalsOK
  <2>4. state'.playing = playing
    <3> HIDE DEF playing
    <3> QED
        BY <2>1, <2>2 DEF PlayState
  <2>5. CASE "Status" \notin r.has
      BY <2>2, <2>4, <2>5 DEF PlayKept, Commands
  <2>6. CASE "Status" \in r.has
      BY <2>2, <2>3, <2>4, <2>6 DEF PlayAgrees
  <2> QED
      BY <2>5, <2>6
<1>4. ASSUME NEW p \in Procs, FetchStore(p)
      PROVE  PlayKept \/ (WritesBack /\ lastKnownPlaying' = lastKnownPlaying)
    BY <1>4 DEF FetchStore, WritesBack, PlayKept, Commands
<1>5. CASE \E p \in Procs : GetAll(p) \/ StartFetch(p) \/ Running(p)
  <2>1. PICK p \in Procs : GetAll(p) \/ StartFetch(p) \/ Running(p)
      BY <1>5
  <2>2. CASE \/ GetAll(p) \/ StartFetch(p) \/ Snapshot(p) \/ Compare(p) \/ Learn(p)
             \/ GetSucceeds(p) \/ GetFails(p) \/ FetchSnapshot(p)
             \/ StoreTrack(p) \/ SendTrack(p) \/ StorePlay(p) \/ SendPlay(p)
      BY <2>2 DEF GetAll, StartFetch, Snapshot, Compare, Learn, GetSucceeds, GetFails,
         FetchSnapshot, StoreTrack, SendTrack, StorePlay, SendPlay, PlayKept, Commands
  <2> QED
      BY <1>2, <1>3, <1>4, <2>1, <2>2 DEF Running
<1>6. ASSUME NEW m \in Methods, Call(m)
      PROVE  PlayKept \/ PlayAgrees
  <2>1. CASE m \in {"Play", "Pause", "Stop"}
    <3>1. /\ state' = [state EXCEPT !.playing = (m = "Play")]
          /\ lastKnownPlaying' = (m = "Play")
          /\ Commands
        BY <1>6, <2>1 DEF Call, Commands
    <3>2. state \in PlayState
        BY <1>1 DEF SharedOK
    <3> QED
        BY <3>1, <3>2 DEF PlayAgrees, PlayState
  <2>2. CASE m \notin {"Play", "Pause", "Stop"}
      BY <1>6, <2>2 DEF Call, PlayKept, Commands
  <2> QED
      BY <2>1, <2>2
<1>7. CASE ClientStep \/ Environment
    BY <1>7 DEF ClientStep, TakesNotification, FinishesCall, Receive, TakeTrack, TakePlay,
       ReadPlay, CallStore, CallSend, CallBusctl, Environment, PhoneEvent, BluezUpdate,
       GuardExpires, PlayKept, Commands
<1> QED
    BY <1>5, <1>6, <1>7 DEF Next

-----------------------------------------------------------------------------
(* No baseline while the known state is paused. *)

\* A reply that has a position has a status.
StatusWithPosition ==
    \A p \in Procs : "Position" \in reply[p].has => "Status" \in reply[p].has

LEMMA StatusStep ==
    ASSUME \A has \in Replies : "Position" \in has => "Status" \in has,
           TypeOK, StatusWithPosition, [Next]_vars
    PROVE  StatusWithPosition'
<1> USE DEF cache, signals, procs, client, world
<1>1. LocalsOK
    BY TypeSplit
<1>2. CASE UNCHANGED reply
    BY <1>2 DEF StatusWithPosition
<1>3. CASE \E p \in Procs : GetAll(p) \/ StartFetch(p) \/ Running(p)
  <2>1. PICK p \in Procs : GetAll(p) \/ StartFetch(p) \/ Running(p)
      BY <1>3
  <2>2. CASE GetAll(p)
      BY <1>1, <2>2 DEF GetAll, StatusWithPosition, LocalsOK
  <2>3. CASE GetSucceeds(p)
      BY <1>1, <2>3 DEF GetSucceeds, StatusWithPosition, LocalsOK
  <2>4. CASE reply' = [reply EXCEPT ![p] = Nothing]
      BY <1>1, <2>4 DEF Nothing, StatusWithPosition, LocalsOK
  <2> QED
      BY <1>2, <2>1, <2>2, <2>3, <2>4 DEF StartFetch, Running, Snapshot, Compare, Learn,
         Apply, GetFails, FetchSnapshot, FetchStore, Patch, StoreTrack, SendTrack, StorePlay,
         SendPlay, AfterTrack, Return, Leave, Continue
<1>4. CASE (\E m \in Methods : Call(m)) \/ ClientStep \/ Environment \/ UNCHANGED vars
    BY <1>2, <1>4 DEF Call, ClientStep, TakesNotification, FinishesCall, Receive, TakeTrack,
       TakePlay, ReadPlay, CallStore, CallSend, CallBusctl, Environment, PhoneEvent,
       BluezUpdate, GuardExpires, vars
<1> QED
    BY <1>3, <1>4 DEF Next

LEMMA BaselineStep ==
    ASSUME TypeOK, StatusWithPosition, BaselineOnlyWhilePlaying, [Next]_vars
    PROVE  BaselineOnlyWhilePlaying'
<1> USE DEF BaselineOnlyWhilePlaying, cache, signals, procs, client, world
<1>1. CASE \E p \in Procs : GetAll(p) \/ StartFetch(p) \/ Running(p)
  <2>1. PICK p \in Procs : GetAll(p) \/ StartFetch(p) \/ Running(p)
      BY <1>1
  <2>2. CASE Apply(p)
      BY <2>2 DEF Apply
  <2>3. CASE Patch(p)
    <3>1. "Position" \in reply[p].has => "Status" \in reply[p].has
        BY DEF StatusWithPosition
    <3> QED
        BY <2>3, <3>1 DEF Patch
  <2>4. CASE UNCHANGED <<lastKnownPlaying, baseline>>
      BY <2>4
  <2> QED
      BY <2>1, <2>2, <2>3, <2>4 DEF GetAll, StartFetch, Running, Snapshot, Compare, Learn,
         GetSucceeds, GetFails, FetchSnapshot, FetchStore, StoreTrack, SendTrack, StorePlay,
         SendPlay
<1>2. CASE \E m \in Methods : Call(m)
    BY <1>2 DEF Call
<1>3. CASE ClientStep \/ Environment \/ UNCHANGED vars
    BY <1>3 DEF ClientStep, TakesNotification, FinishesCall, Receive, TakeTrack, TakePlay,
       ReadPlay, CallStore, CallSend, CallBusctl, Environment, PhoneEvent, BluezUpdate,
       GuardExpires, vars
<1> QED
    BY <1>1, <1>2, <1>3 DEF Next

\* A source whose known state is paused has no baseline to run on from, whoever
\* paused it, the car or a refresh, and whatever refreshes and fetches, of any
\* number, write back: all it takes is that BlueZ, when it reports a position,
\* reports a status with it.
THEOREM PausedHasNoBaseline ==
    ASSUME \A has \in Replies : "Position" \in has => "Status" \in has
    PROVE  Spec => []BaselineOnlyWhilePlaying
<1>1. Init => StatusWithPosition /\ BaselineOnlyWhilePlaying
    BY DEF Init, StatusWithPosition, BaselineOnlyWhilePlaying, Nothing
<1>2. TypeOK /\ StatusWithPosition /\ [Next]_vars => StatusWithPosition'
    BY StatusStep
<1>3. TypeOK /\ StatusWithPosition /\ BaselineOnlyWhilePlaying /\ [Next]_vars
          => BaselineOnlyWhilePlaying'
    BY BaselineStep
<1> QED
    BY <1>1, <1>2, <1>3, TypeCorrect, PTL DEF Spec

-----------------------------------------------------------------------------
(* The guard window after a command. *)

\* A reply with Track also has Status, so a worker's `next' takes its play state
\* from the reply; one without goes through Get and the second merge.
FromReply(w) ==
    /\ "Track" \in reply[w].has => "Status" \in reply[w].has
    /\ pc[w] \in {"compare", "learn", "apply"} => "Track" \in reply[w].has
    /\ "Track" \in reply[w].has /\ pc[w] \in {"compare", "learn", "apply", "storeTrack", "sendTrack"} =>
           next[w].playing = reply[w].playing
    /\ pc[w] \in {"get", "fetchSnapshot", "fetchStore"} => "Track" \notin reply[w].has

NextFromReply ==
    /\ \A w \in Workers : FromReply(w)
    /\ \A f \in Fetchers :
          pc[f] \in {"idle", "get", "fetchSnapshot", "fetchStore", "storeTrack", "sendTrack"}

\* From the first command on.  The phone plays as the last command says once
\* the command was passed on; when the window closes, BlueZ says so too, and so
\* does every answer that is not late.
Settled ==
    /\ mainPc \in {"callStore", "callSend", "callBusctl"} =>
           /\ optimistic
           /\ method \in {"Play", "Pause", "Stop"}
           /\ lastKnownPlaying = (method = "Play")
    /\ mainPc \notin {"callStore", "callSend", "callBusctl"} => phone.playing = lastKnownPlaying
    /\ ~optimistic => bluez.playing = lastKnownPlaying
    /\ \A w \in Workers \ late :
           pc[w] # "idle" /\ "Status" \in reply[w].has => reply[w].playing = bluez.playing

WindowInv ==
    /\ NextFromReply
    /\ ~optimistic => late = {}
    /\ budget < MaxEvents => Settled
    /\ mainPc \in {"callStore", "callSend", "callBusctl"} => budget < MaxEvents

LEMMA NextFromReplyStep ==
    ASSUME \A has \in Replies : "Track" \in has => "Status" \in has,
           TypeOK, NextFromReply, [Next]_vars
    PROVE  NextFromReply'
<1> USE DEF cache, signals, procs, client, world
<1>1. LocalsOK /\ SharedOK
    BY TypeSplit
<1>2. CASE UNCHANGED <<pc, reply, next>>
    BY <1>2 DEF NextFromReply, FromReply
<1>3. CASE \E p \in Procs : GetAll(p) \/ StartFetch(p) \/ Running(p)
  <2>1. PICK p \in Procs : GetAll(p) \/ StartFetch(p) \/ Running(p)
      BY <1>3
  <2>2. ASSUME NEW q \in Procs \ {p}
        PROVE  pc'[q] = pc[q] /\ reply'[q] = reply[q] /\ next'[q] = next[q]
    <3>1. CASE GetAll(p) \/ StartFetch(p)
        BY <1>1, <3>1 DEF LocalsOK, GetAll, StartFetch, Continue, Goto
    <3>2. CASE Snapshot(p) \/ Compare(p) \/ Learn(p) \/ Apply(p) \/ Patch(p)
        BY <1>1, <3>2 DEF LocalsOK, Snapshot, Compare, Learn, Apply, Patch, Return, Leave,
           Continue, Goto
    <3>3. CASE GetSucceeds(p) \/ GetFails(p) \/ FetchSnapshot(p) \/ FetchStore(p)
        BY <1>1, <3>3 DEF LocalsOK, GetSucceeds, GetFails, FetchSnapshot, FetchStore,
           AfterTrack, Return, Leave, Continue, Goto
    <3>4. CASE StoreTrack(p) \/ SendTrack(p) \/ StorePlay(p) \/ SendPlay(p)
        BY <1>1, <3>4 DEF LocalsOK, StoreTrack, SendTrack, StorePlay, SendPlay,
           AfterTrack, Return, Leave, Continue, Goto
    <3> QED
        BY <2>1, <3>1, <3>2, <3>3, <3>4 DEF Running
  <2>3. CASE p \notin Workers
    <3>1. p \in Fetchers /\ pc[p] \in {"idle", "get", "fetchSnapshot", "fetchStore", "storeTrack", "sendTrack"}
        BY <2>3 DEF Procs, NextFromReply
    <3>2. ~GetAll(p) /\ ~Snapshot(p) /\ ~Compare(p) /\ ~Learn(p) /\ ~Apply(p) /\ ~Patch(p)
          /\ ~StorePlay(p) /\ ~SendPlay(p)
        BY <2>3, <3>1 DEF GetAll, Snapshot, Compare, Learn, Apply, Patch, StorePlay, SendPlay
    <3>3. pc'[p] \in {"idle", "get", "fetchSnapshot", "fetchStore", "storeTrack", "sendTrack"}
      <4>1. CASE StartFetch(p) \/ GetSucceeds(p) \/ GetFails(p)
          BY <1>1, <2>3, <3>1, <4>1 DEF StartFetch, GetSucceeds, GetFails, Return, Leave,
             Continue, Goto, LocalsOK
      <4>2. CASE FetchSnapshot(p) \/ FetchStore(p) \/ StoreTrack(p) \/ SendTrack(p)
          BY <1>1, <3>1, <4>2 DEF FetchSnapshot, FetchStore, StoreTrack, SendTrack, AfterTrack,
             Return, Leave, Continue, Goto, LocalsOK
      <4> QED
          BY <2>1, <3>2, <4>1, <4>2 DEF Running
    <3> QED
        BY <2>2, <2>3, <3>3 DEF NextFromReply, FromReply, Procs
  <2>4. CASE p \in Workers
    <3> SUFFICES FromReply(p)'
      <4>1. p \notin Fetchers
          BY <2>4, ConstantsAssumption DEF Workers
      <4> QED
          BY <2>2, <4>1 DEF NextFromReply, FromReply, Procs
    <3>1. FromReply(p)
        BY <2>4 DEF NextFromReply
    <3>2. p \notin Fetchers
        BY <2>4, ConstantsAssumption DEF Workers
    <3>3. CASE Leave(p, "idle") \/ Leave(p, "storePlay")
      <4>1. pc'[p] \in {"idle", "storePlay"} /\ reply'[p].has = {}
          BY <1>1, <3>3 DEF Leave, Goto, LocalsOK, Nothing
      <4> QED
          BY <4>1 DEF FromReply
    <3>4. CASE UNCHANGED <<reply, next>> /\ pc'[p] \in {"patch", "sendPlay"}
        BY <3>1, <3>4 DEF FromReply
    <3>5. CASE GetAll(p)
      <4>1. pc'[p] = "snapshot" /\ reply'[p].has \in Replies
          BY <1>1, <3>5 DEF GetAll, Goto, LocalsOK
      <4> QED
          BY <4>1 DEF FromReply
    <3>6. CASE Snapshot(p)
      <4>1. CASE "Track" \notin reply[p].has
        <5>1. pc'[p] = "get" /\ reply' = reply
            BY <1>1, <3>6, <4>1 DEF Snapshot, Continue, Goto, LocalsOK
        <5> QED
            BY <4>1, <5>1 DEF FromReply
      <4>2. CASE /\ Goto(p, IF HasMetadata(reply[p]) THEN "compare" ELSE "apply")
                 /\ next' = [next EXCEPT ![p] = Overlay(reply[p])]
                 /\ reply' = reply
                 /\ "Track" \in reply[p].has
        <5>1. "Status" \in reply[p].has
            BY <3>1, <4>2 DEF FromReply
        <5>2. next'[p].playing = reply[p].playing
            BY <1>1, <4>2, <5>1 DEF LocalsOK, Overlay
        <5>3. pc'[p] \in {"compare", "apply"}
            BY <1>1, <4>2 DEF LocalsOK, Goto
        <5> QED
            BY <4>2, <5>1, <5>2, <5>3 DEF FromReply
      <4> QED
          BY <3>3, <3>6, <4>1, <4>2 DEF Snapshot, Return
    <3>7. CASE Compare(p)
      <4>1. pc'[p] \in {"learn", "apply"} /\ pc[p] = "compare" /\ UNCHANGED <<reply, next>>
          BY <1>1, <3>7 DEF Compare, Continue, Goto, LocalsOK
      <4> QED
          BY <3>1, <4>1 DEF FromReply
    <3>8. CASE Learn(p) \/ StoreTrack(p)
      <4>1. /\ pc'[p] \in {"storeTrack", "sendTrack"} /\ pc[p] \in {"learn", "storeTrack"}
            /\ UNCHANGED <<reply, next>>
          BY <1>1, <3>8 DEF Learn, StoreTrack, Continue, Goto, LocalsOK
      <4> QED
          BY <3>1, <4>1 DEF FromReply
    <3>9. CASE SendTrack(p)
      <4>1. /\ pc'[p] = IF "Track" \in reply[p].has THEN "apply" ELSE "patch"
            /\ pc[p] = "sendTrack" /\ UNCHANGED <<reply, next>>
          BY <1>1, <3>2, <3>9 DEF SendTrack, AfterTrack, Continue, Goto, LocalsOK
      <4> QED
          BY <3>1, <4>1 DEF FromReply
    <3>10. CASE GetSucceeds(p)
      <4>1. pc'[p] = "fetchSnapshot" /\ pc[p] = "get" /\ reply'[p].has = reply[p].has
          BY <1>1, <3>10 DEF GetSucceeds, Goto, LocalsOK
      <4> QED
          BY <3>1, <4>1 DEF FromReply
    <3>11. CASE FetchSnapshot(p)
      <4>1. pc'[p] = "fetchStore" /\ pc[p] = "fetchSnapshot" /\ reply' = reply
          BY <1>1, <3>11 DEF FetchSnapshot, Goto, LocalsOK
      <4> QED
          BY <3>1, <4>1 DEF FromReply
    <3>12. CASE FetchStore(p)
      <4>1. /\ pc'[p] \in {"storeTrack", "patch"} /\ "Track" \notin reply[p].has
            /\ reply' = reply
          BY <1>1, <3>1, <3>2, <3>12 DEF FetchStore, AfterTrack, Continue, Goto, LocalsOK, FromReply
      <4> QED
          BY <4>1 DEF FromReply
    <3>13. CASE GetFails(p) \/ StorePlay(p)
        BY <1>1, <2>4, <3>4, <3>13 DEF GetFails, StorePlay, Continue, Goto, LocalsOK
    <3>14. CASE Apply(p) \/ Patch(p) \/ SendPlay(p)
        BY <3>3, <3>14 DEF Apply, Patch, SendPlay, Return
    <3> QED
        BY <2>1, <3>2, <3>5, <3>6, <3>7, <3>8, <3>9, <3>10, <3>11, <3>12, <3>13, <3>14
           DEF Running, StartFetch
  <2> QED
      BY <2>3, <2>4
<1>4. CASE (\E m \in Methods : Call(m)) \/ ClientStep \/ Environment \/ UNCHANGED vars
    BY <1>2, <1>4 DEF Call, ClientStep, TakesNotification, FinishesCall, Receive, TakeTrack,
       TakePlay, ReadPlay, CallStore, CallSend, CallBusctl, Environment, PhoneEvent,
       BluezUpdate, GuardExpires, vars
<1> QED
    BY <1>3, <1>4 DEF Next


\* A goroutine does not change the known play state from the first command on:
\* inside the window it is told not to, after it every answer agrees.
LEMMA GoroutineAgrees ==
    ASSUME TypeOK, WindowInv, budget < MaxEvents, NEW p \in Procs,
           GetAll(p) \/ StartFetch(p) \/ Running(p)
    PROVE  UNCHANGED lastKnownPlaying
<1> USE DEF cache, signals, procs, client, world
<1>1. LocalsOK /\ SharedOK /\ Settled
    BY TypeSplit DEF WindowInv
<1>2. ASSUME ~optimistic, p \in Workers, "Status" \in reply[p].has, pc[p] # "idle"
      PROVE  reply[p].playing = lastKnownPlaying
    BY <1>1, <1>2 DEF WindowInv, Settled
<1>3. CASE Apply(p)
  <2>1. pc[p] = "apply"
      BY <1>3 DEF Apply
  <2>2. p \in Workers
      BY <2>1 DEF WindowInv, NextFromReply, Procs
  <2>3. "Status" \in reply[p].has /\ next[p].playing = reply[p].playing
      BY <2>1, <2>2 DEF WindowInv, NextFromReply, FromReply
  <2>4. ~optimistic => next[p].playing = lastKnownPlaying
      BY <1>2, <2>1, <2>2, <2>3
  <2> QED
      BY <1>3, <2>4 DEF Apply
<1>4. CASE Patch(p)
  <2>1. pc[p] = "patch"
      BY <1>4 DEF Patch
  <2>2. p \in Workers
      BY <2>1 DEF WindowInv, NextFromReply, Procs
  <2>3. ~optimistic /\ "Status" \in reply[p].has => reply[p].playing = lastKnownPlaying
      BY <1>2, <2>1, <2>2
  <2> QED
      BY <1>4, <2>3 DEF Patch
<1>5. CASE \/ GetAll(p) \/ StartFetch(p) \/ Snapshot(p) \/ Compare(p) \/ Learn(p) \/ GetSucceeds(p)
           \/ GetFails(p) \/ FetchSnapshot(p) \/ FetchStore(p) \/ StoreTrack(p) \/ SendTrack(p)
           \/ StorePlay(p) \/ SendPlay(p)
    BY <1>5 DEF GetAll, StartFetch, Snapshot, Compare, Learn, GetSucceeds, GetFails,
       FetchSnapshot, FetchStore, StoreTrack, SendTrack, StorePlay, SendPlay
<1> QED
    BY <1>3, <1>4, <1>5 DEF Running

\* Nor does it make an answer late, or leave one that is not what BlueZ says.
LEMMA GoroutineWindow ==
    ASSUME TypeOK, WindowInv, NextFromReply', NEW p \in Procs,
           GetAll(p) \/ StartFetch(p) \/ Running(p)
    PROVE  WindowInv'
<1> USE DEF cache, signals, procs, client, world
<1>1. LocalsOK /\ SharedOK
    BY TypeSplit
<1>2. UNCHANGED <<mainPc, method, phone, bluez, budget, optimistic>>
    BY DEF GetAll, StartFetch, Running, Snapshot, Compare, Learn, Apply, GetSucceeds, GetFails,
       FetchSnapshot, FetchStore, Patch, StoreTrack, SendTrack, StorePlay, SendPlay
<1>3. late' \in {late, late \ {p}}
  <2>1. CASE GetAll(p) \/ StartFetch(p) \/ Snapshot(p) \/ Compare(p) \/ Learn(p) \/ Apply(p) \/ Patch(p)
      BY <2>1 DEF GetAll, StartFetch, Snapshot, Compare, Learn, Apply, Patch, Return, Leave, Continue
  <2>2. CASE GetSucceeds(p) \/ GetFails(p) \/ FetchSnapshot(p) \/ FetchStore(p)
      BY <2>2 DEF GetSucceeds, GetFails, FetchSnapshot, FetchStore, AfterTrack, Return, Leave, Continue
  <2>3. CASE StoreTrack(p) \/ SendTrack(p) \/ StorePlay(p) \/ SendPlay(p)
      BY <2>3 DEF StoreTrack, SendTrack, StorePlay, SendPlay, AfterTrack, Return, Leave, Continue
  <2> QED
      BY <2>1, <2>2, <2>3 DEF Running
<1>4. \/ reply'[p].has = {}
      \/ late' = late /\ pc[p] # "idle" /\ reply'[p].has = reply[p].has
                      /\ reply'[p].playing = reply[p].playing
      \/ ("Status" \in reply'[p].has => reply'[p].playing = bluez.playing)
      \/ p \notin Workers
  <2>1. CASE Leave(p, "idle") \/ Leave(p, "storePlay")
      BY <1>1, <2>1 DEF Leave, LocalsOK, Nothing
  <2>2. CASE GetAll(p)
    <3>1. PICK has \in Replies :
              reply'[p] = [has |-> has,
                           title |-> IF "Track" \in has THEN bluez.title ELSE NoTitle,
                           playing |-> "Status" \in has /\ bluez.playing]
        BY <1>1, <2>2 DEF GetAll, LocalsOK
    <3>2. bluez.playing \in BOOLEAN
        BY <1>1 DEF SharedOK, PlayState
    <3>3. reply'[p].has = has
        BY <3>1
    <3>4. CASE "Status" \in has
      <4>1. ("Status" \in has /\ bluez.playing) = bluez.playing
          BY <3>2, <3>4
      <4>2. reply'[p].playing = bluez.playing
          BY <3>1, <4>1
      <4> QED
          BY <4>2
    <3> QED
        BY <3>3, <3>4
  <2>3. CASE StartFetch(p)
      BY <2>3, ConstantsAssumption DEF StartFetch, Workers
  <2>4. CASE Snapshot(p) \/ Compare(p) \/ Learn(p) \/ Apply(p) \/ Patch(p)
      BY <1>1, <2>1, <2>4 DEF Snapshot, Compare, Learn, Apply, Patch, Return, Continue
  <2>5. CASE GetSucceeds(p)
      BY <1>1, <2>5 DEF GetSucceeds, LocalsOK
  <2>6. CASE GetFails(p) \/ FetchSnapshot(p) \/ FetchStore(p) \/ StoreTrack(p) \/ SendTrack(p)
             \/ StorePlay(p) \/ SendPlay(p)
      BY <1>1, <2>1, <2>6 DEF GetFails, FetchSnapshot, FetchStore, StoreTrack, SendTrack,
         StorePlay, SendPlay, AfterTrack, Return, Continue
  <2> QED
      BY <2>1, <2>2, <2>3, <2>4, <2>5, <2>6 DEF Running
<1>5. ASSUME NEW q \in Procs \ {p}
      PROVE  pc'[q] = pc[q] /\ reply'[q] = reply[q]
  <2>1. CASE GetAll(p) \/ StartFetch(p)
      BY <1>1, <2>1 DEF LocalsOK, GetAll, StartFetch, Continue, Goto
  <2>2. CASE Snapshot(p) \/ Compare(p) \/ Learn(p) \/ Apply(p) \/ Patch(p)
      BY <1>1, <2>2 DEF LocalsOK, Snapshot, Compare, Learn, Apply, Patch, Return, Leave,
         Continue, Goto
  <2>3. CASE GetSucceeds(p) \/ GetFails(p) \/ FetchSnapshot(p) \/ FetchStore(p)
      BY <1>1, <2>3 DEF LocalsOK, GetSucceeds, GetFails, FetchSnapshot, FetchStore,
         AfterTrack, Return, Leave, Continue, Goto
  <2>4. CASE StoreTrack(p) \/ SendTrack(p) \/ StorePlay(p) \/ SendPlay(p)
      BY <1>1, <2>4 DEF LocalsOK, StoreTrack, SendTrack, StorePlay, SendPlay,
         AfterTrack, Return, Leave, Continue, Goto
  <2> QED
      BY <2>1, <2>2, <2>3, <2>4 DEF Running
<1>6. ASSUME budget < MaxEvents PROVE Settled'
  <2>1. Settled /\ lastKnownPlaying' = lastKnownPlaying
      BY <1>6, GoroutineAgrees DEF WindowInv
  <2>2. ASSUME NEW w \in Workers, w \notin late', pc'[w] # "idle", "Status" \in reply'[w].has
        PROVE  reply'[w].playing = bluez'.playing
    <3>1. CASE w = p
        BY <1>2, <1>4, <2>1, <2>2, <3>1 DEF Settled
    <3>2. CASE w # p
        BY <1>2, <1>3, <1>5, <2>1, <2>2, <3>2 DEF Settled, Procs
    <3> QED
        BY <3>1, <3>2
  <2> QED
      BY <1>2, <2>1, <2>2 DEF Settled
<1> QED
    BY <1>2, <1>3, <1>6 DEF WindowInv

LEMMA WindowStep ==
    ASSUME Obedient, Timely, PhoneEvents = {}, Methods \subseteq {"Play", "Pause", "Stop"},
           TypeOK, WindowInv, NextFromReply', [Next]_vars
    PROVE  WindowInv'
<1> USE DEF cache, signals, procs, client, world
<1>1. LocalsOK /\ SharedOK
    BY TypeSplit
<1>2. CASE \E p \in Procs : GetAll(p) \/ StartFetch(p) \/ Running(p)
    BY <1>2, GoroutineWindow
<1>3. CASE \E m \in Methods : Call(m)
  <2>1. PICK m \in {"Play", "Pause", "Stop"} : Call(m)
      BY <1>3
  <2>2. /\ budget' = budget - 1 /\ method' = m /\ lastKnownPlaying' = (m = "Play")
        /\ optimistic' = TRUE /\ late' = {w \in Workers : pc[w] # "idle"}
        /\ mainPc' = "callStore" /\ UNCHANGED <<pc, reply, phone, bluez>>
      BY <2>1 DEF Call, MarkLate
  <2>3. budget' < MaxEvents
      BY <1>1, <2>2, ConstantsAssumption DEF SharedOK
  <2>4. Settled'
      BY <2>2 DEF Settled
  <2> QED
      BY <2>2, <2>3, <2>4 DEF WindowInv
<1>4. CASE ClientStep
  <2>1. UNCHANGED <<pc, reply, next, late, optimistic, lastKnownPlaying, bluez, budget>>
      BY <1>4 DEF ClientStep, TakesNotification, FinishesCall, Receive, TakeTrack, TakePlay,
         ReadPlay, CallStore, CallSend, CallBusctl
  <2>2. CASE CallBusctl
    <3>1. Executes(method) /\ mainPc = "callBusctl" /\ mainPc' = "select"
        BY <2>2 DEF CallBusctl
    <3>2. budget < MaxEvents /\ Settled
        BY <3>1 DEF WindowInv
    <3>3. lastKnownPlaying = (method = "Play") /\ optimistic
        BY <3>1, <3>2 DEF Settled
    <3>4. method \in {"Play", "Pause", "Stop"}
        BY <3>1, <3>2 DEF Settled
    <3>5. phone'.playing = (method = "Play")
        BY <1>1, <3>1, <3>4 DEF Executes, SharedOK, PlayState
    <3>6. Settled'
        BY <2>1, <3>1, <3>2, <3>3, <3>5 DEF Settled
    <3> QED
        BY <2>1, <3>1, <3>6 DEF WindowInv
  <2>3. CASE CallStore \/ CallSend
    <3>1. /\ mainPc \in {"callStore", "callSend"} /\ mainPc' \in {"callSend", "callBusctl"}
          /\ UNCHANGED <<method, phone>>
        BY <2>3 DEF CallStore, CallSend
    <3> QED
        BY <2>1, <3>1 DEF WindowInv, Settled
  <2>4. CASE TakesNotification
    <3>1. /\ mainPc \notin {"callStore", "callSend", "callBusctl"}
          /\ mainPc' \notin {"callStore", "callSend", "callBusctl"}
          /\ UNCHANGED <<method, phone>>
        BY <2>4 DEF TakesNotification, Receive, TakeTrack, TakePlay, ReadPlay
    <3> QED
        BY <2>1, <3>1 DEF WindowInv, Settled
  <2> QED
      BY <1>4, <2>2, <2>3, <2>4 DEF ClientStep, FinishesCall
<1>5. CASE BluezUpdate
  <2>1. /\ bluez' = phone
        /\ late' = IF optimistic THEN {w \in Workers : pc[w] # "idle"} ELSE {}
        /\ UNCHANGED <<phone, budget, pc, reply, mainPc, method, optimistic, lastKnownPlaying>>
      BY <1>5 DEF BluezUpdate, MarkLate
  <2>2. ASSUME budget < MaxEvents PROVE Settled'
    <3>1. Settled
        BY <2>2 DEF WindowInv
    <3>2. CASE optimistic
        BY <2>1, <3>1, <3>2 DEF Settled
    <3>3. CASE ~optimistic
      <4>1. late = {} /\ phone.playing = lastKnownPlaying /\ bluez.playing = lastKnownPlaying
          BY <3>1, <3>3 DEF WindowInv, Settled
      <4> QED
          BY <2>1, <3>1, <3>3, <4>1 DEF Settled
    <3> QED
        BY <3>2, <3>3
  <2> QED
      BY <2>1, <2>2 DEF WindowInv
<1>6. CASE GuardExpires
  <2>1. /\ mainPc \notin {"callStore", "callSend", "callBusctl"} /\ bluez = phone /\ late = {}
        /\ late' = {}
        /\ UNCHANGED <<phone, bluez, budget, pc, reply, mainPc, method, lastKnownPlaying>>
      BY <1>6 DEF GuardExpires
  <2>2. ASSUME budget < MaxEvents PROVE Settled'
    <3>1. Settled
        BY <2>2 DEF WindowInv
    <3> QED
        BY <2>1, <3>1 DEF Settled
  <2> QED
      BY <2>1, <2>2 DEF WindowInv
<1>7. CASE UNCHANGED vars
    BY <1>7 DEF vars, WindowInv, Settled
<1> QED
    BY <1>2, <1>3, <1>4, <1>5, <1>6, <1>7 DEF Next, Environment

\* With a phone that obeys, no user at the phone and a BlueZ that settles within
\* the window, only MediaControl decides from the first command on: the play
\* state that IsPlaying() returns changes with a command, with a fetch that
\* writes back a copy from before it, or back to what was commanded; and the
\* state that polls are compared with changes with a command alone.
THEOREM GuardWindowHolds ==
    ASSUME Obedient, Timely, PhoneEvents = {}, Methods \subseteq {"Play", "Pause", "Stop"},
           \A has \in Replies : "Track" \in has => "Status" \in has
    PROVE  Spec => NoBounce
<1>1. ASSUME Init PROVE WindowInv
  <2>1. NextFromReply
      BY <1>1 DEF Init, NextFromReply, FromReply, Procs, Nothing
  <2> QED
      BY <1>1, <2>1, ConstantsAssumption DEF Init, WindowInv
<1>2. TypeOK /\ WindowInv /\ [Next]_vars => WindowInv'
  <2>1. WindowInv => NextFromReply
      BY DEF WindowInv
  <2> QED
      BY <2>1, NextFromReplyStep, WindowStep
<1>3. TypeOK /\ WindowInv /\ [Next]_vars =>
          [budget < MaxEvents
              /\ <<state.playing, lastKnownPlaying>>' # <<state.playing, lastKnownPlaying>>
                 => Commands \/ WritesBack \/ Repairs]_vars
  <2> SUFFICES ASSUME TypeOK, WindowInv, Next, budget < MaxEvents, ~Commands, ~WritesBack,
                      ~Repairs
               PROVE  state'.playing = state.playing /\ lastKnownPlaying' = lastKnownPlaying
      OBVIOUS
  <2>1. lastKnownPlaying' = lastKnownPlaying
    <3>1. CASE \E p \in Procs : GetAll(p) \/ StartFetch(p) \/ Running(p)
        BY <3>1, GoroutineAgrees
    <3>2. CASE \E m \in Methods : Call(m)
        BY <3>2 DEF Call, Commands
    <3>3. CASE ClientStep \/ Environment
        BY <3>3 DEF ClientStep, TakesNotification, FinishesCall, Receive, TakeTrack, TakePlay,
           ReadPlay, CallStore, CallSend, CallBusctl, Environment, PhoneEvent, BluezUpdate,
           GuardExpires, cache
    <3> QED
        BY <3>1, <3>2, <3>3 DEF Next
  <2>2. CASE PlayAgrees
      BY <2>1, <2>2 DEF PlayAgrees, Repairs
  <2>3. CASE PlayKept
      BY <2>3 DEF PlayKept
  <2> QED
      BY <2>1, <2>2, <2>3, PlayChange
<1> QED
    BY <1>1, <1>2, <1>3, TypeCorrect, PTL DEF Spec, NoBounce

-----------------------------------------------------------------------------
(* RadioSync runs the source by its own steps. *)

LEMMA SyncSteps == [SyncNext]_syncVars => [Next]_vars
<1>. SUFFICES ASSUME [SyncNext]_syncVars PROVE [Next]_vars
  OBVIOUS
<1>1. CASE SourceStep
  BY <1>1 DEF SourceStep, Next, ClientStep, TakesNotification
<1>2. CASE NotifyTrack
  BY <1>2 DEF NotifyTrack, Next, ClientStep, TakesNotification
<1>3. CASE NotifyPlay
  BY <1>3 DEF NotifyPlay, Next, ClientStep, TakesNotification
<1>4. CASE \E l \in Lingoes, m \in Masks : Subscribe(l, m)
  BY <1>4 DEF Subscribe
<1>5. CASE AnswerTitle \/ AnswerStatus
  BY <1>5 DEF AnswerTitle, AnswerStatus
<1>6. CASE UNCHANGED syncVars
  BY <1>6 DEF syncVars
<1>. QED
  BY <1>1, <1>2, <1>3, <1>4, <1>5, <1>6 DEF SyncNext

LEMMA RunsSource == SyncSpec => Spec
<1>1. SyncInit => Init
  BY DEF SyncInit
<1>. QED
  BY <1>1, SyncSteps, PTL DEF SyncSpec, Spec

-----------------------------------------------------------------------------
(* Types. *)

\* The variables that RadioSync adds.
RadioOK ==
    /\ mask \in [Lingoes -> SUBSET Events]
    /\ trackIndex \in 0..(IndexLimit - 1)
    /\ asks \in SUBSET Requests
    /\ shown \in PlayState
    /\ seen \in 0..(IndexLimit - 1)
    /\ writtenBack \in BOOLEAN

LEMMA NextIndex ==
    ASSUME trackIndex \in 0..(IndexLimit - 1)
    PROVE  /\ OnTrackChanged \in 0..(IndexLimit - 1)
           /\ OnTrackChanged # trackIndex
<1>1. IndexLimit \in Nat /\ IndexLimit >= 2
  BY RadioAssumption
<1>2. CASE trackIndex + 1 < IndexLimit
  <2>1. (trackIndex + 1) % IndexLimit = trackIndex + 1
    BY <1>1, <1>2, SMTT(30)
  <2>. QED
    BY <1>1, <1>2, <2>1 DEF OnTrackChanged
<1>3. CASE trackIndex + 1 = IndexLimit
  <2>1. (trackIndex + 1) % IndexLimit = 0
    BY <1>1, <1>3, SMTT(30)
  <2>. QED
    BY <1>1, <1>3, <2>1 DEF OnTrackChanged
<1>. QED
  BY <1>1, <1>2, <1>3

LEMMA RadioInit == SyncInit => RadioOK
<1>. SUFFICES ASSUME SyncInit PROVE RadioOK
  OBVIOUS
<1>1. writtenBack \in BOOLEAN
  BY DEF SyncInit
<1>2. shown \in PlayState
  BY DEF SyncInit, Blank, PlayState, AnyTitle
<1>. QED
  BY <1>1, <1>2, RadioAssumption DEF SyncInit, RadioOK

LEMMA RadioStep ==
    ASSUME TypeOK, RadioOK, [SyncNext]_syncVars
    PROVE  RadioOK'
<1>. USE DEF RadioOK, session, radio
<1>0. state \in PlayState /\ Masks \subseteq SUBSET Events
  BY RadioAssumption DEF TypeOK
<1>1. CASE SourceStep
  BY <1>1 DEF SourceStep, Unseen, Remember
<1>2. CASE NotifyTrack
  BY <1>2, NextIndex DEF NotifyTrack, SendTrackIndex, Requests
<1>3. CASE NotifyPlay
  BY <1>0, <1>3 DEF NotifyPlay, SendPlayStatus, PlayState
<1>4. ASSUME NEW l \in Lingoes, NEW m \in Masks, Subscribe(l, m)
      PROVE  RadioOK'
  BY <1>0, <1>4 DEF Subscribe, ReadsFirst, PlayState
<1>5. CASE AnswerTitle
  BY <1>0, <1>5 DEF AnswerTitle, PlayState
<1>6. CASE AnswerStatus
  BY <1>0, <1>6 DEF AnswerStatus, PlayState
<1>7. CASE UNCHANGED syncVars
  BY <1>7 DEF syncVars
<1>. QED
  BY <1>1, <1>2, <1>3, <1>4, <1>5, <1>6, <1>7 DEF SyncNext

\* Every variable has its type, for any number of everything; in particular the
\* track index wraps within its width.
THEOREM SyncTypeCorrect == SyncSpec => []SyncTypeOK
<1>1. SyncTypeOK <=> TypeOK /\ RadioOK
  BY DEF SyncTypeOK, RadioOK
<1>2. TypeOK /\ RadioOK /\ [SyncNext]_syncVars => RadioOK'
  BY RadioStep
<1>. QED
  BY <1>1, <1>2, RadioInit, RunsSource, TypeCorrect, PTL DEF SyncSpec

-----------------------------------------------------------------------------
(* Steps of the source, seen by the notifications. *)

\* A change on its way stays so until the main loop takes it.
LEMMA TrackStaysOnItsWay ==
    ASSUME TypeOK, SourceStep, OnItsWay("track")
    PROVE  OnItsWay("track")'
<1>. USE DEF OnItsWay, cache, signals, procs, client, world
<1>1. LocalsOK /\ SharedOK
  BY TypeSplit
<1>2. CASE \E p \in Procs : GetAll(p) \/ StartFetch(p) \/ Running(p)
  <2>1. PICK p \in Procs : GetAll(p) \/ StartFetch(p) \/ Running(p)
    BY <1>2
  <2>2. ASSUME NEW q \in Procs, pc[q] = "storeTrack", q # p
        PROVE  pc'[q] = "storeTrack"
    BY <1>1, <2>1, <2>2 DEF LocalsOK, GetAll, StartFetch, Running, Snapshot, Compare, Learn,
       Apply, GetSucceeds, GetFails, FetchSnapshot, FetchStore, Patch, StoreTrack, SendTrack,
       StorePlay, SendPlay, AfterTrack, Return, Leave, Continue, Goto
  <2>3. CASE StoreTrack(p)
    BY <1>1, <2>3 DEF StoreTrack, StoreFlag, SharedOK, Kinds
  <2>4. CASE pc[p] # "storeTrack"
    <3>1. flag["track"] => flag'["track"]
      BY <1>1, <2>1, <2>4 DEF SharedOK, Kinds, GetAll, StartFetch, Running, Snapshot, Compare,
         Learn, Apply, GetSucceeds, GetFails, FetchSnapshot, FetchStore, Patch, StoreTrack,
         SendTrack, StorePlay, SendPlay, StoreFlag, NonBlockingSend
    <3>. QED
      BY <2>2, <2>4, <3>1
  <2>. QED
    BY <2>1, <2>3, <2>4 DEF GetAll, StartFetch, Running, Snapshot, Compare, Learn, Apply,
       GetSucceeds, GetFails, FetchSnapshot, FetchStore, Patch, SendTrack, StorePlay, SendPlay
<1>3. CASE \E m \in Methods : Call(m)
  BY <1>3 DEF Call
<1>4. CASE Receive \/ TakePlay \/ FinishesCall \/ Environment
  BY <1>1, <1>4 DEF SharedOK, Kinds, Receive, TakePlay, FinishesCall, CallStore, CallSend,
     CallBusctl, StoreFlag, NonBlockingSend, Environment, PhoneEvent, BluezUpdate, GuardExpires
<1>. QED
  BY <1>2, <1>3, <1>4 DEF SourceStep

\* The source publishes a new title with its notification on the way.
LEMMA NewTitleIsOnItsWay ==
    ASSUME TypeOK, TitleInv, SourceStep, state'.title # state.title
    PROVE  OnItsWay("track")'
<1>. USE DEF cache, signals, procs, client, world
<1>1. LocalsOK /\ SharedOK
  BY TypeSplit
<1>2. CASE \E p \in Procs : GetAll(p) \/ StartFetch(p) \/ Running(p)
  <2>1. PICK p \in Procs : GetAll(p) \/ StartFetch(p) \/ Running(p)
    BY <1>2
  <2>2. pc[p] \notin {"compare", "learn", "apply"} /\ state.title = lastKnownTitle
    BY DEF TitleInv, TitleKnown
  <2>3. CASE FetchStore(p)
    BY <1>1, <2>2, <2>3 DEF FetchStore, Continue, Goto, LocalsOK, OnItsWay
  <2>4. CASE Patch(p)
    BY <1>1, <2>4 DEF Patch, SharedOK, PlayState
  <2>. QED
    BY <2>1, <2>2, <2>3, <2>4 DEF GetAll, StartFetch, Running, Snapshot, Compare, Learn, Apply,
       GetSucceeds, GetFails, FetchSnapshot, StoreTrack, SendTrack, StorePlay, SendPlay
<1>3. CASE \E m \in Methods : Call(m)
  BY <1>1, <1>3 DEF Call, SharedOK, PlayState
<1>4. CASE Receive \/ TakePlay \/ FinishesCall \/ Environment
  BY <1>4 DEF Receive, TakePlay, FinishesCall, CallStore, CallSend, CallBusctl, Environment,
     PhoneEvent, BluezUpdate, GuardExpires
<1>. QED
  BY <1>2, <1>3, <1>4 DEF SourceStep

-----------------------------------------------------------------------------
(* Titles. *)

\* A subscribed radio that is not about to read the title knows the index of the
\* handlers, so the next one is news to it, wherever it wraps.
IndexSeen == Subscribed("index") => seen = trackIndex \/ "title" \in asks

LEMMA SyncTitleStep ==
    ASSUME "ext" \in Lingoes, TypeOK, RadioOK, TitleInv, NoSilentTitle, IndexSeen,
           [SyncNext]_syncVars
    PROVE  NoSilentTitle' /\ IndexSeen'
<1>. USE DEF NoSilentTitle, IndexSeen, Subscribed, session, radio
<1>1. CASE SourceStep
  BY <1>1, TrackStaysOnItsWay, NewTitleIsOnItsWay DEF SourceStep, Unseen
<1>2. CASE NotifyTrack
  <2>1. UNCHANGED state
    BY <1>2 DEF NotifyTrack, TakeTrack, cache
  <2>2. CASE flag["track"]
    BY <1>2, <2>1, <2>2, NextIndex DEF NotifyTrack, SendTrackIndex, RadioOK
  <2>3. CASE ~flag["track"]
    <3>1. UNCHANGED <<mask, trackIndex, asks, shown, seen, pc>>
      BY <1>2, <2>3 DEF NotifyTrack, TakeTrack, procs
    <3>2. OnItsWay("track") => OnItsWay("track")'
      BY <2>3, <3>1 DEF OnItsWay
    <3>. QED
      BY <2>1, <3>1, <3>2
  <2>. QED
    BY <2>2, <2>3
<1>3. CASE NotifyPlay
  BY <1>3 DEF NotifyPlay, ReadPlay, SendPlayStatus, OnItsWay, cache, signals, procs, RadioOK,
     PlayState
<1>4. ASSUME NEW l \in Lingoes, NEW m \in Masks, Subscribe(l, m)
      PROVE  NoSilentTitle' /\ IndexSeen'
  <2>1. /\ UNCHANGED <<trackIndex, seen, vars>>
        /\ shown'.title = shown.title
        /\ asks' = asks \cup ReadsFirst(l, m)
        /\ mask' = [mask EXCEPT ![l] = m]
    BY <1>4 DEF Subscribe, RadioOK, PlayState
  <2>2. CASE "index" \in m
    BY <2>1, <2>2 DEF ReadsFirst, Requests
  <2>3. CASE "index" \notin m
    <3>1. Subscribed("index")' => Subscribed("index")
      BY <2>1, <2>3 DEF RadioOK
    <3>2. UNCHANGED <<state, OnItsWay("track")>>
      BY <2>1 DEF vars, cache, signals, procs, client, OnItsWay
    <3>. QED
      BY <2>1, <3>1, <3>2
  <2>. QED
    BY <2>2, <2>3
<1>5. CASE AnswerTitle
  BY <1>5 DEF AnswerTitle, RadioOK, PlayState, vars, cache
<1>6. CASE AnswerStatus
  <2>1. /\ UNCHANGED <<mask, trackIndex, seen, vars>>
        /\ shown'.title = shown.title
        /\ "title" \in asks => "title" \in asks'
    BY <1>6 DEF AnswerStatus, RadioOK, PlayState
  <2>2. UNCHANGED <<state, OnItsWay("track")>>
    BY <2>1 DEF vars, cache, signals, procs, client, OnItsWay
  <2>. QED
    BY <2>1, <2>2
<1>7. CASE UNCHANGED syncVars
  BY <1>7 DEF syncVars, vars, cache, signals, procs, client, OnItsWay
<1>. QED
  BY <1>1, <1>2, <1>3, <1>4, <1>5, <1>6, <1>7 DEF SyncNext

\* Where titles come through Get("Track") alone, a subscribed Extended Interface
\* radio never shows an old title in silence: for any number of refreshing and
\* fetching goroutines, any changes of subscription, and an index of any width.
THEOREM TitlesAreTold ==
    ASSUME "ext" \in Lingoes, \A has \in Replies : "Track" \notin has
    PROVE  SyncSpec => []NoSilentTitle
<1>. DEFINE Inv == TypeOK /\ RadioOK /\ TitleInv /\ NoSilentTitle /\ IndexSeen
<1>1. SyncInit => Inv
  <2>. SUFFICES ASSUME SyncInit PROVE Inv
    OBVIOUS
  <2>1. TypeOK /\ RadioOK
    BY TypeInit, RadioInit DEF SyncInit
  <2>2. TitleInv
    BY DEF SyncInit, Init, TitleInv, TitleKnown, Blank, Nothing
  <2>3. ~Subscribed("index")
    BY DEF SyncInit, Subscribed
  <2>. QED
    BY <2>1, <2>2, <2>3 DEF NoSilentTitle, IndexSeen
<1>2. Inv /\ [SyncNext]_syncVars => Inv'
  <2>. SUFFICES ASSUME Inv, [SyncNext]_syncVars PROVE Inv'
    OBVIOUS
  <2>1. [Next]_vars
    BY SyncSteps
  <2>. QED
    BY <2>1, TypeStep, TitleStep, RadioStep, SyncTitleStep
<1>3. Inv => NoSilentTitle
  OBVIOUS
<1>. QED
  BY <1>1, <1>2, <1>3, PTL DEF SyncSpec

-----------------------------------------------------------------------------
(* Play and pause. *)

LEMMA PlayStaysOnItsWay ==
    ASSUME TypeOK, SourceStep, OnItsWay("play")
    PROVE  OnItsWay("play")'
<1>. USE DEF OnItsWay, cache, signals, procs, client, world
<1>1. LocalsOK /\ SharedOK
  BY TypeSplit
<1>2. CASE \E p \in Procs : GetAll(p) \/ StartFetch(p) \/ Running(p)
  <2>1. PICK p \in Procs : GetAll(p) \/ StartFetch(p) \/ Running(p)
    BY <1>2
  <2>2. UNCHANGED mainPc
    BY <2>1 DEF GetAll, StartFetch, Running, Snapshot, Compare, Learn, Apply, GetSucceeds,
       GetFails, FetchSnapshot, FetchStore, Patch, StoreTrack, SendTrack, StorePlay, SendPlay
  <2>3. ASSUME NEW q \in Procs, pc[q] = "storePlay", q # p
        PROVE  pc'[q] = "storePlay"
    BY <1>1, <2>1, <2>3 DEF LocalsOK, GetAll, StartFetch, Running, Snapshot, Compare, Learn,
       Apply, GetSucceeds, GetFails, FetchSnapshot, FetchStore, Patch, StoreTrack, SendTrack,
       StorePlay, SendPlay, AfterTrack, Return, Leave, Continue, Goto
  <2>4. CASE StorePlay(p)
    BY <1>1, <2>4 DEF StorePlay, StoreFlag, SharedOK, Kinds
  <2>5. CASE pc[p] # "storePlay"
    <3>1. flag["play"] => flag'["play"]
      BY <1>1, <2>1, <2>5 DEF SharedOK, Kinds, GetAll, StartFetch, Running, Snapshot, Compare,
         Learn, Apply, GetSucceeds, GetFails, FetchSnapshot, FetchStore, Patch, StoreTrack,
         SendTrack, StorePlay, SendPlay, StoreFlag, NonBlockingSend
    <3>. QED
      BY <2>2, <2>3, <2>5, <3>1
  <2>. QED
    BY <2>1, <2>4, <2>5 DEF GetAll, StartFetch, Running, Snapshot, Compare, Learn, Apply,
       GetSucceeds, GetFails, FetchSnapshot, FetchStore, Patch, StoreTrack, SendTrack, SendPlay
<1>3. CASE \E m \in Methods : Call(m)
  BY <1>3 DEF Call
<1>4. CASE TakePlay
  BY <1>4 DEF TakePlay
<1>5. CASE Receive \/ FinishesCall \/ Environment
  BY <1>1, <1>5 DEF SharedOK, Kinds, Receive, FinishesCall, CallStore, CallSend, CallBusctl,
     StoreFlag, NonBlockingSend, Environment, PhoneEvent, BluezUpdate, GuardExpires
<1>. QED
  BY <1>2, <1>3, <1>4, <1>5 DEF SourceStep

\* A step of the source, as Next has it and with its memory of write-backs.
LEMMA SourceStepIsNext == SourceStep => Next /\ Remember
BY DEF SourceStep, Unseen, Next, ClientStep, TakesNotification

\* The play state stays the known one until a fetch writes another back, and is
\* the known one again when the next change is signalled.
LEMMA KnownStep ==
    ASSUME TypeOK, RadioOK, PlayingKnown, [SyncNext]_syncVars
    PROVE  PlayingKnown'
<1>1. CASE UNCHANGED <<state, lastKnownPlaying, writtenBack>>
  BY <1>1 DEF PlayingKnown
<1>2. CASE SourceStep
  <2>1. Next /\ Remember
    BY <1>2, SourceStepIsNext
  <2>2. CASE PlayKept
    BY <2>1, <2>2 DEF PlayKept, Remember, PlayingKnown
  <2>3. CASE PlayAgrees
    BY <2>3 DEF PlayAgrees, PlayingKnown
  <2>4. CASE WritesBack
    BY <2>1, <2>4 DEF Remember, PlayingKnown
  <2>. QED
    BY <2>1, <2>2, <2>3, <2>4, PlayChange
<1>3. CASE NotifyTrack \/ NotifyPlay
  BY <1>1, <1>3 DEF NotifyTrack, NotifyPlay, TakeTrack, ReadPlay, cache
<1>4. CASE (\E l \in Lingoes, m \in Masks : Subscribe(l, m)) \/ AnswerTitle \/ AnswerStatus
  BY <1>1, <1>4 DEF Subscribe, AnswerTitle, AnswerStatus, vars, cache
<1>5. CASE UNCHANGED syncVars
  BY <1>1, <1>5 DEF syncVars, vars, cache
<1>. QED
  BY <1>2, <1>3, <1>4, <1>5 DEF SyncNext

\* However many refreshes, fetches and commands interleave, and whatever the
\* replies carry, the play state that the car can read is the one last compared
\* and signalled, unless a fetch has written an old one back since.
THEOREM PlayingIsKnown == SyncSpec => []PlayingKnown
<1>1. SyncInit => PlayingKnown
  <2>. SUFFICES ASSUME SyncInit PROVE PlayingKnown
    OBVIOUS
  <2>1. state.playing = FALSE /\ lastKnownPlaying = FALSE
    BY DEF SyncInit, Init, Blank
  <2>. QED
    BY <2>1 DEF PlayingKnown
<1>2. TypeOK /\ RadioOK /\ PlayingKnown /\ [SyncNext]_syncVars => PlayingKnown'
  BY KnownStep
<1>3. SyncTypeOK => TypeOK /\ RadioOK
  BY DEF SyncTypeOK, RadioOK
<1>. QED
  BY <1>1, <1>2, <1>3, SyncTypeCorrect, PTL DEF SyncSpec

\* A new play state that no fetch wrote back has its notification on the way,
\* and so has one that makes up for a write-back.
LEMMA NewPlayIsOnItsWay ==
    ASSUME TypeOK, PlayingKnown, SourceStep, ~writtenBack',
           writtenBack \/ state'.playing # state.playing
    PROVE  OnItsWay("play")'
<1>1. Next /\ Remember
  BY SourceStepIsNext
<1>2. CASE Commands
  BY <1>2 DEF Commands, OnItsWay
<1>3. CASE ~Commands
  <2>1. ~WritesBack
    BY <1>1 DEF Remember
  <2>2. writtenBack => lastKnownPlaying' # lastKnownPlaying
    BY <1>1, <1>3 DEF Remember
  <2>3. ~PlayKept
    BY <2>2 DEF PlayKept
  <2>4. PlayAgrees
    BY <1>1, <2>1, <2>3, PlayChange
  <2>5. lastKnownPlaying' # lastKnownPlaying
    BY <2>2, <2>4 DEF PlayAgrees, PlayingKnown
  <2>. QED
    BY <1>3, <2>4, <2>5 DEF PlayAgrees, OnItsWay
<1>. QED
  BY <1>2, <1>3

LEMMA SyncPlayStep ==
    ASSUME TypeOK, RadioOK, PlayingKnown, NoSilentPlay, [SyncNext]_syncVars
    PROVE  NoSilentPlay'
<1>. USE DEF NoSilentPlay, Subscribed, session, radio
<1>1. CASE SourceStep
  BY <1>1, PlayStaysOnItsWay, NewPlayIsOnItsWay DEF SourceStep, Unseen
<1>2. CASE NotifyTrack
  <2>1. /\ TakeTrack /\ UNCHANGED <<mask, shown, writtenBack>>
        /\ "status" \in asks => "status" \in asks'
    BY <1>2 DEF NotifyTrack, SendTrackIndex
  <2>2. OnItsWay("play") => OnItsWay("play")'
    BY <2>1 DEF TakeTrack, OnItsWay, TypeOK, Kinds, procs
  <2>. QED
    BY <2>1, <2>2 DEF TakeTrack, cache
<1>3. CASE NotifyPlay
  BY <1>3 DEF NotifyPlay, ReadPlay, SendPlayStatus, cache, RadioOK, PlayState
<1>4. ASSUME NEW l \in Lingoes, NEW m \in Masks, Subscribe(l, m)
      PROVE  NoSilentPlay'
  <2>1. /\ UNCHANGED <<writtenBack, vars>>
        /\ asks' = asks \cup ReadsFirst(l, m)
        /\ mask' = [mask EXCEPT ![l] = m]
        /\ UNCHANGED <<state, OnItsWay("play")>>
    BY <1>4 DEF Subscribe, vars, cache, signals, procs, client, OnItsWay
  <2>2. CASE l = "ext" /\ "play" \in m
    BY <1>4, <2>1, <2>2 DEF Subscribe, RadioOK, PlayState
  <2>3. CASE l = "disp" /\ "play" \in m
    BY <2>1, <2>3 DEF ReadsFirst, Requests
  <2>4. CASE "play" \notin m
    <3>1. Subscribed("play")' => Subscribed("play")
      BY <2>1, <2>4 DEF RadioOK
    <3>2. shown'.playing = shown.playing
      BY <1>4, <2>4 DEF Subscribe, RadioOK, PlayState
    <3>. QED
      BY <2>1, <3>1, <3>2
  <2>. QED
    BY <2>2, <2>3, <2>4, RadioAssumption
<1>5. CASE AnswerTitle
  <2>1. /\ UNCHANGED <<mask, writtenBack, vars>>
        /\ shown'.playing = shown.playing
        /\ "status" \in asks => "status" \in asks'
    BY <1>5 DEF AnswerTitle, RadioOK, PlayState
  <2>2. UNCHANGED <<state, OnItsWay("play")>>
    BY <2>1 DEF vars, cache, signals, procs, client, OnItsWay
  <2>. QED
    BY <2>1, <2>2
<1>6. CASE AnswerStatus
  BY <1>6 DEF AnswerStatus, RadioOK, PlayState, vars, cache
<1>7. CASE UNCHANGED syncVars
  BY <1>7 DEF syncVars, vars, cache, signals, procs, client, OnItsWay
<1>. QED
  BY <1>1, <1>2, <1>3, <1>4, <1>5, <1>6, <1>7 DEF SyncNext

\* A subscribed radio, in either lingo or both, never shows an old play state in
\* silence unless a fetch has written one back since the last change that was
\* signalled: for any number of refreshes, fetches, commands of its own and
\* changes of subscription, and whatever the replies carry.
THEOREM PlayIsTold == SyncSpec => []NoSilentPlay
<1>1. SyncInit => NoSilentPlay
  BY DEF SyncInit, Subscribed, NoSilentPlay
<1>2. TypeOK /\ RadioOK /\ PlayingKnown /\ NoSilentPlay /\ [SyncNext]_syncVars => NoSilentPlay'
  BY SyncPlayStep
<1>3. SyncTypeOK => TypeOK /\ RadioOK
  BY DEF SyncTypeOK, RadioOK
<1>. QED
  BY <1>1, <1>2, <1>3, SyncTypeCorrect, PlayingIsKnown, PTL DEF SyncSpec
=============================================================================
