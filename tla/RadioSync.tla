------------------------------ MODULE RadioSync ------------------------------
(***************************************************************************)
(* What the car radio shows against what avrcp.Source holds: the notify    *)
(* branch of the main loop, the subscriptions of the Extended Interface    *)
(* ("ext", lingo 0x04) and Display Remote ("disp", lingo 0x03) handlers,   *)
(* their track index, and a radio that re-reads the title when it is told  *)
(* of an index it has not seen.                                            *)
(*                                                                         *)
(* The radio's requests and the notifications travel in order on one link, *)
(* so an answer and a notification reach it in the step that writes them.  *)
(***************************************************************************)
EXTENDS AvrcpSource

CONSTANTS
    Lingoes,       \* the lingoes the radio uses: "ext", "disp"
    Masks,         \* the event masks it may subscribe with
    IndexLimit     \* the track index wraps here (2^32 in the code)

Events == {"play", "index"}

ASSUME RadioAssumption ==
    /\ Lingoes \subseteq {"ext", "disp"}
    /\ Masks \subseteq SUBSET Events
    /\ IndexLimit \in Nat \ {0, 1}

VARIABLES
    mask,          \* extNotifyState.notifyMask, dispNotifyState.eventMask
    trackIndex,    \* ExtRemoteHandler.trackIndex, DispRemoteHandler.trackIndex
    asks,          \* requests of the radio not yet served (external)
    shown,         \* the title and play state on its display (external)
    seen,          \* the last track index it was told of (external)
    writtenBack    \* history: fetchTrack stored an old play state, see Remember

session == <<mask, trackIndex>>
radio == <<asks, shown, seen>>
syncVars == <<vars, session, radio, writtenBack>>

Requests == {"title", "status"}

SyncInit ==
    /\ Init
    /\ mask = [l \in Lingoes |-> {}]
    /\ trackIndex = 0
    /\ asks = {}
    /\ shown = Blank
    /\ seen = 0
    /\ writtenBack = FALSE

Subscribed(e) == \E l \in Lingoes : e \in mask[l]

-----------------------------------------------------------------------------
(* The radio. *)

\* What the radio reads for its display when it subscribes (external).
ReadsFirst(l, m) ==
    {r \in Requests : IF r = "title" THEN "index" \in m ELSE l = "disp" /\ "play" \in m}

\* SetPlayStatusChangeNotification (four-byte and one-byte form) and
\* SetRemoteEventNotification.  The Extended Interface answers with the
\* current play state at once if it was subscribed to; the radio of a Display
\* Remote session asks for it.
Subscribe(l, m) ==
    /\ mainPc = "select"
    /\ mask' = [mask EXCEPT ![l] = m]
    /\ shown' = [shown EXCEPT !.playing = IF l = "ext" /\ "play" \in m THEN state.playing ELSE @]
    /\ asks' = asks \cup ReadsFirst(l, m)
    /\ UNCHANGED <<trackIndex, seen, writtenBack, vars>>

\* GetCurrentPlayingTrackIndex and GetIndexedPlayingTrackTitle, or
\* GetiPodStateInfo and GetIndexedPlayingTrackInfo.  The latter's answer has no
\* title in it: binary.Write refuses the []byte of TrackInfoTrack, and
\* RetIndexedPlayingTrackInfo.MarshalBinary ignores the error.
AnswerTitle ==
    /\ mainPc = "select"
    /\ "title" \in asks
    /\ asks' = asks \ {"title"}
    /\ shown' = [shown EXCEPT !.title = IF "ext" \in Lingoes THEN state.title ELSE @]
    /\ seen' = trackIndex
    /\ UNCHANGED <<session, writtenBack, vars>>

\* GetPlayStatus.
AnswerStatus ==
    /\ mainPc = "select"
    /\ "status" \in asks
    /\ asks' = asks \ {"status"}
    /\ shown' = [shown EXCEPT !.playing = state.playing]
    /\ UNCHANGED <<session, seen, writtenBack, vars>>

-----------------------------------------------------------------------------
(* `case <-notifyCh' of the main loop. *)

\* Mutation of OnTrackChanged: the index stays where it is.
OnTrackChangedForgotten == trackIndex

\* Mutation of OnTrackChanged: a counter that does not wrap.
OnTrackChangedUnwrapped == trackIndex + 1

\* The index that OnTrackChanged leaves behind.
OnTrackChanged == (trackIndex + 1) % IndexLimit

\* SendTrackIndex: a radio told of a new index reads the title again.
SendTrackIndex(index) ==
    IF Subscribed("index")
    THEN /\ seen' = index
         /\ asks' = IF index = seen THEN asks ELSE asks \cup {"title"}
    ELSE UNCHANGED <<seen, asks>>

NotifyTrack ==
    /\ TakeTrack
    /\ IF flag["track"]
       THEN /\ trackIndex' = OnTrackChanged
            /\ SendTrackIndex(trackIndex')
            /\ UNCHANGED <<mask, shown>>
       ELSE UNCHANGED <<session, radio>>
    /\ UNCHANGED writtenBack

\* Mutation of SendPlayStatus: only playing is reported.
SendPlayingOnly ==
    shown' = IF Subscribed("play") /\ state.playing
             THEN [shown EXCEPT !.playing = TRUE] ELSE shown

SendPlayStatus ==
    shown' = IF Subscribed("play") THEN [shown EXCEPT !.playing = state.playing] ELSE shown

NotifyPlay ==
    /\ ReadPlay
    /\ SendPlayStatus
    /\ UNCHANGED <<session, asks, seen, writtenBack>>

-----------------------------------------------------------------------------
\* A play state that fetchTrack wrote back is remembered until the next change
\* that is signalled: one that a refresh finds or a command makes.
Remember ==
    writtenBack' = \/ WritesBack
                   \/ writtenBack /\ ~Commands /\ UNCHANGED lastKnownPlaying

\* A step of the source that the radio does not see.
Unseen == UNCHANGED <<session, radio>> /\ Remember

SourceStep ==
    /\ \/ \E p \in Procs : GetAll(p) \/ StartFetch(p) \/ Running(p)
       \/ \E m \in Methods : Call(m)
       \/ Receive \/ TakePlay \/ FinishesCall
       \/ Environment
    /\ Unseen

SyncNext ==
    \/ SourceStep
    \/ NotifyTrack \/ NotifyPlay
    \/ \E l \in Lingoes, m \in Masks : Subscribe(l, m)
    \/ AnswerTitle \/ AnswerStatus

\* The main loop's select serves a ready channel among others that are ready
\* again and again (strong fairness: Go picks at random), and otherwise runs
\* each branch to its end.  BlueZ does not refuse every Get("Track").
SyncFairness ==
    /\ WF_syncVars(GetAll(Poller) /\ Unseen)
    /\ \A p \in Procs : WF_syncVars(Running(p) /\ Unseen)
    /\ SF_syncVars(GetSucceeds(Poller) /\ Unseen)
    /\ SF_syncVars(Receive /\ Unseen)
    /\ WF_syncVars((TakePlay \/ FinishesCall) /\ Unseen)
    /\ WF_syncVars(NotifyTrack \/ NotifyPlay)
    /\ SF_syncVars(AnswerTitle) /\ SF_syncVars(AnswerStatus)
    /\ WF_syncVars(BluezUpdate /\ Unseen)
    /\ WF_syncVars(GuardExpires /\ Unseen)

SyncSpec == SyncInit /\ [][SyncNext]_syncVars
FairSyncSpec == SyncSpec /\ SyncFairness

-----------------------------------------------------------------------------
(* Correctness. *)

\* Every variable has its type; the track index stays in its 32 bits.
SyncTypeOK ==
    /\ TypeOK
    /\ mask \in [Lingoes -> SUBSET Events]
    /\ trackIndex \in 0..(IndexLimit - 1)
    /\ asks \in SUBSET Requests
    /\ shown \in PlayState
    /\ seen \in 0..(IndexLimit - 1)
    /\ writtenBack \in BOOLEAN

\* A change of this kind is on its way to the radio: raised, about to be
\* raised, or taken by a main loop that has not yet sent it.
OnItsWay(k) ==
    \/ flag[k]
    \/ \E p \in Procs : pc[p] = (IF k = "track" THEN "storeTrack" ELSE "storePlay")
    \/ k = "play" /\ mainPc \in {"readPlay", "callStore"}

\* A subscribed radio never shows, silently, a title that is not the cached
\* one: a notification or a request of the radio is on its way.  (main.go's
\* "push TrackIndexChanged so the car refreshes its display".)
NoSilentTitle ==
    Subscribed("index") /\ shown.title # state.title => OnItsWay("track") \/ "title" \in asks

\* The play state that IsPlaying() returns is the one last compared and
\* signalled, however refreshes, fetches and commands interleave and whatever
\* their replies carry, unless a fetch has written an old one back.
PlayingKnown == writtenBack \/ state.playing = lastKnownPlaying

\* The same as NoSilentTitle for the play state ("so the radio reflects
\* phone-side pause/resume immediately (2-way sync)"), until a fetch writes an
\* old one back: what the next poll repairs is not signalled.
NoSilentPlay ==
    Subscribed("play") /\ shown.playing # state.playing =>
        OnItsWay("play") \/ "status" \in asks \/ writtenBack

\* Invalidations of Track and changes of subscription come to an end.
Settles ==
    /\ <>[](\A f \in Fetchers : pc[f] = "idle")
    /\ <>[][UNCHANGED mask]_syncVars

\* Once all is left alone, a subscribed radio ends up showing the phone's title.
RadioShowsTitle ==
    Settles => <>[](Subscribed("index") => shown.title = phone.title)

\* Once all is left alone, IsPlaying() ends up telling what the phone does,
\* whatever was written back in between, and so does a subscribed radio, unless
\* an old state was written back after the last change that was signalled.
RadioShowsPlay ==
    Settles => <>[](/\ state.playing = phone.playing
                    /\ Subscribed("play") => shown.playing = phone.playing \/ writtenBack)
=============================================================================
