------------------------------- MODULE Messages -------------------------------
(***************************************************************************)
(* The messages of the lingoes, as far as CommandSerde can tell them apart: *)
(* for every command the sizes of the types registered for it, in the order *)
(* of registration.  A command goes by the name of its first type.          *)
(*                                                                         *)
(* Then what the handlers answer: for every request the command of the      *)
(* last answer to it, and whether there may be none.                       *)
(***************************************************************************)
EXTENDS CommandSerde, TLC

\* Lingo 0x00, by parts of its file.
GeneralDevice ==
    [RequestIdentify |-> <<0>>, Identify |-> <<Parsed>>, ACK |-> <<2, 6, 8>>,
     RequestRemoteUIMode |-> <<0>>, ReturnRemoteUIMode |-> <<1>>,
     EnterRemoteUIMode |-> <<0>>, ExitRemoteUIMode |-> <<0>>,
     RequestiPodName |-> <<0>>, ReturniPodName |-> <<Custom>>,
     RequestiPodSoftwareVersion |-> <<0>>, ReturniPodSoftwareVersion |-> <<3>>,
     RequestiPodSerialNum |-> <<0>>, ReturniPodSerialNum |-> <<Custom>>,
     RequestiPodModelNum |-> <<0>>, ReturniPodModelNum |-> <<Custom>>,
     RequestLingoProtocolVersion |-> <<1>>, ReturnLingoProtocolVersion |-> <<3>>,
     RequestTransportMaxPayloadSize |-> <<0>>, ReturnTransportMaxPayloadSize |-> <<2>>]

GeneralAuthentication ==
    [IdentifyDeviceLingoes |-> <<12>>,
     GetDevAuthenticationInfo |-> <<0>>, RetDevAuthenticationInfo |-> <<Custom>>,
     AckDevAuthenticationInfo |-> <<1>>,
     GetDevAuthenticationSignatureV1 |-> <<17, 21>>,
     RetDevAuthenticationSignature |-> <<Parsed>>, AckDevAuthenticationStatus |-> <<1>>,
     GetiPodAuthenticationInfo |-> <<0>>, RetiPodAuthenticationInfo |-> <<Opaque>>,
     AckiPodAuthenticationInfo |-> <<1>>,
     GetiPodAuthenticationSignature |-> <<21>>, RetiPodAuthenticationSignature |-> <<20>>,
     AckiPodAuthenticationStatus |-> <<1>>]

GeneralState ==
    [NotifyiPodStateChange |-> <<1>>, GetiPodOptions |-> <<0>>, RetiPodOptions |-> <<8>>,
     GetAccessoryInfo |-> <<1>>, RetAccessoryInfo |-> <<Opaque>>,
     GetiPodPreferences |-> <<1>>, RetiPodPreferences |-> <<2>>, SetiPodPreferences |-> <<3>>,
     GetUIMode |-> <<0>>, RetUIMode |-> <<1>>, SetUIMode |-> <<1>>, StartIDPS |-> <<0>>]

GeneralTokens ==
    [SetFIDTokenValues |-> <<Custom>>, RetFIDTokenValueACKs |-> <<Custom>>]

GeneralSession ==
    [EndIDPS |-> <<1>>, IDPSStatus |-> <<1>>,
     OpenDataSessionForProtocol |-> <<3>>, CloseDataSession |-> <<2>>, DevACK |-> <<2>>,
     DevDataTransfer |-> <<Opaque>>, IPodDataTransfer |-> <<Opaque>>,
     SetAccStatusNotification |-> <<4>>, RetAccStatusNotification |-> <<4>>,
     AccessoryStatusNotification |-> <<Opaque>>,
     SetEventNotification |-> <<8>>, IPodNotification |-> <<Opaque>>,
     GetiPodOptionsForLingo |-> <<1>>, RetiPodOptionsForLingo |-> <<9>>,
     GetEventNotification |-> <<0>>, RetEventNotification |-> <<8>>,
     GetSupportedEventNotification |-> <<0>>, CancelCommand |-> <<5>>,
     RetSupportedEventNotification |-> <<8>>, SetAvailableCurrent |-> <<2>>,
     RequestApplicationLaunch |-> <<Parsed>>,
     GetNowPlayingFocusApp |-> <<0>>, RetNowPlayingFocusApp |-> <<Opaque>>]

General ==
    GeneralDevice @@ GeneralAuthentication @@ GeneralState @@ GeneralTokens @@ GeneralSession

\* Lingo 0x02.  No handler is called for it.
SimpleButtons ==
    [ContextButtonStatus |-> <<Custom>>, ACK |-> <<0>>, VideoButtonStatus |-> <<Custom>>,
     AudioButtonStatus |-> <<Custom>>, iPodOutButtonStatus |-> <<1>>]
SimpleRemote ==
    [c \in {"RotationInputStatus", "RadioButtonStatus", "CameraButtonStatus",
            "RegisterDescriptor", "SendHIDReportToiPod", "SendHIDReportToAcc",
            "UnregisterDescriptor", "AccessibilityEvent", "GetAccessibilityParameter",
            "RetAccessibilityParameter", "SetAccessibilityParameter",
            "GetCurrentItemProperty", "RetCurrentItemProperty", "SetContext",
            "AccParameterChanged", "DevACK"} |-> <<0>>] @@ SimpleButtons

\* Lingo 0x03.
DisplayEvents ==
    [ACK |-> <<2>>, GetCurrentEQProfileIndex |-> <<0>>, RetCurrentEQProfileIndex |-> <<4>>,
     SetCurrentEQProfileIndex |-> <<5>>, GetNumEQProfiles |-> <<0>>,
     RetNumEQProfiles |-> <<4>>, GetIndexedEQProfileName |-> <<4>>,
     RetIndexedEQProfileName |-> <<Opaque>>, SetRemoteEventNotification |-> <<4>>,
     RemoteEventNotification |-> <<Built>>, GetRemoteEventStatus |-> <<0>>,
     RetRemoteEventStatus |-> <<4>>]

DisplayState ==
    [GetiPodStateInfo |-> <<1>>, RetiPodStateInfo |-> <<Custom>>, SetiPodStateInfo |-> <<2>>,
     GetPlayStatus |-> <<0>>, RetPlayStatus |-> <<13>>, SetCurrentPlayingTrack |-> <<4>>]

DisplayTrack ==
    [GetIndexedPlayingTrackInfo |-> <<7>>, RetIndexedPlayingTrackInfo |-> <<Custom>>,
     GetNumPlayingTracks |-> <<0>>, RetNumPlayingTracks |-> <<4>>]

DisplayArtwork ==
    [GetArtworkFormats |-> <<0>>, RetArtworkFormats |-> <<Custom>>,
     GetTrackArtworkData |-> <<10>>, RetTrackArtworkData |-> <<Opaque>>,
     GetPowerBatteryState |-> <<0>>, RetPowerBatteryState |-> <<2>>,
     GetSoundCheckState |-> <<0>>, RetSoundCheckState |-> <<1>>, SetSoundCheckState |-> <<2>>,
     GetTrackArtworkTimes |-> <<10>>, RetTrackArtworkTimes |-> <<Custom>>]

DisplayRemote == DisplayEvents @@ DisplayState @@ DisplayTrack @@ DisplayArtwork

\* Lingo 0x04.
ExtPlaying ==
    [ACK |-> <<3>>, GetCurrentPlayingTrackChapterInfo |-> <<0>>,
     ReturnCurrentPlayingTrackChapterInfo |-> <<8>>, SetCurrentPlayingTrackChapter |-> <<4>>,
     GetCurrentPlayingTrackChapterPlayStatus |-> <<4>>,
     ReturnCurrentPlayingTrackChapterPlayStatus |-> <<8>>,
     GetCurrentPlayingTrackChapterName |-> <<4>>,
     ReturnCurrentPlayingTrackChapterName |-> <<Opaque>>,
     GetAudiobookSpeed |-> <<0>>, ReturnAudiobookSpeed |-> <<1>>, SetAudiobookSpeed |-> <<1>>,
     GetIndexedPlayingTrackInfo |-> <<7>>, ReturnIndexedPlayingTrackInfo |-> <<Custom>>,
     GetArtworkFormats |-> <<0>>, RetArtworkFormats |-> <<Custom>>]

ExtDatabase ==
    [GetTrackArtworkData |-> <<10>>, RetTrackArtworkData |-> <<Opaque>>,
     RequestiPodName |-> <<0>>, ReturniPodName |-> <<Custom>>, ResetDBSelection |-> <<0>>,
     SelectDBRecord |-> <<5>>, GetNumberCategorizedDBRecords |-> <<1>>,
     ReturnNumberCategorizedDBRecords |-> <<4>>, RetrieveCategorizedDatabaseRecords |-> <<9>>,
     ReturnCategorizedDatabaseRecord |-> <<20>>, GetPlayStatus |-> <<0>>,
     ReturnPlayStatus |-> <<9>>, GetCurrentPlayingTrackIndex |-> <<0>>,
     ReturnCurrentPlayingTrackIndex |-> <<4>>, GetIndexedPlayingTrackTitle |-> <<4>>,
     ReturnIndexedPlayingTrackTitle |-> <<Custom>>, GetIndexedPlayingTrackArtistName |-> <<4>>,
     ReturnIndexedPlayingTrackArtistName |-> <<Custom>>,
     GetIndexedPlayingTrackAlbumName |-> <<4>>,
     ReturnIndexedPlayingTrackAlbumName |-> <<Custom>>]

\* PlayStatusChangeNotification is also registered as ...TrackIndex, ...Extended
\* and ...Position, in this order.
ExtControl ==
    [SetPlayStatusChangeNotification |-> <<4, 1>>,
     PlayStatusChangeNotification |-> <<2, 5, 2, 5>>,
     PlayCurrentSelection |-> <<4>>, PlayControl |-> <<1>>, GetTrackArtworkTimes |-> <<10>>,
     RetTrackArtworkTimes |-> <<0>>, GetShuffle |-> <<0>>, ReturnShuffle |-> <<1>>,
     SetShuffle |-> <<1>>, GetRepeat |-> <<0>>, ReturnRepeat |-> <<1>>, SetRepeat |-> <<1>>,
     SetDisplayImage |-> <<0>>, GetMonoDisplayImageLimits |-> <<0>>,
     ReturnMonoDisplayImageLimits |-> <<5>>, GetNumPlayingTracks |-> <<0>>,
     ReturnNumPlayingTracks |-> <<4>>, SetCurrentPlayingTrack |-> <<4>>]

ExtDisplay ==
    [c \in {"GetDBiTunesInfo", "RetDBiTunesInfo", "GetUIDTrackInfo", "RetUIDTrackInfo",
            "GetDBTrackInfo", "RetDBTrackInfo", "GetPBTrackInfo", "RetPBTrackInfo"} |-> <<0>>] @@
    [SelectSortDBRecord |-> <<6>>, GetColorDisplayImageLimits |-> <<0>>,
     ReturnColorDisplayImageLimits |-> <<5>>, ResetDBSelectionHierarchy |-> <<1>>]

ExtRemote == ExtPlaying @@ ExtDatabase @@ ExtControl @@ ExtDisplay

\* Lingo 0x0A.
DigitalAudio ==
    [AccAck |-> <<2>>, iPodAck |-> <<2>>, GetAccSampleRateCaps |-> <<0>>,
     RetAccSampleRateCaps |-> <<Custom>>, NewiPodTrackInfo |-> <<12>>, SetVideoDelay |-> <<4>>]

\* mIDToType.
Registered ==
    [General |-> General, SimpleRemote |-> SimpleRemote, DisplayRemote |-> DisplayRemote,
     ExtRemote |-> ExtRemote, DigitalAudio |-> DigitalAudio]
Lingoes == {"General", "SimpleRemote", "DisplayRemote", "ExtRemote", "DigitalAudio"}

\* RegisterLingos.
ASSUME RegisteredAssumption ==
    /\ DOMAIN Registered = Lingoes
    /\ \A lingo \in Lingoes : \A id \in DOMAIN Registered[lingo] :
         Registered[lingo][id] \in Seq(Opaque..25) \ {<<>>}

Sizes(lingo, id) ==
    IF id \in DOMAIN Registered[lingo] THEN Registered[lingo][id] ELSE <<>>

-----------------------------------------------------------------------------
(* The handlers' answers. *)

Acked(S) == [c \in S |-> "ACK"]

\* HandleGeneral.  The change of UI mode is in Session.
GeneralDeviceAnswers ==
    Acked({"EnterRemoteUIMode", "ExitRemoteUIMode", "Identify", "IdentifyDeviceLingoes"}) @@
    [RequestRemoteUIMode |-> "ReturnRemoteUIMode", RequestiPodName |-> "ReturniPodName",
     RequestiPodSoftwareVersion |-> "ReturniPodSoftwareVersion",
     RequestiPodSerialNum |-> "ReturniPodSerialNum",
     RequestiPodModelNum |-> "ReturniPodModelNum",
     RequestLingoProtocolVersion |-> "ReturnLingoProtocolVersion",
     RequestTransportMaxPayloadSize |-> "ReturnTransportMaxPayloadSize"]

\* What the certificate's sections are answered is in Handshake.
GeneralAuthAnswers ==
    [RetDevAuthenticationInfo |-> "AckDevAuthenticationInfo",
     GetDevAuthenticationInfo |-> "RetDevAuthenticationInfo",
     RetDevAuthenticationSignature |-> "AckDevAuthenticationStatus",
     GetDevAuthenticationSignatureV1 |-> "RetDevAuthenticationSignature",
     GetiPodAuthenticationInfo |-> "RetiPodAuthenticationInfo",
     GetiPodAuthenticationSignature |-> "RetiPodAuthenticationSignature"]

GeneralStateAnswers ==
    Acked({"SetiPodPreferences", "SetUIMode", "StartIDPS", "SetEventNotification",
           "CancelCommand", "SetAvailableCurrent", "RequestApplicationLaunch"}) @@
    [GetiPodOptions |-> "RetiPodOptions", GetiPodPreferences |-> "RetiPodPreferences",
     GetUIMode |-> "RetUIMode", SetFIDTokenValues |-> "RetFIDTokenValueACKs",
     EndIDPS |-> "IDPSStatus", GetiPodOptionsForLingo |-> "RetiPodOptionsForLingo",
     GetEventNotification |-> "RetEventNotification",
     GetSupportedEventNotification |-> "RetSupportedEventNotification",
     GetNowPlayingFocusApp |-> "RetNowPlayingFocusApp"]

\* DispRemoteHandler.Handle.
DisplayStateAnswers ==
    Acked({"SetCurrentEQProfileIndex", "SetRemoteEventNotification", "SetiPodStateInfo"}) @@
    [GetCurrentEQProfileIndex |-> "RetCurrentEQProfileIndex",
     GetNumEQProfiles |-> "RetNumEQProfiles",
     GetIndexedEQProfileName |-> "RetIndexedEQProfileName",
     GetRemoteEventStatus |-> "RetRemoteEventStatus", GetiPodStateInfo |-> "RetiPodStateInfo"]

DisplayTrackAnswers ==
    Acked({"SetCurrentPlayingTrack", "SetSoundCheckState"}) @@
    [GetPlayStatus |-> "RetPlayStatus",
     GetIndexedPlayingTrackInfo |-> "RetIndexedPlayingTrackInfo",
     GetNumPlayingTracks |-> "RetNumPlayingTracks", GetArtworkFormats |-> "RetArtworkFormats",
     GetPowerBatteryState |-> "RetPowerBatteryState",
     GetSoundCheckState |-> "RetSoundCheckState",
     GetTrackArtworkTimes |-> "RetTrackArtworkTimes"]

\* ExtRemoteHandler.Handle.
ExtBrowseAnswers ==
    Acked({"SetCurrentPlayingTrackChapter", "SetAudiobookSpeed", "GetTrackArtworkData",
           "ResetDBSelection", "SelectDBRecord"}) @@
    [GetCurrentPlayingTrackChapterInfo |-> "ReturnCurrentPlayingTrackChapterInfo",
     GetCurrentPlayingTrackChapterPlayStatus |-> "ReturnCurrentPlayingTrackChapterPlayStatus",
     GetCurrentPlayingTrackChapterName |-> "ReturnCurrentPlayingTrackChapterName",
     GetAudiobookSpeed |-> "ReturnAudiobookSpeed",
     GetIndexedPlayingTrackInfo |-> "ReturnIndexedPlayingTrackInfo",
     GetArtworkFormats |-> "RetArtworkFormats",
     GetNumberCategorizedDBRecords |-> "ReturnNumberCategorizedDBRecords",
     RetrieveCategorizedDatabaseRecords |-> "ReturnCategorizedDatabaseRecord"]

ExtPlayAnswers ==
    Acked({"SetPlayStatusChangeNotification", "PlayCurrentSelection", "PlayControl"}) @@
    [GetPlayStatus |-> "ReturnPlayStatus",
     GetCurrentPlayingTrackIndex |-> "ReturnCurrentPlayingTrackIndex",
     GetIndexedPlayingTrackTitle |-> "ReturnIndexedPlayingTrackTitle",
     GetIndexedPlayingTrackArtistName |-> "ReturnIndexedPlayingTrackArtistName",
     GetIndexedPlayingTrackAlbumName |-> "ReturnIndexedPlayingTrackAlbumName"]

ExtDisplayAnswers ==
    Acked({"SetShuffle", "SetRepeat", "SetDisplayImage", "SetCurrentPlayingTrack",
           "SelectSortDBRecord", "ResetDBSelectionHierarchy"}) @@
    [GetTrackArtworkTimes |-> "RetTrackArtworkTimes", GetShuffle |-> "ReturnShuffle",
     GetRepeat |-> "ReturnRepeat", GetNumPlayingTracks |-> "ReturnNumPlayingTracks",
     GetMonoDisplayImageLimits |-> "ReturnMonoDisplayImageLimits",
     GetColorDisplayImageLimits |-> "ReturnColorDisplayImageLimits"]

\* HandleAudio.
AudioAnswers ==
    [c \in {"RetAccSampleRateCaps", "NewiPodTrackInfo", "SetVideoDelay"} |-> "AccAck"]

\* handlePacket.
Answers ==
    [General |-> GeneralDeviceAnswers @@ GeneralAuthAnswers @@ GeneralStateAnswers,
     SimpleRemote |-> Acked({}), DisplayRemote |-> DisplayStateAnswers @@ DisplayTrackAnswers,
     ExtRemote |-> ExtBrowseAnswers @@ ExtPlayAnswers @@ ExtDisplayAnswers,
     DigitalAudio |-> AudioAnswers]

\* Whether these are answered depends on what they ask: EndIDPS for a new link
\* and a kind of information that is not known have no answer.
ByArgument ==
    {<<"General", "EndIDPS">>, <<"DisplayRemote", "GetiPodStateInfo">>,
     <<"DisplayRemote", "GetIndexedPlayingTrackInfo">>}

\* Answers are of the lingo of their request; the General lingo has the one to an
\* unknown command.
ASSUME AnswersAssumption ==
    /\ DOMAIN Answers = Lingoes
    /\ "ACK" \in DOMAIN Registered["General"]
    /\ \A m \in ByArgument : m[2] \in DOMAIN Answers[m[1]]
    /\ \A lingo \in Lingoes : \A id \in DOMAIN Answers[lingo] :
         /\ id \in DOMAIN Registered[lingo]
         /\ Answers[lingo][id] \in DOMAIN Registered[lingo]

\* Of the types of a request, the handlers leave this one out.
Unhandled == {<<"GetDevAuthenticationSignatureV1", 1>>}

\* What Respond and Send are called with that Answers does not have.
Unasked ==
    {<<"General", "ACK", 2>>, <<"General", "RequestIdentify", 1>>,
     <<"General", "GetDevAuthenticationInfo", 1>>,
     <<"General", "GetDevAuthenticationSignatureV1", 2>>,
     <<"DisplayRemote", "RemoteEventNotification", 1>>,
     <<"ExtRemote", "PlayStatusChangeNotification", 2>>,
     <<"ExtRemote", "PlayStatusChangeNotification", 3>>,
     <<"ExtRemote", "PlayStatusChangeNotification", 4>>,
     <<"DigitalAudio", "GetAccSampleRateCaps", 1>>,
     <<"DigitalAudio", "NewiPodTrackInfo", 1>>}

-----------------------------------------------------------------------------
(* What is understood. *)

Requests ==
    UNION {UNION {{<<lingo, id, i>> : i \in DOMAIN Sizes(lingo, id)} :
                    id \in DOMAIN Answers[lingo]} : lingo \in Lingoes}
Sent ==
    Unasked \cup
    UNION {{<<lingo, Answers[lingo][id], 1>> : id \in DOMAIN Answers[lingo]} :
             lingo \in Lingoes}

\* A message is told from its packet in a session with or without transactions;
\* one without a fixed size, if the packet has what the session has.
Understood(m, enabled) ==
    LET sizes == Sizes(m[1], m[2])
    IN IF Fixed(sizes[m[3]])
       THEN \A trx \in BOOLEAN : ReadsBack(sizes, m[3], sizes[m[3]], trx, enabled)
       ELSE \A n \in 0..25 : ReadsBack(sizes, m[3], n, enabled, enabled)
UnderstoodIf ==
    [enabled \in BOOLEAN |-> {m \in Requests \cup Sent : Understood(m, enabled)}]

\* The answers that binary.Write refuses: their slices have no MarshalBinary.
Unwritten ==
    {<<"General", "RetDevAuthenticationSignature", 1>>,
     <<"General", "RetiPodAuthenticationInfo", 1>>,
     <<"General", "RetNowPlayingFocusApp", 1>>,
     <<"DisplayRemote", "RetIndexedEQProfileName", 1>>,
     <<"ExtRemote", "ReturnCurrentPlayingTrackChapterName", 1>>}

\* The notifications that are as long as an earlier type of theirs, and what has
\* no UnmarshalBinary.
Misread ==
    {<<"ExtRemote", "PlayStatusChangeNotification", 3>>,
     <<"ExtRemote", "PlayStatusChangeNotification", 4>>,
     <<"DisplayRemote", "RemoteEventNotification", 1>>}
    \cup (Unwritten \ {<<"General", "RetDevAuthenticationSignature", 1>>})
=============================================================================
