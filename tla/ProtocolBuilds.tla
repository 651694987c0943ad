--------------------------- MODULE ProtocolBuilds ---------------------------
(***************************************************************************)
(* The protocol tables that the repository holds, one Python file for each *)
(* build of the game, tools/S2ProtocolJsonGenerator/Resources/versions.    *)
(* Of a table of types the tagged sections are given as trees: a decoder   *)
(* of another build may read them.  The bit-packed sections can only be    *)
(* read with the very table that wrote them, so the rest of a table is     *)
(* known by the first build that has it (its revision).  Of a table of     *)
(* events the names are given, and the types by revision.  A table that an *)
(* older file already had is stated as that one.  Names of events are      *)
(* given without their NNet.Game or NNet.Replay.Tracker.                   *)
(***************************************************************************)
EXTENDS Integers, Sequences, TLC

(* Python's None: the build has no such type.                              *)
None == -1

Plain(kind)   == [kind |-> kind, item |-> <<>>, fields |-> <<>>]
Array(t)      == [Plain("_array") EXCEPT !.item = <<t>>]
Optional(t)   == [Plain("_optional") EXCEPT !.item = <<t>>]
Struct(f)     == [Plain("_struct") EXCEPT !.fields = f]
Field(n, t)   == [name |-> n, type |-> t]

(* A field's place is its tag: the tags of all these structs are 0, 1, ... *)
More(t, f)    == [t EXCEPT !.fields = @ \o f]

TypeInfos(r, h, d, t) ==
  [revision |-> r, header |-> h, details |-> d, tracker |-> t]

Events(r, names) == [typeids |-> r, names |-> names]

Without(names, ids) == [i \in DOMAIN names \ ids |-> names[i]]

int    == Plain("_int")
blob   == Plain("_blob")
bool   == Plain("_bool")
fourcc == Plain("_fourcc")

(* "<<>> \o" has TLC tabulate the sequence.                                *)
Ints(names)  == <<>> \o [i \in DOMAIN names |-> Field(names[i], int)]

-----------------------------------------------------------------------------
(* NNet.Replay.SHeader                                                     *)

header15405 ==
  Struct(<< Field("m_signature", blob),
            Field("m_version", Struct(Ints(<<"m_flags", "m_major", "m_minor",
                              "m_revision", "m_build", "m_baseBuild">>))),
            Field("m_type", int), Field("m_elapsedGameLoops", int) >>)

header26490 == More(header15405, << Field("m_useScaledTime", bool) >>)

md5 == Struct(<< Field("m_dataDeprecated", Optional(Array(int))),
                 Field("m_data", blob) >>)

(* Bug: the new fields are the first.                                      *)
header51702Shifted ==
  More(Struct(<< Field("m_ngdpRootKey", md5), Field("m_dataBuildNum", int) >>),
       header26490.fields)

header51702 ==
  More(header26490, << Field("m_ngdpRootKey", md5),
                       Field("m_dataBuildNum", int),
                       Field("m_replayCompatibilityHash", md5),
                       Field("m_ngdpRootKeyIsDevData", bool) >>)

-----------------------------------------------------------------------------
(* NNet.Game.SDetails.  The list of players is its first field.            *)

toon15405 == Struct(<< Field("m_region", int), Field("m_programId", fourcc),
                       Field("m_realm", int), Field("m_name", blob) >>)

toon16561 == More(toon15405, << Field("m_id", int) >>)

player(toon) ==
  Struct(<< Field("m_name", blob), Field("m_toon", toon),
            Field("m_race", blob),
            Field("m_color", Struct(Ints(<<"m_a", "m_r", "m_g", "m_b">>))) >>
         \o Ints(<<"m_control", "m_teamId", "m_handicap", "m_observe",
                   "m_result">>))

player15405 == player(toon15405)
player16561 == player(toon16561)
player24944 == More(player16561, << Field("m_workingSetSlotId", Optional(int)) >>)
player51702 == More(player24944, << Field("m_hero", blob) >>)

Players(t) == Field("m_playerList", Optional(Array(t)))

details15405 ==
  Struct(<< Players(player15405),
            Field("m_title", blob), Field("m_difficulty", blob),
            Field("m_thumbnail", Struct(<< Field("m_file", blob) >>)),
            Field("m_isBlizzardMap", bool), Field("m_timeUTC", int),
            Field("m_timeLocalOffset", int), Field("m_description", blob),
            Field("m_imageFilePath", blob), Field("m_mapFileName", blob),
            Field("m_cacheHandles", Optional(Array(blob))),
            Field("m_miniSave", bool), Field("m_gameSpeed", int),
            Field("m_defaultDifficulty", int) >>)

details16561 == [details15405 EXCEPT !.fields[1] = Players(player16561)]

details22612 ==
  More(details16561, << Field("m_modPaths", Optional(Array(blob))) >>)

details24944 ==
  More([details22612 EXCEPT !.fields[1] = Players(player24944)],
       << Field("m_campaignIndex", int) >>)

details26490 ==
  More(details24944, << Field("m_restartAsTransitionMap", Optional(bool)) >>)

details51702 ==
  More([details26490 EXCEPT !.fields[1] = Players(player51702)],
       << Field("m_disableRecoverGame", bool) >>)

-----------------------------------------------------------------------------
(* NNet.Replay.Tracker.  The builds before 26490 write no tracker events.  *)

unitTag == << "m_unitTagIndex", "m_unitTagRecycle" >>

tracker15405 == <<>>

(* The scores of a player are told apart by tag alone: all are integers.   *)
tracker26490 ==
  LET born == Struct(Ints(unitTag) \o << Field("m_unitTypeName", blob) >>
                     \o Ints(<<"m_controlPlayerId", "m_upkeepPlayerId",
                               "m_x", "m_y">>))
  IN [SPlayerStatsEvent |->
        Struct(<< Field("m_playerId", int),
                  Field("m_stats",
                        Struct(Ints([i \in 1 .. 39 |-> "m_scoreValue"]))) >>),
      SUnitBornEvent |-> born,
      SUnitDiedEvent |->
        Struct(Ints(unitTag) \o << Field("m_killerPlayerId", Optional(int)) >>
               \o Ints(<<"m_x", "m_y">>)),
      SUnitOwnerChangeEvent |->
        Struct(Ints(unitTag \o <<"m_controlPlayerId", "m_upkeepPlayerId">>)),
      SUnitTypeChangeEvent |->
        Struct(Ints(unitTag) \o << Field("m_unitTypeName", blob) >>),
      SUpgradeEvent |->
        Struct(<< Field("m_playerId", int), Field("m_upgradeTypeName", blob),
                  Field("m_count", int) >>),
      SUnitInitEvent |-> born,
      SUnitDoneEvent |-> Struct(Ints(unitTag)),
      SUnitPositionsEvent |->
        Struct(<< Field("m_firstUnitIndex", int),
                  Field("m_items", Array(int)) >>)]

tracker27950 ==
  [tracker26490 EXCEPT
     !.SUnitDiedEvent =
        More(@, << Field("m_killerUnitTagIndex", Optional(int)),
                   Field("m_killerUnitTagRecycle", Optional(int)) >>)]
  @@ [SPlayerSetupEvent |->
        Struct(<< Field("m_playerId", int), Field("m_type", int),
                  Field("m_userId", Optional(int)),
                  Field("m_slotId", Optional(int)) >>)]

tracker55505 ==
  [tracker27950 EXCEPT
     !.SUnitBornEvent =
        More(@, << Field("m_creatorUnitTagIndex", Optional(int)),
                   Field("m_creatorUnitTagRecycle", Optional(int)),
                   Field("m_creatorAbilityName", Optional(blob)) >>)]

-----------------------------------------------------------------------------
(* The files, oldest first.                                                *)

typeinfos15405 == TypeInfos(15405, header15405, details15405, tracker15405)
game_event_types15405 ==
  Events(15405,
    5 :> "SUserFinishedLoadingSyncEvent" @@ 7 :> "SBankFileEvent" @@
    8 :> "SBankSectionEvent" @@ 9 :> "SBankKeyEvent" @@
    10 :> "SBankValueEvent" @@ 11 :> "SUserOptionsEvent" @@
    22 :> "SSaveGameEvent" @@ 23 :> "SSaveGameDoneEvent" @@
    25 :> "SPlayerLeaveEvent" @@ 26 :> "SGameCheatEvent" @@
    27 :> "SCmdEvent" @@ 28 :> "SSelectionDeltaEvent" @@
    29 :> "SControlGroupUpdateEvent" @@ 30 :> "SSelectionSyncCheckEvent" @@
    31 :> "SResourceTradeEvent" @@ 32 :> "STriggerChatMessageEvent" @@
    33 :> "SAICommunicateEvent" @@ 34 :> "SSetAbsoluteGameSpeedEvent" @@
    35 :> "SAddAbsoluteGameSpeedEvent" @@ 37 :> "SBroadcastCheatEvent" @@
    38 :> "SAllianceEvent" @@ 39 :> "SUnitClickEvent" @@
    40 :> "SUnitHighlightEvent" @@ 41 :> "STriggerReplySelectedEvent" @@
    44 :> "STriggerSkippedEvent" @@ 45 :> "STriggerSoundLengthQueryEvent" @@
    46 :> "STriggerSoundOffsetEvent" @@
    47 :> "STriggerTransmissionOffsetEvent" @@
    48 :> "STriggerTransmissionCompleteEvent" @@
    49 :> "SCameraUpdateEvent" @@ 50 :> "STriggerAbortMissionEvent" @@
    51 :> "STriggerPurchaseMadeEvent" @@ 52 :> "STriggerPurchaseExitEvent" @@
    53 :> "STriggerPlanetMissionLaunchedEvent" @@
    54 :> "STriggerPlanetPanelCanceledEvent" @@
    55 :> "STriggerDialogControlEvent" @@
    56 :> "STriggerSoundLengthSyncEvent" @@
    57 :> "STriggerConversationSkippedEvent" @@
    58 :> "STriggerMouseClickedEvent" @@
    63 :> "STriggerPlanetPanelReplayEvent" @@
    64 :> "STriggerSoundtrackDoneEvent" @@
    65 :> "STriggerPlanetMissionSelectedEvent" @@
    66 :> "STriggerKeyPressedEvent" @@ 67 :> "STriggerMovieFunctionEvent" @@
    68 :> "STriggerPlanetPanelBirthCompleteEvent" @@
    69 :> "STriggerPlanetPanelDeathCompleteEvent" @@
    70 :> "SResourceRequestEvent" @@ 71 :> "SResourceRequestFulfillEvent" @@
    72 :> "SResourceRequestCancelEvent" @@
    73 :> "STriggerResearchPanelExitEvent" @@
    74 :> "STriggerResearchPanelPurchaseEvent" @@
    75 :> "STriggerResearchPanelSelectionChangedEvent" @@
    76 :> "SLagMessageEvent" @@ 77 :> "STriggerMercenaryPanelExitEvent" @@
    78 :> "STriggerMercenaryPanelPurchaseEvent" @@
    79 :> "STriggerMercenaryPanelSelectionChangedEvent" @@
    80 :> "STriggerVictoryPanelExitEvent" @@
    81 :> "STriggerBattleReportPanelExitEvent" @@
    82 :> "STriggerBattleReportPanelPlayMissionEvent" @@
    83 :> "STriggerBattleReportPanelPlaySceneEvent" @@
    84 :> "STriggerBattleReportPanelSelectionChangedEvent" @@
    85 :> "STriggerVictoryPanelPlayMissionAgainEvent" @@
    86 :> "STriggerMovieStartedEvent" @@
    87 :> "STriggerMovieFinishedEvent" @@
    88 :> "SDecrementGameTimeRemainingEvent" @@
    89 :> "STriggerPortraitLoadedEvent" @@
    90 :> "STriggerCustomDialogDismissedEvent" @@
    91 :> "STriggerGameMenuItemSelectedEvent" @@
    92 :> "STriggerCameraMoveEvent" @@
    93 :> "STriggerPurchasePanelSelectedPurchaseItemChangedEvent" @@
    94 :> "STriggerPurchasePanelSelectedPurchaseCategoryChangedEvent" @@
    95 :> "STriggerButtonPressedEvent" @@
    96 :> "STriggerGameCreditsFinishedEvent")
message_event_types15405 ==
  Events(15405,
    0 :> "SChatMessage" @@ 1 :> "SPingMessage" @@
    2 :> "SLoadingProgressMessage")
tracker_event_types15405 == Events(15405, <<>>)
protocol15405 ==
  [typeinfos |-> typeinfos15405,
   game_event_types |-> game_event_types15405,
   message_event_types |-> message_event_types15405,
   tracker_event_types |-> tracker_event_types15405,
   game_eventid_typeid |-> 0,
   message_eventid_typeid |-> 1,
   tracker_eventid_typeid |-> None,
   svaruint32_typeid |-> 6,
   replay_userid_typeid |-> None,
   replay_header_typeid |-> 11,
   game_details_typeid |-> 29,
   replay_initdata_typeid |-> 54]

typeinfos16561 == TypeInfos(16561, header15405, details16561, tracker15405)
game_event_types16561 == [game_event_types15405 EXCEPT !.typeids = 16561]
message_event_types16561 ==
  Events(16561,
    3 :> "SServerPingMessage"
    @@ message_event_types15405.names)
protocol16561 ==
  [protocol15405 EXCEPT
     !.typeinfos = typeinfos16561,
     !.game_event_types = game_event_types16561,
     !.message_event_types = message_event_types16561,
     !.game_details_typeid = 30,
     !.replay_initdata_typeid = 55]
protocol16605 == protocol16561
protocol16755 == protocol16561
protocol16939 == protocol16561

typeinfos17266 == TypeInfos(17266, header15405, details16561, tracker15405)
game_event_types17266 ==
  Events(17266,
    11 :> "SBankSignatureEvent" @@ 12 :> "SUserOptionsEvent" @@
    59 :> "STriggerMouseMovedEvent"
    @@ game_event_types16561.names)
message_event_types17266 == [message_event_types16561 EXCEPT !.typeids = 17266]
protocol17266 ==
  [protocol16561 EXCEPT
     !.typeinfos = typeinfos17266,
     !.game_event_types = game_event_types17266,
     !.message_event_types = message_event_types17266,
     !.replay_initdata_typeid = 54]
protocol17326 == protocol17266
protocol18092 == protocol17266

typeinfos18468 == TypeInfos(18468, header15405, details16561, tracker15405)
protocol18468 == [protocol17266 EXCEPT !.typeinfos = typeinfos18468]
protocol18574 == protocol18468

typeinfos19132 == TypeInfos(19132, header15405, details16561, tracker15405)
game_event_types19132 == [game_event_types17266 EXCEPT !.typeids = 19132]
message_event_types19132 == [message_event_types17266 EXCEPT !.typeids = 19132]
protocol19132 ==
  [protocol18468 EXCEPT
     !.typeinfos = typeinfos19132,
     !.game_event_types = game_event_types19132,
     !.message_event_types = message_event_types19132,
     !.replay_initdata_typeid = 55]

typeinfos19458 == TypeInfos(19458, header15405, details16561, tracker15405)
protocol19458 == [protocol19132 EXCEPT !.typeinfos = typeinfos19458]
protocol19595 == protocol19458
protocol19679 == protocol19458
protocol21029 == protocol19458

typeinfos22612 == TypeInfos(22612, header15405, details22612, tracker15405)
game_event_types22612 ==
  Events(22612,
    36 :> "STriggerPingEvent" @@ 60 :> "SAchievementAwardedEvent" @@
    97 :> "STriggerCutsceneBookmarkFiredEvent" @@
    98 :> "STriggerCutsceneEndSceneFiredEvent" @@
    99 :> "STriggerCutsceneConversationLineEvent" @@
    100 :> "STriggerCutsceneConversationLineMissingEvent"
    @@ game_event_types19132.names)
message_event_types22612 == [message_event_types19132 EXCEPT !.typeids = 22612]
protocol22612 ==
  [protocol19458 EXCEPT
     !.typeinfos = typeinfos22612,
     !.game_event_types = game_event_types22612,
     !.message_event_types = message_event_types22612,
     !.game_details_typeid = 32,
     !.replay_initdata_typeid = 57]

typeinfos23260 == TypeInfos(23260, header15405, details22612, tracker15405)
protocol23260 == [protocol22612 EXCEPT !.typeinfos = typeinfos23260]

typeinfos24944 == TypeInfos(24944, header15405, details24944, tracker15405)
game_event_types24944 ==
  Events(24944,
    7 :> "SUserOptionsEvent" @@ 9 :> "SBankFileEvent" @@
    10 :> "SBankSectionEvent" @@ 11 :> "SBankKeyEvent" @@
    12 :> "SBankValueEvent" @@ 13 :> "SBankSignatureEvent" @@
    21 :> "SSaveGameEvent" @@ 22 :> "SSaveGameDoneEvent" @@
    23 :> "SLoadGameDoneEvent" @@ 43 :> "SHijackReplayGameEvent" @@
    62 :> "STriggerTargetModeUpdateEvent" @@ 101 :> "SGameUserLeaveEvent" @@
    102 :> "SGameUserJoinEvent"
    @@ Without(game_event_types22612.names, {8, 25, 76}))
message_event_types24944 == [message_event_types22612 EXCEPT !.typeids = 24944]
protocol24944 ==
  [protocol23260 EXCEPT
     !.typeinfos = typeinfos24944,
     !.game_event_types = game_event_types24944,
     !.message_event_types = message_event_types24944,
     !.replay_userid_typeid = 8,
     !.replay_header_typeid = 13,
     !.game_details_typeid = 35,
     !.replay_initdata_typeid = 61]

typeinfos26490 == TypeInfos(26490, header26490, details26490, tracker26490)
game_event_types26490 ==
  Events(26490,
    14 :> "SCameraSaveEvent"
    @@ game_event_types24944.names)
message_event_types26490 == [message_event_types24944 EXCEPT !.typeids = 26490]
tracker_event_types26490 ==
  Events(26490,
    0 :> "SPlayerStatsEvent" @@ 1 :> "SUnitBornEvent" @@
    2 :> "SUnitDiedEvent" @@ 3 :> "SUnitOwnerChangeEvent" @@
    4 :> "SUnitTypeChangeEvent" @@ 5 :> "SUpgradeEvent" @@
    6 :> "SUnitInitEvent" @@ 7 :> "SUnitDoneEvent" @@
    8 :> "SUnitPositionsEvent"
    @@ tracker_event_types15405.names)
protocol26490 ==
  [protocol24944 EXCEPT
     !.typeinfos = typeinfos26490,
     !.game_event_types = game_event_types26490,
     !.message_event_types = message_event_types26490,
     !.tracker_event_types = tracker_event_types26490,
     !.tracker_eventid_typeid = 2,
     !.svaruint32_typeid = 7,
     !.replay_header_typeid = 14,
     !.game_details_typeid = 36,
     !.replay_initdata_typeid = 62]

typeinfos27950 == TypeInfos(27950, header26490, details26490, tracker27950)
game_event_types27950 ==
  Events(27950, Without(game_event_types26490.names, {92}))
message_event_types27950 == [message_event_types26490 EXCEPT !.typeids = 27950]
tracker_event_types27950 ==
  Events(27950,
    9 :> "SPlayerSetupEvent"
    @@ tracker_event_types26490.names)
protocol27950 ==
  [protocol26490 EXCEPT
     !.typeinfos = typeinfos27950,
     !.game_event_types = game_event_types27950,
     !.message_event_types = message_event_types27950,
     !.tracker_event_types = tracker_event_types27950,
     !.replay_initdata_typeid = 63]
protocol28272 == protocol27950
protocol28667 == protocol27950

typeinfos32283 == TypeInfos(32283, header26490, details26490, tracker27950)
protocol32283 == [protocol27950 EXCEPT !.typeinfos = typeinfos32283]

typeinfos51702 == TypeInfos(51702, header51702, details51702, tracker27950)
game_event_types51702 ==
  Events(51702,
    25 :> "SCommandManagerResetEvent" @@
    61 :> "STriggerHotkeyPressedEvent" @@
    76 :> "STriggerCommandErrorEvent" @@ 92 :> "STriggerMouseWheelEvent" @@
    103 :> "SCommandManagerStateEvent" @@
    104 :> "SCmdUpdateTargetPointEvent" @@
    105 :> "SCmdUpdateTargetUnitEvent" @@
    106 :> "STriggerAnimLengthQueryByNameEvent" @@
    107 :> "STriggerAnimLengthQueryByPropsEvent" @@
    108 :> "STriggerAnimOffsetEvent" @@ 109 :> "SCatalogModifyEvent" @@
    110 :> "SHeroTalentTreeSelectedEvent" @@
    111 :> "STriggerProfilerLoggingFinishedEvent" @@
    112 :> "SHeroTalentTreeSelectionPanelToggledEvent"
    @@ game_event_types27950.names)
message_event_types51702 ==
  Events(51702,
    4 :> "SReconnectNotifyMessage"
    @@ message_event_types27950.names)
tracker_event_types51702 == [tracker_event_types27950 EXCEPT !.typeids = 51702]
protocol51702 ==
  [protocol32283 EXCEPT
     !.typeinfos = typeinfos51702,
     !.game_event_types = game_event_types51702,
     !.message_event_types = message_event_types51702,
     !.tracker_event_types = tracker_event_types51702,
     !.replay_header_typeid = 18,
     !.game_details_typeid = 40,
     !.replay_initdata_typeid = 71]
protocol52910 == protocol51702
protocol53644 == protocol51702

typeinfos54518 == TypeInfos(54518, header51702, details51702, tracker27950)
game_event_types54518 == [game_event_types51702 EXCEPT !.typeids = 54518]
message_event_types54518 == [message_event_types51702 EXCEPT !.typeids = 54518]
tracker_event_types54518 == [tracker_event_types51702 EXCEPT !.typeids = 54518]
protocol54518 ==
  [protocol51702 EXCEPT
     !.typeinfos = typeinfos54518,
     !.game_event_types = game_event_types54518,
     !.message_event_types = message_event_types54518,
     !.tracker_event_types = tracker_event_types54518,
     !.replay_initdata_typeid = 73]

typeinfos55505 == TypeInfos(55505, header51702, details51702, tracker55505)
tracker_event_types55505 == [tracker_event_types54518 EXCEPT !.typeids = 55505]
protocol55505 ==
  [protocol54518 EXCEPT
     !.typeinfos = typeinfos55505,
     !.tracker_event_types = tracker_event_types55505]
protocol55958 == protocol55505
protocol56787 == protocol55505
protocol57507 == protocol55505
protocol58400 == protocol55505

typeinfos59587 == TypeInfos(59587, header51702, details51702, tracker55505)
protocol59587 == [protocol55505 EXCEPT !.typeinfos = typeinfos59587]
protocol60196 == protocol59587
protocol60321 == protocol59587
protocol62347 == protocol59587
protocol62848 == protocol59587
protocol63454 == protocol59587

typeinfos64469 == TypeInfos(64469, header51702, details51702, tracker55505)
protocol64469 == [protocol59587 EXCEPT !.typeinfos = typeinfos64469]
protocol65094 == protocol64469
protocol65384 == protocol64469

typeinfos65895 == TypeInfos(65895, header51702, details51702, tracker55505)
game_event_types65895 ==
  Events(65895,
    116 :> "SSetSyncLoadingTimeEvent" @@ 117 :> "SSetSyncPlayingTimeEvent" @@
    118 :> "SPeerSetSyncLoadingTimeEvent" @@
    119 :> "SPeerSetSyncPlayingTimeEvent"
    @@ game_event_types54518.names)
message_event_types65895 == [message_event_types54518 EXCEPT !.typeids = 65895]
tracker_event_types65895 == [tracker_event_types55505 EXCEPT !.typeids = 65895]
protocol65895 ==
  [protocol64469 EXCEPT
     !.typeinfos = typeinfos65895,
     !.game_event_types = game_event_types65895,
     !.message_event_types = message_event_types65895,
     !.tracker_event_types = tracker_event_types65895]
protocol66668 == protocol65895
protocol67188 == protocol65895
protocol67926 == protocol65895
protocol69232 == protocol65895

typeinfos70154 == TypeInfos(70154, header51702, details51702, tracker55505)
game_event_types70154 == [game_event_types65895 EXCEPT !.typeids = 70154]
message_event_types70154 == [message_event_types65895 EXCEPT !.typeids = 70154]
tracker_event_types70154 == [tracker_event_types65895 EXCEPT !.typeids = 70154]
protocol70154 ==
  [protocol65895 EXCEPT
     !.typeinfos = typeinfos70154,
     !.game_event_types = game_event_types70154,
     !.message_event_types = message_event_types70154,
     !.tracker_event_types = tracker_event_types70154]
protocol71061 == protocol70154
protocol71523 == protocol70154
protocol71663 == protocol70154
protocol72282 == protocol70154
protocol73286 == protocol70154
protocol73559 == protocol70154
protocol73620 == protocol70154
protocol74071 == protocol70154
protocol74456 == protocol70154
protocol74741 == protocol70154
protocol75025 == protocol70154

typeinfos75689 == TypeInfos(75689, header51702, details51702, tracker55505)
protocol75689 == [protocol70154 EXCEPT !.typeinfos = typeinfos75689]
protocol75800 == protocol75689
protocol76052 == protocol75689
protocol76114 == protocol75689

typeinfos77379 == TypeInfos(77379, header51702, details51702, tracker55505)
protocol77379 == [protocol75689 EXCEPT !.typeinfos = typeinfos77379]
protocol77535 == protocol77379
protocol77661 == protocol77379
protocol78285 == protocol77379

typeinfos80669 == TypeInfos(80669, header51702, details51702, tracker55505)
protocol80669 == [protocol77379 EXCEPT !.typeinfos = typeinfos80669]

typeinfos80949 == TypeInfos(80949, header51702, details51702, tracker55505)
protocol80949 == [protocol80669 EXCEPT !.typeinfos = typeinfos80949]
protocol81009 == protocol80949
protocol82457 == protocol80949
protocol82893 == protocol80949
protocol83830 == protocol80949
protocol84643 == protocol80949
protocol86383 == protocol80949
protocol87702 == protocol80949
protocol88500 == protocol80949
protocol89165 == protocol80949
protocol89634 == protocol80949
protocol89720 == protocol80949
protocol90136 == protocol80949
protocol90779 == protocol80949
protocol90870 == protocol80949
protocol91115 == protocol80949
protocol92028 == protocol80949
protocol92174 == protocol80949
protocol92440 == protocol80949
protocol93272 == protocol80949
protocol93333 == protocol80949
protocol94137 == protocol80949
protocol95248 == protocol80949
protocol95299 == protocol80949
protocol96883 == protocol80949
protocol97364 == protocol80949
protocol97425 == protocol80949
protocol97563 == protocol80949

(* The files the tool embeds, by build.                                     *)
Protocols ==
  15405 :> protocol15405 @@ 16561 :> protocol16561 @@
  16605 :> protocol16605 @@ 16755 :> protocol16755 @@
  16939 :> protocol16939 @@ 17266 :> protocol17266 @@
  17326 :> protocol17326 @@ 18092 :> protocol18092 @@
  18468 :> protocol18468 @@ 18574 :> protocol18574 @@
  19132 :> protocol19132 @@ 19458 :> protocol19458 @@
  19595 :> protocol19595 @@ 19679 :> protocol19679 @@
  21029 :> protocol21029 @@ 22612 :> protocol22612 @@
  23260 :> protocol23260 @@ 24944 :> protocol24944 @@
  26490 :> protocol26490 @@ 27950 :> protocol27950 @@
  28272 :> protocol28272 @@ 28667 :> protocol28667 @@
  32283 :> protocol32283 @@ 51702 :> protocol51702 @@
  52910 :> protocol52910 @@ 53644 :> protocol53644 @@
  54518 :> protocol54518 @@ 55505 :> protocol55505 @@
  55958 :> protocol55958 @@ 56787 :> protocol56787 @@
  57507 :> protocol57507 @@ 58400 :> protocol58400 @@
  59587 :> protocol59587 @@ 60196 :> protocol60196 @@
  60321 :> protocol60321 @@ 62347 :> protocol62347 @@
  62848 :> protocol62848 @@ 63454 :> protocol63454 @@
  64469 :> protocol64469 @@ 65094 :> protocol65094 @@
  65384 :> protocol65384 @@ 65895 :> protocol65895 @@
  66668 :> protocol66668 @@ 67188 :> protocol67188 @@
  67926 :> protocol67926 @@ 69232 :> protocol69232 @@
  70154 :> protocol70154 @@ 71061 :> protocol71061 @@
  71523 :> protocol71523 @@ 71663 :> protocol71663 @@
  72282 :> protocol72282 @@ 73286 :> protocol73286 @@
  73559 :> protocol73559 @@ 73620 :> protocol73620 @@
  74071 :> protocol74071 @@ 74456 :> protocol74456 @@
  74741 :> protocol74741 @@ 75025 :> protocol75025 @@
  75689 :> protocol75689 @@ 75800 :> protocol75800 @@
  76052 :> protocol76052 @@ 76114 :> protocol76114 @@
  77379 :> protocol77379 @@ 77535 :> protocol77535 @@
  77661 :> protocol77661 @@ 78285 :> protocol78285 @@
  80669 :> protocol80669 @@ 80949 :> protocol80949 @@
  81009 :> protocol81009 @@ 82457 :> protocol82457 @@
  82893 :> protocol82893 @@ 83830 :> protocol83830 @@
  84643 :> protocol84643 @@ 86383 :> protocol86383 @@
  87702 :> protocol87702 @@ 88500 :> protocol88500 @@
  89165 :> protocol89165 @@ 89634 :> protocol89634 @@
  89720 :> protocol89720 @@ 90136 :> protocol90136 @@
  90779 :> protocol90779 @@ 90870 :> protocol90870 @@
  91115 :> protocol91115 @@ 92028 :> protocol92028 @@
  92174 :> protocol92174 @@ 92440 :> protocol92440 @@
  93272 :> protocol93272 @@ 93333 :> protocol93333 @@
  94137 :> protocol94137 @@ 95248 :> protocol95248 @@
  95299 :> protocol95299 @@ 96883 :> protocol96883 @@
  97364 :> protocol97364 @@ 97425 :> protocol97425 @@ 97563 :> protocol97563

(* The manifest that the repository ships.                                 *)
ShippedManifest ==
  15405 :> 15405 @@ 16561 :> 16561 @@ 16605 :> 16561 @@ 16755 :> 16561 @@
  16939 :> 16561 @@ 17266 :> 17266 @@ 17326 :> 17266 @@ 18092 :> 17266 @@
  18468 :> 18468 @@ 18574 :> 18468 @@ 19132 :> 19132 @@ 19458 :> 19458 @@
  19595 :> 19458 @@ 19679 :> 19458 @@ 21029 :> 19458 @@ 22612 :> 22612 @@
  23260 :> 23260 @@ 24944 :> 24944 @@ 26490 :> 26490 @@ 27950 :> 27950 @@
  28272 :> 27950 @@ 28667 :> 27950 @@ 32283 :> 32283 @@ 51702 :> 51702 @@
  52910 :> 51702 @@ 53644 :> 51702 @@ 54518 :> 54518 @@ 55505 :> 55505 @@
  55958 :> 55505 @@ 56787 :> 55505 @@ 57507 :> 55505 @@ 58400 :> 55505 @@
  59587 :> 59587 @@ 60196 :> 59587 @@ 60321 :> 59587 @@ 62347 :> 59587 @@
  62848 :> 59587 @@ 63454 :> 59587 @@ 64469 :> 64469 @@ 65094 :> 64469 @@
  65384 :> 64469 @@ 65895 :> 65895 @@ 66668 :> 65895 @@ 67188 :> 65895 @@
  67926 :> 65895 @@ 69232 :> 65895 @@ 70154 :> 70154 @@ 71061 :> 70154 @@
  71523 :> 70154 @@ 71663 :> 70154 @@ 72282 :> 70154 @@ 73286 :> 70154 @@
  73559 :> 70154 @@ 73620 :> 70154 @@ 74071 :> 70154 @@ 74456 :> 70154 @@
  74741 :> 70154 @@ 75025 :> 70154 @@ 75689 :> 75689 @@ 75800 :> 75689 @@
  76052 :> 75689 @@ 76114 :> 75689 @@ 77379 :> 77379 @@ 77535 :> 77379 @@
  77661 :> 77379 @@ 78285 :> 77379 @@ 80669 :> 80669 @@ 80949 :> 80949 @@
  81009 :> 80949 @@ 82457 :> 80949 @@ 82893 :> 80949 @@ 83830 :> 80949 @@
  84643 :> 80949 @@ 86383 :> 80949 @@ 87702 :> 80949 @@ 88500 :> 80949 @@
  89165 :> 80949 @@ 89634 :> 80949 @@ 89720 :> 80949 @@ 90136 :> 80949 @@
  90779 :> 80949 @@ 90870 :> 80949 @@ 91115 :> 80949 @@ 92028 :> 80949 @@
  92174 :> 80949 @@ 92440 :> 80949 @@ 93272 :> 80949 @@ 93333 :> 80949 @@
  94137 :> 80949 @@ 95248 :> 80949 @@ 95299 :> 80949 @@ 96883 :> 80949 @@
  97364 :> 80949 @@ 97425 :> 80949 @@ 97563 :> 80949

=============================================================================
