----------------------------- MODULE MCHmi_proofs -----------------------------
(* The pages composed: each behaviour of the HMI is one of every page, the    *)
(* one shown or the one left as it was opened, so what is proved of each page *)
(* holds of the HMI, for every value of the constants.                        *)
EXTENDS MCHmi, HmiOperations_proofs, HmiForms_proofs, HmiLoops_proofs

------------------------------------------------------------------------------
(* The pages of the HMI.                                                      *)

\* A page opens as its module says.
LEMMA PagesOpen ==
  HmiInit => /\ AcctInit
             /\ AlarmInit
             /\ LimitsInit
             /\ SessInit
             /\ TuneInit
             /\ TrendInit
             /\ CellInit
             /\ FramingInit
             /\ ConfigInit
             /\ FaceInit
             /\ TwinInit
             /\ ProjectInit
             /\ OpcuaInit
             /\ TagInit
             /\ ThemeInit
             /\ SettingsInit
             /\ HistoryInit
             /\ ExportInit
             /\ AiInit
             /\ ChartInit
             /\ PlotInit
BY DEF HmiInit

\* A step is one of the page shown; the others have none.
LEMMA PagesMove ==
  ASSUME [HmiNext]_hmiVars
  PROVE  /\ [AcctNext]_acctVars
         /\ [AlarmNext]_alarmVars
         /\ [LimitsNext]_limitVars
         /\ [SessNext]_sessVars
         /\ [TuneNext]_tuneVars
         /\ [TrendNext]_trendVars
         /\ [CellNext]_cellVars
         /\ [FramingNext]_framingVars
         /\ [ConfigNext]_configVars
         /\ [FaceNext]_faceVars
         /\ [TwinNext]_twinVars
         /\ [ProjectNext]_projVars
         /\ [OpcuaNext]_opcuaVars
         /\ [TagNext]_tagVars
         /\ [ThemeNext]_themeVars
         /\ [SettingsNext]_settingsVars
         /\ [HistoryNext]_historyVars
         /\ [ExportNext]_exportVars
         /\ [AiNext]_aiVars
         /\ [ChartNext]_chartVars
         /\ [PlotNext]_plotVars
<1>1. [AcctNext]_acctVars
  <2>1. CASE page = "users" /\ HmiNext
    BY <2>1 DEF HmiNext
  <2>2. CASE page # "users" /\ HmiNext
    BY <2>2 DEF HmiNext, HiddenUnchanged
  <2>3. CASE UNCHANGED hmiVars
    BY <2>3 DEF hmiVars
  <2> QED
    BY <2>1, <2>2, <2>3
<1>2. [AlarmNext]_alarmVars
  <2>1. CASE page = "alarms" /\ HmiNext
    BY <2>1 DEF HmiNext
  <2>2. CASE page # "alarms" /\ HmiNext
    BY <2>2 DEF HmiNext, HiddenUnchanged
  <2>3. CASE UNCHANGED hmiVars
    BY <2>3 DEF hmiVars
  <2> QED
    BY <2>1, <2>2, <2>3
<1>3. [LimitsNext]_limitVars
  <2>1. CASE page = "limits" /\ HmiNext
    BY <2>1 DEF HmiNext
  <2>2. CASE page # "limits" /\ HmiNext
    BY <2>2 DEF HmiNext, HiddenUnchanged
  <2>3. CASE UNCHANGED hmiVars
    BY <2>3 DEF hmiVars
  <2> QED
    BY <2>1, <2>2, <2>3
<1>4. [SessNext]_sessVars
  <2>1. CASE page = "sessions" /\ HmiNext
    BY <2>1 DEF HmiNext
  <2>2. CASE page # "sessions" /\ HmiNext
    BY <2>2 DEF HmiNext, HiddenUnchanged
  <2>3. CASE UNCHANGED hmiVars
    BY <2>3 DEF hmiVars
  <2> QED
    BY <2>1, <2>2, <2>3
<1>5. [TuneNext]_tuneVars
  <2>1. CASE page = "tuning" /\ HmiNext
    BY <2>1 DEF HmiNext
  <2>2. CASE page # "tuning" /\ HmiNext
    BY <2>2 DEF HmiNext, HiddenUnchanged
  <2>3. CASE UNCHANGED hmiVars
    BY <2>3 DEF hmiVars
  <2> QED
    BY <2>1, <2>2, <2>3
<1>6. [TrendNext]_trendVars
  <2>1. CASE page = "trend" /\ HmiNext
    BY <2>1 DEF HmiNext
  <2>2. CASE page # "trend" /\ HmiNext
    BY <2>2 DEF HmiNext, HiddenUnchanged
  <2>3. CASE UNCHANGED hmiVars
    BY <2>3 DEF hmiVars
  <2> QED
    BY <2>1, <2>2, <2>3
<1>7. [CellNext]_cellVars
  <2>1. CASE page = "multitrend" /\ HmiNext
    BY <2>1 DEF HmiNext
  <2>2. CASE page # "multitrend" /\ HmiNext
    BY <2>2 DEF HmiNext, HiddenUnchanged
  <2>3. CASE UNCHANGED hmiVars
    BY <2>3 DEF hmiVars
  <2> QED
    BY <2>1, <2>2, <2>3
<1>8. [FramingNext]_framingVars
  <2>1. CASE page = "framing" /\ HmiNext
    BY <2>1 DEF HmiNext
  <2>2. CASE page # "framing" /\ HmiNext
    BY <2>2 DEF HmiNext, HiddenUnchanged
  <2>3. CASE UNCHANGED hmiVars
    BY <2>3 DEF hmiVars
  <2> QED
    BY <2>1, <2>2, <2>3
<1>9. [ConfigNext]_configVars
  <2>1. CASE page = "config" /\ HmiNext
    BY <2>1 DEF HmiNext
  <2>2. CASE page # "config" /\ HmiNext
    BY <2>2 DEF HmiNext, HiddenUnchanged
  <2>3. CASE UNCHANGED hmiVars
    BY <2>3 DEF hmiVars
  <2> QED
    BY <2>1, <2>2, <2>3
<1>10. [FaceNext]_faceVars
  <2>1. CASE page = "faceplate" /\ HmiNext
    BY <2>1 DEF HmiNext
  <2>2. CASE page # "faceplate" /\ HmiNext
    BY <2>2 DEF HmiNext, HiddenUnchanged
  <2>3. CASE UNCHANGED hmiVars
    BY <2>3 DEF hmiVars
  <2> QED
    BY <2>1, <2>2, <2>3
<1>11. [TwinNext]_twinVars
  <2>1. CASE page = "simulator" /\ HmiNext
    BY <2>1 DEF HmiNext
  <2>2. CASE page # "simulator" /\ HmiNext
    BY <2>2 DEF HmiNext, HiddenUnchanged
  <2>3. CASE UNCHANGED hmiVars
    BY <2>3 DEF hmiVars
  <2> QED
    BY <2>1, <2>2, <2>3
<1>12. [ProjectNext]_projVars
  <2>1. CASE page = "projects" /\ HmiNext
    BY <2>1 DEF HmiNext
  <2>2. CASE page # "projects" /\ HmiNext
    BY <2>2 DEF HmiNext, HiddenUnchanged
  <2>3. CASE UNCHANGED hmiVars
    BY <2>3 DEF hmiVars
  <2> QED
    BY <2>1, <2>2, <2>3
<1>13. [OpcuaNext]_opcuaVars
  <2>1. CASE page = "connection" /\ HmiNext
    BY <2>1 DEF HmiNext
  <2>2. CASE page # "connection" /\ HmiNext
    BY <2>2 DEF HmiNext, HiddenUnchanged
  <2>3. CASE UNCHANGED hmiVars
    BY <2>3 DEF hmiVars
  <2> QED
    BY <2>1, <2>2, <2>3
<1>14. [TagNext]_tagVars
  <2>1. CASE page = "tags" /\ HmiNext
    BY <2>1 DEF HmiNext
  <2>2. CASE page # "tags" /\ HmiNext
    BY <2>2 DEF HmiNext, HiddenUnchanged
  <2>3. CASE UNCHANGED hmiVars
    BY <2>3 DEF hmiVars
  <2> QED
    BY <2>1, <2>2, <2>3
<1>15. [ThemeNext]_themeVars
  <2>1. CASE page = "theme" /\ HmiNext
    BY <2>1 DEF HmiNext
  <2>2. CASE page # "theme" /\ HmiNext
    BY <2>2 DEF HmiNext, HiddenUnchanged
  <2>3. CASE UNCHANGED hmiVars
    BY <2>3 DEF hmiVars
  <2> QED
    BY <2>1, <2>2, <2>3
<1>16. [SettingsNext]_settingsVars
  <2>1. CASE page = "settings" /\ HmiNext
    BY <2>1 DEF HmiNext
  <2>2. CASE page # "settings" /\ HmiNext
    BY <2>2 DEF HmiNext, HiddenUnchanged
  <2>3. CASE UNCHANGED hmiVars
    BY <2>3 DEF hmiVars
  <2> QED
    BY <2>1, <2>2, <2>3
<1>17. [HistoryNext]_historyVars
  <2>1. CASE page = "history" /\ HmiNext
    BY <2>1 DEF HmiNext
  <2>2. CASE page # "history" /\ HmiNext
    BY <2>2 DEF HmiNext, HiddenUnchanged
  <2>3. CASE UNCHANGED hmiVars
    BY <2>3 DEF hmiVars
  <2> QED
    BY <2>1, <2>2, <2>3
<1>18. [ExportNext]_exportVars
  <2>1. CASE page = "export" /\ HmiNext
    BY <2>1 DEF HmiNext
  <2>2. CASE page # "export" /\ HmiNext
    BY <2>2 DEF HmiNext, HiddenUnchanged
  <2>3. CASE UNCHANGED hmiVars
    BY <2>3 DEF hmiVars
  <2> QED
    BY <2>1, <2>2, <2>3
<1>19. [AiNext]_aiVars
  <2>1. CASE page = "optimizer" /\ HmiNext
    BY <2>1 DEF HmiNext
  <2>2. CASE page # "optimizer" /\ HmiNext
    BY <2>2 DEF HmiNext, HiddenUnchanged
  <2>3. CASE UNCHANGED hmiVars
    BY <2>3 DEF hmiVars
  <2> QED
    BY <2>1, <2>2, <2>3
<1>20. [ChartNext]_chartVars
  <2>1. CASE page = "charts" /\ HmiNext
    BY <2>1 DEF HmiNext
  <2>2. CASE page # "charts" /\ HmiNext
    BY <2>2 DEF HmiNext, HiddenUnchanged
  <2>3. CASE UNCHANGED hmiVars
    BY <2>3 DEF hmiVars
  <2> QED
    BY <2>1, <2>2, <2>3
<1>21. [PlotNext]_plotVars
  <2>1. CASE page = "plot" /\ HmiNext
    BY <2>1 DEF HmiNext
  <2>2. CASE page # "plot" /\ HmiNext
    BY <2>2 DEF HmiNext, HiddenUnchanged
  <2>3. CASE UNCHANGED hmiVars
    BY <2>3 DEF hmiVars
  <2> QED
    BY <2>1, <2>2, <2>3
<1> QED
  BY <1>1, <1>2, <1>3, <1>4, <1>5, <1>6, <1>7, <1>8, <1>9, <1>10, <1>11,
     <1>12, <1>13, <1>14, <1>15, <1>16, <1>17, <1>18, <1>19, <1>20, <1>21

\* The HMI implements the specification of every page: nothing that is proved
\* of a page alone is lost when the pages share a daemon and one is shown.
THEOREM HmiImplementsItsPages ==
  HmiSpec => /\ AcctSpec
             /\ AlarmSpec
             /\ LimitsSpec
             /\ SessSpec
             /\ TuneSpec
             /\ TrendSpec
             /\ CellSpec
             /\ FramingSpec
             /\ ConfigSpec
             /\ FaceSpec
             /\ TwinSpec
             /\ ProjectSpec
             /\ OpcuaSpec
             /\ TagSpec
             /\ ThemeSpec
             /\ SettingsSpec
             /\ HistorySpec
             /\ ExportSpec
             /\ AiSpec
             /\ ChartSpec
             /\ PlotSpec
BY PagesOpen, PagesMove, PTL
   DEF HmiSpec,
       AcctSpec, AlarmSpec, LimitsSpec, SessSpec, TuneSpec, TrendSpec, CellSpec,
       FramingSpec, ConfigSpec, FaceSpec, TwinSpec, ProjectSpec, OpcuaSpec, TagSpec,
       ThemeSpec, SettingsSpec, HistorySpec, ExportSpec, AiSpec, ChartSpec, PlotSpec

------------------------------------------------------------------------------
(* What the runs check of the pages, for all of them.                         *)

\* Every page, and what the daemon keeps for it, is typed, whatever page is
\* shown.
THEOREM HmiTypeCorrect == HmiSpec => []HmiTypeOK
<1>1. HmiSpec => [](AcctTypeOK /\ AlarmTypeOK /\ LimitsTypeOK)
  BY HmiImplementsItsPages, RevokedStaysRevoked, AlarmEventsReconciled, LimitsStayOrdered, PTL
<1>2. HmiSpec => [](SessTypeOK /\ TuneTypeOK /\ TrendTypeOK)
  BY HmiImplementsItsPages, SessionRowsCount, ProposalsAreWrittenOnce, WindowStaysHonest, PTL
<1>3. HmiSpec => [](CellTypeOK /\ FramingTypeOK /\ ConfigTypeOK)
  BY HmiImplementsItsPages, CellsKeepTheirHistory, FramingIsPerLoop, SavesDoNotTuneTheDcs, PTL
<1>4. HmiSpec => [](FaceTypeOK /\ TwinTypeOK /\ ProjectTypeOK)
  BY HmiImplementsItsPages, OutputIsTheOperators, TwinPageIsTrue, PlantFollowsTheProject, PTL
<1>5. HmiSpec => [](OpcuaTypeOK /\ TagTypeOK /\ ThemeTypeOK)
  BY HmiImplementsItsPages, ClientUsesTheStoredEndpoint, TagsAreBoundSoundly, AccountKeepsItsTheme, PTL
<1>6. HmiSpec => [](SettingsTypeOK /\ HistoryTypeOK /\ ExportTypeOK)
  BY HmiImplementsItsPages, PreferencesStayValid, HistoryIsAnswered, FileIsOfTheClick, PTL
<1>7. HmiSpec => [](AiTypeOK /\ ChartTypeOK /\ PlotTypeOK)
  BY HmiImplementsItsPages, BandOnScreenRuns, ChartsKeepTheirFrame, AxisFollowsTheData, PTL
<1>8. /\ AcctTypeOK /\ AlarmTypeOK /\ LimitsTypeOK
      /\ SessTypeOK /\ TuneTypeOK /\ TrendTypeOK
      /\ CellTypeOK /\ FramingTypeOK /\ ConfigTypeOK
      /\ FaceTypeOK /\ TwinTypeOK /\ ProjectTypeOK
      /\ OpcuaTypeOK /\ TagTypeOK /\ ThemeTypeOK
      /\ SettingsTypeOK /\ HistoryTypeOK /\ ExportTypeOK
      /\ AiTypeOK /\ ChartTypeOK /\ PlotTypeOK
      => HmiTypeOK
  BY DEF HmiTypeOK
<1> QED
  BY <1>1, <1>2, <1>3, <1>4, <1>5, <1>6, <1>7, <1>8, PTL

\* What is stored passed the checks of the page that wrote it and of the
\* daemon that keeps it: limits, level band, preferences, theme and tags.
THEOREM HmiStoredIsSound == HmiSpec => []StoredIsSound
BY HmiImplementsItsPages, LimitsStayOrdered, BandOnScreenRuns, PreferencesStayValid,
   AccountKeepsItsTheme, TagsAreBoundSoundly, PTL
   DEF StoredIsSound

\* What a page shows once its requests and its charts' commits are done is
\* what it asked for, and what its charts were framed to.
THEOREM HmiSettledPageIsTrue == HmiSpec => []SettledPageIsTrue
BY HmiImplementsItsPages, TwinPageIsTrue, HistoryIsAnswered, TagsAreBoundSoundly,
   FileIsOfTheClick, PreferencesStayValid, ChartsKeepTheirFrame, AxisFollowsTheData, PTL
   DEF SettledPageIsTrue

\* A change of project or of server reaches limits, writer, name, roster and
\* endpoint.
THEOREM HmiPlantFollowsItsProject == HmiSpec => []PlantFollowsItsProject
BY HmiImplementsItsPages, PlantFollowsTheProject, ClientUsesTheStoredEndpoint, PTL
   DEF PlantFollowsItsProject

\* What is set up or typed for one loop never reaches another.
THEOREM HmiDraftsStay == HmiSpec => []DraftsStayWithTheirLoop
BY HmiImplementsItsPages, FramingIsPerLoop, TwinPageIsTrue, OutputIsTheOperators, PTL
   DEF DraftsStayWithTheirLoop

\* The invariants of a single page hold of the HMI: the alarm list is
\* reconciled, a session row counts its sockets, a proposal is written once,
\* a trend is honest, a cell is seeded, and a save leaves the gains of the
\* DCS alone.
THEOREM HmiPagesAreSafe == HmiSpec => [](/\ EventIsReconciled /\ RowCountsItsSockets /\ WrittenAtMostOnce /\ WindowIsHonest
                            /\ CellsAreSeeded /\ DcsGainsAreOrdered)
BY HmiImplementsItsPages, AlarmEventsReconciled, SessionRowsCount,
   ProposalsAreWrittenOnce, WindowStaysHonest, CellsKeepTheirHistory,
   SavesDoNotTuneTheDcs, PTL

\* And so do the action properties: revocation is immediate, the last
\* administrator is removed only by a race, the alarm log moves as the alarm
\* state machine does, and a frame redraws no history.
THEOREM HmiStepsAreLawful == HmiSpec => RevocationIsImmediate /\ OnlyARaceRemovesTheLastAdmin
                               /\ LogIsAlarmMachine /\ HistoryIsImmobile
BY HmiImplementsItsPages, RevokedStaysRevoked, LastAdminNeedsARace,
   LogImplementsMachine, HistoryStaysPut, PTL
===============================================================================
