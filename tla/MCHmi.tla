------------------------------- MODULE MCHmi -------------------------------
(* The pages of the web HMI, each with the part of the daemon it talks to.    *)
(* The pages share no state of the models, so a behaviour shows one page: the *)
(* state spaces add up instead of multiplying. `page` is chosen once, and the *)
(* modules whose page is not shown stay as they were opened.                  *)
EXTENDS Accounts, AlarmCenter, AlarmLimits, Sessions, TuningDesk, TrendWindow,
        TrendCells, TrendFraming, LoopConfig, Faceplate, TwinDesk, ProjectDesk,
        OpcuaDesk, TagDesk, ThemeDesk, SettingsDesk, HistoryDesk, ExportDesk, AiDesk,
        ChartDesk, TrendPlot

VARIABLE page

hmiVars == <<acctVars, alarmVars, limitVars, sessVars, tuneVars, trendVars,
             cellVars, framingVars, configVars, faceVars, twinVars, projVars,
             opcuaVars, tagVars, themeVars, settingsVars, historyVars, exportVars,
             aiVars, chartVars, plotVars, page>>

Pages == {"users", "alarms", "limits", "sessions", "tuning", "trend",
          "multitrend", "framing", "config", "faceplate", "simulator", "projects",
          "connection", "tags", "theme", "settings", "history", "export",
          "optimizer", "charts", "plot"}

(* Two process records: one that rises and folds back, one that spikes.       *)
MCSignals == {[t \in 1 .. LastFrame |-> (t * t) % 5],
              [t \in 1 .. LastFrame |-> IF t % 4 = 2 THEN 3 ELSE t % 2]}

(* A folder that holds another folder and a tag.                              *)
MCTagParent == <<Objects, 1, 1>>

(* Histories where neither log, the alarms or the events are cut.             *)
MCAlarm(l, p, t) == [kind |-> "alarm", loop |-> l, priority |-> p, type |-> t]
MCEvent(p) == [kind |-> "event", loop |-> 0, priority |-> p, type |-> "none"]
MCHistories ==
    {<<MCAlarm(1, "crit", "HI"), MCEvent("crit"), MCAlarm(2, "low", "HI"), MCEvent("low")>>,
     <<MCAlarm(2, "low", "LO"), MCAlarm(1, "crit", "HI"), MCAlarm(1, "crit", "LO"), MCEvent("low")>>,
     <<MCEvent("low"), MCEvent("crit"), MCAlarm(1, "low", "HI"), MCEvent("low")>>}

(* A page that is not shown opens in one way only.                            *)
HmiInit ==
    /\ page \in Pages
    /\ AcctInit /\ (page # "users" => /\ \A a \in Accts : roster[a].role = "admin"
                                      /\ calls = {})
    /\ AlarmInit /\ LimitsInit /\ SessInit /\ TuneInit
    /\ TrendInit /\ (page # "trend" => /\ chart.loop = 1
                                       /\ pv[4] = 1
                                       /\ \A w \in Windows : chart.window <= w)
    /\ CellInit
    /\ FramingInit /\ (page # "framing" => view.loop = 1)
    /\ ConfigInit /\ FaceInit /\ TwinInit
    /\ ProjectInit /\ (page # "projects" => \A p \in Projects : Exists(p))
    /\ OpcuaInit /\ (page # "connection" => plc.meta = 1)
    /\ TagInit /\ (page # "tags" => \A field \in Bindable : binding.id[field] = Unbound)
    /\ ThemeInit /\ (page # "theme" => /\ \A u \in ThemeUsers : account[u] = NoTheme
                                       /\ \A s \in Stations : station[s].theme = 1)
    /\ SettingsInit /\ (page # "settings" => prefs.stored = NoPreferences /\ levels.active = {})
    /\ HistoryInit /\ (page # "history" => logs = CHOOSE h \in Histories : TRUE)
    /\ ExportInit
    /\ AiInit /\ (page # "optimizer" =>
                     aiStored = [engine |-> "NONE", objective |-> "OTHER", lo |-> Blank,
                                 hi |-> Blank, limit_min |-> 1, limit_max |-> 1])
    /\ ChartInit /\ PlotInit

(* The modules whose page is not shown.                                       *)
HiddenUnchanged ==
    /\ page # "users"      => UNCHANGED acctVars
    /\ page # "limits"     => UNCHANGED limitVars
    /\ page # "sessions"   => UNCHANGED sessVars
    /\ page # "tuning"     => UNCHANGED tuneVars
    /\ page # "trend"      => UNCHANGED trendVars
    /\ page # "multitrend" => UNCHANGED cellVars
    /\ page # "framing"    => UNCHANGED framingVars
    /\ page # "config"     => UNCHANGED configVars
    /\ page # "faceplate"  => UNCHANGED faceVars
    /\ page # "simulator"  => UNCHANGED twinVars
    /\ page # "projects"   => UNCHANGED projVars
    /\ page # "connection" => UNCHANGED opcuaVars
    /\ page # "tags"       => UNCHANGED tagVars
    /\ page # "theme"      => UNCHANGED themeVars
    /\ page # "settings"   => UNCHANGED settingsVars
    /\ page # "history"    => UNCHANGED historyVars
    /\ page # "export"     => UNCHANGED exportVars
    /\ page # "optimizer"  => UNCHANGED aiVars
    /\ page # "charts"     => UNCHANGED chartVars
    /\ page # "plot"       => UNCHANGED plotVars
    /\ page # "alarms"     => UNCHANGED alarmVars

HmiNext ==
    /\ UNCHANGED page /\ HiddenUnchanged
    /\ \/ page = "users"      /\ AcctNext
       \/ page = "limits"     /\ LimitsNext
       \/ page = "sessions"   /\ SessNext
       \/ page = "tuning"     /\ TuneNext
       \/ page = "trend"      /\ TrendNext
       \/ page = "multitrend" /\ CellNext
       \/ page = "framing"    /\ FramingNext
       \/ page = "config"     /\ ConfigNext
       \/ page = "faceplate"  /\ FaceNext
       \/ page = "simulator"  /\ TwinNext
       \/ page = "projects"   /\ ProjectNext
       \/ page = "connection" /\ OpcuaNext
       \/ page = "tags"       /\ TagNext
       \/ page = "theme"      /\ ThemeNext
       \/ page = "settings"   /\ SettingsNext
       \/ page = "history"    /\ HistoryNext
       \/ page = "export"     /\ ExportNext
       \/ page = "optimizer"  /\ AiNext
       \/ page = "charts"     /\ ChartNext
       \/ page = "plot"       /\ PlotNext
       \/ page = "alarms"     /\ AlarmNext

(* The views drop what no next step and no property of a page tells apart.    *)
(* A log row cleared and acknowledged is read only while it is newest, a      *)
(* clear closes whatever is open, of the footer's point the steps read only   *)
(* whether ACK ALL is offered, and `fresh` matters only while the list is     *)
(* behind: an event that makes it so clears it.                               *)
AlarmView ==
    <<engine, raised, Cardinality(writes), {w \in writes : w.op = "insert"},
      {r \in alarmLog : ~(r.cleared /\ r.acked) \/ r = Newest(alarmLog)}, wire,
      [screen EXCEPT !.point = FooterOffersAckAll],
      [fetch EXCEPT !.fresh = @ /\ screen.behind], acks>>

(* The id that a handler read is not the one it stores.                       *)
ConfigView == <<born, loopRow, running, dcs, ordered, [board EXCEPT !.call.seen.loop = 0]>>

(* Nothing selected shows the roster's first loop, selected or not.           *)
FaceView == <<block, frame, faceLoops, [face EXCEPT !.asked = Selected(@, PanelLoops)], posted>>

(* So does the twin page. The slots of the pending mutations differ in        *)
(* nothing but their names, the slider's timer posts to the loop current when *)
(* it fires, and the automation boxes, mounted with the PID boxes, commit to  *)
(* the loop shown.                                                            *)
TwinView ==
    <<twin, snap, read, live,
      [form EXCEPT !.asked = IF @ = None THEN First(SimLoops) ELSE @, !.auto = None],
      drag # None, due,
      {<<write[k], Cardinality({m \in WriteSlots : write[m] = write[k]})>> : k \in WriteSlots}>>

(* The state of the page shown: everything else is as it was opened.          *)
PageView ==
    <<page, CASE page = "users"      -> acctVars
              [] page = "alarms"     -> AlarmView
              [] page = "limits"     -> limitVars
              [] page = "sessions"   -> sessVars
              [] page = "tuning"     -> tuneVars
              [] page = "trend"      -> trendVars
              [] page = "multitrend" -> cellVars
              [] page = "framing"    -> framingVars
              [] page = "config"     -> ConfigView
              [] page = "faceplate"  -> FaceView
              [] page = "simulator"  -> TwinView
              [] page = "projects"   -> projVars
              [] page = "connection" -> opcuaVars
              [] page = "tags"       -> tagVars
              [] page = "theme"      -> themeVars
              [] page = "settings"   -> settingsVars
              [] page = "history"    -> historyVars
              [] page = "export"     -> exportVars
              [] page = "optimizer"  -> aiVars
              [] page = "charts"     -> chartVars
              [] page = "plot"       -> plotVars>>

HmiSpec == HmiInit /\ [][HmiNext]_hmiVars

-----------------------------------------------------------------------------
(* Type correctness of the page's state, and of what the daemon keeps for it. *)
HmiTypeOK ==
    /\ page = "users"      => AcctTypeOK
    /\ page = "alarms"     => AlarmTypeOK
    /\ page = "limits"     => LimitsTypeOK
    /\ page = "sessions"   => SessTypeOK
    /\ page = "tuning"     => TuneTypeOK
    /\ page = "trend"      => TrendTypeOK
    /\ page = "multitrend" => CellTypeOK
    /\ page = "framing"    => FramingTypeOK
    /\ page = "config"     => ConfigTypeOK
    /\ page = "faceplate"  => FaceTypeOK
    /\ page = "simulator"  => TwinTypeOK
    /\ page = "projects"   => ProjectTypeOK
    /\ page = "connection" => OpcuaTypeOK
    /\ page = "tags"       => TagTypeOK
    /\ page = "theme"      => ThemeTypeOK
    /\ page = "settings"   => SettingsTypeOK
    /\ page = "history"    => HistoryTypeOK
    /\ page = "export"     => ExportTypeOK
    /\ page = "optimizer"  => AiTypeOK
    /\ page = "charts"     => ChartTypeOK
    /\ page = "plot"       => PlotTypeOK

(* What is stored passes the checks of the page that wrote it and of the      *)
(* daemon that keeps it, in whatever order it was edited, saved and reloaded: *)
(* the alarm limits (AlarmLimitsPanel), the level band the optimizer runs and *)
(* the form that sends it (AiConfigSection), the preferences (SettingsForm)   *)
(* and the tags the picker binds (TagPicker).                                 *)
StoredIsSound ==
    /\ StoredLimitsOrdered
    /\ TypedBandRuns /\ FormKnowsTheDaemon
    /\ PreferencesAreValid /\ ThemeIsTheUsersChoice
    /\ BoundTagsAreVariables

(* What an operator sets up or types for one loop never reaches another one,  *)
(* whatever is selected in between: the framing of its trend (trendViewStore),*)
(* the twin's PID and output boxes (PIDSettings, TwinOutputModeControl), but  *)
(* for an output box mounted where no snapshot configures its loop, and the   *)
(* faceplate's output box.                                                    *)
DraftsStayWithTheirLoop ==
    FramingStaysWithItsLoop /\ TwinDraftsStayWithTheirLoop /\ OutputIsTypedOrShown

(* What a page shows once its requests are over is what it asked for: the     *)
(* twin's switches (useSimulator), the rows of the alarm history, the list of *)
(* the tag browser, the file of an export and the notice of a save. What its  *)
(* charts show once uPlot's commits are done is what they were framed to, or  *)
(* all of their data (MultiTrendChart, Trend).                                *)
SettledPageIsTrue ==
    /\ SettledIsShown /\ HistoryAnswersTheFilter /\ ListIsOfTheBox
    /\ FileIsOfTheLastExport /\ SavedNoticeIsTrue
    /\ ChartsAreAsFramed /\ AxisSpansTheData

(* A change of project or of server reaches all of the plant: limits, writer  *)
(* and name follow the open project, the loops shown do, and the endpoint the *)
(* client uses is the one stored, unless a start-up, a project that stores    *)
(* none, an outdated page or two crossed requests set them apart.             *)
PlantFollowsItsProject == PlantIsCoherent /\ RosterFollowsTheProject /\ EndpointIsStored
=============================================================================
