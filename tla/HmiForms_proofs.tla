--------------------------- MODULE HmiForms_proofs ---------------------------
(* Proofs about the forms and the requests of the pages: alarm limits,        *)
(* optimizer, settings, theme, tags, loop configuration, framings, history,   *)
(* exports and the axis of a plot. Each has an inductive invariant that its   *)
(* Init implies and each of its steps keeps; the theorems follow from it.     *)
EXTENDS AlarmLimits, AiDesk, SettingsDesk, ThemeDesk, TagDesk, LoopConfig, TrendFraming,
        HistoryDesk, ExportDesk, TrendPlot, FiniteSetTheorems, SequenceTheorems, TLAPS

-----------------------------------------------------------------------------
(* The alarm limits of one loop.                                          *)

\* What is stored and what is on its way there was validated.
LimitsInv == LimitsTypeOK /\ StoredLimitsOrdered /\ Ordered(saving.array)

\* No limits at all are ordered.
LEMMA NoLimitsOrdered == NoLimits \in Arrays /\ Ordered(NoLimits) /\ NotSaving.array = NoLimits
BY DEF NoLimits, Arrays, Ordered, NotSaving

\* The invariant holds at first.
LEMMA LimitsInitInv == LimitsInit => LimitsInv
BY NoLimitsOrdered DEF LimitsInit, LimitsInv, LimitsTypeOK, StoredLimitsOrdered, Ordered, NotSaving

\* Every step keeps the invariant.
LEMMA LimitsStepInv == LimitsInv /\ [LimitsNext]_limitVars => LimitsInv'
<1> SUFFICES ASSUME LimitsInv, [LimitsNext]_limitVars PROVE LimitsInv'
  OBVIOUS
<1> USE DEF LimitsInv, LimitsTypeOK
<1>1. ASSUME NEW c \in Chain, NEW v \in Levels \union {0}, EditLimit(c, v) PROVE LimitsInv'
  BY <1>1 DEF EditLimit, Arrays, StoredLimitsOrdered, Ordered
<1>2. ASSUME NEW a \in Arrays, OtherAdminSaves(a) PROVE LimitsInv'
  BY <1>2 DEF OtherAdminSaves, StoredLimitsOrdered, Ordered
<1>3. CASE SubmitLimits
  BY <1>3 DEF SubmitLimits, StoredLimitsOrdered, Ordered
<1>4. CASE StoreLimits
  <2>1. CASE limits' = saving.array /\ saving' = [saving EXCEPT !.stage = "saved"]
    BY <1>4, <2>1 DEF StoreLimits, StoredLimitsOrdered, Ordered
  <2>2. CASE UNCHANGED limits /\ saving' = [NotSaving EXCEPT !.stage = "refused"]
    BY <1>4, <2>2, NoLimitsOrdered
       DEF StoreLimits, NotSaving, StoredLimitsOrdered, Ordered
  <2> QED
    BY <1>4, <2>1, <2>2 DEF StoreLimits
<1>5. CASE LimitsSaved
  BY <1>5, NoLimitsOrdered DEF LimitsSaved, NotSaving, StoredLimitsOrdered, Ordered
<1>6. CASE LimitsRefused
  BY <1>6, NoLimitsOrdered DEF LimitsRefused, NotSaving, StoredLimitsOrdered, Ordered
<1>7. CASE ReopenForm
  BY <1>7 DEF ReopenForm, StoredLimitsOrdered, Ordered
<1>8. CASE UNCHANGED limitVars
  BY <1>8 DEF limitVars, StoredLimitsOrdered, Ordered
<1> QED
  BY <1>1, <1>2, <1>3, <1>4, <1>5, <1>6, <1>7, <1>8 DEF LimitsNext

\* The stored limits of a loop stay ordered with two administrators saving
\* over each other, for any chain of limits and any values (AlarmConfigForm,
\* PUT alarms).
THEOREM LimitsStayOrdered == LimitsSpec => [](LimitsTypeOK /\ StoredLimitsOrdered)
<1>1. LimitsSpec => []LimitsInv
  BY LimitsInitInv, LimitsStepInv, PTL DEF LimitsSpec
<1>2. LimitsInv => LimitsTypeOK /\ StoredLimitsOrdered
  BY DEF LimitsInv
<1> QED
  BY <1>1, <1>2, PTL

-----------------------------------------------------------------------------
(* The optimizer section.                                                 *)

\* The engine runs what is stored, which the DTO accepted; a form that was
\* refused had let its draft through.
AiInv ==
    /\ AiTypeOK
    /\ ~DaemonRefuses(aiStored) /\ aiRunning = Engine(aiStored)
    /\ aiDialog.stage = "refused" => DaemonRefuses(aiDialog.draft) /\ ~FormBlocks(aiDialog.draft)

\* The fields of a configuration.
LEMMA ConfigNumbers ==
  ASSUME NEW ai \in AiConfig
  PROVE  ai.lo \in Nat /\ ai.hi \in Nat /\ ai.limit_min \in Nat /\ ai.limit_max \in Nat
<1>1. Bounds \subseteq Nat /\ IntegralLimits \subseteq Nat
  BY AiAssumption DEF Bounds, Blank
<1>2. ai.lo \in Bounds /\ ai.hi \in Bounds /\ ai.limit_min \in IntegralLimits /\ ai.limit_max \in IntegralLimits
  BY DEF AiConfig
<1> QED
  BY <1>1, <1>2

\* The engine runs some band, whatever is configured.
LEMMA EngineBand == \A ai \in AiConfig : Engine(ai) \in Band
BY ConfigNumbers DEF Engine, Band, NoBand, Filled, DefaultLo, DefaultHi

\* A band the DTO accepted runs as it was typed.
LEMMA AcceptedBandRuns ==
  ASSUME NEW ai \in AiConfig, ~DaemonRefuses(ai), Banded(ai), BothTyped(ai)
  PROVE  Engine(ai) = [lo |-> ai.lo, hi |-> ai.hi]
BY ConfigNumbers DEF DaemonRefuses, BothTyped, Engine, Filled

\* With the band on screen the form checks what the DTO checks.
LEMMA FormChecksTheBand ==
  ASSUME NEW ai \in AiConfig, ~FormBlocks(ai), Banded(ai)
  PROVE  ~DaemonRefuses(ai)
BY ConfigNumbers DEF DaemonRefuses, FormBlocks, Banded

\* The invariant holds at first.
LEMMA AiInitInv == AiInit => AiInv
BY EngineBand DEF AiInit, AiInv, AiTypeOK

\* An edit of the draft keeps it a configuration.
LEMMA EditedConfig ==
  ASSUME NEW ai \in AiConfig
  PROVE  /\ \A e \in {"NONE", "FUZZY"} : [ai EXCEPT !.engine = e] \in AiConfig
         /\ \A o \in {"SURGE_LEVEL", "OTHER"} : [ai EXCEPT !.objective = o] \in AiConfig
         /\ \A l \in IntegralLimits : \A side \in {"limit_min", "limit_max"} : [ai EXCEPT ![side] = l] \in AiConfig
         /\ \A b \in Bounds : \A side \in {"lo", "hi"} : [ai EXCEPT ![side] = b] \in AiConfig
<1>1. /\ \A e \in {"NONE", "FUZZY"} : [ai EXCEPT !.engine = e] \in AiConfig
      /\ \A o \in {"SURGE_LEVEL", "OTHER"} : [ai EXCEPT !.objective = o] \in AiConfig
  BY DEF AiConfig
<1>2. ASSUME NEW l \in IntegralLimits, NEW side \in {"limit_min", "limit_max"} PROVE [ai EXCEPT ![side] = l] \in AiConfig
  BY <1>2 DEF AiConfig
<1>3. ASSUME NEW b \in Bounds, NEW side \in {"lo", "hi"} PROVE [ai EXCEPT ![side] = b] \in AiConfig
  BY <1>3 DEF AiConfig
<1> QED
  BY <1>1, <1>2, <1>3

\* Every step keeps the invariant.
LEMMA AiStepInv == AiInv /\ [AiNext]_aiVars => AiInv'
<1> SUFFICES ASSUME AiInv, [AiNext]_aiVars PROVE AiInv'
  OBVIOUS
<1> USE DEF AiInv, AiTypeOK
<1>1. CASE OpenAi \/ CloseAi
  BY <1>1 DEF OpenAi, CloseAi
<1>2. CASE EditAi
  <2>1. /\ UNCHANGED <<aiStored, aiRunning>> /\ \E d \in AiConfig : aiDialog' = [stage |-> "open", draft |-> d]
    BY <1>2, EditedConfig DEF EditAi
  <2> QED
    BY <2>1
<1>3. CASE SaveAi
  <2>1. CASE DaemonRefuses(aiDialog.draft)
    BY <1>3, <2>1 DEF SaveAi
  <2>2. CASE ~DaemonRefuses(aiDialog.draft)
    BY <1>3, <2>2, EngineBand DEF SaveAi, Stores
  <2> QED
    BY <2>1, <2>2
<1>4. CASE ApiWrites
  BY <1>4, EngineBand DEF ApiWrites, Stores
<1>5. CASE UNCHANGED aiVars
  BY <1>5 DEF aiVars
<1> QED
  BY <1>1, <1>2, <1>3, <1>4, <1>5 DEF AiNext

\* The invariant gives the two properties.
LEMMA AiBand == AiInv => TypedBandRuns /\ FormKnowsTheDaemon
BY AcceptedBandRuns, FormChecksTheBand DEF AiInv, AiTypeOK, TypedBandRuns, FormKnowsTheDaemon

\* With both bounds typed the engine tunes against the band on screen, and a
\* form that shows the band lets nothing through that the daemon refuses; for
\* any percents and integral limits (AiConfigSection, AIConfigDTO).
THEOREM BandOnScreenRuns == AiSpec => [](AiTypeOK /\ TypedBandRuns /\ FormKnowsTheDaemon)
<1>1. AiSpec => []AiInv
  BY AiInitInv, AiStepInv, PTL DEF AiSpec
<1>2. AiInv => AiTypeOK /\ TypedBandRuns /\ FormKnowsTheDaemon
  BY AiBand DEF AiInv
<1> QED
  BY <1>1, <1>2, PTL

-----------------------------------------------------------------------------
(* The settings page.                                                     *)

\* The inductive invariant: the types and the two properties.
SettingsInv == SettingsTypeOK /\ PreferencesAreValid /\ SavedNoticeIsTrue

\* The records of the model.
BoxValues == [Boxes -> PrefValues \union {Rejected}]
PrefsType == [stored : BoxValues, snapshot : BoxValues, draft : BoxValues, saved : BOOLEAN]
DeskType == [cached : SUBSET LogLevels, ticked : [touched : BOOLEAN, set : SUBSET LogLevels],
             stage : {"loading", "ready", "failed", "saving", "applied"}]
\* Preferences that may be stored.
Storable(raw) == raw = NoPreferences \/ \A b \in Boxes : raw[b] \in PrefValues

\* The defaults, none, and a rejected box, typed.
LEMMA PreferenceTypes ==
  /\ DefaultPreferences \in BoxValues /\ NoPreferences \in BoxValues
  /\ \A b \in Boxes : DefaultPreferences[b] \in PrefValues
  /\ \A raw \in BoxValues : Storable(raw) => Load(raw) \in BoxValues /\ \A b \in Boxes : Load(raw)[b] \in PrefValues
  /\ \A raw \in [Boxes -> PrefValues] \union {NoPreferences} : raw \in BoxValues /\ Storable(raw)
<1>1. /\ DefaultPreferences \in BoxValues /\ NoPreferences \in BoxValues
      /\ \A b \in Boxes : DefaultPreferences[b] \in PrefValues
  BY SettingsAssumption DEF DefaultPreferences, NoPreferences, BoxValues
<1>2. \A raw \in [Boxes -> PrefValues] \union {NoPreferences} : raw \in BoxValues /\ Storable(raw)
  BY <1>1 DEF BoxValues, Storable
<1> QED
  BY <1>1, <1>2 DEF Load, Storable

\* The invariant holds at first.
LEMMA SettingsInitInv == SettingsInit => SettingsInv
<1> SUFFICES ASSUME SettingsInit PROVE SettingsInv
  OBVIOUS
<1>1. PICK raw \in [Boxes -> PrefValues] \union {NoPreferences} :
         prefs = [stored |-> raw, snapshot |-> Load(raw), draft |-> Load(raw), saved |-> FALSE]
  BY DEF SettingsInit
<1>2. prefs \in PrefsType /\ PreferencesAreValid /\ SavedNoticeIsTrue
  BY <1>1, PreferenceTypes DEF PrefsType, PreferencesAreValid, SavedNoticeIsTrue, Storable
<1>3. 0 \in 0 .. MaxApplies
  BY SettingsAssumption
<1> QED
  BY <1>2, <1>3 DEF SettingsInit, SettingsInv, SettingsTypeOK, PrefsType, BoxValues, Untouched

\* A step of the preferences.
LEMMA PrefsStep ==
  ASSUME SettingsInv, prefs' \in PrefsType, PreferencesAreValid', SavedNoticeIsTrue', UNCHANGED levels,
         levelDesk' \in DeskType
  PROVE  SettingsInv'
BY DEF SettingsInv, SettingsTypeOK, PrefsType, BoxValues, DeskType

\* A step of the log levels.
LEMMA LevelsStep ==
  ASSUME SettingsInv, UNCHANGED prefs, levelDesk' \in DeskType,
         levels' \in [active : SUBSET LogLevels, sent : 0 .. MaxApplies]
  PROVE  SettingsInv'
BY DEF SettingsInv, SettingsTypeOK, DeskType, PreferencesAreValid, SavedNoticeIsTrue

\* Every step keeps the invariant.
LEMMA SettingsStepInv == SettingsInv /\ [SettingsNext]_settingsVars => SettingsInv'
<1> SUFFICES ASSUME SettingsInv, [SettingsNext]_settingsVars PROVE SettingsInv'
  OBVIOUS
<1>0. /\ prefs \in PrefsType /\ levelDesk \in DeskType /\ Storable(prefs.stored)
      /\ \A b \in Boxes : prefs.snapshot[b] \in PrefValues
      /\ prefs.saved => prefs.draft = prefs.snapshot
      /\ levels \in [active : SUBSET LogLevels, sent : 0 .. MaxApplies]
  BY DEF SettingsInv, SettingsTypeOK, PrefsType, BoxValues, DeskType, Storable, PreferencesAreValid, SavedNoticeIsTrue
<1> USE DEF PreferencesAreValid, SavedNoticeIsTrue, Storable
<1>1. CASE PatchBox
  <2>1. PICK b \in Boxes, v \in PrefValues \union {Rejected} :
           prefs' = [prefs EXCEPT !.draft[b] = v, !.saved = PatchedNotice(prefs)]
    BY <1>1 DEF PatchBox
  <2>2. prefs' = [stored |-> prefs.stored, snapshot |-> prefs.snapshot,
                  draft |-> [prefs.draft EXCEPT ![b] = v], saved |-> FALSE]
    BY <1>0, <2>1 DEF PrefsType, PatchedNotice
  <2>3. [prefs.draft EXCEPT ![b] = v] \in BoxValues
    BY <1>0 DEF PrefsType, BoxValues
  <2> QED
    BY <1>0, <1>1, <2>2, <2>3, PrefsStep DEF PatchBox, PrefsType
<1>2. CASE SavePreferences
  <2>1. PICK raw \in {prefs.draft, prefs.stored} :
           prefs' = [prefs EXCEPT !.snapshot = prefs.draft, !.stored = raw, !.saved = TRUE]
    BY <1>2 DEF SavePreferences
  <2>2. prefs' = [stored |-> raw, snapshot |-> prefs.draft, draft |-> prefs.draft, saved |-> TRUE]
    BY <1>0, <2>1 DEF PrefsType
  <2>3. \A b \in Boxes : prefs.draft[b] \in PrefValues
    BY <1>0, <1>2 DEF SavePreferences, AcceptsBoxes, PrefsType, BoxValues
  <2> QED
    BY <1>0, <1>2, <2>2, <2>3, PrefsStep DEF SavePreferences, PrefsType
<1>3. CASE ResetPreferences
  BY <1>0, <1>3, PreferenceTypes, PrefsStep DEF ResetPreferences, PrefsType
<1>4. CASE OtherTabSaves
  <2>1. PICK raw \in [Boxes -> PrefValues] \union {NoPreferences} : prefs' = [prefs EXCEPT !.stored = raw]
    BY <1>4 DEF OtherTabSaves
  <2>2. prefs' = [stored |-> raw, snapshot |-> prefs.snapshot, draft |-> prefs.draft, saved |-> prefs.saved]
    BY <1>0, <2>1 DEF PrefsType
  <2>3. raw \in BoxValues /\ Storable(raw)
    BY PreferenceTypes
  <2> QED
    BY <1>0, <1>4, <2>2, <2>3, PrefsStep DEF OtherTabSaves, PrefsType
<1>5. CASE ReopenSettings
  <2>1. prefs' = [stored |-> prefs.stored, snapshot |-> prefs.snapshot, draft |-> prefs.snapshot, saved |-> FALSE]
    BY <1>0, <1>5 DEF ReopenSettings, PrefsType
  <2>2. levelDesk' \in DeskType
    BY <1>0, <1>5 DEF ReopenSettings, DeskType, Untouched
  <2> QED
    BY <1>0, <1>5, <2>1, <2>2, PrefsStep DEF ReopenSettings, PrefsType
<1>6. CASE ReloadTab
  <2>1. prefs' = [stored |-> prefs.stored, snapshot |-> Load(prefs.stored), draft |-> Load(prefs.stored), saved |-> FALSE]
    BY <1>0, <1>6 DEF ReloadTab, PrefsType
  <2>2. levelDesk' \in DeskType
    BY <1>0, <1>6 DEF ReloadTab, DeskType, Untouched
  <2>3. Load(prefs.stored) \in BoxValues /\ \A b \in Boxes : Load(prefs.stored)[b] \in PrefValues
    BY <1>0, PreferenceTypes DEF PrefsType
  <2> QED
    BY <1>0, <1>6, <2>1, <2>2, <2>3, PrefsStep DEF ReloadTab, PrefsType
<1>7. CASE LevelsLand
  <2>1. levelDesk' \in DeskType
    BY <1>0, <1>7 DEF LevelsLand, DeskType
  <2> QED
    BY <1>0, <1>7, <2>1, LevelsStep DEF LevelsLand
<1>8. Ticked \in SUBSET LogLevels
  BY <1>0 DEF Ticked, DeskType
<1>9. CASE TickLevel
  <2>1. levelDesk' \in DeskType
    <3>1. PICK level \in LogLevels :
             levelDesk' = [levelDesk EXCEPT !.ticked = Ticking(Toggled(Ticked, level))]
      BY <1>9 DEF TickLevel
    <3>2. Toggled(Ticked, level) \in SUBSET LogLevels
      BY <1>8 DEF Toggled
    <3> QED
      BY <1>0, <3>1, <3>2 DEF DeskType, Ticking
  <2> QED
    BY <1>0, <1>9, <2>1, LevelsStep DEF TickLevel
<1>10. CASE ApplyLevels
  <2>1. levelDesk' \in DeskType
    BY <1>0, <1>8, <1>10 DEF ApplyLevels, DeskType, Ticking
  <2>2. levels' \in [active : SUBSET LogLevels, sent : 0 .. MaxApplies]
    BY <1>0, <1>8, <1>10, SettingsAssumption DEF ApplyLevels
  <2> QED
    BY <1>10, <2>1, <2>2, LevelsStep DEF ApplyLevels
<1>11. CASE ApplyAnswered
  <2>1. levelDesk' \in DeskType
    BY <1>0, <1>11 DEF ApplyAnswered, DeskType
  <2> QED
    BY <1>0, <1>11, <2>1, LevelsStep DEF ApplyAnswered
<1>12. CASE OtherSetsLevels
  <2>1. levels' \in [active : SUBSET LogLevels, sent : 0 .. MaxApplies]
    BY <1>0, <1>12, SettingsAssumption DEF OtherSetsLevels
  <2> QED
    BY <1>0, <1>12, <2>1, LevelsStep DEF OtherSetsLevels
<1>13. CASE UNCHANGED settingsVars
  BY <1>13 DEF settingsVars, SettingsInv, SettingsTypeOK
<1> QED
  BY <1>1, <1>2, <1>3, <1>4, <1>5, <1>6, <1>7, <1>9, <1>10, <1>11, <1>12, <1>13 DEF SettingsNext

\* A rejected box reaches neither the preferences in use nor those stored, and
\* the notice of a save is true, in whatever order boxes are typed, saved,
\* reset and reloaded; for any values and levels (SettingsForm).
THEOREM PreferencesStayValid == SettingsSpec => [](SettingsTypeOK /\ PreferencesAreValid /\ SavedNoticeIsTrue)
<1>1. SettingsSpec => []SettingsInv
  BY SettingsInitInv, SettingsStepInv, PTL DEF SettingsSpec
<1>2. SettingsInv => SettingsTypeOK /\ PreferencesAreValid /\ SavedNoticeIsTrue
  BY DEF SettingsInv
<1> QED
  BY <1>1, <1>2, PTL

-----------------------------------------------------------------------------
(* The theme of a user.                                                   *)

\* The records of the model.
SessionType == [user : ThemeUsers \union {LoggedOut}, fetched : Themes \union {NoTheme},
                synced : Themes \union {NoTheme}]
StationType == [theme : Themes, session : SessionType, dirty : BOOLEAN]

\* A station that has a change to send has a user, and once its session has
\* adopted a theme, what it shows is that one or one the user picked.
StationSound(st, chosen) ==
    /\ st.dirty => st.session.user # LoggedOut
    /\ st.session.user # LoggedOut /\ st.session.synced # NoTheme =>
          st.theme = st.session.synced \/ st.theme \in chosen[st.session.user]

\* And so has each station.
StationsAreSound == \A s \in Stations : StationSound(station[s], picks.chosen)

\* What is on its way was chosen by its user.
PushesAreChosen == \A p \in pushes : p.theme \in picks.chosen[p.user]

\* The inductive invariant: types, stations, and the writes on their way.
ThemeInv == ThemeTypeOK /\ StationsAreSound /\ PushesAreChosen /\ ThemeIsTheUsersChoice

\* No theme and no user are none of them.
LEMMA ThemeValues == NoTheme \notin Themes /\ LoggedOut \notin ThemeUsers /\ MaxPicks \in Nat
BY ThemeAssumption DEF NoTheme, LoggedOut

\* The fields of a station.
LEMMA StationFields ==
  ASSUME NEW st \in StationType, NEW x \in SessionType, NEW t \in Themes
  PROVE  /\ [st EXCEPT !.session = x, !.dirty = TRUE] \in StationType
         /\ [st EXCEPT !.session = x, !.dirty = TRUE].session = x
         /\ [st EXCEPT !.session = x, !.dirty = FALSE] \in StationType
         /\ [st EXCEPT !.session = x, !.dirty = FALSE].session = x
         /\ [st EXCEPT !.session = x, !.dirty = FALSE].dirty = FALSE
         /\ [st EXCEPT !.theme = t, !.dirty = TRUE] \in StationType
         /\ [st EXCEPT !.theme = t, !.dirty = TRUE].session = st.session
         /\ [st EXCEPT !.theme = t, !.dirty = TRUE].theme = t
BY DEF StationType, SessionType

\* The invariant holds at first.
LEMMA ThemeInitInv == ThemeInit => ThemeInv
<1> SUFFICES ASSUME ThemeInit PROVE ThemeInv
  OBVIOUS
<1>1. PICK t \in [Stations -> Themes] :
         station = [s \in Stations |-> [theme |-> t[s], session |-> OutOfSession, dirty |-> FALSE]]
  BY DEF ThemeInit
<1>2. station \in [Stations -> StationType]
  BY <1>1 DEF StationType, SessionType, OutOfSession
<1>3. StationsAreSound
  BY <1>1 DEF StationsAreSound, StationSound, OutOfSession
<1>4. picks \in [chosen : [ThemeUsers -> SUBSET Themes], count : 0 .. MaxPicks]
  <2>1. \A u \in ThemeUsers : {account[u]} \ {NoTheme} \in SUBSET Themes
    BY DEF ThemeInit
  <2>2. 0 \in 0 .. MaxPicks
    BY ThemeValues
  <2> QED
    BY <2>1, <2>2 DEF ThemeInit
<1>5. ThemeIsTheUsersChoice
  BY DEF ThemeInit, ThemeIsTheUsersChoice
<1> QED
  BY <1>2, <1>3, <1>4, <1>5
  DEF ThemeInit, ThemeInv, ThemeTypeOK, StationType, SessionType, PushesAreChosen

\* A step of one station that picks nothing.
LEMMA StationStep ==
  ASSUME ThemeInv, NEW s \in Stations, NEW st \in StationType, StationSound(st, picks.chosen),
         station' = [station EXCEPT ![s] = st], UNCHANGED <<account, picks>>,
         pushes' \subseteq ThemePush, PushesAreChosen'
  PROVE  ThemeInv'
<1>1. station \in [Stations -> StationType]
  BY DEF ThemeInv, ThemeTypeOK, StationType, SessionType
<1>2. station' \in [Stations -> StationType] /\ StationsAreSound'
  BY <1>1 DEF ThemeInv, StationsAreSound
<1> QED
  BY <1>2 DEF ThemeInv, ThemeTypeOK, StationType, SessionType, ThemeIsTheUsersChoice

\* Every step keeps the invariant.
LEMMA ThemeStepInv == ThemeInv /\ [ThemeNext]_themeVars => ThemeInv'
<1> SUFFICES ASSUME ThemeInv, [ThemeNext]_themeVars PROVE ThemeInv'
  OBVIOUS
<1>0. /\ station \in [Stations -> StationType] /\ account \in [ThemeUsers -> Themes \union {NoTheme}]
      /\ pushes \subseteq ThemePush
      /\ picks \in [chosen : [ThemeUsers -> SUBSET Themes], count : 0 .. MaxPicks]
      /\ StationsAreSound /\ PushesAreChosen /\ ThemeIsTheUsersChoice
  BY DEF ThemeInv, ThemeTypeOK, StationType, SessionType
<1>1. ASSUME NEW s \in Stations, NEW u \in ThemeUsers, LogIn(s, u) PROVE ThemeInv'
  <2> DEFINE x == [user |-> u, fetched |-> account[u], synced |-> NoTheme]
             st == [station[s] EXCEPT !.session = x, !.dirty = TRUE]
  <2>1. x \in SessionType /\ x.synced = NoTheme /\ x.user # LoggedOut
    BY <1>0, ThemeValues DEF SessionType
  <2>2. station' = [station EXCEPT ![s].session = x, ![s].dirty = TRUE]
    BY <1>1 DEF LogIn
  <2> HIDE DEF x
  <2>3. station' = [station EXCEPT ![s] = st]
    BY <1>0, <2>2
  <2>4. st \in StationType /\ st.session = x
    <3>1. station[s] \in StationType /\ station[s].theme \in Themes
      BY <1>0 DEF StationType
    <3> QED
      BY <2>1, <3>1, StationFields, Zenon
  <2> HIDE DEF st
  <2>5. StationSound(st, picks.chosen)
    BY <2>1, <2>4 DEF StationSound
  <2> QED
    BY <1>0, <1>1, <2>3, <2>4, <2>5, StationStep DEF LogIn, PushesAreChosen
<1>2. ASSUME NEW s \in Stations, LogOut(s) PROVE ThemeInv'
  <2> DEFINE st == [station[s] EXCEPT !.session = OutOfSession, !.dirty = FALSE]
  <2>1. OutOfSession \in SessionType /\ OutOfSession.user = LoggedOut
    BY DEF SessionType, OutOfSession
  <2>2. station' = [station EXCEPT ![s].session = OutOfSession, ![s].dirty = FALSE]
    BY <1>2 DEF LogOut
  <2>3. station' = [station EXCEPT ![s] = st]
    BY <1>0, <2>2
  <2>4. st \in StationType /\ st.session = OutOfSession /\ ~st.dirty
    <3>1. station[s] \in StationType /\ station[s].theme \in Themes
      BY <1>0 DEF StationType
    <3> QED
      BY <2>1, <3>1, StationFields, Zenon
  <2> HIDE DEF st
  <2>5. StationSound(st, picks.chosen)
    BY <2>1, <2>4 DEF StationSound
  <2> QED
    BY <1>0, <1>2, <2>3, <2>4, <2>5, StationStep DEF LogOut, PushesAreChosen
<1>3. ASSUME NEW s \in Stations, NEW t \in Themes, PickTheme(s, t) PROVE ThemeInv'
  <2> DEFINE u == station[s].session.user
             st == [station[s] EXCEPT !.theme = t, !.dirty = TRUE]
             chosen == [picks.chosen EXCEPT ![u] = @ \union {t}]
  <2>1. /\ u # LoggedOut /\ picks.count < MaxPicks /\ UNCHANGED <<account, pushes>>
        /\ picks' = [chosen |-> chosen, count |-> picks.count + 1]
        /\ station' = [station EXCEPT ![s].theme = t, ![s].dirty = TRUE]
    BY <1>3 DEF PickTheme
  <2>2. u \in ThemeUsers /\ station[s] \in StationType /\ station[s].session \in SessionType
    BY <1>0, <2>1 DEF StationType, SessionType
  <2>3. chosen \in [ThemeUsers -> SUBSET Themes] /\ t \in chosen[u]
        /\ \A v \in ThemeUsers : picks.chosen[v] \subseteq chosen[v]
    BY <1>0, <2>2
  <2>4. picks' \in [chosen : [ThemeUsers -> SUBSET Themes], count : 0 .. MaxPicks] /\ picks'.chosen = chosen
    BY <1>0, <2>1, <2>3, ThemeValues
  <2>5. station' = [station EXCEPT ![s] = st] /\ st \in StationType
    <3>1. station' = [station EXCEPT ![s] = st]
      BY <1>0, <2>1
    <3>2. st \in StationType
      BY <2>2, StationFields
    <3> QED
      BY <3>1, <3>2
  <2>6. st.session.user = u /\ st.theme = t /\ (st.dirty => u # LoggedOut)
    BY <2>1, <2>2, StationFields, Zenon
  <2> HIDE DEF chosen, st
  <2>7. StationSound(st, chosen)
    BY <2>1, <2>3, <2>6 DEF StationSound
  <2>8. ASSUME NEW r \in Stations, r # s PROVE StationSound(station[r], chosen)
    <3>1. station[r].session.user # LoggedOut => station[r].session.user \in ThemeUsers
      BY <1>0 DEF StationType, SessionType
    <3> QED
      BY <1>0, <2>3, <3>1 DEF StationsAreSound, StationSound
  <2>9. station' \in [Stations -> StationType] /\ StationsAreSound'
    BY <1>0, <2>4, <2>5, <2>7, <2>8 DEF StationsAreSound
  <2>10. PushesAreChosen' /\ ThemeIsTheUsersChoice'
    <3>1. \A p \in pushes : p.user \in ThemeUsers
      BY <1>0 DEF ThemePush
    <3> QED
      BY <1>0, <2>1, <2>3, <2>4, <3>1 DEF PushesAreChosen, ThemeIsTheUsersChoice
  <2> QED
    BY <1>0, <2>1, <2>4, <2>9, <2>10 DEF ThemeInv, ThemeTypeOK, StationType, SessionType
<1>4. ASSUME NEW s \in Stations, Sync(s) PROVE ThemeInv'
  <2> DEFINE old == station[s]
             now == IF old.session.synced = NoTheme THEN Adopted(old) ELSE old.theme
             st == [theme |-> now,
                    session |-> [user |-> old.session.user, fetched |-> old.session.fetched,
                                 synced |-> now], dirty |-> FALSE]
  <2>1. /\ old.dirty /\ UNCHANGED <<account, picks>>
        /\ station' = [station EXCEPT ![s].theme = now, ![s].session.synced = now, ![s].dirty = FALSE]
        /\ pushes' = pushes \union {[user |-> old.session.user, theme |-> t, nr |-> picks.count] : t \in Sends(old)}
    BY <1>4 DEF Sync
  <2>2. old \in StationType /\ old.session \in SessionType /\ now \in Themes
    BY <1>0 DEF StationType, SessionType, Adopted
  <2>3. station' = [station EXCEPT ![s] = st] /\ st \in StationType
    BY <1>0, <2>1, <2>2 DEF StationType, SessionType
  <2>4. StationSound(st, picks.chosen)
    BY DEF StationSound
  <2>5. ASSUME NEW t \in Sends(old)
        PROVE  /\ [user |-> old.session.user, theme |-> t, nr |-> picks.count] \in ThemePush
               /\ t \in picks.chosen[old.session.user]
    <3>1. old.session.user \in ThemeUsers /\ t \in Themes
      BY <1>0, <2>1, <2>2, <2>5 DEF StationsAreSound, StationSound, Sends, SessionType, StationType
    <3>2. t \in picks.chosen[old.session.user]
      BY <1>0, <2>1, <2>5 DEF StationsAreSound, StationSound, Sends
    <3> QED
      BY <1>0, <3>1, <3>2 DEF ThemePush
  <2> HIDE DEF now, st, old
  <2>6. pushes' \subseteq ThemePush /\ PushesAreChosen'
    BY <1>0, <2>1, <2>5 DEF PushesAreChosen
  <2> QED
    BY <2>1, <2>3, <2>4, <2>6, StationStep
<1>5. CASE PushLands
  <2>1. PICK p \in pushes : pushes' = pushes \ {p} /\ account' = [account EXCEPT ![p.user] = p.theme]
    BY <1>5 DEF PushLands
  <2>2. p.user \in ThemeUsers /\ p.theme \in Themes /\ UNCHANGED <<station, picks>>
    BY <1>0, <1>5 DEF ThemePush, PushLands
  <2> QED
    BY <1>0, <2>1, <2>2 DEF ThemeInv, ThemeTypeOK, StationsAreSound, PushesAreChosen, ThemeIsTheUsersChoice
<1>6. CASE PushLost
  BY <1>6 DEF PushLost, ThemeInv, ThemeTypeOK, StationsAreSound, PushesAreChosen, ThemeIsTheUsersChoice
<1>7. CASE UNCHANGED themeVars
  BY <1>7 DEF themeVars, ThemeInv, ThemeTypeOK, StationsAreSound, PushesAreChosen, ThemeIsTheUsersChoice
<1> QED
  BY <1>1, <1>2, <1>3, <1>4, <1>5, <1>6, <1>7 DEF ThemeNext

\* An account only ever holds a theme its user chose, whatever writes are lost
\* or overtake each other; for any users, themes and stations (ThemeSync).
THEOREM AccountKeepsItsTheme == ThemeSpec => [](ThemeTypeOK /\ ThemeIsTheUsersChoice)
<1>1. ThemeSpec => []ThemeInv
  BY ThemeInitInv, ThemeStepInv, PTL DEF ThemeSpec
<1>2. ThemeInv => ThemeTypeOK /\ ThemeIsTheUsersChoice
  BY DEF ThemeInv
<1> QED
  BY <1>1, <1>2, PTL

-----------------------------------------------------------------------------
(* The tag browser.                                                       *)

\* The inductive invariant: the types and the two properties.
TagInv == TagTypeOK /\ BoundTagsAreVariables /\ ListIsOfTheBox

\* The folders, and the records of the model.
Folders == TagNodes \ TagVariables
BoxType == [text : Texts, settled : Texts, timer : BOOLEAN]
ListingType == [stage : {"pending", "error", "shown"}, nodes : SUBSET TagNodes]
BindingType == [open : Bindable \union {NoField}, pasted : SUBSET Bindable,
                id : [Bindable -> TagNodes \union {Unbound}]]

\* The folders entered are a sequence of bounded length.
LEMMA TrailIsBounded ==
  ASSUME NEW S, NEW n \in Nat
  PROVE  \A t : t \in BoundedSeq(S, n) <=> t \in Seq(S) /\ Len(t) <= n
<1>1. ASSUME NEW t \in BoundedSeq(S, n) PROVE t \in Seq(S) /\ Len(t) <= n
  <2>1. PICK m \in 0 .. n : t \in [1 .. m -> S]
    BY DEF BoundedSeq, SeqOf
  <2>2. t \in Seq(S)
    BY <2>1
  <2>3. Len(t) = m
    BY <2>1, <2>2
  <2> QED
    BY <2>1, <2>2, <2>3
<1>2. ASSUME NEW t \in Seq(S), Len(t) <= n PROVE t \in BoundedSeq(S, n)
  <2>1. Len(t) \in 0 .. n /\ t \in [1 .. Len(t) -> S]
    BY <1>2
  <2> QED
    BY <2>1 DEF BoundedSeq, SeqOf
<1> QED
  BY <1>1, <1>2

\* The types, with the trail as a sequence.
LEMMA TagTypes ==
  TagTypeOK <=> /\ box \in BoxType /\ trail \in Seq(Folders) /\ Len(trail) <= MaxTrail
                /\ listing \in ListingType /\ binding \in BindingType
BY TrailIsBounded, TagAssumption DEF TagTypeOK, BoxType, ListingType, BindingType, Folders

\* And after a step.
LEMMA TagTypesNext ==
  TagTypeOK' <=> /\ box' \in BoxType /\ trail' \in Seq(Folders) /\ Len(trail') <= MaxTrail
                 /\ listing' \in ListingType /\ binding' \in BindingType
BY TrailIsBounded, TagAssumption DEF TagTypeOK, BoxType, ListingType, BindingType, Folders

\* A box whose timer is set.
LEMMA TimedBox ==
  ASSUME NEW b \in BoxType
  PROVE  /\ [b EXCEPT !.timer = TRUE] \in BoxType /\ [b EXCEPT !.timer = TRUE].timer
         /\ [b EXCEPT !.timer = TRUE].text = b.text
         /\ [b EXCEPT !.timer = TRUE].settled = b.settled
BY DEF BoxType

\* The browser as it is mounted.
LEMMA FreshBrowser ==
  /\ [Rested EXCEPT !.timer = TRUE] \in BoxType /\ [Rested EXCEPT !.timer = TRUE].timer
  /\ Pending \in ListingType /\ Pending.stage = "pending" /\ <<>> \in Seq(Folders) /\ Len(<<>>) <= MaxTrail
<1>1. Rested \in BoxType
  BY DEF Rested, BoxType, Texts
<1>2. [Rested EXCEPT !.timer = TRUE] \in BoxType /\ [Rested EXCEPT !.timer = TRUE].timer
  BY <1>1, TimedBox, Zenon
<1>3. Pending \in ListingType /\ Pending.stage = "pending"
  BY DEF Pending, ListingType
<1>4. <<>> \in Seq(Folders) /\ Len(<<>>) = 0
  BY EmptySeq
<1>5. 0 <= MaxTrail
  BY TagAssumption
<1> QED
  BY <1>2, <1>3, <1>4, <1>5

\* The invariant holds at first.
LEMMA TagInitInv == TagInit => TagInv
<1> SUFFICES ASSUME TagInit PROVE TagInv
  OBVIOUS
<1>1. binding \in BindingType /\ BoundTagsAreVariables
  BY TagAssumption DEF TagInit, BindingType, BoundTagsAreVariables
<1>2. TagTypeOK
  BY <1>1, FreshBrowser, TagTypes DEF TagInit
<1>3. ListIsOfTheBox
  BY FreshBrowser DEF TagInit, ListIsOfTheBox
<1> QED
  BY <1>1, <1>2, <1>3 DEF TagInv

\* A step of the browser that binds nothing.
LEMMA BrowserStep ==
  ASSUME TagInv, UNCHANGED binding, box' \in BoxType, trail' \in Seq(Folders), Len(trail') <= MaxTrail,
         listing' \in ListingType, ListIsOfTheBox'
  PROVE  TagInv'
BY TagTypes, TagTypesNext DEF TagInv, BoundTagsAreVariables

\* The browser is mounted anew.
LEMMA RemountStep ==
  ASSUME TagInv, binding' \in BindingType, BoundTagsAreVariables',
         box' = [Rested EXCEPT !.timer = TRUE], trail' = <<>>, listing' = Pending
  PROVE  TagInv'
BY FreshBrowser, TagTypesNext DEF TagInv, ListIsOfTheBox

\* Every step keeps the invariant.
LEMMA TagStepInv == TagInv /\ [TagNext]_tagVars => TagInv'
<1> SUFFICES ASSUME TagInv, [TagNext]_tagVars PROVE TagInv'
  OBVIOUS
<1>0. /\ box \in BoxType /\ trail \in Seq(Folders) /\ Len(trail) <= MaxTrail
      /\ listing \in ListingType /\ binding \in BindingType /\ MaxTrail \in Nat
      /\ TagVariables \subseteq TagNodes /\ BoundTagsAreVariables
      /\ ~box.timer => box.settled = box.text
      /\ listing.stage = "shown" /\ ~Searching => listing.nodes = Children(CurrentFolder)
  BY TagTypes, TagAssumption DEF TagInv, ListIsOfTheBox
<1>1. CASE TypeQuery
  <2>1. PICK text \in Texts : box' = [box EXCEPT !.text = text, !.timer = TRUE]
    BY <1>1 DEF TypeQuery
  <2>2. box' \in BoxType /\ box'.settled = box.settled /\ box'.timer /\ UNCHANGED <<trail, listing, binding>>
    BY <1>0, <1>1, <2>1 DEF TypeQuery, BoxType
  <2>3. ListIsOfTheBox'
    BY <1>0, <2>2 DEF ListIsOfTheBox, Searching, CurrentFolder, Children
  <2> QED
    BY <1>0, <2>2, <2>3, BrowserStep
<1>2. CASE DebounceEnds
  <2>1. box' = [box EXCEPT !.settled = box.text, !.timer = FALSE] /\ UNCHANGED <<trail, binding>>
        /\ listing' = IF box.text = box.settled THEN listing ELSE Pending
    BY <1>2 DEF DebounceEnds
  <2>2. box' \in BoxType /\ box'.settled = box.text /\ box'.text = box.text
    BY <1>0, <2>1 DEF BoxType
  <2>3. ListIsOfTheBox'
    BY <1>0, <2>1, <2>2, FreshBrowser DEF ListIsOfTheBox, Searching, CurrentFolder, Children
  <2>4. listing' \in ListingType
    BY <1>0, <2>1, FreshBrowser
  <2> QED
    BY <1>0, <2>1, <2>2, <2>3, <2>4, BrowserStep
<1>3. CASE ListingLands
  <2>1. UNCHANGED <<box, trail, binding>>
        /\ \/ \E found \in TagAnswers : listing' = [stage |-> "shown", nodes |-> found]
           \/ listing' = [Pending EXCEPT !.stage = "error"]
    BY <1>3 DEF ListingLands
  <2>2. CASE listing' = [Pending EXCEPT !.stage = "error"]
    <3>1. listing' \in ListingType /\ listing'.stage = "error"
      BY <2>2 DEF Pending, ListingType
    <3>2. ListIsOfTheBox'
      BY <1>0, <2>1, <3>1 DEF ListIsOfTheBox
    <3> QED
      BY <1>0, <2>1, <3>1, <3>2, BrowserStep
  <2>3. CASE \E found \in TagAnswers : listing' = [stage |-> "shown", nodes |-> found]
    <3>1. PICK found \in TagAnswers : listing' = [stage |-> "shown", nodes |-> found]
      BY <2>3
    <3>2. found \in SUBSET TagNodes /\ (~Searching => found = Children(CurrentFolder))
      BY DEF TagAnswers, Children
    <3>3. listing' \in ListingType /\ listing'.nodes = found
      BY <3>1, <3>2 DEF ListingType
    <3>4. ListIsOfTheBox'
      BY <1>0, <2>1, <3>2, <3>3 DEF ListIsOfTheBox, Searching, CurrentFolder, Children
    <3> QED
      BY <1>0, <2>1, <3>3, <3>4, BrowserStep
  <2> QED
    BY <2>1, <2>2, <2>3
<1>4. CASE RetryListing
  <2>1. UNCHANGED <<box, trail, binding>> /\ listing' = Pending
    BY <1>4 DEF RetryListing
  <2>2. ListIsOfTheBox'
    BY <1>0, <2>1, FreshBrowser DEF ListIsOfTheBox
  <2> QED
    BY <1>0, <2>1, <2>2, FreshBrowser, BrowserStep
<1>5. CASE Enter
  <2>1. PICK n \in listing.nodes \ TagVariables : trail' = Append(trail, n)
    BY <1>5 DEF Enter
  <2>2. Len(trail) < MaxTrail /\ box' = Entered /\ listing' = Pending /\ UNCHANGED binding
    BY <1>5 DEF Enter
  <2>3. n \in Folders
    BY <1>0 DEF ListingType, Folders
  <2>4. trail' \in Seq(Folders) /\ Len(trail') <= MaxTrail
    BY <1>0, <2>1, <2>2, <2>3
  <2>5. box' \in BoxType /\ box'.text = box'.settled
    BY <1>0, <2>2 DEF Entered, BoxType, Texts
  <2>6. ListIsOfTheBox'
    BY <2>2, <2>5, FreshBrowser DEF ListIsOfTheBox
  <2> QED
    BY <2>2, <2>4, <2>5, <2>6, FreshBrowser, BrowserStep
<1>6. CASE Back
  <2>1. trail # <<>> /\ trail' = SubSeq(trail, 1, Len(trail) - 1) /\ listing' = Pending /\ UNCHANGED <<box, binding>>
    BY <1>6 DEF Back, Front
  <2>2. trail' \in Seq(Folders) /\ Len(trail') <= MaxTrail
    BY <1>0, <2>1
  <2>3. ListIsOfTheBox'
    BY <1>0, <2>1, FreshBrowser DEF ListIsOfTheBox
  <2> QED
    BY <1>0, <2>1, <2>2, <2>3, FreshBrowser, BrowserStep
<1>7. CASE OpenPicker \/ ClosePicker
  <2>1. PICK field \in Bindable \union {NoField} : Picker(field)
    BY <1>7 DEF OpenPicker, ClosePicker
  <2>2. binding' = [binding EXCEPT !.open = field]
        /\ box' = [Rested EXCEPT !.timer = TRUE] /\ trail' = <<>> /\ listing' = Pending
    BY <2>1 DEF Picker
  <2>3. binding' \in BindingType /\ binding'.pasted = binding.pasted /\ binding'.id = binding.id
    BY <1>0, <2>2 DEF BindingType
  <2>4. BoundTagsAreVariables'
    BY <1>0, <2>3 DEF BoundTagsAreVariables
  <2> QED
    BY <2>2, <2>3, <2>4, RemountStep
<1>8. CASE PickNode
  <2>1. PICK n \in Selectable(listing.nodes) :
           binding' = [open |-> NoField, pasted |-> binding.pasted \ {binding.open},
                       id |-> [binding.id EXCEPT ![binding.open] = n]]
    BY <1>8 DEF PickNode
  <2>2. binding.open \in Bindable /\ n \in TagVariables
    BY <1>0, <1>8 DEF PickNode, BindingType, Selectable
  <2>3. binding' \in BindingType
    BY <1>0, <2>1, <2>2 DEF BindingType
  <2>4. BoundTagsAreVariables'
    <3> SUFFICES ASSUME NEW field \in Bindable, field \notin binding'.pasted
                 PROVE  binding'.id[field] \in TagVariables \union {Unbound}
      BY DEF BoundTagsAreVariables
    <3>1. CASE field = binding.open
      BY <1>0, <2>1, <2>2, <3>1 DEF BindingType
    <3>2. CASE field # binding.open
      BY <1>0, <2>1, <2>2, <3>2 DEF BindingType, BoundTagsAreVariables
    <3> QED
      BY <3>1, <3>2
  <2> QED
    BY <1>8, <2>3, <2>4, RemountStep DEF PickNode
<1>9. CASE PasteId
  <2>1. PICK field \in Bindable, n \in TagNodes \union {Unbound} :
           binding' = [binding EXCEPT !.id[field] = n, !.pasted = @ \union {field}]
    BY <1>9 DEF PasteId
  <2>2. UNCHANGED <<box, trail, listing>>
    BY <1>9 DEF PasteId
  <2>3. /\ binding'.open = binding.open /\ binding'.pasted = binding.pasted \union {field}
        /\ binding'.id = [binding.id EXCEPT ![field] = n] /\ binding' \in BindingType
    BY <1>0, <2>1 DEF BindingType
  <2>4. BoundTagsAreVariables'
    BY <1>0, <2>3 DEF BoundTagsAreVariables, BindingType
  <2>5. ListIsOfTheBox'
    BY <1>0, <2>2 DEF ListIsOfTheBox, Searching, CurrentFolder, Children
  <2> QED
    BY <1>0, <2>2, <2>3, <2>4, <2>5, TagTypesNext DEF TagInv
<1>10. CASE UNCHANGED tagVars
  <2>1. UNCHANGED <<box, trail, listing, binding>>
    BY <1>10 DEF tagVars
  <2>2. ListIsOfTheBox'
    BY <1>0, <2>1 DEF ListIsOfTheBox, Searching, CurrentFolder, Children
  <2> QED
    BY <1>0, <2>1, <2>2, BrowserStep
<1> QED
  BY <1>1, <1>2, <1>3, <1>4, <1>5, <1>6, <1>7, <1>8, <1>9, <1>10 DEF TagNext

\* A folder is never bound, and the list is of the box and of the folder
\* entered; for any address space, however deep the trail (TagPicker,
\* TagBrowser).
THEOREM TagsAreBoundSoundly == TagSpec => [](TagTypeOK /\ BoundTagsAreVariables /\ ListIsOfTheBox)
<1>1. TagSpec => []TagInv
  BY TagInitInv, TagStepInv, PTL DEF TagSpec
<1>2. TagInv => TagTypeOK /\ BoundTagsAreVariables /\ ListIsOfTheBox
  BY DEF TagInv
<1> QED
  BY <1>1, <1>2, PTL

-----------------------------------------------------------------------------
(* The configuration of a loop.                                           *)

\* The records of the model.
Calls == [kind : {"none", "put", "tune", "delete", "create"},
          phase : {"idle", "posted", "read", "done", "refused"},
          draft : Drafts, seen : Configs, mine : BOOLEAN]
Boards == [roster : Configs, chosen : BOOLEAN, draft : Drafts, call : Calls]

\* A call under way carries gains a loop can run with: a save that sends the
\* PID group (LoopConfigDialog blocks the others), and a tuning order.
CallIsLegal ==
    board.call.phase \in {"posted", "read"} =>
        /\ board.call.kind = "put" /\ board.call.draft.ddc => board.call.draft.gains # 0
        /\ board.call.kind = "tune" => board.call.draft.gains # 0

\* The inductive invariant: a call under way is legal, or the DCS would be
\* given gains nobody ordered.
ConfigInv == ConfigTypeOK /\ CallIsLegal /\ DcsGainsAreOrdered

\* The constants of the model, typed.
LEMMA ConfigConstants ==
  /\ NoDraft \in Drafts /\ NoLoop \in Configs /\ NoCall \in Calls
  /\ \A g \in Typed : [NoDraft EXCEPT !.gains = g] \in Drafts /\ [NoDraft EXCEPT !.gains = g].gains = g
  /\ \A n \in 0 .. MaxLoops : Fresh(n) \in Configs
<1>1. 0 \in Typed /\ 1 \in 1 .. MaxGains /\ 0 \in 0 .. MaxLoops
  BY ConfigAssumption DEF Typed
<1>2. NoDraft \in Drafts /\ NoLoop \in Configs
  BY <1>1 DEF NoDraft, Drafts, NoLoop, Configs
<1>3. NoCall \in Calls
  BY <1>2 DEF NoCall, Calls
<1>4. \A g \in Typed : [NoDraft EXCEPT !.gains = g] \in Drafts /\ [NoDraft EXCEPT !.gains = g].gains = g
  BY <1>2 DEF Drafts
<1>5. \A n \in 0 .. MaxLoops : Fresh(n) \in Configs
  BY <1>1 DEF Fresh, Configs
<1> QED
  BY <1>2, <1>3, <1>4, <1>5

\* Fields of a board.
LEMMA BoardParts ==
  ASSUME NEW p \in Boards
  PROVE  p.roster \in Configs /\ p.chosen \in BOOLEAN /\ p.draft \in Drafts /\ p.call \in Calls
BY DEF Boards

\* A board with another draft.
LEMMA BoardDraft ==
  ASSUME NEW p \in Boards, NEW d \in Drafts
  PROVE  /\ [p EXCEPT !.draft = d] \in Boards
         /\ [p EXCEPT !.draft = d].call = p.call
BY DEF Boards

\* A board with another roster.
LEMMA BoardRoster ==
  ASSUME NEW p \in Boards, NEW c \in Configs
  PROVE  [p EXCEPT !.roster = c] \in Boards
BY DEF Boards

\* A board with its loop chosen, or not.
LEMMA BoardChosen ==
  ASSUME NEW p \in Boards, NEW b \in BOOLEAN
  PROVE  [p EXCEPT !.chosen = b] \in Boards
BY DEF Boards

\* A board with another call.
LEMMA BoardCall ==
  ASSUME NEW p \in Boards, NEW c \in Calls
  PROVE  [p EXCEPT !.call = c] \in Boards
BY DEF Boards

\* A call forgotten by its page.
LEMMA CallForgotten ==
  ASSUME NEW c \in Calls
  PROVE  [c EXCEPT !.mine = FALSE] \in Calls
BY DEF Calls

\* The board whose dialog was unmounted.
LEMMA UnmountedType ==
  ASSUME NEW p \in Boards
  PROVE  Unmounted(p) \in Boards
<1>1. Unmounted(p) = [[p EXCEPT !.draft = NoDraft] EXCEPT !.call = [p.call EXCEPT !.mine = FALSE]]
  BY DEF Unmounted, Boards
<1>2. [p EXCEPT !.draft = NoDraft] \in Boards
  BY ConfigConstants, BoardDraft
<1>3. [p.call EXCEPT !.mine = FALSE] \in Calls
  BY BoardParts, CallForgotten
<1> QED
  BY <1>1, <1>2, <1>3, BoardCall

\* The board as it is rendered.
LEMMA RenderedType ==
  ASSUME NEW p \in Boards
  PROVE  Rendered(p) \in Boards
<1>1. ToDraft(p.roster) \in Drafts
  <2>1. p.roster \in Configs
    BY BoardParts
  <2>2. p.roster.ddc \in BOOLEAN /\ p.roster.gains \in Typed
    BY <2>1, ConfigAssumption DEF Configs, Typed
  <2> QED
    BY <2>2 DEF ToDraft, Drafts
<1>2. ASSUME ~(~p.chosen \/ p.roster.loop = 0)
      PROVE  Rendered(p) = [p EXCEPT !.draft = IF p.draft.open THEN p.draft ELSE ToDraft(p.roster)]
  BY <1>2 DEF Rendered
<1>3. (IF p.draft.open THEN p.draft ELSE ToDraft(p.roster)) \in Drafts
  BY <1>1, BoardParts
<1>4. ASSUME ~(~p.chosen \/ p.roster.loop = 0) PROVE Rendered(p) \in Boards
  BY <1>2, <1>3, <1>4, BoardDraft
<1>5. ASSUME ~p.chosen \/ p.roster.loop = 0 PROVE Rendered(p) \in Boards
  BY <1>5, UnmountedType DEF Rendered
<1> QED
  BY <1>4, <1>5

\* A call is answered or has read the row.
LEMMA AnswerType ==
  ASSUME NEW p \in Boards, NEW ph \in {"idle", "posted", "read", "done", "refused"}
  PROVE  [p EXCEPT !.call.phase = ph, !.call.draft = NoDraft, !.call.seen = NoLoop] \in Boards
<1>1. p.call \in Calls
  BY BoardParts
<1>2. [p.call EXCEPT !.phase = ph, !.draft = NoDraft, !.seen = NoLoop] \in Calls
  BY <1>1, ConfigConstants DEF Calls
<1>3. [p EXCEPT !.call.phase = ph, !.call.draft = NoDraft, !.call.seen = NoLoop]
      = [p EXCEPT !.call = [p.call EXCEPT !.phase = ph, !.draft = NoDraft, !.seen = NoLoop]]
  BY DEF Boards
<1> QED
  BY <1>2, <1>3, BoardCall

\* A call that has read the row.
LEMMA ReadType ==
  ASSUME NEW p \in Boards, NEW c \in Configs
  PROVE  [p EXCEPT !.call.phase = "read", !.call.seen = c] \in Boards
<1>1. p.call \in Calls
  BY BoardParts
<1>2. [p.call EXCEPT !.phase = "read", !.seen = c] \in Calls
  BY <1>1 DEF Calls
<1>3. [p EXCEPT !.call.phase = "read", !.call.seen = c]
      = [p EXCEPT !.call = [p.call EXCEPT !.phase = "read", !.seen = c]]
  BY DEF Boards
<1> QED
  BY <1>2, <1>3, BoardCall

\* The configuration a save merges carries gains only for a DDC loop.
LEMMA MergedType ==
  ASSUME NEW c \in Configs, NEW d \in Drafts, SendsPid(d) => d.gains # 0
  PROVE  /\ MergedConfig(c, d) \in Configs
         /\ MergedConfig(c, d).ddc = d.ddc
<1>1. (IF SendsPid(d) THEN d.gains ELSE c.gains) \in 1 .. MaxGains /\ d.ddc \in BOOLEAN
  BY ConfigAssumption DEF Drafts, Configs, Typed
<1> QED
  BY <1>1 DEF MergedConfig, Configs

\* The row a save stores.
LEMMA StoredType ==
  ASSUME NEW c \in Configs, NEW row \in Configs
  PROVE  [c EXCEPT !.loop = row.loop] \in Configs
BY DEF Configs

\* The row with other gains.
LEMMA TunedType ==
  ASSUME NEW c \in Configs, NEW g \in 1 .. MaxGains
  PROVE  [c EXCEPT !.gains = g] \in Configs
BY DEF Configs

\* The types, with the boards named.
LEMMA ConfigTypes ==
  ConfigTypeOK <=> /\ born \in 1 .. MaxLoops /\ loopRow \in Configs /\ running \in Configs
                   /\ dcs \in Typed /\ ordered \in Typed /\ board \in Boards
BY DEF ConfigTypeOK, Boards, Calls

\* And after a step.
LEMMA ConfigTypesNext ==
  ConfigTypeOK' <=> /\ born' \in 1 .. MaxLoops /\ loopRow' \in Configs /\ running' \in Configs
                    /\ dcs' \in Typed /\ ordered' \in Typed /\ board' \in Boards
BY DEF ConfigTypeOK, Boards, Calls

\* A draft with another mode and other gains.
LEMMA EditedDraft ==
  ASSUME NEW d \in Drafts, NEW m \in BOOLEAN, NEW n \in Typed
  PROVE  /\ [d EXCEPT !.ddc = m, !.gains = n] \in Drafts
         /\ [d EXCEPT !.ddc = m, !.gains = n].gains = n
BY DEF Drafts

\* The invariant holds at first.
LEMMA ConfigInitInv == ConfigInit => ConfigInv
<1> SUFFICES ASSUME ConfigInit PROVE ConfigInv
  OBVIOUS
<1>1. 1 \in 1 .. MaxLoops /\ 1 \in 0 .. MaxLoops /\ 1 \in Typed
  BY ConfigAssumption DEF Typed
<1>2. Fresh(1) \in Configs
  BY <1>1, ConfigConstants
<1>3. board \in Boards
  BY <1>2, ConfigConstants DEF ConfigInit, Boards
<1>4. CallIsLegal
  BY DEF ConfigInit, CallIsLegal, NoCall
<1> QED
  BY <1>1, <1>2, <1>3, <1>4, ConfigTypes DEF ConfigInit, ConfigInv, DcsGainsAreOrdered

\* What a call says, on a board whose call is the old one, idle or answered.
LEMMA UnmountedCall ==
  ASSUME NEW p \in Boards
  PROVE  /\ Unmounted(p).call.kind = p.call.kind /\ Unmounted(p).call.phase = p.call.phase
         /\ Unmounted(p).call.draft = p.call.draft
<1>1. Unmounted(p) = [[p EXCEPT !.draft = NoDraft] EXCEPT !.call = [p.call EXCEPT !.mine = FALSE]]
  BY DEF Unmounted, Boards
<1>2. Unmounted(p).call = [p.call EXCEPT !.mine = FALSE]
  BY <1>1 DEF Boards
<1>3. p.call \in Calls
  BY BoardParts
<1> QED
  BY <1>2, <1>3 DEF Calls

\* What rendering makes of a call.
LEMMA RenderedCall ==
  ASSUME NEW p \in Boards
  PROVE  /\ Rendered(p).call.kind = p.call.kind /\ Rendered(p).call.phase = p.call.phase
         /\ Rendered(p).call.draft = p.call.draft
<1>1. CASE ~p.chosen \/ p.roster.loop = 0
  BY <1>1, UnmountedCall DEF Rendered
<1>2. CASE ~(~p.chosen \/ p.roster.loop = 0)
  BY <1>2 DEF Rendered, Boards
<1> QED
  BY <1>1, <1>2

\* A step of the page alone, which starts no call.
LEMMA PageStep ==
  ASSUME ConfigInv, UNCHANGED <<born, loopRow, running, dcs, ordered>>, board' \in Boards,
         CallIsLegal'
  PROVE  ConfigInv'
BY ConfigTypes, ConfigTypesNext DEF ConfigInv, DcsGainsAreOrdered

\* An answered call is a legal one.
LEMMA AnsweredCall ==
  ASSUME NEW p \in Boards, NEW ph \in {"done", "refused"},
         board' = [p EXCEPT !.call.phase = ph, !.call.draft = NoDraft, !.call.seen = NoLoop]
  PROVE  board' \in Boards /\ CallIsLegal'
<1>1. board' \in Boards
  BY AnswerType
<1>2. board'.call.phase = ph
  BY DEF Boards, Calls
<1> QED
  BY <1>1, <1>2 DEF CallIsLegal

\* A call that has read the row is as legal as it was.
LEMMA ReadCall ==
  ASSUME NEW c \in Configs, board \in Boards, CallIsLegal, board.call.phase = "posted", Reads(c)
  PROVE  board' \in Boards /\ CallIsLegal'
<1>1. board' \in Boards
  BY ReadType DEF Reads
<1>2. board'.call.kind = board.call.kind /\ board'.call.draft = board.call.draft
  BY DEF Reads, Boards, Calls
<1> QED
  BY <1>1, <1>2 DEF CallIsLegal

\* The steps of the page.
LEMMA PageSteps ==
  ASSUME ConfigInv,
         \/ Refetch \/ OpenConfig \/ CloseConfig \/ EditMode \/ EditRanges \/ EditGains
         \/ Save \/ RemoveLoop \/ NewLoop \/ WriteTuning \/ CallSettles
  PROVE  ConfigInv'
<1> USE ConfigTypes DEF ConfigInv
<1>0. board \in Boards /\ CallIsLegal /\ loopRow \in Configs
  OBVIOUS
<1>a. ASSUME NEW p \in Boards, p.call = board.call, board' = Rendered(p)
      PROVE  board' \in Boards /\ CallIsLegal'
  BY <1>0, <1>a, RenderedType, RenderedCall DEF CallIsLegal
<1>b. ASSUME NEW p \in Boards, p.call = board.call, board' = Unmounted(p)
      PROVE  board' \in Boards /\ CallIsLegal'
  BY <1>0, <1>b, UnmountedType, UnmountedCall DEF CallIsLegal
<1>1. CASE Refetch
  <2>1. [board EXCEPT !.roster = loopRow] \in Boards
    BY <1>0, BoardRoster
  <2>2. [board EXCEPT !.roster = loopRow].call = board.call
    BY <1>0 DEF Boards
  <2> QED
    BY <1>1, <1>a, <2>1, <2>2, PageStep DEF Refetch
<1>2. CASE OpenConfig
  <2>1. [board EXCEPT !.chosen = TRUE] \in Boards
    BY <1>0, BoardChosen
  <2>2. [board EXCEPT !.chosen = TRUE].call = board.call
    BY <1>0 DEF Boards
  <2> QED
    BY <1>2, <1>a, <2>1, <2>2, PageStep DEF OpenConfig
<1>3. CASE CloseConfig
  <2>1. [board EXCEPT !.chosen = FALSE] \in Boards
    BY <1>0, BoardChosen
  <2>2. [board EXCEPT !.chosen = FALSE].call = board.call
    BY <1>0 DEF Boards
  <2> QED
    BY <1>3, <1>b, <2>1, <2>2, PageStep DEF CloseConfig
<1>c. ASSUME NEW d \in Drafts, Edited(d) PROVE ConfigInv'
  <2>1. board' \in Boards /\ board'.call = board.call
    BY <1>0, <1>c, BoardDraft DEF Edited
  <2> QED
    BY <1>0, <1>c, <2>1, PageStep DEF Edited, CallIsLegal
<1>4. CASE EditMode \/ EditRanges \/ EditGains
  <2>1. board.draft \in Drafts
    BY <1>0, BoardParts
  <2>2. [board.draft EXCEPT !.ddc = ~@] \in Drafts /\ [board.draft EXCEPT !.sound = ~@] \in Drafts
    BY <2>1 DEF Drafts
  <2>3. \A g \in Typed : [board.draft EXCEPT !.gains = g] \in Drafts
    BY <2>1 DEF Drafts
  <2> QED
    BY <1>4, <1>c, <2>2, <2>3 DEF EditMode, EditRanges, EditGains
<1>d. ASSUME NEW d \in Drafts, NEW k \in {"put", "tune", "delete", "create"}, ConfigCall(k, d),
             k = "put" /\ d.ddc => d.gains # 0, k = "tune" => d.gains # 0
      PROVE  ConfigInv'
  <2> DEFINE posted == [kind |-> k, phase |-> "posted", draft |-> d, seen |-> NoLoop,
                        mine |-> board.draft.open]
  <2>1. board.draft \in Drafts
    BY <1>0, BoardParts
  <2>2. posted \in Calls
    BY <2>1, ConfigConstants DEF Calls, Drafts
  <2>3. board' = [board EXCEPT !.call = posted]
    BY <1>d DEF ConfigCall
  <2>4. board' \in Boards /\ board'.call = posted
    BY <1>0, <2>2, <2>3 DEF Boards
  <2>5. CallIsLegal'
    BY <1>d, <2>4 DEF CallIsLegal
  <2> QED
    BY <1>d, <2>4, <2>5, PageStep DEF ConfigCall
<1>5. CASE Save
  BY <1>0, <1>5, <1>d, BoardParts DEF Save, Blocked, PidSound
<1>6. CASE RemoveLoop \/ NewLoop
  BY <1>6, <1>d, ConfigConstants DEF RemoveLoop, NewLoop
<1>7. CASE WriteTuning
  <2>1. PICK g \in 1 .. MaxGains : ConfigCall("tune", [NoDraft EXCEPT !.gains = g])
    BY <1>7 DEF WriteTuning
  <2>2. g \in Typed /\ g # 0
    BY ConfigAssumption DEF Typed
  <2> QED
    BY <1>d, <2>1, <2>2, ConfigConstants
<1>8. CASE CallSettles
  <2> DEFINE settled == [board EXCEPT !.call = NoCall]
  <2>1. settled \in Boards /\ settled.call = NoCall
    BY <1>0, ConfigConstants DEF Boards
  <2>2. [settled EXCEPT !.chosen = FALSE] \in Boards /\ [settled EXCEPT !.chosen = FALSE].call = NoCall
    <3> HIDE DEF settled
    <3> QED
      BY <2>1, BoardChosen DEF Boards
  <2>3. board' = Unmounted([settled EXCEPT !.chosen = FALSE]) \/ board' = settled
    BY <1>8 DEF CallSettles
  <2>4. board' \in Boards
    BY <2>1, <2>2, <2>3, UnmountedType
  <2>5. board'.call.phase = "idle"
    <3> HIDE DEF settled
    <3>1. NoCall.phase = "idle"
      BY DEF NoCall
    <3>2. CASE board' = settled
      BY <2>1, <3>1, <3>2
    <3>3. CASE board' = Unmounted([settled EXCEPT !.chosen = FALSE])
      BY <2>2, <3>1, <3>3, UnmountedCall
    <3> QED
      BY <2>3, <3>2, <3>3
  <2>6. CallIsLegal'
    BY <2>5 DEF CallIsLegal
  <2> QED
    BY <1>8, <2>4, <2>6, PageStep DEF CallSettles
<1> QED
  BY <1>1, <1>2, <1>3, <1>4, <1>5, <1>6, <1>7, <1>8

\* The steps of the routes, of this administrator's calls and of the other's.
LEMMA RouteSteps ==
  ASSUME ConfigInv,
         \/ PutReads \/ PutRefused \/ PutSaves \/ TuneServed \/ TuneRefused \/ TuneSaves
         \/ Deleted \/ Created \/ OtherSaves \/ OtherTunes \/ OtherDeletes \/ OtherCreates
  PROVE  ConfigInv'
<1>0. /\ born \in 1 .. MaxLoops /\ loopRow \in Configs /\ running \in Configs
      /\ dcs \in Typed /\ ordered \in Typed /\ board \in Boards /\ CallIsLegal /\ dcs = ordered
  BY ConfigTypes DEF ConfigInv, DcsGainsAreOrdered
<1>n. ASSUME /\ born' \in 1 .. MaxLoops /\ loopRow' \in Configs /\ running' \in Configs
             /\ dcs' \in Typed /\ dcs' = ordered' /\ board' \in Boards /\ CallIsLegal'
      PROVE  ConfigInv'
  BY <1>n, ConfigTypesNext DEF ConfigInv, DcsGainsAreOrdered
<1>a. ASSUME NEW ph \in {"done", "refused"}, Answers(ph) PROVE board' \in Boards /\ CallIsLegal'
  BY <1>0, <1>a, AnsweredCall DEF Answers
<1>b. ASSUME UNCHANGED board PROVE board' \in Boards /\ CallIsLegal'
  BY <1>0, <1>b DEF CallIsLegal
<1>c. ASSUME NEW c \in Configs PROVE Stored(c) \in Configs /\ Running(c) \in Configs
  BY <1>0, StoredType DEF Stored, Running
<1>d. board.call.draft \in Drafts /\ board.call.seen \in Configs
  BY <1>0, BoardParts DEF Calls
<1>e. \A n \in 1 .. MaxLoops : Fresh(n) \in Configs
  BY ConfigConstants, ConfigAssumption
<1>f. NoLoop \in Configs /\ \A g \in 1 .. MaxGains : g \in Typed
  BY ConfigConstants, ConfigAssumption DEF Typed
<1>1. CASE PutReads
  <2>1. Answers("refused") \/ Reads(loopRow)
    BY <1>1 DEF PutReads
  <2>2. board.call.phase = "posted"
    BY <1>1 DEF PutReads, Serving
  <2>3. board' \in Boards /\ CallIsLegal'
    BY <1>0, <1>a, <2>1, <2>2, ReadCall
  <2> QED
    BY <1>0, <1>1, <1>n, <2>3 DEF PutReads
<1>2. CASE PutRefused
  BY <1>0, <1>2, <1>a, <1>n DEF PutRefused
<1>3. CASE PutSaves
  <2> DEFINE c == MergedConfig(board.call.seen, board.call.draft)
  <2>1. SendsPid(board.call.draft) => board.call.draft.gains # 0
    BY <1>0, <1>3 DEF PutSaves, Serving, CallIsLegal, SendsPid
  <2>2. c \in Configs /\ c.ddc = board.call.draft.ddc
    BY <1>d, <2>1, MergedType
  <2>3. loopRow' = Stored(c) /\ running' = Running(c)
    BY <1>3 DEF PutSaves
  <2>4. dcs' = dcs
    BY <1>3, <2>2 DEF PutSaves, SendsPid
  <2>5. loopRow' \in Configs /\ running' \in Configs
    BY <1>c, <2>2, <2>3
  <2> QED
    BY <1>0, <1>3, <1>a, <1>n, <2>4, <2>5 DEF PutSaves
<1>4. CASE TuneServed
  <2>1. UNCHANGED <<born, loopRow, running>> /\ board.call.phase = "posted" /\ board.call.kind = "tune"
    BY <1>4 DEF TuneServed, Serving
  <2>2. \/ Answers("refused") /\ UNCHANGED <<dcs, ordered>>
        \/ Reads(running) /\ UNCHANGED <<dcs, ordered>>
        \/ Answers("done") /\ dcs' = board.call.draft.gains /\ ordered' = board.call.draft.gains
    BY <1>4 DEF TuneServed
  <2>3. board.call.draft.gains \in Typed
    BY <1>d DEF Drafts
  <2>4. board' \in Boards /\ CallIsLegal'
    BY <1>0, <1>a, <2>1, <2>2, ReadCall
  <2>5. dcs' \in Typed /\ dcs' = ordered'
    BY <1>0, <2>2, <2>3
  <2> QED
    BY <1>0, <1>n, <2>1, <2>4, <2>5
<1>5. CASE TuneRefused
  BY <1>0, <1>5, <1>a, <1>n DEF TuneRefused
<1>6. CASE TuneSaves
  <2> DEFINE c == [board.call.seen EXCEPT !.gains = board.call.draft.gains]
  <2>1. board.call.draft.gains # 0
    BY <1>0, <1>6 DEF TuneSaves, Serving, CallIsLegal
  <2>2. board.call.draft.gains \in 1 .. MaxGains
    BY <1>d, <2>1, ConfigAssumption DEF Drafts, Typed
  <2>3. c \in Configs
    BY <1>d, <2>2, TunedType
  <2>4. loopRow' = Stored(c) /\ running' = Running(c)
    BY <1>6 DEF TuneSaves
  <2>5. loopRow' \in Configs /\ running' \in Configs
    BY <1>c, <2>3, <2>4
  <2> QED
    BY <1>0, <1>6, <1>a, <1>n, <2>5 DEF TuneSaves
<1>7. CASE Deleted
  <2>1. Answers("refused") \/ Answers("done")
    BY <1>7 DEF Deleted
  <2> QED
    BY <1>0, <1>7, <1>a, <1>f, <1>n, <2>1 DEF Deleted
<1>8. CASE RowInserted /\ UNCHANGED <<dcs, ordered>> /\ board' \in Boards /\ CallIsLegal'
  <2>1. born + 1 \in 1 .. MaxLoops
    BY <1>0, <1>8, ConfigAssumption DEF RowInserted
  <2> QED
    BY <1>0, <1>8, <1>e, <1>n, <2>1 DEF RowInserted
<1>9. CASE Created
  <2>1. board' \in Boards /\ CallIsLegal'
    BY <1>9, <1>a DEF Created
  <2>2. CASE RowInserted
    BY <1>8, <1>9, <2>1, <2>2 DEF Created
  <2>3. CASE UNCHANGED <<born, loopRow, running>>
    BY <1>0, <1>9, <1>n, <2>1, <2>3 DEF Created
  <2> QED
    BY <1>9, <2>2, <2>3 DEF Created
<1>10. CASE OtherCreates
  BY <1>8, <1>10, <1>b DEF OtherCreates
<1>11. CASE OtherSaves
  <2>1. PICK ddc \in BOOLEAN, g \in 1 .. MaxGains :
           /\ loopRow' = MergedConfig(loopRow, [NoDraft EXCEPT !.ddc = ddc, !.gains = g])
           /\ running' = Running(MergedConfig(loopRow, [NoDraft EXCEPT !.ddc = ddc, !.gains = g]))
    BY <1>11 DEF OtherSaves
  <2>2. PICK d : /\ d = [NoDraft EXCEPT !.ddc = ddc, !.gains = g]
                 /\ d \in Drafts /\ d.gains = g
    <3>1. NoDraft \in Drafts /\ g \in Typed /\ g # 0
      BY <1>f, ConfigConstants, ConfigAssumption
    <3> QED
      BY <3>1, EditedDraft, Zenon
  <2>5. g # 0
    BY ConfigAssumption
  <2>3. MergedConfig(loopRow, d) \in Configs
    BY <1>0, <2>2, <2>5, MergedType
  <2>4. loopRow' \in Configs /\ running' \in Configs
    BY <1>c, <2>1, <2>2, <2>3
  <2> QED
    BY <1>0, <1>11, <1>b, <1>n, <2>4 DEF OtherSaves
<1>12. CASE OtherTunes
  <2>1. PICK g \in 1 .. MaxGains : dcs' = g /\ ordered' = g
    BY <1>12 DEF OtherTunes
  <2> QED
    BY <1>0, <1>12, <1>b, <1>f, <1>n, <2>1 DEF OtherTunes
<1>13. CASE OtherDeletes
  BY <1>0, <1>13, <1>b, <1>f, <1>n DEF OtherDeletes
<1> QED
  BY <1>1, <1>2, <1>3, <1>4, <1>5, <1>6, <1>7, <1>9, <1>10, <1>11, <1>12, <1>13

\* Every step keeps the invariant.
LEMMA ConfigStepInv == ConfigInv /\ [ConfigNext]_configVars => ConfigInv'
<1> SUFFICES ASSUME ConfigInv, [ConfigNext]_configVars PROVE ConfigInv'
  OBVIOUS
<1>1. CASE UNCHANGED configVars
  BY <1>1 DEF ConfigInv, ConfigTypeOK, CallIsLegal, DcsGainsAreOrdered, configVars
<1>2. CASE ConfigNext
  BY <1>2, PageSteps, RouteSteps DEF ConfigNext
<1> QED
  BY <1>1, <1>2

\* A save never retunes the DCS, whatever dialogs were open while the loop
\* changed mode, owner or gains: the gains in its block are the ones last
\* ordered; for any number of loops and of gains (LoopConfigDialog,
\* update_controller).
THEOREM SavesDoNotTuneTheDcs == ConfigSpec => [](ConfigTypeOK /\ DcsGainsAreOrdered)
<1>1. ConfigInv => ConfigTypeOK /\ DcsGainsAreOrdered
  BY DEF ConfigInv
<1> QED
  BY <1>1, ConfigInitInv, ConfigStepInv, PTL DEF ConfigSpec

-----------------------------------------------------------------------------
(* The framing of a trend.                                                *)

\* The stored map holds what was last set for each loop, the default or nothing
\* where nothing valid was.
StoredAsWanted ==
    \A l \in FramedLoops : IF wanted[l] # 0 THEN stored[l] = wanted[l]
                                            ELSE stored[l] \in {0, DefaultFraming}
\* The inductive invariant: the types, what is stored, and the property.
FramingInv == FramingTypeOK /\ StoredAsWanted /\ FramingStaysWithItsLoop

\* The invariant holds at first.
LEMMA FramingInitInv == FramingInit => FramingInv
<1> SUFFICES ASSUME FramingInit PROVE FramingInv
  OBVIOUS
<1>1. FramingTypeOK
  BY FramingAssumption DEF FramingInit, FramingTypeOK, DefaultFraming
<1> QED
  BY <1>1 DEF FramingInit, FramingInv, StoredAsWanted, FramingStaysWithItsLoop

\* A loop comes on screen with the framing read for it, which is saved again.
LEMMA ShownLoop ==
  ASSUME FramingInv, NEW l \in FramedLoops, UNCHANGED wanted,
         view' = [loop |-> l, framing |-> ReadView(stored, l)],
         stored' = [stored EXCEPT ![l] = ReadView(stored, l)]
  PROVE  FramingInv'
<1>1. stored \in [FramedLoops -> Framings \union {0}] /\ wanted \in [FramedLoops -> Framings \union {0}]
  BY DEF FramingInv, FramingTypeOK
<1>2. ReadView(stored, l) \in Framings /\ ReadView(stored, l) # 0
  BY <1>1, FramingAssumption DEF ReadView, DefaultFraming
<1>3. wanted[l] # 0 => ReadView(stored, l) = wanted[l]
  BY DEF FramingInv, StoredAsWanted, ReadView
<1>4. wanted[l] = 0 => ReadView(stored, l) = DefaultFraming
  BY DEF FramingInv, StoredAsWanted, ReadView
<1>5. FramingTypeOK'
  BY <1>1, <1>2 DEF FramingTypeOK
<1>6. StoredAsWanted'
  BY <1>1, <1>3, <1>4 DEF FramingInv, StoredAsWanted
<1>7. FramingStaysWithItsLoop'
  BY <1>3, <1>4 DEF FramingStaysWithItsLoop
<1> QED
  BY <1>5, <1>6, <1>7 DEF FramingInv

\* Every step keeps the invariant.
LEMMA FramingStepInv == FramingInv /\ [FramingNext]_framingVars => FramingInv'
<1> SUFFICES ASSUME FramingInv, [FramingNext]_framingVars PROVE FramingInv'
  OBVIOUS
<1>0. /\ view \in [loop : FramedLoops, framing : Framings]
      /\ stored \in [FramedLoops -> Framings \union {0}]
      /\ wanted \in [FramedLoops -> Framings \union {0}]
  BY DEF FramingInv, FramingTypeOK
<1>1. ASSUME NEW l \in FramedLoops, SelectLoop(l) PROVE FramingInv'
  <2>1. stored' = [stored EXCEPT ![l] = ReadView(stored, l)]
    BY <1>1 DEF SelectLoop, Saved, Written
  <2>2. ReadView(stored, l) \in Framings /\ ReadView(stored, l) # 0
    BY <1>0, FramingAssumption DEF ReadView, DefaultFraming
  <2>3. ReadView(stored', l) = ReadView(stored, l)
    BY <1>0, <2>1, <2>2 DEF ReadView
  <2> QED
    BY <1>1, <2>1, <2>3, ShownLoop DEF SelectLoop
<1>2. ASSUME NEW l \in FramedLoops, OpenPanel(l) PROVE FramingInv'
  <2>1. stored' = [stored EXCEPT ![l] = ReadView(stored, l)]
    BY <1>2 DEF OpenPanel, Written
  <2> QED
    BY <1>2, <2>1, ShownLoop DEF OpenPanel
<1>3. ASSUME NEW f \in Framings, Reframe(f) PROVE FramingInv'
  <2>1. view' \in [loop : FramedLoops, framing : Framings] /\ view'.loop = view.loop /\ view'.framing = f
    BY <1>0, <1>3 DEF Reframe
  <2>2. stored' = [stored EXCEPT ![view.loop] = f] /\ wanted' = [wanted EXCEPT ![view.loop] = f]
    BY <1>3 DEF Reframe, Written
  <2>3. view.loop \in FramedLoops
    BY <1>0
  <2>4. FramingTypeOK'
    BY <1>0, <2>1, <2>2 DEF FramingTypeOK
  <2>5. StoredAsWanted'
    BY <1>0, <2>2 DEF FramingInv, StoredAsWanted
  <2>6. FramingStaysWithItsLoop'
    BY <1>0, <2>1, <2>2, <2>3 DEF FramingStaysWithItsLoop
  <2> QED
    BY <2>4, <2>5, <2>6 DEF FramingInv
<1>4. CASE UNCHANGED framingVars
  BY <1>4 DEF framingVars, FramingInv, FramingTypeOK, StoredAsWanted, FramingStaysWithItsLoop
<1> QED
  BY <1>1, <1>2, <1>3, <1>4 DEF FramingNext

\* The loop on screen shows what was last set for it, over navigation and
\* reload; for any loops and framings (trendViewStore).
THEOREM FramingIsPerLoop == FramingSpec => [](FramingTypeOK /\ FramingStaysWithItsLoop)
<1>1. FramingInv => FramingTypeOK /\ FramingStaysWithItsLoop
  BY DEF FramingInv
<1> QED
  BY <1>1, FramingInitInv, FramingStepInv, PTL DEF FramingSpec

-----------------------------------------------------------------------------
(* The history page.                                                      *)

\* The records of the model.
FilterStates == [draft : Filter, valid : BOOLEAN, applied : Filter]
AnswerRecs == [stage : {"pending", "error", "shown"}, rows : SUBSET LogRows]

\* The rows on display are the ones the daemon and the page make of the applied
\* filter; the logs of the period do not move.
RowsAreAnswered == answer.stage = "shown" => answer.rows = RowsFor(filters.applied)
HistoryInv == HistoryTypeOK /\ RowsAreAnswered

\* A log within the limit is fetched whole.
LEMMA UncutLog ==
  ASSUME NEW S \in SUBSET LogRows, Cardinality(S) <= LogLimit
  PROVE  NewestRows(S) = S
<1>1. IsFiniteSet(S) /\ S \subseteq Nat /\ LogLimit \in Nat
  BY FS_Subset, HistoryAssumption
<1>2. ASSUME NEW n \in S PROVE Cardinality({k \in S : k < n}) < LogLimit
  <2> DEFINE B == {k \in S : k < n}
  <2>1. IsFiniteSet(B) /\ Cardinality(B) <= Cardinality(S) /\ (Cardinality(S) = Cardinality(B) => S = B)
    BY <1>1, FS_Subset
  <2>2. n \in Nat /\ ~(n < n)
    BY <1>1
  <2>3. n \notin B
    BY <2>2
  <2>4. S # B
    BY <2>3
  <2>5. Cardinality(B) \in Nat /\ Cardinality(S) \in Nat
    BY <1>1, <2>1, FS_CardinalityType
  <2> HIDE DEF B
  <2>6. Cardinality(B) < LogLimit
    BY <1>1, <2>1, <2>4, <2>5
  <2> QED
    BY <2>6 DEF B
<1> QED
  BY <1>2 DEF NewestRows

\* What daemon and page make of a filter answers it.
LEMMA RowsAnswerTheFilter ==
  ASSUME logs \in [LogRows -> Rows], NEW f \in Filter
  PROVE  /\ RowsFor(f) \subseteq AskedRows(f)
         /\ Cardinality(AlarmLog(f)) <= LogLimit /\ Cardinality(EventLog) <= LogLimit
               => RowsFor(f) = AskedRows(f)
<1>1. ASSUME NEW n \in RowsFor(f) PROVE n \in AskedRows(f)
  <2>1. n \in LogRows /\ Narrowed(f, n) /\ (n \in AlarmLog(f) \/ f.loop = 0)
    BY DEF RowsFor, Fetched, NewestRows, AlarmLog, EventLog
  <2> QED
    BY <2>1 DEF AskedRows, Narrowed, AlarmLog
<1>2. ASSUME Cardinality(AlarmLog(f)) <= LogLimit, Cardinality(EventLog) <= LogLimit,
             NEW n \in AskedRows(f)
      PROVE  n \in RowsFor(f)
  <2>1. AlarmLog(f) \in SUBSET LogRows /\ EventLog \in SUBSET LogRows
    BY DEF AlarmLog, EventLog
  <2>2. NewestRows(AlarmLog(f)) = AlarmLog(f) /\ NewestRows(EventLog) = EventLog
    BY <1>2, <2>1, UncutLog
  <2>3. n \in LogRows /\ logs[n] \in Rows
    BY DEF AskedRows
  <2>4. CASE logs[n] \in [kind : {"alarm"}, loop : {1, 2}, priority : {"crit", "low"}, type : {"HI", "LO"}]
    BY <2>2, <2>3, <2>4 DEF AskedRows, RowsFor, Fetched, AlarmLog, Narrowed
  <2>5. CASE logs[n] \in [kind : {"event"}, loop : {0}, priority : {"crit", "low"}, type : {"none"}]
    <3>1. logs[n].kind = "event" /\ logs[n].loop = 0 /\ logs[n].type = "none"
      BY <2>5
    <3>2. f.loop = 0
      BY <3>1 DEF AskedRows
    <3>3. f.type = All
      BY <3>1 DEF AskedRows, Filter
    <3> QED
      BY <2>2, <2>3, <3>1, <3>2, <3>3 DEF AskedRows, RowsFor, Fetched, EventLog, Narrowed
  <2> QED
    BY <2>3, <2>4, <2>5 DEF Rows
<1> QED
  BY <1>1, <1>2

\* The invariant holds at first.
LEMMA HistoryInitInv == HistoryInit => HistoryInv
<1> SUFFICES ASSUME HistoryInit PROVE HistoryInv
  OBVIOUS
<1>1. logs \in [LogRows -> Rows]
  BY HistoryAssumption DEF HistoryInit
<1>2. AllRows \in Filter
  BY DEF AllRows, Filter
<1>3. filters \in FilterStates /\ answer \in AnswerRecs /\ answer.stage = "pending"
  BY <1>2 DEF HistoryInit, FilterStates, AnswerRecs
<1> QED
  BY <1>1, <1>3 DEF HistoryInv, HistoryTypeOK, RowsAreAnswered, FilterStates, AnswerRecs

\* Every step keeps the invariant.
LEMMA HistoryStepInv == HistoryInv /\ [HistoryNext]_historyVars => HistoryInv'
<1> SUFFICES ASSUME HistoryInv, [HistoryNext]_historyVars PROVE HistoryInv'
  OBVIOUS
<1>0. /\ logs \in [LogRows -> Rows] /\ filters \in FilterStates /\ answer \in AnswerRecs
      /\ RowsAreAnswered /\ filters.applied \in Filter /\ filters.draft \in Filter
  BY DEF HistoryInv, HistoryTypeOK, FilterStates, AnswerRecs
<1>n. ASSUME logs' = logs, filters' \in FilterStates, answer' \in AnswerRecs, RowsAreAnswered'
      PROVE  HistoryInv'
  BY <1>0, <1>n DEF HistoryInv, HistoryTypeOK, FilterStates, AnswerRecs
<1>r. ASSUME NEW f \in Filter, UNCHANGED logs PROVE RowsFor(f)' = RowsFor(f)
  BY <1>r DEF RowsFor, Fetched, NewestRows, AlarmLog, EventLog, Narrowed
<1>a. ASSUME NEW s \in {"pending", "error"}, answer' = [answer EXCEPT !.stage = s]
      PROVE  answer' \in AnswerRecs /\ answer'.stage # "shown"
  BY <1>0, <1>a DEF AnswerRecs
<1>1. CASE EditFilter
  <2>1. PICK f \in Filter, valid \in BOOLEAN : filters' = [filters EXCEPT !.draft = f, !.valid = valid]
    BY <1>1 DEF EditFilter
  <2>2. filters' \in FilterStates /\ filters'.applied = filters.applied /\ UNCHANGED <<logs, answer>>
    BY <1>0, <1>1, <2>1 DEF EditFilter, FilterStates
  <2>3. RowsFor(filters.applied)' = RowsFor(filters.applied)
    BY <2>2 DEF RowsFor, Fetched, NewestRows, AlarmLog, EventLog, Narrowed
  <2> QED
    BY <1>0, <1>n, <2>2, <2>3 DEF RowsAreAnswered
<1>2. CASE ApplyFilter
  <2>1. filters' \in FilterStates /\ UNCHANGED logs
    BY <1>0, <1>2 DEF ApplyFilter, FilterStates
  <2>2. answer' \in AnswerRecs /\ answer'.stage # "shown"
    BY <1>2, <1>a DEF ApplyFilter
  <2> QED
    BY <1>n, <2>1, <2>2 DEF RowsAreAnswered
<1>3. CASE AnswerLands
  <2>1. UNCHANGED <<logs, filters>>
    BY <1>3 DEF AnswerLands
  <2>2. CASE answer' = [stage |-> "shown", rows |-> RowsFor(filters.applied)]
    <3>1. RowsFor(filters.applied) \in SUBSET LogRows
      BY DEF RowsFor, Fetched, NewestRows, AlarmLog, EventLog
    <3>2. answer' \in AnswerRecs /\ answer'.rows = RowsFor(filters.applied)
      BY <2>2, <3>1 DEF AnswerRecs
    <3>3. RowsFor(filters.applied)' = RowsFor(filters.applied)
      BY <2>1 DEF RowsFor, Fetched, NewestRows, AlarmLog, EventLog, Narrowed
    <3> QED
      BY <1>0, <1>n, <2>1, <3>2, <3>3 DEF RowsAreAnswered
  <2>3. CASE answer' = [answer EXCEPT !.stage = "error"]
    BY <1>0, <1>a, <1>n, <2>1, <2>3 DEF RowsAreAnswered
  <2> QED
    BY <1>3, <2>2, <2>3 DEF AnswerLands
<1>4. CASE RetryHistory
  BY <1>0, <1>4, <1>a, <1>n DEF RetryHistory, RowsAreAnswered
<1>5. CASE UNCHANGED historyVars
  <2>1. RowsFor(filters.applied)' = RowsFor(filters.applied)
    BY <1>5 DEF historyVars, RowsFor, Fetched, NewestRows, AlarmLog, EventLog, Narrowed
  <2> QED
    BY <1>0, <1>5, <1>n, <2>1 DEF historyVars, RowsAreAnswered
<1> QED
  BY <1>1, <1>2, <1>3, <1>4, <1>5 DEF HistoryNext

\* Once its answer is shown the page lists rows of the applied filter, and all
\* of them while neither log is cut; for any finite logs, limit and histories
\* (AlarmHistory, useAlarms).
THEOREM HistoryIsAnswered == HistorySpec => [](HistoryTypeOK /\ HistoryAnswersTheFilter)
<1>1. HistoryInv => HistoryTypeOK /\ HistoryAnswersTheFilter
  <2> SUFFICES ASSUME HistoryInv PROVE HistoryTypeOK /\ HistoryAnswersTheFilter
    OBVIOUS
  <2>1. logs \in [LogRows -> Rows] /\ filters.applied \in Filter
    BY DEF HistoryInv, HistoryTypeOK
  <2> QED
    BY <2>1, RowsAnswerTheFilter DEF HistoryInv, RowsAreAnswered, HistoryAnswersTheFilter
<1> QED
  BY <1>1, HistoryInitInv, HistoryStepInv, PTL DEF HistorySpec

-----------------------------------------------------------------------------
(* The export button.                                                     *)

\* The records of the model.
JobBooks  == [nr : 0 .. MaxJobs, of : [1 .. MaxJobs -> ExportRequests \union {0}],
              status : [1 .. MaxJobs -> Statuses]]
Buttons   == [job : 0 .. MaxJobs, seen : Statuses, failed : BOOLEAN, creating : BOOLEAN,
              refused : BOOLEAN, downloadError : BOOLEAN]
Clicks    == [nr : 0 .. MaxJobs, request : ExportRequests]
Exporting == [request : ExportRequests \union {0}, started : ExportRequests \union {0},
              file : ExportRequests \union {0}]

\* The button takes one click at a time, and shows it as being generated.
OneClick ==
    /\ \A c, d \in clicks : c = d
    /\ clicks # {} => button.job = NoJob /\ button.creating /\ ~button.refused

\* The click under way and the job polled are of the export started last.
ClickIsStarted ==
    \A c \in clicks : /\ c.request = exporting.started /\ c.nr <= jobs.nr
                      /\ c.nr # 0 => jobs.of[c.nr] = exporting.started
JobIsStarted == button.job # NoJob => button.job <= jobs.nr /\ jobs.of[button.job] = exporting.started

\* The inductive invariant: one click at a time, its job the last one.
ExportInv == ExportTypeOK /\ OneClick /\ ClickIsStarted /\ JobIsStarted

\* The types, of records.
LEMMA ExportTypes ==
  ExportTypeOK <=> jobs \in JobBooks /\ button \in Buttons /\ clicks \subseteq Clicks /\ exporting \in Exporting
BY DEF ExportTypeOK, JobBooks, Buttons, Clicks, Exporting

\* And after a step.
LEMMA ExportTypesNext ==
  ExportTypeOK' <=> jobs' \in JobBooks /\ button' \in Buttons /\ clicks' \subseteq Clicks /\ exporting' \in Exporting
BY DEF ExportTypeOK, JobBooks, Buttons, Clicks, Exporting

\* A button as it is mounted.
LEMMA FreshButtonType ==
  /\ FreshButton \in Buttons /\ FreshButton.job = NoJob
  /\ Restarted(button) \in Buttons /\ Restarted(button).job = NoJob
  /\ Restarted(button).creating /\ ~Restarted(button).refused
<1>1. FreshButton \in Buttons /\ FreshButton.job = NoJob /\ FreshButton.refused = FALSE
  BY ExportAssumption DEF FreshButton, Buttons, Statuses, NoJob
<1>2. PICK b : b = [FreshButton EXCEPT !.creating = TRUE]
  OBVIOUS
<1>3. b \in Buttons /\ b.job = NoJob /\ b.creating = TRUE /\ b.refused = FALSE
  BY <1>1, <1>2 DEF Buttons
<1> QED
  BY <1>1, <1>2, <1>3 DEF Restarted

\* The invariant holds at first.
LEMMA ExportInitInv == ExportInit => ExportInv
<1> SUFFICES ASSUME ExportInit PROVE ExportInv
  OBVIOUS
<1>1. jobs \in JobBooks
  BY ExportAssumption DEF ExportInit, JobBooks, Statuses
<1>2. exporting \in Exporting /\ clicks = {} /\ button = FreshButton
  BY DEF ExportInit, Exporting
<1> QED
  BY <1>1, <1>2, FreshButtonType, ExportTypes DEF ExportInv, OneClick, ClickIsStarted, JobIsStarted

\* Every step keeps the invariant.
LEMMA ExportStepInv == ExportInv /\ [ExportNext]_exportVars => ExportInv'
<1> SUFFICES ASSUME ExportInv, [ExportNext]_exportVars PROVE ExportInv'
  OBVIOUS
<1>0. /\ jobs \in JobBooks /\ button \in Buttons /\ clicks \subseteq Clicks /\ exporting \in Exporting
      /\ OneClick /\ ClickIsStarted /\ JobIsStarted /\ MaxJobs \in Nat
  BY ExportTypes, ExportAssumption DEF ExportInv
<1>t. /\ jobs.nr \in 0 .. MaxJobs /\ jobs.of \in [1 .. MaxJobs -> ExportRequests \union {0}]
      /\ jobs.status \in [1 .. MaxJobs -> Statuses] /\ button.job \in 0 .. MaxJobs
      /\ exporting.request \in ExportRequests \union {0} /\ exporting.started \in ExportRequests \union {0}
  BY <1>0 DEF JobBooks, Buttons, Exporting
<1>n. ASSUME /\ jobs' \in JobBooks /\ button' \in Buttons /\ clicks' \subseteq Clicks
             /\ exporting' \in Exporting /\ OneClick' /\ ClickIsStarted' /\ JobIsStarted'
      PROVE  ExportInv'
  BY <1>n, ExportTypesNext DEF ExportInv
<1>1. CASE ServeCreate
  <2>1. PICK c \in clicks :
          /\ c.nr = 0 /\ clicks' = (clicks \ {c}) \union {[c EXCEPT !.nr = jobs.nr + 1]}
          /\ jobs' = [jobs EXCEPT !.nr = @ + 1, !.of[jobs.nr + 1] = c.request]
    BY <1>1 DEF ServeCreate
  <2>2. jobs.nr < MaxJobs /\ UNCHANGED <<button, exporting>>
    BY <1>1 DEF ServeCreate
  <2>3. c \in Clicks /\ c.request \in ExportRequests /\ c.request = exporting.started
    BY <1>0, <2>1 DEF Clicks, ClickIsStarted
  <2>4. jobs.nr + 1 \in 1 .. MaxJobs /\ jobs.nr + 1 \in 0 .. MaxJobs
    BY <1>0, <1>t, <2>2
  <2>5. PICK k : k = [c EXCEPT !.nr = jobs.nr + 1]
    OBVIOUS
  <2>6. k \in Clicks /\ k.nr = jobs.nr + 1 /\ k.request = exporting.started
    BY <2>3, <2>4, <2>5 DEF Clicks
  <2>7. clicks' = {k}
    BY <1>0, <2>1, <2>5 DEF OneClick
  <2> DEFINE of == [jobs.of EXCEPT ![jobs.nr + 1] = c.request]
  <2>8. jobs' = [jobs EXCEPT !.nr = jobs.nr + 1, !.of = of]
    BY <1>0, <2>1 DEF JobBooks
  <2>9. /\ of \in [1 .. MaxJobs -> ExportRequests \union {0}] /\ of[jobs.nr + 1] = exporting.started
        /\ \A j \in 1 .. MaxJobs : j # jobs.nr + 1 => of[j] = jobs.of[j]
    BY <1>t, <2>3, <2>4
  <2> HIDE DEF of
  <2>10. jobs' \in JobBooks /\ jobs'.nr = jobs.nr + 1 /\ jobs'.of = of
    BY <1>0, <2>4, <2>8, <2>9 DEF JobBooks
  <2>11. OneClick'
    BY <1>0, <2>1, <2>2, <2>7 DEF OneClick
  <2>12. ClickIsStarted'
    BY <2>2, <2>4, <2>6, <2>7, <2>9, <2>10 DEF ClickIsStarted
  <2>13. JobIsStarted'
    BY <1>0, <2>1, <2>2 DEF OneClick, JobIsStarted
  <2> QED
    BY <1>0, <1>n, <2>2, <2>6, <2>7, <2>10, <2>11, <2>12, <2>13
<1>2. ASSUME NEW j \in 1 .. MaxJobs, RunExport(j) PROVE ExportInv'
  <2>1. PICK s \in Statuses : jobs' = [jobs EXCEPT !.status[j] = s]
    BY <1>2 DEF RunExport, Statuses
  <2>2. jobs' = [jobs EXCEPT !.status = [jobs.status EXCEPT ![j] = s]]
    BY <1>0, <2>1 DEF JobBooks
  <2>3. [jobs.status EXCEPT ![j] = s] \in [1 .. MaxJobs -> Statuses]
    BY <1>t
  <2>4. jobs' \in JobBooks /\ jobs'.nr = jobs.nr /\ jobs'.of = jobs.of
    BY <1>0, <2>2, <2>3 DEF JobBooks
  <2>5. UNCHANGED <<button, clicks, exporting>>
    BY <1>2 DEF RunExport
  <2> QED
    BY <1>0, <1>n, <2>4, <2>5 DEF OneClick, ClickIsStarted, JobIsStarted
<1>3. CASE ChangeRequest
  <2>1. PICK r \in ExportRequests \union {0} : exporting' = [exporting EXCEPT !.request = r]
    BY <1>3 DEF ChangeRequest
  <2>2. exporting' \in Exporting /\ exporting'.started = exporting.started
    BY <1>0, <2>1 DEF Exporting
  <2>3. UNCHANGED <<jobs, button, clicks>>
    BY <1>3 DEF ChangeRequest
  <2> QED
    BY <1>0, <1>n, <2>2, <2>3 DEF OneClick, ClickIsStarted, JobIsStarted
<1>4. CASE StartExport
  <2>1. /\ Phase \in {"idle", "error"} /\ exporting.request # 0 /\ button' = Restarted(button)
        /\ clicks' = clicks \union {[nr |-> 0, request |-> exporting.request]}
        /\ exporting' = [exporting EXCEPT !.started = exporting.request] /\ UNCHANGED jobs
    BY <1>4 DEF StartExport
  <2>2. clicks = {}
    BY <1>0, <2>1 DEF OneClick, Phase, NoJob
  <2>3. exporting' \in Exporting /\ exporting'.started = exporting.request
    BY <1>0, <1>t, <2>1 DEF Exporting
  <2>4. PICK k : k = [nr |-> 0, request |-> exporting.request]
    OBVIOUS
  <2>5. k \in Clicks /\ k.nr = 0 /\ k.request = exporting.request
    BY <1>0, <1>t, <2>1, <2>4 DEF Clicks
  <2>6. clicks' = {k}
    BY <2>1, <2>2, <2>4
  <2>7. OneClick' /\ JobIsStarted'
    BY <2>1, <2>6, FreshButtonType DEF OneClick, JobIsStarted
  <2>8. ClickIsStarted'
    BY <1>t, <2>1, <2>3, <2>5, <2>6 DEF ClickIsStarted
  <2> QED
    BY <1>0, <1>n, <2>1, <2>3, <2>5, <2>6, <2>7, <2>8, FreshButtonType
<1>5. CASE CreateAnswered
  <2>1. PICK c \in clicks : /\ c.nr # 0 /\ clicks' = clicks \ {c}
                            /\ button' = [button EXCEPT !.job = c.nr, !.creating = FALSE,
                                                        !.seen = "pending", !.failed = FALSE]
    BY <1>5 DEF CreateAnswered
  <2>2. UNCHANGED <<jobs, exporting>>
    BY <1>5 DEF CreateAnswered
  <2>3. clicks' = {}
    BY <1>0, <2>1 DEF OneClick
  <2>4. c.nr \in 0 .. MaxJobs /\ "pending" \in Statuses
    BY <1>0, <2>1 DEF Clicks, Statuses
  <2>5. button' \in Buttons /\ button'.job = c.nr
    BY <1>0, <2>1, <2>4 DEF Buttons
  <2>6. JobIsStarted'
    BY <1>0, <2>1, <2>2, <2>5 DEF ClickIsStarted, JobIsStarted
  <2> QED
    BY <1>0, <1>n, <2>2, <2>3, <2>5, <2>6 DEF OneClick, ClickIsStarted
<1>6. CASE CreateFails
  <2>1. clicks # {} /\ clicks' = {}
    BY <1>0, <1>6 DEF CreateFails, OneClick
  <2>2. button' = [button EXCEPT !.creating = FALSE, !.refused = TRUE] /\ UNCHANGED <<jobs, exporting>>
    BY <1>6 DEF CreateFails
  <2>3. button' \in Buttons /\ button'.job = button.job
    BY <1>0, <2>2 DEF Buttons
  <2> QED
    BY <1>0, <1>n, <2>1, <2>2, <2>3 DEF OneClick, ClickIsStarted, JobIsStarted
<1>b. ASSUME UNCHANGED <<jobs, clicks>>, button' \in Buttons, button'.job = button.job,
             button'.creating = button.creating, button'.refused = button.refused,
             exporting' \in Exporting, exporting'.started = exporting.started
      PROVE  ExportInv'
  BY <1>0, <1>b, <1>n DEF OneClick, ClickIsStarted, JobIsStarted
<1>7. CASE PollJob
  <2>1. button.job # NoJob /\ UNCHANGED <<jobs, clicks, exporting>>
    BY <1>7 DEF PollJob
  <2>2. jobs.status[button.job] \in Statuses
    BY <1>0, <1>t, <2>1 DEF NoJob
  <2>3. \/ button' = [button EXCEPT !.seen = jobs.status[button.job], !.failed = FALSE]
        \/ button' = [button EXCEPT !.failed = TRUE]
    BY <1>7 DEF PollJob
  <2>4. /\ button' \in Buttons /\ button'.job = button.job
        /\ button'.creating = button.creating /\ button'.refused = button.refused
    BY <1>0, <2>2, <2>3 DEF Buttons
  <2> QED
    BY <1>0, <1>b, <2>1, <2>4
<1>8. CASE Download
  <2>1. Phase = "done" /\ UNCHANGED <<jobs, clicks>>
    BY <1>8 DEF Download
  <2>2. button.job # NoJob
    BY <2>1 DEF Phase
  <2>3. jobs.of[button.job] \in ExportRequests \union {0}
    BY <1>0, <1>t, <2>2 DEF NoJob
  <2>4. exporting' = exporting \/ exporting' = [exporting EXCEPT !.file = jobs.of[button.job]]
    BY <1>8 DEF Download
  <2>5. exporting' \in Exporting /\ exporting'.started = exporting.started
    BY <1>0, <2>3, <2>4 DEF Exporting
  <2>6. \E e \in BOOLEAN : button' = [button EXCEPT !.downloadError = e]
    BY <1>8 DEF Download
  <2>7. /\ button' \in Buttons /\ button'.job = button.job
        /\ button'.creating = button.creating /\ button'.refused = button.refused
    BY <1>0, <2>6 DEF Buttons
  <2> QED
    BY <1>b, <2>1, <2>5, <2>7
<1>9. CASE LeavePage
  <2>1. button' = FreshButton /\ clicks' = {} /\ UNCHANGED jobs
        /\ exporting' = [request |-> exporting.request, started |-> 0, file |-> 0]
    BY <1>9 DEF LeavePage
  <2>2. exporting' \in Exporting
    BY <1>t, <2>1 DEF Exporting
  <2> QED
    BY <1>0, <1>n, <2>1, <2>2, FreshButtonType DEF OneClick, ClickIsStarted, JobIsStarted
<1>10. CASE UNCHANGED exportVars
  BY <1>0, <1>10, <1>b DEF exportVars
<1> QED
  BY <1>1, <1>2, <1>3, <1>4, <1>5, <1>6, <1>7, <1>8, <1>9, <1>10 DEF ExportNext

\* The file offered is of the export started last, however retries, failed
\* polls and late answers fall; for any requests and number of jobs
\* (ExportButton, export routes).
THEOREM FileIsOfTheClick == ExportSpec => [](ExportTypeOK /\ FileIsOfTheLastExport)
<1>1. ExportInv => ExportTypeOK /\ FileIsOfTheLastExport
  BY DEF ExportInv, JobIsStarted, FileIsOfTheLastExport, Phase
<1> QED
  BY <1>1, ExportInitInv, ExportStepInv, PTL DEF ExportSpec

-----------------------------------------------------------------------------
(* The axis of one trend plot.                                            *)

\* The records of the model.
Plots == [mounted : BOOLEAN, axis : 0 .. PlotFrames, asked : 0 .. PlotFrames, queued : BOOLEAN]

\* The range asked for last is the one of the columns handed over last.
AsksForTheData == plot.mounted => plot.asked = drawn
\* The inductive invariant: what was asked for last is of the data.
PlotInv == PlotTypeOK /\ AsksForTheData /\ AxisSpansTheData

\* The types, of records.
LEMMA PlotTypes == PlotTypeOK <=> plot \in Plots /\ drawn \in 0 .. PlotFrames
BY DEF PlotTypeOK, Plots

\* And after a step.
LEMMA PlotTypesNext == PlotTypeOK' <=> plot' \in Plots /\ drawn' \in 0 .. PlotFrames
BY DEF PlotTypeOK, Plots

\* Plots as they are built and handed data.
LEMMA PlotBuilt ==
  ASSUME NEW n \in 0 .. PlotFrames
  PROVE  /\ Bare \in Plots /\ ~Bare.mounted /\ 0 \in 0 .. PlotFrames
         /\ Built(n) \in Plots /\ Built(n).mounted /\ Built(n).asked = n /\ Built(n).queued
<1>1. 0 \in 0 .. PlotFrames
  BY PlotAssumption
<1>2. Bare \in Plots /\ Bare.mounted = FALSE
  BY <1>1 DEF Bare, NoRange, Plots
<1>3. PICK p : p = [Bare EXCEPT !.mounted = TRUE, !.asked = n, !.queued = TRUE]
  OBVIOUS
<1>4. p \in Plots /\ p.mounted = TRUE /\ p.asked = n /\ p.queued = TRUE
  BY <1>2, <1>3 DEF Plots
<1> QED
  BY <1>1, <1>2, <1>3, <1>4 DEF Built

\* A plot handed other data.
LEMMA DataSet ==
  ASSUME NEW p \in Plots, NEW n \in 0 .. PlotFrames
  PROVE  /\ SetData(p, n) \in Plots /\ SetData(p, n).mounted = p.mounted
         /\ SetData(p, n).asked = n /\ SetData(p, n).queued
<1>1. PICK q : q = [p EXCEPT !.asked = n, !.queued = TRUE]
  OBVIOUS
<1>2. q \in Plots /\ q.mounted = p.mounted /\ q.asked = n /\ q.queued = TRUE
  BY <1>1 DEF Plots
<1> QED
  BY <1>1, <1>2 DEF SetData

\* The invariant holds at first.
LEMMA PlotInitInv == PlotInit => PlotInv
<1>1. 0 \in 0 .. PlotFrames /\ Bare \in Plots /\ Bare.mounted = FALSE
  BY PlotAssumption, PlotBuilt
<1> QED
  BY <1>1, PlotTypes DEF PlotInit, PlotInv, AsksForTheData, AxisSpansTheData

\* Every step keeps the invariant.
LEMMA PlotStepInv == PlotInv /\ [PlotNext]_plotVars => PlotInv'
<1> SUFFICES ASSUME PlotInv, [PlotNext]_plotVars PROVE PlotInv'
  OBVIOUS
<1>0. plot \in Plots /\ drawn \in 0 .. PlotFrames /\ AsksForTheData /\ AxisSpansTheData /\ PlotFrames \in Nat
  BY PlotTypes, PlotAssumption DEF PlotInv
<1>n. ASSUME plot' \in Plots, drawn' \in 0 .. PlotFrames,
             plot'.mounted => plot'.asked = drawn' /\ (plot'.queued \/ plot'.axis = drawn')
      PROVE  PlotInv'
  BY <1>n, PlotTypesNext DEF PlotInv, AsksForTheData, AxisSpansTheData
<1>1. ASSUME NEW n \in 0 .. PlotFrames, MountPlot(n) PROVE PlotInv'
  <2>1. plot' = SetData(Built(n), n) /\ drawn' = n
    BY <1>1 DEF MountPlot, Redrawn
  <2> QED
    BY <1>n, <2>1, PlotBuilt, DataSet
<1>2. ASSUME NEW n \in drawn .. PlotFrames, NEW tip \in BOOLEAN, DrawFrame(n, tip) PROVE PlotInv'
  <2>1. plot' = SetData(plot, n) /\ drawn' = n
    BY <1>2 DEF DrawFrame, Redrawn
  <2>2. n \in 0 .. PlotFrames
    BY <1>0
  <2> QED
    BY <1>0, <1>n, <2>1, <2>2, DataSet
<1>3. CASE Repaint \/ UNCHANGED plotVars
  BY <1>0, <1>3, <1>n DEF Repaint, Redrawn, plotVars, AsksForTheData, AxisSpansTheData
<1>4. CASE RebuildPlot
  BY <1>0, <1>4, <1>n, PlotBuilt DEF RebuildPlot
<1>5. CASE CommitScale
  <2>1. plot' = [plot EXCEPT !.axis = plot.asked, !.queued = FALSE] /\ drawn' = drawn
    BY <1>5 DEF CommitScale
  <2>2. plot.asked \in 0 .. PlotFrames
    BY <1>0 DEF Plots
  <2>3. /\ plot' \in Plots /\ plot'.axis = plot.asked /\ plot'.asked = plot.asked
        /\ plot'.mounted = plot.mounted
    BY <1>0, <2>1, <2>2 DEF Plots
  <2> QED
    BY <1>0, <1>n, <2>1, <2>3 DEF AsksForTheData
<1>6. CASE Unmount
  <2>1. plot' = Bare /\ drawn' = 0
    BY <1>6 DEF Unmount
  <2> QED
    BY <1>0, <1>n, <2>1, PlotBuilt
<1> QED
  BY <1>1, <1>2, <1>3, <1>4, <1>5, <1>6 DEF PlotNext

\* Once the commits are done the axis of a plot spans its data, the first
\* frames after an empty window included; for any number of frames
\* (Trend.tsx).
THEOREM AxisFollowsTheData == PlotSpec => [](PlotTypeOK /\ AxisSpansTheData)
<1>1. PlotInv => PlotTypeOK /\ AxisSpansTheData
  BY DEF PlotInv
<1> QED
  BY <1>1, PlotInitInv, PlotStepInv, PTL DEF PlotSpec
==============================================================================
