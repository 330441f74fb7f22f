---------------------------- MODULE SettingsDesk ---------------------------
(* The settings page: the display preferences of this browser, validated as a *)
(* set and kept in one snapshot and in localStorage, which another tab writes *)
(* too; and the daemon's log levels, which another administrator sets too.    *)
EXTENDS Naturals, FiniteSets

CONSTANTS
    PrefValues,   \* numbers a preference box accepts: integers in its range
    LogLevels,    \* level names
    MaxApplies    \* log level lists sent

ASSUME SettingsAssumption == PrefValues \subseteq Nat \ {0} /\ 1 \in PrefValues /\ MaxApplies \in Nat

VARIABLES
    prefs,        \* localStorage, this tab's snapshot, the draft, the notice
    levels,       \* the daemon's log levels
    levelDesk     \* the page's levels: cached answer, ticks, request

settingsVars == <<prefs, levels, levelDesk>>

Rejected == 0                             \* blank, a fraction, out of range
Boxes    == {"numberDecimals", "trendWindowSeconds"}
DefaultPreferences == [b \in Boxes |-> 1]
NoPreferences == [b \in Boxes |-> Rejected]
Untouched == [touched |-> FALSE, set |-> {}]

SettingsTypeOK ==
    /\ prefs \in [stored : [Boxes -> PrefValues \union {Rejected}],
                  snapshot : [Boxes -> PrefValues \union {Rejected}],
                  draft : [Boxes -> PrefValues \union {Rejected}], saved : BOOLEAN]
    /\ levels \in [active : SUBSET LogLevels, sent : 0 .. MaxApplies]
    /\ levelDesk \in [cached : SUBSET LogLevels, ticked : [touched : BOOLEAN, set : SUBSET LogLevels],
                      stage : {"loading", "ready", "failed", "saving", "applied"}]

(* Storage that is missing or unreadable loads as the defaults.               *)
(* load() validates nothing else: localStorage is assumed to hold what the    *)
(* page itself stored there, or nothing.                                      *)
Load(raw) == IF raw = NoPreferences THEN DefaultPreferences ELSE raw

SettingsInit ==
    /\ \E raw \in [Boxes -> PrefValues] \union {NoPreferences} :
           prefs = [stored |-> raw, snapshot |-> Load(raw), draft |-> Load(raw), saved |-> FALSE]
    /\ levels \in [active : SUBSET LogLevels, sent : {0}]
    /\ levelDesk = [cached |-> {}, ticked |-> Untouched, stage |-> "loading"]

-----------------------------------------------------------------------------
PatchKeepsNotice(old) == old.saved          \* mutant: the notice outlives an edit
PatchedNotice(old) == FALSE

PatchBox ==
    /\ \E b \in Boxes, v \in PrefValues \union {Rejected} :
           prefs' = [prefs EXCEPT !.draft[b] = v, !.saved = PatchedNotice(prefs)]
    /\ UNCHANGED <<levels, levelDesk>>

(* All boxes are checked before any is saved.                                 *)
AcceptsOneBox(draft) == draft["numberDecimals"] # Rejected  \* mutant: one box checked
AcceptsBoxes(draft) == \A b \in Boxes : draft[b] # Rejected

(* The whole set replaces the snapshot; a full storage keeps the old copy.    *)
SavePreferences ==
    /\ AcceptsBoxes(prefs.draft)
    /\ \E raw \in {prefs.draft, prefs.stored} :
           prefs' = [prefs EXCEPT !.snapshot = prefs.draft, !.stored = raw, !.saved = TRUE]
    /\ UNCHANGED <<levels, levelDesk>>

ResetPreferences ==
    /\ prefs' = [stored |-> NoPreferences, snapshot |-> DefaultPreferences,
                 draft |-> DefaultPreferences, saved |-> FALSE]
    /\ UNCHANGED <<levels, levelDesk>>

(* No tab hears of another one's save.                                        *)
OtherTabSaves ==
    /\ \E raw \in [Boxes -> PrefValues] \union {NoPreferences} : prefs' = [prefs EXCEPT !.stored = raw]
    /\ UNCHANGED <<levels, levelDesk>>

(* Coming back to the page drafts the snapshot and the cached levels.         *)
ReopenSettings ==
    /\ prefs' = [prefs EXCEPT !.draft = prefs.snapshot, !.saved = FALSE]
    /\ levelDesk' = [levelDesk EXCEPT !.ticked = Untouched,
                                      !.stage = IF @ \in {"saving", "applied"} THEN "ready" ELSE @]
    /\ UNCHANGED levels

ReloadTab ==
    /\ LET now == Load(prefs.stored) IN
           prefs' = [prefs EXCEPT !.snapshot = now, !.draft = now, !.saved = FALSE]
    /\ levelDesk' = [cached |-> {}, ticked |-> Untouched, stage |-> "loading"]
    /\ UNCHANGED levels

-----------------------------------------------------------------------------
(* The levels' query: on mounting, on reconnecting, after an apply.            *)
LevelsLand ==
    /\ levelDesk.stage \in {"loading", "ready", "failed", "applied"}
    /\ \/ levelDesk' = [levelDesk EXCEPT !.cached = levels.active, !.stage = "ready"]
       \/ levelDesk' = [levelDesk EXCEPT !.stage = "failed"]
    /\ UNCHANGED <<prefs, levels>>

Ticked == IF levelDesk.ticked.touched THEN levelDesk.ticked.set ELSE levelDesk.cached
Ticking(set) == [touched |-> TRUE, set |-> set]
Toggled(set, level) == IF level \in set THEN set \ {level} ELSE set \union {level}

TickLevel ==
    /\ levelDesk.stage \in {"ready", "saving", "applied"}
    /\ \E level \in LogLevels :
          levelDesk' = [levelDesk EXCEPT !.ticked = Ticking(Toggled(Ticked, level))]
    /\ UNCHANGED <<prefs, levels>>

(* The list sent becomes the draft at once and stays it when the daemon says  *)
(* no: from here on the page shows it whatever the daemon has.                *)
ApplyLevels ==
    /\ levelDesk.stage \in {"ready", "applied"} /\ levels.sent < MaxApplies
    /\ levelDesk' = [levelDesk EXCEPT !.ticked = Ticking(Ticked), !.stage = "saving"]
    /\ \E now \in {Ticked, levels.active} : levels' = [active |-> now, sent |-> levels.sent + 1]
    /\ UNCHANGED prefs

ApplyAnswered ==
    /\ levelDesk.stage = "saving"
    /\ \E stage \in {"applied", "ready"} : levelDesk' = [levelDesk EXCEPT !.stage = stage]
    /\ UNCHANGED <<prefs, levels>>

OtherSetsLevels ==
    /\ levels.sent < MaxApplies
    /\ \E now \in SUBSET LogLevels : levels' = [active |-> now, sent |-> levels.sent + 1]
    /\ UNCHANGED <<prefs, levelDesk>>

SettingsNext ==
    \/ PatchBox \/ SavePreferences \/ ResetPreferences \/ OtherTabSaves \/ ReopenSettings \/ ReloadTab
    \/ LevelsLand \/ TickLevel \/ ApplyLevels \/ ApplyAnswered \/ OtherSetsLevels

SettingsSpec == SettingsInit /\ [][SettingsNext]_settingsVars

-----------------------------------------------------------------------------
(* A rejected box never reaches the preferences in use or those stored, in    *)
(* whatever order boxes are typed, saved, reset and reloaded.                 *)
PreferencesAreValid ==
    /\ \A b \in Boxes : prefs.snapshot[b] \in PrefValues
    /\ prefs.stored = NoPreferences \/ \A b \in Boxes : prefs.stored[b] \in PrefValues

(* "Saved" is on the page only while the boxes show the preferences in use.   *)
SavedNoticeIsTrue == prefs.saved => prefs.draft = prefs.snapshot

(* The page shows the daemon's log levels once nothing is under way: refuted, *)
(* a refused list and another administrator's change stay hidden.             *)
LevelsShownAreActive == levelDesk.stage = "applied" => Ticked = levels.active
=============================================================================
