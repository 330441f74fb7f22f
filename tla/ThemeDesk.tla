----------------------------- MODULE ThemeDesk -----------------------------
(* The theme that follows the user: the palette on a station's screen, the    *)
(* one stored in the user's account, and ThemeSync between them, over logins, *)
(* logouts and best-effort writes that may be lost or overtake each other.    *)
EXTENDS Naturals

CONSTANTS
    ThemeUsers,
    Themes,
    Stations,     \* browsers, each with its own palette on screen
    MaxPicks      \* themes picked

ASSUME ThemeAssumption ==
    /\ Themes \subseteq Nat \ {0} /\ ThemeUsers \subseteq Nat \ {0} /\ MaxPicks \in Nat

VARIABLES
    account,      \* the theme stored for each user, 0 when none was ever chosen
    station,      \* per browser: its theme, its user, the value ThemeSync holds
    pushes,       \* writes on their way
    picks         \* per user: the themes the user was ever seen to choose

themeVars == <<account, station, pushes, picks>>

NoTheme == 0
LoggedOut  == 0
OutOfSession == [user |-> LoggedOut, fetched |-> NoTheme, synced |-> NoTheme]
ThemePush == [user : ThemeUsers, theme : Themes, nr : 0 .. MaxPicks]

ThemeTypeOK ==
    /\ account \in [ThemeUsers -> Themes \union {NoTheme}]
    /\ station \in [Stations -> [theme : Themes,
                                 session : [user : ThemeUsers \union {LoggedOut},
                                            fetched : Themes \union {NoTheme},
                                            synced : Themes \union {NoTheme}],
                                 dirty : BOOLEAN]]
    /\ pushes \subseteq ThemePush
    /\ picks \in [chosen : [ThemeUsers -> SUBSET Themes], count : 0 .. MaxPicks]

ThemeInit ==
    /\ account \in [ThemeUsers -> Themes \union {NoTheme}]
    /\ \E t \in [Stations -> Themes] :
           station = [s \in Stations |-> [theme |-> t[s], session |-> OutOfSession, dirty |-> FALSE]]
    /\ pushes = {}
    /\ picks = [chosen |-> [u \in ThemeUsers |-> {account[u]} \ {NoTheme}], count |-> 0]

-----------------------------------------------------------------------------
(* The user of a session arrives with the theme stored at that moment; the    *)
(* effect has not run yet.                                                    *)
LogIn(s, u) ==
    /\ station[s].session.user = LoggedOut
    /\ station' = [station EXCEPT
                     ![s].session = [user |-> u, fetched |-> account[u], synced |-> NoTheme],
                     ![s].dirty = TRUE]
    /\ UNCHANGED <<account, pushes, picks>>

(* The station keeps its palette.                                             *)
LogOut(s) ==
    /\ station[s].session.user # LoggedOut
    /\ station' = [station EXCEPT ![s].session = OutOfSession, ![s].dirty = FALSE]
    /\ UNCHANGED <<account, pushes, picks>>

(* The shell's menu and the settings page: setTheme sets the state and the    *)
(* browser's cache; the effect runs after the commit.                         *)
PickTheme(s, t) ==
    /\ LET u == station[s].session.user IN
       /\ u # LoggedOut /\ station[s].session.synced # NoTheme /\ t # station[s].theme
       /\ picks.count < MaxPicks
       /\ picks' = [chosen |-> [picks.chosen EXCEPT ![u] = @ \union {t}], count |-> picks.count + 1]
    /\ station' = [station EXCEPT ![s].theme = t, ![s].dirty = TRUE]
    /\ UNCHANGED <<account, pushes>>

Adopted(st) == IF st.session.fetched = NoTheme THEN st.theme ELSE st.session.fetched

(* What the effect sends: on a session's first commit nothing, it adopts.     *)
SendsEcho(st) ==                             \* mutant: a push effect of its own
    IF st.session.synced = st.theme THEN {} ELSE {st.theme}
Sends(st) == IF st.session.synced \in {NoTheme, st.theme} THEN {} ELSE {st.theme}

Sync(s) ==
    /\ station[s].dirty
    /\ LET st == station[s]
           now == IF st.session.synced = NoTheme THEN Adopted(st) ELSE st.theme
       IN  /\ station' = [station EXCEPT ![s].theme = now, ![s].session.synced = now,
                                         ![s].dirty = FALSE]
           /\ pushes' = pushes \union
                {[user |-> st.session.user, theme |-> t, nr |-> picks.count] : t \in Sends(st)}
    /\ UNCHANGED <<account, picks>>

(* Two writes of one station are two requests: they may land in any order.    *)
PushLands ==
    /\ \E p \in pushes : pushes' = pushes \ {p} /\ account' = [account EXCEPT ![p.user] = p.theme]
    /\ UNCHANGED <<station, picks>>

PushLost ==
    /\ \E p \in pushes : pushes' = pushes \ {p}
    /\ UNCHANGED <<account, station, picks>>

ThemeNext ==
    \/ \E s \in Stations : \/ LogOut(s) \/ Sync(s)
                           \/ \E u \in ThemeUsers : LogIn(s, u)
                           \/ \E t \in Themes : PickTheme(s, t)
    \/ PushLands \/ PushLost

ThemeSpec == ThemeInit /\ [][ThemeNext]_themeVars

-----------------------------------------------------------------------------
(* A login never writes the station's palette over the theme of the user: an  *)
(* account only ever holds a theme its user chose.                            *)
ThemeIsTheUsersChoice == \A u \in ThemeUsers : account[u] \in picks.chosen[u] \union {NoTheme}
=============================================================================
