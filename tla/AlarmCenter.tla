---------------------------- MODULE AlarmCenter ----------------------------
(* One alarm point from the process to the operator's screen: the daemon's    *)
(* AlarmWorker and AlarmRepository, and the alarm list, footer and dashboard  *)
(* border of one browser tab.                                                 *)
EXTENDS Naturals, Sequences, FiniteSets

CONSTANTS
    MaxAlarms,      \* occurrences of the alarm in one behaviour
    MaxFrames,      \* events the socket has not delivered yet
    MaxPersists     \* row writes on the daemon's loop at once

ASSUME AlarmAssumption == MaxAlarms \in Nat \ {0} /\ MaxFrames \in Nat \ {0}
                   /\ MaxPersists \in Nat \ {0}

VARIABLES
    engine,     \* AlarmEngine: is the point active
    raised,     \* occurrences so far; the n-th is the row n
    writes,     \* _persist_alarm coroutines not yet run: unordered
    alarmLog,   \* Log_Alarmes
    wire,       \* EVENT.ALARM frames on their way to the tab
    screen,     \* page, REST rows, point of useAlarmPoints, coalescing timer;
                \* history: an event was heard since the rows were asked for
    fetch,      \* the tab's GET /alarms/active; history: asked since the last event
    acks        \* the tab's POST .../ack, 0 standing for ack-all

alarmVars == <<engine, raised, writes, alarmLog, wire, screen, fetch, acks>>

Occurrences == 1 .. MaxAlarms
AlarmRows   == [n : Occurrences, cleared : BOOLEAN, acked : BOOLEAN]
NoFetch     == [stage |-> "idle", rows |-> {}, fresh |-> FALSE]
Asked       == [stage |-> "asked", rows |-> {}, fresh |-> TRUE]

AlarmTypeOK ==
    /\ engine \in BOOLEAN
    /\ raised \in 0 .. MaxAlarms
    /\ writes \subseteq [op : {"insert", "clear"}, n : Occurrences]
    /\ alarmLog \subseteq AlarmRows
    /\ wire \in Seq({"TRIGGERED", "CLEARED"})
    /\ screen \in [page : {"dashboard", "alarms"}, loaded : BOOLEAN, rows : SUBSET AlarmRows,
                   point : {"NORMAL", "UNACKNOWLEDGED", "ACKNOWLEDGED", "CLEARED_UNACK"},
                   timer : BOOLEAN, behind : BOOLEAN]
    /\ fetch \in [stage : {"idle", "asked", "answered"}, rows : SUBSET AlarmRows,
                  fresh : BOOLEAN]
    /\ acks \subseteq [n : 0 .. MaxAlarms, served : BOOLEAN]

(* The log is empty at first; the tab has just mounted and asked for it.      *)
AlarmInit ==
    /\ engine = FALSE
    /\ raised = 0
    /\ writes = {}
    /\ alarmLog = {}
    /\ wire = <<>>
    /\ screen = [page |-> "dashboard", loaded |-> FALSE, rows |-> {},
                 point |-> "NORMAL", timer |-> FALSE, behind |-> FALSE]
    /\ fetch = Asked
    /\ acks = {}

-----------------------------------------------------------------------------
(* What a row says of its point: the SQL CASE and fromActiveRow.              *)

RowState(r) ==
    IF r.acked THEN IF r.cleared THEN "NORMAL" ELSE "ACKNOWLEDGED"
               ELSE IF r.cleared THEN "CLEARED_UNACK" ELSE "UNACKNOWLEDGED"

Newest(rows) == CHOOSE r \in rows : \A s \in rows : s.n <= r.n

(* fromRows: the newest row describes the point.                              *)
PointOf(rows) == IF rows = {} THEN "NORMAL" ELSE RowState(Newest(rows))

(* get_active: what is cleared and acknowledged leaves the list.              *)
ActiveRows(rows) == {r \in rows : ~(r.cleared /\ r.acked)}

Unacked(s) == s \in {"UNACKNOWLEDGED", "CLEARED_UNACK"}
Standing(s) == s \in {"UNACKNOWLEDGED", "ACKNOWLEDGED"}

Machine == INSTANCE AlarmPoint WITH state <- PointOf(alarmLog)

-----------------------------------------------------------------------------
(* The daemon.                                                                *)

UiUnchanged == UNCHANGED <<screen, fetch, acks>>

Announce(event, write) ==
    /\ Len(wire) < MaxFrames /\ Cardinality(writes) < MaxPersists
    /\ wire' = Append(wire, event)
    /\ writes' = writes \union {write}

(* One STATUS frame through AlarmEngine.evaluate: beyond the limit, clear of  *)
(* its deadband, or in between. A delay makes such a frame do nothing yet.    *)
StatusFrame(pv) ==
    /\ \/ /\ pv = "beyond" /\ ~engine /\ raised < MaxAlarms
          /\ raised' = raised + 1
          /\ Announce("TRIGGERED", [op |-> "insert", n |-> raised + 1])
       \/ /\ pv = "clear" /\ engine
          /\ Announce("CLEARED", [op |-> "clear", n |-> raised])
          /\ UNCHANGED raised
    /\ engine' = ~engine
    /\ UiUnchanged /\ UNCHANGED alarmLog

(* Mutant: a re-trigger re-opens the row it finds, acknowledgement included.  *)
InsertedReopening(rows, n) ==
    IF rows = {} THEN {[n |-> n, cleared |-> FALSE, acked |-> FALSE]}
                 ELSE {[r EXCEPT !.cleared = FALSE] : r \in rows}
Inserted(rows, n) == rows \union {[n |-> n, cleared |-> FALSE, acked |-> FALSE]}

(* mark_cleared closes every open row of the point.                           *)
MarkCleared(rows) == {[r EXCEPT !.cleared = TRUE] : r \in rows}

(* Each write is a coroutine of its own on the event loop: they may overtake  *)
(* each other, and a failing one is logged and forgotten.                     *)
Persist(w) ==
    /\ w \in writes
    /\ writes' = writes \ {w}
    /\ alarmLog' \in {alarmLog, IF w.op = "insert" THEN Inserted(alarmLog, w.n)
                                                   ELSE MarkCleared(alarmLog)}
    /\ UiUnchanged /\ UNCHANGED <<engine, raised, wire>>

(* PUT /alarm-config with every limit off forgets the point, on again or not; *)
(* nothing is announced and its row stays open.                               *)
Silence ==
    /\ engine /\ engine' = FALSE
    /\ UiUnchanged /\ UNCHANGED <<raised, writes, alarmLog, wire>>

OpenRows(rows) == {r \in rows : ~r.cleared}

(* The daemon dies with what it had not persisted; the next one seeds its     *)
(* engine from the open rows. The tab resynchronises.                         *)
Restart ==
    /\ writes' = {} /\ wire' = <<>>
    /\ engine' = (OpenRows(ActiveRows(alarmLog)) # {})
    /\ fetch' = Asked
    /\ UNCHANGED <<raised, alarmLog, screen, acks>>

Acknowledged(rows, n) ==
    {[r EXCEPT !.acked = @ \/ n \in {0, r.n}] : r \in rows}

OtherOperatorAcks(n) ==
    /\ \E r \in alarmLog : ~r.acked /\ n \in {0, r.n}
    /\ alarmLog' = Acknowledged(alarmLog, n)
    /\ UiUnchanged /\ UNCHANGED <<engine, raised, writes, wire>>

-----------------------------------------------------------------------------
(* The tab.                                                                   *)

DaemonUnchanged == UNCHANGED <<engine, raised, writes, alarmLog>>

(* invalidateQueries: a first load in flight is not started again.            *)
Invalidate ==
    IF fetch.stage # "idle" /\ ~screen.loaded THEN fetch' = fetch ELSE fetch' = Asked

(* useAlarmRealtimeSync: one refetch per window, armed by its first event.    *)
ArmsWhenIdle == screen.page = "alarms" /\ fetch.stage = "idle"  \* mutant: trusts a fetch in flight
Arms == screen.page = "alarms"

HearAlarm ==
    /\ wire # <<>>
    /\ wire' = Tail(wire)
    /\ screen' = [screen EXCEPT !.point = Machine!Transition(screen.point, Head(wire)),
                                !.timer = @ \/ Arms,
                                !.behind = @ \/ (screen.page = "alarms" /\ screen.loaded)]
    /\ fetch' = [fetch EXCEPT !.fresh = FALSE]
    /\ DaemonUnchanged /\ UNCHANGED acks

CoalesceEnds ==
    /\ screen.timer
    /\ screen' = [screen EXCEPT !.timer = FALSE]
    /\ Invalidate
    /\ DaemonUnchanged /\ UNCHANGED <<wire, acks>>

ServeActive ==
    /\ fetch.stage = "asked"
    /\ fetch' = [fetch EXCEPT !.stage = "answered", !.rows = ActiveRows(alarmLog)]
    /\ DaemonUnchanged /\ UNCHANGED <<wire, screen, acks>>

(* Structural sharing: equal rows keep their identity, and the effect that    *)
(* rebuilds the points does not run.                                          *)
LandSnapshot ==
    /\ fetch.stage = "answered"
    /\ screen' = [screen EXCEPT
                    !.loaded = TRUE, !.rows = fetch.rows, !.behind = @ /\ ~fetch.fresh,
                    !.point = IF screen.loaded /\ fetch.rows = screen.rows
                              THEN @ ELSE PointOf(fetch.rows)]
    /\ fetch' = NoFetch
    /\ DaemonUnchanged /\ UNCHANGED <<wire, acks>>

(* An answer that is lost is one never served; the list then shows an error.  *)
FetchFails ==
    /\ fetch.stage = "asked"
    /\ fetch' = NoFetch
    /\ screen' = [screen EXCEPT !.behind = @ /\ ~fetch.fresh]
    /\ DaemonUnchanged /\ UNCHANGED <<wire, acks>>

RetryFetch ==
    /\ ~screen.loaded /\ fetch.stage = "idle"
    /\ Invalidate
    /\ DaemonUnchanged /\ UNCHANGED <<wire, screen, acks>>

(* A hole in the stream: its frames are lost and the provider resynchronises. *)
LoseFrames ==
    /\ wire # <<>>
    /\ wire' = <<>>
    /\ fetch' = Asked
    /\ DaemonUnchanged /\ UNCHANGED <<screen, acks>>

(* The footer remounts with the cached rows, the list's timer is cleared.     *)
SwitchPage ==
    /\ screen' = [screen EXCEPT !.page = IF @ = "alarms" THEN "dashboard" ELSE "alarms",
                                !.point = PointOf(screen.rows),
                                !.timer = FALSE, !.behind = FALSE]
    /\ fetch' = IF fetch.stage = "idle" THEN Asked ELSE fetch
    /\ DaemonUnchanged /\ UNCHANGED <<wire, acks>>

(* AlarmPanel's ACK button of a row; the footer's ACK ALL.                    *)
RowOffersAck(n) ==
    /\ screen.page = "alarms"
    /\ \E r \in screen.rows : r.n = n /\ Unacked(RowState(r))
FooterOffersAckAll == Standing(screen.point) /\ Unacked(screen.point)

(* One acknowledgement at a time is modelled.                                 *)
ClickAck(n) ==
    /\ acks = {}
    /\ IF n = 0 THEN FooterOffersAckAll ELSE RowOffersAck(n)
    /\ acks' = acks \union {[n |-> n, served |-> FALSE]}
    /\ DaemonUnchanged /\ UNCHANGED <<wire, screen, fetch>>

(* Once it is served, an acknowledgement only has to settle.                  *)
ServeAck(a) ==
    /\ a \in acks /\ ~a.served
    /\ alarmLog' = Acknowledged(alarmLog, a.n)
    /\ acks' = (acks \ {a}) \union {[n |-> 0, served |-> TRUE]}
    /\ UNCHANGED <<engine, raised, writes, wire, screen, fetch>>

(* Settled, with an answer or an error (served or not): refetch.              *)
AckSettles(a) ==
    /\ a \in acks
    /\ acks' = acks \ {a}
    /\ Invalidate
    /\ DaemonUnchanged /\ UNCHANGED <<wire, screen>>

-----------------------------------------------------------------------------
AlarmNext ==
    \/ \E pv \in {"clear", "beyond"} : StatusFrame(pv)
    \/ Silence \/ Restart
    \/ \E w \in writes : Persist(w)
    \/ \E n \in 0 .. raised : OtherOperatorAcks(n) \/ ClickAck(n)
    \/ \E a \in acks : ServeAck(a) \/ AckSettles(a)
    \/ HearAlarm \/ CoalesceEnds \/ ServeActive \/ LandSnapshot \/ FetchFails
    \/ RetryFetch \/ LoseFrames \/ SwitchPage

AlarmSpec == AlarmInit /\ [][AlarmNext]_alarmVars

-----------------------------------------------------------------------------
(* The log implements the four-state machine whatever order its writes land   *)
(* in: the newest row of a point moves only as lib/alarmMachine.ts says, so a *)
(* new occurrence always demands a new acknowledgement.                       *)
LogIsAlarmMachine == Machine!PointSpec

(* Coalescing never drops the last event: while the alarm list is open and an *)
(* event was heard since its rows were asked for, a read of the list asked    *)
(* for after that event is under way, or a window is open that will ask for   *)
(* one; a read that was already in flight when the event came does not count  *)
(* (useAlarmRealtimeSync). The promise ends when that read fails or the page  *)
(* is left, which clears the window.                                          *)
EventIsReconciled ==
    screen.behind => screen.timer \/ (fetch.stage # "idle" /\ fetch.fresh)

(* "REST is truth: every /alarms/active snapshot (initial load, ACK ALL       *)
(* invalidation, resync) replaces the point map" (useAlarmCounts.ts): a       *)
(* snapshot that lands when the log and the stream are at rest is what the    *)
(* footer shows. Refuted, equal rows keep their identity and replace nothing. *)
EverySnapshotReplacesPoints ==
    [][LandSnapshot /\ writes = {} /\ wire = <<>> =>
         screen'.point = PointOf(screen'.rows)]_alarmVars
=============================================================================
