----------------------------- MODULE HistoryDesk ---------------------------
(* The alarm and event history page: the filter in the form and the one       *)
(* applied, the fetch of the two logs, each cut at a limit, and the rows kept *)
(* on display until the next answer.                                          *)
EXTENDS Naturals, FiniteSets

CONSTANTS
    LogRows,      \* rows of the two logs, newest first: their numbers
    Histories,    \* what the logs may hold in the period
    LogLimit      \* HISTORY_LIMIT, per log

Rows   == [kind : {"alarm"}, loop : {1, 2}, priority : {"crit", "low"}, type : {"HI", "LO"}]
              \union [kind : {"event"}, loop : {0}, priority : {"crit", "low"}, type : {"none"}]

ASSUME HistoryAssumption ==
    /\ LogRows \subseteq Nat \ {0} /\ IsFiniteSet(LogRows) /\ LogLimit \in Nat \ {0}
    /\ Histories \subseteq [LogRows -> Rows]

VARIABLES
    logs,      \* what the logs hold in the period, row by row
    filters,         \* the filter being edited and the one applied
    answer        \* the query of the applied filter

historyVars == <<logs, filters, answer>>

All    == "ALL"
Filter == [priority : {All, "crit"}, type : {All, "HI"}, loop : {0, 1}]
AllRows == [priority |-> All, type |-> All, loop |-> 0]

HistoryTypeOK ==
    /\ logs \in [LogRows -> Rows]
    /\ filters \in [draft : Filter, valid : BOOLEAN, applied : Filter]
    /\ answer \in [stage : {"pending", "error", "shown"}, rows : SUBSET LogRows]

-----------------------------------------------------------------------------
(* The daemon: the newest rows of one log, one loop's or every loop's.        *)

NewestRows(set) == {n \in set : Cardinality({k \in set : k < n}) < LogLimit}
AlarmLog(f) == {n \in LogRows : logs[n].kind = "alarm" /\ (f.loop = 0 \/ logs[n].loop = f.loop)}
EventLog    == {n \in LogRows : logs[n].kind = "event"}

(* The page: both logs, or the alarms alone for one loop, then narrowed.      *)
NarrowedAnyKind(f, n) ==                    \* mutant: a type lets the events through
    /\ f.priority # All => logs[n].priority = f.priority
    /\ f.type # All => logs[n].kind = "event" \/ logs[n].type = f.type
Narrowed(f, n) ==
    /\ f.priority # All => logs[n].priority = f.priority
    /\ f.type # All => logs[n].kind = "alarm" /\ logs[n].type = f.type

Fetched(f) == NewestRows(AlarmLog(f)) \union IF f.loop = 0 THEN NewestRows(EventLog) ELSE {}
RowsFor(f) == {n \in Fetched(f) : Narrowed(f, n)}

HistoryInit ==
    /\ logs \in Histories
    /\ filters = [draft |-> AllRows, valid |-> TRUE, applied |-> AllRows]
    /\ answer = [stage |-> "pending", rows |-> {}]

EditFilter ==
    /\ \E f \in Filter, valid \in BOOLEAN :
           /\ <<f, valid>> # <<filters.draft, filters.valid>>
           /\ filters' = [filters EXCEPT !.draft = f, !.valid = valid]
    /\ UNCHANGED <<logs, answer>>

(* A half-typed period never fires a request. The rows of before stay until   *)
(* the answer of the new filter.                                              *)
ApplyFilter ==
    /\ filters.valid /\ filters.draft # filters.applied
    /\ filters' = [filters EXCEPT !.applied = filters.draft]
    /\ answer' = [answer EXCEPT !.stage = "pending"]
    /\ UNCHANGED logs

AnswerLands ==
    /\ answer.stage = "pending"
    /\ \/ answer' = [stage |-> "shown", rows |-> RowsFor(filters.applied)]
       \/ answer' = [answer EXCEPT !.stage = "error"]
    /\ UNCHANGED <<logs, filters>>

RetryHistory ==
    /\ answer.stage = "error" /\ answer' = [answer EXCEPT !.stage = "pending"]
    /\ UNCHANGED <<logs, filters>>

HistoryNext == EditFilter \/ ApplyFilter \/ AnswerLands \/ RetryHistory

HistorySpec == HistoryInit /\ [][HistoryNext]_historyVars

-----------------------------------------------------------------------------
(* The reference: what the operator asked for.                                *)
AskedRows(f) ==
    {n \in LogRows : /\ f.loop = 0 \/ logs[n].loop = f.loop
                     /\ f.priority # All => logs[n].priority = f.priority
                     /\ f.type # All => logs[n].type = f.type}

(* Once its answer is shown the page lists the rows of the applied filter,    *)
(* and all of them while neither log is cut: the draft, an older filter and   *)
(* the split of the filter between daemon and page never show.                *)
HistoryAnswersTheFilter ==
    answer.stage = "shown" =>
        /\ answer.rows \subseteq AskedRows(filters.applied)
        /\ Cardinality(AlarmLog(filters.applied)) <= LogLimit /\ Cardinality(EventLog) <= LogLimit
               => answer.rows = AskedRows(filters.applied)

(* A narrow filter shows all its rows: refuted, the daemon cuts each log      *)
(* before the page narrows by priority and type.                              *)
NarrowedHistoryIsComplete ==
    answer.stage = "shown" /\ Cardinality(AskedRows(filters.applied)) <= LogLimit =>
        answer.rows = AskedRows(filters.applied)
=============================================================================
