----------------------------- MODULE LoopConfig -----------------------------
(* The configuration of one loop id: the stored row, the copy its workers run *)
(* with, the gains in the DCS block, and one administrator's dashboard with    *)
(* its configuration dialog and tuning boxes; another administrator saves,    *)
(* tunes, deletes and creates at any time. Fields stand for groups: the       *)
(* execution mode, the DDC-only PID group, and the ranges (scales, SP band,   *)
(* AI limits) that are sent in every mode.                                    *)
EXTENDS Naturals

CONSTANTS
    MaxGains,   \* distinct legal PID parameter sets
    MaxLoops    \* loops that come to live under the id

ASSUME ConfigAssumption == MaxGains \in Nat \ {0} /\ MaxLoops \in Nat \ {0}

VARIABLES
    born,       \* loops created under the id so far
    loopRow,    \* the row of the id; loop 0 = no row
    running,    \* LoopManager's ctx.controller; loop 0 = no context
    dcs,        \* gains in the DCS block
    ordered,    \* the gains last ordered by a tuning command (history)
    board       \* the dashboard: roster, dialog, the call in flight

configVars == <<born, loopRow, running, dcs, ordered, board>>

(* The gains 0 are a box that holds no legal number.                          *)
Typed    == 0 .. MaxGains
Configs  == [loop : 0 .. MaxLoops, ddc : BOOLEAN, gains : 1 .. MaxGains]
Drafts   == [open : BOOLEAN, ddc : BOOLEAN, gains : Typed, sound : BOOLEAN]
NoDraft  == [open |-> FALSE, ddc |-> FALSE, gains |-> 0, sound |-> TRUE]
NoLoop   == [loop |-> 0, ddc |-> FALSE, gains |-> 1]
NoCall   == [kind |-> "none", phase |-> "idle", draft |-> NoDraft, seen |-> NoLoop,
             mine |-> FALSE]

ConfigTypeOK ==
    /\ born \in 1 .. MaxLoops
    /\ loopRow \in Configs /\ running \in Configs
    /\ dcs \in Typed /\ ordered \in Typed
    /\ board \in [roster : Configs, chosen : BOOLEAN, draft : Drafts,
                 call : [kind : {"none", "put", "tune", "delete", "create"},
                         phase : {"idle", "posted", "read", "done", "refused"},
                         draft : Drafts, seen : Configs, mine : BOOLEAN]]

Fresh(n) == [loop |-> n, ddc |-> FALSE, gains |-> 1]

ConfigInit ==
    /\ born = 1
    /\ loopRow = Fresh(1) /\ running = Fresh(1)
    /\ dcs = 1 /\ ordered = 1
    /\ board = [roster |-> Fresh(1), chosen |-> FALSE, draft |-> NoDraft, call |-> NoCall]

-----------------------------------------------------------------------------
(* The dialog. The draft is filled when it mounts and never again.            *)

ToDraft(c) == [open |-> TRUE, ddc |-> c.ddc, gains |-> c.gains, sound |-> TRUE]

(* An unmounted dialog comes back with a fresh draft if its id does.          *)
Unmounted(page) == [page EXCEPT !.draft = NoDraft, !.call.mine = FALSE]
Rendered(page) ==
    IF ~page.chosen \/ page.roster.loop = 0 THEN Unmounted(page)
    ELSE [page EXCEPT !.draft = IF @.open THEN @ ELSE ToDraft(page.roster)]

Refetch ==
    /\ board.roster # loopRow
    /\ board' = Rendered([board EXCEPT !.roster = loopRow])
    /\ UNCHANGED <<born, loopRow, running, dcs, ordered>>

OpenConfig ==
    /\ board.roster.loop # 0 /\ ~board.chosen
    /\ board' = Rendered([board EXCEPT !.chosen = TRUE])
    /\ UNCHANGED <<born, loopRow, running, dcs, ordered>>

CloseConfig ==
    /\ board.draft.open
    /\ board' = Unmounted([board EXCEPT !.chosen = FALSE])
    /\ UNCHANGED <<born, loopRow, running, dcs, ordered>>

PidSound(draft) == draft.gains # 0

(* One patcher, one field of the draft.                                       *)
Edited(draft) ==
    /\ board.draft.open /\ draft # board.draft
    /\ board' = [board EXCEPT !.draft = draft]
    /\ UNCHANGED <<born, loopRow, running, dcs, ordered>>

EditMode   == Edited([board.draft EXCEPT !.ddc = ~@])
EditRanges == Edited([board.draft EXCEPT !.sound = ~@])
(* The PID boxes exist on a DDC draft only.                                   *)
EditGains  == board.draft.ddc /\ \E g \in Typed : Edited([board.draft EXCEPT !.gains = g])

Blocked(draft) == ~draft.sound \/ (draft.ddc /\ ~PidSound(draft))

(* One call of a page at a time; the caller's callbacks die with its dialog.  *)
ConfigCall(kind, draft) ==
    /\ board.call = NoCall
    /\ board' = [board EXCEPT !.call = [kind |-> kind, phase |-> "posted", draft |-> draft,
                                      seen |-> NoLoop, mine |-> board.draft.open]]
    /\ UNCHANGED <<born, loopRow, running, dcs, ordered>>

Save   == board.draft.open /\ ~Blocked(board.draft) /\ ConfigCall("put", board.draft)
RemoveLoop == board.draft.open /\ ConfigCall("delete", NoDraft)
NewLoop == board.roster.loop = 0 /\ ConfigCall("create", NoDraft)

(* Kp, Ti and Td boxes of the faceplate, under the modal dialog.              *)
WriteTuning ==
    /\ board.roster.loop # 0 /\ ~board.draft.open
    /\ \E g \in 1 .. MaxGains : ConfigCall("tune", [NoDraft EXCEPT !.gains = g])

CallSettles ==
    LET call == board.call IN
    /\ call.phase \in {"done", "refused"}
    /\ LET settled == [board EXCEPT !.call = NoCall] IN
       board' = IF call.phase = "done" /\ call.mine
               THEN Unmounted([settled EXCEPT !.chosen = FALSE]) ELSE settled
    /\ UNCHANGED <<born, loopRow, running, dcs, ordered>>

-----------------------------------------------------------------------------
(* The routes. Handlers give way to each other where they await the database. *)

SendsPidAlways(draft) == TRUE           \* mutant: the PID group rides every save
SendsPid(draft) == draft.ddc

MergedConfig(c, draft) ==
    [c EXCEPT !.ddc = draft.ddc, !.gains = IF SendsPid(draft) THEN draft.gains ELSE @]

(* Both writers store the whole configuration they read, and neither creates. *)
Stored(c) == IF loopRow.loop = 0 THEN loopRow ELSE [c EXCEPT !.loop = loopRow.loop]
Running(c) == IF running.loop = 0 THEN running ELSE [c EXCEPT !.loop = running.loop]

Serving(kind, phase) == board.call.kind = kind /\ board.call.phase = phase
Answers(phase) ==
    board' = [board EXCEPT !.call.phase = phase, !.call.draft = NoDraft, !.call.seen = NoLoop]
Reads(c) == board' = [board EXCEPT !.call.phase = "read", !.call.seen = c]

PutReads ==
    /\ Serving("put", "posted")
    /\ IF loopRow.loop = 0 THEN Answers("refused") ELSE Reads(loopRow)
    /\ UNCHANGED <<born, loopRow, running, dcs, ordered>>

(* 422 where the route is stricter than the dialog: a gain below KP_MIN, or    *)
(* inverted AI limits under an engine that is off.                            *)
PutRefused ==
    /\ Serving("put", "posted") /\ Answers("refused")
    /\ UNCHANGED <<born, loopRow, running, dcs, ordered>>

(* Saved, propagated to the workers, and pushed to the DCS when the edited    *)
(* loop is SUPERVISORY and the payload carries the PID group.                 *)
PutSaves ==
    LET draft == board.call.draft
        c     == MergedConfig(board.call.seen, draft) IN
    /\ Serving("put", "read")
    /\ loopRow' = Stored(c) /\ running' = Running(c)
    /\ dcs' = IF SendsPid(draft) /\ ~c.ddc THEN c.gains ELSE dcs
    /\ Answers("done")
    /\ UNCHANGED <<born, ordered>>

(* POST /commands/tuning: to the DCS block, or read, replaced and stored.      *)
TuneServed ==
    /\ Serving("tune", "posted")
    /\ IF running.loop = 0
       THEN Answers("refused") /\ UNCHANGED <<dcs, ordered>>
       ELSE IF running.ddc
       THEN Reads(running) /\ UNCHANGED <<dcs, ordered>>
       ELSE /\ Answers("done")
            /\ dcs' = board.call.draft.gains /\ ordered' = board.call.draft.gains
    /\ UNCHANGED <<born, loopRow, running>>

(* The adapter is offline: 409 before anything is written.                    *)
TuneRefused ==
    /\ Serving("tune", "posted") /\ ~running.ddc
    /\ Answers("refused")
    /\ UNCHANGED <<born, loopRow, running, dcs, ordered>>

TuneSaves ==
    LET c == [board.call.seen EXCEPT !.gains = board.call.draft.gains] IN
    /\ Serving("tune", "read")
    /\ loopRow' = Stored(c) /\ running' = Running(c)
    /\ Answers("done")
    /\ UNCHANGED <<born, dcs, ordered>>

Deleted ==
    /\ Serving("delete", "posted")
    /\ IF loopRow.loop = 0 THEN Answers("refused") ELSE Answers("done")
    /\ loopRow' = NoLoop /\ running' = NoLoop
    /\ UNCHANGED <<born, dcs, ordered>>

(* SQLite hands a freed id to the next loop; a taken one stays out of sight.  *)
RowInserted ==
    /\ loopRow.loop = 0 /\ born < MaxLoops
    /\ born' = born + 1 /\ loopRow' = Fresh(born + 1) /\ running' = Fresh(born + 1)

Created ==
    /\ Serving("create", "posted") /\ Answers("done")
    /\ \/ RowInserted
       \/ (loopRow.loop # 0 \/ born = MaxLoops) /\ UNCHANGED <<born, loopRow, running>>
    /\ UNCHANGED <<dcs, ordered>>

OtherCreates == RowInserted /\ UNCHANGED <<dcs, ordered, board>>

(* The other administrator's calls, each whole between two awaits of ours.    *)
OtherSaves ==
    /\ loopRow.loop # 0
    /\ \E ddc \in BOOLEAN, g \in 1 .. MaxGains :
          LET c == MergedConfig(loopRow, [NoDraft EXCEPT !.ddc = ddc, !.gains = g]) IN
          c # loopRow /\ loopRow' = c /\ running' = Running(c)
    /\ UNCHANGED <<born, dcs, ordered, board>>

OtherTunes ==
    /\ running.loop # 0 /\ ~running.ddc
    /\ \E g \in 1 .. MaxGains : dcs' = g /\ ordered' = g
    /\ UNCHANGED <<born, loopRow, running, board>>

OtherDeletes ==
    /\ loopRow.loop # 0 /\ loopRow' = NoLoop /\ running' = NoLoop
    /\ UNCHANGED <<born, dcs, ordered, board>>

ConfigNext ==
    \/ Refetch \/ OpenConfig \/ CloseConfig
    \/ EditMode \/ EditRanges \/ EditGains
    \/ Save \/ RemoveLoop \/ NewLoop \/ WriteTuning \/ CallSettles
    \/ PutReads \/ PutRefused \/ PutSaves \/ TuneServed \/ TuneRefused \/ TuneSaves
    \/ Deleted \/ Created \/ OtherSaves \/ OtherTunes \/ OtherDeletes \/ OtherCreates

ConfigSpec == ConfigInit /\ [][ConfigNext]_configVars

-----------------------------------------------------------------------------
(* A save never retunes the DCS: whatever dialogs were open while the loop    *)
(* changed mode, owner or gains, the gains in the DCS block are the ones the  *)
(* last tuning command ordered.                                               *)
DcsGainsAreOrdered == dcs = ordered
=============================================================================
