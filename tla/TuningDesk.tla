----------------------------- MODULE TuningDesk -----------------------------
(* A tuning proposal of one loop from the optimiser to the DCS: TuningStore,  *)
(* POST /commands/apply-tuning, and the AiPanel of one administrator's tab;   *)
(* another administrator applies and switches auto-apply at any time.         *)
EXTENDS Naturals

CONSTANT MaxRecs        \* proposals the optimiser makes in one behaviour

ASSUME TuningAssumption == MaxRecs \in Nat

VARIABLES
    store,      \* the loop's tracked recommendation, rec 0 = none
    writing,    \* the recommendation an apply handler is writing, and for whom
    written,    \* how often each recommendation was written to the DCS
    setting,    \* tuning_write_mode is auto_apply
    desk        \* the panel: cached queries, dialog, apply call, dedup ref

tuneVars == <<store, writing, written, setting, desk>>

Recs      == 1 .. MaxRecs
NoWriting == [rec |-> 0, by |-> "nobody"]
FreshDesk == [rec |-> 0, pending |-> FALSE, due |-> TRUE, auto |-> FALSE, dialog |-> FALSE,
              call |-> "none", shown |-> 0, last |-> 0]

TuneTypeOK ==
    /\ store \in [rec : 0 .. MaxRecs, status : {"pending", "applied", "expired"}]
    /\ writing \in [rec : 0 .. MaxRecs, by : {"nobody", "panel", "other"}]
    /\ written \in [Recs -> 0 .. 2]
    /\ setting \in BOOLEAN
    /\ desk \in [rec : 0 .. MaxRecs, pending : BOOLEAN, due : BOOLEAN, auto : BOOLEAN,
                 dialog : BOOLEAN, call : {"none", "posted", "applied", "refused"},
                 shown : 0 .. MaxRecs, last : 0 .. MaxRecs]

TuneInit ==
    /\ store = [rec |-> 0, status |-> "expired"]
    /\ writing = NoWriting
    /\ written = [r \in Recs |-> 0]
    /\ setting = FALSE
    /\ desk = FreshDesk

-----------------------------------------------------------------------------
(* The daemon. The handler writes without giving way to other handlers; only  *)
(* the AI worker's own thread runs meanwhile.                                 *)

(* A retune or an integral nudge replaces what the store held.                *)
Propose ==
    /\ store.rec < MaxRecs
    /\ store' = [rec |-> store.rec + 1, status |-> "pending"]
    /\ UNCHANGED <<writing, written, setting, desk>>

Expire ==
    /\ store.status = "pending" /\ store' = [store EXCEPT !.status = "expired"]
    /\ UNCHANGED <<writing, written, setting, desk>>

ApplicableEver(s) == s.rec # 0      \* mutant: whatever its status
Applicable(s) == s.rec # 0 /\ s.status = "pending"

(* The store's recommendation, not one the request names: it names the loop.  *)
BeginApply(by) ==
    /\ writing = NoWriting /\ Applicable(store)
    /\ by = "panel" => desk.call = "posted"
    /\ writing' = [rec |-> store.rec, by |-> by]
    /\ UNCHANGED <<store, written, setting, desk>>

Answered(call) == IF writing.by = "panel" THEN [desk EXCEPT !.call = call] ELSE desk

(* mark_applied marks what the store holds by now.                            *)
WriteDone ==
    /\ writing.rec # 0
    /\ written' = [written EXCEPT ![writing.rec] = IF @ = 0 THEN 1 ELSE 2]
    /\ store' = [store EXCEPT !.status = "applied"]
    /\ writing' = NoWriting /\ desk' = Answered("applied")
    /\ UNCHANGED setting

(* ConnectionError or a timeout: the recommendation stays pending.            *)
WriteRaises ==
    /\ writing.rec # 0
    /\ writing' = NoWriting /\ desk' = Answered("refused")
    /\ UNCHANGED <<store, written, setting>>

(* 404 without a pending one, 409 while the DCS loop is out of AUTO.          *)
RefuseApply ==
    /\ writing = NoWriting /\ desk.call = "posted"
    /\ desk' = [desk EXCEPT !.call = "refused"]
    /\ UNCHANGED <<store, writing, written, setting>>

OtherAdminSwitches ==
    /\ setting' = ~setting
    /\ UNCHANGED <<store, writing, written, desk>>

-----------------------------------------------------------------------------
(* The panel.                                                                 *)

DaemonSame == UNCHANGED <<store, writing, written, setting>>

(* useTuningRecommendation: no polling; a 404 or an error keeps the old data. *)
LoadRecommendation ==
    /\ desk.due
    /\ desk' \in {[desk EXCEPT !.due = FALSE],
                  [desk EXCEPT !.due = FALSE, !.rec = store.rec,
                               !.pending = (store.rec # 0 /\ store.status = "pending")]}
    /\ DaemonSame

(* Any invalidation of the roster refreshes the panel's copy of the setting.  *)
RefreshRoster ==
    /\ desk.auto # setting /\ desk' = [desk EXCEPT !.auto = setting]
    /\ DaemonSame

ToggleAutoApply ==
    /\ setting' = ~desk.auto /\ desk' = [desk EXCEPT !.auto = setting']
    /\ UNCHANGED <<store, writing, written>>

OpenApplyDialog ==
    /\ desk.pending /\ ~desk.auto
    /\ desk' = [desk EXCEPT !.dialog = TRUE]
    /\ DaemonSame

CancelApply ==
    /\ desk.dialog /\ desk' = [desk EXCEPT !.dialog = FALSE]
    /\ DaemonSame

(* Confirm Write posts the loop's id, whatever the dialog shows.              *)
ConfirmApply ==
    /\ desk.dialog /\ desk.call = "none"
    /\ desk' = [desk EXCEPT !.call = "posted", !.shown = desk.rec]
    /\ DaemonSame

(* The dedup ref remembers the last suggestion only.                          *)
FreshSuggestion == desk.pending /\ desk.last # desk.rec

(* The effect that writes a fresh suggestion straight through.                *)
AutoApply ==
    /\ desk.auto /\ desk.call = "none" /\ FreshSuggestion
    /\ desk' = [desk EXCEPT !.call = "posted", !.last = desk.rec]
    /\ DaemonSame

ApplySettles ==
    /\ desk.call \in {"applied", "refused"}
    /\ \/ /\ desk.call = "applied"
          /\ desk' = [desk EXCEPT !.call = "none", !.shown = 0, !.dialog = FALSE,
                                  !.due = TRUE, !.auto = setting]
       \/ desk' = [desk EXCEPT !.call = "none", !.shown = 0]     \* refused, or the answer lost
    /\ DaemonSame

(* Another loop is selected and this one again: a new mount.                  *)
RemountPanel ==
    /\ desk.call = "none"
    /\ desk' = [FreshDesk EXCEPT !.rec = desk.rec, !.pending = desk.pending, !.auto = desk.auto]
    /\ DaemonSame

TuneNext ==
    \/ Propose \/ Expire \/ BeginApply("panel") \/ BeginApply("other")
    \/ WriteDone \/ WriteRaises \/ RefuseApply \/ OtherAdminSwitches
    \/ LoadRecommendation \/ RefreshRoster \/ ToggleAutoApply \/ OpenApplyDialog
    \/ CancelApply \/ ConfirmApply \/ AutoApply \/ ApplySettles \/ RemountPanel

TuneSpec == TuneInit /\ [][TuneNext]_tuneVars

-----------------------------------------------------------------------------
(* One proposal reaches the DCS at most once, however many administrators and *)
(* auto-applying panels post for it (commands.apply_tuning).                  *)
WrittenAtMostOnce == \A r \in Recs : written[r] <= 1

(* "The one gate between an AI recommendation and a live PID write"           *)
(* (ConfirmApplyTuningDialog): a confirmed write is the one its table showed; *)
(* refuted, the route writes the newest proposal.                             *)
ConfirmedIsWritten ==
    [][WriteDone /\ writing.by = "panel" /\ desk.shown # 0 => writing.rec = desk.shown]_tuneVars
=============================================================================
