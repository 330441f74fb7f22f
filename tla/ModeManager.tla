---------------------------- MODULE ModeManager ----------------------------
(***************************************************************************)
(* domain/services/pid_mode_manager.py: the stateless evaluator that       *)
(* decides forced mode transitions, the Foundation Fieldbus cascade        *)
(* handshake and whether an operator's mode request is accepted.           *)
(***************************************************************************)
EXTENDS Naturals

Modes == {"OOS", "IMAN", "LO", "MAN", "AUTO", "CAS", "RCAS", "ROUT", "BYPASS"}
CascadeModes == {"CAS", "RCAS"}          \* _CASCADE_MODES
ClosedLoopModes == {"AUTO", "CAS", "RCAS"} \* _BUMPLESS_REQUIRED_TARGETS

NoMode == "none"   \* Python's None

(***************************************************************************)
(* Status of BKCAL_IN as the handshake distinguishes it.  BAD stands for   *)
(* bad severity whatever the sub-status; IA and NONE behave as GOOD.       *)
(***************************************************************************)
BkStatuses == {"GOOD", "BAD", "NI", "IR", "GOOD_CASCADE"}

BkBroken(status) == status \in {"BAD", "NI"}

\* The default BlockStatus(): what LoopManager.set_mode passes.
BlockStatusDefault == [trackingActive |-> FALSE, pvBad |-> FALSE,
                       bkBroken |-> FALSE, shedExpired |-> FALSE]

\* Seeded fault: the shed test is nested under the cascade test.
ForcedTransitionShedNested(current, st, shedMode) ==
  CASE st.trackingActive -> "LO"
    [] ~st.trackingActive /\ st.pvBad -> "MAN"
    [] /\ ~st.trackingActive /\ ~st.pvBad
       /\ current \in CascadeModes /\ st.bkBroken -> "IMAN"
    [] /\ ~st.trackingActive /\ ~st.pvBad
       /\ current \in CascadeModes /\ ~st.bkBroken
       /\ st.shedExpired -> shedMode
    [] OTHER -> NoMode

(***************************************************************************)
(* evaluate_forced_transitions(): tracking, bad PV, broken cascade, shed,  *)
(* in that order.                                                          *)
(***************************************************************************)
ForcedTransition(current, st, shedMode) ==
  CASE st.trackingActive -> "LO"
    [] ~st.trackingActive /\ st.pvBad -> "MAN"
    [] /\ ~st.trackingActive /\ ~st.pvBad
       /\ current \in CascadeModes /\ st.bkBroken -> "IMAN"
    [] /\ ~st.trackingActive /\ ~st.pvBad
       /\ ~(current \in CascadeModes /\ st.bkBroken)
       /\ st.shedExpired -> shedMode
    [] OTHER -> NoMode

\* Seeded fault: only RCAS is taken down by a broken cascade.
HandshakeForcesRcasOnly(current, status) ==
  CASE BkBroken(status) /\ current = "RCAS" -> "IMAN"
    [] status = "GOOD_CASCADE" /\ current = "IMAN" -> "CAS"
    [] OTHER -> NoMode

(***************************************************************************)
(* evaluate_cascade_handshake(): the mode BKCAL_IN forces, if any, and     *)
(* whether the block must track BKCAL_IN's value this scan.                *)
(***************************************************************************)
HandshakeForces(current, status) ==
  CASE BkBroken(status) /\ current \in CascadeModes -> "IMAN"
    [] status = "GOOD_CASCADE" /\ current = "IMAN" -> "CAS"
    [] OTHER -> NoMode

HandshakeTracks(current, status) == status = "IR" /\ current = "IMAN"

\* request_mode(): accepted when permitted and nothing forces another mode.
RequestAccepted(current, target, permitted, st) ==
  /\ target \in permitted
  /\ ForcedTransition(current, st, "MAN") \in {NoMode, target}

=============================================================================
