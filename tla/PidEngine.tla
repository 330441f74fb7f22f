----------------------------- MODULE PidEngine -----------------------------
(***************************************************************************)
(* The velocity-form PID arithmetic of domain/services/pid_engine.py, as   *)
(* pure operators over integers.  PIDEngine is stateless: every call takes *)
(* the loop state as a record and returns the next one, so these operators *)
(* have the same shape.                                                    *)
(*                                                                         *)
(* The worker calls compute() without the optional keyword arguments, so   *)
(* the PV/SP filters, feedforward, low cut-off and over-range stay at      *)
(* their defaults (off) and are left out.  The derivative filter is taken  *)
(* at alpha = 1 (no smoothing), the upper end of the code's 0.05..1 clamp. *)
(***************************************************************************)
EXTENDS Integers

CONSTANTS
  Gain,          \* params.gain
  IGain,         \* params.gain * dt / params.reset; 0 when reset is 0
  DGain,         \* params.gain * params.rate / dt; 0 when rate is 0
  Deadband,      \* params.deadband; 0 switches it off
  RecoveryGain,  \* reset_recovery_gain, 16 in the shipped engine
  ArwLo, ArwHi,  \* configured anti-reset-windup band
  DirectActing,  \* control_opts.direct_acting
  SpRateUp,      \* sp_rate_up * dt; 0 = no limiting
  SpRateDn       \* sp_rate_dn * dt; 0 = no limiting

ASSUME EngineAssumption ==
  /\ Gain \in Int /\ IGain \in Int /\ DGain \in Int /\ RecoveryGain \in Int
  /\ Deadband \in Nat /\ ArwLo \in Int /\ ArwHi \in Int
  /\ DirectActing \in BOOLEAN
  /\ SpRateUp \in Nat /\ SpRateDn \in Nat

LimitBits == {"NONE", "HIGH_LIMITED", "LOW_LIMITED", "CONSTANT"}

(***************************************************************************)
(* PIDState without the filter memories: accumulated output, previous      *)
(* error, two previous PV samples and the saturation flag.                 *)
(***************************************************************************)
PIDState == [cv : Int, errorPrev : Int, pvPrev : Int, pvPrev2 : Int,
             saturated : BOOLEAN]

InitPIDState == [cv |-> 0, errorPrev |-> 0, pvPrev |-> 0, pvPrev2 |-> 0,
                 saturated |-> FALSE]

AtMost(v, hi) == IF v > hi THEN hi ELSE v
AtLeast(v, lo) == IF v < lo THEN lo ELSE v
Clamp(v, lo, hi) == AtLeast(AtMost(v, hi), lo)

ControlError(pv, sp) == IF DirectActing THEN pv - sp ELSE sp - pv

\* An ARW threshold outside the output range is pulled back into it.
AtHighThreshold(s, hi) == s.cv >= AtMost(ArwHi, hi)
AtLowThreshold(s, lo) == s.cv <= AtLeast(ArwLo, lo)

\* Local anti-windup: saturated, and the error drives further out.
WindupBlocked(s, e, lo, hi) ==
  /\ s.saturated
  /\ \/ (AtHighThreshold(s, hi) /\ e > 0)
     \/ (AtLowThreshold(s, lo) /\ e < 0)

InDeadband(e) == Deadband > 0 /\ e < Deadband /\ -e < Deadband

\* Seeded fault: whatever is not a one-sided limit counts as constant.
DownstreamBlockedByDefault(i, limit) ==
  \/ limit \notin {"HIGH_LIMITED", "LOW_LIMITED"}
  \/ (limit = "HIGH_LIMITED" /\ i > 0)
  \/ (limit = "LOW_LIMITED" /\ i < 0)

\* Directional anti-windup from the downstream block's limit bits.
DownstreamBlocked(i, limit) ==
  \/ limit = "CONSTANT"
  \/ (limit = "HIGH_LIMITED" /\ i > 0)
  \/ (limit = "LOW_LIMITED" /\ i < 0)

\* The integral is driving a saturated output back inside the ARW band.
Recovering(s, i, lo, hi) ==
  /\ s.saturated
  /\ \/ (AtHighThreshold(s, hi) /\ i < 0)
     \/ (AtLowThreshold(s, lo) /\ i > 0)

ITerm(s, e, limit, lo, hi) ==
  LET i == IGain * e
  IN  IF InDeadband(e) \/ WindupBlocked(s, e, lo, hi)
           \/ DownstreamBlocked(i, limit)
      THEN 0
      ELSE IF Recovering(s, i, lo, hi) THEN RecoveryGain * i ELSE i

PTerm(s, e) == Gain * (e - s.errorPrev)

\* Derivative on PV: its sign follows the loop's action.
DTerm(s, pv) ==
  LET d == DGain * (pv - 2 * s.pvPrev + s.pvPrev2)
  IN  IF DirectActing THEN d ELSE -d

(***************************************************************************)
(* compute(): the state after one closed-loop scan.                        *)
(***************************************************************************)
PidCompute(s, pv, sp, limit, lo, hi) ==
  LET e  == ControlError(pv, sp)
      cv == s.cv + PTerm(s, e) + ITerm(s, e, limit, lo, hi) + DTerm(s, pv)
  IN  [cv |-> IF cv > hi THEN hi ELSE IF cv < lo THEN lo ELSE cv,
       errorPrev |-> e, pvPrev |-> pv, pvPrev2 |-> s.pvPrev,
       saturated |-> cv > hi \/ cv < lo]

(***************************************************************************)
(* compute_iman_tracking(): the accumulator is forced to BKCAL_IN.         *)
(***************************************************************************)
ImanTracking(s, pv, sp, bkValue) ==
  [cv |-> bkValue, errorPrev |-> ControlError(pv, sp), pvPrev |-> pv,
   pvPrev2 |-> s.pvPrev, saturated |-> FALSE]

(***************************************************************************)
(* bumpless_transfer(): cv := co, PV history := pv, error history := 0.    *)
(***************************************************************************)
BumplessTransfer(pv, coValue) ==
  [cv |-> coValue, errorPrev |-> 0, pvPrev |-> pv, pvPrev2 |-> pv,
   saturated |-> FALSE]

\* Seeded fault: rising setpoints are limited by the falling rate.
SpRampRatesSwapped(target, current) ==
  IF target > current /\ SpRateUp > 0
    THEN current + AtMost(target - current, SpRateDn)
  ELSE IF target < current /\ SpRateDn > 0
    THEN current - AtMost(current - target, SpRateUp)
  ELSE target

(***************************************************************************)
(* apply_sp_ramp(): one scan of setpoint rate limiting.                    *)
(***************************************************************************)
SpRamp(target, current) ==
  IF target > current /\ SpRateUp > 0
    THEN current + AtMost(target - current, SpRateUp)
  ELSE IF target < current /\ SpRateDn > 0
    THEN current - AtMost(current - target, SpRateDn)
  ELSE target

=============================================================================
