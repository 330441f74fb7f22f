-------------------------- MODULE PidWorker_proofs --------------------------
(***************************************************************************)
(* Theorems about PidWorker, for every value of its constants: type        *)
(* correctness, the agreement of engine and output, the output limits and  *)
(* the ownership of setpoint and output.                                   *)
(***************************************************************************)
EXTENDS PidWorker, TLAPS

-----------------------------------------------------------------------------
(* The engine's arithmetic.                                                *)

\* Products of gains and signals stay integers.
LEMMA ProductInt == \A a, b \in Int : a * b \in Int
  BY SMT

\* The control error of integer signals is an integer.
LEMMA ControlErrorInt ==
  ASSUME NEW p \in Int, NEW s \in Int
  PROVE  ControlError(p, s) \in Int
  BY DEF ControlError

\* The integral increment of compute() is an integer.
LEMMA ITermInt ==
  ASSUME NEW s \in PIDState, NEW e \in Int, NEW limit \in LimitBits,
         NEW lo \in Int, NEW hi \in Int
  PROVE  ITerm(s, e, limit, lo, hi) \in Int
<1>1. IGain * e \in Int
  BY EngineAssumption, ProductInt
<1>2. RecoveryGain * (IGain * e) \in Int
  BY <1>1, EngineAssumption, ProductInt
<1>3. 0 \in Int
  OBVIOUS
<1> QED
  BY <1>1, <1>2, <1>3, Zenon DEF ITerm

\* The proportional increment of compute() is an integer.
LEMMA PTermInt ==
  ASSUME NEW s \in PIDState, NEW e \in Int
  PROVE  PTerm(s, e) \in Int
<1>1. e - s.errorPrev \in Int
  BY DEF PIDState
<1> QED
  BY <1>1, EngineAssumption, ProductInt, Zenon DEF PTerm

\* The derivative increment of compute() is an integer.
LEMMA DTermInt ==
  ASSUME NEW s \in PIDState, NEW p \in Int
  PROVE  DTerm(s, p) \in Int
<1> DEFINE d == DGain * (p - 2 * s.pvPrev + s.pvPrev2)
<1>1. p - 2 * s.pvPrev + s.pvPrev2 \in Int
  BY DEF PIDState
<1>2. d \in Int
  BY <1>1, EngineAssumption, ProductInt, Zenon
<1>3. -d \in Int
  BY <1>2
<1> QED
  BY <1>2, <1>3, Zenon DEF DTerm

\* compute() returns a well-formed state whose accumulated output is within
\* the limits, whatever the state, signals and limit bits it starts from.
LEMMA PidComputeBounded ==
  ASSUME NEW s \in PIDState, NEW p \in Int, NEW r \in Int,
         NEW limit \in LimitBits, NEW lo \in Int, NEW hi \in Int, lo <= hi
  PROVE  /\ PidCompute(s, p, r, limit, lo, hi) \in PIDState
         /\ lo <= PidCompute(s, p, r, limit, lo, hi).cv
         /\ PidCompute(s, p, r, limit, lo, hi).cv <= hi
<1> DEFINE e   == ControlError(p, r)
           cv0 == s.cv + PTerm(s, e) + ITerm(s, e, limit, lo, hi) + DTerm(s, p)
           c   == IF cv0 > hi THEN hi ELSE IF cv0 < lo THEN lo ELSE cv0
           n   == [cv |-> c, errorPrev |-> e, pvPrev |-> p,
                   pvPrev2 |-> s.pvPrev, saturated |-> cv0 > hi \/ cv0 < lo]
<1>1. e \in Int
  BY ControlErrorInt
<1>2. s.cv \in Int /\ s.pvPrev \in Int
  BY DEF PIDState
<1>3. cv0 \in Int
  <2>1. PTerm(s, e) \in Int /\ ITerm(s, e, limit, lo, hi) \in Int
        /\ DTerm(s, p) \in Int
    BY <1>1, PTermInt, ITermInt, DTermInt
  <2> HIDE DEF e
  <2> QED
    BY <1>2, <2>1
<1> HIDE DEF cv0, e
<1>4. c \in Int /\ lo <= c /\ c <= hi
  BY <1>3
<1>5. (cv0 > hi \/ cv0 < lo) \in BOOLEAN
  OBVIOUS
<1>6. PidCompute(s, p, r, limit, lo, hi) = n
  BY Zenon DEF PidCompute, cv0, e
<1> HIDE DEF c
<1>7. n \in PIDState
  BY <1>1, <1>2, <1>4, <1>5, Zenon DEF PIDState
<1> QED
  BY <1>4, <1>6, <1>7

\* bumpless_transfer() seats the accumulated output on the output it is given.
LEMMA BumplessSeats ==
  ASSUME NEW p \in Int, NEW c \in Int
  PROVE  BumplessTransfer(p, c) \in PIDState /\ BumplessTransfer(p, c).cv = c
  BY DEF BumplessTransfer, PIDState

\* compute_iman_tracking() seats it on BKCAL_IN.
LEMMA ImanTrackingSeats ==
  ASSUME NEW s \in PIDState, NEW p \in Int, NEW r \in Int, NEW b \in Int
  PROVE  /\ ImanTracking(s, p, r, b) \in PIDState
         /\ ImanTracking(s, p, r, b).cv = b
  BY ControlErrorInt DEF ImanTracking, PIDState

\* apply_sp_ramp() keeps integer setpoints integer.
LEMMA SpRampInt ==
  ASSUME NEW t \in Int, NEW c \in Int
  PROVE  SpRamp(t, c) \in Int
  BY EngineAssumption DEF SpRamp, AtMost

\* A clamped signal is an integer within the limits.
LEMMA ClampBounded ==
  ASSUME NEW v \in Int, NEW lo \in Int, NEW hi \in Int, lo <= hi
  PROVE  Clamp(v, lo, hi) \in Int /\ lo <= Clamp(v, lo, hi)
         /\ Clamp(v, lo, hi) <= hi
  BY DEF Clamp, AtMost, AtLeast

-----------------------------------------------------------------------------
(* Type correctness.                                                       *)

\* The setpoint a scan selects is an integer.
LEMMA SelectedSpInt == TypeOK => SelectedSp \in Int
  BY DEF TypeOK, SelectedSp, AllRemoteKeys

\* The rate-limited setpoint a scan works with is an integer.
LEMMA RampedSpInt == TypeOK => RampedSp \in Int
<1> SUFFICES ASSUME TypeOK PROVE RampedSp \in Int
  OBVIOUS
<1>1. spWorking.value \in Int
  BY DEF TypeOK
<1> QED
  BY <1>1, SelectedSpInt, SpRampInt DEF RampedSp

\* The source of a relayed output is an integer.
LEMMA OutputSourceInt == TypeOK => OutputSource \in Int
  BY SelectedSpInt DEF TypeOK, OutputSource, AllRemoteKeys

\* The output limits in force are ordered integers.
LEMMA LimitsOrdered == TypeOK => OutLo \in Int /\ outHi \in Int /\ OutLo <= outHi
  BY WorkerAssumption DEF TypeOK

\* A closed-loop scan leaves a well-formed engine and an output within limits,
\* reversed (increase to close) or not.
LEMMA ClosedLoopBounded ==
  TypeOK /\ ClosedLoopOutput
    => eng' \in PIDState /\ co' \in Int /\ OutLo <= co' /\ co' <= outHi
<1> SUFFICES ASSUME TypeOK, ClosedLoopOutput
             PROVE  eng' \in PIDState /\ co' \in Int
                    /\ OutLo <= co' /\ co' <= outHi
  OBVIOUS
<1>1. eng \in PIDState /\ pv \in Int /\ bk.limit \in LimitBits
  BY DEF TypeOK, BkSignal
<1>2. OutLo \in Int /\ outHi \in Int /\ OutLo <= outHi
  BY LimitsOrdered
<1>3. eng' \in PIDState /\ OutLo <= eng'.cv /\ eng'.cv <= outHi
  BY <1>1, <1>2, RampedSpInt, PidComputeBounded, Zenon DEF ClosedLoopOutput
<1>4. eng'.cv \in Int
  BY <1>3 DEF PIDState
<1>5. co' = IF IncreaseToClose THEN outHi + OutLo - eng'.cv ELSE eng'.cv
  BY DEF ClosedLoopOutput
<1> QED
  BY <1>2, <1>3, <1>4, <1>5

\* A relayed output is within limits, and the engine is seated on it.
LEMMA DirectOutputBounded ==
  TypeOK /\ DirectOutput
    => eng' \in PIDState /\ eng'.cv = co' /\ co' \in Int
       /\ OutLo <= co' /\ co' <= outHi
<1> SUFFICES ASSUME TypeOK, DirectOutput
             PROVE  eng' \in PIDState /\ eng'.cv = co' /\ co' \in Int
                    /\ OutLo <= co' /\ co' <= outHi
  OBVIOUS
<1>1. co' = Clamp(OutputSource, OutLo, outHi) /\ eng' = BumplessTransfer(pv, co')
  BY DEF DirectOutput
<1>2. co' \in Int /\ OutLo <= co' /\ co' <= outHi
  BY <1>1, OutputSourceInt, LimitsOrdered, ClampBounded
<1>3. pv \in Int
  BY DEF TypeOK
<1> QED
  BY <1>1, <1>2, <1>3, BumplessSeats

\* Whatever branch drives the output, engine and output stay well formed.
LEMMA OutputType == TypeOK /\ Output => eng' \in PIDState /\ co' \in Int
<1> SUFFICES ASSUME TypeOK, Output PROVE eng' \in PIDState /\ co' \in Int
  OBVIOUS
<1>1. eng \in PIDState /\ co \in Int /\ pv \in Int /\ bk.value \in Int
  BY DEF TypeOK, BkSignal
<1>2. CASE ImanOutput
  BY <1>1, <1>2, SelectedSpInt, ImanTrackingSeats DEF ImanOutput
<1>3. CASE ClosedLoopOutput
  BY <1>3, ClosedLoopBounded
<1>4. CASE ManualOutput
  BY <1>1, <1>4, BumplessSeats DEF ManualOutput
<1>5. CASE DirectOutput
  BY <1>5, DirectOutputBounded
<1>6. CASE HeldOutput
  BY <1>1, <1>6 DEF HeldOutput
<1> QED
  BY <1>2, <1>3, <1>4, <1>5, <1>6 DEF Output

\* A forced mode is a mode.
LEMMA ForcedTransitionMode ==
  ASSUME NEW m \in Modes, NEW st, NEW shed \in Modes
  PROVE  ForcedTransition(m, st, shed) \in Modes \cup {NoMode}
  BY DEF ForcedTransition, Modes, NoMode

\* The initial states are well formed.
LEMMA InitTypeOK == WorkerInit => TypeOK
<1> SUFFICES ASSUME WorkerInit PROVE TypeOK
  OBVIOUS
<1>1. eng \in PIDState
  BY DEF WorkerInit, InitPIDState, PIDState
<1>2. bk \in BkSignal
  BY DEF WorkerInit, BkSignal, BkStatuses, LimitBits
<1>3. remote \in [AllRemoteKeys -> Int]
  BY DEF WorkerInit
<1>4. spWorking \in [set : BOOLEAN, value : Int]
  BY DEF WorkerInit, NoSpWorking
<1>5. /\ shedOn \in BOOLEAN /\ hasTelem \in BOOLEAN /\ silent \in BOOLEAN
      /\ shedExpired \in BOOLEAN /\ pvBad \in BOOLEAN
      /\ tracking \in BOOLEAN /\ settled \in BOOLEAN
  BY DEF WorkerInit
<1>6. pv \in Int /\ sp \in Int /\ co \in Int
  BY DEF WorkerInit
<1>7. pc \in Steps /\ mode \in Modes /\ exec \in {"DDC", "SUPERVISORY"}
      /\ outHi \in OutHis
  BY DEF WorkerInit, Steps, Modes
<1> QED
  BY <1>1, <1>2, <1>3, <1>4, <1>5, <1>6, <1>7, Zenon DEF TypeOK

\* Every step keeps the state well formed.
LEMMA NextTypeOK == TypeOK /\ [WorkerNext]_workerVars => TypeOK'
<1> SUFFICES ASSUME TypeOK, [WorkerNext]_workerVars PROVE TypeOK'
  OBVIOUS
<1> USE DEF commandVars, linkVars, signalVars, outputVars, spVars
<1>1. ASSUME NEW p \in PvValues, NEW c \in Signals, DrainReconnect(p, c)
      PROVE  TypeOK'
  <2>1. p \in Int /\ c \in Int
    BY WorkerAssumption
  <2>2. eng' \in PIDState
    BY <1>1, <2>1, BumplessSeats DEF DrainReconnect
  <2> QED
    BY <1>1, <2>2 DEF DrainReconnect, TypeOK
<1>2. ASSUME NEW f \in Frames, DrainTelemetry(f) PROVE TypeOK'
  <2>1. f.pv \in Int /\ f.sp \in Int /\ f.co \in Int /\ f.pvBad \in BOOLEAN
    BY WorkerAssumption DEF Frames
  <2>2. f.bk \in BkSignal
    BY WorkerAssumption DEF Frames, BkSignal
  <2>3. remote' \in [AllRemoteKeys -> Int]
    <3>1. \A k \in AllRemoteKeys : remote[k] \in Int
      BY DEF TypeOK
    <3>2. \A k \in RemoteKeys : f.remote[k] \in Int
      BY WorkerAssumption DEF Frames
    <3> QED
      BY <1>2, <3>1, <3>2 DEF DrainTelemetry
  <2> QED
    BY <1>2, <2>1, <2>2, <2>3 DEF DrainTelemetry, TypeOK
<1>3. CASE ForceTransitions
  <2>1. BumplessTransfer(pv, co) \in PIDState
    BY BumplessSeats DEF TypeOK
  <2>2. mode' \in Modes /\ eng' \in PIDState
    BY <1>3, <2>1, WorkerAssumption, ForcedTransitionMode
       DEF ForceTransitions, TypeOK
  <2>3. shedExpired' \in BOOLEAN
    BY <1>3 DEF ForceTransitions, TypeOK, ShedNow
  <2> QED
    BY <1>3, <2>2, <2>3 DEF ForceTransitions, TypeOK, Steps
<1>4. CASE CascadeHandshake
  <2>1. BumplessTransfer(pv, bk.value) \in PIDState
    BY BumplessSeats DEF TypeOK, BkSignal
  <2>2. mode' \in Modes /\ eng' \in PIDState /\ settled' \in BOOLEAN
    BY <1>4, <2>1 DEF CascadeHandshake, TypeOK, HandshakeForces, Modes, NoMode
  <2>3. tracking' \in BOOLEAN
    BY <1>4 DEF CascadeHandshake, HandshakeTracks
  <2> QED
    BY <1>4, <2>2, <2>3 DEF CascadeHandshake, TypeOK, Steps
<1>5. CASE Compute
  <2>1. eng' \in PIDState /\ co' \in Int
    BY <1>5, OutputType DEF Compute
  <2>2. sp' \in Int
    BY <1>5, SelectedSpInt DEF Compute
  <2>3. spWorking' \in [set : BOOLEAN, value : Int]
    BY <1>5, RampedSpInt DEF Compute, NoSpWorking
  <2>4. settled' \in BOOLEAN
    BY <1>5 DEF Compute, Output, ImanOutput, ClosedLoopOutput, ManualOutput,
                DirectOutput, HeldOutput, TypeOK
  <2> QED
    BY <1>5, <2>1, <2>2, <2>3, <2>4 DEF Compute, TypeOK, Steps
<1>6. CASE ReconnectDrained
  BY <1>6 DEF ReconnectDrained, TypeOK, Steps
<1>7. CASE TelemetryDrained
  BY <1>7 DEF TelemetryDrained, TypeOK, Steps
<1>8. CASE ComputeIdle
  BY <1>8 DEF ComputeIdle, TypeOK, Steps
<1>9. ASSUME NEW m \in Modes, SetMode(m) PROVE TypeOK'
  BY <1>9 DEF SetMode, TypeOK
<1>10. ASSUME NEW v \in Signals, SetSp(v) PROVE TypeOK'
  BY <1>10, WorkerAssumption DEF SetSp, TypeOK
<1>11. ASSUME NEW v \in Signals, SetOutput(v) PROVE TypeOK'
  BY <1>11, WorkerAssumption DEF SetOutput, TypeOK
<1>12. ASSUME NEW e \in {"DDC", "SUPERVISORY"}, NEW s \in BOOLEAN,
              NEW h \in OutHis, UpdateController(e, s, h)
       PROVE  TypeOK'
  BY <1>12 DEF UpdateController, TypeOK
<1>13. CASE Silence
  BY <1>13 DEF Silence, TypeOK
<1>14. CASE UNCHANGED workerVars
  BY <1>14 DEF workerVars, TypeOK
<1> QED
  BY <1>1, <1>2, <1>3, <1>4, <1>5, <1>6, <1>7, <1>8, <1>9, <1>10, <1>11,
     <1>12, <1>13, <1>14
     DEF WorkerNext, Scan, Reconnect, Telemetry, Operator

\* TypeOK: the worker's fields keep their types through every interleaving of
\* scans, frames, reconnects and API calls.
THEOREM TypeCorrect == WorkerSpec => []TypeOK
<1> QED
  BY InitTypeOK, NextTypeOK, PTL DEF WorkerSpec

-----------------------------------------------------------------------------
(* The engine's accumulated output agrees with the output.                 *)

\* Every branch of the output computation that sets `settled` leaves the
\* engine on the output; the held branch changes nothing.
LEMMA OutputAgrees ==
  TypeOK /\ EngineMatchesOutput /\ Output => EngineMatchesOutput'
<1> SUFFICES ASSUME TypeOK, EngineMatchesOutput, Output
             PROVE  EngineMatchesOutput'
  OBVIOUS
<1>1. eng \in PIDState /\ co \in Int /\ pv \in Int /\ bk.value \in Int
  BY DEF TypeOK, BkSignal
<1>2. CASE ImanOutput
  BY <1>1, <1>2, SelectedSpInt, ImanTrackingSeats
     DEF ImanOutput, EngineMatchesOutput
<1>3. CASE ClosedLoopOutput
  BY <1>3 DEF ClosedLoopOutput, EngineMatchesOutput
<1>4. CASE ManualOutput
  BY <1>1, <1>4, BumplessSeats DEF ManualOutput, EngineMatchesOutput
<1>5. CASE DirectOutput
  BY <1>5, DirectOutputBounded DEF EngineMatchesOutput
<1>6. CASE HeldOutput
  BY <1>6 DEF HeldOutput, EngineMatchesOutput
<1> QED
  BY <1>2, <1>3, <1>4, <1>5, <1>6 DEF Output

\* Every step of the worker preserves the agreement.
LEMMA NextAgrees ==
  TypeOK /\ EngineMatchesOutput /\ [WorkerNext]_workerVars
    => EngineMatchesOutput'
<1> SUFFICES ASSUME TypeOK, EngineMatchesOutput, [WorkerNext]_workerVars
             PROVE  EngineMatchesOutput'
  OBVIOUS
<1> USE DEF commandVars, linkVars, signalVars, outputVars, spVars
<1>1. CASE Reconnect
  BY <1>1 DEF Reconnect, DrainReconnect, EngineMatchesOutput
<1>2. CASE Telemetry
  BY <1>2 DEF Telemetry, DrainTelemetry, EngineMatchesOutput
<1>3. CASE ForceTransitions
  <2>1. BumplessTransfer(pv, co).cv = co
    BY BumplessSeats DEF TypeOK
  <2>2. /\ eng' = eng \/ eng' = BumplessTransfer(pv, co)
        /\ co' = co /\ settled' = settled
    BY <1>3 DEF ForceTransitions
  <2> QED
    BY <2>1, <2>2 DEF EngineMatchesOutput
<1>4. CASE CascadeHandshake
  <2>1. co' = co /\ (settled' = FALSE \/ (eng' = eng /\ settled' = settled))
    BY <1>4 DEF CascadeHandshake, HandshakeForces, NoMode
  <2> QED
    BY <2>1 DEF EngineMatchesOutput
<1>5. CASE Compute
  BY <1>5, OutputAgrees DEF Compute
<1>6. CASE ReconnectDrained \/ TelemetryDrained \/ ComputeIdle
  BY <1>6 DEF ReconnectDrained, TelemetryDrained, ComputeIdle,
              EngineMatchesOutput
<1>7. CASE Operator
  BY <1>7 DEF Operator, SetMode, SetSp, SetOutput, UpdateController,
              EngineMatchesOutput
<1>8. CASE Silence
  BY <1>8 DEF Silence, EngineMatchesOutput
<1>9. CASE UNCHANGED workerVars
  BY <1>9 DEF workerVars, EngineMatchesOutput
<1> QED
  BY <1>1, <1>2, <1>3, <1>4, <1>5, <1>6, <1>7, <1>8, <1>9
     DEF WorkerNext, Scan

\* EngineMatchesOutput: whatever modes, frames and configurations a loop goes
\* through, a scan leaves the velocity engine's accumulator equal to the output
\* it published, so the next increment starts from there.
THEOREM EngineAgreement == WorkerSpec => []EngineMatchesOutput
<1>1. WorkerInit => EngineMatchesOutput
  BY DEF WorkerInit, InitPIDState, EngineMatchesOutput
<1> QED
  BY <1>1, NextAgrees, TypeCorrect, PTL DEF WorkerSpec

-----------------------------------------------------------------------------
(* Output limits and ownership.                                            *)

\* A computing scan in a mode that drives the output respects the limits.
LEMMA ComputeWithinLimits ==
  TypeOK /\ Compute /\ mode \in ClosedLoopModes \cup {"ROUT", "LO", "BYPASS"}
    => OutLo <= co' /\ co' <= outHi
<1> SUFFICES ASSUME TypeOK, Compute,
                    mode \in ClosedLoopModes \cup {"ROUT", "LO", "BYPASS"}
             PROVE  OutLo <= co' /\ co' <= outHi
  OBVIOUS
<1>1. ClosedLoopOutput \/ DirectOutput
  BY DEF Compute, Output, ImanOutput, ManualOutput, HeldOutput, ClosedLoopModes
<1> QED
  BY <1>1, ClosedLoopBounded, DirectOutputBounded

\* OutputWithinLimits: no computed or relayed output leaves the limits in
\* force, whatever the gains, the signals, the limits configured before and the
\* increase-to-close reversal.
THEOREM OutputLimited == WorkerSpec => OutputWithinLimits
<1> QED
  BY TypeCorrect, ComputeWithinLimits, PTL DEF WorkerSpec, OutputWithinLimits

\* One step of the worker moves a seeded DDC loop's manual output only by
\* set_output.
LEMMA NextManualOutput ==
  [WorkerNext]_workerVars
    => (exec = "DDC" /\ hasTelem /\ mode = "MAN" /\ mode' = "MAN" /\ co' # co
          => \E v \in Signals : SetOutput(v))
<1> SUFFICES ASSUME [WorkerNext]_workerVars, exec = "DDC", hasTelem,
                    mode = "MAN", co' # co
             PROVE  \E v \in Signals : SetOutput(v)
  OBVIOUS
<1> USE DEF commandVars, linkVars, signalVars, outputVars, spVars
<1>1. ~Reconnect
  BY DEF Reconnect, DrainReconnect
<1>2. ~Telemetry
  BY DEF Telemetry, DrainTelemetry, FrameOwns
<1>3. ~Scan
  BY DEF Scan, ReconnectDrained, TelemetryDrained, ForceTransitions,
         CascadeHandshake, ComputeIdle, Compute, Output, ImanOutput,
         ClosedLoopOutput, ManualOutput, DirectOutput, HeldOutput,
         ClosedLoopModes
<1>4. ~Silence /\ ~UNCHANGED workerVars
  BY DEF Silence, workerVars
<1>5. Operator
  BY <1>1, <1>2, <1>3, <1>4 DEF WorkerNext
<1> QED
  BY <1>5 DEF Operator, SetMode, SetSp, UpdateController

\* ManualOutputIsOperators: in MAN neither a scan, nor a telemetry frame, nor a
\* reconnect event moves a seeded DDC loop's output.
THEOREM ManualOutputOwned == WorkerSpec => ManualOutputIsOperators
<1> QED
  BY NextManualOutput, PTL DEF WorkerSpec, ManualOutputIsOperators

\* One step of the worker moves a seeded DDC loop's setpoint only by set_sp, by
\* a cascade input or by PV tracking.
LEMMA NextSetpoint ==
  [WorkerNext]_workerVars
    => (exec = "DDC" /\ hasTelem /\ sp' # sp
          => \/ \E v \in Signals : SetSp(v)
             \/ Compute /\ (mode \in CascadeModes \/ TracksPv))
<1> SUFFICES ASSUME [WorkerNext]_workerVars, exec = "DDC", hasTelem, sp' # sp
             PROVE  \/ \E v \in Signals : SetSp(v)
                    \/ Compute /\ (mode \in CascadeModes \/ TracksPv)
  OBVIOUS
<1> USE DEF commandVars, linkVars, signalVars, outputVars, spVars
<1>1. ~Reconnect
  BY DEF Reconnect, DrainReconnect
<1>2. ~Telemetry
  BY DEF Telemetry, DrainTelemetry, FrameOwns
<1>3. CASE Scan
  <2>1. Compute
    BY <1>3 DEF Scan, ReconnectDrained, TelemetryDrained, ForceTransitions,
                CascadeHandshake, ComputeIdle
  <2>2. sp' = SelectedSp
    BY <2>1 DEF Compute
  <2>3. mode \in CascadeModes \/ TracksPv
    BY <2>2 DEF SelectedSp, CascadeModes
  <2> QED
    BY <2>1, <2>3
<1>4. ~Silence /\ ~UNCHANGED workerVars
  BY DEF Silence, workerVars
<1>5. CASE Operator
  BY <1>5 DEF Operator, SetMode, SetOutput, UpdateController
<1> QED
  BY <1>1, <1>2, <1>3, <1>4, <1>5 DEF WorkerNext

\* OperatorSetpointSurvives: nothing but a setpoint command, a cascade input or
\* configured PV tracking replaces a seeded DDC loop's setpoint.
THEOREM SetpointOwned == WorkerSpec => OperatorSetpointSurvives
<1> QED
  BY NextSetpoint, PTL DEF WorkerSpec, OperatorSetpointSurvives

=============================================================================
