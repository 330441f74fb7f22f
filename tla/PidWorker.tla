----------------------------- MODULE PidWorker -----------------------------
(***************************************************************************)
(* The control thread of one loop (application/workers/pid_worker.py) and  *)
(* the API thread that commands it (application/loop_manager.py behind     *)
(* adapters/inbound/api/routers/commands.py).                              *)
(*                                                                         *)
(* One scan is a cycle of five steps, named by pc:                         *)
(*   reconnect -> telemetry -> force -> handshake -> compute -> reconnect  *)
(* The API thread writes mode, sp, co and the configuration between any    *)
(* two of them: set_mode, set_sp, set_output and update_controller take a  *)
(* lock the scan never takes.  Telemetry and reconnect frames are offered  *)
(* by the environment here; LoopControl supplies them through queues.      *)
(***************************************************************************)
EXTENDS PidEngine, ModeManager, FiniteSets

CONSTANTS
  Signals,         \* values an SP, CO or BKCAL_IN may carry
  PvValues,        \* values a PV may carry
  OutLo,           \* out_lo_lim
  OutHis,          \* the values out_hi_lim is configured to
  ShedOpt,         \* shed_opt
  PermittedModes,  \* permitted_modes
  SpPvTrackInMan, SpPvTrackInLoOrIman,   \* control_opts
  IncreaseToClose, \* io_opts.increase_to_close
  PvBadOffered,    \* whether the PV's severity is BAD, for the frames offered
  BkValues,        \* values BKCAL_IN carries, for the frames offered
  BkStatusesOffered, BkLimitsOffered,
  RemoteKeys       \* which of the optional frame keys the producer supplies

AllRemoteKeys == {"cas_in", "rcas_in", "rout_in", "trk_val"}

ASSUME WorkerAssumption ==
  /\ Signals \subseteq Int /\ PvValues \subseteq Int /\ BkValues \subseteq Int
  /\ OutLo \in Int /\ OutHis \subseteq Int /\ \A h \in OutHis : OutLo <= h
  /\ OutHis # {}
  /\ ShedOpt \in Modes /\ PermittedModes \subseteq Modes
  /\ SpPvTrackInMan \in BOOLEAN /\ SpPvTrackInLoOrIman \in BOOLEAN
  /\ IncreaseToClose \in BOOLEAN
  /\ PvBadOffered \subseteq BOOLEAN
  /\ BkStatusesOffered \subseteq BkStatuses
  /\ BkLimitsOffered \subseteq LimitBits
  /\ RemoteKeys \subseteq AllRemoteKeys

VARIABLES
  pc,           \* the next step of the scan
  mode,         \* _mode
  exec,         \* _controller.execution_mode
  shedOn,       \* _controller.shed_time_s > 0
  outHi,        \* _controller.out_hi_lim
  hasTelem,     \* _has_telemetry
  silent,       \* time since _last_telem_time exceeds shed_time_s
  shedExpired,  \* _block_status.shed_timeout_expired
  pv, sp, co,   \* values of _last_pv, _last_sp, _last_co
  pvBad,        \* _last_pv.status.is_bad
  spWorking,    \* _sp_working; not set for None
  eng,          \* _state
  bk,           \* _last_bkcal_in
  remote,       \* _last_cas_in, _last_rcas_in, _last_rout_in, _last_trk_val
  tracking,     \* cascade_action.tracking_target is not None, this scan
  settled       \* history: no operator, frame, reconnect or cascade rejoin
                \* has touched CO or the engine since a scan last drove CO

commandVars == <<mode, exec, shedOn, outHi>>
linkVars    == <<hasTelem, silent, shedExpired>>
signalVars  == <<pv, pvBad, bk, remote>>
outputVars  == <<co, eng>>
spVars      == <<sp, spWorking>>
workerVars  == <<pc, commandVars, linkVars, signalVars, outputVars, spVars,
                 tracking, settled>>

Steps == {"reconnect", "telemetry", "force", "handshake", "compute"}
BkSignal == [value : Int, status : BkStatuses, limit : LimitBits]

NoSpWorking == [set |-> FALSE, value |-> 0]

\* A TELEMETRY frame: PV, SP and CO read from the DCS, BKCAL_IN, and the
\* optional remote inputs of those producers that supply them.
Frames == [pv : PvValues, pvBad : PvBadOffered,
           sp : Signals, co : Signals,
           bk : [value : BkValues, status : BkStatusesOffered,
                 limit : BkLimitsOffered],
           remote : [RemoteKeys -> Signals]]

TypeOK ==
  /\ pc \in Steps
  /\ mode \in Modes
  /\ exec \in {"DDC", "SUPERVISORY"}
  /\ shedOn \in BOOLEAN
  /\ outHi \in OutHis
  /\ hasTelem \in BOOLEAN /\ silent \in BOOLEAN /\ shedExpired \in BOOLEAN
  /\ pv \in Int /\ pvBad \in BOOLEAN /\ sp \in Int /\ co \in Int
  /\ spWorking \in [set : BOOLEAN, value : Int]
  /\ eng \in PIDState
  /\ bk \in BkSignal
  /\ remote \in [AllRemoteKeys -> Int]
  /\ tracking \in BOOLEAN /\ settled \in BOOLEAN

WorkerInit ==
  /\ pc = "reconnect"
  /\ mode = "MAN"
  /\ exec \in {"DDC", "SUPERVISORY"}
  /\ shedOn \in BOOLEAN
  /\ outHi \in OutHis
  /\ hasTelem = FALSE /\ silent = FALSE /\ shedExpired = FALSE
  /\ pv = 0 /\ pvBad = FALSE /\ sp = 0 /\ co = 0
  /\ spWorking = NoSpWorking
  /\ eng = InitPIDState
  /\ bk = [value |-> 0, status |-> "GOOD", limit |-> "NONE"]
  /\ remote = [k \in AllRemoteKeys |-> 0]
  /\ tracking = FALSE
  /\ settled = TRUE

-----------------------------------------------------------------------------
(* The scan.                                                               *)

\* _drain_reconnect, one message: re-seat the engine on the DCS's output.
DrainReconnect(fieldPv, fieldCo) ==
  /\ pc = "reconnect"
  /\ eng' = BumplessTransfer(fieldPv, fieldCo)
  /\ settled' = FALSE
  /\ UNCHANGED <<pc, commandVars, linkVars, signalVars, co, spVars, tracking>>

ReconnectDrained ==
  /\ pc = "reconnect"
  /\ pc' = "telemetry"
  /\ UNCHANGED <<commandVars, linkVars, signalVars, outputVars, spVars,
                 tracking, settled>>

\* Seeded fault: every frame overwrites SP and CO (the bug the code's comment
\* on CO ownership describes, for both signals).
FrameAlwaysOwns == TRUE

\* Seeded fault: frames only ever seed SP and CO, in SUPERVISORY too (the other
\* bug that comment describes).
FrameOnlySeeds == ~hasTelem

\* The frame owns SP and CO unless SmartPID does (DDC), where it only seeds.
FrameOwns == exec # "DDC" \/ ~hasTelem

\* _drain_telemetry, one message.
DrainTelemetry(f) ==
  /\ pc = "telemetry"
  /\ pv' = f.pv
  /\ pvBad' = f.pvBad
  /\ bk' = f.bk
  /\ remote' = [k \in AllRemoteKeys |->
                  IF k \in RemoteKeys THEN f.remote[k] ELSE remote[k]]
  /\ sp' = IF FrameOwns THEN f.sp ELSE sp
  /\ co' = IF FrameOwns THEN f.co ELSE co
  /\ settled' = (settled /\ ~FrameOwns)
  /\ hasTelem' = TRUE
  /\ silent' = FALSE
  /\ UNCHANGED <<pc, commandVars, shedExpired, spWorking, eng, tracking>>

TelemetryDrained ==
  /\ pc = "telemetry"
  /\ pc' = "force"
  /\ UNCHANGED <<commandVars, linkVars, signalVars, outputVars, spVars,
                 tracking, settled>>

\* Shed detection: the flag is recomputed only with telemetry seen and a
\* shed time configured; otherwise it keeps its last value.
ShedNow == IF hasTelem /\ shedOn THEN silent ELSE shedExpired

\* The worker's own _block_status, of which only the shed flag is ever set.
WorkerBlockStatus == [BlockStatusDefault EXCEPT !.shedExpired = ShedNow]

\* Seeded fault: a scan with nothing to force assigns the absent mode.
ForceTransitionsUnguarded ==
  /\ pc = "force"
  /\ pc' = "handshake"
  /\ shedExpired' = ShedNow
  /\ mode' = ForcedTransition(mode, WorkerBlockStatus, ShedOpt)
  /\ eng' = IF mode' \in ClosedLoopModes THEN BumplessTransfer(pv, co) ELSE eng
  /\ UNCHANGED <<exec, shedOn, outHi, hasTelem, silent, signalVars, co,
                 spVars, tracking, settled>>

ForceTransitions ==
  /\ pc = "force"
  /\ pc' = "handshake"
  /\ shedExpired' = ShedNow
  /\ LET forced == ForcedTransition(mode, WorkerBlockStatus, ShedOpt)
     IN  IF forced \in {NoMode, mode}
         THEN UNCHANGED <<mode, eng>>
         ELSE /\ mode' = forced
              /\ eng' = IF forced \in ClosedLoopModes
                        THEN BumplessTransfer(pv, co) ELSE eng
  /\ UNCHANGED <<exec, shedOn, outHi, hasTelem, silent, signalVars, co,
                 spVars, tracking, settled>>

CascadeHandshake ==
  /\ pc = "handshake"
  /\ pc' = "compute"
  /\ tracking' = HandshakeTracks(mode, bk.status)
  /\ LET forced == HandshakeForces(mode, bk.status)
     IN  CASE forced = NoMode -> UNCHANGED <<mode, eng, settled>>
           [] forced = "IMAN" -> mode' = "IMAN" /\ UNCHANGED <<eng, settled>>
           [] OTHER -> /\ mode' = "CAS"
                       /\ eng' = BumplessTransfer(pv, bk.value)
                       /\ settled' = FALSE
  /\ UNCHANGED <<exec, shedOn, outHi, linkVars, signalVars, co, spVars>>

-----------------------------------------------------------------------------
(* The computation step: setpoint selection, SP ramp, output, publication. *)

TracksPv ==
  \/ (mode = "MAN" /\ SpPvTrackInMan)
  \/ (mode \in {"LO", "IMAN"} /\ SpPvTrackInLoOrIman)

\* The setpoint in force this scan, before rate limiting; stored in _last_sp.
SelectedSp == CASE mode = "CAS"  -> remote["cas_in"]
                [] mode = "RCAS" -> remote["rcas_in"]
                [] TracksPv      -> pv
                [] OTHER         -> sp

\* SP_WRK exists only in the closed-loop modes and starts at the target.
RampedSp == SpRamp(SelectedSp,
                   IF spWorking.set THEN spWorking.value ELSE SelectedSp)

\* Where ROUT, LO and BYPASS take the output from.
OutputSource == CASE mode = "ROUT" -> remote["rout_in"]
                  [] mode = "LO"   -> remote["trk_val"]
                  [] OTHER         -> SelectedSp

ImanOutput ==
  /\ mode = "IMAN" /\ tracking
  /\ eng' = ImanTracking(eng, pv, SelectedSp, bk.value)
  /\ co' = bk.value
  /\ settled' = TRUE

ClosedLoopOutput ==
  /\ mode \in ClosedLoopModes
  /\ eng' = PidCompute(eng, pv, RampedSp, bk.limit, OutLo, outHi)
  /\ co' = IF IncreaseToClose THEN outHi + OutLo - eng'.cv ELSE eng'.cv
  /\ settled' = TRUE

ManualOutput ==
  /\ mode = "MAN"
  /\ eng' = BumplessTransfer(pv, co)
  /\ settled' = TRUE
  /\ UNCHANGED co

\* Seeded fault: the direct modes drive CO but do not re-seat the engine.
DirectOutputUnseated ==
  /\ mode \in {"ROUT", "LO", "BYPASS"}
  /\ co' = Clamp(OutputSource, OutLo, outHi)
  /\ settled' = TRUE
  /\ UNCHANGED eng

\* Seeded fault: the direct modes relay their source unclamped.
DirectOutputUnclamped ==
  /\ mode \in {"ROUT", "LO", "BYPASS"}
  /\ co' = OutputSource
  /\ eng' = BumplessTransfer(pv, co')
  /\ settled' = TRUE

DirectOutput ==
  /\ mode \in {"ROUT", "LO", "BYPASS"}
  /\ co' = Clamp(OutputSource, OutLo, outHi)
  /\ eng' = BumplessTransfer(pv, co')
  /\ settled' = TRUE

\* OOS, and IMAN while no initialization request is tracked.
HeldOutput ==
  /\ mode = "OOS" \/ (mode = "IMAN" /\ ~tracking)
  /\ UNCHANGED <<co, eng, settled>>

Output == ImanOutput \/ ClosedLoopOutput \/ ManualOutput \/ DirectOutput
            \/ HeldOutput

\* Seeded fault: the ramped setpoint is stored back as the target.
ComputeStoresRamp ==
  /\ pc = "compute"
  /\ hasTelem
  /\ pc' = "reconnect"
  /\ sp' = IF mode \in ClosedLoopModes THEN RampedSp ELSE SelectedSp
  /\ spWorking' = IF mode \in ClosedLoopModes
                   THEN [set |-> TRUE, value |-> RampedSp] ELSE NoSpWorking
  /\ Output
  /\ tracking' = FALSE
  /\ UNCHANGED <<commandVars, linkVars, signalVars>>

Compute ==
  /\ pc = "compute"
  /\ hasTelem
  /\ pc' = "reconnect"
  /\ sp' = SelectedSp
  /\ spWorking' = IF mode \in ClosedLoopModes
                   THEN [set |-> TRUE, value |-> RampedSp] ELSE NoSpWorking
  /\ Output
  /\ tracking' = FALSE
  /\ UNCHANGED <<commandVars, linkVars, signalVars>>

\* Nothing is computed or published before the first frame.
ComputeIdle ==
  /\ pc = "compute"
  /\ ~hasTelem
  /\ pc' = "reconnect"
  /\ tracking' = FALSE
  /\ UNCHANGED <<commandVars, linkVars, signalVars, outputVars, spVars,
                 settled>>

-----------------------------------------------------------------------------
(* The API thread.  A SUPERVISORY loop refuses process commands (409).     *)

SetMode(m) ==
  /\ exec = "DDC"
  /\ RequestAccepted(mode, m, PermittedModes, BlockStatusDefault)
  /\ mode' = m
  /\ UNCHANGED <<pc, exec, shedOn, outHi, linkVars, signalVars, outputVars,
                 spVars, tracking, settled>>

SetSp(v) ==
  /\ exec = "DDC"
  /\ sp' = v
  /\ UNCHANGED <<pc, commandVars, linkVars, signalVars, outputVars,
                 spWorking, tracking, settled>>

SetOutput(v) ==
  /\ exec = "DDC"
  /\ mode = "MAN"
  /\ OutLo <= v /\ v <= outHi
  /\ co' = v
  /\ settled' = FALSE
  /\ UNCHANGED <<pc, commandVars, linkVars, signalVars, eng, spVars,
                 tracking>>

\* PUT /controllers/{id}: the configuration is swapped by reference.
UpdateController(e, shed, hi) ==
  /\ <<e, shed, hi>> # <<exec, shedOn, outHi>>
  /\ exec' = e
  /\ shedOn' = shed
  /\ outHi' = hi
  /\ UNCHANGED <<pc, mode, linkVars, signalVars, outputVars, spVars,
                 tracking, settled>>

\* The clock: no frame for longer than shed_time_s.
Silence ==
  /\ hasTelem
  /\ ~silent
  /\ silent' = TRUE
  /\ UNCHANGED <<pc, commandVars, hasTelem, shedExpired, signalVars,
                 outputVars, spVars, tracking, settled>>

-----------------------------------------------------------------------------
Scan == ReconnectDrained \/ TelemetryDrained \/ ForceTransitions
          \/ CascadeHandshake \/ Compute \/ ComputeIdle

Reconnect == \E p \in PvValues, c \in Signals : DrainReconnect(p, c)
Telemetry == \E f \in Frames : DrainTelemetry(f)

Operator == \/ \E m \in Modes : SetMode(m)
            \/ \E v \in Signals : SetSp(v)
            \/ \E v \in Signals : SetOutput(v)
            \/ \E e \in {"DDC", "SUPERVISORY"}, s \in BOOLEAN, h \in OutHis :
                 UpdateController(e, s, h)

WorkerNext == Scan \/ Reconnect \/ Telemetry \/ Operator \/ Silence

WorkerSpec == WorkerInit /\ [][WorkerNext]_workerVars

\* The thread keeps scanning: every iteration ends in a bounded wait and no
\* drain can be fed faster than it empties.
WorkerFairSpec == WorkerSpec /\ WF_workerVars(Scan)

-----------------------------------------------------------------------------
(* Properties.                                                             *)

\* Every branch of the output computation leaves the engine's accumulated
\* output equal to the CO it published, so the next velocity increment starts
\* from what is in the field, whatever modes came before.  Only the events
\* that clear `settled` may separate them.  A reversed (increase-to-close)
\* output is not covered: see BumplessModeChange.
EngineMatchesOutput == settled /\ ~IncreaseToClose => eng.cv = co

\* A scan that computes or relays an output never publishes one outside the
\* output limits in force, whichever value the DCS, the remote inputs, an
\* earlier limit or the reversal of a valve that closes on increase gave it.
OutputWithinLimits ==
  [][ Compute /\ mode \in ClosedLoopModes \cup {"ROUT", "LO", "BYPASS"}
        => OutLo <= co' /\ co' <= outHi ]_workerVars

\* In MAN a DDC loop's output is the operator's: neither a scan, nor a frame,
\* nor a reconnect moves it once the loop has been seeded.
ManualOutputIsOperators ==
  [][ exec = "DDC" /\ hasTelem /\ mode = "MAN" /\ mode' = "MAN" /\ co' # co
        => \E v \in Signals : SetOutput(v) ]_workerVars

\* A DDC loop's setpoint is the operator's: once seeded, it changes only by
\* their command, by a cascade input or by configured PV tracking.
OperatorSetpointSurvives ==
  [][ exec = "DDC" /\ hasTelem /\ sp' # sp
        => \/ \E v \in Signals : SetSp(v)
           \/ Compute /\ (mode \in CascadeModes \/ TracksPv) ]_workerVars

\* When frames stop for longer than the shed time, the loop reaches its shed
\* mode even if the operator keeps requesting other modes, unless frames
\* return or shedding is switched off.
ShedTakesEffect ==
  (hasTelem /\ shedOn /\ silent) ~> (mode = ShedOpt \/ ~silent \/ ~shedOn)

\* A cascade loop whose downstream block reports BAD or not-invited leaves
\* CAS and RCAS, whenever the report or the mode request arrived in the scan.
CascadeBreakIsTaken ==
  (mode \in CascadeModes /\ BkBroken(bk.status))
     ~> (mode \notin CascadeModes \/ ~BkBroken(bk.status))

\* The rate-limited setpoint arrives: a target that stays in force in AUTO is
\* the setpoint the loop ends up chasing.
RampArrives ==
  \A v \in Signals :
    (mode = "AUTO" /\ hasTelem /\ sp = v)
      ~> (spWorking = [set |-> TRUE, value |-> v] \/ sp # v \/ mode # "AUTO")

NothingToCorrect ==
  /\ mode \in ClosedLoopModes /\ exec = "DDC"
  /\ ControlError(pv, RampedSp) = 0 /\ eng.errorPrev = 0
  /\ eng.pvPrev = pv /\ eng.pvPrev2 = pv
  /\ OutLo <= co /\ co <= outHi

\* Bumpless transfer on every mode change: a closed-loop scan with no error to
\* correct, none remembered, and no PV movement leaves the output where the
\* operator, the seed frame or the last scan put it.
BumplessModeChange ==
  [][ Compute /\ NothingToCorrect => co' = co ]_workerVars

\* Bad PV forces MAN: a BAD process value takes a closed-loop block to MAN in
\* the scan that has read it.
BadPvForcesManual ==
  [][ ForceTransitions /\ pvBad /\ mode \in ClosedLoopModes
        => mode' = "MAN" ]_workerVars

\* Integral action is never stuck: a loop left in AUTO with a standing error
\* upwards, no downstream limit and nobody touching it drives the engine's
\* accumulated output all the way to the high limit (a reversed CO to the low
\* one), from saturation at the other end included.
StandingErrorReachesLimit ==
  <>[](/\ mode = "AUTO" /\ hasTelem /\ settled /\ bk.limit = "NONE"
       /\ ControlError(pv, sp) > Deadband)
    => <>(mode = "AUTO" /\ eng.cv = outHi)

=============================================================================
