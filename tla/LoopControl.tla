---------------------------- MODULE LoopControl ----------------------------
(***************************************************************************)
(* One control loop end to end: the PID worker's scan and its API thread   *)
(* (PidWorker), the I/O worker's tick (application/workers/io_worker.py),  *)
(* the bus queues between them (application/event_bus.py), the OPC-UA link *)
(* and the output node in the DCS.                                         *)
(*                                                                         *)
(* The I/O worker drains its ACTION.CTRL queue only in ticks that start    *)
(* connected, so what the PID worker publishes during an outage waits in   *)
(* the queue.  A subscriber queue at its high-water mark drops the newest  *)
(* message, as the bus's sockets do.                                       *)
(***************************************************************************)
EXTENDS PidWorker, Sequences

CONSTANTS
  CtrlCap,   \* high-water mark of the I/O worker's ACTION.CTRL queue
  TelemCap,  \* ... of the PID worker's TELEMETRY queue
  ReconCap,  \* ... of the PID worker's SYS.RECONNECT queue
  FieldSp    \* value of the DCS's setpoint node

ASSUME LoopAssumption ==
  /\ CtrlCap \in Nat \ {0} /\ TelemCap \in Nat \ {0} /\ ReconCap \in Nat \ {0}
  /\ FieldSp \in Signals

VARIABLES
  link,       \* OPCUAAdapter.is_connected
  wasConn,    \* _was_connected
  everConn,   \* _ever_connected
  ioPc,       \* the I/O worker's place in its tick
  field,      \* value of the loop's CO node in the DCS
  telemQ,     \* TELEMETRY.{id} frames waiting for the PID worker
  reconQ,     \* SYS.RECONNECT.{id} events waiting for it
  ctrlQ,      \* ACTION.CTRL.{id} messages waiting for the I/O worker
  resynced    \* history: no detected reconnect awaits the PID worker

ioVars    == <<wasConn, everConn, ioPc>>
queueVars == <<telemQ, reconQ, ctrlQ>>
loopVars  == <<workerVars, link, ioVars, field, queueVars, resynced>>

CtrlMessages == [co : Int, ddc : BOOLEAN]

LoopTypeOK ==
  /\ link \in BOOLEAN /\ wasConn \in BOOLEAN /\ everConn \in BOOLEAN
  /\ ioPc \in {"tick", "reconnect", "publish", "drain"}
  /\ field \in Int
  /\ telemQ \in Seq(Frames) /\ Len(telemQ) <= TelemCap
  /\ reconQ \in Seq([pv : PvValues, co : Int]) /\ Len(reconQ) <= ReconCap
  /\ ctrlQ \in Seq(CtrlMessages) /\ Len(ctrlQ) <= CtrlCap
  /\ resynced \in BOOLEAN

LoopInit ==
  /\ WorkerInit
  /\ link = FALSE /\ wasConn = FALSE /\ everConn = FALSE
  /\ ioPc = "tick"
  /\ field \in Signals
  /\ telemQ = <<>> /\ reconQ = <<>> /\ ctrlQ = <<>>
  /\ resynced = TRUE

\* Seeded fault: the high-water mark is tested after the append.
EnqueueOverfull(q, m, cap) == IF Len(q) <= cap THEN Append(q, m) ELSE q

\* Publication to a subscriber: the newest message is the one dropped.
Enqueue(q, m, cap) == IF Len(q) < cap THEN Append(q, m) ELSE q

-----------------------------------------------------------------------------
(* The PID worker, fed by its queues.                                      *)

\* Seeded fault: the reconnect frame overwrites the worker's CO as well.
WorkerReconnectSeedsCo ==
  /\ pc = "reconnect"
  /\ reconQ # <<>>
  /\ eng' = BumplessTransfer(Head(reconQ).pv, Head(reconQ).co)
  /\ co' = Head(reconQ).co
  /\ reconQ' = Tail(reconQ)
  /\ settled' = FALSE /\ resynced' = TRUE
  /\ UNCHANGED <<pc, commandVars, linkVars, signalVars, spVars, tracking,
                 link, ioVars, field, telemQ, ctrlQ>>

WorkerReconnect ==
  /\ reconQ # <<>>
  /\ DrainReconnect(Head(reconQ).pv, Head(reconQ).co)
  /\ reconQ' = Tail(reconQ)
  /\ resynced' = TRUE
  /\ UNCHANGED <<link, ioVars, field, telemQ, ctrlQ>>

WorkerReconnectDrained ==
  /\ reconQ = <<>>
  /\ ReconnectDrained
  /\ UNCHANGED <<link, ioVars, field, queueVars, resynced>>

WorkerTelemetry ==
  /\ telemQ # <<>>
  /\ DrainTelemetry(Head(telemQ))
  /\ telemQ' = Tail(telemQ)
  /\ UNCHANGED <<link, ioVars, field, reconQ, ctrlQ, resynced>>

WorkerTelemetryDrained ==
  /\ telemQ = <<>>
  /\ TelemetryDrained
  /\ UNCHANGED <<link, ioVars, field, queueVars, resynced>>

WorkerModes ==
  /\ ForceTransitions \/ CascadeHandshake \/ ComputeIdle
  /\ UNCHANGED <<link, ioVars, field, queueVars, resynced>>

\* Seeded fault: the message does not tell DDC from SUPERVISORY.
CtrlMessageUntagged == [co |-> co', ddc |-> TRUE]

\* The message carries the execution mode the output was computed under.
CtrlMessage == [co |-> co', ddc |-> exec = "DDC"]

\* Seeded fault: an output is published only when it changed.
WorkerComputeOnChange ==
  /\ Compute
  /\ ctrlQ' = IF co' = co THEN ctrlQ ELSE Enqueue(ctrlQ, CtrlMessage, CtrlCap)
  /\ UNCHANGED <<link, ioVars, field, telemQ, reconQ, resynced>>

WorkerCompute ==
  /\ Compute
  /\ ctrlQ' = Enqueue(ctrlQ, CtrlMessage, CtrlCap)
  /\ UNCHANGED <<link, ioVars, field, telemQ, reconQ, resynced>>

WorkerStep == WorkerReconnect \/ WorkerReconnectDrained \/ WorkerTelemetry
                \/ WorkerTelemetryDrained \/ WorkerModes \/ WorkerCompute

-----------------------------------------------------------------------------
(* The I/O worker's tick.                                                  *)

\* The connection is sampled once, at the start of the tick.
ReconnectEdge == link /\ ~wasConn /\ everConn

IoTick ==
  /\ ioPc = "tick"
  /\ wasConn' = link
  /\ everConn' = (everConn \/ link)
  /\ ioPc' = IF ~link THEN "tick"
             ELSE IF ReconnectEdge THEN "reconnect" ELSE "publish"
  /\ resynced' = (resynced /\ ~ReconnectEdge)
  /\ UNCHANGED <<workerVars, link, field, queueVars>>

\* _publish_reconnect_events; a failed read loses the event.
IoReconnect ==
  /\ ioPc = "reconnect"
  /\ ioPc' = "publish"
  /\ IF link
     THEN \E p \in PvValues :
            reconQ' = Enqueue(reconQ, [pv |-> p, co |-> field], ReconCap)
     ELSE UNCHANGED reconQ
  /\ UNCHANGED <<workerVars, link, wasConn, everConn, field, telemQ, ctrlQ,
                 resynced>>

\* read_telemetry and publish; a failed read skips the frame.
IoPublish ==
  /\ ioPc = "publish"
  /\ ioPc' = "drain"
  /\ IF link
     THEN \E f \in Frames :
            /\ f.sp = FieldSp /\ f.co = field
            /\ telemQ' = Enqueue(telemQ, f, TelemCap)
     ELSE UNCHANGED telemQ
  /\ UNCHANGED <<workerVars, link, wasConn, everConn, field, reconQ, ctrlQ,
                 resynced>>

\* _drain_and_write_bkcal, one message: a DDC output is written to the CO
\* node; a message popped while the link is down is lost.
IoWrite ==
  /\ ioPc = "drain"
  /\ ctrlQ # <<>>
  /\ field' = IF link /\ Head(ctrlQ).ddc THEN Head(ctrlQ).co ELSE field
  /\ ctrlQ' = Tail(ctrlQ)
  /\ UNCHANGED <<workerVars, link, ioVars, telemQ, reconQ, resynced>>

IoTickEnd ==
  /\ ioPc = "drain"
  /\ ctrlQ = <<>>
  /\ ioPc' = "tick"
  /\ UNCHANGED <<workerVars, link, wasConn, everConn, field, queueVars,
                 resynced>>

IoStep == IoTick \/ IoReconnect \/ IoPublish \/ IoWrite \/ IoTickEnd

-----------------------------------------------------------------------------
(* The environment.                                                        *)

LinkDown == link /\ link' = FALSE
              /\ UNCHANGED <<workerVars, ioVars, field, queueVars, resynced>>

LinkUp == ~link /\ link' = TRUE
            /\ UNCHANGED <<workerVars, ioVars, field, queueVars, resynced>>

\* The DCS moves its output when it owns the loop, and its operator or its
\* fall-back logic does so during an outage.
DcsMoves(v) ==
  /\ exec = "SUPERVISORY" \/ ~link
  /\ v # field
  /\ field' = v
  /\ UNCHANGED <<workerVars, link, ioVars, queueVars, resynced>>

\* Frames arrive far more often than the shed time while the link is up.
LinkSilence ==
  /\ ~link /\ telemQ = <<>>
  /\ Silence
  /\ UNCHANGED <<link, ioVars, field, queueVars, resynced>>

LoopOperator ==
  /\ \/ \E m \in Modes : SetMode(m)
     \/ \E v \in Signals : SetOutput(v)
     \/ \E e \in {"DDC", "SUPERVISORY"} : UpdateController(e, shedOn, outHi)
  /\ UNCHANGED <<link, ioVars, field, queueVars, resynced>>

LoopSetpoint ==
  /\ \E v \in Signals : SetSp(v)
  /\ UNCHANGED <<link, ioVars, field, queueVars, resynced>>

Plant == LinkDown \/ LinkUp \/ (\E v \in Signals : DcsMoves(v)) \/ LinkSilence

LoopNext == WorkerStep \/ IoStep \/ Plant \/ LoopOperator \/ LoopSetpoint

\* Both threads keep running.  A drain ends once its queue has emptied often
\* enough: publishers are paced by their scan period, recv(0) is not.
LoopFairness ==
  /\ WF_loopVars(WorkerStep)
  /\ WF_loopVars(IoStep)
  /\ SF_loopVars(WorkerReconnectDrained)
  /\ SF_loopVars(WorkerTelemetryDrained)
  /\ SF_loopVars(IoTickEnd)

LoopSpec == LoopInit /\ [][LoopNext]_loopVars
LoopFairSpec == LoopSpec /\ LoopFairness

-----------------------------------------------------------------------------
(* Properties.                                                             *)

DdcPending == {k \in 1..Len(ctrlQ) : ctrlQ[k].ddc}

\* A SUPERVISORY loop publishes no new output for actuation: what the I/O
\* worker may still write to the DCS is what was computed before the switch,
\* and that backlog only shrinks.
SupervisoryBacklogShrinks ==
  [][ exec = "SUPERVISORY" /\ exec' = "SUPERVISORY"
        => Cardinality(DdcPending') <= Cardinality(DdcPending) ]_loopVars

\* A manual output the operator leaves alone ends up in the field and stays
\* there, whatever outages, drops and stale messages came before.
ManualOutputReachesField ==
  \A v \in Signals :
    <>[](link /\ exec = "DDC" /\ mode = "MAN" /\ hasTelem /\ co = v)
      => <>[](field = v)

\* In SUPERVISORY the worker's CO ends up mirroring the DCS's output.
SupervisoryMirrorsField ==
  \A v \in Signals :
    <>[](link /\ exec = "SUPERVISORY" /\ mode = "MAN" /\ field = v)
      => <>[](co = v)

\* After the hand-over to SUPERVISORY the last DDC outputs drain: from some
\* time on the daemon writes nothing to the output.
HandoverCompletes ==
  <>[](link /\ exec = "SUPERVISORY") => <>[](DdcPending = {})

\* After a reconnect the output is not stepped: the daemon moves the DCS's
\* output only with what it computed after re-seating on it.
NoStepBeforeResync ==
  [][ IoWrite /\ field' # field => resynced ]_loopVars

=============================================================================
