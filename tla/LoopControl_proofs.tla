------------------------- MODULE LoopControl_proofs -------------------------
(***************************************************************************)
(* Theorems about LoopControl: type correctness of the composed loop and   *)
(* its refinement of PidWorker, both where the DCS's nodes may hold any    *)
(* integer (Signals = Int): the outputs the worker computes come back to   *)
(* it in frames, so a smaller set would have to be closed under compute(). *)
(* That the backlog of direct writes shrinks needs no such assumption.     *)
(***************************************************************************)
EXTENDS LoopControl, PidWorker_proofs, FiniteSetTheorems

-----------------------------------------------------------------------------
(* Bounded queues.                                                         *)

\* Publication keeps a queue a sequence of its messages, within its mark.
LEMMA EnqueueBounded ==
  ASSUME NEW S, NEW q \in Seq(S), NEW m \in S, NEW cap \in Nat, Len(q) <= cap
  PROVE  Enqueue(q, m, cap) \in Seq(S) /\ Len(Enqueue(q, m, cap)) <= cap
  BY DEF Enqueue

\* Consumption does too, and the message consumed is one of the queue's.
LEMMA DequeueBounded ==
  ASSUME NEW S, NEW q \in Seq(S), q # <<>>, NEW cap \in Nat, Len(q) <= cap
  PROVE  Head(q) \in S /\ Tail(q) \in Seq(S) /\ Len(Tail(q)) <= cap
  OBVIOUS

-----------------------------------------------------------------------------
(* Every step of the loop is a step of the worker, or leaves it alone.     *)

\* The worker's own steps, fed from well-formed queues.
LEMMA WorkerStepRefines ==
  Signals = Int /\ LoopTypeOK /\ WorkerStep => WorkerNext
<1> SUFFICES ASSUME Signals = Int, LoopTypeOK, WorkerStep PROVE WorkerNext
  OBVIOUS
<1>1. CASE WorkerReconnect
  <2>1. Head(reconQ) \in [pv : PvValues, co : Int]
    BY <1>1, LoopAssumption, DequeueBounded DEF WorkerReconnect, LoopTypeOK
  <2>2. Reconnect
    BY <1>1, <2>1 DEF WorkerReconnect, Reconnect
  <2> QED
    BY <2>2 DEF WorkerNext
<1>2. CASE WorkerTelemetry
  <2>1. Head(telemQ) \in Frames
    BY <1>2, LoopAssumption, DequeueBounded DEF WorkerTelemetry, LoopTypeOK
  <2>2. Telemetry
    BY <1>2, <2>1 DEF WorkerTelemetry, Telemetry
  <2> QED
    BY <2>2 DEF WorkerNext
<1>3. CASE WorkerReconnectDrained
  BY <1>3, Zenon DEF WorkerReconnectDrained, WorkerNext, Scan
<1>4. CASE WorkerTelemetryDrained
  BY <1>4, Zenon DEF WorkerTelemetryDrained, WorkerNext, Scan
<1>5. CASE WorkerModes
  BY <1>5, Zenon DEF WorkerModes, WorkerNext, Scan
<1>6. CASE WorkerCompute
  BY <1>6, Zenon DEF WorkerCompute, WorkerNext, Scan
<1> QED
  BY <1>1, <1>2, <1>3, <1>4, <1>5, <1>6 DEF WorkerStep

\* The operator's commands and the clock are the worker's.
LEMMA CommandRefines ==
  TypeOK /\ (LoopOperator \/ LoopSetpoint \/ LinkSilence) => WorkerNext
<1> SUFFICES ASSUME TypeOK, LoopOperator \/ LoopSetpoint \/ LinkSilence
             PROVE  WorkerNext
  OBVIOUS
<1>1. CASE LoopOperator
  <2>1. CASE \E m \in Modes : SetMode(m)
    BY <2>1, Zenon DEF Operator, WorkerNext
  <2>2. CASE \E v \in Signals : SetOutput(v)
    BY <2>2, Zenon DEF Operator, WorkerNext
  <2>3. CASE \E e \in {"DDC", "SUPERVISORY"} : UpdateController(e, shedOn, outHi)
    <3>1. shedOn \in BOOLEAN /\ outHi \in OutHis
      BY DEF TypeOK
    <3> QED
      BY <2>3, <3>1, Zenon DEF Operator, WorkerNext
  <2> QED
    BY <1>1, <2>1, <2>2, <2>3, Zenon DEF LoopOperator
<1>2. CASE LoopSetpoint
  BY <1>2, Zenon DEF LoopSetpoint, Operator, WorkerNext
<1>3. CASE LinkSilence
  BY <1>3, Zenon DEF LinkSilence, WorkerNext
<1> QED
  BY <1>1, <1>2, <1>3

\* The I/O worker and the rest of the plant do not touch the worker's fields.
LEMMA RestStutters ==
  \/ IoStep \/ LinkDown \/ LinkUp \/ (\E v \in Signals : DcsMoves(v))
  \/ UNCHANGED loopVars
  => UNCHANGED workerVars
  BY Zenon DEF IoStep, IoTick, IoReconnect, IoPublish, IoWrite, IoTickEnd,
               LinkDown, LinkUp, DcsMoves, loopVars

\* A step of the loop is a step of the worker or a stutter.
LEMMA NextRefines ==
  Signals = Int /\ TypeOK /\ LoopTypeOK /\ [LoopNext]_loopVars
    => [WorkerNext]_workerVars
  BY WorkerStepRefines, CommandRefines, RestStutters, Zenon DEF LoopNext, Plant

-----------------------------------------------------------------------------
(* Type correctness.                                                       *)

\* The initial states are well formed.
LEMMA LoopInitTypeOK == LoopInit => LoopTypeOK
<1> SUFFICES ASSUME LoopInit PROVE LoopTypeOK
  OBVIOUS
<1>1. telemQ = <<>> /\ reconQ = <<>> /\ ctrlQ = <<>>
  BY DEF LoopInit
<1>2. /\ telemQ \in Seq(Frames) /\ Len(telemQ) <= TelemCap
      /\ reconQ \in Seq([pv : PvValues, co : Int]) /\ Len(reconQ) <= ReconCap
      /\ ctrlQ \in Seq(CtrlMessages) /\ Len(ctrlQ) <= CtrlCap
  BY <1>1, LoopAssumption
<1>3. /\ link \in BOOLEAN /\ wasConn \in BOOLEAN /\ everConn \in BOOLEAN
      /\ resynced \in BOOLEAN
  BY DEF LoopInit
<1>4. ioPc = "tick" /\ field \in Int
  BY WorkerAssumption DEF LoopInit
<1> QED
  BY <1>2, <1>3, <1>4 DEF LoopTypeOK

\* Every step keeps the links, queues and I/O worker well formed.
LEMMA LoopNextTypeOK ==
  Signals = Int /\ TypeOK /\ LoopTypeOK /\ [LoopNext]_loopVars => LoopTypeOK'
<1> SUFFICES ASSUME Signals = Int, TypeOK, LoopTypeOK, [LoopNext]_loopVars
             PROVE  LoopTypeOK'
  OBVIOUS
<1> USE LoopAssumption DEF ioVars, queueVars
<1>1. CASE WorkerReconnect
  BY <1>1 DEF WorkerReconnect, LoopTypeOK
<1>2. CASE WorkerTelemetry
  BY <1>2 DEF WorkerTelemetry, LoopTypeOK
<1>3. CASE WorkerReconnectDrained \/ WorkerTelemetryDrained \/ WorkerModes
  BY <1>3 DEF WorkerReconnectDrained, WorkerTelemetryDrained, WorkerModes,
              LoopTypeOK
<1>4. CASE WorkerCompute
  <2>1. CtrlMessage \in CtrlMessages
    <3>1. co' \in Int
      BY <1>4, OutputType DEF WorkerCompute, Compute
    <3> QED
      BY <3>1 DEF CtrlMessage, CtrlMessages
  <2>2. ctrlQ' \in Seq(CtrlMessages) /\ Len(ctrlQ') <= CtrlCap
    BY <1>4, <2>1, EnqueueBounded DEF WorkerCompute, LoopTypeOK
  <2> QED
    BY <1>4, <2>2 DEF WorkerCompute, LoopTypeOK
<1>5. CASE IoTick
  BY <1>5 DEF IoTick, LoopTypeOK, ReconnectEdge
<1>6. CASE IoReconnect
  <2>1. reconQ' \in Seq([pv : PvValues, co : Int]) /\ Len(reconQ') <= ReconCap
    <3>1. CASE link
      <4>1. PICK p \in PvValues :
              reconQ' = Enqueue(reconQ, [pv |-> p, co |-> field], ReconCap)
        BY <1>6, <3>1 DEF IoReconnect
      <4>2. [pv |-> p, co |-> field] \in [pv : PvValues, co : Int]
        BY DEF LoopTypeOK
      <4> QED
        BY <4>1, <4>2, EnqueueBounded DEF LoopTypeOK
    <3>2. CASE ~link
      BY <1>6, <3>2 DEF IoReconnect, LoopTypeOK
    <3> QED
      BY <3>1, <3>2
  <2> QED
    BY <1>6, <2>1 DEF IoReconnect, LoopTypeOK
<1>7. CASE IoPublish
  <2>1. telemQ' \in Seq(Frames) /\ Len(telemQ') <= TelemCap
    <3>1. CASE link
      <4>1. PICK f \in Frames : telemQ' = Enqueue(telemQ, f, TelemCap)
        BY <1>7, <3>1 DEF IoPublish
      <4> QED
        BY <4>1, EnqueueBounded DEF LoopTypeOK
    <3>2. CASE ~link
      BY <1>7, <3>2 DEF IoPublish, LoopTypeOK
    <3> QED
      BY <3>1, <3>2
  <2> QED
    BY <1>7, <2>1 DEF IoPublish, LoopTypeOK
<1>8. CASE IoWrite
  <2>1. Head(ctrlQ) \in CtrlMessages /\ Tail(ctrlQ) \in Seq(CtrlMessages)
        /\ Len(Tail(ctrlQ)) <= CtrlCap
    BY <1>8, DequeueBounded DEF IoWrite, LoopTypeOK
  <2>2. field' \in Int
    BY <1>8, <2>1 DEF IoWrite, LoopTypeOK, CtrlMessages
  <2> QED
    BY <1>8, <2>1, <2>2 DEF IoWrite, LoopTypeOK
<1>9. CASE IoTickEnd
  BY <1>9 DEF IoTickEnd, LoopTypeOK
<1>10. CASE Plant
  BY <1>10 DEF Plant, LinkDown, LinkUp, DcsMoves, LinkSilence, LoopTypeOK
<1>11. CASE LoopOperator \/ LoopSetpoint \/ UNCHANGED loopVars
  BY <1>11 DEF LoopOperator, LoopSetpoint, loopVars, LoopTypeOK
<1> QED
  BY <1>1, <1>2, <1>3, <1>4, <1>5, <1>6, <1>7, <1>8, <1>9, <1>10, <1>11
     DEF LoopNext, WorkerStep, IoStep

\* The two type invariants are inductive together: the worker's needs frames
\* that are well formed, the queues' need outputs that are.
LEMMA LoopTypeCorrectBoth ==
  Signals = Int => (LoopSpec => [](TypeOK /\ LoopTypeOK))
<1> SUFFICES ASSUME Signals = Int PROVE LoopSpec => [](TypeOK /\ LoopTypeOK)
  OBVIOUS
<1>1. LoopInit => TypeOK /\ LoopTypeOK
  BY InitTypeOK, LoopInitTypeOK DEF LoopInit
<1>2. TypeOK /\ LoopTypeOK /\ [LoopNext]_loopVars => (TypeOK /\ LoopTypeOK)'
  BY NextRefines, NextTypeOK, LoopNextTypeOK
<1> QED
  BY <1>1, <1>2, PTL DEF LoopSpec

\* LoopTypeOK: queues stay within their high-water marks and hold only
\* well-formed frames, events and outputs.
THEOREM LoopTypeCorrect == Signals = Int => (LoopSpec => []LoopTypeOK)
<1> SUFFICES ASSUME Signals = Int PROVE LoopSpec => []LoopTypeOK
  OBVIOUS
<1> QED
  BY LoopTypeCorrectBoth, PTL

\* WorkerSpec: with its frames, reconnect events and outputs travelling through
\* queues that drop, and an I/O worker and a link that fail, the control thread
\* does nothing that the open worker of PidWorker could not do.
THEOREM LoopRefinesWorker == Signals = Int => (LoopSpec => WorkerSpec)
<1> SUFFICES ASSUME Signals = Int PROVE LoopSpec => WorkerSpec
  OBVIOUS
<1>1. LoopInit => WorkerInit
  BY DEF LoopInit
<1>2. TypeOK /\ LoopTypeOK /\ [LoopNext]_loopVars => [WorkerNext]_workerVars
  BY NextRefines
<1> QED
  BY <1>1, <1>2, LoopTypeCorrectBoth, PTL DEF LoopSpec, WorkerSpec

-----------------------------------------------------------------------------
(* The backlog of direct writes.                                          *)

\* The messages to the I/O worker form a queue.
CtrlIsQueue == \E S : ctrlQ \in Seq(S)

\* A message that is not a direct write adds none.
LEMMA NoDdcAdded ==
  ASSUME NEW S, ctrlQ \in Seq(S), NEW m, ~m.ddc, ctrlQ' = Enqueue(ctrlQ, m, CtrlCap)
  PROVE  DdcPending' = DdcPending
<1>1. CASE ctrlQ' = ctrlQ
  BY <1>1 DEF DdcPending
<1>2. CASE ctrlQ' = Append(ctrlQ, m)
  <2>1. Len(ctrlQ) \in Nat /\ Len(ctrlQ') = Len(ctrlQ) + 1 /\ ctrlQ'[Len(ctrlQ) + 1] = m
        /\ \A k \in 1 .. Len(ctrlQ) : ctrlQ'[k] = ctrlQ[k]
    BY <1>2
  <2>2. 1 .. Len(ctrlQ') = (1 .. Len(ctrlQ)) \union {Len(ctrlQ) + 1}
    BY <2>1
  <2> QED
    BY <2>1, <2>2 DEF DdcPending
<1> QED
  BY <1>1, <1>2 DEF Enqueue

\* Consuming a message adds none either.
LEMMA DdcTaken ==
  ASSUME NEW S, ctrlQ \in Seq(S), ctrlQ # <<>>, ctrlQ' = Tail(ctrlQ)
  PROVE  Cardinality(DdcPending') <= Cardinality(DdcPending)
<1> DEFINE f == [k \in DdcPending' |-> k + 1]
<1>1. Len(ctrlQ) \in Nat /\ Len(ctrlQ') = Len(ctrlQ) - 1 /\ \A k \in 1 .. Len(ctrlQ') : ctrlQ'[k] = ctrlQ[k + 1]
  OBVIOUS
<1>2. \A k \in DdcPending' : k \in Nat /\ k + 1 \in DdcPending
  BY <1>1 DEF DdcPending
<1>3. f \in Injection(DdcPending', DdcPending)
  BY <1>2 DEF Injection, IsInjective
<1>4. IsFiniteSet(DdcPending)
  <2>1. IsFiniteSet(1 .. Len(ctrlQ)) /\ DdcPending \subseteq 1 .. Len(ctrlQ)
    BY <1>1, FS_Interval DEF DdcPending
  <2> QED
    BY <2>1, FS_Subset
<1> QED
  BY <1>3, <1>4, FS_Injection DEF ExistsInjection

\* Only computing adds to the queue, and in SUPERVISORY what is computed is
\* not a direct write.
LEMMA BacklogStep ==
  ASSUME CtrlIsQueue, [LoopNext]_loopVars
  PROVE  /\ CtrlIsQueue'
         /\ exec = "SUPERVISORY" => Cardinality(DdcPending') <= Cardinality(DdcPending)
<1> PICK S : ctrlQ \in Seq(S)
  BY DEF CtrlIsQueue
<1>0. Cardinality(DdcPending) \in Nat
  <2>1. IsFiniteSet(1 .. Len(ctrlQ)) /\ DdcPending \subseteq 1 .. Len(ctrlQ)
    BY FS_Interval DEF DdcPending
  <2> QED
    BY <2>1, FS_Subset, FS_CardinalityType
<1>1. CASE UNCHANGED ctrlQ
  <2>1. DdcPending' = DdcPending
    BY <1>1 DEF DdcPending
  <2> QED
    BY <1>0, <1>1, <2>1 DEF CtrlIsQueue
<1>2. CASE WorkerCompute
  <2> DEFINE m == CtrlMessage
  <2>1. ctrlQ' = Enqueue(ctrlQ, m, CtrlCap)
    BY <1>2 DEF WorkerCompute
  <2>2. ctrlQ' \in Seq(S \union {m})
    <3> HIDE DEF m
    <3>1. ctrlQ \in Seq(S \union {m})
      OBVIOUS
    <3>2. Append(ctrlQ, m) \in Seq(S \union {m})
      BY <3>1
    <3> QED
      BY <2>1, <3>1, <3>2 DEF Enqueue
  <2>3. ASSUME exec = "SUPERVISORY" PROVE DdcPending' = DdcPending
    <3>1. ~m.ddc
      BY <2>3 DEF CtrlMessage
    <3> HIDE DEF m
    <3> QED
      BY <2>1, <3>1, NoDdcAdded
  <2> HIDE DEF m
  <2> QED
    BY <1>0, <2>2, <2>3 DEF CtrlIsQueue
<1>3. CASE IoWrite
  <2>1. ctrlQ # <<>> /\ ctrlQ' = Tail(ctrlQ)
    BY <1>3 DEF IoWrite
  <2>2. ctrlQ' \in Seq(S)
    BY <2>1
  <2>3. Cardinality(DdcPending') <= Cardinality(DdcPending)
    BY <2>1, DdcTaken
  <2> QED
    BY <2>2, <2>3 DEF CtrlIsQueue
<1>4. LoopNext => WorkerCompute \/ IoWrite \/ UNCHANGED ctrlQ
  <2>1. WorkerStep => WorkerCompute \/ UNCHANGED ctrlQ
    BY DEF WorkerStep, WorkerReconnect, WorkerReconnectDrained, WorkerTelemetry, WorkerTelemetryDrained, WorkerModes, queueVars
  <2>2. IoStep => IoWrite \/ UNCHANGED ctrlQ
    BY DEF IoStep, IoTick, IoReconnect, IoPublish, IoTickEnd, queueVars
  <2>3. Plant \/ LoopOperator \/ LoopSetpoint => UNCHANGED ctrlQ
    BY DEF Plant, LinkDown, LinkUp, DcsMoves, LinkSilence, LoopOperator, LoopSetpoint, queueVars
  <2> QED
    BY <2>1, <2>2, <2>3 DEF LoopNext
<1> QED
  BY <1>1, <1>2, <1>3, <1>4 DEF loopVars, queueVars

\* In SUPERVISORY the backlog of direct writes only shrinks, for any
\* constants: no switch, reconnection or telemetry puts one back
\* (pid_worker.py _loop, io_worker.py).
THEOREM BacklogOnlyShrinks == LoopSpec => SupervisoryBacklogShrinks
<1>1. LoopInit => CtrlIsQueue
  <2>1. <<>> \in Seq({})
    OBVIOUS
  <2> QED
    BY <2>1 DEF LoopInit, CtrlIsQueue
<1>2. CtrlIsQueue /\ [LoopNext]_loopVars => CtrlIsQueue'
  BY BacklogStep
<1>3. ASSUME CtrlIsQueue, [LoopNext]_loopVars
      PROVE  [exec = "SUPERVISORY" /\ exec' = "SUPERVISORY"
                => Cardinality(DdcPending') <= Cardinality(DdcPending)]_loopVars
  BY <1>3, BacklogStep
<1> QED
  BY <1>1, <1>2, <1>3, PTL DEF LoopSpec, SupervisoryBacklogShrinks
=============================================================================
