---------------------------- MODULE MCPidWorker ----------------------------
(***************************************************************************)
(* Small instances of PidWorker for TLC.                                   *)
(***************************************************************************)
EXTENDS PidWorker

MCSignals == {0, 2}
MCPvValues == {1}
MCOutHis == {1, 2}
MCOutHisLive == {2}
MCBkValues == {1}
MCPermitted == {"MAN", "AUTO", "CAS", "ROUT", "BYPASS"}
MCPermittedLive == {"MAN", "AUTO", "CAS"}

\* The worker of a DDC loop whose link stays up and whose configuration is
\* left alone: only scans, frames and the operator's commands.
DdcNext == \/ Scan
           \/ Telemetry
           \/ \E k \in Modes : SetMode(k)
           \/ \E v \in Signals : SetSp(v) \/ SetOutput(v)

DdcSpec == WorkerInit /\ exec = "DDC" /\ [][DdcNext]_workerVars

=============================================================================
