--------------------------- MODULE MCLoopControl ---------------------------
(***************************************************************************)
(* Small instances of LoopControl for TLC.                                 *)
(***************************************************************************)
EXTENDS LoopControl

MCSignals == {0, 1}
MCPvValues == {0}
MCOutHis == {1}
MCBkValues == {0}
MCPermitted == {"MAN", "AUTO"}

\* The operator leaves the setpoint where the first frame put it: FieldSp
\* differs from the PV, so AUTO still moves the output.
FixedSpNext == WorkerStep \/ IoStep \/ Plant \/ LoopOperator

\* Shedding configured on: a loop that goes silent falls back to ShedOpt.
ShedInit == LoopInit /\ shedOn
ShedSpec == ShedInit /\ [][FixedSpNext]_loopVars

\* Shedding off, both threads scheduled fairly.
NoShedInit == LoopInit /\ ~shedOn
ManualFairSpec == NoShedInit /\ [][FixedSpNext]_loopVars /\ LoopFairness

=============================================================================
