----------------------------- MODULE AlarmPoint -----------------------------
(* What the four-state alarm machine promises of one (controller, type)       *)
(* point, whoever keeps its state: lib/alarmMachine.ts. AlarmCenter shows     *)
(* that the alarm log's newest row implements it.                             *)
VARIABLE state

PointStates == {"NORMAL", "UNACKNOWLEDGED", "ACKNOWLEDGED", "CLEARED_UNACK"}
AlarmEvents == {"TRIGGERED", "CLEARED", "ACK"}

(* A TRIGGERED always demands a new acknowledgement.                          *)
Transition(s, event) ==
    CASE event = "TRIGGERED" -> "UNACKNOWLEDGED"
      [] event = "CLEARED" -> CASE s = "UNACKNOWLEDGED" -> "CLEARED_UNACK"
                                [] s = "ACKNOWLEDGED"   -> "NORMAL"
                                [] OTHER                -> s
      [] event = "ACK"     -> CASE s = "UNACKNOWLEDGED" -> "ACKNOWLEDGED"
                                [] s = "CLEARED_UNACK"  -> "NORMAL"
                                [] OTHER                -> s

PointInit == state = "NORMAL"
PointNext == state' \in {Transition(state, event) : event \in AlarmEvents}
PointSpec == PointInit /\ [][PointNext]_state
=============================================================================
