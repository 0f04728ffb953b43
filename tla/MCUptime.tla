------------------------------ MODULE MCUptime ------------------------------
(* Instances of Uptime for TLC.                                            *)
EXTENDS Uptime

CONSTANTS w1, w2, b1, m1, m2

(* The HTTP monitor m1 has a longer interval than the heartbeat m2.        *)
Intervals == [m \in Monitor |-> IF m = m1 THEN 2 ELSE 1]
OneMinute == [m \in Monitor |-> 1]

(* One monitor, of either type.                                            *)
Fresh == \A m \in Monitor : state[m] = "absent"

OneMonitorSpec ==
  /\ Init
  /\ [][Next /\ (Fresh \/ Cardinality({m \in Monitor : state'[m] # "absent"}) = 1)]_vars
  /\ Fairness
=============================================================================
