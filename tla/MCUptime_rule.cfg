SPECIFICATION Spec
CONSTANTS
  w1 = w1
  w2 = w2
  b1 = b1
  m1 = m1
  m2 = m2
  Worker = {w1}
  Beat = {b1}
  Http = {m1}
  Heartbeat = {m2}
  Interval <- Intervals
  Grace <- OneMinute
  Lease = 2
  Limit = 1
  MaxFaults = 0
  MaxTime = 3
  NULL = NULL
INVARIANTS HeartbeatRule
