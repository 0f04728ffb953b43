SPECIFICATION Spec
CONSTANTS
  r1 = r1
  r2 = r2
  r3 = r3
  p1 = p1
  p2 = p2
  e1 = e1
  e2 = e2
  e3 = e3
  f1 = f1
  f2 = f2
  h1 = h1
  h2 = h2
  d1 = d1
  NULL = NULL
  EventID = {e1, e2, e3}
  Fingerprint = {f1, f2}
  Hour = {h1, h2}
  DayOf <- SameDay
  Dest = {d1}
  Req = {r1, r2, r3}
  Project = {p1}
  Input <- RaceInput
  OrgLimit = NULL
  ProjectLimit = NULL
  MaxConns = 3
  Faults = TRUE
INVARIANTS TypeOK OneIssuePerFingerprint EveryEventCounted ShortIdsUnique NoWaitCycle
PROPERTIES ImplementsContract
SYMMETRY Symmetry
