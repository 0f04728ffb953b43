SPECIFICATION FirstSpec
CONSTANTS
  r1 = r1
  r2 = r2
  f1 = f1
  f2 = f2
  Req = {r1, r2}
  Fingerprint = {f1, f2}
  Dest = {d1}
  Operator = {c1}
  Purger = {w1}
  EventAge = 1
  DeliveryAge = 1
  Batch = 1
  Rank <- RankOfReq
  MaxFaults = 1
  MaxTime = 2
  NULL = NULL
INVARIANTS IssuesNamed YoungEventsShown FailuresExplained
PROPERTIES StuckOnImport DueIssuesPurged
