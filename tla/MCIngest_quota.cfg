SPECIFICATION FairSpec
CONSTANTS
  r1 = r1
  r2 = r2
  r3 = r3
  p1 = p1
  p2 = p2
  e1 = e1
  e2 = e2
  e3 = e3
  f1 = f1
  f2 = f2
  h1 = h1
  h2 = h2
  d1 = d1
  NULL = NULL
  EventID = {e1, e2, e3}
  Fingerprint = {f1, f2}
  Hour = {h1, h2}
  DayOf <- SameDay
  Dest = {d1}
  Req = {r1, r2, r3}
  Project = {p1, p2}
  Input <- QuotaInput
  OrgLimit = 3
  ProjectLimit = 2
  MaxConns = 2
  Faults = TRUE
INVARIANTS HourlyStatsExact QuotaOverrunBounded

PROPERTIES EveryRequestAnswered
