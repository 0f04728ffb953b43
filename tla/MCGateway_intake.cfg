SPECIFICATION MCSpec
CONSTANTS
  r1 = r1
  r2 = r2
  k1 = k1
  k2 = k2
  k3 = k3
  p1 = p1
  p2 = p2
  e1 = e1
  e2 = e2
  NULL = NULL
  NoTime = NoTime
  BadTime = BadTime
  MaxItems = 3
  MaxLogs = 2
  MaxBytes = 2
  Req = {r1, r2}
  Key = {k1, k2, k3}
  Project = {p1, p2}
  KeyProject <- ByKey
  Scrub = {p1}
  EventID = {e1, e2}
  Policy <- Limits
  Body <- MCBody
  MaxTime = 4
  QuotaOn = TRUE
  Faults = TRUE
INVARIANTS AnswersTrue FileOfItsEvent FileLossExplained RateLimitHeld EnvelopeRead AddressesScrubbed
SYMMETRY Symmetry
CHECK_DEADLOCK FALSE
