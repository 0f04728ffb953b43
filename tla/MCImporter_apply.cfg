SPECIFICATION FairSpec
CONSTANTS
  Run = {r1, r2}
  r1 = r1
  r2 = r2
  NULL = NULL
  NoLimit = NoLimit
  Command <- MCCommand
  EventID <- MCEventID
  Live <- MCLive
  Limit <- MCLimit
  Faults = TRUE
INVARIANTS LedgerTrue RunAccounts
PROPERTY EveryCommandEnds
CHECK_DEADLOCK FALSE
