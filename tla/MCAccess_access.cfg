SPECIFICATION Spec
CONSTANTS
  r1 = r1
  r2 = r2
  k1 = k1
  k2 = k2
  u1 = u1
  u2 = u2
  NULL = NULL
  Req = {r1, r2}
  KeyID = {k1, k2}
  Subject = {u1, u2}
  Body <- MCBody
  Trim <- MCTrim
  Fold <- MCFold
  Accounts <- MCAccounts
  Installed <- MCInstalled
  Roles <- MCRoles
  MaxRequests = 3
  MaxRows = 2
  MaxChanges = 1
  Faults = TRUE
SYMMETRY Symmetry
INVARIANTS
  SetupTrue
  StatesUsedOnce
  AuditTrue
PROPERTIES
  IdentityKept
CHECK_DEADLOCK FALSE
