SPECIFICATION Spec
CONSTANTS
  w1 = w1
  w2 = w2
  d1 = d1
  d2 = d2
  r1 = r1
  i1 = i1
  i2 = i2
  NULL = NULL
  Rule = {r1}
  Worker = {w1, w2}
  Dest = {d1}
  ProviderOf <- OneProvider
  Issue = {i1, i2}
  Tasks <- OneTask
  Limit = 2
  Faults = TRUE
  MaxTime = 2
  MaxAttempts = 2
INVARIANTS TypeOK ExclusiveClaim
PROPERTIES ImplementsLifecycle
SYMMETRY Symmetry
