SPECIFICATION ProvidersSpec
CONSTANTS
  w1 = w1
  w2 = w2
  d1 = d1
  d2 = d2
  r1 = r1
  i1 = i1
  i2 = i2
  NULL = NULL
  Rule = {r1}
  Worker = {w1, w2}
  Dest <- AllDest
  ProviderOf <- AllProviders
  Issue = {i1}
  Tasks <- newWorker
  Limit = 1
  Faults = TRUE
  MaxTime = 5
  MaxAttempts = 3
INVARIANTS AttemptsCoverSends
PROPERTIES RetrySpacing
