CONSTANTS
  g1 = g1
  g2 = g2
  g3 = g3
  b1 = b1
  w1 = w1
  w2 = w2
  m1 = m1
  Masters <- MCMasters
  Workers <- MCWorkers
  Checks <- MCChecks
  Bad <- MCBad
  nBatchSize = 2

SPECIFICATION FairSpec

INVARIANTS
  VerdictExact
  CalledOnce
  NothingLeftOver

PROPERTIES
  ImplementsParallelCheck
  StopEnds
