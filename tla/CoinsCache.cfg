SPECIFICATION FairSpec
CONSTANTS
  o1 = o1
  o2 = o2
  Outpoints <- MCOutpoints
  Coinbases <- MCCoinbases
  MaxBlocks = 2
  MaxStops = 2
  MaxErrors = 1
INVARIANTS
  LookupsExact
  DatabaseAtBest
  FreshIsAbsent
  
  HeadsDescribeMixture
PROPERTIES
  ImplementsUtxoStore
  Recovers
CHECK_DEADLOCK FALSE
