CONSTANTS
  OutPoints = {1, 2}
  RawValue <- MCValues
  Script <- MCScripts
  NullHash = NullHash
  COIN = 100
  SPOCK_SATS = 10
  nBlocksPerYear = 72
  nPerCentPerYear <- MCPerCent
  nMinRewardBlocks = 1
  nMinReward = 50
  vecMinRewardBalances <- MCOneTier
  clearLowRewardsSuperBlock = 6
  maxreorgdepth = 2
  UINT_MOD = 2
  MaxHeight = 5
  MaxTouched = 1
  TxIdsInOrder = TRUE
  MaxWrites = 0
  MaxStarts = 1
  MaxForkDepth = 2
  nCheckDepth = 2
  Faults = {}

SPECIFICATION Spec

INVARIANTS
  TypeOK
  ProjectionOfChainstate
  
  
  
  MinerAgrees
