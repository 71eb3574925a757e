CONSTANTS
  OutPoints = {1, 2}
  RawValue <- MCLowValues
  Script <- MCScripts
  NullHash = NullHash
  COIN = 100
  SPOCK_SATS = 10
  nBlocksPerYear = 24
  nPerCentPerYear <- MCPerCent
  nMinRewardBlocks = 0
  nMinReward = 50
  vecMinRewardBalances <- MCTwoTiers
  clearLowRewardsSuperBlock = 1
  maxreorgdepth = 2
  UINT_MOD = 2
  MaxHeight = 5
  MaxTouched = 2
  TxIdsInOrder = TRUE
  MaxWrites = 0
  MaxStarts = 1
  MaxForkDepth = 2
  nCheckDepth = 2
  Faults = {}

SPECIFICATION Spec

INVARIANTS
  LowCandidatesGone
  MinerAgrees
  
