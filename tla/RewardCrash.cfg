CONSTANTS
  OutPoints = {1, 2}
  RawValue <- MCValues
  Script <- MCScripts
  NullHash = NullHash
  COIN = 100
  SPOCK_SATS = 10
  nBlocksPerYear = 72
  nPerCentPerYear <- MCPerCent
  nMinRewardBlocks = 1
  nMinReward = 50
  vecMinRewardBalances <- MCOneTier
  clearLowRewardsSuperBlock = 6
  maxreorgdepth = 1
  UINT_MOD = 2
  MaxHeight = 3
  MaxTouched = 1
  TxIdsInOrder = TRUE
  MaxWrites = 2
  MaxStarts = 2
  MaxForkDepth = 1
  nCheckDepth = 2
  Faults = {"crash"}

SPECIFICATION Spec

INVARIANTS
  RewardDBAtItsBest
  ClocksAsReplayed
  PayoutsSpaced
  ShutdownAtTip
