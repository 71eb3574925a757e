CONSTANTS
  OutPoints = {2}
  RawValue <- MCUnaligned
  Script <- MCScripts
  NullHash = NullHash
  COIN = 100
  SPOCK_SATS = 10
  nBlocksPerYear = 72
  nPerCentPerYear <- MCPerCent
  nMinRewardBlocks = 0
  nMinReward = 50
  vecMinRewardBalances <- MCOneTier
  clearLowRewardsSuperBlock = 6
  maxreorgdepth = 1
  UINT_MOD = 2
  MaxHeight = 2
  MaxTouched = 1
  TxIdsInOrder = FALSE
  MaxWrites = 1
  MaxStarts = 2
  MaxForkDepth = 1
  nCheckDepth = 1
  Faults = {"crash", "powerloss", "diskfull", "interrupt", "unreadable", "delay", "invalidate"}

SPECIFICATION Spec

INVARIANTS
  StagedCoversDiff
  RebuildIsExact
