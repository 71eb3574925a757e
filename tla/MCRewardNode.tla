---------------------------- MODULE MCRewardNode -----------------------------
(***************************************************************************)
(* Values for RewardNode's constants, for TLC.  With nBlocksPerYear = 72   *)
(* and a rate of 100% an output of 7200 earns 100 per block and one of     *)
(* 10800 earns 150, so that an older small candidate and a newer large one *)
(* can be owed the same reward.                                            *)
(***************************************************************************)
EXTENDS RewardNode

\* Both outputs are large enough at every height, and whole spocks.
MCValues == [op \in OutPoints |-> IF op = 1 THEN 7200 ELSE 10800]

\* The second output is not a whole number of spocks.
MCUnaligned == [op \in OutPoints |-> IF op = 1 THEN 7200 ELSE 10795]

\* The first output falls below the minimum when the tier changes.
MCLowValues == [op \in OutPoints |-> IF op = 1 THEN 2400 ELSE 6000]

MCScripts == [op \in OutPoints |-> "holder"]

MCPerCent == <<100>>

MCOneTier == <<[height |-> 100, balance |-> 1000]>>

MCTwoTiers == <<[height |-> 1, balance |-> 1000], [height |-> 2, balance |-> 5000]>>

=============================================================================
