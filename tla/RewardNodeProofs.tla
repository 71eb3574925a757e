--------------------------- MODULE RewardNodeProofs ---------------------------
(***************************************************************************)
(* The node's type invariant, the coverage of the staging sets and the     *)
(* spacing of payouts, for every value of the constants and every set of   *)
(* faults.  ColdRewardsProofs has the engine's part of the argument.       *)
(***************************************************************************)
EXTENDS ColdRewardsProofs

(***************************************************************************)
(* Chains, coins and blocks.                                               *)
(***************************************************************************)

\* A sequence of blocks is a chain, whatever set its elements are taken from.
LEMMA BlocksAreChain ==
  ASSUME NEW c, NEW n \in Nat, DOMAIN c = 1..n, c = [i \in DOMAIN c |-> c[i]],
         \A i \in DOMAIN c : IsBlock(c[i])
  PROVE  IsChain(c) /\ Len(c) = n
<1> DEFINE S == {c[i] : i \in DOMAIN c}
<1>1. c \in [1..n -> S]
  OBVIOUS
<1> HIDE DEF S
<1>2. c \in Seq(S)
  BY <1>1, SeqDef
<1>3. Len(c) \in Nat /\ DOMAIN c = 1..Len(c)
  BY <1>2, LenProperties
<1>4. Len(c) = n
  BY <1>3
<1> QED
  BY <1>2, <1>4 DEF IsChain, S

\* The heights of a chain are 1 to Len.
LEMMA ChainShape ==
  ASSUME NEW c, IsChain(c)
  PROVE  /\ Len(c) \in Nat /\ DOMAIN c = 1..Len(c)
         /\ c = [i \in DOMAIN c |-> c[i]]
         /\ \A i \in 1..Len(c) : IsBlock(c[i])
<1> DEFINE S == {c[i] : i \in DOMAIN c}
<1>1. c \in Seq(S) /\ \A i \in DOMAIN c : IsBlock(c[i])
  BY DEF IsChain
<1> HIDE DEF S
<1>2. Len(c) \in Nat /\ c \in [1..Len(c) -> S] /\ DOMAIN c = 1..Len(c)
  BY <1>1, LenProperties
<1> QED
  BY <1>1, <1>2

\* ConnectTip extends a chain to a chain.
LEMMA AppendIsChain ==
  ASSUME NEW c, IsChain(c), NEW b, IsBlock(b)
  PROVE  IsChain(Append(c, b))
<1> DEFINE S == {c[i] : i \in DOMAIN c} \cup {b}
           d == Append(c, b)
           n == Len(c) + 1
<1>1. c \in Seq(S)
  <2>1. c \in Seq({c[i] : i \in DOMAIN c})
    BY DEF IsChain
  <2> QED  BY <2>1, SeqMonotonic
<1>2. b \in S
  OBVIOUS
<1> HIDE DEF S
<1>3. /\ d \in Seq(S) /\ Len(d) = n /\ d[n] = b
      /\ \A i \in 1..Len(c) : d[i] = c[i]
  BY <1>1, <1>2, AppendProperties
<1> HIDE DEF d
<1>4. n \in Nat /\ DOMAIN d = 1..n /\ d = [i \in DOMAIN d |-> d[i]]
  BY <1>3, LenProperties
<1>5. \A i \in DOMAIN d : IsBlock(d[i])
  BY <1>3, <1>4, ChainShape
<1> QED
  BY <1>4, <1>5, BlocksAreChain DEF d

\* A prefix of a chain is a chain.
LEMMA PrefixIsChain ==
  ASSUME NEW c, IsChain(c), NEW n \in Nat, n <= Len(c)
  PROVE  IsChain(Prefix(c, n)) /\ Len(Prefix(c, n)) = n
<1> DEFINE d == Prefix(c, n)
<1>1. DOMAIN d = 1..n /\ d = [i \in DOMAIN d |-> d[i]]
  BY DEF Prefix
<1>2. \A i \in DOMAIN d : IsBlock(d[i])
  BY ChainShape DEF Prefix
<1> HIDE DEF d
<1>3. IsChain(d) /\ Len(d) = n
  BY <1>1, <1>2, BlocksAreChain
<1> QED
  BY <1>3 DEF d

\* ConnectBlock's and ApplyBlockUndo's updates of the UTXO set.
LEMMA CoinMaps ==
  /\ \A outs \in SUBSET OutPoints, h \in Nat : IsMap(NewCoins(outs, h), CoinType)
  /\ \A f, g : IsMap(f, CoinType) /\ IsMap(g, CoinType) => IsMap(Join(f, g), CoinType)
  /\ \A f, ops : IsMap(f, CoinType) => IsMap(Without(f, ops), CoinType)
<1>1. \A outs \in SUBSET OutPoints, h \in Nat : IsMap(NewCoins(outs, h), CoinType)
  BY ValueIsNat DEF IsMap, NewCoins, CoinType
<1>2. \A f, g : IsMap(f, CoinType) /\ IsMap(g, CoinType) => IsMap(Join(f, g), CoinType)
  BY DEF IsMap, Join
<1>3. \A f, ops : IsMap(f, CoinType) => IsMap(Without(f, ops), CoinType)
  BY DEF IsMap, Without
<1> QED
  BY <1>1, <1>2, <1>3

\* Every block that the UTXO set admits has the type of a block.
LEMMA NextBlocksAreBlocks ==
  ASSUME TypeOK, NEW b \in NextBlocks
  PROVE  IsBlock(b)
<1>1. PICK t \in (SUBSET OutPoints) \X (SUBSET OutPoints) \X Payouts :
        /\ t[2] \subseteq DOMAIN coins \cup t[1]
        /\ b = MakeBlock(t[1], t[2], t[3])
  BY DEF NextBlocks
<1>2. Height + 1 \in Nat
  BY ChainShape DEF TypeOK, Height
<1>3. t[3] \in SUBSET PayType
  <2>1. \A op \in Mature(eng, Height + 1) : GetPayment(eng, op, Height + 1) \in PayType
    <3> TAKE op \in Mature(eng, Height + 1)
    <3>1. op \in DOMAIN eng.map /\ op \in OutPoints
      BY EngineFields DEF Mature, TypeOK
    <3>2. Reward(eng, op, Height + 1) \in Nat
      BY <1>2, <3>1, RewardIsNat DEF TypeOK
    <3> QED  BY <3>1, <3>2 DEF GetPayment, PayType
  <2> QED  BY <1>1, <2>1 DEF Payouts
<1> DEFINE new == Join(NewCoins(t[1], Height + 1), coins)
<1>4. IsMap(new, CoinType) /\ t[2] \subseteq DOMAIN new
  <2>1. IsMap(new, CoinType)
    BY <1>1, <1>2, CoinMaps DEF TypeOK
  <2>2. DOMAIN new = t[1] \cup DOMAIN coins
    BY DEF Join, NewCoins
  <2> QED  BY <1>1, <2>1, <2>2
<1> HIDE DEF new
<1>5. b = [outs |-> t[1], ins |-> t[2], pay |-> t[3], undo |-> [op \in t[2] |-> new[op]]]
  BY <1>1 DEF MakeBlock, new
<1>6. IsMap(b.undo, CoinType)
  BY <1>1, <1>4, <1>5 DEF IsMap
<1>7. b.outs \in SUBSET OutPoints /\ b.ins \in SUBSET OutPoints /\ b.pay \in SUBSET PayType
  BY <1>1, <1>3, <1>5
<1> QED
  BY <1>5, <1>6, <1>7 DEF IsBlock

(***************************************************************************)
(* The inductive invariant.  A replay reads chain[next], so next has to be *)
(* a height; and what the three properties say of a live engine follows    *)
(* from its soundness next to the database, which a dead process has lost. *)
(***************************************************************************)

NodeTypes ==
  /\ phase \in Phases
  /\ IsChain(chain) /\ IsMap(coins, CoinType)
  /\ finalized \in Nat /\ next \in Nat /\ peak \in Nat
  /\ IsCoinsDB(coinsDB) /\ IsCoinsDB(coinsSync)
  /\ count \in [writes : Nat, starts : Nat]
  /\ Replaying => next >= 1

EngineSound == IF phase = "down" THEN eng = CColdRewards ELSE Sound(eng, rewardDB)

Ind == NodeTypes /\ EngineSound /\ SoundDB(rewardDB) /\ SoundDB(rewardSync)

\* A newly constructed engine and an empty database.
LEMMA EmptyState ==
  /\ IsEngine(CColdRewards) /\ CColdRewards.map = << >>
  /\ SoundDB(CRewardsViewDB)
  /\ IsCoinsDB([best |-> NullHash, coins |-> << >>])
  /\ IsChain(<< >>) /\ IsMap(<< >>, CoinType)
<1>1. IsMap(<< >>, CoinType) /\ IsMap(<< >>, RecordType)
  BY DEF IsMap
<1>2. IsHash(NullHash)
  BY DEF IsHash
<1>3. IsEngine(CColdRewards) /\ CColdRewards.map = << >>
  BY <1>1, <1>2 DEF CColdRewards, IsEngine
<1>4. SoundDB(CRewardsViewDB)
  BY <1>1, <1>2 DEF CRewardsViewDB, SoundDB, IsRewardDB
<1>5. IsCoinsDB([best |-> NullHash, coins |-> << >>])
  BY <1>1, <1>2 DEF IsCoinsDB
<1>6. IsChain(<< >>)
  BY EmptySeq DEF IsChain
<1> QED
  BY <1>1, <1>3, <1>4, <1>5, <1>6

\* The invariant gives the three properties.
LEMMA IndImplies == Ind => TypeOK /\ StagedCoversDiff /\ PayoutsSpaced
<1> SUFFICES ASSUME Ind  PROVE TypeOK /\ StagedCoversDiff /\ PayoutsSpaced
  OBVIOUS
<1>1. IsEngine(eng) /\ \A op \in DOMAIN eng.map : SpacedClock(eng.map[op])
  <2>1. CASE phase = "down"
    BY <2>1, EmptyState DEF Ind, EngineSound
  <2>2. CASE phase # "down"
    BY <2>2 DEF Ind, EngineSound, Sound
  <2> QED  BY <2>1, <2>2
<1>2. TypeOK
  BY <1>1 DEF Ind, NodeTypes, SoundDB, TypeOK
<1>3. StagedCoversDiff
  BY DEF Ind, EngineSound, Sound, StagedCoversDiff
<1>4. PayoutsSpaced
  BY <1>1 DEF Ind, SoundDB, PayoutsSpaced
<1> QED
  BY <1>2, <1>3, <1>4

\* The initial states satisfy the invariant.
LEMMA IndInit == Init => Ind
<1> SUFFICES ASSUME Init  PROVE Ind
  OBVIOUS
<1>1. NodeTypes
  BY EmptyState DEF Init, NodeTypes, Phases, Replaying
<1>2. EngineSound /\ SoundDB(rewardDB) /\ SoundDB(rewardSync)
  BY EmptyState DEF Init, EngineSound
<1> QED
  BY <1>1, <1>2 DEF Ind

\* ConnectTip, RejectBlock and CreateNewBlock.
LEMMA IndConnect ==
  ASSUME Ind, ConnectTip \/ RejectBlock \/ CreateNewBlock
  PROVE  Ind'
<1>1. TypeOK /\ Height \in Nat /\ Height + 1 \in Nat
  BY IndImplies, ChainShape DEF TypeOK, Height
<1>2. CASE ConnectTip
  <2>1. PICK b \in NextBlocks :
          /\ ColdRewardValid(eng, b, Height + 1)
          /\ chain' = Append(chain, b)
          /\ coins' = Without(Join(coins, NewCoins(b.outs, Height + 1)), b.ins)
          /\ eng' = ApplyHooks(eng, b, Height + 1, chain')
          /\ finalized' \in FinalizedAfter(Height + 1)
          /\ peak' = IF Height + 1 > peak THEN Height + 1 ELSE peak
    BY <1>2 DEF ConnectTip
  <2>2. IsBlock(b)
    BY <1>1, NextBlocksAreBlocks
  <2>3. IsChain(chain') /\ IsHash(chain')
    BY <1>1, <2>1, <2>2, AppendIsChain DEF TypeOK, IsHash
  <2>4. IsMap(coins', CoinType)
    <3>1. IsMap(NewCoins(b.outs, Height + 1), CoinType)
      BY <1>1, <2>2, CoinMaps DEF IsBlock
    <3> QED  BY <1>1, <2>1, <3>1, CoinMaps DEF TypeOK
  <2>5. finalized' \in Nat
    <3>1. finalized \in Nat /\ Height + 1 - maxreorgdepth \in Int
      BY <1>1, ParamsAssumption DEF TypeOK
    <3> QED  BY <2>1, <3>1 DEF FinalizedAfter
  <2>6. peak' \in Nat
    BY <1>1, <2>1 DEF TypeOK
  <2>7. Sound(eng, rewardDB) /\ phase = "running"
    BY <1>2 DEF ConnectTip, Ind, EngineSound
  <2>8. Sound(eng', rewardDB)
    BY <1>1, <2>1, <2>2, <2>3, <2>7, ApplyHooksSound
  <2>9. UNCHANGED <<phase, next, coinsDB, rewardDB, coinsSync, rewardSync, count>>
    BY <1>2 DEF ConnectTip, disk
  <2>10. NodeTypes'
    BY <2>3, <2>4, <2>5, <2>6, <2>7, <2>9 DEF Ind, NodeTypes, Replaying
  <2>11. EngineSound' /\ SoundDB(rewardDB)' /\ SoundDB(rewardSync)'
    BY <2>7, <2>8, <2>9 DEF Ind, EngineSound
  <2> QED  BY <2>10, <2>11 DEF Ind
<1>3. CASE RejectBlock \/ CreateNewBlock
  <2>1. Sound(eng, rewardDB) /\ phase = "running"
    BY <1>3 DEF RejectBlock, CreateNewBlock, Ind, EngineSound
  <2>2. UNCHANGED <<phase, chain, coins, finalized, next, coinsDB, rewardDB, coinsSync,
                    rewardSync, peak, count>>
    BY <1>3 DEF RejectBlock, CreateNewBlock, disk, hist
  <2>3. Sound(eng', rewardDB)
    <3>1. CASE RejectBlock
      <4>1. PICK b \in NextBlocks : eng' = Validated(eng, b, Height + 1)
        BY <3>1 DEF RejectBlock
      <4>2. IsBlock(b) /\ IsHash(NullHash)
        BY <1>1, NextBlocksAreBlocks DEF IsHash
      <4> QED  BY <1>1, <2>1, <4>1, <4>2, ApplyHooksSound
    <3>2. CASE CreateNewBlock
      BY <1>1, <2>1, <3>2, FindRewardSound DEF CreateNewBlock
    <3> QED  BY <1>3, <3>1, <3>2
  <2>4. NodeTypes'
    BY <2>2 DEF Ind, NodeTypes, Replaying
  <2>5. EngineSound' /\ SoundDB(rewardDB)' /\ SoundDB(rewardSync)'
    BY <2>1, <2>2, <2>3 DEF Ind, EngineSound
  <2> QED  BY <2>4, <2>5 DEF Ind
<1> QED
  BY <1>2, <1>3

\* The parts of DisconnectTip and UnwindBlock, for a block above genesis.
LEMMA DisconnectParts ==
  ASSUME Ind, phase # "down", Height > 0
  PROVE  /\ Sound(UndoEngine(chain[Height]), rewardDB)
         /\ Rewind(chain[Height]) =>
              /\ IsChain(chain') /\ IsMap(coins', CoinType) /\ finalized' \in Nat
              /\ Sound(eng', rewardDB)
<1> DEFINE b == chain[Height]
           u == UndoBlock(eng, b, Height)
           hash == Prefix(chain, Height - 1)
<1>1. Height \in Nat /\ IsBlock(b) /\ IsChain(hash) /\ IsHash(hash)
  <2>1. IsChain(chain) /\ Len(chain) \in Nat /\ Len(chain) > 0
    BY ChainShape DEF Ind, NodeTypes, Height
  <2>2. IsBlock(b)
    BY <2>1, ChainShape DEF Height
  <2>3. Height - 1 \in Nat /\ Height - 1 <= Len(chain)
    BY <2>1 DEF Height
  <2> QED  BY <2>1, <2>2, <2>3, PrefixIsChain DEF Height, IsHash
<1>2. Sound(eng, rewardDB)
  BY DEF Ind, EngineSound
<1> HIDE DEF b
<1>3. Sound(u, rewardDB)
  BY <1>1, <1>2, UndoBlockSound
<1>4. Sound([u EXCEPT !.best = hash], rewardDB)
  <2> HIDE DEF u, hash
  <2>1. {} \in SUBSET (Nat \X OutPoints) /\ NullOutPoint \in OutPoints \cup {NullOutPoint}
    OBVIOUS
  <2> QED  BY <1>1, <1>3, <2>1, FieldsSound
<1>5. Sound(UndoEngine(b), rewardDB)
  BY <1>4 DEF UndoEngine, SetBestBlock
<1>6. ASSUME Rewind(b)
      PROVE  /\ IsChain(chain') /\ IsMap(coins', CoinType) /\ finalized' \in Nat
             /\ Sound(eng', rewardDB)
  <2>1. IsChain(chain') /\ Sound(eng', rewardDB)
    BY <1>1, <1>5, <1>6 DEF Rewind
  <2>2. IsMap(coins', CoinType)
    BY <1>1, <1>6, CoinMaps DEF Rewind, IsBlock, Ind, NodeTypes
  <2>3. finalized' \in Nat
    BY <1>1, <1>6 DEF Rewind, Ind, NodeTypes
  <2> QED  BY <2>1, <2>2, <2>3
<1> QED
  BY <1>5, <1>6 DEF b

\* DisconnectTip, its failure and InvalidateBlock.
LEMMA IndDisconnect ==
  ASSUME Ind, DisconnectTip \/ DisconnectTipFails \/ InvalidateBlock
  PROVE  Ind'
<1>1. Height \in Nat /\ finalized \in Nat
  BY ChainShape DEF Ind, NodeTypes, Height
<1>2. phase = "running" /\ Height > 0
  BY <1>1 DEF DisconnectTip, DisconnectTipFails, InvalidateBlock
<1>3. UNCHANGED <<next, coinsDB, rewardDB, coinsSync, rewardSync, peak, count>>
  BY DEF DisconnectTip, DisconnectTipFails, InvalidateBlock, disk, hist
<1>4. phase' \in {"running", "stopping"}
  BY <1>2 DEF DisconnectTip, DisconnectTipFails, InvalidateBlock
<1>5. /\ IsChain(chain') /\ IsMap(coins', CoinType) /\ finalized' \in Nat
      /\ Sound(eng', rewardDB)
  <2>1. CASE Rewind(chain[Height])
    BY <1>2, <2>1, DisconnectParts
  <2>2. CASE eng' = UndoEngine(chain[Height]) /\ UNCHANGED <<chain, coins, finalized>>
    BY <1>2, <2>2, DisconnectParts DEF Ind, NodeTypes
  <2> QED
    BY <2>1, <2>2 DEF DisconnectTip, DisconnectTipFails, InvalidateBlock
<1>6. NodeTypes'
  BY <1>3, <1>4, <1>5 DEF Ind, NodeTypes, Replaying, Phases
<1>7. EngineSound' /\ SoundDB(rewardDB)' /\ SoundDB(rewardSync)'
  BY <1>3, <1>4, <1>5 DEF Ind, EngineSound
<1> QED
  BY <1>6, <1>7 DEF Ind

\* Writing the rewards with the chain's tip as their tag.
LEMMA WriteRewardsParts ==
  ASSUME Ind, phase # "down", WriteRewards(chain)
  PROVE  SoundDB(rewardDB') /\ Sound(eng', rewardDB')
<1>1. Sound(eng, rewardDB) /\ SoundDB(rewardDB) /\ IsHash(chain)
  BY DEF Ind, EngineSound, NodeTypes, IsHash
<1> QED
  BY <1>1, FlushSound DEF WriteRewards

\* The steps that write the rewards: in FlushStateToDisk, in Shutdown, after a replay.
LEMMA IndWriteRewards ==
  ASSUME Ind, FlushRewards \/ ShutdownFlushRewards \/ ReplayDone
  PROVE  Ind'
<1>1. /\ phase # "down" /\ WriteRewards(chain) /\ phase' \in {"running", "syncing"}
      /\ next' \in {next, 0}
      /\ UNCHANGED <<chain, coins, finalized, coinsDB, coinsSync, rewardSync, peak, count>>
  BY DEF FlushRewards, ShutdownFlushRewards, ReplayDone, Replaying, hist
<1>2. SoundDB(rewardDB') /\ Sound(eng', rewardDB')
  BY <1>1, WriteRewardsParts
<1>3. NodeTypes'
  BY <1>1 DEF Ind, NodeTypes, Replaying, Phases
<1>4. EngineSound' /\ SoundDB(rewardDB)' /\ SoundDB(rewardSync)'
  BY <1>1, <1>2 DEF Ind, EngineSound
<1> QED
  BY <1>3, <1>4 DEF Ind

\* The steps that write the chainstate.
LEMMA IndWriteCoins ==
  ASSUME Ind, FlushChainstate \/ ShutdownFlushCoins
  PROVE  Ind'
<1>1. /\ phase # "down" /\ WriteCoins /\ phase' \in {"flushing", "stopflush"}
      /\ UNCHANGED <<chain, coins, eng, finalized, next, rewardDB, rewardSync, peak>>
      /\ count' \in [writes : Nat, starts : Nat]
  BY DEF FlushChainstate, ShutdownFlushCoins, memory, hist, Ind, NodeTypes
<1>2. IsCoinsDB(coinsDB') /\ IsCoinsDB(coinsSync')
  BY <1>1 DEF WriteCoins, IsCoinsDB, IsHash, Ind, NodeTypes
<1>3. NodeTypes'
  BY <1>1, <1>2 DEF Ind, NodeTypes, Replaying, Phases
<1>4. EngineSound' /\ SoundDB(rewardDB)' /\ SoundDB(rewardSync)'
  BY <1>1 DEF Ind, EngineSound
<1> QED
  BY <1>3, <1>4 DEF Ind

\* The steps that only move on: failed writes and the request to shut down.
LEMMA IndPhaseOnly ==
  ASSUME Ind, FlushFails \/ StartShutdown \/ ShutdownFlushFails \/ ReplayFlushFails
  PROVE  Ind'
<1>1. /\ phase # "down" /\ phase' \in {"stopping", "syncing"}
      /\ UNCHANGED <<chain, coins, eng, finalized, next, coinsDB, rewardDB, coinsSync,
                      rewardSync, peak>>
      /\ count' \in [writes : Nat, starts : Nat]
  BY DEF FlushFails, StartShutdown, ShutdownFlushFails, ReplayFlushFails, Replaying,
         memory, disk, hist, Ind, NodeTypes
<1>2. NodeTypes'
  BY <1>1 DEF Ind, NodeTypes, Replaying, Phases
<1>3. EngineSound' /\ SoundDB(rewardDB)' /\ SoundDB(rewardSync)'
  BY <1>1 DEF Ind, EngineSound
<1> QED
  BY <1>2, <1>3 DEF Ind

\* The steps after which there is no process.
LEMMA IndDown ==
  ASSUME Ind, SyncDB \/ SyncDBFails \/ Crash \/ PowerLoss
  PROVE  Ind'
<1>1. phase' = "down" /\ Forget /\ UNCHANGED <<peak, count>>
  BY DEF SyncDB, SyncDBFails, Crash, PowerLoss, hist
<1>2. IsCoinsDB(coinsDB') /\ IsCoinsDB(coinsSync')
  BY DEF SyncDB, SyncDBFails, Crash, PowerLoss, disk, Ind, NodeTypes
<1>3. SoundDB(rewardDB') /\ SoundDB(rewardSync')
  <2>1. CASE SyncDB
    <3>1. Sound(eng, rewardDB) /\ SoundDB(rewardDB) /\ IsHash(eng.best)
      BY <2>1, EngineFields DEF SyncDB, Ind, EngineSound, Sound
    <3>2. SoundDB(FlushDB(eng, rewardDB, eng.best))
      BY <3>1, FlushSound
    <3> QED  BY <2>1, <3>2 DEF SyncDB
  <2>2. CASE SyncDBFails \/ Crash
    BY <2>2 DEF SyncDBFails, Crash, disk, Ind
  <2>3. CASE PowerLoss
    BY <2>3 DEF PowerLoss, Ind
  <2> QED  BY <2>1, <2>2, <2>3
<1>4. NodeTypes'
  BY <1>1, <1>2, EmptyState DEF Ind, NodeTypes, Replaying, Phases, Forget
<1>5. EngineSound'
  BY <1>1 DEF EngineSound, Forget
<1> QED
  BY <1>3, <1>4, <1>5 DEF Ind

\* WriteBack and ReindexChainstate touch the databases only.
LEMMA IndDisk ==
  ASSUME Ind, WriteBack \/ ReindexChainstate
  PROVE  Ind'
<1>1. UNCHANGED <<phase, chain, coins, eng, finalized, next, peak, count>>
  BY DEF WriteBack, ReindexChainstate, memory, hist
<1>2. IsCoinsDB(coinsDB') /\ IsCoinsDB(coinsSync')
  BY EmptyState DEF WriteBack, ReindexChainstate, Ind, NodeTypes
<1>3. SoundDB(rewardDB') /\ SoundDB(rewardSync')
  BY EmptyState DEF WriteBack, ReindexChainstate, Ind
<1>4. NodeTypes'
  BY <1>1, <1>2 DEF Ind, NodeTypes, Replaying
<1>5. EngineSound'
  BY <1>1 DEF WriteBack, ReindexChainstate, Ind, EngineSound
<1> QED
  BY <1>3, <1>4, <1>5 DEF Ind

\* StartNode: the engine is loaded, or loaded and cleared for the rebuild.
LEMMA IndStart ==
  ASSUME Ind, StartNode
  PROVE  Ind'
<1> DEFINE e == Load(rewardDB)
<1>1. /\ coins' = coinsDB.coins /\ finalized' = 0
      /\ UNCHANGED <<coinsDB, rewardDB, coinsSync, rewardSync, peak>>
      /\ count' \in [writes : Nat, starts : Nat]
  BY DEF StartNode, disk, Ind, NodeTypes
<1>2. IsMap(coins', CoinType) /\ IsHash(coinsDB.best)
  BY <1>1 DEF Ind, NodeTypes, IsCoinsDB
<1>3. Sound(e, rewardDB) /\ Sound(ClearForRebuild(e), rewardDB) /\ IsHash(e.best)
  BY LoadSound, ClearForRebuildSound, EngineFields DEF Ind, Sound
<1>4. e.best # NullHash => Len(e.best) \in Nat
  BY <1>3, ChainShape DEF IsHash
<1> HIDE DEF e
<1>5. /\ chain' \in {<< >>, coinsDB.best} /\ (chain' = << >> \/ coinsDB.best # NullHash)
      /\ phase' \in {"running", "stopping", "forward", "rebuild"}
      /\ eng' \in {e, ClearForRebuild(e)}
      /\ next' \in Nat /\ (Replaying' => next' >= 1)
  <2>1. CASE coinsDB.best = NullHash
    BY <2>1 DEF StartNode, Replaying, e
  <2>2. CASE coinsDB.best # NullHash
    <3>1. chain' = coinsDB.best
      BY <2>2 DEF StartNode
    <3>2. \/ eng' = e /\ next' = 0 /\ phase' \in {"running", "stopping"}
          \/ e.best # NullHash /\ eng' = e /\ next' = Len(e.best) + 1 /\ phase' = "forward"
          \/ eng' = ClearForRebuild(e) /\ next' = 1 /\ phase' = "rebuild"
      BY <2>2 DEF StartNode, e
    <3> QED  BY <1>4, <2>2, <3>1, <3>2 DEF Replaying
  <2> QED  BY <2>1, <2>2
<1>6. IsChain(chain')
  BY <1>2, <1>5, EmptyState DEF IsHash
<1>7. NodeTypes'
  BY <1>1, <1>2, <1>5, <1>6 DEF Ind, NodeTypes, Phases
<1>8. EngineSound' /\ SoundDB(rewardDB)' /\ SoundDB(rewardSync)'
  BY <1>1, <1>3, <1>5 DEF Ind, EngineSound
<1> QED
  BY <1>7, <1>8 DEF Ind

\* One iteration of ReplayColdRewardRange, and the ways in which it ends early.
LEMMA IndReplay ==
  ASSUME Ind, ReplayStep \/ ReplayInvalid \/ ReplayUnreadable \/ ReplayInterrupted
  PROVE  Ind'
<1> DEFINE b == chain[next]
           hash == Prefix(chain, next)
<1>1. /\ Replaying /\ next <= Height
      /\ UNCHANGED <<chain, coins, finalized, coinsDB, rewardDB, coinsSync, rewardSync,
                      peak, count>>
  BY DEF ReplayStep, ReplayInvalid, ReplayUnreadable, ReplayInterrupted, disk, hist
<1>2. IsChain(chain) /\ next \in Nat /\ next >= 1 /\ next <= Len(chain)
  BY <1>1 DEF Ind, NodeTypes, Height
<1>3. IsBlock(b) /\ IsHash(hash)
  BY <1>2, ChainShape, PrefixIsChain DEF IsHash
<1>4. Sound(eng, rewardDB) /\ phase \in {"forward", "rebuild"}
  BY <1>1 DEF Ind, EngineSound, Replaying
<1> HIDE DEF b, hash
<1>5. /\ Sound(Validated(eng, b, next), rewardDB)
      /\ ColdRewardValid(eng, b, next) => Sound(ApplyHooks(eng, b, next, hash), rewardDB)
  BY <1>2, <1>3, <1>4, ApplyHooksSound
<1>6. \A e : Sound(e, rewardDB) /\ ReplayFailed(e) =>
        /\ Sound(eng', rewardDB) /\ phase' \in {"rebuild", "stopping"}
        /\ next' \in Nat /\ next' >= 1
  BY <1>2, ClearForRebuildSound DEF ReplayFailed
<1>7. /\ Sound(eng', rewardDB) /\ phase' \in {"forward", "rebuild", "stopping"}
      /\ next' \in Nat /\ next' >= 1
  <2>1. CASE ReplayStep
    <3>1. eng' = ApplyHooks(eng, b, next, hash) /\ ColdRewardValid(eng, b, next)
      BY <2>1 DEF ReplayStep, b, hash
    <3>2. next' = next + 1 /\ phase' = phase
      BY <2>1 DEF ReplayStep
    <3> QED  BY <1>2, <1>4, <1>5, <3>1, <3>2
  <2>2. CASE ReplayInvalid
    <3>1. ReplayFailed(Validated(eng, b, next))
      BY <2>2 DEF ReplayInvalid, b
    <3> QED  BY <1>5, <1>6, <3>1
  <2>3. CASE ReplayUnreadable
    BY <1>4, <1>6, <2>3 DEF ReplayUnreadable
  <2>4. CASE ReplayInterrupted
    BY <1>2, <1>4, <2>4, ClearForRebuildSound DEF ReplayInterrupted
  <2> QED  BY <2>1, <2>2, <2>3, <2>4
<1>8. NodeTypes'
  BY <1>1, <1>7 DEF Ind, NodeTypes, Phases
<1>9. EngineSound' /\ SoundDB(rewardDB)' /\ SoundDB(rewardSync)'
  BY <1>1, <1>7 DEF Ind, EngineSound
<1> QED
  BY <1>8, <1>9 DEF Ind

\* Every step of the node, and stuttering, preserves the invariant.
LEMMA IndNext == Ind /\ [Next]_vars => Ind'
<1> SUFFICES ASSUME Ind, [Next]_vars  PROVE Ind'
  OBVIOUS
<1>1. CASE UNCHANGED vars
  BY <1>1 DEF vars, memory, disk, hist, Ind, NodeTypes, EngineSound, Replaying
<1>2. CASE Next
  BY <1>2, IndConnect, IndDisconnect, IndWriteRewards, IndWriteCoins, IndPhaseOnly,
     IndDown, IndDisk, IndStart, IndReplay DEF Next
<1> QED
  BY <1>1, <1>2

(***************************************************************************)
(* The theorems.                                                           *)
(***************************************************************************)

\* Every reachable state is well typed: no clock, height or value of a candidate ever
\* leaves its range, and CHOOSE-based selection always finds what the code's loops find.
THEOREM TypeCorrect == Spec => []TypeOK
<1>1. Init => Ind
  BY IndInit
<1>2. Ind /\ [Next]_vars => Ind'
  BY IndNext
<1>3. Ind => TypeOK
  BY IndImplies
<1> QED
  BY <1>1, <1>2, <1>3, PTL DEF Spec

\* While the process lives, setDirty and setErased cover every difference between
\* rewardMap and the reward database, under every fault the model knows: the next Flush
\* or SyncDB makes the database equal to the map.
THEOREM StagingComplete == Spec => []StagedCoversDiff
<1>1. Init => Ind
  BY IndInit
<1>2. Ind /\ [Next]_vars => Ind'
  BY IndNext
<1>3. Ind => StagedCoversDiff
  BY IndImplies
<1> QED
  BY <1>1, <1>2, <1>3, PTL DEF Spec

\* No candidate's clock is restarted within nMinRewardBlocks of its previous reading, in
\* memory or on disk, across reorganizations, crashes, power loss and rebuilds.
THEOREM PayoutsAreSpaced == Spec => []PayoutsSpaced
<1>1. Init => Ind
  BY IndInit
<1>2. Ind /\ [Next]_vars => Ind'
  BY IndNext
<1>3. Ind => PayoutsSpaced
  BY IndImplies
<1> QED
  BY <1>1, <1>2, <1>3, PTL DEF Spec

=============================================================================
