----------------------------- MODULE RewardNode ------------------------------
(***************************************************************************)
(* The cold-reward engine inside the node: block connection and            *)
(* disconnection, block finalization, the two-step flush, shutdown, crash, *)
(* and startup reconciliation (validation.cpp, init.cpp).                  *)
(*                                                                         *)
(* The active chain above genesis is a sequence of blocks, chain[h] being  *)
(* the block at height h, and a block hash is the sequence of blocks that  *)
(* it commits to.  Everything here runs under cs_main, so one action is    *)
(* one critical section, cut wherever a crash leaves a different disk.     *)
(***************************************************************************)
EXTENDS ColdRewards

CONSTANTS
  MaxHeight,      \* bound: the longest chain explored
  MaxTouched,     \* bound: outpoints one block creates or spends
  MaxWrites,      \* bound: chainstate flushes while the node runs, and shutdowns
  MaxStarts,      \* bound: startups
  TxIdsInOrder,   \* bound: are outpoints created in increasing order only?
  MaxForkDepth,   \* bound: how far below the highest tip a competing branch forks
  nCheckDepth,    \* -checkblocks
  Faults          \* which of AllFaults the environment may produce

AllFaults ==
  {"crash",       \* the process dies
   "powerloss",   \* the machine dies: writes that were not synced may be lost
   "diskfull",    \* a database write fails
   "interrupt",   \* shutdown is requested during startup reconciliation
   "unreadable",  \* ReadBlockFromDisk fails during startup reconciliation
   "delay",       \* -finalizationdelay holds finalization back
   "invalidate"}  \* the operator calls invalidateblock

ASSUME NodeAssumption ==
  /\ {MaxHeight, MaxTouched, MaxWrites, MaxStarts} \subseteq Nat
  /\ MaxForkDepth \in Nat
  /\ nCheckDepth \in Nat /\ TxIdsInOrder \in BOOLEAN
  /\ Faults \subseteq AllFaults

VARIABLES
  phase,      \* where the node's main thread is, see Phases
  chain,      \* m_chain; also pcoinsTip's best block
  coins,      \* pcoinsTip: unspent outpoint -> [value, height]
  eng,        \* g_coldRewards
  finalized,  \* height of pindexFinalized, 0 when there is none
  next,       \* the next height ReplayColdRewardRange applies
  coinsDB,    \* the chainstate database: [best, coins]
  rewardDB,   \* the cold-reward database: [recs, best]
  coinsSync,  \* what a power loss leaves of coinsDB
  rewardSync, \* what a power loss leaves of rewardDB
  peak,       \* history: the greatest height ever connected
  count       \* history: [writes, starts] so far

memory == <<chain, coins, eng, finalized, next>>
disk == <<coinsDB, rewardDB, coinsSync, rewardSync>>
hist == <<peak, count>>
vars == <<phase, memory, disk, hist>>

Phases ==
  {"down",       \* no process
   "forward",    \* startup: replaying the gap between the reward DB and the tip
   "rebuild",    \* startup: replaying from genesis
   "running",    \* serving
   "flushing",   \* in FlushStateToDisk, the chainstate is written, the rewards are not
   "stopping",   \* in Shutdown, before its FlushStateToDisk
   "stopflush",  \* in Shutdown, the chainstate is written, the rewards are not
   "syncing"}    \* in Shutdown, before SyncDB

Height == Len(chain)

Prefix(c, n) == [i \in 1..n |-> c[i]]

IsPrefixOf(c, d) == Len(c) <= Len(d) /\ c = Prefix(d, Len(c))

(***************************************************************************)
(* Blocks.                                                                 *)
(***************************************************************************)

Created(c) == UNION {c[i].outs : i \in DOMAIN c}

\* The UTXO a block's outputs become (AddCoins quantizes the value).
NewCoins(outs, h) == [op \in outs |-> [value |-> Value(op), height |-> h]]

Join(f, g) == [op \in DOMAIN f \cup DOMAIN g |-> IF op \in DOMAIN f THEN f[op] ELSE g[op]]

Without(f, ops) == [op \in DOMAIN f \ ops |-> f[op]]

MakeBlock(outs, ins, pay) ==
  [outs |-> outs, ins |-> ins, pay |-> pay,
   undo |-> [op \in ins |-> Join(NewCoins(outs, Height + 1), coins)[op]]]

\* The payouts a coinbase at the next height might carry in vout[1].
Payouts ==
  IF IsSuperBlock(Height + 1) THEN {{}}
  ELSE {{}} \cup {{GetPayment(eng, op, Height + 1)} : op \in Mature(eng, Height + 1)}

\* Blocks whose transactions the UTXO set admits.
NextBlocks ==
  {MakeBlock(t[1], t[2], t[3]) :
     t \in {u \in (SUBSET (OutPoints \ Created(chain))) \X (SUBSET OutPoints) \X Payouts :
              /\ u[2] \subseteq DOMAIN coins \cup u[1]
              /\ Cardinality(u[1] \cup u[2]) <= MaxTouched
              /\ TxIdsInOrder => \A o \in u[1], p \in OutPoints :
                                   p < o => p \in u[1] \cup Created(chain)}}

(***************************************************************************)
(* The hooks ConnectBlock and ReplayColdRewardRange share.                 *)
(***************************************************************************)

Validated(e, b, h) == IF IsSuperBlock(h) THEN e ELSE QuickValidate(e, b, h)

ColdRewardValid(e, b, h) == IsSuperBlock(h) \/ QuickValidateOK(e, b, h)

\* nColdReward > 0
PaysReward(b, h) == ~IsSuperBlock(h) /\ \E p \in b.pay : p.value > 0

ApplyHooks(e, b, h, hash) ==
  LET v == Validated(e, b, h)
      p == IF PaysReward(b, h) THEN UpdateRewardsDB(v, h) ELSE v
  IN  SetBestBlock(UpdateWithBlock(p, b, h), hash)

(***************************************************************************)
(* Running.                                                                *)
(***************************************************************************)

\* FindBlockToFinalize and FinalizeBlockInternal, for a tip at height h: the
\* block maxreorgdepth below, or an older one while -finalizationdelay has not
\* expired, never moving back; none if maxreorgdepth is negative.
FinalizedAfter(h) ==
  LET reach == h - maxreorgdepth
      target == IF maxreorgdepth < 0 \/ reach < finalized THEN finalized ELSE reach
  IN  IF "delay" \in Faults THEN finalized..target ELSE {target}

ConnectTip ==
  /\ phase = "running" /\ Height < MaxHeight
  /\ \E b \in NextBlocks :
       LET h == Height + 1
       IN  /\ ColdRewardValid(eng, b, h)
           /\ chain' = Append(chain, b)
           /\ coins' = Without(Join(coins, NewCoins(b.outs, h)), b.ins)
           /\ eng' = ApplyHooks(eng, b, h, chain')
           /\ finalized' \in FinalizedAfter(h)
           /\ peak' = IF h > peak THEN h ELSE peak
  /\ UNCHANGED <<phase, next, disk, count>>

\* ConnectBlock refuses the block in or after QuickValidate.
RejectBlock ==
  /\ phase = "running" /\ Height < MaxHeight
  /\ \E b \in NextBlocks : eng' = Validated(eng, b, Height + 1)
  /\ UNCHANGED <<phase, chain, coins, finalized, next, disk, hist>>

\* The assembler asks the engine for a payout.
CreateNewBlock ==
  /\ phase = "running" /\ ~IsSuperBlock(Height + 1)
  /\ eng' = FindReward(eng, Height + 1)
  /\ UNCHANGED <<phase, chain, coins, finalized, next, disk, hist>>

\* ApplyBlockUndo finds that a coin is not the output the block serialized.
DisconnectUnclean(b) == \E op \in b.outs : RawValue[op] # Value(op)

UndoEngine(b) == SetBestBlock(UndoBlock(eng, b, Height), Prefix(chain, Height - 1))

\* The whole of DisconnectTip for a clean block.
Rewind(b) ==
  /\ chain' = Prefix(chain, Height - 1)
  /\ coins' = Without(Join(coins, b.undo), b.outs)
  /\ eng' = UndoEngine(b)
  /\ finalized' = IF finalized = Height THEN Height - 1 ELSE finalized

\* A reorganization step: FindMostWorkChain never leaves the finalized block.
DisconnectTip ==
  /\ phase = "running" /\ Height > finalized /\ Height > peak - MaxForkDepth
  /\ ~DisconnectUnclean(chain[Height])
  /\ Rewind(chain[Height])
  /\ UNCHANGED <<phase, next, disk, hist>>

\* ActivateBestChainStep aborts the node when DisconnectTip fails.  The engine has
\* been rewound by then, the coins have not.
DisconnectTipFails ==
  /\ phase = "running" /\ Height > finalized /\ Height > peak - MaxForkDepth
  /\ DisconnectUnclean(chain[Height])
  /\ eng' = UndoEngine(chain[Height])
  /\ phase' = "stopping"
  /\ UNCHANGED <<chain, coins, finalized, next, disk, hist>>

\* UnwindBlock: no regard to finalization, and a failure only fails the call.
InvalidateBlock ==
  /\ "invalidate" \in Faults
  /\ phase = "running" /\ Height > 0
  /\ IF DisconnectUnclean(chain[Height])
     THEN eng' = UndoEngine(chain[Height]) /\ UNCHANGED <<chain, coins, finalized>>
     ELSE Rewind(chain[Height])
  /\ UNCHANGED <<phase, next, disk, hist>>

(***************************************************************************)
(* FlushStateToDisk: the chainstate first, the rewards after it.           *)
(***************************************************************************)

WriteCoins == coinsDB' = [best |-> chain, coins |-> coins] /\ UNCHANGED coinsSync

\* hash is the best block the batch is tagged with.
WriteRewards(hash) ==
  /\ rewardDB' = FlushDB(eng, rewardDB, hash)
  /\ eng' = Flush(eng, hash)

FlushChainstate ==
  /\ phase = "running" /\ count.writes < MaxWrites
  /\ WriteCoins
  /\ phase' = "flushing"
  /\ count' = [count EXCEPT !.writes = @ + 1]
  /\ UNCHANGED <<memory, rewardDB, rewardSync, peak>>

FlushRewards ==
  /\ phase = "flushing"
  /\ WriteRewards(chain)
  /\ phase' = "running"
  /\ UNCHANGED <<chain, coins, finalized, next, coinsDB, coinsSync, rewardSync, hist>>

\* Either write fails: AbortNode.
FlushFails ==
  /\ "diskfull" \in Faults
  /\ phase \in {"running", "flushing"}
  /\ phase' = "stopping"
  /\ UNCHANGED <<memory, disk, hist>>

(***************************************************************************)
(* Shutdown.                                                               *)
(***************************************************************************)

Forget ==
  /\ chain' = << >> /\ coins' = << >> /\ eng' = CColdRewards
  /\ finalized' = 0 /\ next' = 0

StartShutdown ==
  /\ phase = "running" /\ count.writes < MaxWrites
  /\ phase' = "stopping"
  /\ count' = [count EXCEPT !.writes = @ + 1]
  /\ UNCHANGED <<memory, disk, peak>>

ShutdownFlushCoins ==
  /\ phase = "stopping"
  /\ WriteCoins
  /\ phase' = "stopflush"
  /\ UNCHANGED <<memory, rewardDB, rewardSync, hist>>

\* Mutant of ShutdownFlushRewards: after the write, Shutdown starts its flush again.
ShutdownFlushAgain ==
  /\ phase = "stopflush"
  /\ WriteRewards(chain)
  /\ phase' = "stopping"
  /\ UNCHANGED <<chain, coins, finalized, next, coinsDB, coinsSync, rewardSync, hist>>

ShutdownFlushRewards ==
  /\ phase = "stopflush"
  /\ WriteRewards(chain)
  /\ phase' = "syncing"
  /\ UNCHANGED <<chain, coins, finalized, next, coinsDB, coinsSync, rewardSync, hist>>

\* Shutdown ignores what FlushStateToDisk returns.
ShutdownFlushFails ==
  /\ "diskfull" \in Faults
  /\ phase \in {"stopping", "stopflush"}
  /\ phase' = "syncing"
  /\ UNCHANGED <<memory, disk, hist>>

\* SyncDB tags the batch with the engine's own best block, and syncs it.
SyncDB ==
  /\ phase = "syncing"
  /\ rewardDB' = FlushDB(eng, rewardDB, eng.best)
  /\ rewardSync' = rewardDB'
  /\ phase' = "down"
  /\ Forget
  /\ UNCHANGED <<coinsDB, coinsSync, hist>>

\* Shutdown ignores what SyncDB's Flush returns, too.
SyncDBFails ==
  /\ "diskfull" \in Faults
  /\ phase = "syncing"
  /\ phase' = "down"
  /\ Forget
  /\ UNCHANGED <<disk, hist>>

(***************************************************************************)
(* Crashes.                                                                *)
(***************************************************************************)

Crash ==
  /\ "crash" \in Faults
  /\ phase # "down"
  /\ phase' = "down"
  /\ Forget
  /\ UNCHANGED <<disk, hist>>

PowerLoss ==
  /\ "powerloss" \in Faults
  /\ phase' = "down"
  /\ Forget
  /\ coinsDB' \in {coinsDB, coinsSync} /\ coinsSync' = coinsDB'
  /\ rewardDB' \in {rewardDB, rewardSync} /\ rewardSync' = rewardDB'
  /\ UNCHANGED hist

\* The operating system writes a database back on its own.
WriteBack ==
  /\ "powerloss" \in Faults
  /\ \/ coinsSync' = coinsDB /\ UNCHANGED rewardSync
     \/ rewardSync' = rewardDB /\ UNCHANGED coinsSync
  /\ UNCHANGED <<phase, memory, coinsDB, rewardDB, hist>>

(***************************************************************************)
(* Startup.                                                                *)
(***************************************************************************)

\* VerifyDB disconnects the last blocks on a throw-away view.
VerifyDBFails(c) ==
  \E i \in DOMAIN c : i > Len(c) - nCheckDepth /\ DisconnectUnclean(c[i])

\* Load both databases; with a chain tip, ReplayColdRewardsToTip picks its case.
StartNode ==
  /\ phase = "down" /\ count.starts < MaxStarts
  /\ count' = [count EXCEPT !.starts = @ + 1]
  /\ coins' = coinsDB.coins
  /\ finalized' = 0
  /\ LET e == Load(rewardDB)
         onChain == e.best # NullHash /\ IsPrefixOf(e.best, coinsDB.best)
     IN  IF coinsDB.best = NullHash
         THEN chain' = << >> /\ eng' = e /\ next' = 0 /\ phase' = "running"
         ELSE /\ chain' = coinsDB.best
              /\ \/ /\ VerifyDBFails(coinsDB.best)
                    /\ eng' = e /\ next' = 0 /\ phase' = "stopping"
                 \/ /\ ~VerifyDBFails(coinsDB.best) /\ onChain /\ e.best = coinsDB.best
                    /\ eng' = e /\ next' = 0 /\ phase' = "running"
                 \/ /\ ~VerifyDBFails(coinsDB.best) /\ onChain /\ e.best # coinsDB.best
                    /\ eng' = e /\ next' = Len(e.best) + 1 /\ phase' = "forward"
                 \/ /\ ~VerifyDBFails(coinsDB.best) /\ ~onChain
                    /\ eng' = ClearForRebuild(e) /\ next' = 1 /\ phase' = "rebuild"
  /\ UNCHANGED <<disk, peak>>

Replaying == phase \in {"forward", "rebuild"}

\* Mutant of ReplayStep: the height is not incremented.
ReplaySameBlock ==
  /\ Replaying /\ next <= Height
  /\ eng' = ApplyHooks(eng, chain[next], next, Prefix(chain, next))
  /\ UNCHANGED <<phase, chain, coins, finalized, next, disk, hist>>

\* One iteration of ReplayColdRewardRange.
ReplayStep ==
  /\ Replaying /\ next <= Height
  /\ ColdRewardValid(eng, chain[next], next)
  /\ eng' = ApplyHooks(eng, chain[next], next, Prefix(chain, next))
  /\ next' = next + 1
  /\ UNCHANGED <<phase, chain, coins, finalized, disk, hist>>

\* A failed forward replay falls through to the rebuild; a failed rebuild fails the
\* startup, which ends in Shutdown with the engine as the replay left it.
ReplayFailed(e) ==
  IF phase = "forward"
  THEN eng' = ClearForRebuild(e) /\ next' = 1 /\ phase' = "rebuild"
  ELSE eng' = e /\ phase' = "stopping" /\ UNCHANGED next

ReplayInvalid ==
  /\ Replaying /\ next <= Height
  /\ ~ColdRewardValid(eng, chain[next], next)
  /\ ReplayFailed(Validated(eng, chain[next], next))
  /\ UNCHANGED <<chain, coins, finalized, disk, hist>>

ReplayUnreadable ==
  /\ "unreadable" \in Faults
  /\ Replaying /\ next <= Height
  /\ ReplayFailed(eng)
  /\ UNCHANGED <<chain, coins, finalized, disk, hist>>

\* ShutdownRequested stays set: after a forward replay the rebuild stops at once too.
ReplayInterrupted ==
  /\ "interrupt" \in Faults
  /\ Replaying /\ next <= Height
  /\ eng' = IF phase = "forward" THEN ClearForRebuild(eng) ELSE eng
  /\ phase' = "stopping"
  /\ UNCHANGED <<chain, coins, finalized, next, disk, hist>>

ReplayDone ==
  /\ Replaying /\ next > Height
  /\ WriteRewards(chain)
  /\ phase' = "running" /\ next' = 0
  /\ UNCHANGED <<chain, coins, finalized, coinsDB, coinsSync, rewardSync, hist>>

ReplayFlushFails ==
  /\ "diskfull" \in Faults
  /\ Replaying /\ next > Height
  /\ phase' = "stopping"
  /\ UNCHANGED <<memory, disk, hist>>

\* -reindex-chainstate wipes both databases.
ReindexChainstate ==
  /\ phase = "down"
  /\ coinsDB' = [best |-> NullHash, coins |-> << >>] /\ coinsSync' = coinsDB'
  /\ rewardDB' = CRewardsViewDB /\ rewardSync' = rewardDB'
  /\ UNCHANGED <<phase, memory, hist>>

(***************************************************************************)
(* The specification.                                                      *)
(***************************************************************************)

Init ==
  /\ phase = "down"
  /\ chain = << >> /\ coins = << >> /\ eng = CColdRewards
  /\ finalized = 0 /\ next = 0
  /\ peak = 0 /\ count = [writes |-> 0, starts |-> 0]
  /\ coinsDB = [best |-> NullHash, coins |-> << >>] /\ coinsSync = coinsDB
  /\ rewardDB = CRewardsViewDB /\ rewardSync = rewardDB

Next ==
  \/ ConnectTip \/ RejectBlock \/ CreateNewBlock
  \/ DisconnectTip \/ DisconnectTipFails \/ InvalidateBlock
  \/ FlushChainstate \/ FlushRewards \/ FlushFails
  \/ StartShutdown \/ ShutdownFlushCoins \/ ShutdownFlushRewards
  \/ ShutdownFlushFails \/ SyncDB \/ SyncDBFails
  \/ Crash \/ PowerLoss \/ WriteBack
  \/ StartNode \/ ReplayStep \/ ReplayInvalid \/ ReplayUnreadable
  \/ ReplayInterrupted \/ ReplayDone \/ ReplayFlushFails \/ ReindexChainstate

Spec == Init /\ [][Next]_vars

\* The steps of replay, flush and shutdown: straight-line code of the main thread,
\* which waits for nobody once it has begun.
Progress ==
  \/ ReplayStep \/ ReplayInvalid \/ ReplayDone
  \/ FlushRewards
  \/ ShutdownFlushCoins \/ ShutdownFlushRewards \/ SyncDB

FairSpec == Spec /\ WF_vars(Progress)

(***************************************************************************)
(* Types.                                                                  *)
(***************************************************************************)

RecordType ==
  [value : Nat, creationHeight : Nat, OldHeight : Nat, height : Nat,
   payCount : Nat, active : BOOLEAN, inactiveHeight : Nat]

CoinType == [value : Nat, height : Nat]

PayType == [script : {Script[op] : op \in OutPoints}, value : Nat]

\* f maps some of the outpoints into T.
IsMap(f, T) == DOMAIN f \subseteq OutPoints /\ f \in [DOMAIN f -> T]

IsBlock(b) ==
  /\ b \in [outs : SUBSET OutPoints, ins : SUBSET OutPoints, pay : SUBSET PayType,
             undo : {b.undo}]
  /\ IsMap(b.undo, CoinType)

IsChain(c) ==
  /\ c \in Seq({c[i] : i \in DOMAIN c})
  /\ \A i \in DOMAIN c : IsBlock(c[i])

IsHash(c) == c = NullHash \/ IsChain(c)

IsEngine(e) ==
  /\ e \in [map : {e.map}, index : SUBSET (Nat \X OutPoints), dirty : SUBSET OutPoints,
             erased : SUBSET OutPoints, best : {e.best}, key : OutPoints \cup {NullOutPoint}]
  /\ IsMap(e.map, RecordType)
  /\ IsHash(e.best)

IsRewardDB(d) ==
  d \in [recs : {d.recs}, best : {d.best}] /\ IsMap(d.recs, RecordType) /\ IsHash(d.best)

IsCoinsDB(d) ==
  d \in [best : {d.best}, coins : {d.coins}] /\ IsMap(d.coins, CoinType) /\ IsHash(d.best)

\* Every variable has its type: in particular no height, clock or value of a record
\* ever leaves the range of its unsigned field, and the last selection is an outpoint.
TypeOK ==
  /\ phase \in Phases
  /\ IsChain(chain) /\ IsMap(coins, CoinType) /\ IsEngine(eng)
  /\ finalized \in Nat /\ next \in Nat /\ peak \in Nat
  /\ IsCoinsDB(coinsDB) /\ IsCoinsDB(coinsSync)
  /\ IsRewardDB(rewardDB) /\ IsRewardDB(rewardSync)
  /\ count \in [writes : Nat, starts : Nat]

(***************************************************************************)
(* Properties.                                                             *)
(***************************************************************************)

Serving == phase \in {"running", "flushing"}

Active(m) == {op \in DOMAIN m : m[op].active}

\* The outputs a chain leaves unspent that were large enough when created.
Candidates(c) ==
  {op \in OutPoints :
     /\ \E i \in DOMAIN c : op \in c[i].outs /\ Value(op) >= getMinRewardBalance(i)
     /\ \A i \in DOMAIN c : op \notin c[i].ins}

\* The engine a replay of the chain from genesis builds.
ReplayOf(c) ==
  LET f[n \in 0..Len(c)] ==
        IF n = 0 THEN CColdRewards ELSE ApplyHooks(f[n - 1], c[n], n, Prefix(c, n))
  IN  f[Len(c)]

\* "The reward state is a projection of the chainstate" (coinreward.h): however the
\* tip was reached, the active records are the large unspent outputs, each with the
\* value and the height of its coin.
ProjectionOfChainstate ==
  Serving =>
    /\ Active(eng.map) = Candidates(chain)
    /\ \A op \in Active(eng.map) :
         coins[op] = [value |-> eng.map[op].value, height |-> eng.map[op].creationHeight]

\* After any sequence of connects and disconnects (UpdateWithBlock, UpdateRewardsDB,
\* UndoBlock) every candidate's clock is the one a node that only ever saw the active
\* chain would have, so two nodes compute the same payouts.
ClocksAsReplayed ==
  Serving => LET fresh == ReplayOf(chain).map
             IN  \A op \in Active(eng.map) :
                   op \in Active(fresh) /\ eng.map[op].height = fresh[op].height

\* Each block the node has connected passes QuickValidate again when
\* ReplayColdRewardsToTip replays the active chain from genesis, so a rebuild succeeds.
AcceptedChainReplays ==
  Serving => \A n \in DOMAIN chain :
               ColdRewardValid(ReplayOf(Prefix(chain, n - 1)), chain[n], n)

\* UpdateWithBlock prunes no record that UndoBlock still needs: a candidate spent by
\* a block that a reorganization may disconnect is in the map, inactive since then.
UndoRecordsKept ==
  Serving => \A i \in DOMAIN chain : i > finalized =>
    \A op \in chain[i].ins :
      LET coin == chain[i].undo[op]
      IN  coin.height < i /\ coin.value >= getMinRewardBalance(coin.height) =>
            /\ op \in DOMAIN eng.map
            /\ ~eng.map[op].active /\ eng.map[op].inactiveHeight = i

\* What FillPayments puts in a coinbase is accepted by QuickValidate at that height,
\* and the candidate whose clock CheckReward then restarts is the one FindReward chose.
MinerAgrees ==
  LET h == Height + 1
      c == QuickValidateClear(eng, h)
  IN  Serving /\ ~IsSuperBlock(h) =>
        \A p \in FillPayments(eng, h) :
          /\ CheckReward(c, h, p) # {}
          /\ RewardKey(c, CheckReward(c, h, p)) = FindReward(eng, h).key

\* UpdateRewardsDB spaces the payouts of one candidate: its last two clock readings
\* are equal (never paid, or rewound) or more than nMinRewardBlocks apart, in memory
\* and on disk, whatever crashes, reorganizations and rebuilds happened.
SpacedClock(r) ==
  /\ r.creationHeight <= r.OldHeight
  /\ r.height = r.OldHeight \/ r.height - r.OldHeight > nMinRewardBlocks

PayoutsSpaced ==
  /\ \A op \in DOMAIN eng.map : SpacedClock(eng.map[op])
  /\ \A op \in DOMAIN rewardDB.recs : SpacedClock(rewardDB.recs[op])
  /\ \A op \in DOMAIN rewardSync.recs : SpacedClock(rewardSync.recs[op])

\* The staging sets of PutInMap and EraseFromMap cover every difference between the
\* map and the database, so that one Flush makes the two equal.
Staged(e, db) ==
  /\ e.dirty \subseteq DOMAIN e.map
  /\ e.erased \cap DOMAIN e.map = {}
  /\ \A op \in (DOMAIN e.map \cup DOMAIN db.recs) \ (e.dirty \cup e.erased) :
       op \in DOMAIN e.map /\ op \in DOMAIN db.recs /\ e.map[op] = db.recs[op]

\* As long as the process lives, also after failed writes and abandoned replays, no
\* change of rewardMap is missing from setDirty and setErased.
StagedCoversDiff == phase # "down" => Staged(eng, rewardDB)

\* "The DB content is ALWAYS exactly at its stored best block" (rewardsview.h).
RewardDBAtItsBest ==
  rewardDB.best # NullHash => Active(rewardDB.recs) = Candidates(rewardDB.best)

\* A rebuild from genesis repairs any engine: whatever was loaded, after each replayed
\* block the active records are the candidates of the replayed part of the chain.
RebuildIsExact ==
  phase = "rebuild" => Active(eng.map) = Candidates(Prefix(chain, next - 1))

\* After the one-time clear-out (ClearLowRewards at the block after superblock
\* clearLowRewardsSuperBlock) no active candidate is below the minimum balance, so
\* none is paid, reorganizations of the clear-out block included.
LowCandidatesGone ==
  Serving /\ Height > clearLowRewardsSuperBlock * nBlocksPerPeriod =>
    \A op \in Active(eng.map) : eng.map[op].value >= getMinRewardBalance(Height)

\* "The reward DB persists exactly at the tip and a normal restart is a reconcile
\* no-op" (SyncDB, rewards.h): when Shutdown comes to SyncDB, its FlushStateToDisk has
\* left both databases at one block, and the reward database equal to the map.
ShutdownAtTip ==
  phase = "syncing" => rewardDB.best = coinsDB.best /\ rewardDB.recs = eng.map

\* ReplayColdRewardsToTip terminates, also when it falls back to the rebuild: a startup
\* that has to replay reaches serving, or shutdown, or dies.
ReplayEnds == phase \in {"forward", "rebuild"} ~> phase \in {"running", "stopping", "down"}

\* Shutdown terminates: its flushes and SyncDB lead to the end of the process.
ShutdownEnds == phase = "stopping" ~> phase = "down"

=============================================================================
