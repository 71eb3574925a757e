----------------------------- MODULE ColdRewards -----------------------------
(***************************************************************************)
(* The cold-reward engine, CColdRewards (devault/rewards.{h,cpp}), with    *)
(* its record type (devault/coinreward.h), its payout formula              *)
(* (devault/rewards_calculation.cpp) and its backing store                 *)
(* (devault/rewardsview.cpp).                                              *)
(*                                                                         *)
(* The engine is a value, a record with one field per data member:         *)
(*   map     rewardMap          outpoint -> candidate record               *)
(*   index   inactiveByHeight   set of <<inactivation height, outpoint>>   *)
(*   dirty   setDirty           changed since the last flush               *)
(*   erased  setErased          removed since the last flush               *)
(*   best    hashBestBlock      the block the map corresponds to           *)
(*   key     rewardKey          the last candidate selected                *)
(* and every method is an operator from engine values to engine values, so *)
(* that a caller composes several calls into one atomic step, as the       *)
(* callers do under cs_main.                                               *)
(*                                                                         *)
(* An outpoint is a positive natural; <= is COutPoint::operator<.  A block *)
(* is a record: outs and ins are the outputs its non-coinbase transactions *)
(* create and spend, and pay holds the coinbase's vout[1], if it has one.  *)
(***************************************************************************)
EXTENDS Integers, Sequences, FiniteSets

CONSTANTS
  OutPoints,              \* every outpoint a transaction can create
  RawValue,               \* outpoint -> serialized CTxOut::nValue
  Script,                 \* outpoint -> CTxOut::scriptPubKey
  NullHash,               \* the null BlockHash
  COIN, SPOCK_SATS,       \* amount.h
  nBlocksPerYear, nPerCentPerYear, nMinRewardBlocks, nMinReward,
  vecMinRewardBalances,   \* Consensus::Params
  clearLowRewardsSuperBlock,
  maxreorgdepth,          \* -maxreorgdepth
  UINT_MOD                \* 2^w for the w-bit payCount

ASSUME OutPointsAssumption == OutPoints \subseteq Nat \ {0} /\ IsFiniteSet(OutPoints)

ASSUME ValueAssumption ==
  /\ RawValue \in [OutPoints -> Nat]
  /\ {SPOCK_SATS, COIN, UINT_MOD} \subseteq Nat \ {0}

ASSUME ParamsAssumption ==
  /\ nMinRewardBlocks \in Nat /\ nMinReward \in Nat
  /\ maxreorgdepth \in Int
  /\ nBlocksPerYear \in Nat /\ nBlocksPerYear >= 12
  /\ nPerCentPerYear \in Seq(1..100) /\ nPerCentPerYear # << >>
  /\ vecMinRewardBalances # << >>

NullOutPoint == 0

(***************************************************************************)
(* Consensus parameters and amounts.                                       *)
(***************************************************************************)

\* Amounts entering the UTXO set and the reward map are rounded up to a spock.
SpockQuantize(a) ==
  LET residual == a % SPOCK_SATS
  IN  IF residual > 0 THEN a - residual + SPOCK_SATS ELSE a

Value(op) == SpockQuantize(RawValue[op])

\* The balance of the first tier that reaches up to Height, else of the last.
getMinRewardBalance(Height) ==
  LET tiers == {i \in DOMAIN vecMinRewardBalances :
                  \/ vecMinRewardBalances[i].height >= Height
                  \/ i = Len(vecMinRewardBalances)}
  IN  vecMinRewardBalances[CHOOSE i \in tiers : \A j \in tiers : i <= j].balance

nBlocksPerPeriod == nBlocksPerYear \div 12

IsSuperBlock(Height) == Height % nBlocksPerPeriod = 0

CalculateReward(Height, HeightDiff, balance) ==
  LET year == Height \div nBlocksPerYear
      tier == IF year > Len(nPerCentPerYear) - 1 THEN Len(nPerCentPerYear) ELSE year + 1
      reciprocal == (100 * nBlocksPerYear) \div nPerCentPerYear[tier]
      perBlock == balance \div reciprocal
      reward == ((100 * HeightDiff * perBlock) \div COIN) * (COIN \div 100)
  IN  IF reward < nMinReward THEN 0 ELSE reward

(***************************************************************************)
(* Candidate records and the map's mutation helpers.  A helper takes all   *)
(* the records one loop puts or erases: the loops never touch the same     *)
(* outpoint twice.                                                         *)
(***************************************************************************)

CRewardValue(op, h) ==
  [value |-> Value(op), creationHeight |-> h, OldHeight |-> h, height |-> h,
   payCount |-> 0, active |-> TRUE, inactiveHeight |-> 0]

CColdRewards ==
  [map |-> << >>, index |-> {}, dirty |-> {}, erased |-> {},
   best |-> NullHash, key |-> NullOutPoint]

\* Mutant of PutInMap: a record that is put back stays marked as erased.
PutKeepsErased(e, recs) ==
  [e EXCEPT !.map = [op \in DOMAIN e.map \cup DOMAIN recs |->
                       IF op \in DOMAIN recs THEN recs[op] ELSE e.map[op]],
            !.dirty = @ \cup DOMAIN recs]

PutInMap(e, recs) ==
  [e EXCEPT !.map = [op \in DOMAIN e.map \cup DOMAIN recs |->
                       IF op \in DOMAIN recs THEN recs[op] ELSE e.map[op]],
            !.dirty = @ \cup DOMAIN recs,
            !.erased = @ \ DOMAIN recs]

EraseFromMap(e, ops) ==
  [e EXCEPT !.map = [op \in DOMAIN e.map \ ops |-> e.map[op]],
            !.dirty = @ \ ops,
            !.erased = @ \cup ops]

SetBestBlock(e, hash) == [e EXCEPT !.best = hash]

(***************************************************************************)
(* Selection.                                                              *)
(***************************************************************************)

Reward(e, op, Height) ==
  CalculateReward(e.map[op].height, Height - e.map[op].height, e.map[op].value)

\* Mutant of Mature: >= for >.
MatureEarly(e, Height) ==
  {op \in DOMAIN e.map : /\ e.map[op].active
                         /\ Height - e.map[op].height >= nMinRewardBlocks}

\* Active records old enough to be paid at Height.
Mature(e, Height) ==
  {op \in DOMAIN e.map : /\ e.map[op].active
                         /\ Height - e.map[op].height > nMinRewardBlocks}

\* Mutant of Eligible: low candidates compete up to the clear-out.
EligibleLow(e, Height) ==
  {op \in Mature(e, Height) : Reward(e, op, Height) >= nMinReward}

\* The candidates FindReward lets compete: from the clear-out superblock on,
\* those below the minimum balance are passed over.
Eligible(e, Height) ==
  {op \in Mature(e, Height) :
     /\ \/ Height < clearLowRewardsSuperBlock * nBlocksPerPeriod
        \/ e.map[op].value >= getMinRewardBalance(Height)
     /\ Reward(e, op, Height) >= nMinReward}

\* Oldest first, then the higher reward, then the smaller outpoint.
Preferred(e, Height, a, b) ==
  \/ e.map[a].height < e.map[b].height
  \/ /\ e.map[a].height = e.map[b].height
     /\ \/ Reward(e, a, Height) > Reward(e, b, Height)
        \/ Reward(e, a, Height) = Reward(e, b, Height) /\ a <= b

GetPayment(e, op, Height) == [script |-> Script[op], value |-> Reward(e, op, Height)]

\* The engine FindReward leaves (only rewardKey moves, and only if found).
FindReward(e, Height) ==
  LET c == Eligible(e, Height)
  IN  IF c = {} THEN e
      ELSE [e EXCEPT !.key = CHOOSE a \in c : \A b \in c : Preferred(e, Height, a, b)]

\* What FillPayments appends to the coinbase: no output or one.
FillPayments(e, Height) ==
  IF Eligible(e, Height) = {} THEN {}
  ELSE {GetPayment(e, FindReward(e, Height).key, Height)}

\* The candidates a payout can be for: same script, exactly its reward.
CheckReward(e, Height, p) ==
  {op \in Mature(e, Height) : Script[op] = p.script /\ Reward(e, op, Height) = p.value}

\* Mutant of RewardKey: the newest match.
RewardKeyNewest(e, matches) ==
  CHOOSE a \in matches : \A b \in matches :
    \/ e.map[a].height > e.map[b].height
    \/ e.map[a].height = e.map[b].height /\ a <= b

\* The match that becomes rewardKey: the oldest, then the smallest outpoint.
RewardKey(e, matches) ==
  CHOOSE a \in matches : \A b \in matches :
    \/ e.map[a].height < e.map[b].height
    \/ e.map[a].height = e.map[b].height /\ a <= b

ClearLowRewards(e, minRewardBalance) ==
  EraseFromMap(e, {op \in DOMAIN e.map : e.map[op].value < minRewardBalance})

\* Mutant of QuickValidateClear: one block early, on the superblock itself.
ClearOnSuperBlock(e, Height) ==
  IF Height = clearLowRewardsSuperBlock * nBlocksPerPeriod
  THEN ClearLowRewards(e, getMinRewardBalance(Height))
  ELSE e

\* The one-time clear-out QuickValidate performs before it looks at the coinbase.
QuickValidateClear(e, Height) ==
  IF Height = clearLowRewardsSuperBlock * nBlocksPerPeriod + 1
  THEN ClearLowRewards(e, getMinRewardBalance(Height))
  ELSE e

QuickValidateOK(e, b, Height) ==
  \A p \in b.pay : CheckReward(QuickValidateClear(e, Height), Height, p) # {}

\* The engine QuickValidate leaves; a rejected payout leaves rewardKey alone.
QuickValidate(e, b, Height) ==
  LET c == QuickValidateClear(e, Height)
  IN  IF b.pay # {} /\ QuickValidateOK(e, b, Height)
      THEN [c EXCEPT !.key =
              RewardKey(c, CheckReward(c, Height, CHOOSE p \in b.pay : TRUE))]
      ELSE c

(***************************************************************************)
(* The block hooks.                                                        *)
(***************************************************************************)

\* Mutant of UpdateRewardsDB: the restarted clock is not staged.
UpdateUnstaged(e, nNewHeight) ==
  IF e.key \notin DOMAIN e.map THEN e
  ELSE [e EXCEPT !.map[e.key].OldHeight = e.map[e.key].height,
                 !.map[e.key].height = nNewHeight]

\* Start the paid candidate's clock again, or stop tracking it.
UpdateRewardsDB(e, nNewHeight) ==
  IF e.key \notin DOMAIN e.map THEN e
  ELSE LET r == e.map[e.key]
       IN  IF r.value >= getMinRewardBalance(nNewHeight)
           THEN PutInMap(e, [op \in {e.key} |->
                  [r EXCEPT !.OldHeight = r.height, !.height = nNewHeight,
                            !.payCount = (@ + 1) % UINT_MOD]])
           ELSE EraseFromMap(e, {e.key})

\* Pass 1 of UpdateWithBlock: a record for every output that is large enough.
AddCandidates(e, b, h) ==
  PutInMap(e, [op \in {o \in b.outs : Value(o) >= getMinRewardBalance(h)} |->
                 CRewardValue(op, h)])

\* Pass 2: a spent candidate becomes inactive; one created in this very block goes.
InactivateSpent(e, b, h) ==
  LET spent == b.ins \cap DOMAIN e.map
      sameBlock == {op \in spent : e.map[op].creationHeight = h}
      kept == spent \ sameBlock
      f == PutInMap(EraseFromMap(e, sameBlock),
                    [op \in kept |-> [e.map[op] EXCEPT !.active = FALSE,
                                                       !.inactiveHeight = h]])
  IN  [f EXCEPT !.index = @ \cup {<<h, op>> : op \in kept}]

\* Mutant of PruneInactive: a stale index entry prunes a record spent again later.
PruneStale(e, h) ==
  LET old == {x \in e.index : x[1] < h - maxreorgdepth}
      gone == {op \in DOMAIN e.map : ~e.map[op].active /\ \E x \in old : x[2] = op}
  IN  [EraseFromMap(e, gone) EXCEPT !.index = @ \ old]

\* Forget inactive records older than maxreorgdepth; stale index entries only go.
PruneInactive(e, h) ==
  LET old == {x \in e.index : x[1] < h - maxreorgdepth}
      gone == {op \in DOMAIN e.map : /\ ~e.map[op].active
                                     /\ <<e.map[op].inactiveHeight, op>> \in old}
  IN  [EraseFromMap(e, gone) EXCEPT !.index = @ \ old]

UpdateWithBlock(e, b, h) == PruneInactive(InactivateSpent(AddCandidates(e, b, h), b, h), h)

\* What UndoBlock makes of a record that the undone block spent.
Reactivated(r, h) ==
  LET a == IF r.active THEN [r EXCEPT !.height = r.OldHeight] ELSE [r EXCEPT !.active = TRUE]
  IN  IF a.height >= h THEN [a EXCEPT !.height = a.OldHeight] ELSE a

\* Mutant of RestoreRewardAtHeight: payCount is signed.
RestoreSigned(e, h) ==
  LET at == {op \in DOMAIN e.map : e.map[op].height = h}
      first == CHOOSE op \in at : \A o \in at : op <= o
  IN  IF at = {} THEN e
      ELSE PutInMap(e, [op \in {first} |->
             [e.map[first] EXCEPT !.height = e.map[first].OldHeight, !.payCount = @ - 1]])

\* Rewind the clock of the first record, in outpoint order, that shows this height.
RestoreRewardAtHeight(e, h) ==
  LET at == {op \in DOMAIN e.map : e.map[op].height = h}
      first == CHOOSE op \in at : \A o \in at : op <= o
  IN  IF at = {} THEN e
      ELSE PutInMap(e, [op \in {first} |->
             [e.map[first] EXCEPT !.height = e.map[first].OldHeight,
                                  !.payCount = (@ - 1) % UINT_MOD]])

\* Mutants of UndoBlock: the paid clock, or the candidates the block created, stay.
UndoKeepsClock(e, b, h) ==
  LET f == PutInMap(e, [op \in b.ins \cap DOMAIN e.map |-> Reactivated(e.map[op], h)])
  IN  EraseFromMap(f, b.outs \cap DOMAIN f.map)

UndoKeepsOutputs(e, b, h) ==
  LET f == PutInMap(e, [op \in b.ins \cap DOMAIN e.map |-> Reactivated(e.map[op], h)])
  IN  IF b.pay # {} /\ ~IsSuperBlock(h) THEN RestoreRewardAtHeight(f, h) ELSE f

\* Restore the spent candidates, then (the coinbase comes first in vtx) rewind
\* the paid clock, then drop the candidates the block created.
UndoBlock(e, b, h) ==
  LET f == PutInMap(e, [op \in b.ins \cap DOMAIN e.map |-> Reactivated(e.map[op], h)])
      g == IF b.pay # {} /\ ~IsSuperBlock(h) THEN RestoreRewardAtHeight(f, h) ELSE f
  IN  EraseFromMap(g, b.outs \cap DOMAIN g.map)

(***************************************************************************)
(* Persistence: the backing store is [recs, best].                         *)
(***************************************************************************)

CRewardsViewDB == [recs |-> << >>, best |-> NullHash]

\* Mutant of BatchWrite: the best block is left out.
BatchWithoutBest(db, writes, erases, hash) ==
  [recs |-> [op \in (DOMAIN db.recs \cup DOMAIN writes) \ erases |->
               IF op \in DOMAIN writes THEN writes[op] ELSE db.recs[op]],
   best |-> db.best]

\* One atomic batch: the writes, then the erases, and the best block unless null.
BatchWrite(db, writes, erases, hash) ==
  [recs |-> [op \in (DOMAIN db.recs \cup DOMAIN writes) \ erases |->
               IF op \in DOMAIN writes THEN writes[op] ELSE db.recs[op]],
   best |-> IF hash = NullHash THEN db.best ELSE hash]

FlushDB(e, db, hash) ==
  BatchWrite(db, [op \in e.dirty \cap DOMAIN e.map |-> e.map[op]], e.erased, hash)

Flush(e, hash) == [e EXCEPT !.dirty = {}, !.erased = {}, !.best = hash]

\* A freshly constructed engine after Load.
Load(db) ==
  [CColdRewards EXCEPT
     !.map = db.recs,
     !.index = {<<db.recs[op].inactiveHeight, op>> :
                  op \in {o \in DOMAIN db.recs : ~db.recs[o].active}},
     !.best = db.best]

\* Mutants of ClearForRebuild: the old records are not marked as erased, or stay.
ClearUnmarked(e) ==
  [e EXCEPT !.map = << >>, !.index = {}, !.dirty = {}, !.best = NullHash]

ClearNothing(e) == [e EXCEPT !.best = NullHash]

ClearForRebuild(e) ==
  [e EXCEPT !.map = << >>, !.index = {}, !.dirty = {},
            !.erased = @ \cup DOMAIN e.map, !.best = NullHash]

=============================================================================
