-------------------------- MODULE ColdRewardsProofs --------------------------
(***************************************************************************)
(* What the operations of the cold-reward engine preserve, whatever block  *)
(* they are given and for every value of the constants: the engine's type, *)
(* the coverage of its staging sets and the spacing of its clocks.         *)
(***************************************************************************)
EXTENDS RewardNode, TLAPS, FiniteSetTheorems, SequenceTheorems, WellFoundedInduction

(***************************************************************************)
(* Amounts.                                                                *)
(***************************************************************************)

\* SpockQuantize: a quantized value is a natural number.
LEMMA ValueIsNat == \A op \in OutPoints : Value(op) \in Nat
<1> TAKE op \in OutPoints
<1> DEFINE residual == RawValue[op] % SPOCK_SATS
<1>1. RawValue[op] \in Nat /\ SPOCK_SATS \in Nat /\ SPOCK_SATS > 0
  BY ValueAssumption
<1>2. residual \in Int /\ 0 <= residual /\ residual < SPOCK_SATS
  BY <1>1
<1> QED
  BY <1>1, <1>2 DEF Value, SpockQuantize

\* CalculateReward: a payout is a natural number.
LEMMA CalculateRewardIsNat ==
  ASSUME NEW h \in Nat, NEW d \in Int, NEW v \in Nat
  PROVE  CalculateReward(h, d, v) \in Nat
<1> DEFINE year == h \div nBlocksPerYear
           tier == IF year > Len(nPerCentPerYear) - 1 THEN Len(nPerCentPerYear) ELSE year + 1
           pct == nPerCentPerYear[tier]
           reciprocal == (100 * nBlocksPerYear) \div pct
           perBlock == v \div reciprocal
           units == (100 * d * perBlock) \div COIN
           step == COIN \div 100
<1>1. year \in Nat
  BY ParamsAssumption
<1>2. pct \in 1..100
  <2>1. /\ Len(nPerCentPerYear) \in Nat \ {0}
        /\ nPerCentPerYear \in [1..Len(nPerCentPerYear) -> 1..100]
    BY ParamsAssumption, LenProperties, EmptySeq
  <2>2. tier \in 1..Len(nPerCentPerYear)
    <3> HIDE DEF year
    <3> QED  BY <1>1, <2>1
  <2> HIDE DEF tier
  <2> QED  BY <2>1, <2>2
<1>3. reciprocal \in Nat /\ reciprocal > 0
  <2> HIDE DEF pct
  <2> QED  BY <1>2, ParamsAssumption
<1>4. perBlock \in Int
  <2> HIDE DEF reciprocal
  <2> QED  BY <1>3
<1>5. units \in Int
  <2> HIDE DEF perBlock
  <2>1. 100 * d * perBlock \in Int
    BY <1>4
  <2> QED  BY <2>1, ValueAssumption
<1>6. step \in Int
  BY ValueAssumption
<1>7. units * step \in Int
  <2> HIDE DEF units, step
  <2> QED  BY <1>5, <1>6
<1>8. CalculateReward(h, d, v) = IF units * step < nMinReward THEN 0 ELSE units * step
  BY DEF CalculateReward
<1> HIDE DEF units, step
<1> QED
  BY <1>7, <1>8, ParamsAssumption

(***************************************************************************)
(* Selection: the loops of FindReward, CheckReward and                     *)
(* RestoreRewardAtHeight do find a record when there is one.               *)
(***************************************************************************)

\* A non-empty set of naturals has a least element.
LEMMA LeastNat ==
  ASSUME NEW S \in SUBSET Nat, S # {}
  PROVE  \E n \in S : \A m \in S : n <= m
<1>1. \E n \in S : \A m \in S : <<m, n>> \notin OpToRel(<, Nat)
  BY NatLessThanWellFounded, WFMin, Zenon
<1>2. PICK n \in S : \A m \in S : <<m, n>> \notin OpToRel(<, Nat)
  BY <1>1
<1>3. ASSUME NEW m \in S  PROVE n <= m
  <2>1. ~(m < n)
    BY <1>2 DEF OpToRel
  <2> QED  BY <2>1
<1> QED
  BY <1>3

\* The fields of an engine, and of the records in its map.
LEMMA EngineFields ==
  ASSUME NEW e, IsEngine(e)
  PROVE  /\ DOMAIN e.map \subseteq OutPoints /\ e.map \in [DOMAIN e.map -> RecordType]
         /\ e.index \subseteq Nat \X OutPoints
         /\ e.dirty \subseteq OutPoints /\ e.erased \subseteq OutPoints
         /\ IsHash(e.best) /\ e.key \in OutPoints \cup {NullOutPoint}
         /\ \A op \in DOMAIN e.map :
              /\ op \in Nat
              /\ e.map[op].value \in Nat /\ e.map[op].creationHeight \in Nat
              /\ e.map[op].OldHeight \in Nat /\ e.map[op].height \in Nat
              /\ e.map[op].payCount \in Nat /\ e.map[op].active \in BOOLEAN
              /\ e.map[op].inactiveHeight \in Nat
BY OutPointsAssumption DEF IsEngine, IsMap, RecordType

\* Reward: what a candidate is owed at a height is a natural number.
LEMMA RewardIsNat ==
  ASSUME NEW e, IsEngine(e), NEW op \in DOMAIN e.map, NEW h \in Nat
  PROVE  Reward(e, op, h) \in Nat
<1>1. /\ e.map[op].height \in Nat /\ e.map[op].value \in Nat
      /\ h - e.map[op].height \in Int
  BY EngineFields
<1> QED
  BY <1>1, CalculateRewardIsNat DEF Reward

\* RewardKey: among the matches of a payout there is an oldest, first in outpoint order.
LEMMA RewardKeyMatches ==
  ASSUME NEW e, IsEngine(e), NEW matches \in SUBSET DOMAIN e.map, matches # {}
  PROVE  RewardKey(e, matches) \in matches
<1> DEFINE heights == {e.map[op].height : op \in matches}
<1>1. heights \in SUBSET Nat /\ heights # {}
  BY EngineFields
<1>2. PICK n \in heights : \A m \in heights : n <= m
  BY <1>1, LeastNat
<1> DEFINE oldest == {op \in matches : e.map[op].height = n}
<1>3. oldest \in SUBSET Nat /\ oldest # {}
  BY <1>2, EngineFields
<1>4. PICK a \in oldest : \A b \in oldest : a <= b
  BY <1>3, LeastNat
<1>5. ASSUME NEW b \in matches
      PROVE  \/ e.map[a].height < e.map[b].height
             \/ e.map[a].height = e.map[b].height /\ a <= b
  <2>1. n <= e.map[b].height /\ e.map[a].height = n /\ n \in Nat /\ e.map[b].height \in Nat
    BY <1>1, <1>2, <1>4, EngineFields
  <2>2. CASE e.map[b].height = n
    BY <1>4, <2>1, <2>2
  <2>3. CASE e.map[b].height # n
    BY <2>1, <2>3
  <2> QED  BY <2>2, <2>3
<1> QED
  BY <1>4, <1>5 DEF RewardKey

\* FindReward: among the eligible candidates there is a preferred one.
LEMMA PreferredExists ==
  ASSUME NEW e, IsEngine(e), NEW h \in Nat, NEW c \in SUBSET DOMAIN e.map, c # {}
  PROVE  \E a \in c : \A b \in c : Preferred(e, h, a, b)
<1> DEFINE heights == {e.map[op].height : op \in c}
<1>1. heights \in SUBSET Nat /\ heights # {}
  BY EngineFields
<1>2. PICK n \in heights : \A m \in heights : n <= m
  BY <1>1, LeastNat
<1> DEFINE oldest == {op \in c : e.map[op].height = n}
           above(op) == {b \in oldest : Reward(e, b, h) > Reward(e, op, h)}
           ranks == {Cardinality(above(op)) : op \in oldest}
<1>3. IsFiniteSet(oldest) /\ \A op \in oldest : IsFiniteSet(above(op))
  <2>1. oldest \in SUBSET OutPoints /\ \A op \in oldest : above(op) \in SUBSET OutPoints
    BY EngineFields
  <2> QED  BY <2>1, OutPointsAssumption, FS_Subset
<1>4. ranks \in SUBSET Nat /\ ranks # {}
  <2>1. \A op \in oldest : Cardinality(above(op)) \in Nat
    BY <1>3, FS_CardinalityType
  <2> QED  BY <1>2, <2>1
<1>5. PICK r \in ranks : \A m \in ranks : r <= m
  <2> HIDE DEF ranks
  <2> QED  BY <1>4, LeastNat
<1>6. PICK t \in oldest : r = Cardinality(above(t))
  BY <1>5
\* Nobody in oldest is owed more than t: it would rank strictly better.
<1>7. ASSUME NEW b \in oldest  PROVE Reward(e, b, h) <= Reward(e, t, h)
  <2> SUFFICES ASSUME Reward(e, b, h) > Reward(e, t, h)  PROVE FALSE
    BY RewardIsNat
  <2>1. above(b) \in SUBSET above(t)
    BY RewardIsNat
  <2>2. b \in above(t) /\ b \notin above(b)
    BY RewardIsNat
  <2>3. Cardinality(above(b)) <= Cardinality(above(t))
        /\ Cardinality(above(b)) # Cardinality(above(t))
    <3> HIDE DEF above
    <3> QED  BY <1>3, <1>6, <2>1, <2>2, FS_Subset
  <2>4. Cardinality(above(b)) \in Nat /\ Cardinality(above(t)) \in Nat
    <3> HIDE DEF above
    <3> QED  BY <1>3, <1>6, FS_CardinalityType
  <2>5. Cardinality(above(t)) <= Cardinality(above(b))
    BY <1>5, <1>6
  <2> HIDE DEF above
  <2> QED  BY <2>3, <2>4, <2>5
<1> DEFINE best == {op \in oldest : Reward(e, op, h) = Reward(e, t, h)}
<1>8. best \in SUBSET Nat /\ best # {}
  BY <1>6, EngineFields
<1>9. PICK a \in best : \A b \in best : a <= b
  <2> HIDE DEF best
  <2> QED  BY <1>8, LeastNat
<1>10. ASSUME NEW b \in c  PROVE Preferred(e, h, a, b)
  <2>1. n <= e.map[b].height /\ e.map[a].height = n /\ n \in Nat /\ e.map[b].height \in Nat
    BY <1>1, <1>2, <1>9, EngineFields
  <2>2. CASE e.map[b].height # n
    BY <2>1, <2>2 DEF Preferred
  <2>3. CASE e.map[b].height = n
    <3>1. Reward(e, b, h) <= Reward(e, a, h)
      BY <1>7, <1>9, <2>3
    <3>2. Reward(e, b, h) = Reward(e, a, h) => a <= b
      BY <1>9, <2>3
    <3>3. Reward(e, b, h) \in Nat /\ Reward(e, a, h) \in Nat
      BY <1>9, RewardIsNat
    <3> QED  BY <2>1, <2>3, <3>1, <3>2, <3>3 DEF Preferred
  <2> QED  BY <2>2, <2>3
<1> QED
  BY <1>9, <1>10

\* RestoreRewardAtHeight: among the records that show a height there is a first.
LEMMA FirstExists ==
  ASSUME NEW S \in SUBSET OutPoints, S # {}
  PROVE  (CHOOSE op \in S : \A o \in S : op <= o) \in S
BY LeastNat, OutPointsAssumption

(***************************************************************************)
(* The engine's inductive invariant, next to a backing store db, and the   *)
(* operations that preserve it.                                            *)
(***************************************************************************)

Sound(e, db) ==
  /\ IsEngine(e)
  /\ Staged(e, db)
  /\ \A op \in DOMAIN e.map : SpacedClock(e.map[op])

\* PutInMap keeps a sound engine sound if what is put is.
LEMMA PutInMapSound ==
  ASSUME NEW e, NEW db, Sound(e, db),
         NEW recs, IsMap(recs, RecordType),
         \A op \in DOMAIN recs : SpacedClock(recs[op])
  PROVE  Sound(PutInMap(e, recs), db)
<1> DEFINE f == PutInMap(e, recs)
<1>1. /\ f.map = [op \in DOMAIN e.map \cup DOMAIN recs |->
                   IF op \in DOMAIN recs THEN recs[op] ELSE e.map[op]]
      /\ f.dirty = e.dirty \cup DOMAIN recs
      /\ f.erased = e.erased \ DOMAIN recs
      /\ f.index = e.index /\ f.best = e.best /\ f.key = e.key
  BY DEF PutInMap, Sound, IsEngine
<1>2. IsMap(f.map, RecordType)
  BY <1>1 DEF Sound, IsEngine, IsMap
<1>3. IsEngine(f)
  <2>1. f \in [map : {f.map}, index : SUBSET (Nat \X OutPoints), dirty : SUBSET OutPoints,
                erased : SUBSET OutPoints, best : {f.best}, key : OutPoints \cup {NullOutPoint}]
    BY <1>1 DEF PutInMap, Sound, IsEngine, IsMap
  <2> HIDE DEF f
  <2> QED  BY <1>1, <1>2, <2>1 DEF Sound, IsEngine
<1>4. Staged(f, db)
  <2> HIDE DEF f
  <2> QED  BY <1>1 DEF Sound, Staged
<1>5. \A op \in DOMAIN f.map : SpacedClock(f.map[op])
  <2> HIDE DEF f
  <2> QED  BY <1>1 DEF Sound
<1> QED
  BY <1>3, <1>4, <1>5 DEF Sound

\* EraseFromMap keeps a sound engine sound.
LEMMA EraseFromMapSound ==
  ASSUME NEW e, NEW db, Sound(e, db), NEW ops \in SUBSET OutPoints
  PROVE  Sound(EraseFromMap(e, ops), db)
<1> DEFINE f == EraseFromMap(e, ops)
<1>1. /\ f.map = [op \in DOMAIN e.map \ ops |-> e.map[op]]
      /\ f.dirty = e.dirty \ ops
      /\ f.erased = e.erased \cup ops
      /\ f.index = e.index /\ f.best = e.best /\ f.key = e.key
  BY DEF EraseFromMap, Sound, IsEngine
<1>2. IsMap(f.map, RecordType)
  BY <1>1 DEF Sound, IsEngine, IsMap
<1>3. IsEngine(f)
  <2>1. f \in [map : {f.map}, index : SUBSET (Nat \X OutPoints), dirty : SUBSET OutPoints,
                erased : SUBSET OutPoints, best : {f.best}, key : OutPoints \cup {NullOutPoint}]
    BY <1>1 DEF EraseFromMap, Sound, IsEngine, IsMap
  <2> HIDE DEF f
  <2> QED  BY <1>1, <1>2, <2>1 DEF Sound, IsEngine
<1>4. Staged(f, db)
  <2> HIDE DEF f
  <2> QED  BY <1>1 DEF Sound, Staged
<1>5. \A op \in DOMAIN f.map : SpacedClock(f.map[op])
  <2> HIDE DEF f
  <2> QED  BY <1>1 DEF Sound
<1> QED
  BY <1>3, <1>4, <1>5 DEF Sound

\* The height index, the best block and the last selection matter to no other field.
LEMMA FieldsSound ==
  ASSUME NEW e, NEW db, Sound(e, db),
         NEW x \in SUBSET (Nat \X OutPoints), NEW hash, IsHash(hash),
         NEW k \in OutPoints \cup {NullOutPoint}
  PROVE  /\ Sound([e EXCEPT !.index = x], db)
         /\ Sound([e EXCEPT !.best = hash], db)
         /\ Sound([e EXCEPT !.key = k], db)
<1>1. /\ IsEngine([e EXCEPT !.index = x])
      /\ IsEngine([e EXCEPT !.best = hash])
      /\ IsEngine([e EXCEPT !.key = k])
  BY DEF Sound, IsEngine
<1>2. /\ Staged([e EXCEPT !.index = x], db)
      /\ Staged([e EXCEPT !.best = hash], db)
      /\ Staged([e EXCEPT !.key = k], db)
  BY DEF Sound, IsEngine, Staged
<1>3. /\ [e EXCEPT !.index = x].map = e.map
      /\ [e EXCEPT !.best = hash].map = e.map
      /\ [e EXCEPT !.key = k].map = e.map
  BY DEF Sound, IsEngine
<1> QED
  BY <1>1, <1>2, <1>3 DEF Sound

\* ClearLowRewards and the clear-out of QuickValidate only erase.
LEMMA QuickValidateClearSound ==
  ASSUME NEW e, NEW db, Sound(e, db), NEW h
  PROVE  Sound(QuickValidateClear(e, h), db)
<1>1. \A bal : {op \in DOMAIN e.map : e.map[op].value < bal} \in SUBSET OutPoints
  BY EngineFields DEF Sound
<1> QED
  BY <1>1, EraseFromMapSound DEF QuickValidateClear, ClearLowRewards

\* FindReward only moves the last selection, to a candidate.
LEMMA FindRewardSound ==
  ASSUME NEW e, NEW db, Sound(e, db), NEW h \in Nat
  PROVE  Sound(FindReward(e, h), db)
<1> DEFINE c == Eligible(e, h)
           k == CHOOSE a \in c : \A b \in c : Preferred(e, h, a, b)
<1>1. c \in SUBSET DOMAIN e.map
  BY DEF Eligible, Mature
<1>2. CASE c = {}
  BY <1>2 DEF FindReward
<1>3. CASE c # {}
  <2>1. \E a \in c : \A b \in c : Preferred(e, h, a, b)
    <3> HIDE DEF c
    <3> QED  BY <1>1, <1>3, PreferredExists DEF Sound
  <2>2. k \in c
    <3> HIDE DEF c
    <3> QED  BY <2>1
  <2>3. k \in OutPoints \cup {NullOutPoint}
    <3> HIDE DEF c, k
    <3> QED  BY <1>1, <2>2, EngineFields DEF Sound
  <2>4. FindReward(e, h) = [e EXCEPT !.key = k]
    BY <1>3 DEF FindReward
  <2>5. Sound([e EXCEPT !.key = k], db)
    <3> HIDE DEF k
    <3>1. {} \in SUBSET (Nat \X OutPoints) /\ IsHash(NullHash)
      BY DEF IsHash
    <3> QED  BY <2>3, <3>1, FieldsSound
  <2> QED  BY <2>4, <2>5
<1> QED
  BY <1>2, <1>3

\* QuickValidate keeps a sound engine sound.  If it accepts a payout, the candidate it
\* selects is in the map and its clock is more than nMinRewardBlocks behind.
LEMMA QuickValidateSound ==
  ASSUME NEW e, NEW db, Sound(e, db), NEW b, IsBlock(b), NEW h \in Nat
  PROVE  LET v == QuickValidate(e, b, h)
         IN  /\ Sound(v, db)
             /\ b.pay # {} /\ QuickValidateOK(e, b, h) =>
                  /\ v.key \in DOMAIN v.map
                  /\ h - v.map[v.key].height > nMinRewardBlocks
<1> DEFINE c == QuickValidateClear(e, h)
           p == CHOOSE q \in b.pay : TRUE
           matches == CheckReward(c, h, p)
           k == RewardKey(c, matches)
           v == QuickValidate(e, b, h)
<1>1. Sound(c, db)
  BY QuickValidateClearSound
<1>2. CASE ~(b.pay # {} /\ QuickValidateOK(e, b, h))
  BY <1>1, <1>2 DEF QuickValidate
<1>3. CASE b.pay # {} /\ QuickValidateOK(e, b, h)
  <2>1. matches \in SUBSET DOMAIN c.map /\ matches \in SUBSET Mature(c, h)
    <3> HIDE DEF c
    <3> QED  BY DEF CheckReward, Mature
  <2>2. matches # {}
    <3>1. p \in b.pay
      BY <1>3
    <3> HIDE DEF p
    <3> QED  BY <1>3, <3>1 DEF QuickValidateOK
  <2>3. k \in matches
    <3> HIDE DEF c, matches
    <3> QED  BY <1>1, <2>1, <2>2, RewardKeyMatches DEF Sound
  <2>4. v = [c EXCEPT !.key = k]
    BY <1>3 DEF QuickValidate
  <2>5. k \in OutPoints \cup {NullOutPoint} /\ k \in DOMAIN c.map
    <3> HIDE DEF c, k, matches
    <3> QED  BY <1>1, <2>1, <2>3, EngineFields DEF Sound
  <2>6. h - c.map[k].height > nMinRewardBlocks
    <3> HIDE DEF c, k, matches
    <3> QED  BY <2>1, <2>3 DEF Mature
  <2>7. Sound(v, db)
    <3> HIDE DEF c, k, v
    <3>1. {} \in SUBSET (Nat \X OutPoints) /\ IsHash(NullHash)
      BY DEF IsHash
    <3> QED  BY <1>1, <2>4, <2>5, <3>1, FieldsSound
  <2>8. v.map = c.map /\ v.key = k
    <3> HIDE DEF c, k, v
    <3> QED  BY <1>1, <2>4 DEF Sound, IsEngine
  <2> HIDE DEF c, k
  <2> QED  BY <2>5, <2>6, <2>7, <2>8
<1> QED
  BY <1>2, <1>3

\* UpdateRewardsDB keeps a sound engine sound when the selected clock is old enough.
LEMMA UpdateRewardsDBSound ==
  ASSUME NEW e, NEW db, Sound(e, db), NEW h \in Nat,
         e.key \in DOMAIN e.map => h - e.map[e.key].height > nMinRewardBlocks
  PROVE  Sound(UpdateRewardsDB(e, h), db)
<1> SUFFICES ASSUME e.key \in DOMAIN e.map  PROVE Sound(UpdateRewardsDB(e, h), db)
  BY DEF UpdateRewardsDB
<1> DEFINE r == e.map[e.key]
           paid == [r EXCEPT !.OldHeight = r.height, !.height = h,
                             !.payCount = (@ + 1) % UINT_MOD]
           recs == [op \in {e.key} |-> paid]
<1>1. r \in RecordType /\ e.key \in OutPoints /\ SpacedClock(r)
  BY EngineFields DEF Sound
<1>2. (r.payCount + 1) % UINT_MOD \in Nat
  BY <1>1, ValueAssumption DEF RecordType
<1>3. paid \in RecordType
  BY <1>1, <1>2 DEF RecordType
<1>4. SpacedClock(paid)
  <2>1. paid.OldHeight = r.height /\ paid.height = h /\ paid.creationHeight = r.creationHeight
    BY <1>1 DEF RecordType
  <2>2. r.creationHeight <= r.height
    <3>1. r.creationHeight \in Nat /\ r.OldHeight \in Nat /\ r.height \in Nat
      BY <1>1 DEF RecordType
    <3> HIDE DEF r
    <3> QED  BY <1>1, <3>1, ParamsAssumption DEF SpacedClock
  <2> HIDE DEF paid
  <2> QED  BY <2>1, <2>2 DEF SpacedClock
<1>5. IsMap(recs, RecordType) /\ \A op \in DOMAIN recs : SpacedClock(recs[op])
  <2> HIDE DEF paid
  <2> QED  BY <1>1, <1>3, <1>4 DEF IsMap
<1>6. Sound(PutInMap(e, recs), db)
  <2> HIDE DEF recs
  <2> QED  BY <1>5, PutInMapSound
<1>7. Sound(EraseFromMap(e, {e.key}), db)
  BY <1>1, EraseFromMapSound
<1> QED
  BY <1>6, <1>7 DEF UpdateRewardsDB

\* UpdateWithBlock's first pass puts new records, whose two clock readings are equal.
LEMMA AddCandidatesSound ==
  ASSUME NEW e, NEW db, Sound(e, db), NEW b, IsBlock(b), NEW h \in Nat
  PROVE  Sound(AddCandidates(e, b, h), db)
<1> DEFINE large == {o \in b.outs : Value(o) >= getMinRewardBalance(h)}
           recs == [op \in large |-> CRewardValue(op, h)]
<1>1. large \in SUBSET OutPoints
  BY DEF IsBlock
<1>2. \A op \in OutPoints : CRewardValue(op, h) \in RecordType /\ SpacedClock(CRewardValue(op, h))
  BY ValueIsNat DEF CRewardValue, RecordType, SpacedClock
<1>3. IsMap(recs, RecordType) /\ \A op \in DOMAIN recs : SpacedClock(recs[op])
  <2> HIDE DEF large
  <2> QED  BY <1>1, <1>2 DEF IsMap
<1>4. Sound(PutInMap(e, recs), db)
  <2> HIDE DEF recs
  <2> QED  BY <1>3, PutInMapSound
<1> QED
  BY <1>4 DEF AddCandidates

\* UpdateWithBlock's second pass leaves the clocks of the spent candidates alone.
LEMMA InactivateSpentSound ==
  ASSUME NEW e, NEW db, Sound(e, db), NEW b, IsBlock(b), NEW h \in Nat
  PROVE  Sound(InactivateSpent(e, b, h), db)
<1> DEFINE spent == b.ins \cap DOMAIN e.map
           sameBlock == {op \in spent : e.map[op].creationHeight = h}
           kept == spent \ sameBlock
           g == EraseFromMap(e, sameBlock)
           recs == [op \in kept |-> [e.map[op] EXCEPT !.active = FALSE, !.inactiveHeight = h]]
           f == PutInMap(g, recs)
           x == f.index \cup {<<h, op>> : op \in kept}
<1>1. sameBlock \in SUBSET OutPoints /\ kept \in SUBSET DOMAIN e.map /\ kept \in SUBSET OutPoints
  BY EngineFields DEF Sound
<1>2. Sound(g, db)
  <2> HIDE DEF sameBlock
  <2> QED  BY <1>1, EraseFromMapSound
<1>3. \A op \in DOMAIN e.map :
        LET r == [e.map[op] EXCEPT !.active = FALSE, !.inactiveHeight = h]
        IN  r \in RecordType /\ SpacedClock(r)
  <2> TAKE op \in DOMAIN e.map
  <2> DEFINE q == e.map[op]
  <2>1. q \in RecordType /\ SpacedClock(q)
    BY EngineFields DEF Sound
  <2> HIDE DEF q
  <2>2. LET r == [q EXCEPT !.active = FALSE, !.inactiveHeight = h]
        IN  r \in RecordType /\ SpacedClock(r)
    BY <2>1 DEF RecordType, SpacedClock
  <2> QED  BY <2>2 DEF q
<1>4. IsMap(recs, RecordType) /\ \A op \in DOMAIN recs : SpacedClock(recs[op])
  <2> HIDE DEF kept
  <2> QED  BY <1>1, <1>3 DEF IsMap
<1>5. Sound(f, db)
  <2> HIDE DEF g, recs
  <2> QED  BY <1>2, <1>4, PutInMapSound
<1>6. x \in SUBSET (Nat \X OutPoints)
  <2> HIDE DEF f, kept
  <2> QED  BY <1>1, <1>5, EngineFields DEF Sound
<1>7. Sound([f EXCEPT !.index = x], db)
  <2> HIDE DEF f, x
  <2>1. IsHash(NullHash) /\ NullOutPoint \in OutPoints \cup {NullOutPoint}
    BY DEF IsHash
  <2> QED  BY <1>5, <1>6, <2>1, FieldsSound
<1> QED
  BY <1>7 DEF InactivateSpent

\* UpdateWithBlock's pruning only erases.
LEMMA PruneInactiveSound ==
  ASSUME NEW e, NEW db, Sound(e, db), NEW h
  PROVE  Sound(PruneInactive(e, h), db)
<1> DEFINE old == {x \in e.index : x[1] < h - maxreorgdepth}
           gone == {op \in DOMAIN e.map : /\ ~e.map[op].active
                                          /\ <<e.map[op].inactiveHeight, op>> \in old}
           f == EraseFromMap(e, gone)
           x == f.index \ old
<1>1. gone \in SUBSET OutPoints
  BY EngineFields DEF Sound
<1>2. Sound(f, db)
  <2> HIDE DEF gone
  <2> QED  BY <1>1, EraseFromMapSound
<1>3. x \in SUBSET (Nat \X OutPoints)
  <2> HIDE DEF f, old
  <2> QED  BY <1>2, EngineFields DEF Sound
<1>4. Sound([f EXCEPT !.index = x], db)
  <2> HIDE DEF f, x
  <2>1. IsHash(NullHash) /\ NullOutPoint \in OutPoints \cup {NullOutPoint}
    BY DEF IsHash
  <2> QED  BY <1>2, <1>3, <2>1, FieldsSound
<1> QED
  BY <1>4 DEF PruneInactive

\* UpdateWithBlock keeps a sound engine sound.
LEMMA UpdateWithBlockSound ==
  ASSUME NEW e, NEW db, Sound(e, db), NEW b, IsBlock(b), NEW h \in Nat
  PROVE  Sound(UpdateWithBlock(e, b, h), db)
BY AddCandidatesSound, InactivateSpentSound, PruneInactiveSound DEF UpdateWithBlock

\* RestoreRewardAtHeight rewinds one clock to its previous reading.
LEMMA RestoreRewardAtHeightSound ==
  ASSUME NEW e, NEW db, Sound(e, db), NEW h
  PROVE  Sound(RestoreRewardAtHeight(e, h), db)
<1> DEFINE at == {op \in DOMAIN e.map : e.map[op].height = h}
           first == CHOOSE op \in at : \A o \in at : op <= o
           r == e.map[first]
           rewound == [r EXCEPT !.height = r.OldHeight, !.payCount = (@ - 1) % UINT_MOD]
           recs == [op \in {first} |-> rewound]
<1> SUFFICES ASSUME at # {}  PROVE Sound(RestoreRewardAtHeight(e, h), db)
  BY DEF RestoreRewardAtHeight
<1>1. at \in SUBSET OutPoints
  BY EngineFields DEF Sound
<1>2. first \in at
  <2> HIDE DEF at
  <2> QED  BY <1>1, FirstExists
<1>3. r \in RecordType /\ SpacedClock(r) /\ first \in OutPoints
  <2> HIDE DEF first
  <2> QED  BY <1>1, <1>2, EngineFields DEF Sound
<1> HIDE DEF first, r
<1>4. (r.payCount - 1) % UINT_MOD \in Nat
  BY <1>3, ValueAssumption DEF RecordType
<1>5. rewound \in RecordType /\ SpacedClock(rewound)
  BY <1>3, <1>4 DEF RecordType, SpacedClock
<1>6. IsMap(recs, RecordType) /\ \A op \in DOMAIN recs : SpacedClock(recs[op])
  <2> HIDE DEF rewound
  <2> QED  BY <1>3, <1>5 DEF IsMap
<1>7. Sound(PutInMap(e, recs), db)
  <2> HIDE DEF recs
  <2> QED  BY <1>6, PutInMapSound
<1> QED
  BY <1>7 DEF RestoreRewardAtHeight, first, r

\* UndoBlock restores a spent candidate with one of its two clock readings.
LEMMA ReactivatedSpaced ==
  ASSUME NEW r \in RecordType, SpacedClock(r), NEW h
  PROVE  Reactivated(r, h) \in RecordType /\ SpacedClock(Reactivated(r, h))
<1> DEFINE a == IF r.active THEN [r EXCEPT !.height = r.OldHeight] ELSE [r EXCEPT !.active = TRUE]
           z == [a EXCEPT !.height = a.OldHeight]
<1>1. a \in RecordType /\ SpacedClock(a)
  BY DEF RecordType, SpacedClock
<1>2. z \in RecordType /\ SpacedClock(z)
  <2> HIDE DEF a
  <2> QED  BY <1>1 DEF RecordType, SpacedClock
<1>3. Reactivated(r, h) = IF a.height >= h THEN z ELSE a
  BY DEF Reactivated
<1> HIDE DEF a, z
<1> QED
  BY <1>1, <1>2, <1>3

\* UndoBlock keeps a sound engine sound.
LEMMA UndoBlockSound ==
  ASSUME NEW e, NEW db, Sound(e, db), NEW b, IsBlock(b), NEW h
  PROVE  Sound(UndoBlock(e, b, h), db)
<1> DEFINE recs == [op \in b.ins \cap DOMAIN e.map |-> Reactivated(e.map[op], h)]
           f == PutInMap(e, recs)
           g == IF b.pay # {} /\ ~IsSuperBlock(h) THEN RestoreRewardAtHeight(f, h) ELSE f
           ops == b.outs \cap DOMAIN g.map
<1>1. \A op \in DOMAIN e.map : op \in OutPoints /\ e.map[op] \in RecordType
                              /\ SpacedClock(e.map[op])
  BY EngineFields DEF Sound
<1>2. IsMap(recs, RecordType) /\ \A op \in DOMAIN recs : SpacedClock(recs[op])
  BY <1>1, ReactivatedSpaced DEF IsMap
<1>3. Sound(f, db)
  <2> HIDE DEF recs
  <2> QED  BY <1>2, PutInMapSound
<1>4. Sound(g, db)
  <2> HIDE DEF f
  <2> QED  BY <1>3, RestoreRewardAtHeightSound
<1>5. ops \in SUBSET OutPoints
  BY DEF IsBlock
<1>6. Sound(EraseFromMap(g, ops), db)
  <2> HIDE DEF g, ops
  <2> QED  BY <1>4, <1>5, EraseFromMapSound
<1> QED
  BY <1>6 DEF UndoBlock

\* The hooks of a block that passes validation keep a sound engine sound: a clock is
\* restarted only for the candidate QuickValidate selected.
LEMMA ApplyHooksSound ==
  ASSUME NEW e, NEW db, Sound(e, db), NEW b, IsBlock(b), NEW h \in Nat,
         NEW hash, IsHash(hash)
  PROVE  /\ Sound(Validated(e, b, h), db)
         /\ ColdRewardValid(e, b, h) => Sound(ApplyHooks(e, b, h, hash), db)
<1> DEFINE v == Validated(e, b, h)
           p == IF PaysReward(b, h) THEN UpdateRewardsDB(v, h) ELSE v
           u == UpdateWithBlock(p, b, h)
<1>1. Sound(v, db)
  BY QuickValidateSound DEF Validated
<1> SUFFICES ASSUME ColdRewardValid(e, b, h)  PROVE Sound(ApplyHooks(e, b, h, hash), db)
  BY <1>1
<1>2. PaysReward(b, h) => /\ v.key \in DOMAIN v.map
                          /\ h - v.map[v.key].height > nMinRewardBlocks
  <2> SUFFICES ASSUME PaysReward(b, h)  PROVE /\ v.key \in DOMAIN v.map
                                              /\ h - v.map[v.key].height > nMinRewardBlocks
    OBVIOUS
  <2>1. ~IsSuperBlock(h) /\ b.pay # {}
    BY DEF PaysReward
  <2>2. v = QuickValidate(e, b, h) /\ QuickValidateOK(e, b, h)
    BY <2>1 DEF Validated, ColdRewardValid
  <2> HIDE DEF v
  <2> QED  BY <2>1, <2>2, QuickValidateSound
<1>3. Sound(p, db)
  <2> HIDE DEF v
  <2> QED  BY <1>1, <1>2, UpdateRewardsDBSound
<1>4. Sound(u, db)
  <2> HIDE DEF p
  <2> QED  BY <1>3, UpdateWithBlockSound
<1>5. Sound([u EXCEPT !.best = hash], db)
  <2> HIDE DEF u
  <2>1. {} \in SUBSET (Nat \X OutPoints) /\ NullOutPoint \in OutPoints \cup {NullOutPoint}
    OBVIOUS
  <2> QED  BY <1>4, <2>1, FieldsSound
<1> QED
  BY <1>5 DEF ApplyHooks, SetBestBlock

(***************************************************************************)
(* Persistence.                                                            *)
(***************************************************************************)

SoundDB(db) ==
  IsRewardDB(db) /\ \A op \in DOMAIN db.recs : SpacedClock(db.recs[op])

\* Flush: the batch leaves the database with exactly the records of the map, and the
\* emptied staging sets cover the (empty) difference.
LEMMA FlushSound ==
  ASSUME NEW e, NEW db, Sound(e, db), SoundDB(db), NEW hash, IsHash(hash)
  PROVE  /\ SoundDB(FlushDB(e, db, hash))
         /\ FlushDB(e, db, hash).recs = e.map
         /\ Sound(Flush(e, hash), FlushDB(e, db, hash))
<1> DEFINE d == FlushDB(e, db, hash)
           f == Flush(e, hash)
           writes == [op \in e.dirty \cap DOMAIN e.map |-> e.map[op]]
           recs == [op \in (DOMAIN db.recs \cup DOMAIN writes) \ e.erased |->
                      IF op \in DOMAIN writes THEN writes[op] ELSE db.recs[op]]
<1>1. d = [recs |-> recs, best |-> IF hash = NullHash THEN db.best ELSE hash]
  BY DEF FlushDB, BatchWrite
<1>2. recs = e.map
  <2>1. e.map = [op \in DOMAIN e.map |-> e.map[op]]
    BY EngineFields DEF Sound
  <2>2. (DOMAIN db.recs \cup DOMAIN writes) \ e.erased = DOMAIN e.map
    BY DEF Sound, Staged
  <2>3. \A op \in DOMAIN e.map :
          (IF op \in DOMAIN writes THEN writes[op] ELSE db.recs[op]) = e.map[op]
    BY <2>2 DEF Sound, Staged
  <2> HIDE DEF writes
  <2> QED  BY <2>1, <2>2, <2>3
<1> HIDE DEF recs
<1>3. d.recs = e.map /\ IsHash(d.best)
  BY <1>1, <1>2 DEF SoundDB, IsRewardDB
<1>4. SoundDB(d)
  <2>1. d \in [recs : {d.recs}, best : {d.best}]
    BY <1>1
  <2> HIDE DEF d
  <2> QED  BY <1>3, <2>1 DEF SoundDB, IsRewardDB, Sound, IsEngine
<1>5. f.map = e.map /\ f.dirty = {} /\ f.erased = {}
  BY DEF Flush, Sound, IsEngine
<1>6. IsEngine(f)
  BY DEF Flush, Sound, IsEngine
<1>7. Staged(f, d)
  <2> HIDE DEF f, d
  <2> QED  BY <1>3, <1>5 DEF Staged
<1> HIDE DEF f
<1>8. Sound(f, d)
  <2> HIDE DEF d
  <2> QED  BY <1>5, <1>6, <1>7 DEF Sound
<1> QED
  BY <1>3, <1>4, <1>8 DEF f

\* Load: a freshly loaded engine is sound.
LEMMA LoadSound ==
  ASSUME NEW db, SoundDB(db)
  PROVE  Sound(Load(db), db)
<1> DEFINE x == {<<db.recs[op].inactiveHeight, op>> :
                   op \in {o \in DOMAIN db.recs : ~db.recs[o].active}}
           f == Load(db)
<1>1. /\ f.map = db.recs /\ f.index = x /\ f.dirty = {} /\ f.erased = {}
      /\ f.best = db.best /\ f.key = NullOutPoint
  BY DEF Load, CColdRewards
<1>2. x \in SUBSET (Nat \X OutPoints)
  BY DEF SoundDB, IsRewardDB, IsMap, RecordType
<1> HIDE DEF x
<1>3. IsEngine(f)
  <2>1. f \in [map : {f.map}, index : SUBSET (Nat \X OutPoints), dirty : SUBSET OutPoints,
               erased : SUBSET OutPoints, best : {f.best}, key : OutPoints \cup {NullOutPoint}]
    BY <1>1, <1>2 DEF Load, CColdRewards
  <2> HIDE DEF f
  <2> QED  BY <1>1, <2>1 DEF SoundDB, IsRewardDB, IsEngine
<1> HIDE DEF f
<1>4. Staged(f, db)
  BY <1>1 DEF Staged
<1> QED
  BY <1>1, <1>3, <1>4 DEF Sound, SoundDB, f

\* ClearForRebuild marks every record the database may still hold as erased.
LEMMA ClearForRebuildSound ==
  ASSUME NEW e, NEW db, Sound(e, db)
  PROVE  Sound(ClearForRebuild(e), db)
<1> DEFINE f == ClearForRebuild(e)
<1>1. /\ f.map = << >> /\ f.index = {} /\ f.dirty = {}
      /\ f.erased = e.erased \cup DOMAIN e.map
      /\ f.best = NullHash /\ f.key = e.key
  BY DEF ClearForRebuild, Sound, IsEngine
<1>2. DOMAIN f.map = {}
  BY <1>1
<1>3. IsEngine(f)
  <2>1. f \in [map : {f.map}, index : SUBSET (Nat \X OutPoints), dirty : SUBSET OutPoints,
               erased : SUBSET OutPoints, best : {f.best}, key : OutPoints \cup {NullOutPoint}]
    BY <1>1, EngineFields DEF ClearForRebuild, Sound, IsEngine
  <2> HIDE DEF f
  <2>2. IsMap(f.map, RecordType)
    BY <1>1 DEF IsMap
  <2>3. IsHash(f.best)
    BY <1>1 DEF IsHash
  <2> QED  BY <2>1, <2>2, <2>3 DEF IsEngine
<1> HIDE DEF f
<1>4. Staged(f, db)
  BY <1>1, <1>2 DEF Sound, Staged
<1> QED
  BY <1>2, <1>3, <1>4 DEF Sound, f

=============================================================================
