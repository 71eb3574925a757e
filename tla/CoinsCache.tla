----------------------------- MODULE CoinsCache -----------------------------
(***************************************************************************)
(* The set of unspent outputs: pcoinsTip (a CCoinsViewCache) over the      *)
(* chainstate database (CCoinsViewDB), with a second cache on top for the  *)
(* block being connected or disconnected, the database's partial batches,  *)
(* and ReplayBlocks, which repairs a database whose write was interrupted. *)
(* A coin is the height of the block that made it; the rest of the output  *)
(* is determined by its outpoint.                                          *)
(***************************************************************************)
EXTENDS Integers, FiniteSets

CONSTANTS Outpoints,   \* outputs transactions may create
          Coinbases,   \* those that are outputs of coinbase transactions
          MaxBlocks,   \* bound: blocks after the genesis block
          MaxStops,    \* bound: crashes
          MaxErrors    \* bound: failed database writes

ASSUME CoinsAssumption == Coinbases \subseteq Outpoints

VARIABLES index,     \* mapBlockIndex and the block files: block |-> record
          undo,      \* the undo files: block |-> outpoint |-> coin
          db,        \* chainstate: coins, DB_BEST_BLOCK, DB_HEAD_BLOCKS
          phase,     \* "down", "replay", "run" or "stopping"
          cache,     \* cacheCoins of the cache over the database
          best,      \* its hashBlock
          cursor,    \* ReplayBlocks: the block the cache is at
          flushing,  \* some of the cache is already in a written batch
          lost,      \* dirty outpoints that were in a batch that failed
          damaged,   \* a write was completed although some were lost
          stops, errors

vars == <<index, undo, db, phase, cache, best, cursor, flushing, lost, damaged,
          stops, errors>>
-----------------------------------------------------------------------------
(* One outpoint in one cache.  base is the coin that the view below        *)
(* returns for it, Spent when it has none.                                 *)

Spent == 0
Null == -1
NoEntry == [coin |-> -1, dirty |-> FALSE, fresh |-> FALSE]

Coins == Nat
Entries == [coin : Coins, dirty : BOOLEAN, fresh : BOOLEAN] \cup {NoEntry}

\* GetCoin: what a lookup returns.
Seen(e, base) == IF e = NoEntry THEN base ELSE e.coin

\* FetchCoin: a lookup that misses copies the coin of the view below.
FetchCoin(e, base) ==
  IF e = NoEntry /\ base # Spent
  THEN [coin |-> base, dirty |-> FALSE, fresh |-> FALSE] ELSE e

\* Mutant: the spend that is still to be written is forgotten.
AddCoinFresh(e, coin, possible_overwrite) ==
  [coin |-> coin, dirty |-> TRUE, fresh |-> e.fresh \/ ~possible_overwrite]

\* AddCoin; FRESH unless the entry holds a spend that the view below has
\* not been told of.
AddCoin(e, coin, possible_overwrite) ==
  [coin  |-> coin,
   dirty |-> TRUE,
   fresh |-> e.fresh \/ (~possible_overwrite /\ ~e.dirty)]

SpendCoin(e, base) ==
  LET f == FetchCoin(e, base)
  IN  IF f = NoEntry \/ f.fresh THEN NoEntry
      ELSE [coin |-> Spent, dirty |-> TRUE, fresh |-> FALSE]

\* Mutant: FRESH is copied down over a spent entry.
MergeFresh(us, it) ==
  IF ~it.dirty THEN us
  ELSE IF us = NoEntry
  THEN IF it.fresh /\ it.coin = Spent THEN NoEntry ELSE it
  ELSE IF us.fresh /\ it.coin = Spent THEN NoEntry
  ELSE [coin |-> it.coin, dirty |-> TRUE, fresh |-> us.fresh \/ it.fresh]

\* BatchWrite of a cache: the entry it of the cache above meets ours.
Merge(us, it) ==
  IF ~it.dirty THEN us
  ELSE IF us = NoEntry
  THEN IF it.fresh /\ it.coin = Spent THEN NoEntry ELSE it
  ELSE IF us.fresh /\ it.coin = Spent THEN NoEntry
  ELSE [us EXCEPT !.coin = it.coin, !.dirty = TRUE]

\* "FRESH flag misapplied".
MergeThrows(us, it) ==
  it.dirty /\ it.fresh /\ us # NoEntry /\ us.coin # Spent

\* Mutant: spent coins are not erased.
WrittenUnspent(e, stored) == IF e.dirty /\ e.coin # Spent THEN e.coin ELSE stored

\* BatchWrite of the database: what is stored for an entry.
Written(e, stored) == IF e.dirty THEN e.coin ELSE stored
-----------------------------------------------------------------------------
(* Blocks.                                                                 *)

Blocks == DOMAIN index
Height(b) == IF b = Null THEN 0 ELSE index[b].nHeight
Utxo(b) == IF b = Null THEN [o \in Outpoints |-> Spent] ELSE index[b].utxo

\* The outputs are added first, whatever their order in the block, then the
\* inputs are spent.
ApplyTxs(coins, height, creates, spends) ==
  [o \in Outpoints |-> IF o \in spends THEN Spent
                       ELSE IF o \in creates THEN height ELSE coins[o]]

\* AcceptBlock: a block that is valid on its parent.  BIP30 forbids to
\* create an output that is unspent, maturity to spend a coinbase at once.
NewBlock ==
  /\ phase = "run" /\ ~flushing
  /\ Cardinality(Blocks) <= MaxBlocks
  /\ \E p \in Blocks, creates \in SUBSET Outpoints, spends \in SUBSET Outpoints :
       LET n == Cardinality(Blocks)
           height == index[p].nHeight + 1
       IN /\ \A o \in creates : Utxo(p)[o] = Spent
          /\ \A o \in spends : Utxo(p)[o] # Spent \/ o \in creates \ Coinbases
          /\ index' = [b \in Blocks \cup {n} |->
               IF b # n THEN index[b]
               ELSE [prev |-> p, nHeight |-> height,
                     creates |-> creates, spends |-> spends,
                     chain |-> index[p].chain \cup {n},
                     utxo |-> ApplyTxs(Utxo(p), height, creates, spends)]]
  /\ UNCHANGED <<undo, db, phase, cache, best, cursor, flushing, lost, damaged,
                 stops, errors>>
-----------------------------------------------------------------------------
(* The entry of outpoint o in a cache with entry e over base after ...     *)

\* Mutant: outputs are added when their transaction is reached, not first.
OutputsLate(b, o, e) == e

\* ... ConnectBlock's AddCoins, check = false.
AfterOutputs(b, o, e) ==
  IF o \in index[b].creates THEN AddCoin(e, index[b].nHeight, o \in Coinbases) ELSE e

\* ... ConnectBlock.
Connected(b, o, e, base) ==
  LET e1 == AfterOutputs(b, o, e)
  IN  IF o \in index[b].spends THEN SpendCoin(e1, base) ELSE e1

\* ... RollforwardBlock: AddCoins with check = true, then the spends.
RolledForward(b, o, e, base) ==
  LET e1 == IF o \in index[b].creates
            THEN AddCoin(FetchCoin(e, base), index[b].nHeight, Seen(e, base) # Spent)
            ELSE e
  IN  IF o \in index[b].spends THEN SpendCoin(e1, base) ELSE e1

\* ... ApplyBlockUndo's first loop, UndoCoinSpend.
Restored(b, o, e, base) ==
  IF o \in index[b].spends
  THEN AddCoin(FetchCoin(e, base), undo[b][o], Seen(e, base) # Spent) ELSE e

\* ... ApplyBlockUndo.
Disconnected(b, o, e, base) ==
  LET e1 == Restored(b, o, e, base)
  IN  IF o \in index[b].creates THEN SpendCoin(e1, base) ELSE e1

\* DISCONNECT_OK rather than DISCONNECT_UNCLEAN.
Clean(b, o, e, base) ==
  /\ o \in index[b].spends => Seen(e, base) = Spent
  /\ o \in index[b].creates =>
       Seen(Restored(b, o, e, base), base) = index[b].nHeight
-----------------------------------------------------------------------------
(* Running, under cs_main: pcoinsTip is cache, the view of a block starts  *)
(* empty on top of it.                                                     *)

Lookup(o) == Seen(cache[o], db.coins[o])

\* The block's lookups reach through to pcoinsTip.
Touched(b) == index[b].creates \cup index[b].spends
TipEntry(b, o) ==
  IF o \in Touched(b) THEN FetchCoin(cache[o], db.coins[o]) ELSE cache[o]

\* Inputs are found, and no logic_error is thrown.
ConnectOK(b) ==
  \A o \in Outpoints :
    /\ o \in index[b].creates => Lookup(o) = Spent
    /\ o \in index[b].spends => Seen(AfterOutputs(b, o, NoEntry), Lookup(o)) # Spent
    /\ ~MergeThrows(TipEntry(b, o), Connected(b, o, NoEntry, Lookup(o)))

DisconnectOK(b) ==
  \A o \in Outpoints :
    /\ Clean(b, o, NoEntry, Lookup(o))
    /\ ~MergeThrows(TipEntry(b, o), Disconnected(b, o, NoEntry, Lookup(o)))

\* ConnectTip up to the flush of its view; the genesis block changes no coin.
ConnectTip(b) ==
  /\ phase = "run" /\ ~flushing
  /\ index[b].prev = best
  /\ ConnectOK(b)
  /\ cache' = [o \in Outpoints |->
                 Merge(TipEntry(b, o), Connected(b, o, NoEntry, Lookup(o)))]
  /\ best' = b
  /\ undo' = IF b \in DOMAIN undo THEN undo
             ELSE [c \in DOMAIN undo \cup {b} |->
                     IF c = b THEN [o \in index[b].spends |->
                                      Seen(AfterOutputs(b, o, NoEntry), Lookup(o))]
                     ELSE undo[c]]
  /\ UNCHANGED <<index, db, phase, cursor, flushing, lost, damaged, stops, errors>>

\* DisconnectTip; the genesis block is never disconnected.
DisconnectTip ==
  /\ phase = "run" /\ ~flushing
  /\ best # Null /\ Height(best) > 0
  /\ DisconnectOK(best)
  /\ cache' = [o \in Outpoints |->
                 Merge(TipEntry(best, o), Disconnected(best, o, NoEntry, Lookup(o)))]
  /\ best' = index[best].prev
  /\ UNCHANGED <<index, undo, db, phase, cursor, flushing, lost, damaged, stops, errors>>

\* A lookup by the mempool, by an RPC call, or for a block found invalid.
AccessCoin(o) ==
  /\ phase = "run" /\ ~flushing
  /\ cache' = [cache EXCEPT ![o] = FetchCoin(cache[o], db.coins[o])]
  /\ UNCHANGED <<index, undo, db, phase, best, cursor, flushing, lost, damaged, stops, errors>>

\* Mutant: a modified entry is dropped.
UncacheAny(o) ==
  /\ phase = "run" /\ ~flushing
  /\ cache' = [cache EXCEPT ![o] = NoEntry]
  /\ UNCHANGED <<index, undo, db, phase, best, cursor, flushing, lost, damaged, stops, errors>>

\* Uncache: only an entry without flags.
Uncache(o) ==
  /\ phase = "run" /\ ~flushing
  /\ ~cache[o].dirty /\ ~cache[o].fresh
  /\ cache' = [cache EXCEPT ![o] = NoEntry]
  /\ UNCHANGED <<index, undo, db, phase, best, cursor, flushing, lost, damaged, stops, errors>>
-----------------------------------------------------------------------------
(* Flush: CCoinsViewDB::BatchWrite moves the entries into batches, in the  *)
(* order of a hash table, and writes a batch when it has grown too large.  *)

Present == {o \in Outpoints : cache[o] # NoEntry}
Without(S) == [o \in Outpoints |-> IF o \in S THEN NoEntry ELSE cache[o]]

CanWrite == \/ phase \in {"run", "stopping"} /\ best # Null
            \/ phase = "replay" /\ flushing

\* Mutant: an interrupted write is not continued from where it started.
old_tip_best == db.best

\* The transition recorded in DB_HEAD_BLOCKS; computed once per write.
old_tip == IF db.best # Null THEN db.best ELSE db.heads.from

CoinsWith(S) == [o \in Outpoints |-> IF o \in S THEN Written(cache[o], db.coins[o])
                                     ELSE db.coins[o]]

WritePartialBatch(S) ==
  /\ CanWrite /\ S # {} /\ S \subseteq Present
  /\ db' = [coins |-> CoinsWith(S), best |-> Null,
            heads |-> [to |-> best, from |-> old_tip]]
  /\ cache' = Without(S)
  /\ flushing' = TRUE
  /\ UNCHANGED <<index, undo, phase, best, cursor, lost, damaged, stops, errors>>

\* The last batch; the cache is then cleared.  After ReplayBlocks the tip is
\* loaded from the database, after the shutdown's flush the process ends.
WriteLastBatch ==
  /\ CanWrite
  /\ db' = [coins |-> CoinsWith(Outpoints), best |-> best,
            heads |-> [to |-> Null, from |-> Null]]
  /\ cache' = Without(Outpoints)
  /\ flushing' = FALSE
  /\ phase' = IF phase = "stopping" THEN "down" ELSE "run"
  /\ best' = IF phase = "stopping" THEN Null ELSE best
  /\ cursor' = Null
  /\ damaged' = (damaged \/ lost # {})
  /\ lost' = {}
  /\ UNCHANGED <<index, undo, stops, errors>>

\* WriteBatch throws.  The entries of the batch are gone from the cache;
\* FlushStateToDisk aborts the node, whose shutdown will flush the others.
WriteFails(S) ==
  /\ errors < MaxErrors
  /\ phase \in {"run", "stopping"} /\ best # Null
  /\ S \subseteq Present
  /\ cache' = Without(S)
  /\ lost' = lost \cup {o \in S : cache[o].dirty}
  /\ phase' = "stopping"
  /\ flushing' = FALSE
  /\ errors' = errors + 1
  /\ UNCHANGED <<index, undo, db, best, cursor, damaged, stops>>
-----------------------------------------------------------------------------
(* Crash and startup.                                                      *)

Crash ==
  /\ stops < MaxStops
  /\ phase # "down"
  /\ phase' = "down"
  /\ cache' = Without(Outpoints)
  /\ best' = Null /\ cursor' = Null
  /\ flushing' = FALSE /\ lost' = {}
  /\ stops' = stops + 1
  /\ UNCHANGED <<index, undo, db, damaged, errors>>

\* ReplayBlocks returns at once when the database is consistent.  What a node
\* does on a damaged database is not followed.
Startup ==
  /\ phase = "down" /\ ~damaged
  /\ IF db.heads.to = Null
     THEN phase' = "run" /\ best' = db.best /\ UNCHANGED cursor
     ELSE phase' = "replay" /\ cursor' = db.heads.from /\ UNCHANGED best
  /\ UNCHANGED <<index, undo, db, cache, flushing, lost, damaged, stops, errors>>

\* The rollback ends at the last common ancestor, the first block on the
\* way down that is an ancestor of the new tip.
AtFork == cursor = Null \/ cursor \in index[db.heads.to].chain

RollbackBlock ==
  /\ phase = "replay" /\ ~flushing /\ ~AtFork
  /\ cache' = [o \in Outpoints |-> Disconnected(cursor, o, cache[o], db.coins[o])]
  /\ cursor' = index[cursor].prev
  /\ UNCHANGED <<index, undo, db, phase, best, flushing, lost, damaged, stops, errors>>

\* Mutant: the loop does not advance.
SameAncestor == CHOOSE b \in index[db.heads.to].chain :
                  index[b].nHeight = Height(cursor)

\* GetAncestor(nHeight) of the new tip, nHeight from nForkHeight + 1.
NextAncestor == CHOOSE b \in index[db.heads.to].chain :
                  index[b].nHeight = Height(cursor) + 1

RollforwardBlock ==
  /\ phase = "replay" /\ ~flushing /\ AtFork
  /\ Height(cursor) < Height(db.heads.to)
  /\ cache' = [o \in Outpoints |-> RolledForward(NextAncestor, o, cache[o], db.coins[o])]
  /\ cursor' = NextAncestor
  /\ UNCHANGED <<index, undo, db, phase, best, flushing, lost, damaged, stops, errors>>

\* SetBestBlock and Flush, which writes in batches like any other.
ReplayDone ==
  /\ phase = "replay" /\ ~flushing /\ AtFork
  /\ Height(cursor) = Height(db.heads.to)
  /\ best' = db.heads.to
  /\ flushing' = TRUE
  /\ UNCHANGED <<index, undo, db, phase, cache, cursor, lost, damaged, stops, errors>>
-----------------------------------------------------------------------------
Genesis == [prev |-> Null, nHeight |-> 0, creates |-> {}, spends |-> {},
            chain |-> {0}, utxo |-> [o \in Outpoints |-> Spent]]

Init == /\ index = [b \in {0} |-> Genesis]
        /\ undo = [b \in {} |-> 0]
        /\ db = [coins |-> [o \in Outpoints |-> Spent], best |-> Null,
                 heads |-> [to |-> Null, from |-> Null]]
        /\ phase = "down"
        /\ cache = [o \in Outpoints |-> NoEntry]
        /\ best = Null /\ cursor = Null
        /\ flushing = FALSE /\ lost = {} /\ damaged = FALSE
        /\ stops = 0 /\ errors = 0

Next == \/ NewBlock
        \/ \E b \in Blocks : ConnectTip(b)
        \/ DisconnectTip
        \/ \E o \in Outpoints : AccessCoin(o) \/ Uncache(o)
        \/ \E S \in SUBSET Outpoints : WritePartialBatch(S) \/ WriteFails(S)
        \/ WriteLastBatch
        \/ Crash \/ Startup
        \/ RollbackBlock \/ RollforwardBlock \/ ReplayDone

Spec == Init /\ [][Next]_vars

\* Startup is not put off, and its loops and writes go on.
Recovery == \/ Startup \/ RollbackBlock \/ RollforwardBlock \/ ReplayDone
            \/ phase \in {"replay", "stopping"} /\ WriteLastBatch
FairSpec == Spec /\ WF_vars(Recovery)
-----------------------------------------------------------------------------
(* Properties.                                                             *)

BlockRecords ==
  [prev : Blocks \cup {Null}, nHeight : Nat, creates : SUBSET Outpoints,
   spends : SUBSET Outpoints, chain : SUBSET Blocks, utxo : [Outpoints -> Coins]]

\* The shape of the block index, the undo files, the database and the cache.
TypeOK ==
  /\ Blocks = 0 .. Cardinality(Blocks) - 1 /\ IsFiniteSet(Blocks) /\ 0 \in Blocks
  /\ index \in [Blocks -> BlockRecords]
  /\ DOMAIN undo \subseteq Blocks
  /\ \A b \in DOMAIN undo : undo[b] \in [index[b].spends -> Coins \ {Spent}]
  /\ db \in [coins : [Outpoints -> Coins], best : Blocks \cup {Null},
             heads : [to : Blocks \cup {Null}, from : Blocks \cup {Null}]]
  /\ phase \in {"down", "replay", "run", "stopping"}
  /\ cache \in [Outpoints -> Entries]
  /\ best \in Blocks \cup {Null} /\ cursor \in Blocks \cup {Null}
  /\ flushing \in BOOLEAN /\ lost \subseteq Outpoints /\ damaged \in BOOLEAN
  /\ stops \in Nat /\ errors \in Nat

\* However blocks are connected and disconnected, coins fetched and dropped,
\* and the cache written in part or whole, a lookup in pcoinsTip returns what
\* the blocks up to its best block leave.
LookupsExact ==
  phase = "run" /\ ~damaged => \A o \in Outpoints : Lookup(o) = Utxo(best)[o]

\* A database that names a best block holds exactly that block's coins, also
\* after crashes between batches and during the replay that repairs them:
\* "mark the database as consistent with hashBlock again" (txdb.cpp).
DatabaseAtBest == db.best # Null /\ ~damaged => db.coins = Utxo(db.best)

\* FRESH is only set when the view below has no unspent coin: otherwise a
\* spend would be dropped instead of written (coins.h).
FreshIsAbsent ==
  ~damaged => \A o \in Outpoints : cache[o].fresh => db.coins[o] = Spent

\* A block that is valid on the tip connects and the tip disconnects cleanly:
\* inputs are found, the undo data fits, and neither AddCoin nor BatchWrite
\* throws the logic_error of a misused flag.
StepsNeverFail ==
  phase = "run" /\ ~flushing /\ ~damaged =>
    /\ \A b \in Blocks : index[b].prev = best => ConnectOK(b)
    /\ best # Null /\ Height(best) > 0 => best \in DOMAIN undo /\ DisconnectOK(best)

\* A database in the middle of a write mixes the coins of the two blocks in
\* DB_HEAD_BLOCKS and no others, and only a write to the same block may
\* continue it (the assertion in BatchWrite).
HeadsDescribeMixture ==
  db.heads.to # Null /\ ~damaged =>
    /\ db.best = Null
    /\ CanWrite => db.heads.to = best
    /\ \A o \in Outpoints :
         db.coins[o] \in {Utxo(db.heads.from)[o], Utxo(db.heads.to)[o]}

\* The abstract store: an interrupted write counts as done from its first
\* batch on, since the replay completes it.
Up == phase \in {"run", "stopping"}
storeMode == IF phase = "run" THEN "up" ELSE IF phase = "stopping" THEN "stopping" ELSE "down"
storeTip == IF Up THEN best ELSE Null
storeCoins == [o \in Outpoints |-> IF Up THEN Lookup(o) ELSE Spent]
savedTip == IF db.heads.to # Null THEN db.heads.to ELSE db.best
savedCoins == IF db.heads.to # Null THEN Utxo(db.heads.to) ELSE db.coins
storeSound == damaged = FALSE

Store == INSTANCE UtxoStore WITH
  blocks <- index, mode <- storeMode, tip <- storeTip, coins <- storeCoins,
  saved <- savedTip, stored <- savedCoins, sound <- storeSound

\* Cache, database and replay together behave like one set of coins that is
\* saved in single steps.
ImplementsUtxoStore == Store!Spec

\* After a crash the node comes up again: the replay terminates wherever the
\* write or an earlier replay was interrupted.
Recovers == phase = "down" /\ ~damaged ~> phase = "run"
=============================================================================
