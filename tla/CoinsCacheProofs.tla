-------------------------- MODULE CoinsCacheProofs ---------------------------
(***************************************************************************)
(* The cache's flags lose no coin, a database that names a best block      *)
(* holds its coins, a replay completes any interrupted write, and cache,   *)
(* database and replay implement UtxoStore: for any outpoints, any block   *)
(* tree, and any number of crashes and failed writes.                      *)
(***************************************************************************)
EXTENDS CoinsCache, FiniteSetTheorems, TLAPS

(***************************************************************************)
(* One entry.                                                              *)
(***************************************************************************)

\* An entry agrees with the coin of the view below: unmodified, it is a copy;
\* FRESH, the view below has nothing and the entry has something to add.
EntryOK(e, base) ==
  /\ e \in Entries /\ base \in Coins
  /\ e # NoEntry /\ e.dirty = FALSE => e.coin = base /\ base # Spent /\ e.fresh = FALSE
  /\ e # NoEntry /\ e.fresh = TRUE => base = Spent /\ e.coin # Spent

\* The fields of an entry, and what tells an entry from none.
LEMMA EntryFields ==
  ASSUME NEW e \in Entries
  PROVE  /\ e.dirty \in BOOLEAN /\ e.fresh \in BOOLEAN
         /\ e # NoEntry => e.coin \in Coins
         /\ e = NoEntry => e.dirty = FALSE /\ e.fresh = FALSE
<1>1. NoEntry.dirty = FALSE /\ NoEntry.fresh = FALSE
  BY Zenon DEF NoEntry
<1>2. CASE e = NoEntry
  BY Zenon, <1>1, <1>2
<1>3. CASE e # NoEntry
  <2>1. e \in [coin : Coins, dirty : BOOLEAN, fresh : BOOLEAN]
    BY Zenon, <1>3 DEF Entries
  <2>. QED
    BY Zenon, <1>3, <2>1
<1>. QED
  BY Zenon, <1>2, <1>3

\* A record with a coin is an entry, and not the missing one.
LEMMA MakeEntry ==
  ASSUME NEW c \in Coins, NEW d \in BOOLEAN, NEW f \in BOOLEAN,
         NEW e, e = [coin |-> c, dirty |-> d, fresh |-> f]
  PROVE  e \in Entries /\ e # NoEntry /\ e.coin = c /\ e.dirty = d /\ e.fresh = f
<1>1. e.coin = c /\ e.dirty = d /\ e.fresh = f /\ e \in [coin : Coins, dirty : BOOLEAN, fresh : BOOLEAN]
  BY Zenon
<1>2. NoEntry.coin = -1 /\ c # -1
  BY DEF NoEntry, Coins
<1>. QED
  BY Zenon, <1>1, <1>2 DEF Entries

LEMMA DirtyEntry ==
  ASSUME NEW c \in Coins, NEW f \in BOOLEAN, NEW e, e = [coin |-> c, dirty |-> TRUE, fresh |-> f]
  PROVE  e \in Entries /\ e # NoEntry /\ e.coin = c /\ e.dirty = TRUE /\ e.fresh = f
<1>1. e.coin = c /\ e.dirty = TRUE /\ e.fresh = f /\ e \in [coin : Coins, dirty : BOOLEAN, fresh : BOOLEAN]
  BY Zenon
<1>2. NoEntry.coin = -1 /\ c # -1
  BY DEF NoEntry, Coins
<1>. QED
  BY Zenon, <1>1, <1>2 DEF Entries

\* A lookup that fetches returns and keeps what the view below has.
LEMMA FetchLemma ==
  ASSUME NEW e, NEW base, EntryOK(e, base)
  PROVE  /\ EntryOK(FetchCoin(e, base), base)
         /\ Seen(FetchCoin(e, base), base) = Seen(e, base)
         /\ Seen(e, base) \in Coins
         /\ FetchCoin(e, base) = NoEntry => base = Spent /\ e = NoEntry
<1>1. CASE e = NoEntry /\ base # Spent
  <2>. DEFINE f == [coin |-> base, dirty |-> FALSE, fresh |-> FALSE]
  <2>1. FetchCoin(e, base) = f
    BY Zenon, <1>1 DEF FetchCoin
  <2>2. f \in Entries /\ f # NoEntry /\ f.coin = base /\ f.dirty = FALSE /\ f.fresh = FALSE
    BY ZenonT(60), MakeEntry DEF EntryOK
  <2>. HIDE DEF f
  <2>. QED
    BY Zenon, <1>1, <2>1, <2>2 DEF EntryOK, Seen
<1>2. CASE ~(e = NoEntry /\ base # Spent)
  BY Zenon, <1>2, EntryFields DEF EntryOK, Seen, FetchCoin
<1>. QED
  BY Zenon, <1>1, <1>2

\* A modified entry with an unspent coin, FRESH only over a view without one.
LEMMA AddedEntry ==
  ASSUME NEW base \in Coins, NEW coin \in Coins, coin # Spent,
         NEW fr \in BOOLEAN, fr = TRUE => base = Spent,
         NEW f, f = [coin |-> coin, dirty |-> TRUE, fresh |-> fr]
  PROVE  EntryOK(f, base) /\ Seen(f, base) = coin
<1>1. f \in Entries /\ f # NoEntry /\ f.coin = coin /\ f.dirty = TRUE /\ f.fresh = fr
  BY Zenon, DirtyEntry
<1>. QED
  BY Zenon, <1>1 DEF EntryOK, Seen

\* FRESH of an entry, or of one that is unmodified where lookups find nothing, means
\* that the view below has nothing.
LEMMA FreshBase ==
  ASSUME NEW e, NEW base, EntryOK(e, base)
  PROVE  /\ e.fresh = TRUE => base = Spent
         /\ e.dirty = FALSE /\ Seen(e, base) = Spent => base = Spent
         /\ e.fresh \in BOOLEAN /\ e.dirty \in BOOLEAN /\ base \in Coins
  BY Zenon, EntryFields DEF EntryOK, Seen

\* AddCoin of an unspent coin, where an overwrite that is not announced meets none.
LEMMA AddIfLemma ==
  ASSUME NEW e, NEW base, EntryOK(e, base), NEW coin \in Coins, coin # Spent,
         NEW x, NEW S, x \notin S => Seen(e, base) = Spent
  PROVE  /\ EntryOK(AddCoin(e, coin, x \in S), base)
         /\ Seen(AddCoin(e, coin, x \in S), base) = coin
<1>. DEFINE fr == e.fresh \/ (~(x \in S) /\ ~e.dirty)
            f == AddCoin(e, coin, x \in S)
<1>1. fr \in BOOLEAN /\ f = [coin |-> coin, dirty |-> TRUE, fresh |-> fr]
  BY Zenon DEF AddCoin
<1>2. (fr = TRUE => base = Spent) /\ base \in Coins
  BY Zenon, FreshBase
<1>. HIDE DEF fr, f
<1>3. EntryOK(f, base) /\ Seen(f, base) = coin
  BY ZenonT(60), <1>1, <1>2, AddedEntry
<1>. QED
  BY Zenon, <1>3 DEF f

LEMMA AddOverLemma ==
  ASSUME NEW e, NEW base, EntryOK(e, base), NEW coin \in Coins, coin # Spent
  PROVE  LET f == FetchCoin(e, base)
         IN  /\ EntryOK(AddCoin(f, coin, Seen(e, base) # Spent), base)
             /\ Seen(AddCoin(f, coin, Seen(e, base) # Spent), base) = coin
<1>. DEFINE f == FetchCoin(e, base)
            fr == f.fresh \/ (~(Seen(e, base) # Spent) /\ ~f.dirty)
            g == AddCoin(f, coin, Seen(e, base) # Spent)
<1>1. EntryOK(f, base) /\ Seen(f, base) = Seen(e, base)
  BY Zenon, FetchLemma
<1>2. fr \in BOOLEAN /\ g = [coin |-> coin, dirty |-> TRUE, fresh |-> fr]
  BY Zenon DEF AddCoin
<1>. HIDE DEF f
<1>3. (fr = TRUE => base = Spent) /\ base \in Coins
  BY Zenon, <1>1, FreshBase
<1>. HIDE DEF fr, g
<1>4. EntryOK(g, base) /\ Seen(g, base) = coin
  BY ZenonT(60), <1>2, <1>3, AddedEntry
<1>. QED
  BY Zenon, <1>4 DEF g, f

\* Spending: the outpoint is spent, whatever was there.
LEMMA SpendLemma ==
  ASSUME NEW e, NEW base, EntryOK(e, base)
  PROVE  /\ EntryOK(SpendCoin(e, base), base)
         /\ Seen(SpendCoin(e, base), base) = Spent
<1>. DEFINE f == FetchCoin(e, base)
            s == [coin |-> Spent, dirty |-> TRUE, fresh |-> FALSE]
<1>1. EntryOK(f, base) /\ (f = NoEntry => base = Spent)
  BY Zenon, FetchLemma
<1>2. s \in Entries /\ s # NoEntry /\ s.coin = Spent /\ s.dirty = TRUE /\ s.fresh = FALSE
  BY Zenon, MakeEntry DEF Coins, Spent
<1>3. SpendCoin(e, base) = IF f = NoEntry \/ f.fresh THEN NoEntry ELSE s
  BY Zenon DEF SpendCoin
<1>. HIDE DEF f, s
<1>4. CASE f = NoEntry \/ f.fresh = TRUE
  <2>1. base = Spent /\ SpendCoin(e, base) = NoEntry
    BY Zenon, <1>1, <1>3, <1>4 DEF EntryOK
  <2>. QED
    BY Zenon, <1>1, <2>1 DEF EntryOK, Seen, Entries
<1>5. CASE f # NoEntry /\ f.fresh = FALSE
  BY Zenon, <1>1, <1>2, <1>3, <1>5 DEF EntryOK, Seen
<1>. QED
  BY Zenon, <1>1, <1>4, <1>5, EntryFields DEF EntryOK

\* BatchWrite of a cache: the lower entry then shows what the upper one did, and
\* the logic_error is not thrown.
LEMMA MergeLemma ==
  ASSUME NEW us, NEW base, EntryOK(us, base), NEW it, EntryOK(it, Seen(us, base))
  PROVE  /\ EntryOK(Merge(us, it), base)
         /\ Seen(Merge(us, it), base) = Seen(it, Seen(us, base))
         /\ ~MergeThrows(us, it)
<1>1. us \in Entries /\ it \in Entries /\ base \in Coins
  BY Zenon DEF EntryOK
<1>2. it = NoEntry => it.dirty = FALSE
  BY Zenon, <1>1, EntryFields
<1>3. CASE it.dirty = FALSE
  BY Zenon, <1>1, <1>2, <1>3 DEF EntryOK, Seen, Merge, MergeThrows
<1>4. CASE it.dirty = TRUE /\ us = NoEntry
  <2>1. Merge(us, it) = it
    BY Zenon, <1>1, <1>2, <1>4, EntryFields DEF Merge, EntryOK
  <2>. QED
    BY Zenon, <1>1, <1>2, <1>4, <2>1 DEF EntryOK, Seen, MergeThrows
<1>5. CASE it.dirty = TRUE /\ us # NoEntry /\ us.fresh = TRUE /\ it.coin = Spent
  <2>1. Merge(us, it) = NoEntry
    BY Zenon, <1>5 DEF Merge
  <2>. QED
    BY Zenon, <1>1, <1>2, <1>5, <2>1 DEF EntryOK, Seen, MergeThrows, Entries
<1>6. CASE it.dirty = TRUE /\ us # NoEntry /\ ~(us.fresh = TRUE /\ it.coin = Spent)
  <2>. DEFINE m == Merge(us, it)
  <2>1. us.fresh \in BOOLEAN /\ it.coin \in Coins
    BY Zenon, <1>1, <1>2, <1>6, EntryFields
  <2>2. us \in [coin : Coins, dirty : BOOLEAN, fresh : BOOLEAN]
    BY Zenon, <1>1, <1>6 DEF Entries
  <2>3. m = [us EXCEPT !.coin = it.coin, !.dirty = TRUE]
    BY Zenon, <1>6, <2>1 DEF Merge
  <2>4. m = [coin |-> it.coin, dirty |-> TRUE, fresh |-> us.fresh]
    BY Zenon, <2>2, <2>3
  <2>. HIDE DEF m
  <2>5. m \in Entries /\ m # NoEntry /\ m.coin = it.coin /\ m.dirty = TRUE /\ m.fresh = us.fresh
    BY ZenonT(60), <2>1, <2>4, DirtyEntry
  <2>. QED
    BY Zenon, <1>1, <1>2, <1>6, <2>1, <2>5 DEF EntryOK, Seen, MergeThrows, m
<1>. QED
  BY Zenon, <1>1, <1>3, <1>4, <1>5, <1>6, EntryFields

(***************************************************************************)
(* One outpoint under the whole of a block's transactions.                 *)
(***************************************************************************)

\* What connecting b makes of a coin.
Effect(b, o, coin) ==
  IF o \in index[b].spends THEN Spent
  ELSE IF o \in index[b].creates THEN index[b].nHeight ELSE coin

\* ConnectBlock on a view without the outputs it creates.
LEMMA ConnectedLemma ==
  ASSUME NEW b, NEW o, NEW e, NEW base, EntryOK(e, base),
         o \in index[b].creates => /\ index[b].nHeight \in Coins \ {Spent}
                                   /\ Seen(e, base) = Spent
  PROVE  /\ EntryOK(Connected(b, o, e, base), base)
         /\ Seen(Connected(b, o, e, base), base) = Effect(b, o, Seen(e, base))
<1>. DEFINE e1 == AfterOutputs(b, o, e)
<1>1. /\ EntryOK(e1, base)
      /\ Seen(e1, base) = IF o \in index[b].creates THEN index[b].nHeight ELSE Seen(e, base)
  BY AddIfLemma DEF AfterOutputs
<1>2. Connected(b, o, e, base) = IF o \in index[b].spends THEN SpendCoin(e1, base) ELSE e1
  BY Zenon DEF Connected
<1>. HIDE DEF e1
<1>. QED
  BY Zenon, <1>1, <1>2, SpendLemma DEF Effect

\* RollforwardBlock on any view.
LEMMA RolledForwardLemma ==
  ASSUME NEW b, NEW o, NEW e, NEW base, EntryOK(e, base),
         o \in index[b].creates => index[b].nHeight \in Coins \ {Spent}
  PROVE  /\ EntryOK(RolledForward(b, o, e, base), base)
         /\ Seen(RolledForward(b, o, e, base), base) = Effect(b, o, Seen(e, base))
<1>. DEFINE e1 == IF o \in index[b].creates
                  THEN AddCoin(FetchCoin(e, base), index[b].nHeight, Seen(e, base) # Spent)
                  ELSE e
<1>1. /\ EntryOK(e1, base)
      /\ Seen(e1, base) = IF o \in index[b].creates THEN index[b].nHeight ELSE Seen(e, base)
  <2>1. CASE o \in index[b].creates
    BY <2>1, AddOverLemma
  <2>. QED
    BY Zenon, <2>1
<1>2. RolledForward(b, o, e, base) = IF o \in index[b].spends THEN SpendCoin(e1, base) ELSE e1
  BY Zenon DEF RolledForward
<1>. HIDE DEF e1
<1>. QED
  BY Zenon, <1>1, <1>2, SpendLemma DEF Effect

\* ApplyBlockUndo on any view.
LEMMA DisconnectedLemma ==
  ASSUME NEW b, NEW o, NEW e, NEW base, EntryOK(e, base),
         o \in index[b].spends => undo[b][o] \in Coins \ {Spent}
  PROVE  /\ EntryOK(Disconnected(b, o, e, base), base)
         /\ Seen(Disconnected(b, o, e, base), base) =
              IF o \in index[b].creates THEN Spent
              ELSE IF o \in index[b].spends THEN undo[b][o] ELSE Seen(e, base)
         /\ Seen(Restored(b, o, e, base), base) =
              IF o \in index[b].spends THEN undo[b][o] ELSE Seen(e, base)
<1>. DEFINE e1 == Restored(b, o, e, base)
<1>1. /\ EntryOK(e1, base)
      /\ Seen(e1, base) = IF o \in index[b].spends THEN undo[b][o] ELSE Seen(e, base)
  <2>1. CASE o \in index[b].spends
    BY <2>1, AddOverLemma DEF Restored
  <2>. QED
    BY Zenon, <2>1 DEF Restored
<1>2. Disconnected(b, o, e, base) = IF o \in index[b].creates THEN SpendCoin(e1, base) ELSE e1
  BY Zenon DEF Disconnected
<1>. HIDE DEF e1
<1>. QED
  BY Zenon, <1>1, <1>2, SpendLemma DEF e1

(***************************************************************************)
(* The inductive invariant.                                                *)
(***************************************************************************)

\* Every block is valid on its parent.
ValidBlocks ==
  \A b \in Blocks : \A o \in Outpoints :
    /\ index[b].utxo[o] = Effect(b, o, Utxo(index[b].prev)[o])
    /\ o \in index[b].creates => Utxo(index[b].prev)[o] = Spent /\ index[b].nHeight # 0
    /\ o \in index[b].spends => o \in index[b].creates \/ Utxo(index[b].prev)[o] # Spent

\* The block index is a tree, and chain is the path to the root.
Tree ==
  /\ index[0].nHeight = 0 /\ index[0].prev = Null /\ index[0].chain = {0}
  /\ \A b \in Blocks \ {0} :
       /\ index[b].prev \in Blocks /\ index[b].nHeight = index[index[b].prev].nHeight + 1
       /\ index[b].chain = index[index[b].prev].chain \cup {b}
  /\ \A b \in Blocks : b \in index[b].chain /\ 0 \in index[b].chain
  /\ \A b \in Blocks : \A c \in index[b].chain :
       /\ index[c].nHeight <= index[b].nHeight
       /\ c # 0 => index[c].prev \in index[b].chain
       /\ \A d \in index[b].chain : index[c].nHeight = index[d].nHeight => c = d
  /\ \A b \in Blocks : \A h \in 0 .. index[b].nHeight :
       \E c \in index[b].chain : index[c].nHeight = h

\* An undo record holds what the block spent, and the blocks that the tip, the
\* database or the replay is at have one, like all their ancestors.
UndoOK ==
  /\ \A b \in DOMAIN undo : \A o \in index[b].spends :
       undo[b][o] = IF o \in index[b].creates THEN index[b].nHeight
                    ELSE Utxo(index[b].prev)[o]
  /\ \A b \in DOMAIN undo : /\ index[b].prev \in DOMAIN undo \cup {Null}
                            /\ index[b].chain \subseteq DOMAIN undo
  /\ {best, cursor, db.best, db.heads.to, db.heads.from} \subseteq DOMAIN undo \cup {Null}

CacheOK == \A o \in Outpoints : EntryOK(cache[o], db.coins[o])

\* What each phase leaves alone.
Phases ==
  /\ phase = "down" => /\ best = Null /\ flushing = FALSE
                       /\ \A o \in Outpoints : cache[o] = NoEntry
  /\ phase # "replay" => cursor = Null
  /\ phase # "stopping" => lost = {}
  /\ phase = "stopping" => best # Null /\ flushing \in BOOLEAN
  /\ phase = "replay" => db.heads.to # Null
  /\ damaged = TRUE => phase = "down" /\ db.heads.to = Null
  /\ \A o \in lost : cache[o] = NoEntry

\* What memory shows.
Memory ==
  /\ phase = "run" => \A o \in Outpoints : Lookup(o) = Utxo(best)[o]
  /\ phase = "stopping" => \A o \in Outpoints \ lost : Lookup(o) = Utxo(best)[o]
  /\ phase = "replay" /\ flushing = FALSE =>
       \A o \in Outpoints : Lookup(o) \in {Utxo(cursor)[o], Utxo(db.heads.to)[o]}
  /\ phase = "replay" /\ flushing = TRUE =>
       best = db.heads.to /\ \A o \in Outpoints : Lookup(o) = Utxo(best)[o]

\* What the database holds.
Database ==
  /\ db.heads.to = Null =>
       /\ db.heads.from = Null
       /\ damaged = FALSE => \A o \in Outpoints : db.coins[o] = Utxo(db.best)[o]
  /\ db.heads.to # Null =>
       /\ db.best = Null
       /\ phase \in {"run", "stopping"} => best = db.heads.to
       /\ phase = "run" => flushing = TRUE
       /\ \A o \in Outpoints :
            db.coins[o] \in {Utxo(db.heads.from)[o], Utxo(db.heads.to)[o]}

Inv == /\ TypeOK /\ Tree /\ ValidBlocks /\ UndoOK
       /\ CacheOK /\ Phases /\ Memory /\ Database

(***************************************************************************)
(* Facts about single states.                                              *)
(***************************************************************************)

LEMMA Types ==
  ASSUME Inv
  PROVE  /\ Null \notin Blocks /\ DOMAIN undo \subseteq Blocks /\ 0 \in Blocks
         /\ \A b \in Blocks \cup {Null} : Utxo(b) \in [Outpoints -> Coins]
         /\ \A b \in Blocks : /\ index[b].prev \in Blocks \cup {Null}
                              /\ index[b].nHeight \in Nat
                              /\ index[b].chain \subseteq Blocks
                              /\ Utxo(b) = index[b].utxo
         /\ \A o \in Outpoints : db.coins[o] \in Coins /\ cache[o] \in Entries
<1>1. /\ Blocks = 0 .. Cardinality(Blocks) - 1 /\ 0 \in Blocks /\ DOMAIN undo \subseteq Blocks
      /\ index \in [Blocks -> BlockRecords] /\ cache \in [Outpoints -> Entries]
      /\ db.coins \in [Outpoints -> Coins]
  BY Zenon DEF Inv, TypeOK
<1>2. Null \notin Blocks
  <2>1. Cardinality(Blocks) \in Nat
    BY Zenon, FS_CardinalityType DEF Inv, TypeOK
  <2>. QED
    BY <1>1, <2>1 DEF Null
<1>3. ASSUME NEW b \in Blocks
      PROVE  /\ index[b].prev \in Blocks \cup {Null} /\ index[b].nHeight \in Nat
             /\ index[b].chain \subseteq Blocks /\ index[b].utxo \in [Outpoints -> Coins]
             /\ Utxo(b) = index[b].utxo
  BY Zenon, <1>1, <1>2 DEF BlockRecords, Utxo
<1>4. Utxo(Null) \in [Outpoints -> Coins]
  BY Zenon DEF Utxo, Spent, Coins
<1>. QED
  BY Zenon, <1>1, <1>2, <1>3, <1>4

\* pcoinsTip's entry for an outpoint of the block, after the lookups.
LEMMA TipFacts ==
  ASSUME Inv, NEW b, NEW o \in Outpoints
  PROVE  /\ EntryOK(cache[o], db.coins[o])
         /\ EntryOK(TipEntry(b, o), db.coins[o])
         /\ Seen(TipEntry(b, o), db.coins[o]) = Lookup(o)
         /\ Lookup(o) \in Coins
         /\ EntryOK(NoEntry, Lookup(o)) /\ Seen(NoEntry, Lookup(o)) = Lookup(o)
<1>1. EntryOK(cache[o], db.coins[o])
  BY Zenon DEF Inv, CacheOK
<1>2. /\ EntryOK(FetchCoin(cache[o], db.coins[o]), db.coins[o])
      /\ Seen(FetchCoin(cache[o], db.coins[o]), db.coins[o]) = Lookup(o)
      /\ Lookup(o) \in Coins
  BY Zenon, <1>1, FetchLemma DEF Lookup
<1>3. EntryOK(TipEntry(b, o), db.coins[o]) /\ Seen(TipEntry(b, o), db.coins[o]) = Lookup(o)
  BY Zenon, <1>1, <1>2 DEF TipEntry, Lookup
<1>4. EntryOK(NoEntry, Lookup(o)) /\ Seen(NoEntry, Lookup(o)) = Lookup(o)
  BY Zenon, <1>2 DEF EntryOK, Entries, Seen
<1>. QED
  BY Zenon, <1>1, <1>2, <1>3, <1>4

\* A block that builds on the tip connects, and then lookups return its coins.
ConnectsTo(b, o) ==
  LET m == Merge(TipEntry(b, o), Connected(b, o, NoEntry, Lookup(o)))
      u == Seen(AfterOutputs(b, o, NoEntry), Lookup(o))
  IN  /\ EntryOK(m, db.coins[o]) /\ Seen(m, db.coins[o]) = Utxo(b)[o]
      /\ ~MergeThrows(TipEntry(b, o), Connected(b, o, NoEntry, Lookup(o)))
      /\ o \in index[b].creates => Lookup(o) = Spent
      /\ o \in index[b].spends => u \in Coins \ {Spent}
      /\ u = IF o \in index[b].creates THEN index[b].nHeight ELSE Utxo(best)[o]

LEMMA ConnectFacts ==
  ASSUME Inv, phase = "run", NEW b \in Blocks, index[b].prev = best, NEW o \in Outpoints
  PROVE  ConnectsTo(b, o)
<1>. DEFINE e == Connected(b, o, NoEntry, Lookup(o))
            t == TipEntry(b, o)
            a == AfterOutputs(b, o, NoEntry)
<1>1. Lookup(o) = Utxo(best)[o]
  BY Zenon DEF Inv, Memory
<1>2. /\ index[b].utxo[o] = Effect(b, o, Lookup(o))
      /\ o \in index[b].creates => Lookup(o) = Spent /\ index[b].nHeight # 0
      /\ o \in index[b].spends => o \in index[b].creates \/ Lookup(o) # Spent
  BY Zenon, <1>1 DEF Inv, ValidBlocks
<1>3. Utxo(b) = index[b].utxo /\ index[b].nHeight \in Nat
  BY Zenon, Types
<1>4. /\ EntryOK(t, db.coins[o]) /\ Seen(t, db.coins[o]) = Lookup(o)
      /\ EntryOK(NoEntry, Lookup(o)) /\ Seen(NoEntry, Lookup(o)) = Lookup(o)
      /\ Lookup(o) \in Coins
  BY Zenon, TipFacts
<1>5. EntryOK(e, Lookup(o)) /\ Seen(e, Lookup(o)) = Utxo(b)[o]
  BY <1>2, <1>3, <1>4, ConnectedLemma DEF Coins, Spent
<1>6. Seen(a, Lookup(o)) = IF o \in index[b].creates THEN index[b].nHeight ELSE Lookup(o)
  BY <1>2, <1>3, <1>4, AddIfLemma DEF AfterOutputs, Coins, Spent
<1>. HIDE DEF e, t, a
<1>7. /\ EntryOK(Merge(t, e), db.coins[o]) /\ Seen(Merge(t, e), db.coins[o]) = Utxo(b)[o]
      /\ ~MergeThrows(t, e)
  <2>1. EntryOK(e, Seen(t, db.coins[o])) /\ Seen(e, Seen(t, db.coins[o])) = Utxo(b)[o]
    BY Zenon, <1>4, <1>5
  <2>. QED
    BY ZenonT(60), <1>4, <2>1, MergeLemma
<1>8. /\ o \in index[b].spends => Seen(a, Lookup(o)) \in Coins \ {Spent}
      /\ Seen(a, Lookup(o)) = IF o \in index[b].creates THEN index[b].nHeight ELSE Utxo(best)[o]
  BY Zenon, <1>1, <1>2, <1>3, <1>4, <1>6 DEF Coins, Spent
<1>. QED
  BY Zenon, <1>2, <1>7, <1>8 DEF ConnectsTo, e, t, a

\* The tip disconnects cleanly, and then lookups return the coins of its parent.
DisconnectsTo(b, o) ==
  LET m == Merge(TipEntry(b, o), Disconnected(b, o, NoEntry, Lookup(o)))
  IN  /\ EntryOK(m, db.coins[o]) /\ Seen(m, db.coins[o]) = Utxo(index[b].prev)[o]
      /\ ~MergeThrows(TipEntry(b, o), Disconnected(b, o, NoEntry, Lookup(o)))
      /\ Clean(b, o, NoEntry, Lookup(o))

\* What ApplyBlockUndo makes of a coin of the block is the parent's.
LEMMA UndoFacts ==
  ASSUME Inv, NEW b \in DOMAIN undo, NEW o \in Outpoints
  PROVE  /\ o \in index[b].spends => undo[b][o] \in Coins \ {Spent}
         /\ o \in index[b].creates => Utxo(index[b].prev)[o] = Spent
         /\ o \in index[b].spends =>
              undo[b][o] = IF o \in index[b].creates THEN index[b].nHeight
                           ELSE Utxo(index[b].prev)[o]
         /\ Utxo(b)[o] = Effect(b, o, Utxo(index[b].prev)[o])
<1>1. b \in Blocks /\ Utxo(b) = index[b].utxo
  BY Zenon, Types
<1>2. undo[b] \in [index[b].spends -> Coins \ {Spent}]
  BY Zenon DEF Inv, TypeOK
<1>. QED
  BY <1>1, <1>2 DEF Inv, UndoOK, ValidBlocks

LEMMA DisconnectFacts ==
  ASSUME Inv, phase = "run", best \in DOMAIN undo, NEW o \in Outpoints
  PROVE  DisconnectsTo(best, o)
<1>1. PICK b : b = best
  BY Zenon
<1>. DEFINE e == Disconnected(b, o, NoEntry, Lookup(o))
            t == TipEntry(b, o)
<1>2. Lookup(o) = Utxo(b)[o]
  BY Zenon, <1>1 DEF Inv, Memory
<1>3. /\ o \in index[b].spends => undo[b][o] \in Coins \ {Spent}
      /\ o \in index[b].creates => Utxo(index[b].prev)[o] = Spent
      /\ o \in index[b].spends =>
           undo[b][o] = IF o \in index[b].creates THEN index[b].nHeight
                        ELSE Utxo(index[b].prev)[o]
      /\ Utxo(b)[o] = Effect(b, o, Utxo(index[b].prev)[o])
  BY Zenon, <1>1, UndoFacts
<1>4. /\ EntryOK(t, db.coins[o]) /\ Seen(t, db.coins[o]) = Lookup(o)
      /\ EntryOK(NoEntry, Lookup(o)) /\ Seen(NoEntry, Lookup(o)) = Lookup(o)
  BY Zenon, TipFacts
<1>5. /\ EntryOK(e, Lookup(o))
      /\ Seen(e, Lookup(o)) = IF o \in index[b].creates THEN Spent
                              ELSE IF o \in index[b].spends THEN undo[b][o] ELSE Lookup(o)
      /\ Seen(Restored(b, o, NoEntry, Lookup(o)), Lookup(o)) =
           IF o \in index[b].spends THEN undo[b][o] ELSE Lookup(o)
  BY SMTT(60), <1>3, <1>4, DisconnectedLemma
<1>6. Seen(e, Lookup(o)) = Utxo(index[b].prev)[o]
  BY <1>2, <1>3, <1>5 DEF Effect
<1>. HIDE DEF e, t
<1>7. /\ EntryOK(Merge(t, e), db.coins[o]) /\ ~MergeThrows(t, e)
      /\ Seen(Merge(t, e), db.coins[o]) = Utxo(index[b].prev)[o]
  <2>1. /\ EntryOK(e, Seen(t, db.coins[o]))
        /\ Seen(e, Seen(t, db.coins[o])) = Utxo(index[b].prev)[o]
    BY Zenon, <1>4, <1>5, <1>6
  <2>. QED
    BY Zenon, <1>4, <2>1, MergeLemma
<1>8. Clean(b, o, NoEntry, Lookup(o))
  BY Zenon, <1>2, <1>3, <1>4, <1>5 DEF Clean, Effect
<1>. QED
  BY Zenon, <1>1, <1>7, <1>8 DEF DisconnectsTo, e, t

(***************************************************************************)
(* Every action preserves the invariant.                                   *)
(***************************************************************************)

\* Only NewBlock changes the block index.
LEMMA SameIndex ==
  ASSUME Inv, index' = index
  PROVE  /\ Blocks' = Blocks /\ BlockRecords' = BlockRecords
         /\ \A b : Utxo(b)' = Utxo(b)
         /\ Tree' /\ ValidBlocks'
<1>1. Blocks' = Blocks
  BY Zenon DEF Blocks
<1>2. \A b : Utxo(b)' = Utxo(b)
  BY Zenon DEF Utxo
<1>3. BlockRecords' = BlockRecords
  BY Zenon, <1>1 DEF BlockRecords
<1>4. Tree'
  BY <1>1 DEF Inv, Tree
<1>5. ValidBlocks'
  <2>1. \A b \in Blocks : \A o \in Outpoints :
          /\ index[b].utxo[o] = Effect(b, o, Utxo(index[b].prev)[o])
          /\ o \in index[b].creates => Utxo(index[b].prev)[o] = Spent /\ index[b].nHeight # 0
          /\ o \in index[b].spends => o \in index[b].creates \/ Utxo(index[b].prev)[o] # Spent
    BY Zenon DEF Inv, ValidBlocks
  <2>. QED
    BY <1>1, <1>2, <2>1 DEF ValidBlocks, Effect
<1>. QED
  BY Zenon, <1>1, <1>2, <1>3, <1>4, <1>5

\* Only ConnectTip changes the undo files.
LEMMA SameUndo ==
  ASSUME Inv, index' = index, undo' = undo,
         {best, cursor, db.best, db.heads.to, db.heads.from}' \subseteq DOMAIN undo \cup {Null}
  PROVE  UndoOK'
<1>1. \A b : Utxo(b)' = Utxo(b)
  BY Zenon, SameIndex
<1>2. /\ \A b \in DOMAIN undo : \A o \in index[b].spends :
           undo[b][o] = IF o \in index[b].creates THEN index[b].nHeight
                        ELSE Utxo(index[b].prev)[o]
      /\ \A b \in DOMAIN undo : /\ index[b].prev \in DOMAIN undo \cup {Null}
                                /\ index[b].chain \subseteq DOMAIN undo
  BY Zenon DEF Inv, UndoOK
<1>. QED
  BY Zenon, <1>1, <1>2 DEF UndoOK

\* The types of the variables that change in most steps.
LEMMA SameTypes ==
  ASSUME Inv, index' = index, undo' = undo, stops' \in Nat, errors' \in Nat,
         db'.coins \in [Outpoints -> Coins],
         db' = [coins |-> db'.coins, best |-> db'.best,
                heads |-> [to |-> db'.heads.to, from |-> db'.heads.from]],
         phase' \in {"down", "replay", "run", "stopping"},
         cache' \in [Outpoints -> Entries],
         {best', cursor', db'.best, db'.heads.to, db'.heads.from} \subseteq DOMAIN undo \cup {Null},
         flushing' \in BOOLEAN, lost' \subseteq Outpoints, damaged' \in BOOLEAN
  PROVE  TypeOK'
<1>1. Blocks' = Blocks /\ BlockRecords' = BlockRecords
  BY Zenon, SameIndex
<1>2. /\ Blocks = 0 .. Cardinality(Blocks) - 1 /\ IsFiniteSet(Blocks) /\ 0 \in Blocks
      /\ index \in [Blocks -> BlockRecords]
      /\ DOMAIN undo \subseteq Blocks
      /\ \A b \in DOMAIN undo : undo[b] \in [index[b].spends -> Coins \ {Spent}]
  BY Zenon DEF Inv, TypeOK
<1>3. /\ db'.best \in Blocks \cup {Null} /\ db'.heads.to \in Blocks \cup {Null}
      /\ db'.heads.from \in Blocks \cup {Null} /\ best' \in Blocks \cup {Null}
      /\ cursor' \in Blocks \cup {Null}
  BY Zenon, <1>2
<1>4. db' \in [coins : [Outpoints -> Coins], best : Blocks \cup {Null},
               heads : [to : Blocks \cup {Null}, from : Blocks \cup {Null}]]
  BY <1>3
<1>5. /\ Blocks' = (0 .. Cardinality(Blocks) - 1)' /\ IsFiniteSet(Blocks)' /\ 0 \in Blocks'
      /\ (index \in [Blocks -> BlockRecords])'
      /\ DOMAIN undo' \subseteq Blocks'
      /\ \A b \in DOMAIN undo' : undo'[b] \in [index'[b].spends -> Coins \ {Spent}]
  BY Zenon, <1>1, <1>2
<1>. QED
  BY Zenon, <1>1, <1>3, <1>4, <1>5 DEF TypeOK

\* The blocks of interest have undo records.
LEMMA Recorded ==
  ASSUME Inv
  PROVE  /\ {best, cursor, db.best, db.heads.to, db.heads.from} \subseteq DOMAIN undo \cup {Null}
         /\ db.coins \in [Outpoints -> Coins]
         /\ db = [coins |-> db.coins, best |-> db.best,
                  heads |-> [to |-> db.heads.to, from |-> db.heads.from]]
         /\ cache \in [Outpoints -> Entries] /\ NoEntry \in Entries
         /\ flushing \in BOOLEAN /\ lost \subseteq Outpoints /\ damaged \in BOOLEAN
         /\ stops \in Nat /\ errors \in Nat
         /\ phase \in {"down", "replay", "run", "stopping"}
<1>1. {best, cursor, db.best, db.heads.to, db.heads.from} \subseteq DOMAIN undo \cup {Null}
  BY Zenon DEF Inv, UndoOK
<1>2. TypeOK /\ NoEntry \in Entries
  BY Zenon DEF Inv, Entries
<1>. QED
  BY Zenon, <1>1, <1>2 DEF TypeOK

\* A step of the running node that changes only the cache and the tip.
LEMMA RunStep ==
  ASSUME Inv, phase = "run", flushing = FALSE,
         index' = index, db' = db, phase' = phase, cursor' = cursor,
         flushing' = flushing, lost' = lost, damaged' = damaged,
         cache' \in [Outpoints -> Entries],
         \A o \in Outpoints : /\ EntryOK(cache'[o], db.coins[o])
                              /\ Seen(cache'[o], db.coins[o]) = Utxo(best')[o]
  PROVE  CacheOK' /\ Phases' /\ Memory' /\ Database'
<1>1. \A b : Utxo(b)' = Utxo(b)
  BY Zenon, SameIndex
<1>2. CacheOK'
  BY Zenon DEF CacheOK
<1>3. Phases'
  BY Zenon DEF Inv, Phases
<1>4. Memory'
  <2>1. \A o \in Outpoints : Lookup(o)' = Utxo(best)'[o]
    BY Zenon, <1>1 DEF Lookup, Utxo
  <2>. QED
    BY Zenon, <2>1 DEF Memory
<1>5. Database'
  <2>1. db.heads.to = Null
    BY Zenon DEF Inv, Database
  <2>2. /\ db.heads.from = Null
        /\ damaged = FALSE => \A o \in Outpoints : db.coins[o] = Utxo(db.best)[o]
    BY Zenon, <2>1 DEF Inv, Database
  <2>3. Utxo(db.best)' = Utxo(db.best)
    BY Zenon DEF Utxo
  <2>. QED
    BY Zenon, <2>1, <2>2, <2>3 DEF Database
<1>. QED
  BY Zenon, <1>2, <1>3, <1>4, <1>5

LEMMA AccessInv ==
  ASSUME Inv, NEW o \in Outpoints, AccessCoin(o) \/ Uncache(o)
  PROVE  /\ Inv'
         /\ \A p \in Outpoints : Seen(cache'[p], db.coins[p]) = Lookup(p)
<1>1. /\ phase = "run" /\ flushing = FALSE
      /\ index' = index /\ undo' = undo /\ db' = db /\ phase' = phase /\ best' = best
      /\ cursor' = cursor /\ flushing' = flushing /\ lost' = lost /\ damaged' = damaged
      /\ stops' = stops /\ errors' = errors
  BY Zenon, Recorded DEF AccessCoin, Uncache
<1>2. PICK e : /\ \/ e = FetchCoin(cache[o], db.coins[o])
                  \/ e = NoEntry /\ cache[o].dirty = FALSE /\ cache[o].fresh = FALSE
               /\ cache' = [cache EXCEPT ![o] = e]
  <2>1. cache[o].dirty \in BOOLEAN /\ cache[o].fresh \in BOOLEAN
    BY ZenonT(60), EntryFields, Types
  <2>2. CASE AccessCoin(o)
    <3>1. cache' = [cache EXCEPT ![o] = FetchCoin(cache[o], db.coins[o])]
      BY Zenon, <2>2 DEF AccessCoin
    <3>. WITNESS FetchCoin(cache[o], db.coins[o])
    <3>. QED
      BY Zenon, <3>1
  <2>3. CASE Uncache(o)
    <3>1. cache[o].dirty = FALSE /\ cache[o].fresh = FALSE /\ cache' = [cache EXCEPT ![o] = NoEntry]
      BY Zenon, <2>1, <2>3 DEF Uncache
    <3>. QED
      BY Zenon, <3>1
  <2>. QED
    BY Zenon, <2>2, <2>3
<1>3. EntryOK(cache[o], db.coins[o]) /\ Lookup(o) = Seen(cache[o], db.coins[o])
  BY Zenon, TipFacts DEF Lookup
<1>4. EntryOK(e, db.coins[o]) /\ Seen(e, db.coins[o]) = Lookup(o)
  <2>1. CASE e = FetchCoin(cache[o], db.coins[o])
    BY Zenon, <1>3, <2>1, FetchLemma
  <2>2. CASE e = NoEntry /\ cache[o].dirty = FALSE /\ cache[o].fresh = FALSE
    BY Zenon, <1>3, <2>2 DEF EntryOK, Seen, Entries
  <2>. QED
    BY Zenon, <1>2, <2>1, <2>2
<1>5. /\ cache' \in [Outpoints -> Entries]
      /\ \A p \in Outpoints : cache'[p] = IF p = o THEN e ELSE cache[p]
  <2>1. e \in Entries
    BY Zenon, <1>4 DEF EntryOK
  <2>. QED
    BY Zenon, <1>2, <2>1, Recorded
<1>6. \A p \in Outpoints : /\ EntryOK(cache'[p], db.coins[p])
                           /\ Seen(cache'[p], db.coins[p]) = Lookup(p)
  BY Zenon, <1>4, <1>5, TipFacts DEF Lookup
<1>7. \A p \in Outpoints : Lookup(p) = Utxo(best')[p]
  <2>1. best' = best => Utxo(best') = Utxo(best)
    BY Zenon
  <2>. QED
    BY Zenon, <1>1, <2>1 DEF Inv, Memory
<1>8. CacheOK' /\ Phases' /\ Memory' /\ Database'
  <2>1. \A p \in Outpoints : /\ EntryOK(cache'[p], db.coins[p])
                             /\ Seen(cache'[p], db.coins[p]) = Utxo(best')[p]
    BY Zenon, <1>6, <1>7
  <2>. QED
    BY Zenon, <1>1, <1>5, <2>1, RunStep
<1>9. TypeOK'
  BY Zenon, <1>1, <1>5, Recorded, SameTypes
<1>10. UndoOK'
  BY Zenon, <1>1, Recorded, SameUndo
<1>. QED
  BY Zenon, <1>1, <1>6, <1>8, <1>9, <1>10, SameIndex DEF Inv

LEMMA DisconnectInv ==
  ASSUME Inv, DisconnectTip
  PROVE  Inv' /\ \A o \in Outpoints : Seen(cache'[o], db.coins[o]) = Utxo(best')[o]
<1>1. /\ phase = "run" /\ flushing = FALSE
      /\ index' = index /\ undo' = undo /\ db' = db /\ phase' = phase
      /\ cursor' = cursor /\ flushing' = flushing /\ lost' = lost /\ damaged' = damaged
      /\ stops' = stops /\ errors' = errors
      /\ best # Null /\ best' = index[best].prev
  BY Zenon, Recorded DEF DisconnectTip
<1>2. best \in DOMAIN undo /\ best' \in DOMAIN undo \cup {Null}
  BY Zenon, <1>1 DEF Inv, UndoOK
<1>3. \A o \in Outpoints : DisconnectsTo(best, o)
  BY Zenon, <1>1, <1>2, DisconnectFacts
<1>4. /\ cache' = [o \in Outpoints |-> cache'[o]]
      /\ \A o \in Outpoints :
           cache'[o] = Merge(TipEntry(best, o), Disconnected(best, o, NoEntry, Lookup(o)))
  BY Zenon DEF DisconnectTip
<1>5. \A o \in Outpoints : /\ EntryOK(cache'[o], db.coins[o])
                           /\ Seen(cache'[o], db.coins[o]) = Utxo(best')[o]
  BY Zenon, <1>1, <1>3, <1>4 DEF DisconnectsTo
<1>6. cache' \in [Outpoints -> Entries]
  <2>1. \A o \in Outpoints : cache'[o] \in Entries
    BY Zenon, <1>5 DEF EntryOK
  <2>. QED
    BY Zenon, <1>4, <2>1
<1>7. CacheOK' /\ Phases' /\ Memory' /\ Database'
  BY Zenon, <1>1, <1>5, <1>6, RunStep
<1>8. {best', cursor', db'.best, db'.heads.to, db'.heads.from} \subseteq DOMAIN undo \cup {Null}
  BY Zenon, <1>1, <1>2, Recorded
<1>9. TypeOK'
  BY Zenon, <1>1, <1>6, <1>8, Recorded, SameTypes
<1>10. UndoOK'
  BY Zenon, <1>1, <1>8, SameUndo
<1>. QED
  BY Zenon, <1>1, <1>5, <1>7, <1>9, <1>10, SameIndex DEF Inv

LEMMA ConnectInv ==
  ASSUME Inv, NEW b \in Blocks, ConnectTip(b)
  PROVE  Inv' /\ \A o \in Outpoints : Seen(cache'[o], db.coins[o]) = Utxo(b)[o]
<1>1. /\ phase = "run" /\ flushing = FALSE
      /\ index' = index /\ db' = db /\ phase' = phase
      /\ cursor' = cursor /\ flushing' = flushing /\ lost' = lost /\ damaged' = damaged
      /\ stops' = stops /\ errors' = errors
      /\ best' = b /\ index[b].prev = best
  BY Zenon, Recorded DEF ConnectTip
<1>2. \A o \in Outpoints : ConnectsTo(b, o)
  BY Zenon, <1>1, ConnectFacts
<1>3. /\ cache' = [o \in Outpoints |-> cache'[o]]
      /\ \A o \in Outpoints :
           cache'[o] = Merge(TipEntry(b, o), Connected(b, o, NoEntry, Lookup(o)))
  BY Zenon DEF ConnectTip
<1>4. \A o \in Outpoints : /\ EntryOK(cache'[o], db.coins[o])
                           /\ Seen(cache'[o], db.coins[o]) = Utxo(best')[o]
  BY Zenon, <1>1, <1>2, <1>3 DEF ConnectsTo
<1>5. cache' \in [Outpoints -> Entries]
  <2>1. \A o \in Outpoints : cache'[o] \in Entries
    BY Zenon, <1>4 DEF EntryOK
  <2>. QED
    BY Zenon, <1>3, <2>1
<1>6. CacheOK' /\ Phases' /\ Memory' /\ Database'
  BY Zenon, <1>1, <1>4, <1>5, RunStep
<1>7. /\ DOMAIN undo' = DOMAIN undo \cup {b}
      /\ \A c \in DOMAIN undo : undo'[c] = undo[c]
      /\ b \notin DOMAIN undo =>
           undo'[b] = [o \in index[b].spends |-> Seen(AfterOutputs(b, o, NoEntry), Lookup(o))]
  BY Zenon DEF ConnectTip
<1>8. index[b].spends \subseteq Outpoints
  BY Zenon DEF Inv, TypeOK, BlockRecords
<1>9. ASSUME NEW c \in DOMAIN undo'
      PROVE  /\ c \in Blocks /\ undo'[c] \in [index[c].spends -> Coins \ {Spent}]
             /\ index[c].prev \in DOMAIN undo' \cup {Null} /\ index[c].chain \subseteq DOMAIN undo'
             /\ \A o \in index[c].spends :
                  undo'[c][o] = IF o \in index[c].creates THEN index[c].nHeight
                                ELSE Utxo(index[c].prev)[o]
  <2>1. CASE c \in DOMAIN undo
    <3>1. undo[c] \in [index[c].spends -> Coins \ {Spent}] /\ c \in Blocks
      BY Zenon, <2>1 DEF Inv, TypeOK
    <3>2. /\ index[c].prev \in DOMAIN undo \cup {Null} /\ index[c].chain \subseteq DOMAIN undo
          /\ \A o \in index[c].spends :
               undo[c][o] = IF o \in index[c].creates THEN index[c].nHeight
                            ELSE Utxo(index[c].prev)[o]
      BY Zenon, <2>1 DEF Inv, UndoOK
    <3>. QED
      BY Zenon, <1>7, <2>1, <3>1, <3>2
  <2>2. CASE c = b /\ b \notin DOMAIN undo
    <3>1. \A o \in index[b].spends :
            /\ Seen(AfterOutputs(b, o, NoEntry), Lookup(o)) \in Coins \ {Spent}
            /\ Seen(AfterOutputs(b, o, NoEntry), Lookup(o)) =
                 IF o \in index[b].creates THEN index[b].nHeight ELSE Utxo(best)[o]
      BY Zenon, <1>2, <1>8 DEF ConnectsTo
    <3>2. index[b].prev \in DOMAIN undo \cup {Null}
      BY Zenon, <1>1, Recorded
    <3>3. index[b].chain \subseteq DOMAIN undo \cup {b}
      <4>1. CASE b = 0
        BY Zenon, <4>1 DEF Inv, Tree
      <4>2. CASE b # 0
        <5>1. best \in Blocks /\ index[b].chain = index[best].chain \cup {b}
          BY Zenon, <1>1, <4>2 DEF Inv, Tree
        <5>2. best \in DOMAIN undo
          BY Zenon, <5>1, Recorded, Types
        <5>3. index[best].chain \subseteq DOMAIN undo
          BY Zenon, <5>2 DEF Inv, UndoOK
        <5>. QED
          BY Zenon, <5>1, <5>3
      <4>. QED
        BY Zenon, <4>1, <4>2
    <3>. QED
      BY Zenon, <1>1, <1>7, <2>2, <3>1, <3>2, <3>3
  <2>. QED
    BY Zenon, <1>7, <2>1, <2>2
<1>10. {best', cursor', db'.best, db'.heads.to, db'.heads.from} \subseteq DOMAIN undo' \cup {Null}
  BY Zenon, <1>1, <1>7, Recorded
<1>11. UndoOK'
  <2>1. \A c : Utxo(c)' = Utxo(c)
    BY Zenon, <1>1, SameIndex
  <2>. QED
    BY Zenon, <1>1, <1>9, <1>10, <2>1 DEF UndoOK
<1>12. TypeOK'
  <2>1. Blocks' = Blocks /\ BlockRecords' = BlockRecords
    BY Zenon, <1>1, SameIndex
  <2>2. DOMAIN undo' \subseteq Blocks /\ best' \in Blocks
    BY Zenon, <1>1, <1>9
  <2>3. /\ Blocks' = (0 .. Cardinality(Blocks) - 1)' /\ IsFiniteSet(Blocks)' /\ 0 \in Blocks'
        /\ (index \in [Blocks -> BlockRecords])'
        /\ (db \in [coins : [Outpoints -> Coins], best : Blocks \cup {Null},
                    heads : [to : Blocks \cup {Null}, from : Blocks \cup {Null}]])'
        /\ cursor' \in Blocks' \cup {Null}
    BY Zenon, <1>1, <2>1 DEF Inv, TypeOK
  <2>4. /\ phase' \in {"down", "replay", "run", "stopping"} /\ flushing' \in BOOLEAN
        /\ lost' \subseteq Outpoints /\ damaged' \in BOOLEAN /\ stops' \in Nat /\ errors' \in Nat
    BY Zenon, <1>1, Recorded
  <2>. QED
    BY Zenon, <1>1, <1>5, <1>9, <2>1, <2>2, <2>3, <2>4 DEF TypeOK
<1>. QED
  BY Zenon, <1>1, <1>4, <1>6, <1>11, <1>12, SameIndex DEF Inv

\* Crash, Startup and the end of the replay's loops.
LEMMA CrashInv == ASSUME Inv, Crash PROVE Inv'
<1>1. /\ phase # "down" /\ phase' = "down" /\ best' = Null /\ cursor' = Null /\ flushing' = FALSE
      /\ lost' = {} /\ stops' = stops + 1 /\ errors' = errors
      /\ index' = index /\ undo' = undo /\ db' = db /\ damaged' = damaged
      /\ cache' = [o \in Outpoints |-> NoEntry]
  BY Zenon DEF Crash, Without
<1>2. \A o \in Outpoints : cache'[o] = NoEntry
  BY Zenon, <1>1
<1>3. CacheOK'
  BY Zenon, <1>1, <1>2, Types DEF CacheOK, EntryOK, Entries
<1>4. Phases'
  BY Zenon, <1>1, <1>2 DEF Inv, Phases
<1>5. Memory'
  BY Zenon, <1>1 DEF Memory
<1>6. Database'
  <2>1. \A b : Utxo(b)' = Utxo(b)
    BY Zenon, <1>1, SameIndex
  <2>2. Utxo(db.best)' = Utxo(db.best) /\ Utxo(db.heads.to)' = Utxo(db.heads.to)
        /\ Utxo(db.heads.from)' = Utxo(db.heads.from)
    BY Zenon, <1>1 DEF Utxo
  <2>. QED
    BY Zenon, <1>1, <2>2 DEF Inv, Database
<1>7. {best', cursor', db'.best, db'.heads.to, db'.heads.from} \subseteq DOMAIN undo \cup {Null}
  BY Zenon, <1>1, Recorded
<1>8. TypeOK'
  <2>1. cache' \in [Outpoints -> Entries] /\ lost' \subseteq Outpoints /\ stops' \in Nat
    BY <1>1, Recorded
  <2>. QED
    BY Zenon, <1>1, <1>7, <2>1, Recorded, SameTypes
<1>9. UndoOK'
  BY Zenon, <1>1, <1>7, SameUndo
<1>. QED
  BY Zenon, <1>1, <1>3, <1>4, <1>5, <1>6, <1>8, <1>9, SameIndex DEF Inv

LEMMA StartupInv == ASSUME Inv, Startup PROVE Inv'
<1>1. /\ phase = "down" /\ damaged = FALSE
      /\ index' = index /\ undo' = undo /\ db' = db /\ damaged' = damaged
      /\ cache' = cache /\ flushing' = flushing /\ lost' = lost /\ stops' = stops /\ errors' = errors
      /\ IF db.heads.to = Null
         THEN phase' = "run" /\ best' = db.best /\ cursor' = cursor
         ELSE phase' = "replay" /\ cursor' = db.heads.from /\ best' = best
  BY Zenon, Recorded DEF Startup
<1>2. /\ best = Null /\ cursor = Null /\ flushing = FALSE /\ lost = {}
      /\ \A o \in Outpoints : cache[o] = NoEntry
  BY Zenon, <1>1 DEF Inv, Phases
<1>3. \A o \in Outpoints : Lookup(o)' = db.coins[o]
  BY Zenon, <1>1, <1>2 DEF Lookup, Seen
<1>4. CacheOK'
  BY Zenon, <1>1 DEF Inv, CacheOK
<1>5. Phases'
  BY Zenon, <1>1, <1>2 DEF Phases
<1>6. Utxo(db.best)' = Utxo(db.best) /\ Utxo(db.heads.to)' = Utxo(db.heads.to)
      /\ Utxo(db.heads.from)' = Utxo(db.heads.from)
  BY Zenon, <1>1 DEF Utxo
<1>7. Memory'
  <2>1. CASE db.heads.to = Null
    <3>1. \A o \in Outpoints : db.coins[o] = Utxo(db.best)[o]
      BY Zenon, <1>1, <2>1 DEF Inv, Database
    <3>2. Utxo(best)' = Utxo(db.best)
      BY Zenon, <1>1, <2>1 DEF Utxo
    <3>. QED
      BY Zenon, <1>1, <1>3, <2>1, <3>1, <3>2 DEF Memory
  <2>2. CASE db.heads.to # Null
    <3>1. \A o \in Outpoints : db.coins[o] \in {Utxo(db.heads.from)[o], Utxo(db.heads.to)[o]}
      BY Zenon, <2>2 DEF Inv, Database
    <3>2. Utxo(cursor)' = Utxo(db.heads.from)
      BY Zenon, <1>1, <2>2 DEF Utxo
    <3>. QED
      BY Zenon, <1>1, <1>2, <1>3, <1>6, <2>2, <3>1, <3>2 DEF Memory
  <2>. QED
    BY Zenon, <2>1, <2>2
<1>8. Database'
  BY Zenon, <1>1, <1>6 DEF Inv, Database
<1>9. {best', cursor', db'.best, db'.heads.to, db'.heads.from} \subseteq DOMAIN undo \cup {Null}
  BY Zenon, <1>1, Recorded
<1>10. TypeOK'
  BY Zenon, <1>1, <1>9, Recorded, SameTypes
<1>11. UndoOK'
  BY Zenon, <1>1, <1>9, SameUndo
<1>. QED
  BY Zenon, <1>1, <1>4, <1>5, <1>7, <1>8, <1>10, <1>11, SameIndex DEF Inv

\* A step of the replay that changes only the cache and the cursor.
LEMMA ReplayStep ==
  ASSUME Inv, phase = "replay", flushing = FALSE,
         index' = index, undo' = undo, db' = db, phase' = phase, best' = best,
         flushing' = flushing, lost' = lost, damaged' = damaged,
         stops' = stops, errors' = errors,
         cache' = [o \in Outpoints |-> cache'[o]], cursor' \in DOMAIN undo \cup {Null},
         \A o \in Outpoints :
           /\ EntryOK(cache'[o], db.coins[o])
           /\ Seen(cache'[o], db.coins[o]) \in {Utxo(cursor')[o], Utxo(db.heads.to)[o]}
  PROVE  Inv'
<1>1. Utxo(db.best)' = Utxo(db.best) /\ Utxo(db.heads.to)' = Utxo(db.heads.to)
      /\ Utxo(db.heads.from)' = Utxo(db.heads.from) /\ Utxo(cursor)' = Utxo(cursor')
  BY Zenon DEF Utxo
<1>2. cache' \in [Outpoints -> Entries]
  <2>1. \A o \in Outpoints : cache'[o] \in Entries
    BY Zenon DEF EntryOK
  <2>. QED
    BY Zenon, <2>1
<1>3. CacheOK'
  BY Zenon DEF CacheOK
<1>4. Phases'
  BY Zenon DEF Inv, Phases
<1>5. Memory'
  <2>1. \A o \in Outpoints : Lookup(o)' = Seen(cache'[o], db.coins[o])
    BY ZenonT(60) DEF Lookup
  <2>. QED
    BY Zenon, <1>1, <2>1 DEF Memory
<1>6. Database'
  BY Zenon, <1>1 DEF Inv, Database
<1>7. {best', cursor', db'.best, db'.heads.to, db'.heads.from} \subseteq DOMAIN undo \cup {Null}
  BY Zenon, Recorded
<1>8. TypeOK'
  BY Zenon, <1>2, <1>7, Recorded, SameTypes
<1>9. UndoOK'
  BY Zenon, <1>7, SameUndo
<1>. QED
  BY Zenon, <1>3, <1>4, <1>5, <1>6, <1>8, <1>9, SameIndex DEF Inv

\* Rolling back one block: a coin the block touched becomes the parent's, and the
\* others are the same at both.
LEMMA RollbackInv == ASSUME Inv, RollbackBlock PROVE Inv'
<1>1. /\ phase = "replay" /\ flushing = FALSE
      /\ index' = index /\ undo' = undo /\ db' = db /\ phase' = phase /\ best' = best
      /\ flushing' = flushing /\ lost' = lost /\ damaged' = damaged
      /\ stops' = stops /\ errors' = errors
      /\ cursor' = index[cursor].prev /\ cursor # Null
  BY Zenon, Recorded DEF RollbackBlock, AtFork
<1>2. PICK b \in DOMAIN undo : b = cursor
  BY Zenon, <1>1, Recorded
<1>3. cursor' \in DOMAIN undo \cup {Null}
  BY Zenon, <1>1, <1>2 DEF Inv, UndoOK
<1>4. /\ cache' = [o \in Outpoints |-> cache'[o]]
      /\ \A o \in Outpoints : cache'[o] = Disconnected(b, o, cache[o], db.coins[o])
  BY Zenon, <1>2 DEF RollbackBlock
<1>5. ASSUME NEW o \in Outpoints
      PROVE  /\ EntryOK(cache'[o], db.coins[o])
             /\ Seen(cache'[o], db.coins[o]) \in {Utxo(cursor')[o], Utxo(db.heads.to)[o]}
  <2>1. /\ o \in index[b].spends => undo[b][o] \in Coins \ {Spent}
        /\ o \in index[b].creates => Utxo(index[b].prev)[o] = Spent
        /\ o \in index[b].spends =>
             undo[b][o] = IF o \in index[b].creates THEN index[b].nHeight
                          ELSE Utxo(index[b].prev)[o]
        /\ Utxo(b)[o] = Effect(b, o, Utxo(index[b].prev)[o])
    BY Zenon, UndoFacts
  <2>2. EntryOK(cache[o], db.coins[o])
    BY Zenon, TipFacts
  <2>3. /\ EntryOK(cache'[o], db.coins[o])
        /\ Seen(cache'[o], db.coins[o]) =
             IF o \in index[b].creates THEN Spent
             ELSE IF o \in index[b].spends THEN undo[b][o] ELSE Seen(cache[o], db.coins[o])
    BY SMTT(60), <1>4, <2>1, <2>2, DisconnectedLemma
  <2>4. Seen(cache[o], db.coins[o]) \in {Utxo(b)[o], Utxo(db.heads.to)[o]}
    BY Zenon, <1>1, <1>2 DEF Inv, Memory, Lookup
  <2>5. Seen(cache'[o], db.coins[o]) \in {Utxo(index[b].prev)[o], Utxo(db.heads.to)[o]}
    BY Zenon, <2>1, <2>3, <2>4 DEF Effect
  <2>. QED
    BY Zenon, <1>1, <1>2, <2>3, <2>5
<1>. QED
  BY Zenon, <1>1, <1>3, <1>4, <1>5, ReplayStep

\* The block RollforwardBlock is called with is a child of the cursor.
LEMMA NextFacts ==
  ASSUME Inv, phase = "replay", AtFork, Height(cursor) < Height(db.heads.to)
  PROVE  /\ NextAncestor \in index[db.heads.to].chain /\ NextAncestor \in Blocks
         /\ Utxo(index[NextAncestor].prev) = Utxo(cursor)
<1>1. PICK t \in Blocks : t = db.heads.to
  <2>1. db.heads.to # Null
    BY Zenon DEF Inv, Phases
  <2>. QED
    BY Zenon, <2>1, Recorded, Types
<1>2. Height(t) = index[t].nHeight /\ Height(Null) = 0
  BY Zenon, <1>1, Types DEF Height
<1>3. Height(cursor) \in Nat /\ index[t].nHeight \in Nat /\ Height(cursor) < index[t].nHeight
  <2>1. cursor \in Blocks \cup {Null}
    BY Zenon, Recorded, Types
  <2>. QED
    BY Zenon, <1>1, <1>2, <2>1, Types DEF Height
<1>4. Height(cursor) + 1 \in 0 .. index[t].nHeight
  BY SMTT(60), <1>3
<1>5. \E c \in index[t].chain : index[c].nHeight = Height(cursor) + 1
  BY <1>4 DEF Inv, Tree
<1>6. PICK c : c = NextAncestor
  BY Zenon
<1>7. c \in index[t].chain /\ index[c].nHeight = Height(cursor) + 1
  BY Zenon, <1>1, <1>5, <1>6 DEF NextAncestor
<1>8. c \in Blocks /\ c # 0
  BY SMTT(60), <1>3, <1>7, Types DEF Inv, Tree
<1>9. /\ index[c].prev \in Blocks /\ index[c].prev \in index[t].chain
      /\ index[c].nHeight = index[index[c].prev].nHeight + 1
  BY Zenon, <1>7, <1>8 DEF Inv, Tree
<1>10. index[index[c].prev].nHeight = Height(cursor)
  BY SMTT(60), <1>3, <1>7, <1>9, Types
<1>11. CASE cursor = Null
  <2>1. index[c].prev = 0
    BY <1>2, <1>9, <1>10, <1>11 DEF Inv, Tree
  <2>2. \A o \in Outpoints : index[0].utxo[o] = Spent
    <3>1. /\ index[0].nHeight = 0 /\ index[0].prev = Null /\ 0 \in Blocks
      BY Zenon, Types DEF Inv, Tree
    <3>2. ASSUME NEW o \in Outpoints
          PROVE  /\ index[0].utxo[o] = Effect(0, o, Utxo(Null)[o])
                 /\ o \notin index[0].creates
      BY Zenon, <3>1 DEF Inv, ValidBlocks
    <3>. QED
      BY Zenon, <3>2 DEF Effect, Utxo
  <2>3. Utxo(0) = Utxo(Null)
    <3>1. Utxo(0) \in [Outpoints -> Coins] /\ Utxo(0) = index[0].utxo
      BY Zenon, Types
    <3>2. Utxo(Null) = [o \in Outpoints |-> Spent]
      BY Zenon DEF Utxo
    <3>. QED
      BY Zenon, <2>2, <3>1, <3>2
  <2>. QED
    BY Zenon, <1>1, <1>6, <1>7, <1>8, <1>11, <2>1, <2>3
<1>12. CASE cursor # Null
  <2>1. cursor \in index[t].chain /\ Height(cursor) = index[cursor].nHeight
    BY Zenon, <1>1, <1>12 DEF AtFork, Height
  <2>2. cursor = index[c].prev
    BY <1>9, <1>10, <2>1 DEF Inv, Tree
  <2>. QED
    BY Zenon, <1>1, <1>6, <1>7, <1>8, <2>2
<1>. QED
  BY Zenon, <1>11, <1>12

LEMMA RollforwardInv == ASSUME Inv, RollforwardBlock PROVE Inv'
<1>1. /\ phase = "replay" /\ flushing = FALSE /\ AtFork /\ Height(cursor) < Height(db.heads.to)
      /\ index' = index /\ undo' = undo /\ db' = db /\ phase' = phase /\ best' = best
      /\ flushing' = flushing /\ lost' = lost /\ damaged' = damaged
      /\ stops' = stops /\ errors' = errors
      /\ cursor' = NextAncestor
  BY Zenon, Recorded DEF RollforwardBlock
<1>2. PICK b \in Blocks : /\ b = NextAncestor /\ b \in index[db.heads.to].chain
                          /\ Utxo(index[b].prev) = Utxo(cursor)
  BY Zenon, <1>1, NextFacts
<1>3. cursor' \in DOMAIN undo \cup {Null}
  <2>1. db.heads.to \in DOMAIN undo
    BY ZenonT(60), <1>1, Recorded DEF Inv, Phases
  <2>. QED
    BY Zenon, <1>1, <1>2, <2>1 DEF Inv, UndoOK
<1>4. /\ cache' = [o \in Outpoints |-> cache'[o]]
      /\ \A o \in Outpoints : cache'[o] = RolledForward(b, o, cache[o], db.coins[o])
  BY Zenon, <1>2 DEF RollforwardBlock
<1>5. ASSUME NEW o \in Outpoints
      PROVE  /\ EntryOK(cache'[o], db.coins[o])
             /\ Seen(cache'[o], db.coins[o]) \in {Utxo(cursor')[o], Utxo(db.heads.to)[o]}
  <2>1. /\ o \in index[b].creates => index[b].nHeight \in Coins \ {Spent}
        /\ Utxo(b)[o] = Effect(b, o, Utxo(cursor)[o])
    <3>1. Utxo(b) = index[b].utxo /\ index[b].nHeight \in Nat
      BY Zenon, Types
    <3>2. /\ index[b].utxo[o] = Effect(b, o, Utxo(index[b].prev)[o])
          /\ o \in index[b].creates => index[b].nHeight # 0
      BY Zenon DEF Inv, ValidBlocks
    <3>. QED
      BY Zenon, <1>2, <3>1, <3>2 DEF Coins, Spent
  <2>2. EntryOK(cache[o], db.coins[o])
    BY Zenon, TipFacts
  <2>3. /\ EntryOK(cache'[o], db.coins[o])
        /\ Seen(cache'[o], db.coins[o]) = Effect(b, o, Seen(cache[o], db.coins[o]))
    BY SMTT(60), <1>4, <2>1, <2>2, RolledForwardLemma
  <2>4. Seen(cache[o], db.coins[o]) \in {Utxo(cursor)[o], Utxo(db.heads.to)[o]}
    BY Zenon, <1>1 DEF Inv, Memory, Lookup
  <2>5. Seen(cache'[o], db.coins[o]) \in {Utxo(b)[o], Utxo(db.heads.to)[o]}
    BY Zenon, <2>1, <2>3, <2>4 DEF Effect
  <2>. QED
    BY Zenon, <1>1, <1>2, <2>3, <2>5
<1>. QED
  BY Zenon, <1>1, <1>3, <1>4, <1>5, ReplayStep

\* When the heights agree the cursor is at the new tip, or both are before any coin.
LEMMA ReplayDoneInv == ASSUME Inv, ReplayDone PROVE Inv'
<1>1. /\ phase = "replay" /\ flushing = FALSE /\ AtFork /\ Height(cursor) = Height(db.heads.to)
      /\ index' = index /\ undo' = undo /\ db' = db /\ phase' = phase /\ cache' = cache
      /\ best' = db.heads.to /\ flushing' = TRUE /\ cursor' = cursor
      /\ lost' = lost /\ damaged' = damaged /\ stops' = stops /\ errors' = errors
  BY Zenon, Recorded DEF ReplayDone
<1>2. PICK t \in Blocks : t = db.heads.to
  <2>1. db.heads.to # Null
    BY Zenon, <1>1 DEF Inv, Phases
  <2>. QED
    BY Zenon, <2>1, Recorded, Types
<1>3. t # Null /\ Height(t) = index[t].nHeight
  BY Zenon, <1>2, Types DEF Height
<1>4. Utxo(cursor) = Utxo(t)
  <2>1. CASE cursor = Null
    <3>1. index[t].nHeight = 0
      BY Zenon, <1>1, <1>2, <1>3, <2>1 DEF Height
    <3>2. t = 0
      BY SMTT(60), <3>1 DEF Inv, Tree
    <3>3. /\ index[0].nHeight = 0 /\ index[0].prev = Null /\ 0 \in Blocks
      BY Zenon, Types DEF Inv, Tree
    <3>4. ASSUME NEW o \in Outpoints
          PROVE  index[0].utxo[o] = Effect(0, o, Utxo(Null)[o]) /\ o \notin index[0].creates
      BY Zenon, <3>3 DEF Inv, ValidBlocks
    <3>5. \A o \in Outpoints : index[0].utxo[o] = Spent
      BY Zenon, <3>4 DEF Effect, Utxo
    <3>6. Utxo(0) \in [Outpoints -> Coins] /\ Utxo(0) = index[0].utxo
      BY Zenon, Types
    <3>7. Utxo(Null) = [o \in Outpoints |-> Spent]
      BY Zenon DEF Utxo
    <3>. QED
      BY Zenon, <2>1, <3>2, <3>5, <3>6, <3>7
  <2>2. CASE cursor # Null
    <3>1. cursor \in index[t].chain /\ index[cursor].nHeight = index[t].nHeight
      BY Zenon, <1>1, <1>2, <1>3, <2>2 DEF AtFork, Height
    <3>2. cursor = t
      BY Zenon, <3>1 DEF Inv, Tree
    <3>. QED
      BY Zenon, <3>2
  <2>. QED
    BY Zenon, <2>1, <2>2
<1>5. \A o \in Outpoints : Lookup(o) = Utxo(t)[o]
  BY Zenon, <1>1, <1>2, <1>4 DEF Inv, Memory
<1>6. CacheOK'
  BY Zenon, <1>1 DEF Inv, CacheOK
<1>7. Phases'
  BY Zenon, <1>1 DEF Inv, Phases
<1>8. Memory'
  <2>1. \A o \in Outpoints : Lookup(o)' = Lookup(o)
    BY Zenon, <1>1 DEF Lookup
  <2>2. Utxo(best)' = Utxo(t)
    BY Zenon, <1>1, <1>2 DEF Utxo
  <2>. QED
    BY Zenon, <1>1, <1>5, <2>1, <2>2 DEF Memory
<1>9. Database'
  <2>1. Utxo(db.best)' = Utxo(db.best) /\ Utxo(db.heads.to)' = Utxo(db.heads.to)
        /\ Utxo(db.heads.from)' = Utxo(db.heads.from)
    BY Zenon, <1>1 DEF Utxo
  <2>. QED
    BY Zenon, <1>1, <2>1 DEF Inv, Database
<1>10. {best', cursor', db'.best, db'.heads.to, db'.heads.from} \subseteq DOMAIN undo \cup {Null}
  BY Zenon, <1>1, Recorded
<1>11. TypeOK'
  BY Zenon, <1>1, <1>10, Recorded, SameTypes
<1>12. UndoOK'
  BY Zenon, <1>1, <1>10, SameUndo
<1>. QED
  BY Zenon, <1>1, <1>6, <1>7, <1>8, <1>9, <1>11, <1>12, SameIndex DEF Inv

\* Writing an entry stores what a lookup returned.
LEMMA WrittenFacts ==
  ASSUME Inv, NEW o \in Outpoints
  PROVE  Written(cache[o], db.coins[o]) = Lookup(o) /\ Lookup(o) \in Coins
<1>1. EntryOK(cache[o], db.coins[o]) /\ Lookup(o) \in Coins
  BY Zenon, TipFacts
<1>2. /\ cache[o].dirty \in BOOLEAN
      /\ cache[o] = NoEntry => cache[o].dirty = FALSE
  BY ZenonT(60), EntryFields, Types
<1>. QED
  BY Zenon, <1>1, <1>2 DEF EntryOK, Written, Lookup, Seen

\* Where a write may go on: the entries that are left show the best block's coins,
\* and what is stored is from the block the write started at or already that.
LEMMA WriteFacts ==
  ASSUME Inv, CanWrite
  PROVE  /\ best # Null /\ damaged = FALSE /\ phase # "down"
         /\ \A o \in Outpoints : cache[o] # NoEntry => Lookup(o) = Utxo(best)[o]
         /\ \A o \in Outpoints : lost = {} => Lookup(o) = Utxo(best)[o]
         /\ \A o \in Outpoints : db.coins[o] \in {Utxo(old_tip)[o], Utxo(best)[o]}
         /\ db.heads.to # Null => best = db.heads.to
         /\ old_tip \in DOMAIN undo \cup {Null}
<1>1. /\ phase \in {"run", "stopping", "replay"}
      /\ phase \in {"run", "stopping"} => best # Null
      /\ phase = "replay" => flushing = TRUE
  BY Zenon, Recorded DEF CanWrite
<1>2. damaged = FALSE /\ best # Null
  BY Zenon, <1>1, Recorded DEF Inv, Phases, Memory
<1>3. /\ \A o \in Outpoints : cache[o] # NoEntry => Lookup(o) = Utxo(best)[o]
      /\ \A o \in Outpoints : lost = {} => Lookup(o) = Utxo(best)[o]
  BY Zenon, <1>1 DEF Inv, Phases, Memory
<1>4. db.heads.to # Null => best = db.heads.to
  BY Zenon, <1>1 DEF Inv, Database, Memory
<1>5. \A o \in Outpoints : db.coins[o] \in {Utxo(old_tip)[o], Utxo(best)[o]}
  <2>1. CASE db.heads.to = Null
    <3>1. old_tip = db.best
      BY Zenon, <2>1 DEF Inv, Database, old_tip
    <3>2. \A o \in Outpoints : db.coins[o] = Utxo(db.best)[o]
      BY Zenon, <1>2, <2>1 DEF Inv, Database
    <3>. QED
      BY Zenon, <3>1, <3>2
  <2>2. CASE db.heads.to # Null
    <3>1. old_tip = db.heads.from
      BY Zenon, <2>2 DEF Inv, Database, old_tip
    <3>2. \A o \in Outpoints : db.coins[o] \in {Utxo(db.heads.from)[o], Utxo(db.heads.to)[o]}
      BY Zenon, <2>2 DEF Inv, Database
    <3>. QED
      BY Zenon, <1>4, <2>2, <3>1, <3>2
  <2>. QED
    BY Zenon, <2>1, <2>2
<1>6. old_tip \in DOMAIN undo \cup {Null}
  BY Zenon, Recorded DEF old_tip
<1>. QED
  BY Zenon, <1>1, <1>2, <1>3, <1>4, <1>5, <1>6

LEMMA PartialInv ==
  ASSUME Inv, NEW S, S \subseteq Outpoints, WritePartialBatch(S)
  PROVE  /\ Inv' /\ db'.heads.to = best /\ phase' = phase /\ best' = best
         /\ \A o \in Outpoints : Lookup(o)' = Lookup(o)
<1>1. /\ CanWrite /\ S \subseteq Present /\ flushing' = TRUE
      /\ index' = index /\ undo' = undo /\ phase' = phase /\ best' = best /\ cursor' = cursor
      /\ lost' = lost /\ damaged' = damaged /\ stops' = stops /\ errors' = errors
      /\ db' = [coins |-> CoinsWith(S), best |-> Null, heads |-> [to |-> best, from |-> old_tip]]
      /\ cache' = [o \in Outpoints |-> IF o \in S THEN NoEntry ELSE cache[o]]
  BY Zenon DEF WritePartialBatch, Without
<1>2. /\ best # Null /\ damaged = FALSE /\ phase # "down"
      /\ \A o \in Outpoints : cache[o] # NoEntry => Lookup(o) = Utxo(best)[o]
      /\ \A o \in Outpoints : db.coins[o] \in {Utxo(old_tip)[o], Utxo(best)[o]}
      /\ db.heads.to # Null => best = db.heads.to
      /\ old_tip \in DOMAIN undo \cup {Null}
  BY Zenon, <1>1, WriteFacts
<1>3. /\ db'.coins = CoinsWith(S) /\ db'.best = Null /\ db'.heads.to = best /\ db'.heads.from = old_tip
      /\ db' = [coins |-> db'.coins, best |-> db'.best,
                heads |-> [to |-> db'.heads.to, from |-> db'.heads.from]]
  BY Zenon, <1>1
<1>4. ASSUME NEW o \in Outpoints
      PROVE  /\ db'.coins[o] = IF o \in S THEN Lookup(o) ELSE db.coins[o]
             /\ cache'[o] = IF o \in S THEN NoEntry ELSE cache[o]
             /\ o \in S => Lookup(o) = Utxo(best)[o]
             /\ EntryOK(cache'[o], db'.coins[o]) /\ Lookup(o)' = Lookup(o)
             /\ db'.coins[o] \in Coins /\ cache'[o] \in Entries
  <2>1. db'.coins[o] = IF o \in S THEN Lookup(o) ELSE db.coins[o]
    BY Zenon, <1>3, WrittenFacts DEF CoinsWith
  <2>2. cache'[o] = IF o \in S THEN NoEntry ELSE cache[o]
    BY Zenon, <1>1
  <2>3. o \in S => Lookup(o) = Utxo(best)[o]
    BY Zenon, <1>1, <1>2 DEF Present
  <2>4. EntryOK(cache[o], db.coins[o]) /\ EntryOK(NoEntry, Lookup(o))
    BY Zenon, TipFacts
  <2>5. EntryOK(cache'[o], db'.coins[o])
    BY Zenon, <2>1, <2>2, <2>4
  <2>6. Lookup(o)' = Lookup(o)
    BY Zenon, <2>1, <2>2 DEF Lookup, Seen
  <2>. QED
    BY Zenon, <2>1, <2>2, <2>3, <2>5, <2>6 DEF EntryOK
<1>5. db'.coins \in [Outpoints -> Coins] /\ cache' \in [Outpoints -> Entries]
  BY Zenon, <1>1, <1>3, <1>4 DEF CoinsWith
<1>6. Utxo(best)' = Utxo(best) /\ Utxo(cursor)' = Utxo(cursor)
      /\ Utxo(db.heads.to)' = Utxo(best) /\ Utxo(db.heads.from)' = Utxo(old_tip)
  BY Zenon, <1>1, <1>3 DEF Utxo
<1>7. CacheOK'
  BY Zenon, <1>4 DEF CacheOK
<1>8. Phases'
  <2>1. /\ phase # "replay" => cursor = Null
        /\ phase # "stopping" => lost = {}
        /\ \A o \in lost : cache[o] = NoEntry
        /\ lost \subseteq Outpoints
    BY Zenon, Recorded DEF Inv, Phases
  <2>2. \A o \in lost : cache'[o] = NoEntry
    BY Zenon, <1>4, <2>1
  <2>. QED
    BY ZenonT(60), <1>1, <1>2, <1>3, <2>1, <2>2 DEF Phases
<1>9. Memory'
  BY Zenon, <1>1, <1>3, <1>4, <1>6 DEF Inv, Memory, CanWrite
<1>10. Database'
  <2>1. \A o \in Outpoints : db'.coins[o] \in {Utxo(old_tip)[o], Utxo(best)[o]}
    BY ZenonT(60), <1>2, <1>4
  <2>. QED
    BY Zenon, <1>1, <1>2, <1>3, <1>6, <2>1 DEF Database
<1>11. {best', cursor', db'.best, db'.heads.to, db'.heads.from} \subseteq DOMAIN undo \cup {Null}
  BY Zenon, <1>1, <1>2, <1>3, Recorded
<1>12. TypeOK'
  BY Zenon, <1>1, <1>3, <1>5, <1>11, Recorded, SameTypes
<1>13. UndoOK'
  BY Zenon, <1>1, <1>11, SameUndo
<1>14. Tree' /\ ValidBlocks'
  BY Zenon, <1>1, SameIndex
<1>. QED
  BY Zenon, <1>1, <1>3, <1>4, <1>7, <1>8, <1>9, <1>10, <1>12, <1>13, <1>14 DEF Inv

LEMMA LastInv ==
  ASSUME Inv, WriteLastBatch
  PROVE  /\ Inv' /\ db'.heads.to = Null /\ db'.best = best
         /\ \A o \in Outpoints : db'.coins[o] = Lookup(o) /\ cache'[o] = NoEntry
         /\ db'.coins \in [Outpoints -> Coins]
<1>1. /\ CanWrite /\ flushing' = FALSE /\ cursor' = Null /\ lost' = {}
      /\ index' = index /\ undo' = undo /\ stops' = stops /\ errors' = errors
      /\ phase' = IF phase = "stopping" THEN "down" ELSE "run"
      /\ best' = IF phase = "stopping" THEN Null ELSE best
      /\ damaged' = (damaged \/ lost # {})
      /\ db' = [coins |-> CoinsWith(Outpoints), best |-> best,
                heads |-> [to |-> Null, from |-> Null]]
      /\ cache' = [o \in Outpoints |-> NoEntry]
  BY Zenon DEF WriteLastBatch, Without
<1>2. /\ best # Null /\ damaged = FALSE /\ phase # "down"
      /\ \A o \in Outpoints : lost = {} => Lookup(o) = Utxo(best)[o]
  BY Zenon, <1>1, WriteFacts
<1>3. /\ db'.coins = CoinsWith(Outpoints) /\ db'.best = best
      /\ db'.heads.to = Null /\ db'.heads.from = Null
      /\ db' = [coins |-> db'.coins, best |-> db'.best,
                heads |-> [to |-> db'.heads.to, from |-> db'.heads.from]]
  BY Zenon, <1>1
<1>4. \A o \in Outpoints : /\ db'.coins[o] = Lookup(o) /\ db'.coins[o] \in Coins
                           /\ cache'[o] = NoEntry /\ Lookup(o)' = Lookup(o)
                           /\ EntryOK(cache'[o], db'.coins[o])
  <2>1. \A o \in Outpoints : db'.coins[o] = Lookup(o) /\ db'.coins[o] \in Coins
    BY Zenon, <1>3, WrittenFacts DEF CoinsWith
  <2>2. \A o \in Outpoints : cache'[o] = NoEntry
    BY Zenon, <1>1
  <2>. QED
    BY Zenon, <2>1, <2>2 DEF EntryOK, Entries, Lookup, Seen
<1>5. db'.coins \in [Outpoints -> Coins] /\ cache' \in [Outpoints -> Entries]
  BY Zenon, <1>1, <1>3, <1>4, Recorded DEF CoinsWith
<1>6. /\ damaged' \in BOOLEAN /\ (damaged' = FALSE => lost = {})
      /\ (damaged' = TRUE => lost # {} /\ phase = "stopping")
  BY ZenonT(60), <1>1, <1>2 DEF Inv, Phases
<1>7. Utxo(best)' = Utxo(best') /\ Utxo(db.best)' = Utxo(best)
  BY Zenon, <1>1, <1>3 DEF Utxo
<1>8. CacheOK'
  BY Zenon, <1>4 DEF CacheOK
<1>9. Phases'
  BY Zenon, <1>1, <1>2, <1>3, <1>4, <1>6 DEF Phases
<1>10. Memory'
  <2>1. phase' = "run" => lost = {} /\ best' = best
    BY Zenon, <1>1 DEF Inv, Phases
  <2>2. phase' \in {"run", "down"}
    BY Zenon, <1>1
  <2>. QED
    BY Zenon, <1>2, <1>4, <1>7, <2>1, <2>2 DEF Memory
<1>11. Database'
  BY Zenon, <1>2, <1>3, <1>4, <1>6, <1>7 DEF Database
<1>12. {best', cursor', db'.best, db'.heads.to, db'.heads.from} \subseteq DOMAIN undo \cup {Null}
  BY Zenon, <1>1, <1>3, Recorded
<1>13. TypeOK'
  <2>1. phase' \in {"down", "replay", "run", "stopping"} /\ lost' \subseteq Outpoints
    BY Zenon, <1>1
  <2>. QED
    BY ZenonT(60), <1>1, <1>3, <1>5, <1>6, <1>12, <2>1, Recorded, SameTypes
<1>14. UndoOK'
  BY Zenon, <1>1, <1>12, SameUndo
<1>15. Tree' /\ ValidBlocks'
  BY Zenon, <1>1, SameIndex
<1>. QED
  BY Zenon, <1>3, <1>4, <1>5, <1>8, <1>9, <1>10, <1>11, <1>13, <1>14, <1>15 DEF Inv

LEMMA FailsInv ==
  ASSUME Inv, NEW S, S \subseteq Outpoints, WriteFails(S)
  PROVE  Inv'
<1>1. /\ phase \in {"run", "stopping"} /\ best # Null /\ S \subseteq Present
      /\ flushing' = FALSE /\ phase' = "stopping" /\ errors' = errors + 1
      /\ lost' = lost \cup {o \in S : cache[o].dirty}
      /\ index' = index /\ undo' = undo /\ db' = db /\ best' = best /\ cursor' = cursor
      /\ damaged' = damaged /\ stops' = stops
      /\ cache' = [o \in Outpoints |-> IF o \in S THEN NoEntry ELSE cache[o]]
  BY Zenon DEF WriteFails, Without
<1>2. /\ cursor = Null /\ damaged = FALSE /\ lost \subseteq Outpoints
      /\ \A o \in lost : cache[o] = NoEntry
      /\ \A o \in Outpoints \ lost : Lookup(o) = Utxo(best)[o]
  BY ZenonT(60), <1>1, Recorded DEF Inv, Phases, Memory
<1>3. ASSUME NEW o \in Outpoints
      PROVE  /\ cache'[o] = IF o \in S THEN NoEntry ELSE cache[o]
             /\ EntryOK(cache'[o], db.coins[o])
             /\ o \notin lost' => Lookup(o)' = Lookup(o) /\ o \notin lost
             /\ o \in lost' => cache'[o] = NoEntry
  <2>1. cache'[o] = IF o \in S THEN NoEntry ELSE cache[o]
    BY Zenon, <1>1
  <2>2. EntryOK(cache[o], db.coins[o])
    BY Zenon, TipFacts
  <2>3. EntryOK(cache'[o], db.coins[o])
    BY Zenon, <2>1, <2>2 DEF EntryOK, Entries
  <2>4. o \notin lost' => Lookup(o)' = Lookup(o) /\ o \notin lost
    <3>1. o \in S /\ cache[o].dirty = FALSE => Seen(cache[o], db.coins[o]) = db.coins[o]
      BY Zenon, <2>2 DEF EntryOK, Seen
    <3>2. cache[o].dirty \in BOOLEAN
      BY ZenonT(60), EntryFields, Types
    <3>. QED
      BY Zenon, <1>1, <2>1, <3>1, <3>2 DEF Lookup, Seen
  <2>5. o \in lost' => cache'[o] = NoEntry
    BY Zenon, <1>1, <1>2, <2>1
  <2>. QED
    BY Zenon, <2>1, <2>3, <2>4, <2>5
<1>4. cache' \in [Outpoints -> Entries] /\ lost' \subseteq Outpoints /\ errors' \in Nat
  BY SMTT(60), <1>1, <1>2, Recorded
<1>5. Utxo(best)' = Utxo(best) /\ Utxo(db.best)' = Utxo(db.best)
      /\ Utxo(db.heads.to)' = Utxo(db.heads.to) /\ Utxo(db.heads.from)' = Utxo(db.heads.from)
  BY Zenon, <1>1 DEF Utxo
<1>6. CacheOK'
  BY Zenon, <1>1, <1>3 DEF CacheOK
<1>7. Phases'
  BY ZenonT(60), <1>1, <1>2, <1>3, <1>4 DEF Phases
<1>8. Memory'
  BY Zenon, <1>1, <1>2, <1>3, <1>5 DEF Memory
<1>9. Database'
  BY ZenonT(60), <1>1, <1>5 DEF Inv, Database
<1>10. {best', cursor', db'.best, db'.heads.to, db'.heads.from} \subseteq DOMAIN undo \cup {Null}
  BY Zenon, <1>1, Recorded
<1>11. TypeOK'
  BY ZenonT(60), <1>1, <1>4, <1>10, Recorded, SameTypes
<1>12. UndoOK'
  BY Zenon, <1>1, <1>10, SameUndo
<1>. QED
  BY Zenon, <1>1, <1>6, <1>7, <1>8, <1>9, <1>11, <1>12, SameIndex DEF Inv

\* A new block is a new leaf; nothing that was known changes.
LEMMA NewBlockInv ==
  ASSUME Inv, NewBlock
  PROVE  /\ Inv'
         /\ \A b \in Blocks : b \in DOMAIN index' /\ index'[b] = index[b]
<1>1. PICK p \in Blocks, creates \in SUBSET Outpoints, spends \in SUBSET Outpoints :
        /\ \A o \in creates : Utxo(p)[o] = Spent
        /\ \A o \in spends : Utxo(p)[o] # Spent \/ o \in creates \ Coinbases
        /\ index' = [b \in Blocks \cup {Cardinality(Blocks)} |->
             IF b # Cardinality(Blocks) THEN index[b]
             ELSE [prev |-> p, nHeight |-> index[p].nHeight + 1,
                   creates |-> creates, spends |-> spends,
                   chain |-> index[p].chain \cup {Cardinality(Blocks)},
                   utxo |-> ApplyTxs(Utxo(p), index[p].nHeight + 1, creates, spends)]]
  BY Zenon DEF NewBlock
<1>2. /\ undo' = undo /\ db' = db /\ phase' = phase /\ cache' = cache /\ best' = best
      /\ cursor' = cursor /\ flushing' = flushing /\ lost' = lost /\ damaged' = damaged
      /\ stops' = stops /\ errors' = errors
  BY Zenon DEF NewBlock
<1>3. PICK n : n = Cardinality(Blocks)
  BY Zenon
<1>4. n \in Nat /\ Blocks = 0 .. n - 1 /\ IsFiniteSet(Blocks) /\ n \notin Blocks /\ n # Null
  <2>1. n \in Nat /\ Blocks = 0 .. n - 1 /\ IsFiniteSet(Blocks)
    BY Zenon, <1>3, FS_CardinalityType DEF Inv, TypeOK
  <2>. QED
    BY SMTT(60), <2>1 DEF Null
<1>5. Blocks' = Blocks \cup {n} /\ Blocks' = 0 .. n /\ IsFiniteSet(Blocks') /\ Cardinality(Blocks') = n + 1
  <2>1. Blocks' = Blocks \cup {n}
    BY ZenonT(60), <1>1, <1>3 DEF Blocks
  <2>2. IsFiniteSet(Blocks') /\ Cardinality(Blocks') = n + 1
    BY ZenonT(60), <1>3, <1>4, <2>1, FS_AddElement
  <2>. QED
    BY <1>4, <2>1, <2>2
<1>. DEFINE h == index[p].nHeight + 1
            u == ApplyTxs(Utxo(p), h, creates, spends)
<1>6. /\ h \in Nat /\ h # 0 /\ index[p].nHeight \in Nat /\ u \in [Outpoints -> Coins]
      /\ \A o \in Outpoints : u[o] = IF o \in spends THEN Spent
                                     ELSE IF o \in creates THEN h ELSE Utxo(p)[o]
      /\ index[p].chain \subseteq Blocks
  <2>1. Utxo(p) \in [Outpoints -> Coins] /\ index[p].nHeight \in Nat /\ index[p].chain \subseteq Blocks
    BY Zenon, Types
  <2>. QED
    BY SMTT(60), <2>1 DEF ApplyTxs, Coins, Spent
<1>7. \A b \in Blocks : b \in DOMAIN index' /\ index'[b] = index[b]
  BY Zenon, <1>1, <1>3, <1>4
<1>. HIDE DEF u, h
<1>8. index'[n] = [prev |-> p, nHeight |-> h, creates |-> creates, spends |-> spends,
                   chain |-> index[p].chain \cup {n}, utxo |-> u]
  BY ZenonT(60), <1>1, <1>3 DEF u, h
<1>9. /\ index'[n].prev = p /\ index'[n].nHeight = h /\ index'[n].creates = creates
      /\ index'[n].spends = spends /\ index'[n].chain = index[p].chain \cup {n}
      /\ index'[n].utxo = u
  BY SMTT(60), <1>8
<1>10. \A b \in Blocks \cup {Null} : Utxo(b)' = Utxo(b)
  BY Zenon, <1>4, <1>7 DEF Utxo
<1>11. TypeOK'
  <2>1. BlockRecords \subseteq BlockRecords'
    BY ZenonT(60), <1>5 DEF BlockRecords
  <2>2. index'[n] \in BlockRecords'
    BY <1>5, <1>6, <1>8 DEF BlockRecords
  <2>3. index' \in [Blocks' -> BlockRecords']
    <3>1. \A b \in Blocks' : index'[b] \in BlockRecords'
      BY Zenon, <1>5, <1>7, <2>1, <2>2 DEF Inv, TypeOK
    <3>2. index' = [b \in Blocks' |-> index'[b]]
      BY Zenon, <1>1, <1>3, <1>5
    <3>. QED
      BY Zenon, <3>1, <3>2
  <2>4. \A b \in DOMAIN undo : b \in Blocks /\ undo'[b] \in [index'[b].spends -> Coins \ {Spent}]
    BY ZenonT(60), <1>2, <1>7 DEF Inv, TypeOK
  <2>5. /\ db' \in [coins : [Outpoints -> Coins], best : Blocks' \cup {Null},
                    heads : [to : Blocks' \cup {Null}, from : Blocks' \cup {Null}]]
        /\ best' \in Blocks' \cup {Null} /\ cursor' \in Blocks' \cup {Null}
    BY Zenon, <1>2, <1>5 DEF Inv, TypeOK
  <2>6. Blocks' = 0 .. Cardinality(Blocks') - 1 /\ 0 \in Blocks'
    BY SMTT(60), <1>4, <1>5
  <2>7. /\ phase' \in {"down", "replay", "run", "stopping"} /\ cache' \in [Outpoints -> Entries]
        /\ flushing' \in BOOLEAN /\ lost' \subseteq Outpoints /\ damaged' \in BOOLEAN
        /\ stops' \in Nat /\ errors' \in Nat
    BY Zenon, <1>2, Recorded
  <2>8. DOMAIN undo' \subseteq Blocks'
    BY Zenon, <1>2, <1>5, <2>4
  <2>. QED
    BY Zenon, <1>2, <1>5, <2>3, <2>4, <2>5, <2>6, <2>7, <2>8 DEF TypeOK
<1>12. Tree'
  <2>1. /\ 0 \in Blocks /\ \A b \in Blocks : index[b].chain \subseteq Blocks /\ index[b].nHeight \in Nat
    BY Zenon, Types
  <2>2. index'[0].nHeight = 0 /\ index'[0].prev = Null /\ index'[0].chain = {0}
    BY Zenon, <1>7, <2>1 DEF Inv, Tree
  <2>3. ASSUME NEW b \in Blocks' \ {0}
        PROVE  /\ index'[b].prev \in Blocks'
               /\ index'[b].nHeight = index'[index'[b].prev].nHeight + 1
               /\ index'[b].chain = index'[index'[b].prev].chain \cup {b}
    <3>1. CASE b = n
      BY Zenon, <1>5, <1>7, <1>9, <3>1 DEF h
    <3>2. CASE b \in Blocks
      BY SMTT(60), <1>5, <1>7, <3>2 DEF Inv, Tree
    <3>. QED
      BY Zenon, <1>5, <3>1, <3>2
  <2>4. ASSUME NEW b \in Blocks' PROVE b \in index'[b].chain /\ 0 \in index'[b].chain
    BY Zenon, <1>5, <1>7, <1>9 DEF Inv, Tree
  <2>5. ASSUME NEW b \in Blocks, NEW c \in index[b].chain
        PROVE  /\ c \in Blocks /\ index'[c] = index[c]
               /\ index[c].nHeight <= index[b].nHeight
               /\ c # 0 => index[c].prev \in index[b].chain
               /\ \A d \in index[b].chain : index[c].nHeight = index[d].nHeight => c = d
    BY Zenon, <1>7, <2>1 DEF Inv, Tree
  <2>6. ASSUME NEW b \in Blocks', NEW c \in index'[b].chain
        PROVE  /\ index'[c].nHeight <= index'[b].nHeight
               /\ c # 0 => index'[c].prev \in index'[b].chain
               /\ \A d \in index'[b].chain : index'[c].nHeight = index'[d].nHeight => c = d
    <3>1. CASE b \in Blocks
      <4>1. index'[b] = index[b]
        BY Zenon, <1>7, <3>1
      <4>. QED
        BY SMTT(60), <3>1, <4>1, <2>5
    <3>2. CASE b = n
      <4>1. index'[b].chain = index[p].chain \cup {n} /\ index'[b].nHeight = h /\ index'[b].prev = p
        BY Zenon, <1>9, <3>2
      <4>2. ASSUME NEW d \in index[p].chain
            PROVE  /\ index'[d] = index[d] /\ index[d].nHeight < h /\ index[d].nHeight \in Nat
                   /\ d # 0 => index[d].prev \in index[p].chain
                   /\ \A e \in index[p].chain : index[d].nHeight = index[e].nHeight => d = e
        BY SMTT(60), <1>6, <2>1, <2>5 DEF h
      <4>3. p \in index[p].chain
        BY Zenon DEF Inv, Tree
      <4>4. CASE c = n
        BY SMTT(60), <1>6, <1>9, <4>1, <4>2, <4>3, <4>4
      <4>5. CASE c \in index[p].chain
        BY SMTT(60), <1>6, <1>9, <4>1, <4>2, <4>5
      <4>. QED
        BY Zenon, <4>1, <4>4, <4>5
    <3>. QED
      BY Zenon, <1>5, <3>1, <3>2
  <2>7. ASSUME NEW b \in Blocks', NEW k \in 0 .. index'[b].nHeight
        PROVE  \E c \in index'[b].chain : index'[c].nHeight = k
    <3>1. ASSUME NEW e \in Blocks, NEW j \in 0 .. index[e].nHeight
          PROVE  \E c \in index[e].chain : index'[c].nHeight = j
      <4>1. PICK c \in index[e].chain : index[c].nHeight = j
        BY ZenonT(60) DEF Inv, Tree
      <4>. QED
        BY Zenon, <1>7, <2>1, <4>1
    <3>2. CASE b \in Blocks
      BY <1>7, <3>1, <3>2
    <3>3. CASE b = n
      <4>1. CASE k = h
        BY Zenon, <1>9, <3>3, <4>1
      <4>2. CASE k # h
        <5>1. k \in 0 .. index[p].nHeight
          BY SMTT(60), <1>6, <1>9, <3>3, <4>2 DEF h
        <5>. QED
          BY ZenonT(60), <1>9, <3>1, <3>3, <5>1
      <4>. QED
        BY Zenon, <4>1, <4>2
    <3>. QED
      BY Zenon, <1>5, <3>2, <3>3
  <2>. QED
    BY Zenon, <2>2, <2>3, <2>4, <2>6, <2>7 DEF Tree
<1>13. ValidBlocks'
  <2>1. ASSUME NEW b \in Blocks', NEW o \in Outpoints
        PROVE  LET v == Utxo(index[b].prev)'[o]
               IN  /\ index'[b].utxo[o] = IF o \in index'[b].spends THEN Spent
                                          ELSE IF o \in index'[b].creates THEN index'[b].nHeight ELSE v
                   /\ o \in index'[b].creates => v = Spent /\ index'[b].nHeight # 0
                   /\ o \in index'[b].spends => o \in index'[b].creates \/ v # Spent
    <3>1. CASE b \in Blocks
      <4>1. index[b].prev \in Blocks \cup {Null} /\ index'[b] = index[b]
        BY Zenon, <1>7, <3>1, Types
      <4>2. Utxo(index[b].prev)' = Utxo(index[b].prev)
        BY Zenon, <1>10, <4>1 DEF Utxo
      <4>3. /\ index[b].utxo[o] = Effect(b, o, Utxo(index[b].prev)[o])
            /\ o \in index[b].creates => Utxo(index[b].prev)[o] = Spent /\ index[b].nHeight # 0
            /\ o \in index[b].spends => o \in index[b].creates \/ Utxo(index[b].prev)[o] # Spent
        BY Zenon, <3>1 DEF Inv, ValidBlocks
      <4>. QED
        BY Zenon, <4>1, <4>2, <4>3 DEF Effect
    <3>2. CASE b = n
      <4>1. Utxo(index[b].prev)' = Utxo(p)
        BY Zenon, <1>7, <1>9, <3>2 DEF Utxo
      <4>2. index'[b].utxo[o] = IF o \in spends THEN Spent
                               ELSE IF o \in creates THEN h ELSE Utxo(p)[o]
        BY Zenon, <1>6, <1>9, <3>2
      <4>3. /\ index'[b].spends = spends /\ index'[b].creates = creates
            /\ index'[b].nHeight = h /\ h # 0
        BY Zenon, <1>6, <1>9, <3>2
      <4>4. /\ o \in creates => Utxo(p)[o] = Spent
            /\ o \in spends => o \in creates \/ Utxo(p)[o] # Spent
        BY Zenon, <1>1
      <4>5. Utxo(index[b].prev)'[o] = Utxo(p)[o]
        BY Zenon, <4>1
      <4>. QED
        BY Zenon, <4>2, <4>3, <4>4, <4>5
    <3>. QED
      BY Zenon, <1>5, <3>1, <3>2
  <2>. QED
    BY Zenon, <2>1 DEF ValidBlocks, Effect
<1>14. UndoOK'
  <2>1. ASSUME NEW b \in DOMAIN undo
        PROVE  /\ index'[b] = index[b] /\ Utxo(index[b].prev)' = Utxo(index[b].prev)
    <3>1. b \in Blocks /\ index'[b] = index[b] /\ index[b].prev \in Blocks \cup {Null}
      BY Zenon, <1>7, Types
    <3>. QED
      BY Zenon, <1>7, <3>1 DEF Utxo
  <2>2. /\ \A b \in DOMAIN undo : \A o \in index[b].spends :
             undo[b][o] = IF o \in index[b].creates THEN index[b].nHeight
                          ELSE Utxo(index[b].prev)[o]
        /\ \A b \in DOMAIN undo : /\ index[b].prev \in DOMAIN undo \cup {Null}
                                  /\ index[b].chain \subseteq DOMAIN undo
        /\ {best, cursor, db.best, db.heads.to, db.heads.from} \subseteq DOMAIN undo \cup {Null}
    BY Zenon DEF Inv, UndoOK
  <2>. QED
    BY SMTT(60), <1>2, <2>1, <2>2 DEF UndoOK
<1>15. CacheOK' /\ Phases'
  BY Zenon, <1>2 DEF Inv, CacheOK, Phases
<1>16. /\ Utxo(best)' = Utxo(best) /\ Utxo(cursor)' = Utxo(cursor) /\ Utxo(db.best)' = Utxo(db.best)
       /\ Utxo(db.heads.to)' = Utxo(db.heads.to) /\ Utxo(db.heads.from)' = Utxo(db.heads.from)
  <2>1. {best, cursor, db.best, db.heads.to, db.heads.from} \subseteq Blocks \cup {Null}
    BY Zenon, Recorded, Types
  <2>. QED
    BY Zenon, <1>2, <1>7, <2>1 DEF Utxo
<1>17. Memory'
  BY ZenonT(60), <1>2, <1>16 DEF Inv, Memory, Lookup
<1>18. Database'
  BY Zenon, <1>2, <1>16 DEF Inv, Database
<1>. QED
  BY Zenon, <1>7, <1>11, <1>12, <1>13, <1>14, <1>15, <1>17, <1>18 DEF Inv

(***************************************************************************)
(* The theorems.                                                           *)
(***************************************************************************)

LEMMA InitInv == ASSUME Init PROVE Inv
<1>1. /\ index = [b \in {0} |-> Genesis] /\ undo = [b \in {} |-> 0]
      /\ db = [coins |-> [o \in Outpoints |-> Spent], best |-> Null,
               heads |-> [to |-> Null, from |-> Null]]
      /\ phase = "down" /\ cache = [o \in Outpoints |-> NoEntry]
      /\ best = Null /\ cursor = Null /\ flushing = FALSE /\ lost = {} /\ damaged = FALSE
      /\ stops = 0 /\ errors = 0
  BY Zenon DEF Init
<1>2. Blocks = {0} /\ IsFiniteSet(Blocks) /\ Cardinality(Blocks) = 1 /\ index[0] = Genesis
  BY ZenonT(60), <1>1, FS_Singleton DEF Blocks
<1>3. /\ index[0].prev = Null /\ index[0].nHeight = 0 /\ index[0].creates = {}
      /\ index[0].spends = {} /\ index[0].chain = {0}
      /\ index[0].utxo = [o \in Outpoints |-> Spent]
  BY <1>2 DEF Genesis
<1>4. DOMAIN undo = {}
  BY Zenon, <1>1
<1>5. /\ db.coins = [o \in Outpoints |-> Spent] /\ db.best = Null
      /\ db.heads.to = Null /\ db.heads.from = Null
  BY Zenon, <1>1
<1>6. Utxo(Null) = [o \in Outpoints |-> Spent]
  BY Zenon DEF Utxo
<1>7. TypeOK
  <2>1. index \in [Blocks -> BlockRecords]
    <3>1. Genesis \in BlockRecords
      BY Zenon, <1>2 DEF Genesis, BlockRecords, Coins, Spent
    <3>. QED
      BY Zenon, <1>1, <1>2, <3>1
  <2>2. db \in [coins : [Outpoints -> Coins], best : Blocks \cup {Null},
                heads : [to : Blocks \cup {Null}, from : Blocks \cup {Null}]]
    BY Zenon, <1>1 DEF Coins, Spent
  <2>3. Blocks = 0 .. Cardinality(Blocks) - 1
    BY SMTT(60), <1>2
  <2>4. cache \in [Outpoints -> Entries]
    BY Zenon, <1>1 DEF Entries
  <2>. QED
    BY ZenonT(60), <1>1, <1>2, <1>4, <2>1, <2>2, <2>3, <2>4 DEF TypeOK
<1>8. Tree
  BY SMTT(60), <1>2, <1>3 DEF Tree
<1>9. ValidBlocks
  BY Zenon, <1>2, <1>3, <1>6 DEF ValidBlocks, Effect
<1>10. UndoOK
  BY Zenon, <1>1, <1>4, <1>5 DEF UndoOK
<1>11. CacheOK
  BY Zenon, <1>1, <1>5 DEF CacheOK, EntryOK, Entries, Coins, Spent
<1>12. Phases
  BY Zenon, <1>1, <1>5 DEF Phases
<1>13. Memory
  BY Zenon, <1>1 DEF Memory
<1>14. Database
  BY Zenon, <1>1, <1>5, <1>6 DEF Database
<1>. QED
  BY Zenon, <1>7, <1>8, <1>9, <1>10, <1>11, <1>12, <1>13, <1>14 DEF Inv

LEMMA StutterInv == ASSUME Inv, UNCHANGED vars PROVE Inv'
<1>1. /\ index' = index /\ undo' = undo /\ db' = db /\ phase' = phase /\ cache' = cache
      /\ best' = best /\ cursor' = cursor /\ flushing' = flushing /\ lost' = lost
      /\ damaged' = damaged /\ stops' = stops /\ errors' = errors
  BY Zenon DEF vars
<1>2. TypeOK'
  BY Zenon, <1>1, Recorded, SameTypes
<1>3. UndoOK'
  BY Zenon, <1>1, Recorded, SameUndo
<1>4. CacheOK' /\ Phases'
  BY Zenon, <1>1 DEF Inv, CacheOK, Phases
<1>5. /\ Utxo(best)' = Utxo(best) /\ Utxo(cursor)' = Utxo(cursor) /\ Utxo(db.best)' = Utxo(db.best)
      /\ Utxo(db.heads.to)' = Utxo(db.heads.to) /\ Utxo(db.heads.from)' = Utxo(db.heads.from)
  BY Zenon, <1>1 DEF Utxo
<1>6. Memory' /\ Database'
  BY Zenon, <1>1, <1>5 DEF Inv, Memory, Database, Lookup
<1>. QED
  BY Zenon, <1>1, <1>2, <1>3, <1>4, <1>6, SameIndex DEF Inv

LEMMA StepInv == ASSUME Inv, [Next]_vars PROVE Inv'
<1>1. CASE NewBlock
  BY Zenon, <1>1, NewBlockInv
<1>2. ASSUME NEW b \in Blocks, ConnectTip(b) PROVE Inv'
  BY Zenon, <1>2, ConnectInv
<1>3. CASE DisconnectTip
  BY Zenon, <1>3, DisconnectInv
<1>4. ASSUME NEW o \in Outpoints, AccessCoin(o) \/ Uncache(o) PROVE Inv'
  BY Zenon, <1>4, AccessInv
<1>5. ASSUME NEW S \in SUBSET Outpoints, WritePartialBatch(S) PROVE Inv'
  BY Zenon, <1>5, PartialInv
<1>6. ASSUME NEW S \in SUBSET Outpoints, WriteFails(S) PROVE Inv'
  BY Zenon, <1>6, FailsInv
<1>7. CASE WriteLastBatch
  BY Zenon, <1>7, LastInv
<1>8. CASE Crash
  BY Zenon, <1>8, CrashInv
<1>9. CASE Startup
  BY Zenon, <1>9, StartupInv
<1>10. CASE RollbackBlock
  BY Zenon, <1>10, RollbackInv
<1>11. CASE RollforwardBlock
  BY Zenon, <1>11, RollforwardInv
<1>12. CASE ReplayDone
  BY Zenon, <1>12, ReplayDoneInv
<1>13. CASE UNCHANGED vars
  BY Zenon, <1>13, StutterInv
<1>. QED
  BY Zenon, <1>1, <1>2, <1>3, <1>4, <1>5, <1>6, <1>7, <1>8, <1>9, <1>10, <1>11, <1>12, <1>13
  DEF Next

LEMMA InvAlways == Spec => []Inv
<1>1. Init => Inv
  BY Zenon, InitInv
<1>2. Inv /\ [Next]_vars => Inv'
  BY Zenon, StepInv
<1>. QED
  BY <1>1, <1>2, PTL DEF Spec

\* What the invariant says of the properties that are model-checked.
LEMMA InvImplies ==
  ASSUME Inv
  PROVE  TypeOK /\ LookupsExact /\ DatabaseAtBest /\ FreshIsAbsent /\ HeadsDescribeMixture
<1>1. TypeOK /\ LookupsExact
  BY Zenon DEF Inv, Memory, LookupsExact
<1>2. DatabaseAtBest
  <2>1. ASSUME db.best # Null, ~damaged PROVE db.coins = Utxo(db.best)
    <3>1. db.heads.to = Null /\ damaged = FALSE
      BY Zenon, <2>1, Recorded DEF Inv, Database
    <3>2. \A o \in Outpoints : db.coins[o] = Utxo(db.best)[o]
      BY Zenon, <3>1 DEF Inv, Database
    <3>3. db.coins \in [Outpoints -> Coins] /\ Utxo(db.best) \in [Outpoints -> Coins]
      BY Zenon, Recorded, Types
    <3>. QED
      BY SMTT(60), <3>2, <3>3
  <2>. QED
    BY Zenon, <2>1 DEF DatabaseAtBest
<1>3. FreshIsAbsent
  BY ZenonT(60), FreshBase DEF Inv, CacheOK, FreshIsAbsent
<1>4. HeadsDescribeMixture
  BY Zenon, Recorded DEF Inv, Database, Memory, CanWrite, HeadsDescribeMixture
<1>. QED
  BY Zenon, <1>1, <1>2, <1>3, <1>4

\* No block that is valid on the tip fails to connect, and the tip disconnects.
LEMMA StepsFacts == ASSUME Inv PROVE StepsNeverFail
<1>1. SUFFICES ASSUME phase = "run"
               PROVE  /\ \A b \in Blocks : index[b].prev = best => ConnectOK(b)
                      /\ best # Null /\ Height(best) > 0 =>
                           best \in DOMAIN undo /\ DisconnectOK(best)
  BY Zenon DEF StepsNeverFail
<1>2. ASSUME NEW b \in Blocks, index[b].prev = best PROVE ConnectOK(b)
  <2>1. \A o \in Outpoints : ConnectsTo(b, o)
    BY Zenon, <1>1, <1>2, ConnectFacts
  <2>. QED
    BY Zenon, <2>1 DEF ConnectsTo, ConnectOK
<1>3. ASSUME best # Null PROVE best \in DOMAIN undo /\ DisconnectOK(best)
  <2>1. best \in DOMAIN undo
    BY Zenon, <1>3, Recorded
  <2>2. \A o \in Outpoints : DisconnectsTo(best, o)
    BY Zenon, <1>1, <2>1, DisconnectFacts
  <2>. QED
    BY ZenonT(60), <2>1, <2>2 DEF DisconnectsTo, DisconnectOK
<1>. QED
  BY Zenon, <1>2, <1>3

\* A lookup in pcoinsTip returns what the blocks up to its best block leave: FetchCoin,
\* AddCoin, SpendCoin, BatchWrite and Uncache lose and invent no coin.
THEOREM LookupsAreExact == Spec => []LookupsExact
  BY InvAlways, InvImplies, PTL

\* A chainstate that names a best block holds that block's coins, whatever crashes cut
\* short the writes of BatchWrite and the replays of ReplayBlocks.
THEOREM DatabaseIsAtBest == Spec => []DatabaseAtBest
  BY InvAlways, InvImplies, PTL

\* An entry is FRESH only where the database has no unspent coin.
THEOREM FreshIsSound == Spec => []FreshIsAbsent
  BY InvAlways, InvImplies, PTL

\* A chainstate in the middle of a write mixes the coins of the two blocks in
\* DB_HEAD_BLOCKS, and only a write to the same block continues it.
THEOREM HeadsAreSound == Spec => []HeadsDescribeMixture
  BY InvAlways, InvImplies, PTL

\* A valid block connects, the tip disconnects cleanly, and no logic_error is thrown.
THEOREM StepsSucceed == Spec => []StepsNeverFail
  BY InvAlways, StepsFacts, PTL

\* Every variable has its type.
THEOREM CoinsTypeCorrect == Spec => []TypeOK
  BY InvAlways, InvImplies, PTL

(***************************************************************************)
(* Refinement.  Blocks are learnt, the tip moves, and a write is visible   *)
(* at its first batch: from then on a crash leads to the new block.        *)
(***************************************************************************)

\* Two sets of coins that agree on every outpoint are the same.
LEMMA SameCoins ==
  ASSUME NEW A, NEW f \in [Outpoints -> A], NEW g,
         g = [o \in Outpoints |-> g[o]], \A o \in Outpoints : f[o] = g[o]
  PROVE  f = g
  BY Zenon

\* The abstract variables, phase by phase.
LEMMA StoreState ==
  ASSUME Inv
  PROVE  /\ phase = "run" => /\ storeMode = "up" /\ storeTip = best
                             /\ storeCoins = Utxo(best)
         /\ phase = "stopping" => storeMode = "stopping" /\ storeTip = best
         /\ phase \notin {"run", "stopping"} =>
              storeMode = "down" /\ storeTip = Null /\ storeCoins = Utxo(Null)
         /\ db.heads.to = Null => savedTip = db.best /\ savedCoins = db.coins
         /\ db.heads.to # Null => savedTip = db.heads.to /\ savedCoins = Utxo(db.heads.to)
         /\ damaged = FALSE => savedCoins = Utxo(savedTip)
         /\ storeSound = (damaged = FALSE)
<1>1. phase = "run" => storeCoins = Utxo(best)
  <2>1. SUFFICES ASSUME phase = "run" PROVE Utxo(best) = storeCoins
    BY Zenon
  <2>2. Utxo(best) \in [Outpoints -> Coins] /\ \A o \in Outpoints : Lookup(o) = Utxo(best)[o]
    BY Zenon, <2>1, Recorded, Types DEF Inv, Memory
  <2>3. /\ storeCoins = [o \in Outpoints |-> storeCoins[o]]
        /\ \A o \in Outpoints : storeCoins[o] = Lookup(o)
    BY Zenon, <2>1 DEF storeCoins, Up
  <2>. QED
    BY <2>2, <2>3, SameCoins
<1>2. phase \notin {"run", "stopping"} => storeCoins = Utxo(Null)
  BY Zenon DEF storeCoins, Up, Utxo
<1>3. /\ phase = "run" => storeMode = "up" /\ storeTip = best
      /\ phase = "stopping" => storeMode = "stopping" /\ storeTip = best
      /\ phase \notin {"run", "stopping"} => storeMode = "down" /\ storeTip = Null
  BY Zenon DEF storeMode, storeTip, Up
<1>4. /\ db.heads.to = Null => savedTip = db.best /\ savedCoins = db.coins
      /\ db.heads.to # Null => savedTip = db.heads.to /\ savedCoins = Utxo(db.heads.to)
  BY Zenon DEF savedTip, savedCoins
<1>5. damaged = FALSE => savedCoins = Utxo(savedTip)
  <2>1. CASE db.heads.to = Null /\ damaged = FALSE
    <3>1. \A o \in Outpoints : db.coins[o] = Utxo(db.best)[o]
      BY Zenon, <2>1 DEF Inv, Database
    <3>2. db.coins \in [Outpoints -> Coins] /\ Utxo(db.best) \in [Outpoints -> Coins]
      BY Zenon, Recorded, Types
    <3>3. db.coins = Utxo(db.best)
      BY <3>1, <3>2
    <3>. QED
      BY Zenon, <1>4, <2>1, <3>3
  <2>2. CASE db.heads.to # Null
    BY Zenon, <1>4, <2>2
  <2>. QED
    BY ZenonT(60), <2>1, <2>2
<1>. QED
  BY Zenon, <1>1, <1>2, <1>3, <1>4, <1>5 DEF storeSound

\* The same of a running node in the next state.
RunShown == phase = "run" => storeMode = "up" /\ storeTip = best /\ storeCoins = Utxo(best)

LEMMA RunShownNow == Inv => RunShown
  BY Zenon, StoreState DEF RunShown

LEMMA RunShownNext == Inv' => RunShown'
  BY RunShownNow, PTL

\* A step that leaves the database alone saves nothing.
LEMMA SameSaved ==
  ASSUME Inv, index' = index, db' = db, damaged' = damaged
  PROVE  savedTip' = savedTip /\ savedCoins' = savedCoins /\ storeSound' = storeSound
  BY Zenon DEF savedTip, savedCoins, storeSound, Utxo

\* Running, a cache that shows the same coins is the same.
LEMMA SameShown ==
  ASSUME phase' = phase, best' = best, \A o \in Outpoints : Lookup(o)' = Lookup(o)
  PROVE  storeMode' = storeMode /\ storeTip' = storeTip /\ storeCoins' = storeCoins
  BY Zenon DEF storeMode, storeTip, storeCoins, Up

\* While the process is down or replaying, memory is not visible.
LEMMA StillDown ==
  ASSUME phase \in {"down", "replay"}, phase' \in {"down", "replay"}
  PROVE  storeMode' = storeMode /\ storeTip' = storeTip /\ storeCoins' = storeCoins
  BY Zenon DEF storeMode, storeTip, storeCoins, Up

LEMMA StepRefines ==
  ASSUME Inv, Inv', Next
  PROVE  Store!Next \/ UNCHANGED Store!vars
<1>0. /\ damaged = TRUE => phase = "down"
      /\ damaged \in BOOLEAN /\ phase \in {"down", "replay", "run", "stopping"}
  BY ZenonT(60), Recorded DEF Inv, Phases
<1>1. CASE NewBlock
  <2>1. \A b \in DOMAIN index : b \in DOMAIN index' /\ index'[b] = index[b]
    BY Zenon, <1>1, NewBlockInv DEF Blocks
  <2>2. /\ db' = db /\ phase' = phase /\ cache' = cache /\ best' = best /\ damaged' = damaged
        /\ phase = "run"
    BY Zenon, <1>1 DEF NewBlock
  <2>3. storeMode' = storeMode /\ storeTip' = storeTip /\ storeCoins' = storeCoins
    BY Zenon, <2>2, SameShown DEF Lookup
  <2>4. savedTip' = savedTip /\ savedCoins' = savedCoins /\ storeSound' = storeSound
    <3>1. db.heads.to # Null => db.heads.to \in DOMAIN index
      BY Zenon, Recorded, Types DEF Blocks
    <3>. QED
      BY Zenon, <2>1, <2>2, <3>1 DEF savedTip, savedCoins, storeSound, Utxo
  <2>5. storeSound = TRUE
    BY ZenonT(60), <1>0, <2>2 DEF storeSound
  <2>. QED
    BY Zenon, <2>1, <2>3, <2>4, <2>5 DEF Store!Next, Store!Learn
<1>2. ASSUME NEW b \in Blocks, ConnectTip(b) PROVE Store!Next
  <2>1. /\ phase = "run" /\ phase' = "run" /\ index' = index /\ db' = db /\ damaged' = damaged
        /\ best' = b /\ index[b].prev = best
    BY Zenon, <1>2 DEF ConnectTip
  <2>2. /\ storeMode = "up" /\ storeTip = best /\ storeSound = TRUE
    BY Zenon, <1>0, <2>1, StoreState
  <2>3. /\ storeMode' = "up" /\ storeTip' = b
    BY Zenon, <2>1 DEF storeMode, storeTip, Up
  <2>4. storeCoins' = Store!Utxo(storeTip')
    <3>1. (phase = "run" => storeCoins = Utxo(best))'
      BY Zenon, RunShownNext DEF RunShown
    <3>2. storeCoins' = Utxo(best)'
      BY Zenon, <2>1, <3>1
    <3>. QED
      BY Zenon, <2>1, <2>3, <3>2 DEF Utxo, Store!Utxo
  <2>5. savedTip' = savedTip /\ savedCoins' = savedCoins /\ storeSound' = storeSound
    BY Zenon, <2>1, SameSaved
  <2>6. storeTip' \in DOMAIN index /\ index[storeTip'].prev = storeTip
    BY Zenon, <2>1, <2>2, <2>3 DEF Blocks
  <2>7. Store!Move
    BY Zenon, <2>1, <2>2, <2>3, <2>4, <2>5, <2>6 DEF Store!Move
  <2>. QED
    BY Zenon, <2>2, <2>7 DEF Store!Next
<1>3. CASE DisconnectTip
  <2>1. /\ phase = "run" /\ phase' = "run" /\ index' = index /\ db' = db /\ damaged' = damaged
        /\ best' = index[best].prev /\ best # Null
    BY Zenon, <1>3 DEF DisconnectTip
  <2>2. /\ storeMode = "up" /\ storeTip = best /\ storeSound = TRUE
    BY Zenon, <1>0, <2>1, StoreState
  <2>3. /\ storeMode' = "up" /\ storeTip' = index[best].prev
    BY Zenon, <2>1 DEF storeMode, storeTip, Up
  <2>4. storeCoins' = Store!Utxo(storeTip')
    <3>1. (phase = "run" => storeCoins = Utxo(best))'
      BY Zenon, RunShownNext DEF RunShown
    <3>2. storeCoins' = Utxo(best)'
      BY Zenon, <2>1, <3>1
    <3>. QED
      BY Zenon, <2>1, <2>3, <3>2 DEF Utxo, Store!Utxo
  <2>5. savedTip' = savedTip /\ savedCoins' = savedCoins /\ storeSound' = storeSound
    BY Zenon, <2>1, SameSaved
  <2>6. storeTip \in DOMAIN index /\ index[storeTip].prev = storeTip'
    BY Zenon, <2>1, <2>2, <2>3, Recorded, Types DEF Blocks
  <2>7. Store!Move
    BY Zenon, <2>1, <2>2, <2>3, <2>4, <2>5, <2>6 DEF Store!Move
  <2>. QED
    BY Zenon, <2>2, <2>7 DEF Store!Next
<1>4. ASSUME NEW o \in Outpoints, AccessCoin(o) \/ Uncache(o) PROVE UNCHANGED Store!vars
  <2>1. /\ index' = index /\ db' = db /\ damaged' = damaged /\ phase' = phase /\ best' = best
    BY ZenonT(60), <1>4 DEF AccessCoin, Uncache
  <2>2. \A p \in Outpoints : Lookup(p)' = Lookup(p)
    BY Zenon, <1>4, <2>1, AccessInv DEF Lookup
  <2>3. savedTip' = savedTip /\ savedCoins' = savedCoins /\ storeSound' = storeSound
    BY Zenon, <2>1, SameSaved
  <2>4. storeMode' = storeMode /\ storeTip' = storeTip /\ storeCoins' = storeCoins
    BY Zenon, <2>1, <2>2, SameShown
  <2>. QED
    BY Zenon, <2>1, <2>3, <2>4 DEF Store!vars
<1>5. ASSUME NEW S \in SUBSET Outpoints, WritePartialBatch(S)
      PROVE  Store!Next \/ UNCHANGED Store!vars
  <2>1. /\ db'.heads.to = best /\ phase' = phase /\ best' = best
        /\ \A o \in Outpoints : Lookup(o)' = Lookup(o)
    BY Zenon, <1>5, PartialInv
  <2>2. /\ index' = index /\ damaged' = damaged /\ CanWrite
    BY Zenon, <1>5 DEF WritePartialBatch
  <2>3. best # Null /\ damaged = FALSE /\ (db.heads.to # Null => best = db.heads.to)
    BY ZenonT(60), <2>2, WriteFacts
  <2>4. storeMode' = storeMode /\ storeTip' = storeTip /\ storeCoins' = storeCoins
    BY Zenon, <2>1, SameShown
  <2>5. savedTip' = best /\ savedCoins' = Utxo(best) /\ storeSound' = storeSound /\ storeSound = TRUE
    BY ZenonT(60), <2>1, <2>2, <2>3 DEF savedTip, savedCoins, storeSound, Utxo
  <2>6. CASE phase \in {"run", "stopping"}
    <3>1. storeMode \in {"up", "stopping"} /\ storeTip = best
      BY Zenon, <2>6 DEF storeMode, storeTip, Up
    <3>2. savedCoins' = Store!Utxo(storeTip)
      BY Zenon, <2>5, <3>1 DEF Utxo, Store!Utxo
    <3>. QED
      BY Zenon, <2>2, <2>4, <2>5, <3>1, <3>2 DEF Store!Next, Store!Save
  <2>7. CASE phase = "replay"
    <3>1. db.heads.to # Null
      BY Zenon, <2>7 DEF Inv, Phases
    <3>2. savedTip = best /\ savedCoins = Utxo(best)
      BY Zenon, <2>3, <3>1 DEF savedTip, savedCoins
    <3>. QED
      BY Zenon, <2>2, <2>4, <2>5, <3>2 DEF Store!vars
  <2>. QED
    BY Zenon, <1>0, <2>2, <2>6, <2>7 DEF CanWrite
<1>6. ASSUME NEW S \in SUBSET Outpoints, WriteFails(S) PROVE Store!Next
  <2>1. /\ index' = index /\ db' = db /\ damaged' = damaged /\ best' = best
        /\ phase \in {"run", "stopping"} /\ phase' = "stopping"
    BY Zenon, <1>6 DEF WriteFails
  <2>2. savedTip' = savedTip /\ savedCoins' = savedCoins /\ storeSound' = storeSound
    BY Zenon, <2>1, SameSaved
  <2>3. /\ storeMode \in {"up", "stopping"} /\ storeMode' = "stopping" /\ storeTip' = storeTip
        /\ storeSound = TRUE
    BY Zenon, <1>0, <2>1 DEF storeMode, storeTip, Up, storeSound
  <2>. QED
    BY Zenon, <2>1, <2>2, <2>3 DEF Store!Next, Store!Fail
<1>7. CASE WriteLastBatch
  <2>1. /\ CanWrite /\ index' = index /\ damaged' = (damaged \/ lost # {})
        /\ phase' = IF phase = "stopping" THEN "down" ELSE "run"
        /\ best' = IF phase = "stopping" THEN Null ELSE best
    BY Zenon, <1>7 DEF WriteLastBatch
  <2>2. /\ best # Null /\ damaged = FALSE /\ (db.heads.to # Null => best = db.heads.to)
        /\ \A o \in Outpoints : lost = {} => Lookup(o) = Utxo(best)[o]
    BY Zenon, <2>1, WriteFacts
  <2>3. CASE lost # {}
    <3>1. storeSound' = FALSE
      BY Zenon, <2>1, <2>3 DEF storeSound
    <3>. QED
      BY Zenon, <3>1 DEF Store!Next, Store!Damage
  <2>4. CASE lost = {}
    <3>1. damaged' = FALSE /\ storeSound = TRUE /\ storeSound' = storeSound
      BY ZenonT(60), <2>1, <2>2, <2>4 DEF storeSound
    <3>2. /\ db'.heads.to = Null /\ db'.best = best /\ \A o \in Outpoints : db'.coins[o] = Lookup(o)
          /\ db'.coins \in [Outpoints -> Coins]
      BY Zenon, <1>7, LastInv
    <3>3. savedTip' = best /\ savedCoins' = Utxo(best)
      <4>1. Utxo(best) \in [Outpoints -> Coins]
        BY Zenon, Recorded, Types
      <4>2. db'.coins = Utxo(best)
        BY SMTT(60), <2>2, <2>4, <3>2, <4>1
      <4>. QED
        BY Zenon, <3>2, <4>2 DEF savedTip, savedCoins
    <3>4. CASE phase = "run"
      <4>1. phase' = "run" /\ best' = best
        BY Zenon, <2>1, <3>4
      <4>2. storeMode = "up" /\ storeTip = best /\ storeCoins = Utxo(best)
        BY Zenon, <3>4, StoreState
      <4>3. (phase = "run" => storeMode = "up" /\ storeTip = best /\ storeCoins = Utxo(best))'
        BY Zenon, RunShownNext DEF RunShown
      <4>4. storeMode' = storeMode /\ storeTip' = storeTip /\ storeCoins' = storeCoins
        BY Zenon, <2>1, <4>1, <4>2, <4>3 DEF Utxo
      <4>5. savedCoins' = Store!Utxo(storeTip)
        BY Zenon, <3>3, <4>2 DEF Utxo, Store!Utxo
      <4>. QED
        BY Zenon, <2>1, <3>1, <3>3, <4>2, <4>4, <4>5 DEF Store!Next, Store!Save
    <3>5. CASE phase = "stopping"
      <4>1. phase' = "down"
        BY Zenon, <2>1, <3>5
      <4>2. storeMode = "stopping" /\ storeTip = best
        BY Zenon, <3>5, StoreState
      <4>3. storeMode' = "down" /\ storeTip' = Null /\ storeCoins' = Store!Utxo(Null)
        BY Zenon, <4>1 DEF storeMode, storeTip, storeCoins, Up, Store!Utxo
      <4>4. savedCoins' = Store!Utxo(storeTip)
        BY Zenon, <3>3, <4>2 DEF Utxo, Store!Utxo
      <4>. QED
        BY Zenon, <2>1, <3>1, <3>3, <4>2, <4>3, <4>4 DEF Store!Next, Store!Save
    <3>6. CASE phase = "replay"
      <4>1. phase' = "run" /\ best' = best
        BY Zenon, <2>1, <3>6
      <4>2. storeMode = "down" /\ savedTip = best /\ savedCoins = Utxo(best)
        <5>1. db.heads.to # Null
          BY Zenon, <3>6 DEF Inv, Phases
        <5>. QED
          BY Zenon, <2>2, <3>6, <5>1 DEF storeMode, savedTip, savedCoins
      <4>3. (phase = "run" => storeMode = "up" /\ storeTip = best /\ storeCoins = Utxo(best))'
        BY Zenon, RunShownNext DEF RunShown
      <4>4. storeMode' = "up" /\ storeTip' = savedTip /\ storeCoins' = savedCoins
        BY Zenon, <2>1, <4>1, <4>2, <4>3 DEF Utxo
      <4>. QED
        BY Zenon, <2>1, <3>1, <3>3, <4>2, <4>4 DEF Store!Next, Store!Start
    <3>. QED
      BY Zenon, <1>0, <2>1, <3>4, <3>5, <3>6 DEF CanWrite
  <2>. QED
    BY Zenon, <2>3, <2>4
<1>8. CASE Crash
  <2>1. /\ index' = index /\ db' = db /\ damaged' = damaged /\ phase # "down" /\ phase' = "down"
    BY Zenon, <1>8 DEF Crash
  <2>2. savedTip' = savedTip /\ savedCoins' = savedCoins /\ storeSound' = storeSound
    BY Zenon, <2>1, SameSaved
  <2>3. /\ storeMode' = "down" /\ storeTip' = Null /\ storeCoins' = Store!Utxo(Null)
        /\ storeSound = TRUE
    BY ZenonT(60), <1>0, <2>1 DEF storeMode, storeTip, storeCoins, Up, storeSound, Store!Utxo
  <2>. QED
    BY Zenon, <2>1, <2>2, <2>3 DEF Store!Next, Store!Stop
<1>9. CASE Startup
  <2>1. /\ index' = index /\ db' = db /\ damaged' = damaged /\ phase = "down" /\ damaged = FALSE
        /\ IF db.heads.to = Null THEN phase' = "run" /\ best' = db.best ELSE phase' = "replay"
    BY Zenon, <1>0, <1>9 DEF Startup
  <2>2. savedTip' = savedTip /\ savedCoins' = savedCoins /\ storeSound' = storeSound
    BY Zenon, <2>1, SameSaved
  <2>3. CASE db.heads.to = Null
    <3>1. storeMode = "down" /\ storeSound = TRUE /\ savedTip = db.best /\ savedCoins = Utxo(db.best)
      BY ZenonT(60), <2>1, <2>3, StoreState
    <3>2. (phase = "run" => storeMode = "up" /\ storeTip = best /\ storeCoins = Utxo(best))'
      BY Zenon, RunShownNext DEF RunShown
    <3>3. storeMode' = "up" /\ storeTip' = savedTip /\ storeCoins' = savedCoins
      BY Zenon, <2>1, <2>3, <3>1, <3>2 DEF Utxo
    <3>. QED
      BY Zenon, <2>1, <2>2, <3>1, <3>3 DEF Store!Next, Store!Start
  <2>4. CASE db.heads.to # Null
    <3>1. storeMode' = storeMode /\ storeTip' = storeTip /\ storeCoins' = storeCoins
      BY Zenon, <2>1, <2>4, StillDown
    <3>. QED
      BY Zenon, <2>1, <2>2, <3>1 DEF Store!vars
  <2>. QED
    BY Zenon, <2>3, <2>4
<1>10. CASE RollbackBlock \/ RollforwardBlock \/ ReplayDone
  <2>1. /\ index' = index /\ db' = db /\ damaged' = damaged /\ phase = "replay" /\ phase' = "replay"
    BY Zenon, <1>10 DEF RollbackBlock, RollforwardBlock, ReplayDone
  <2>2. savedTip' = savedTip /\ savedCoins' = savedCoins /\ storeSound' = storeSound
    BY Zenon, <2>1, SameSaved
  <2>3. storeMode' = storeMode /\ storeTip' = storeTip /\ storeCoins' = storeCoins
    BY Zenon, <2>1, StillDown
  <2>. QED
    BY Zenon, <2>1, <2>2, <2>3 DEF Store!vars
<1>. QED
  BY Zenon, <1>1, <1>2, <1>3, <1>4, <1>5, <1>6, <1>7, <1>8, <1>9, <1>10 DEF Next

\* pcoinsTip, the chainstate database and ReplayBlocks together implement UtxoStore: a
\* set of unspent outputs that follows the tip and is saved in single steps.
THEOREM CoinsImplementUtxoStore == Spec => ImplementsUtxoStore
<1>1. Init => Store!Init
  <2>1. SUFFICES ASSUME Init PROVE Store!Init
    BY Zenon
  <2>2. Inv
    BY Zenon, <2>1, InitInv
  <2>3. phase = "down" /\ damaged = FALSE /\ db.heads.to = Null /\ db.best = Null
    BY Zenon, <2>1 DEF Init
  <2>4. Utxo(Null) = Store!Utxo(Null)
    BY Zenon DEF Utxo, Store!Utxo
  <2>. QED
    BY ZenonT(60), <2>2, <2>3, <2>4, StoreState DEF Store!Init
<1>2. Inv /\ Inv' /\ [Next]_vars => [Store!Next]_(Store!vars)
  <2>1. SUFFICES ASSUME Inv, Inv', [Next]_vars PROVE Store!Next \/ UNCHANGED Store!vars
    BY Zenon
  <2>2. CASE UNCHANGED vars
    <3>1. /\ index' = index /\ db' = db /\ damaged' = damaged /\ phase' = phase /\ best' = best
          /\ cache' = cache
      BY Zenon, <2>2 DEF vars
    <3>2. savedTip' = savedTip /\ savedCoins' = savedCoins /\ storeSound' = storeSound
      BY Zenon, <2>1, <3>1, SameSaved
    <3>3. storeMode' = storeMode /\ storeTip' = storeTip /\ storeCoins' = storeCoins
      BY Zenon, <3>1, SameShown DEF Lookup
    <3>. QED
      BY Zenon, <3>1, <3>2, <3>3 DEF Store!vars
  <2>. QED
    BY Zenon, <2>1, <2>2, StepRefines
<1>. QED
  BY <1>1, <1>2, InvAlways, PTL DEF Spec, ImplementsUtxoStore, Store!Spec
=============================================================================
