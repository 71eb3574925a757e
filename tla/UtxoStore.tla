------------------------------ MODULE UtxoStore ------------------------------
(***************************************************************************)
(* What the coins cache and the chainstate database promise together: a    *)
(* set of unspent outputs that follows the tip block by block, and a saved *)
(* copy of it that is replaced in one step and from which a restart        *)
(* resumes.  Caches, flags, batches and the replay of an interrupted write *)
(* are not visible here.                                                   *)
(***************************************************************************)
EXTENDS Integers

CONSTANTS Outpoints, Spent, Null

VARIABLES blocks,   \* the blocks known so far, each with the set it leaves
          mode,     \* "up", "stopping" (a write has failed) or "down"
          tip,      \* the block the coins are at
          coins,    \* what a lookup returns
          saved,    \* the block a restart resumes from
          stored,   \* the coins a restart resumes with
          sound     \* nothing was ever saved with coins missing

vars == <<blocks, mode, tip, coins, saved, stored, sound>>

\* The unspent outputs once b is the tip; Null is the empty chain.
Utxo(b) == IF b = Null THEN [o \in Outpoints |-> Spent] ELSE blocks[b].utxo

Init == /\ mode = "down" /\ sound = TRUE
        /\ tip = Null /\ coins = Utxo(Null)
        /\ saved = Null /\ stored = Utxo(Null)

\* A block arrives; the ones already known do not change.
Learn == /\ \A b \in DOMAIN blocks : b \in DOMAIN blocks' /\ blocks'[b] = blocks[b]
         /\ UNCHANGED <<mode, tip, coins, saved, stored, sound>>

\* One block is connected or disconnected.
Move == /\ mode = "up"
        /\ \/ tip' \in DOMAIN blocks /\ blocks[tip'].prev = tip
           \/ tip \in DOMAIN blocks /\ blocks[tip].prev = tip'
        /\ coins' = Utxo(tip')
        /\ UNCHANGED <<blocks, mode, saved, stored, sound>>

Save == /\ mode \in {"up", "stopping"}
        /\ saved' = tip /\ stored' = Utxo(tip)
        /\ mode' \in {mode, "down"}
        /\ UNCHANGED <<blocks, sound>>
        /\ IF mode' = "down" THEN tip' = Null /\ coins' = Utxo(Null)
                             ELSE UNCHANGED <<tip, coins>>

\* A write fails: the memory is no longer to be relied on.
Fail == /\ mode \in {"up", "stopping"} /\ mode' = "stopping"
        /\ UNCHANGED <<blocks, tip, saved, stored, sound>>

Stop == /\ mode' = "down" /\ tip' = Null /\ coins' = Utxo(Null)
        /\ UNCHANGED <<blocks, saved, stored, sound>>

Start == /\ mode = "down" /\ mode' = "up"
         /\ tip' = saved /\ coins' = stored
         /\ UNCHANGED <<blocks, saved, stored, sound>>

\* Coins were lost with a failed write and the rest was saved all the same:
\* nothing more is promised.
Damage == sound' = FALSE

Next == Damage \/ (sound = TRUE /\ (Learn \/ Move \/ Save \/ Fail \/ Stop \/ Start))

Spec == Init /\ [][Next]_vars
=============================================================================
