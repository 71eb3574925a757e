-------------------------- MODULE MCChainSelection --------------------------
(* Small trees of blocks for TLC: two forks from the genesis block.        *)
EXTENDS ChainSelection, TLC

CONSTANTS g, a1, a2, b1, b2

TwoForks == {g, a1, a2, b1, b2}

TwoForksParent == g :> None @@ a1 :> g @@ a2 :> a1 @@ b1 :> g @@ b2 :> b1

(* b2 has the work of two blocks: with it the fork of b can be unparked.   *)
TwoForksProof == [b \in TwoForks |-> IF b = b2 THEN 4 ELSE 2]

TwoForksAddr == g :> 0 @@ a1 :> 1 @@ a2 :> 2 @@ b1 :> 3 @@ b2 :> 4

(* A fork of one block that outweighs the other fork, by too little to be  *)
(* unparked without a command.                                             *)
ShortFork == TwoForks \ {b2}

ShortForkProof == [b \in ShortFork |-> IF b = b1 THEN 5 ELSE 2]
=============================================================================
