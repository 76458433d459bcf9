--------------------------- MODULE MCChainRestart ---------------------------
(***************************************************************************)
(* Blocks of two miners; a block is irreversible as soon as both miners    *)
(* have blocks above its parent:                                           *)
(*                                                                         *)
(*       a1 --- a2 --- a3 --- a4 --- a5                                    *)
(*                `--- b3 --- b4                                           *)
(*                                                                         *)
(* m1 alone signs the second branch, so nothing above a2 is irreversible   *)
(* there, and no branch leaves an irreversible block behind.               *)
(***************************************************************************)
EXTENDS ChainRestart

CONSTANTS a1, a2, a3, a4, a5, b3, b4, m1, m2

MCBlocks == {a1, a2, a3, a4, a5, b3, b4}

MCParent == a1 :> NoBlock @@ a2 :> a1 @@ a3 :> a2 @@ a4 :> a3 @@ a5 :> a4
            @@ b3 :> a2 @@ b4 :> b3

MCMiner == [b \in MCBlocks |-> IF b \in {a1, a3, a5, b3, b4} THEN m1 ELSE m2]

MCCoin == <<>>
MCTxs == [b \in MCBlocks |-> <<>>]
============================================================================
