-------------------------- MODULE MCChainDatabase --------------------------
(***************************************************************************)
(* A tree of blocks for ChainDatabase:                                     *)
(*                                                                         *)
(*       a1 --- a2 --- a3 --- a4 --- a5 --- a6                             *)
(*         \      `--- c3 --- c4                                           *)
(*          `-- b2 --- b3 --- b4                                           *)
(*                                                                         *)
(* t1 and t2 exclude each other; they are in different branches.           *)
(***************************************************************************)
EXTENDS ChainDatabase

CONSTANTS a1, a2, a3, a4, a5, a6, b2, b3, b4, c3, c4, t1, t2, t3, m1, m2

MCBlocks == {a1, a2, a3, a4, a5, a6, b2, b3, b4, c3, c4}

MCParent == a1 :> NoBlock @@ a2 :> a1 @@ a3 :> a2 @@ a4 :> a3 @@ a5 :> a4 @@ a6 :> a5
            @@ b2 :> a1 @@ b3 :> b2 @@ b4 :> b3 @@ c3 :> a2 @@ c4 :> c3

MCMiner == [b \in MCBlocks |-> IF b \in {a1, a2, a4, a6, b4, c4} THEN m1 ELSE m2]

MCCoin == t1 :> 1 @@ t2 :> 1 @@ t3 :> 2

MCTxs == [b \in MCBlocks |-> CASE b = a2 -> <<t1>>
                               [] b = a3 -> <<t3>>
                               [] b = b3 -> <<t2>>
                               [] b = c3 -> <<t3>>
                               [] OTHER  -> <<>>]
============================================================================
