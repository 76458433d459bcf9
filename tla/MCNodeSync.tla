----------------------------- MODULE MCNodeSync -----------------------------
(***************************************************************************)
(* Two nodes that a node connects to, and small trees of blocks.           *)
(***************************************************************************)
EXTENDS NodeSync, TLC

CONSTANTS n1, n2, a1, a2, a3, a4, b2, b3

\* A chain whose second block is invalid, and a peer that has nothing at first.
BadBlocks == {a1, b2, b3}
BadParent == a1 :> NoBlock @@ b2 :> a1 @@ b3 :> b2
BadTips   == n1 :> {NoBlock} @@ n2 :> {b3}

\* One chain of two blocks, which both peers have.
PairBlocks == {a1, a2}
PairParent == a1 :> NoBlock @@ a2 :> a1
PairTips   == n1 :> {a2} @@ n2 :> {a2}

\* One chain, of which the only peer has some part.
LongBlocks == {a1, a2, a3, a4}
LongParent == a1 :> NoBlock @@ a2 :> a1 @@ a3 :> a2 @@ a4 :> a3
LongTips   == n1 :> (LongBlocks \cup {NoBlock})
=============================================================================
