---------------------------- MODULE ForkDatabase ----------------------------
(***************************************************************************)
(* fork_database (libraries/chain/fork_database.cpp): the tree of recent   *)
(* blocks, as operators on the value of its fields.  The unlinked index is *)
(* always empty: push_block rethrows before it inserts there, and          *)
(* _push_next is called from nowhere.                                      *)
(*                                                                         *)
(* An item points to its parent by a weak_ptr, which is dead once the      *)
(* parent has left the index: `linked` are the blocks of the index whose   *)
(* prev can still be locked.  The head is an item of its own, because the  *)
(* head may have been removed from the index, or be a second copy of a     *)
(* block that was in the index already.                                    *)
(***************************************************************************)
EXTENDS Naturals, Sequences, SequencesExt, FiniteSetsExt

CONSTANTS
  Blocks,    \* the blocks that are ever made, by id
  NoBlock,   \* the null id, which the first block names as its previous
  Parent     \* the id that each block names as its previous

\* A block names the hash of its previous one, so there is no way round.
ASSUME BlocksAssumption ==
  /\ NoBlock \notin Blocks
  /\ Parent \in [Blocks -> Blocks \cup {NoBlock}]
  /\ \A S \in SUBSET Blocks : S # {} => \E b \in S : Parent[b] \notin S

(* The blocks from the first one to b: its number is its place in the path.*)
Path[b \in Blocks] == IF Parent[b] = NoBlock THEN <<b>> ELSE Append(Path[Parent[b]], b)

PathTo(id) == IF id = NoBlock THEN <<>> ELSE Path[id]
Num(id) == Len(PathTo(id))

Monus(m, n) == IF m > n THEN m - n ELSE 0

NoItem == [block |-> NoBlock, linked |-> FALSE]

EmptyForkDB == [index |-> {}, linked |-> {}, head |-> NoItem, max_size |-> 1024]

IsForkDB(f) ==
  /\ f \in [index : SUBSET Blocks, linked : SUBSET Blocks, max_size : Nat,
            head : [block : Blocks \cup {NoBlock}, linked : BOOLEAN]]
  /\ f.linked \subseteq f.index
  /\ f.head.block = NoBlock => f.head = NoItem

Item(f, b) == [block |-> b, linked |-> b \in f.linked]

(* Items leave the index, and the links of their children die. *)
Erase(f, S) ==
  LET gone == f.index \cap S
  IN  [f EXCEPT !.index = @ \ gone,
                !.linked = {b \in @ \ gone : Parent[b] \notin gone},
                !.head = IF @.block # NoBlock /\ Parent[@.block] \in gone
                         THEN [@ EXCEPT !.linked = FALSE] ELSE @]

RemoveItem(f, b) == Erase(f, {b})

SetHead(f, item) == [f EXCEPT !.head = item]

SetMaxSize(f, n) ==
  LET g == [f EXCEPT !.max_size = n]
  IN  IF f.head = NoItem THEN g
      ELSE Erase(g, {b \in g.index : Num(b) < Monus(Num(g.head.block), n)})

(* push_block throws when the block is too old or links to no known block. *)
Pushable(f, b) ==
  f.head # NoItem =>
    /\ Num(b) > Monus(Num(f.head.block), f.max_size)
    /\ Parent[b] # NoBlock => Parent[b] \in f.index

(* An id that is in the index already is not inserted again, but the new   *)
(* item becomes the head if it is higher than the head.                    *)
Push(f, b) ==
  LET links == f.head # NoItem /\ Parent[b] # NoBlock
      item  == [block |-> b, linked |-> links]
      g     == [f EXCEPT !.index = @ \cup {b},
                         !.linked = IF links /\ b \notin f.index THEN @ \cup {b} ELSE @]
  IN  IF f.head = NoItem THEN SetHead(g, item)
      ELSE IF Num(b) > Num(f.head.block)
      THEN Erase(SetHead(g, item), {x \in g.index : Num(x) < Monus(Num(b), f.max_size)})
      ELSE g

(* pop_block; `held` are the blocks whose items the caller keeps alive. *)
Poppable(f, held) ==
  f.head # NoItem /\ (f.head.linked \/ Parent[f.head.block] \in held)

Pop(f) == SetHead(f, Item(f, Parent[f.head.block]))

(* fetch_branch_from(first, second): the number of the last block that the *)
(* two branches leave out because both of them have it, and whether every  *)
(* prev on the way down to it can be locked.                               *)
Shared(first, second) ==
  Max({n \in 0 .. Min({Num(first), Num(second)}) - 1 :
         SubSeq(Path[first], 1, n) = SubSeq(Path[second], 1, n)})

Branch(n, b) == SubSeq(Path[b], n + 1, Num(b))

BranchFound(f, first, second) ==
  /\ {first, second} \subseteq f.index
  /\ \A b \in {first, second} :
       \A i \in Shared(first, second) + 2 .. Num(b) : Path[b][i] \in f.linked
============================================================================
