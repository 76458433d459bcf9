--------------------------- MODULE ChainDatabase ---------------------------
(***************************************************************************)
(* The chain database (libraries/chain/db_block.cpp, db_with.hpp): how     *)
(* push_block, push_transaction and generate_block drive the fork          *)
(* database, the undo database, the block log and the pending transactions.*)
(*                                                                         *)
(* The object database is the head block it is the state of, and the       *)
(* pending transactions applied after it.  The undo database is the stack  *)
(* of copies that SnapshotUndo describes.  push_block runs in steps, named *)
(* by call.at; nothing interleaves with them except the end of the process.*)
(***************************************************************************)
EXTENDS BlockDatabase

CONSTANTS
  Bad,            \* blocks that never apply (a wrong signature, time, root)
  Miners,
  Miner,          \* the miner of each block
  Transactions,
  Coin,           \* two transactions with the same coin exclude each other
  Executing,      \* transactions that make a proposal execute
  Txs,            \* the transactions of each block, in order
  MaxBlockTxs,    \* maximum_block_size, as a number of transactions
  SizeMayGrow,    \* whether results may make a block too big after all
  MaxPending      \* bound: pending transactions, when one more is pushed

ASSUME ChainAssumption ==
  /\ Bad \subseteq Blocks
  /\ Miner \in [Blocks -> Miners] /\ IsFiniteSet(Miners) /\ Miners # {}
  /\ DOMAIN Coin = Transactions /\ Executing \subseteq Transactions
  /\ Txs \in [Blocks -> Seq(Transactions)]
  /\ MaxBlockTxs \in Nat
  /\ SizeMayGrow \in BOOLEAN
  /\ MaxPending \in Nat

VARIABLES
  db,               \* the object database
  undo,             \* the undo states, as copies of db
  undo_max,         \* the limit on their number
  fork,             \* _fork_db
  log,              \* _block_id_to_block
  pending,          \* _pending_tx
  pending_session,  \* whether _pending_tx_session is valid
  popped,           \* _popped_tx
  call              \* the push_block that is running

vars == <<db, undo, undo_max, fork, log, pending, pending_session, popped, call>>

State == [head : Blocks \cup {NoBlock}, pending : Seq(Transactions)]

Call == [at : {"idle", "apply", "pop", "switch", "unwind", "rebuild", "restore"},
         block : Blocks \cup {NoBlock}, todo : Seq(Blocks), good : Seq(Blocks),
         saved : Seq(Transactions), before : Blocks \cup {NoBlock},
         known : SUBSET Transactions, failed : BOOLEAN]

Idle == [at |-> "idle", block |-> NoBlock, todo |-> <<>>, good |-> <<>>,
         saved |-> <<>>, before |-> NoBlock, known |-> {}, failed |-> FALSE]

----------------------------------------------------------------------------
(* What blocks and transactions do to the object database. *)

InChain(id) == UNION {ToSet(Txs[b]) : b \in ToSet(PathTo(id))}

Known(d) == InChain(d.head) \cup ToSet(d.pending)

Valid(known, t) == \A u \in known : Coin[u] # Coin[t]

(* _apply_block: validate_block_header, then every transaction in turn *)
Applies(d, b) ==
  /\ Parent[b] = d.head
  /\ b \notin Bad
  /\ \A i \in DOMAIN Txs[b] :
        Valid(InChain(d.head) \cup {Txs[b][j] : j \in 1 .. i - 1}, Txs[b][i])

LastConfirmed(id, m) ==
  Max({0} \cup {n \in 1 .. Num(id) : Miner[Path[id][n]] = m})

(* update_last_irreversible_block: of the miners' last blocks, the one     *)
(* that 30% of them have not reached yet.                                  *)
LastIrreversible(id) ==
  LET offset == (30 * Cardinality(Miners)) \div 100
      below(n) == Cardinality({m \in Miners : LastConfirmed(id, m) < n})
  IN  Max({n \in 0 .. Num(id) : n = 0 \/ below(n) <= offset})

(* Seeded fault: the block itself is not counted. *)
HistorySizeWithoutHead(b) == Num(b) - LastIrreversible(Parent[b])

(* update_global_dynamic_data, which runs before the block can make        *)
(* another one irreversible                                                *)
HistorySize(b) == Num(b) - LastIrreversible(Parent[b]) + 1

----------------------------------------------------------------------------
(* Sessions of the undo database, on a stack u of copies. *)

TrimTo(n, u) == IF Len(u) > n THEN SubSeq(u, Len(u) - n + 1, Len(u)) ELSE u

Start(u, d) == Append(TrimTo(undo_max, u), d)

(* Seeded fault: the state of a session that failed is kept. *)
DiscardNothing(u) == u

(* The newest session is undone: see UndoDatabase. *)
Discard(u) == IF Len(u) = 1 THEN u ELSE Front(u)

(* A session inside the newest one has started and ended, and perhaps one  *)
(* inside of that.                                                         *)
Child(u) == TrimTo(undo_max, u)
Grandchild(u) == Front(TrimTo(undo_max, Start(u, Last(u))))

(* _pending_tx_session.reset() *)
Cleared == IF pending_session THEN Last(undo) ELSE db
ClearedUndo == IF pending_session THEN Discard(undo) ELSE undo

----------------------------------------------------------------------------
(* Seeded fault: a transaction becomes pending before it is applied. *)
PushTxThenApply(t) ==
  LET u == IF pending_session THEN undo ELSE Start(undo, db)
  IN  /\ pending_session' = TRUE
      /\ undo' = Child(u)
      /\ db' = IF Valid(Known(db), t) THEN [db EXCEPT !.pending = Append(@, t)] ELSE db
      /\ pending' = Append(pending, t)

(* _push_transaction *)
PushTx(t) ==
  LET u     == IF pending_session THEN undo ELSE Start(undo, db)
      valid == Valid(Known(db), t)
  IN  /\ pending_session' = TRUE
      /\ undo' = IF valid /\ t \in Executing THEN Grandchild(u) ELSE Child(u)
      /\ db' = IF valid THEN [db EXCEPT !.pending = Append(@, t)] ELSE db
      /\ pending' = IF valid THEN Append(pending, t) ELSE pending

PushTransaction(t) ==
  /\ call = Idle
  /\ Len(pending) < MaxPending
  /\ PushTx(t)
  /\ UNCHANGED <<undo_max, fork, log, popped, call>>

----------------------------------------------------------------------------
(* push_block *)

(* Seeded faults: a branch that is as high as the chain is switched to; a  *)
(* block that is not higher is applied all the same.                       *)
ReactionToTie(tip, head) ==
  IF Parent[tip] = head THEN "apply" ELSE IF Num(tip) < Num(head) THEN "ignore" ELSE "switch"
ReactionNeverIgnores(tip, head) ==
  IF Parent[tip] = head \/ Num(tip) <= Num(head) THEN "apply" ELSE "switch"

(* What the block at the head of the fork database makes of the chain.     *)
Reaction(tip, head) ==
  IF Parent[tip] = head THEN "apply" ELSE IF Num(tip) <= Num(head) THEN "ignore" ELSE "switch"

Fails == [call EXCEPT !.at = "restore", !.failed = TRUE]

(* The restorer takes the pending transactions away, then the fork         *)
(* database decides: to apply the block, to switch to its branch, to       *)
(* ignore it, or to throw.                                                 *)
BeginPush(b, u) ==
  LET started == [Idle EXCEPT !.block = b, !.saved = pending, !.before = Cleared.head,
                                !.known = Known(db)]
      head    == Cleared.head
      tip     == fork'.head.block
      common  == Shared(tip, head)
  IN  /\ db' = Cleared
      /\ undo' = u
      /\ pending' = <<>>
      /\ pending_session' = FALSE
      /\ fork' = IF Pushable(fork, b) THEN Push(fork, b) ELSE fork
      /\ call' =
           IF ~Pushable(fork, b) THEN [started EXCEPT !.at = "restore", !.failed = TRUE]
           ELSE IF Reaction(tip, head) = "apply" THEN [started EXCEPT !.at = "apply"]
           ELSE IF Reaction(tip, head) = "ignore" THEN [started EXCEPT !.at = "restore"]
           ELSE IF BranchFound(fork', tip, head)
           THEN [started EXCEPT !.at = "pop", !.todo = Branch(common, tip),
                                !.good = Branch(common, head)]
           ELSE [started EXCEPT !.at = "restore", !.failed = TRUE]
      /\ UNCHANGED <<undo_max, log, popped>>

(* Blocks are pushed in order when there is no block to link to yet.       *)
PushBlock(b) ==
  /\ call = Idle
  /\ fork.head = NoItem => Parent[b] = db.head
  /\ BeginPush(b, ClearedUndo)

ApplyBlock ==
  /\ call.at = "apply"
  /\ Applies(db, call.block)
  /\ db' = [head |-> call.block, pending |-> <<>>]
  /\ undo_max' = HistorySize(call.block)
  /\ LET u == Start(undo, db)
     IN  undo' = TrimTo(undo_max', IF ToSet(Txs[call.block]) \cap Executing = {}
                                   THEN u ELSE Child(u))
  /\ fork' = SetMaxSize(fork, undo_max')
  /\ log' = Store(log, call.block, call.block)
  /\ call' = [call EXCEPT !.at = "restore"]
  /\ UNCHANGED <<pending, pending_session, popped>>

RejectBlock ==
  /\ call.at = "apply"
  /\ ~Applies(db, call.block)
  /\ undo' = Discard(Start(undo, db))
  /\ fork' = RemoveItem(fork, call.block)
  /\ call' = Fails
  /\ UNCHANGED <<db, undo_max, log, pending, pending_session, popped>>

(* The blocks of both branches, which the caller of pop_block holds. *)
Held == ToSet(call.todo) \cup ToSet(call.good)

(* Seeded fault: the transactions of a popped block are forgotten. *)
CachedNone(b) == popped

(* _popped_tx, with the transactions of a popped block in front. *)
Cached(b) == Txs[b] \o popped

(* pop_block throws before it does anything, after the fork database was   *)
(* popped, or after the block has left the log as well.                    *)
BlockFound == db.head \in fork.index \/ FetchById(log, db.head) # NoBlock
ForkPopped(held) == db.head # NoBlock /\ BlockFound /\ Poppable(fork, held)
Unlogged(held) == ForkPopped(held) /\ HasEntry(log, db.head)
PopDone(held) == Unlogged(held) /\ undo # <<>>

PopFork(held) == IF ForkPopped(held) THEN Pop(fork) ELSE fork

PopBlock(held) ==
  /\ log' = IF Unlogged(held) THEN RemoveEntry(log, db.head) ELSE log
  /\ IF PopDone(held)
     THEN db' = Last(undo) /\ undo' = Front(undo) /\ popped' = Cached(db.head)
     ELSE UNCHANGED <<db, undo, popped>>

PopHead ==
  /\ db.head # Parent[call.good[1]]
  /\ PopBlock(Held)
  /\ fork' = PopFork(Held)
  /\ call' = IF PopDone(Held) THEN call ELSE Fails
  /\ UNCHANGED <<undo_max, pending, pending_session>>

PopForSwitch ==
  /\ call.at = "pop"
  /\ PopHead

AtBase(now, next, todo) ==
  /\ call.at = now
  /\ db.head = Parent[call.good[1]]
  /\ call' = [call EXCEPT !.at = next, !.todo = todo]
  /\ UNCHANGED <<db, undo, undo_max, fork, log, pending, pending_session, popped>>

(* One block of a branch is applied; `id` is the id it is stored under. *)
ApplyNext(id) ==
  LET b == Head(call.todo)
  IN  /\ call.todo # <<>>
      /\ Applies(db, b)
      /\ db' = [head |-> b, pending |-> <<>>]
      /\ undo_max' = HistorySize(b)
      /\ LET u == Start(undo, db)
         IN  undo' = IF ToSet(Txs[b]) \cap Executing = {} THEN u ELSE Child(u)
      /\ fork' = SetMaxSize(fork, undo_max')
      /\ log' = Store(log, id, b)
      /\ call' = [call EXCEPT !.todo = Tail(@)]
      /\ UNCHANGED <<pending, pending_session, popped>>

ApplyForked ==
  /\ call.at = "switch"
  /\ ApplyNext(Head(call.todo))

(* Seeded fault: the blocks of the branch that did apply are not popped.   *)
RejectForkedOnly ==
  /\ call.at = "switch"
  /\ call.todo # <<>>
  /\ ~Applies(db, Head(call.todo))
  /\ undo' = Discard(Start(undo, db))
  /\ fork' = Erase(fork, ToSet(call.todo))
  /\ call' = Fails
  /\ UNCHANGED <<db, undo_max, log, pending, pending_session, popped>>

(* The block and the rest of its branch are dropped, and the way back to   *)
(* the branch that was left begins.                                        *)
RejectForked ==
  /\ call.at = "switch"
  /\ call.todo # <<>>
  /\ ~Applies(db, Head(call.todo))
  /\ undo' = Discard(Start(undo, db))
  /\ LET f == Erase(fork, ToSet(call.todo))
     IN  fork' = SetHead(f, Item(f, Last(call.good)))
  /\ call' = [call EXCEPT !.at = "unwind"]
  /\ UNCHANGED <<db, undo_max, log, pending, pending_session, popped>>

FinishSwitch ==
  /\ call.at = "switch"
  /\ call.todo = <<>>
  /\ call' = [call EXCEPT !.at = "restore"]
  /\ UNCHANGED <<db, undo, undo_max, fork, log, pending, pending_session, popped>>

PopForked ==
  /\ call.at = "unwind"
  /\ PopHead

(* Restored blocks are stored under the id of the block that was pushed. *)
ApplyGood ==
  /\ call.at = "rebuild"
  /\ ApplyNext(call.block)

Rethrow ==
  /\ call.at = "rebuild"
  /\ call.todo = <<>>
  /\ call' = Fails
  /\ UNCHANGED <<db, undo, undo_max, fork, log, pending, pending_session, popped>>

(* The restorer's destructor: popped transactions first, then pending ones.*)
Repush(t) ==
  IF t \in Known(db)
  THEN UNCHANGED <<db, undo, pending, pending_session>>
  ELSE PushTx(t)

RestorePopped ==
  /\ call.at = "restore"
  /\ popped # <<>>
  /\ Repush(Head(popped))
  /\ popped' = Tail(popped)
  /\ UNCHANGED <<undo_max, fork, log, call>>

RestorePending ==
  /\ call.at = "restore"
  /\ popped = <<>>
  /\ call.saved # <<>>
  /\ Repush(Head(call.saved))
  /\ call' = [call EXCEPT !.saved = Tail(@)]
  /\ UNCHANGED <<undo_max, fork, log, popped>>

Return ==
  /\ call.at = "restore"
  /\ popped = <<>> /\ call.saved = <<>>
  /\ call' = Idle
  /\ UNCHANGED <<db, undo, undo_max, fork, log, pending, pending_session, popped>>

----------------------------------------------------------------------------
(* _generate_block *)

(* The pending transactions that still apply and that fit into the block. *)
Included ==
  LET take(acc, t) == IF Len(acc) < MaxBlockTxs /\ Valid(InChain(Cleared.head) \cup ToSet(acc), t)
                      THEN Append(acc, t) ELSE acc
  IN  FoldLeft(take, <<>>, pending)

(* What the sessions of the rebuilt pending state leave of the undo states.*)
RebuiltUndo ==
  LET u == Start(ClearedUndo, Cleared)
  IN  Discard(IF pending = <<>> THEN u
              ELSE IF ToSet(Included) \cap Executing = {} THEN Child(u) ELSE Grandchild(u))

GenerateBlock(b) ==
  /\ call = Idle
  /\ Parent[b] = Cleared.head /\ b \notin Bad /\ Txs[b] = Included
  /\ BeginPush(b, RebuiltUndo)

(* The size check throws after the pending session was discarded. *)
GenerateTooBig ==
  /\ call = Idle
  /\ SizeMayGrow
  /\ Included # <<>>
  /\ db' = Cleared
  /\ undo' = RebuiltUndo
  /\ pending_session' = FALSE
  /\ UNCHANGED <<undo_max, fork, log, pending, popped, call>>

----------------------------------------------------------------------------
(* A new database after init_genesis. *)
Init ==
  /\ db = [head |-> NoBlock, pending |-> <<>>]
  /\ undo = <<>>
  /\ undo_max = 10
  /\ fork = EmptyForkDB
  /\ log = <<>>
  /\ pending = <<>>
  /\ pending_session = FALSE
  /\ popped = <<>>
  /\ call = Idle

Next ==
  \/ \E t \in Transactions : PushTransaction(t)
  \/ \E b \in Blocks : PushBlock(b) \/ GenerateBlock(b)
  \/ GenerateTooBig
  \/ ApplyBlock \/ RejectBlock
  \/ PopForSwitch \/ AtBase("pop", "switch", call.todo)
  \/ ApplyForked \/ RejectForked \/ FinishSwitch
  \/ PopForked \/ AtBase("unwind", "rebuild", call.good)
  \/ ApplyGood \/ Rethrow
  \/ RestorePopped \/ RestorePending \/ Return

Spec == Init /\ [][Next]_vars

----------------------------------------------------------------------------
(* Properties. *)

(* Types of the variables. *)
TypeOK ==
  /\ db \in State
  /\ undo \in Seq(State)
  /\ undo_max \in Nat \ {0}
  /\ IsForkDB(fork)
  /\ log \in Seq(Entry)
  /\ pending \in Seq(Transactions)
  /\ pending_session \in BOOLEAN
  /\ popped \in Seq(Transactions)
  /\ call \in Call

(* "Push block may fail in which case every partial change is unwound."    *)
FailedPushUnwound ==
  call.at = "restore" /\ call.failed => db.head = call.before

(* The head moves only to a higher block, however a push ends. *)
HeadOnlyRises ==
  call.at = "restore" => db.head = call.before \/ Num(db.head) > Num(call.before)

(* _pending_tx_session is the result of applying _pending_tx. *)
PendingApplied ==
  call = Idle =>
    /\ db.pending = pending
    /\ pending # <<>> => pending_session

(* A transaction that was in the chain or pending when a push started is   *)
(* there when it returns, unless one that excludes it is.                  *)
NothingLost ==
  [][call # Idle /\ call' = Idle =>
       \A t \in call.known : ~Valid(Known(db'), t)]_vars

(* After a push every block of the chain can be read from the log, and the *)
(* log ends with the head.                                                 *)
LogMatchesChain ==
  call = Idle =>
    /\ \A n \in 1 .. Num(db.head) : FetchByNumber(log, n) = PathTo(db.head)[n]
    /\ LastEntry(log).id = db.head

(* The next block can link to the head of the chain. *)
HeadLinkable ==
  call = Idle /\ db.head # NoBlock => db.head \in fork.index

(* The undo states of the blocks, without the one of the pending state. *)
BlockUndo == ClearedUndo

(* Popping the undo states u leads back along the chain to h block by      *)
(* block.  The oldest may be a copy of the next state: that of a session   *)
(* which failed when there was no other stays.                             *)
LeadsBack(u, h) ==
  \A i \in DOMAIN u :
    LET next == IF i = Len(u) THEN h ELSE u[i + 1].head
    IN  /\ u[i].pending = <<>>
        /\ \/ next # NoBlock /\ u[i].head = Parent[next]
           \/ next = u[i].head /\ i = 1

(* Each undo state that a pop restores is that of the block before.        *)
UndoFollowsChain ==
  call = Idle => LeadsBack(BlockUndo, db.head)

(* Every block that may still be reverted can be popped.                   *)
ReversibleUndoable ==
  call = Idle => Len(BlockUndo) >= Num(db.head) - LastIrreversible(db.head)
============================================================================
