----------------------------- MODULE Proposals -----------------------------
(***************************************************************************)
(* Proposals and transactions of one chain (libraries/chain/               *)
(* proposal_evaluator.cpp, proposal_object.cpp, db_update.cpp,             *)
(* db_block.cpp, protocol/transaction.cpp): approvals, review, execution   *)
(* and expiration, the list of transactions that finds duplicates, and     *)
(* what blocks that are popped and a restart leave of the indexes.         *)
(*                                                                         *)
(* A transaction holds one operation; those who must sign it have.  A      *)
(* proposal holds one operation too; whether that can be applied depends   *)
(* on objects outside the model.  Owner and active authority are the same  *)
(* (get_active reads the owner authority), every weight is one.            *)
(***************************************************************************)
EXTENDS Integers, Sequences, FiniteSets, SequencesExt

CONSTANTS
  Accounts,
  Keys,
  Operations,        \* what can be proposed
  Required,          \* the accounts each needs, in their order
  Changes,           \* the authorities each sets, as a function on some accounts
  GenesisAuthority,  \* the authority of each account: threshold, keys, accounts
  MaxDepth,          \* max_authority_depth
  MaxUntilExpiration,\* maximum_time_until_expiration
  MaxLifetime,       \* maximum_proposal_lifetime
  Terms,             \* the lifetimes and review periods that are proposed
  Approvers,         \* the accounts that approve
  MaxUndo,           \* undo states that are kept, that of the open session among them
  MaxTime,           \* bound: the time of the last block
  MaxProposals,      \* bound: proposals ever made on a chain
  MaxTransactions    \* bound: transactions on a chain

\* Keys and accounts in the order of their flat_map.
Authority ==
  {au \in [threshold : Nat \ {0}, keys : Seq(Keys), accounts : Seq(Accounts)] :
     IsInjective(au.keys) /\ IsInjective(au.accounts)}

ASSUME ProposalsAssumption ==
  /\ IsFiniteSet(Accounts) /\ IsFiniteSet(Keys)
  /\ Required \in [Operations -> Seq(Accounts)]
  /\ \A o \in Operations :
       DOMAIN Changes[o] \subseteq Accounts /\ \A a \in DOMAIN Changes[o] : Changes[o][a] \in Authority
  /\ GenesisAuthority \in [Accounts -> Authority]
  /\ {MaxDepth, MaxUntilExpiration, MaxLifetime, MaxTime, MaxProposals, MaxTransactions} \subseteq Nat
  /\ Terms \subseteq [lifetime : Nat, review : Nat] /\ Approvers \subseteq Accounts
  /\ MaxUndo \in Nat \ {0}

VARIABLES
  head,      \* the time of the head block and the list of transactions
  db,        \* the other objects
  undo,      \* copies of both: one per block that can be popped, one for the open session
  queue,     \* by_expiration of the proposals
  index,     \* required_approval_index: the proposals of each account
  restored   \* history: proposals put back by an undo

vars == <<head, db, undo, queue, index, restored>>

NoReview == 0

\* The function f changed at x, and wherever g has a value.
With(f, x, v)   == [y \in DOMAIN f \cup {x} |-> IF y = x THEN v ELSE f[y]]
Without(f, x)   == [y \in DOMAIN f \ {x} |-> f[y]]
Replaced(f, g)  == [y \in DOMAIN f \cup DOMAIN g |-> IF y \in DOMAIN g THEN g[y] ELSE f[y]]

----------------------------------------------------------------------------
(* Authority. *)

\* sign_state: the signatures that counted, and approved_by
Progress == [used : SUBSET Keys, approved : SUBSET Accounts]

\* The places of the keys that count: the first ones, up to the threshold.
Counted(au, available) ==
  LET signed == {i \in DOMAIN au.keys : au.keys[i] \in available}
  IN  {i \in signed : Cardinality({j \in signed : j < i}) < au.threshold}

Reaches(au, t, weight) == [t EXCEPT !.weight = weight, !.over = weight >= au.threshold]

(* One more account b of the authority, when n levels may follow and        *)
(* below[b][s] checks the account on the next one.                          *)
Weigh(au, n, below, t, b) ==
  CASE t.over -> t
    [] ~t.over /\ b \in t.s.approved -> Reaches(au, t, t.weight + 1)
    [] ~t.over /\ b \notin t.s.approved /\ n = 0 -> [t EXCEPT !.over = TRUE]
    [] OTHER -> LET r == below[b][t.s]
                IN  IF r.ok
                    THEN Reaches(au, [t EXCEPT !.s = [r.s EXCEPT !.approved = @ \cup {b}]], t.weight + 1)
                    ELSE [t EXCEPT !.s = r.s]

\* check_authority of one authority: keys, then accounts, up to the threshold.
Check(au, available, n, below, s) ==
  LET counted == Counted(au, available)
      weighed[i \in 0 .. Len(au.accounts)] ==
        IF i = 0
        THEN [weight |-> Cardinality(counted), over |-> Cardinality(counted) >= au.threshold,
              s |-> [s EXCEPT !.used = @ \cup {au.keys[j] : j \in counted}]]
        ELSE Weigh(au, n, below, weighed[i - 1], au.accounts[i])
      end == weighed[Len(au.accounts)]
  IN  [ok |-> end.weight >= au.threshold, s |-> end.s]

\* check_authority of accounts, at every depth: n levels may follow.
CheckAuthority(authority, available) ==
  LET check[n \in 0 .. MaxDepth] ==
        LET below == IF n = 0 THEN <<>> ELSE check[n - 1]
        IN  [a \in Accounts |-> [s \in Progress |-> Check(authority[a], available, n, below, s)]]
  IN  check[MaxDepth]

\* A required account, as active and again as owner authority.
Verify(check, r, a) ==
  IF ~r.ok \/ a \in r.s.approved THEN r
  ELSE LET first == check[a][r.s]
       IN  IF first.ok THEN first ELSE check[a][first.s]

(* is_authorized_to_execute: every required account, and no signature that *)
(* did not count                                                           *)
IsAuthorized(authority, p) ==
  LET required == Required[p.operation]
      check    == CheckAuthority(authority, p.keys)
      verified[i \in 0 .. Len(required)] ==
        IF i = 0 THEN [ok |-> TRUE, s |-> [used |-> {}, approved |-> p.active]]
        ELSE Verify(check, verified[i - 1], required[i])
      end == verified[Len(required)]
  IN  end.ok /\ end.s.used = p.keys

----------------------------------------------------------------------------
(* The indexes.  i is required_approval_index. *)

\* The accounts object_inserted and object_removed go through.
Concerned(p) == ToSet(Required[p.operation]) \cup p.active

Listed(i, id, p)   == [a \in Accounts |-> IF a \in Concerned(p) THEN i[a] \cup {id} ELSE i[a]]
Unlisted(i, id, p) == [a \in Accounts |-> IF a \in Concerned(p) THEN i[a] \ {id} ELSE i[a]]

\* by_expiration: an insertion at the place k + 1 of the queue.
InsertedAfter(q, k, id) == SubSeq(q, 1, k) \o <<id>> \o SubSeq(q, k + 1, Len(q))

(* Seeded fault: before those that expire at the same time. *)
EnqueuedBefore(q, proposals, id) ==
  InsertedAfter(q, Cardinality({i \in DOMAIN q : proposals[q[i]].expiration < proposals[id].expiration}), id)

\* An insertion into by_expiration: after those that expire no later.
Enqueued(q, proposals, id) ==
  InsertedAfter(q, Cardinality({i \in DOMAIN q : proposals[q[i]].expiration <= proposals[id].expiration}), id)

\* The place of a proposal in the queue.
PlaceOf(q, id) == CHOOSE i \in DOMAIN q : q[i] = id

\* What create, remove and push_proposal do; t is [db, queue, index].
Removed(t, id) ==
  [db    |-> [t.db EXCEPT !.proposals = Without(@, id)],
   queue |-> RemoveAt(t.queue, PlaceOf(t.queue, id)),
   index |-> Unlisted(t.index, id, t.db.proposals[id])]

Pushed(t, id, time) ==
  LET r == Removed(t, id)
  IN  [r EXCEPT !.db.authority = Replaced(@, Changes[t.db.proposals[id].operation]),
                !.db.executed  = With(@, id, [proposal |-> t.db.proposals[id], time |-> time,
                                              authority |-> t.db.authority])]

Now(t) == [db |-> t, queue |-> queue, index |-> index]

Becomes(t) == db' = t.db /\ queue' = t.queue /\ index' = t.index

----------------------------------------------------------------------------
Init ==
  /\ head = [time |-> 1, transactions |-> {}, applied |-> {}, repeated |-> {}]
  /\ db = [proposals |-> <<>>, next |-> 1, authority |-> GenesisAuthority, executed |-> <<>>]
  /\ undo = <<[head |-> head, db |-> db]>>
  /\ queue = <<>>
  /\ index = [a \in Accounts |-> {}]
  /\ restored = {}

(* _apply_transaction: not a duplicate, expires neither too early nor too   *)
(* late, and is listed; applied and repeated are history.                   *)
ApplyTransaction(t) ==
  /\ t \notin head.transactions
  /\ head.time <= t.expiration /\ t.expiration <= head.time + MaxUntilExpiration
  /\ Cardinality(head.applied) < MaxTransactions
  /\ head' = [head EXCEPT !.transactions = @ \cup {t}, !.applied = @ \cup {t},
                          !.repeated = IF t \in head.applied THEN @ \cup {t} ELSE @]

(* proposal_create_evaluator, in a transaction that expires at e *)
Create(o, expiration, review, e) ==
  LET t  == [body |-> <<"create", o, expiration, review>>, expiration |-> e]
      id == db.next
      p  == [operation |-> o, expiration |-> expiration,
             review |-> IF review = NoReview THEN NoReview ELSE expiration - review,
             active |-> {}, keys |-> {}, early |-> {}]
  IN  /\ ApplyTransaction(t)
      /\ expiration > head.time /\ expiration <= head.time + MaxLifetime
      /\ review < expiration - head.time
      /\ id <= MaxProposals
      /\ db' = [db EXCEPT !.proposals = With(@, id, p), !.next = id + 1]
      /\ queue' = Enqueued(queue, db'.proposals, id)
      /\ index' = Listed(index, id, p)
      /\ restored' = restored \ {id}
      /\ UNCHANGED undo

(* Seeded fault: approvals are accepted during the review. *)
MayApproveAnyTime(p, add) == TRUE

\* No account's approval is added during the review; a key's may be.
MayApprove(p, add) == (p.review # NoReview /\ head.time >= p.review) => add = {}

(* proposal_update_evaluator, of approvals a to add or remove; without a    *)
(* review the proposal is executed once they suffice, and stays if that     *)
(* fails.                                                                   *)
Update(id, a, ok, e) ==
  LET t == [body |-> <<"update", id, a>>, expiration |-> e]
      p == db.proposals[id]
      q == [p EXCEPT !.active = (@ \cup a.add) \ a.remove,
                     !.keys   = (@ \cup a.keys_add) \ a.keys_remove]
      d == [db EXCEPT !.proposals[id] = q]
  IN  /\ ApplyTransaction(t)
      /\ MayApprove(p, a.add) /\ a.remove \subseteq p.active
      /\ IF q.review = NoReview /\ IsAuthorized(d.authority, q) /\ ok
         THEN Becomes(Pushed(Now(d), id, head.time))
         ELSE Becomes(Now(d))
      /\ UNCHANGED <<undo, restored>>

(* proposal_delete_evaluator, for an account whose approval is required *)
Delete(id, a, e) ==
  LET t == [body |-> <<"delete", id, a>>, expiration |-> e]
  IN  /\ ApplyTransaction(t)
      /\ a \in ToSet(Required[db.proposals[id].operation])
      /\ Becomes(Removed(Now(db), id))
      /\ UNCHANGED <<undo, restored>>

(* Seeded fault: a transaction is forgotten when it can still come again. *)
UnexpiredAtLast(transactions, time) ==
  IF \A t \in transactions : time >= t.expiration THEN {} ELSE transactions

(* clear_expired_transactions: the one that expires last is looked at, so  *)
(* that all are removed or none.                                           *)
Unexpired(transactions, time) ==
  IF \A t \in transactions : time > t.expiration THEN {} ELSE transactions

\* The first proposal of by_expiration: executed, unless it is not authorized or in
\* `failing`, and removed.
Expire(t, failing, time) ==
  LET id == Head(t.queue)
  IN  IF IsAuthorized(t.db.authority, t.db.proposals[id]) /\ id \notin failing
      THEN Pushed(t, id, time) ELSE Removed(t, id)

(* clear_expired_proposals: as long as the first one has expired            *)
Expired(t, failing, time) ==
  LET due == Cardinality({i \in DOMAIN t.queue : t.db.proposals[t.queue[i]].expiration <= time})
      after[n \in 0 .. due] == IF n = 0 THEN t ELSE Expire(after[n - 1], failing, time)
  IN  after[due]

\* History: the approvals that stood when the review began.
ReviewsBegun(proposals, from, to) ==
  [id \in DOMAIN proposals |->
     LET p == proposals[id]
     IN  IF from < p.review /\ p.review <= to THEN [p EXCEPT !.early = p.active] ELSE p]

(* The end of _apply_block of a block at `time`, and the session of the next. *)
EndBlock(time, failing) ==
  /\ time > head.time /\ time <= MaxTime
  /\ head' = [head EXCEPT !.time = time, !.transactions = Unexpired(@, time)]
  /\ LET d == [db EXCEPT !.proposals = ReviewsBegun(@, head.time, time)]
     IN  Becomes(Expired(Now(d), failing, time))
  /\ undo' = LET u == Append(undo, [head |-> head', db |-> db'])
             IN  IF Len(u) > MaxUndo THEN Tail(u) ELSE u
  /\ UNCHANGED restored

\* q has the proposals by expiration, and in the order `ties` when they expire together.
IsQueue(q, proposals, ties) ==
  \A i, j \in DOMAIN q :
     i < j => LET m == proposals[q[i]].expiration
                  n == proposals[q[j]].expiration
              IN  m < n \/ (m = n /\ <<q[i], q[j]>> \in ties)

\* undo_database::undo back to the copy c: created proposals are removed through the
\* indexes, removed ones are inserted, in any order and after those that expire with
\* them, which required_approval_index is not told.
Undone(c) ==
  LET ids  == DOMAIN c.db.proposals
      new  == DOMAIN db.proposals \ ids
      back == ids \ DOMAIN db.proposals
      ties == {t \in ids \X ids :
                 \/ t[2] \in back
                 \/ t[1] \notin back /\ PlaceOf(queue, t[1]) < PlaceOf(queue, t[2])}
  IN  /\ head' = c.head /\ db' = c.db
      /\ queue' \in SetToSeqs(ids) /\ IsQueue(queue', c.db.proposals, ties)
      /\ index' = [a \in Accounts |->
                     index[a] \ {id \in new : a \in Concerned(db.proposals[id])}]
      /\ restored' = (restored \ new) \cup back

\* The open session is left without a commit: another block comes, or a transaction
\* fails.
Reset ==
  /\ [head |-> head, db |-> db] # Last(undo)
  /\ Undone(Last(undo))
  /\ UNCHANGED undo

(* pop_block *)
Pop ==
  /\ [head |-> head, db |-> db] = Last(undo) /\ Len(undo) > 1
  /\ Undone(undo[Len(undo) - 1])
  /\ undo' = Front(undo)

(* database::close and open: blocks that can be popped are, the objects    *)
(* are saved and loaded in the order of their ids, every index is told.    *)
Restart ==
  LET c == Head(undo)
      p == c.db.proposals
      ties == {t \in (DOMAIN p) \X (DOMAIN p) : t[1] < t[2]}
  IN  /\ head' = c.head /\ db' = c.db /\ undo' = <<c>>
      /\ queue' \in SetToSeqs(DOMAIN p) /\ IsQueue(queue', p, ties)
      /\ index' = [a \in Accounts |-> {id \in DOMAIN p : a \in Concerned(p[id])}]
      /\ restored' = {}

\* One approval at a time.
Approvals ==
  LET none == [add |-> {}, remove |-> {}, keys_add |-> {}, keys_remove |-> {}]
  IN  (UNION {{[none EXCEPT !.add = {a}], [none EXCEPT !.remove = {a}]} : a \in Approvers})
        \cup (UNION {{[none EXCEPT !.keys_add = {k}], [none EXCEPT !.keys_remove = {k}]} : k \in Keys})

\* Transactions expire as late as they may, or come again.
Expirations == {head.time + MaxUntilExpiration} \cup {t.expiration : t \in head.applied}

Next ==
  \/ \E o \in Operations, p \in Terms, e \in Expirations :
        Create(o, head.time + p.lifetime, p.review, e)
  \/ \E id \in DOMAIN db.proposals, a \in Approvals, ok \in BOOLEAN, e \in Expirations :
        Update(id, a, ok, e)
  \/ \E id \in DOMAIN db.proposals, a \in Accounts, e \in Expirations : Delete(id, a, e)
  \/ \E time \in 1 .. MaxTime, failing \in SUBSET DOMAIN db.proposals : EndBlock(time, failing)
  \/ Reset
  \/ Pop
  \/ Restart

Spec == Init /\ [][Next]_vars

----------------------------------------------------------------------------
\* The accounts whose authority the approvals and keys amount to, to any depth: those in
\* every set that has all accounts that approved, and all that its accounts amount to.
Approving(authority, approved, keys) ==
  LET weight(a, s) == Cardinality({k \in keys : k \in ToSet(authority[a].keys)})
                        + Cardinality({b \in s : b \in ToSet(authority[a].accounts)})
      closed == {s \in SUBSET Accounts :
                   /\ approved \subseteq s
                   /\ \A a \in Accounts : weight(a, s) >= authority[a].threshold => a \in s}
  IN  {a \in Accounts : \A s \in closed : a \in s}

(***************************************************************************)
(* No transaction is applied twice on one chain, though its entry on the   *)
(* list goes when it expires and a popped block takes it off: whenever it  *)
(* is off the list, the chain is past its expiration.                      *)
(***************************************************************************)
AppliedOnce == head.repeated = {}

(***************************************************************************)
(* No proposal is executed without approvals that amount, in the           *)
(* authorities of that moment, to those of all required accounts, however  *)
(* deep; one with a review only when it expires, by approvals of accounts  *)
(* that stood when the review began.  Authorities change meanwhile, also   *)
(* by proposals that expire in the same block.                             *)
(***************************************************************************)
ExecutedApproved ==
  \A id \in DOMAIN db.executed :
     LET e == db.executed[id]
         p == e.proposal
     IN  /\ ToSet(Required[p.operation]) \subseteq Approving(e.authority, p.active, p.keys)
         /\ p.review # NoReview => e.time >= p.expiration /\ p.active \subseteq p.early

Earlier(i, j) ==
  LET p == db.proposals
  IN  p[i].expiration < p[j].expiration \/ (p[i].expiration = p[j].expiration /\ i < j)

(***************************************************************************)
(* Apart from the proposals that an undo put back, every account whose     *)
(* approval is required finds the proposal, and proposals expire in an     *)
(* order that depends on the chain alone: by time, then by id, on every    *)
(* node, before and after a restart.                                       *)
(***************************************************************************)
IndexesFollow ==
  LET sound == DOMAIN db.proposals \ restored
  IN  /\ ToSet(queue) = DOMAIN db.proposals
      /\ \A id \in sound : \A a \in ToSet(Required[db.proposals[id].operation]) : id \in index[a]
      /\ \A i, j \in DOMAIN queue :
            (i < j /\ {queue[i], queue[j]} \subseteq sound) => Earlier(queue[i], queue[j])

(***************************************************************************)
(* proposal_object.hpp of required_approval_index: it "tracks all of the   *)
(* proposal objects that requrie approval of an individual account".       *)
(***************************************************************************)
AllTracked ==
  \A id \in DOMAIN db.proposals :
     \A a \in ToSet(Required[db.proposals[id].operation]) : id \in index[a]
=============================================================================
