------------------------------ MODULE NodeSync ------------------------------
(***************************************************************************)
(* The synchronisation of a node with its peers (libraries/net/node.cpp,   *)
(* peer_connection.cpp; the answers are those of libraries/app/            *)
(* application.cpp).                                                       *)
(*                                                                         *)
(* The node asks a peer which blocks it has, with a synopsis of the chain, *)
(* divides the blocks among the peers, and hands each block to the chain   *)
(* when it is the next one of some peer.  A block that is made while the   *)
(* peers are in sync is advertised and fetched by name instead.            *)
(*                                                                         *)
(* Fibers of one thread do all of this; the loops sleep until a flag wakes *)
(* them.  A peer is another node with the same code.  Its answers arrive   *)
(* in order, so they are computed when it is asked.                        *)
(***************************************************************************)
EXTENDS ForkDatabase, Functions

CONSTANTS
  Peers,
  Bad,             \* blocks that the chain rejects
  Tips,            \* the chains a peer may have at first, by their last block
  MayGrow,         \* whether peers get new blocks
  MayBeMissing,    \* whether a peer may lack a block that it claims to have
  Lying,           \* the peers that may send an invalid message
  Asking,          \* bound: the peers that get to ask the node for its blocks
  MaxIds,          \* get_block_ids: limit
  MinPrefetch,     \* GRAPHENE_NET_MIN_BLOCK_IDS_TO_PREFETCH
  MaxPerPeer,      \* GRAPHENE_NET_MAX_BLOCKS_PER_PEER_DURING_SYNCING
  MaxHandled,      \* MAXIMUM_NUMBER_OF_BLOCKS_TO_HANDLE_AT_ONE_TIME
  MaxReceived,     \* MAXIMUM_NUMBER_OF_BLOCKS_TO_PREFETCH
  MaxFaults        \* bound: connections that break, peers that fall silent

ASSUME SyncAssumption ==
  /\ IsFiniteSet(Peers) /\ Bad \subseteq Blocks
  /\ Tips \in [Peers -> SUBSET (Blocks \cup {NoBlock})]
  /\ MayGrow \in BOOLEAN /\ MayBeMissing \in BOOLEAN
  /\ Lying \subseteq Peers /\ Asking \subseteq Peers
  /\ {MaxIds, MaxPerPeer, MaxHandled, MaxReceived} \subseteq Nat \ {0}
  /\ MaxIds > 1 /\ MinPrefetch \in Nat /\ MaxFaults \in Nat

VARIABLES
  head,       \* the head block of the node
  known,      \* the blocks that has_item knows; all are among the most recent ones
  peer,       \* the connection to each peer
  tip,        \* the head block of each peer
  active,     \* _active_sync_requests
  received,   \* _received_sync_items and the new ones, newest first
  handling,   \* the blocks of _handle_message_calls_in_progress
  suspended,  \* _suspend_fetching_sync_blocks
  wanted,     \* _items_to_fetch
  wake,       \* the loops that are to run
  blamed,     \* history: the accusations of an invalid message
  liars,      \* history: the peers that sent one
  missing,    \* history: the blocks that a peer did not have when asked in sync
  faults      \* the faults so far

vars == <<head, known, peer, tip, active, received, handling, suspended,
          wanted, wake, blamed, liars, missing, faults>>

history == <<blamed, liars, missing, faults>>

chain == <<head, known>>

Gone ==
  [conn |-> "none", need |-> TRUE, they_need |-> TRUE, to_get |-> <<>>, processing |-> {},
   unfetched |-> 0, asked_ids |-> <<>>, sync_asked |-> {}, asked |-> {}, offered |-> {},
   last_seen |-> NoBlock, inhibit |-> FALSE, inbox |-> <<>>, silent |-> FALSE, behind |-> TRUE,
   overtaken |-> FALSE]

Answer == [kind : {"ids"}, list : Seq(Blocks), remaining : Nat]

Message == Answer \cup [kind : {"block", "offer"}, id : Blocks]

PeerRecord ==
  [conn : {"none", "active", "closing"}, need : BOOLEAN, they_need : BOOLEAN,
   to_get : Seq(Blocks), processing : SUBSET Blocks, unfetched : Nat,
   asked_ids : Seq(Seq(Blocks)), sync_asked : SUBSET Blocks, asked : SUBSET Blocks,
   offered : SUBSET Blocks, last_seen : Blocks \cup {NoBlock}, inhibit : BOOLEAN,
   inbox : Seq(Message), silent : BOOLEAN, behind : BOOLEAN, overtaken : BOOLEAN]

On(p) == peer[p].conn = "active"

Idle(r) == r.asked_ids = <<>> /\ r.sync_asked = {} /\ r.asked = {}

----------------------------------------------------------------------------
(* Synopsis and answer. *)

\* From low up to high, in steps that halve the way to a goal; the heights from `first` on.
Halving(low, first, high, goal) ==
  LET from[n \in Nat] ==
        IF n > high THEN <<>>
        ELSE (IF n < first THEN <<>> ELSE <<n>>) \o from[n + (goal - n + 2) \div 2]
  IN  from[low]

(* get_blockchain_synopsis of a node with the head h: of the chain up to   *)
(* the reference point, where `more` blocks will follow; every block of    *)
(* the model can be undone.                                                *)
ChainSynopsis(h, reference, more) ==
  LET id == IF reference = NoBlock THEN h ELSE reference
      ns == Halving(1, 1, Num(id), Num(id) + more)
  IN  IF id = NoBlock THEN <<>> ELSE [i \in DOMAIN ns |-> Path[id][ns[i]]]

(* create_blockchain_synopsis_for_peer, of a node with the head h *)
Synopsis(h, r) ==
  LET own   == ChainSynopsis(h, r.last_seen, Len(r.to_get))
      first == Num(r.to_get[1])
      high  == Num(Last(r.to_get))
      ns    == Halving(IF own = <<>> THEN 1 ELSE Num(own[1]), first, high, high)
  IN  IF r.to_get = <<>> THEN own
      ELSE own \o [i \in DOMAIN ns |-> r.to_get[ns[i] - first + 1]]

(* get_block_ids, for a peer with the head t: from the last block of the   *)
(* synopsis that is in its chain, or nothing if there is none.             *)
AnswerIds(t, synopsis) ==
  LET common == {i \in DOMAIN synopsis : synopsis[i] \in ToSet(PathTo(t))}
      start  == IF synopsis = <<>> THEN 1 ELSE Num(synopsis[Max(common)])
      end    == Min({Num(t), start + MaxIds - 1})
  IN  IF t = NoBlock \/ (synopsis # <<>> /\ common = {})
      THEN [kind |-> "ids", list |-> <<>>, remaining |-> 0]
      ELSE [kind |-> "ids", list |-> SubSeq(Path[t], start, end), remaining |-> Num(t) - end]

NothingNew(list, synopsis) ==
  list = <<>> \/ (synopsis # <<>> /\ Len(list) = 1 /\ list[1] \in ToSet(synopsis))

Sent(r, msgs) == IF r.silent THEN r ELSE [r EXCEPT !.inbox = @ \o msgs]

(* fetch_next_batch_of_item_ids_from_peer, and the answer of the peer.  The *)
(* request takes the place of one that is not answered yet; overtaken is   *)
(* history: it did.                                                        *)
FetchIds(h, t, r) ==
  LET s == Synopsis(h, r)
      m == AnswerIds(t, s)
  IN  [Sent([r EXCEPT !.asked_ids = <<s>>, !.overtaken = @ \/ r.asked_ids # <<>>], <<m>>)
         EXCEPT !.behind = IF r.silent THEN @ ELSE ~NothingNew(m.list, s)]

(* Seeded fault: what the peer was asked for is given up as well. *)
StartSyncForgetting(h, t, r) ==
  FetchIds(h, t, [r EXCEPT !.to_get = <<>>, !.unfetched = 0, !.need = TRUE, !.asked = {},
                           !.sync_asked = {}, !.last_seen = NoBlock, !.inhibit = FALSE])

(* start_synchronizing_with_peer *)
StartSync(h, t, r) ==
  FetchIds(h, t, [r EXCEPT !.to_get = <<>>, !.unfetched = 0, !.need = TRUE,
                           !.last_seen = NoBlock, !.inhibit = FALSE])

\* The accusation of a peer, for a list of ids or a block.
Accused(p, kind) == [peer |-> p, kind |-> kind, overtaken |-> peer[p].overtaken]

(* disconnect_from_peer; it stays connected until the other side closes. *)
Closing(r) == [r EXCEPT !.conn = "closing"]

Blocked(bs) == [i \in DOMAIN bs |-> [kind |-> "block", id |-> bs[i]]]

----------------------------------------------------------------------------
(* Connections. *)

Wake(loops) == wake' = wake \cup loops

(* A connection is established and active: new_peer_just_added. *)
Connect(p) ==
  /\ peer[p].conn = "none"
  /\ peer' = [peer EXCEPT ![p] = StartSync(head, tip[p], [Gone EXCEPT !.conn = "active"])]
  /\ UNCHANGED <<chain, tip, active, received, handling, suspended, wanted, wake, history>>

Offers(q, b) == peer[q].conn = "active" /\ b \in peer[q].offered

(* Seeded fault: the requests to the peer stay active. *)
ForgetNothing(r) == {}

(* on_connection_closed: what the peer was asked for is asked of another. *)
Forgotten(r) == r.sync_asked

Closed(p) ==
  /\ peer' = [peer EXCEPT ![p] = Gone]
  /\ active' = active \ Forgotten(peer[p])
  /\ wanted' = wanted \cup {b \in peer[p].asked : \E q \in Peers \ {p} : Offers(q, b)}
  /\ Wake((IF peer[p].sync_asked = {} THEN {} ELSE {"sync"}) \cup
          (IF peer[p].asked = {} THEN {} ELSE {"items"}))
  /\ UNCHANGED <<chain, tip, received, handling, suspended, blamed, liars, missing>>

(* The other side closes, when it was told to or because it fails. *)
ConnectionClosed(p) ==
  \/ peer[p].conn = "closing" /\ UNCHANGED faults /\ Closed(p)
  \/ On(p) /\ faults < MaxFaults /\ faults' = faults + 1 /\ Closed(p)

(* From now on nothing arrives from the peer any more. *)
FallSilent(p) ==
  /\ On(p) /\ ~peer[p].silent
  /\ faults < MaxFaults /\ faults' = faults + 1
  /\ peer' = [peer EXCEPT ![p].silent = TRUE]
  /\ UNCHANGED <<chain, tip, active, received, handling, suspended, wanted, wake, blamed, liars, missing>>

(* A faulty peer sends a block or a list that was not asked for, or in     *)
(* place of what was.                                                      *)
Misbehave(p) ==
  /\ p \in Lying
  /\ On(p) /\ ~peer[p].silent
  /\ faults < MaxFaults /\ faults' = faults + 1
  /\ \E b \in Blocks :
       \E m \in {[kind |-> "block", id |-> b], [kind |-> "ids", list |-> <<b>>, remaining |-> 0]} :
         peer' = [peer EXCEPT ![p].inbox = <<m>> \o @]
  /\ liars' = liars \cup {p}
  /\ UNCHANGED <<chain, tip, active, received, handling, suspended, wanted, wake, blamed, missing>>

(* terminate_inactive_connections_loop: a request was not answered within  *)
(* a second, or nothing at all was heard for ten block intervals.          *)
Timeout(p) ==
  /\ peer[p].silent /\ peer[p].inbox = <<>>
  /\ Closed(p)
  /\ UNCHANGED faults

----------------------------------------------------------------------------
(* The loops. *)

\* The first MaxPerPeer blocks of a list that are among those at the places in `new`.
FirstOf(list, new) ==
  {list[i] : i \in {j \in new : Cardinality({k \in new : k < j}) < MaxPerPeer}}

(* Seeded fault: what was asked of another peer is asked again. *)
ToFetchAgain(r, taken) ==
  FirstOf(r.to_get, {i \in DOMAIN r.to_get : r.to_get[i] \notin ToSet(received)})

(* Seeded fault: the last block of the list is left out. *)
ToFetchButLast(r, taken) ==
  FirstOf(r.to_get, {i \in 1 .. Len(r.to_get) - 1 : r.to_get[i] \notin ToSet(received) \cup taken})

(* The blocks to ask a peer for, when those in `taken` were asked for. *)
ToFetch(r, taken) ==
  FirstOf(r.to_get, {i \in DOMAIN r.to_get : r.to_get[i] \notin ToSet(received) \cup taken})

\* The blocks that are asked of the first n peers of the order.
Requested(order) ==
  LET upto[n \in 0 .. Len(order)] ==
        IF n = 0 THEN {}
        ELSE upto[n - 1] \cup ToFetch(peer[order[n]], active \cup upto[n - 1])
  IN  upto

\* The members of bs in the order of a list.
Among(list, bs) ==
  LET upto[n \in 0 .. Len(list)] ==
        IF n = 0 THEN <<>> ELSE IF list[n] \in bs THEN Append(upto[n - 1], list[n]) ELSE upto[n - 1]
  IN  upto[Len(list)]

\* A peer is asked for the blocks in bs, and sends them in the order of its list.
Asked(r, bs) ==
  Sent([r EXCEPT !.sync_asked = @ \cup bs], Blocked(Among(r.to_get, bs)))

(* fetch_sync_items_loop, with the peers in some order. *)
FetchSyncItems ==
  /\ "sync" \in wake
  /\ wake' = wake \ {"sync"}
  /\ IF suspended THEN UNCHANGED <<peer, active>>
     ELSE \E order \in SetToSeqs({p \in Peers : On(p) /\ peer[p].need /\ Idle(peer[p])
                                                /\ ~peer[p].inhibit}) :
            LET upto == Requested(order)
                share(n) == ToFetch(peer[order[n]], active \cup upto[n - 1])
            IN  /\ active' = active \cup upto[Len(order)]
                /\ peer' = [p \in Peers |->
                     IF p \in ToSet(order)
                     THEN Asked(peer[p], share(CHOOSE n \in DOMAIN order : order[n] = p))
                     ELSE peer[p]]
  /\ UNCHANGED <<chain, tip, received, handling, suspended, wanted, history>>

(* fetch_items_loop: every item that an idle peer offers is asked of one,  *)
(* one item of a peer.                                                     *)
FetchItems ==
  /\ "items" \in wake
  /\ wake' = wake \ {"items"}
  /\ \E of \in [wanted -> {p \in Peers : On(p) /\ Idle(peer[p])} \cup {"nobody"}] :
       LET chosen == {b \in wanted : of[b] # "nobody"} IN
       /\ \A b \in chosen : Offers(of[b], b)
       /\ \A b, c \in chosen : of[b] = of[c] => b = c
       /\ \A b \in wanted \ chosen : \A p \in Peers :
             On(p) /\ Idle(peer[p]) /\ Offers(p, b) => p \in {of[c] : c \in chosen}
       /\ peer' = [p \in Peers |->
                     LET bs == {b \in chosen : of[b] = p}
                     IN  Sent([peer[p] EXCEPT !.asked = @ \cup bs], Blocked(SetToSeq(bs)))]
       /\ wanted' = wanted \ chosen
  /\ UNCHANGED <<chain, tip, active, received, handling, suspended, history>>

(* process_backlog_of_sync_blocks.  The rounds of its loop are steps here; *)
(* each takes the newest block that is the next one of some peer.          *)

(* Seeded fault: any block of the peer's list will do. *)
WaitingAnywhere(b) == {p \in Peers : On(p) /\ b \in ToSet(peer[p].to_get)}

Waiting(b) == {p \in Peers : On(p) /\ peer[p].to_get # <<>> /\ peer[p].to_get[1] = b}

FirstBlocks == {i \in DOMAIN received : Waiting(received[i]) # {}}

Taken(b) ==
  [p \in Peers |-> IF p \in Waiting(b)
                   THEN [peer[p] EXCEPT !.to_get = Tail(@), !.processing = @ \cup {b}]
                   ELSE peer[p]]

LeaveBacklog ==
  /\ "backlog" \in wake
  /\ Len(handling) >= MaxHandled
  /\ wake' = wake \ {"backlog"}
  /\ UNCHANGED <<chain, tip, peer, active, received, handling, suspended, wanted, history>>

ProcessBlock ==
  /\ "backlog" \in wake
  /\ Len(handling) < MaxHandled
  /\ FirstBlocks # {}
  /\ LET i == Min(FirstBlocks)
     IN  /\ received[i] \notin known
         /\ peer' = Taken(received[i])
         /\ received' = RemoveAt(received, i)
         /\ handling' = Append(handling, received[i])
  /\ IF Len(handling') < MaxHandled
     THEN suspended' = FALSE /\ UNCHANGED wake
     ELSE /\ suspended' = (Len(received') >= MaxReceived)
          /\ wake' = (wake \ {"backlog"}) \cup (IF suspended' THEN {} ELSE {"sync"})
  /\ UNCHANGED <<chain, tip, active, wanted, history>>

(* Nothing is left to do, or the block was accepted already: then it is    *)
(* taken from the peers' lists all the same, and the loop ends.            *)
EndBacklog ==
  /\ "backlog" \in wake
  /\ Len(handling) < MaxHandled
  /\ IF FirstBlocks = {} THEN UNCHANGED peer
     ELSE LET b == received[Min(FirstBlocks)] IN b \in known /\ peer' = Taken(b)
  /\ suspended' = FALSE
  /\ wake' = (wake \ {"backlog"}) \cup {"sync"}
  /\ UNCHANGED <<chain, tip, active, received, handling, wanted, history>>

ProcessBacklog == LeaveBacklog \/ ProcessBlock \/ EndBacklog

----------------------------------------------------------------------------
(* The chain, as handle_block makes it. *)

Links(b) == Parent[b] \in known \cup {NoBlock}

\* The chain to b has a block that the node rejects.
Invalid(b) == ToSet(PathTo(b)) \cap Bad # {}

Accept(b) ==
  /\ known' = known \cup {b}
  /\ head' = IF Num(b) > Num(head) THEN b ELSE head

(* Seeded fault: the block stays among those that are processed. *)
AfterAcceptKeeping(h, p, r, b) == [r EXCEPT !.last_seen = b]

(* What a block that was accepted in sync mode means for a peer, when the  *)
(* head is h then.                                                         *)
AfterAccept(h, p, r, b) ==
  LET left == [r EXCEPT !.last_seen = b, !.processing = @ \ {b}]
  IN  IF r.to_get = <<>> /\ r.processing = {}
      THEN IF ~r.they_need /\ ~r.need THEN StartSync(h, tip[p], r) ELSE r
      ELSE IF b \notin r.processing THEN r
      ELSE IF left.to_get = <<>> /\ left.unfetched = 0 /\ left.processing = {}
      THEN FetchIds(h, tip[p], left) ELSE left

(* send_sync_block_to_node_delegate, when the chain has handled the block. *)
HandleSyncBlock ==
  /\ handling # <<>>
  /\ LET b == Head(handling)
         handled(p, r) == IF Links(b) /\ b \notin Bad THEN AfterAccept(head', p, r, b)
                          ELSE IF b \in r.processing THEN Closing(r) ELSE r
     IN  /\ IF Links(b) /\ b \notin Bad THEN Accept(b) ELSE UNCHANGED chain
         /\ peer' = [p \in Peers |-> IF On(p) THEN handled(p, peer[p]) ELSE peer[p]]
         /\ blamed' = blamed \cup {Accused(p, "block") : p \in {q \in Peers : /\ ~Links(b) /\ ~Invalid(b)
                                                                /\ On(q) /\ b \in peer[q].processing}}
  /\ handling' = Tail(handling)
  /\ Wake({"backlog"})
  /\ UNCHANGED <<tip, active, received, suspended, wanted, liars, missing, faults>>

----------------------------------------------------------------------------
(* Messages. *)

Received(p) == [peer[p] EXCEPT !.inbox = Tail(@)]

Arrives(p, kind) ==
  /\ peer[p].conn # "none" /\ peer[p].inbox # <<>>
  /\ peer[p].inbox[1].kind = kind

(* The list has to build on a block of the synopsis. *)
ValidList(r, list) ==
  LET synopsis == r.asked_ids[1]
  IN  list # <<>> => IF synopsis = <<>> THEN Num(list[1]) = 1 ELSE list[1] \in ToSet(synopsis)

(* on_blockchain_item_ids_inventory_message, of a list that was not asked  *)
(* for, and of one that is no answer to the last request                   *)
IgnoreIds(p) ==
  /\ Arrives(p, "ids")
  /\ peer[p].asked_ids = <<>>
  /\ peer' = [peer EXCEPT ![p] = Received(p)]
  /\ UNCHANGED <<chain, tip, active, received, handling, suspended, wanted, wake, history>>

RejectIds(p) ==
  /\ Arrives(p, "ids")
  /\ peer[p].asked_ids # <<>> /\ ~ValidList(peer[p], peer[p].inbox[1].list)
  /\ peer' = [peer EXCEPT ![p] = Closing(Received(p))]
  /\ blamed' = blamed \cup {Accused(p, "ids")}
  /\ UNCHANGED <<chain, tip, active, received, handling, suspended, wanted, wake, liars, missing, faults>>

InSync(r, m) ==
  /\ m.remaining = 0
  /\ m.list = <<>> \/ (Len(m.list) = 1 /\ m.list[1] \in known)
  /\ r.to_get = <<>> /\ r.unfetched = 0

FirstOfAnother(p, b) ==
  \E q \in Peers \ {p} : On(q) /\ peer[q].to_get # <<>> /\ peer[q].to_get[1] = b

\* How many blocks at the start of a list are known.
KnownFirst(list) == Max({n \in 0 .. Len(list) : ToSet(SubSeq(list, 1, n)) \subseteq known})

(* Blocks that are known are left out, unless another peer waits for the   *)
(* first one; a list that continues an older one replaces its end.         *)
Extended(p, r, list) ==
  LET skip == IF FirstOfAnother(p, list[1]) THEN 0 ELSE KnownFirst(list)
      at   == {i \in DOMAIN r.to_get : r.to_get[i] = list[1]}
  IN  IF list = <<>> THEN r
      ELSE IF r.to_get = <<>>
      THEN [r EXCEPT !.to_get = SubSeq(list, skip + 1, Len(list)),
                     !.last_seen = IF skip = 0 THEN @ ELSE list[skip]]
      ELSE IF at = {} THEN [r EXCEPT !.to_get = Tail(list), !.last_seen = list[1]]
      ELSE [r EXCEPT !.to_get = SubSeq(@, 1, Max(at) - 1) \o list]

ReceiveIds(p) ==
  /\ Arrives(p, "ids")
  /\ peer[p].asked_ids # <<>>
  /\ LET m == peer[p].inbox[1]
         r == [Received(p) EXCEPT !.asked_ids = <<>>]
         x == [Extended(p, r, m.list) EXCEPT !.unfetched = m.remaining]
         fetch == Len(x.to_get) > (IF m.remaining = 0 THEN 0 ELSE MinPrefetch)
     IN  /\ ValidList(peer[p], m.list)
         /\ peer' = [peer EXCEPT ![p] = IF InSync(r, m) THEN [r EXCEPT !.need = FALSE]
                                        ELSE IF fetch THEN x ELSE FetchIds(head, tip[p], x)]
         /\ wake' = IF ~InSync(r, m) /\ fetch THEN wake \cup {"sync"} ELSE wake
  /\ UNCHANGED <<chain, tip, active, received, handling, suspended, wanted, history>>

(* process_block_during_sync: the peer is asked for the next blocks, or    *)
(* for more ids.                                                           *)
ReceiveSyncBlock(p) ==
  /\ Arrives(p, "block")
  /\ LET b == peer[p].inbox[1].id
         r == [Received(p) EXCEPT !.sync_asked = @ \ {b}]
         more == Idle(r) /\ r.unfetched > 0 /\ Len(r.to_get) < MinPrefetch
     IN  /\ b \in peer[p].sync_asked \ peer[p].asked
         /\ active' = active \ {b}
         /\ received' = <<b>> \o received
         /\ peer' = [peer EXCEPT ![p] = IF more THEN FetchIds(head, tip[p], r) ELSE r]
         /\ Wake({"backlog"} \cup (IF Idle(r) /\ ~more THEN {"sync"} ELSE {}))
  /\ UNCHANGED <<chain, tip, handling, suspended, wanted, history>>

(* process_block_during_normal_operation.  The reader of the peer waits    *)
(* for the chain; what arrives meanwhile from other peers only finds that  *)
(* the block is not known yet, as if it came first.                        *)
ReceiveBlock(p) ==
  /\ Arrives(p, "block")
  /\ LET b == peer[p].inbox[1].id
         r == [Received(p) EXCEPT !.asked = @ \ {b}]
         ok == b \in known \/ (Links(b) /\ b \notin Bad)
         told(q, s) == IF ok THEN (IF On(q) /\ b \in s.offered THEN [s EXCEPT !.last_seen = b] ELSE s)
                       ELSE IF ~Links(b) THEN (IF q = p THEN StartSync(head, tip[q], s) ELSE s)
                       ELSE IF q = p \/ (On(q) /\ s.to_get # <<>> /\ s.to_get[1] = b) THEN Closing(s) ELSE s
     IN  /\ b \in peer[p].asked
         /\ IF ok THEN Accept(b) ELSE UNCHANGED chain
         /\ peer' = [q \in Peers |-> told(q, IF q = p THEN r ELSE peer[q])]
         /\ Wake(IF Idle(peer'[p]) THEN {"items"} ELSE {})
  /\ UNCHANGED <<tip, active, received, handling, suspended, wanted, history>>

(* A block that was not asked for. *)
RejectBlock(p) ==
  /\ Arrives(p, "block")
  /\ peer[p].inbox[1].id \notin peer[p].asked \cup peer[p].sync_asked
  /\ peer' = [peer EXCEPT ![p] = Closing(Received(p))]
  /\ blamed' = blamed \cup {Accused(p, "block")}
  /\ UNCHANGED <<chain, tip, active, received, handling, suspended, wanted, wake, liars, missing, faults>>

(* on_item_not_available_message, in place of the block *)
NotAvailable(p) ==
  /\ MayBeMissing /\ faults < MaxFaults
  /\ Arrives(p, "block")
  /\ faults' = faults + 1
  /\ LET b == peer[p].inbox[1].id
         r == [Received(p) EXCEPT !.asked = @ \ {b},
                                  !.offered = IF b \in peer[p].asked THEN @ \ {b} ELSE @,
                                  !.sync_asked = IF b \in peer[p].asked THEN @ ELSE @ \ {b}]
     IN  IF b \in peer[p].asked
         THEN /\ peer' = [peer EXCEPT ![p] = r]
              /\ wanted' = wanted \cup (IF \E q \in Peers \ {p} : Offers(q, b) THEN {b} ELSE {})
              /\ Wake({"items"})
              /\ UNCHANGED missing
         ELSE /\ b \in peer[p].sync_asked
              /\ peer' = [peer EXCEPT ![p] = IF r.they_need THEN [r EXCEPT !.inhibit = TRUE] ELSE Closing(r)]
              /\ Wake({"sync"})
              /\ missing' = missing \cup {b}
              /\ UNCHANGED wanted
  /\ UNCHANGED <<chain, tip, active, received, handling, suspended, blamed, liars>>

(* on_item_ids_inventory_message.  An item that the node itself advertised *)
(* to some peer, which it may only have done if it has the block, is       *)
(* ignored.                                                                *)
ReceiveOffer(p) ==
  /\ Arrives(p, "offer")
  /\ LET b == peer[p].inbox[1].id
     IN  \/ /\ b \in known
            /\ peer' = [peer EXCEPT ![p] = Received(p)]
            /\ UNCHANGED <<wanted, wake>>
         \/ /\ peer' = [peer EXCEPT ![p] = [Received(p) EXCEPT !.offered = @ \cup {b}]]
            /\ IF \E q \in Peers : On(q) /\ b \in peer[q].asked
               THEN UNCHANGED <<wanted, wake>>
               ELSE wanted' = wanted \cup {b} /\ Wake(IF b \in wanted THEN {} ELSE {"items"})
  /\ UNCHANGED <<chain, tip, active, received, handling, suspended, history>>

(* on_fetch_blockchain_item_ids_message: a peer asks which blocks we have, *)
(* and we may find that it has one that we do not have.                    *)
PeerAsks(p) ==
  /\ p \in Asking /\ On(p)
  /\ \E reference \in {NoBlock} \cup (ToSet(PathTo(tip[p])) \cap known) :
       LET s == ChainSynopsis(tip[p], reference, 0)
           list == AnswerIds(head, s).list
           r == [peer[p] EXCEPT !.they_need = ~NothingNew(list, s)]
           unknown == s # <<>> /\ Last(s) \notin known
           told == IF ~r.need /\ unknown THEN StartSync(head, tip[p], r) ELSE r
       IN  peer' = [peer EXCEPT ![p] =
             IF ~r.they_need /\ list # <<>> /\ r.inhibit THEN Closing(told) ELSE told]
  /\ UNCHANGED <<chain, tip, active, received, handling, suspended, wanted, wake, history>>

(* on_fetch_items_message: a peer that lacks a block which we have told it *)
(* of gets it from us, and this is the last one that we know it has seen.  *)
PeerFetches(p) ==
  /\ p \in Asking /\ On(p)
  /\ \E b \in known \ ToSet(PathTo(tip[p])) : peer' = [peer EXCEPT ![p].last_seen = b]
  /\ UNCHANGED <<chain, tip, active, received, handling, suspended, wanted, wake, history>>

(* The peer gets a new block, and advertises it if we are in sync with it. *)
PeerGrows(p) ==
  /\ MayGrow
  /\ \E b \in Blocks \ Bad :
       /\ Parent[b] = tip[p]
       /\ tip' = [tip EXCEPT ![p] = b]
       /\ peer' = IF On(p) /\ ~peer[p].behind
                  THEN [peer EXCEPT ![p] = Sent(@, <<[kind |-> "offer", id |-> b]>>)] ELSE peer
  /\ UNCHANGED <<chain, active, received, handling, suspended, wanted, wake, history>>

----------------------------------------------------------------------------
Init ==
  /\ head = NoBlock /\ known = {}
  /\ peer = [p \in Peers |-> Gone]
  /\ tip \in [Peers -> Blocks \cup {NoBlock}] /\ \A p \in Peers : tip[p] \in Tips[p]
  /\ active = {} /\ received = <<>> /\ handling = <<>> /\ suspended = FALSE
  /\ wanted = {} /\ wake = {}
  /\ blamed = {} /\ liars = {} /\ missing = {} /\ faults = 0

Receive(p) ==
  \/ IgnoreIds(p) \/ RejectIds(p) \/ ReceiveIds(p)
  \/ ReceiveSyncBlock(p) \/ ReceiveBlock(p) \/ RejectBlock(p) \/ ReceiveOffer(p)

Loops == FetchSyncItems \/ FetchItems \/ ProcessBacklog \/ HandleSyncBlock

Next ==
  \/ Loops
  \/ \E p \in Peers :
       \/ Connect(p) \/ ConnectionClosed(p) \/ FallSilent(p) \/ Misbehave(p) \/ Timeout(p)
       \/ Receive(p) \/ NotAvailable(p)
       \/ PeerAsks(p) \/ PeerFetches(p) \/ PeerGrows(p)

(* The loops and the readers run whenever they have something to do; the   *)
(* connect loop tries a peer again and again, and the terminate loop comes *)
(* round every few seconds.                                                *)
Fairness ==
  /\ WF_vars(FetchSyncItems) /\ WF_vars(FetchItems)
  /\ WF_vars(ProcessBacklog) /\ WF_vars(HandleSyncBlock)
  /\ \A p \in Peers :
       /\ WF_vars(Connect(p)) /\ WF_vars(Receive(p)) /\ WF_vars(Timeout(p))
       /\ WF_vars(peer[p].conn = "closing" /\ ConnectionClosed(p))

Spec == Init /\ [][Next]_vars

FairSpec == Spec /\ Fairness

----------------------------------------------------------------------------
(* Properties. *)

(* Types of the variables; the head is a known block, and the chain never  *)
(* has more than MaxHandled blocks to handle.                              *)
TypeOK ==
  /\ known \subseteq Blocks /\ head \in known \cup {NoBlock}
  /\ peer \in [Peers -> PeerRecord] /\ tip \in [Peers -> Blocks \cup {NoBlock}]
  /\ Len(handling) <= MaxHandled
  /\ active \subseteq Blocks /\ wanted \subseteq Blocks
  /\ received \in Seq(Blocks) /\ handling \in Seq(Blocks)
  /\ suspended \in BOOLEAN /\ wake \subseteq {"sync", "items", "backlog"}

(* A block that is in _active_sync_requests is not asked of another peer,  *)
(* because "we've requested it in a previous iteration and we're still     *)
(* waiting for it to arrive": some connected peer has yet to answer.  The  *)
(* exception is a block that a peer said it does not have: nothing takes   *)
(* it out of the set, and it is not asked for again.                       *)
RequestsPending ==
  \A b \in active \ missing : \E p \in Peers : peer[p].conn # "none" /\ b \in peer[p].sync_asked

(* fetch_sync_items_loop divides the blocks: none is asked of two peers at *)
(* a time.                                                                 *)
AskedOnce ==
  \A p, q \in Peers : p # q => peer[p].sync_asked \cap peer[q].sync_asked = {}

(* No peer that follows the protocol is disconnected for an invalid answer,*)
(* for a block that was not asked for or for one that does not link, not   *)
(* even because of what another peer sent.  The exception is a list of ids *)
(* when it was asked for ids again before it had answered.                 *)
OnlyLiarsBlamed == \A a \in blamed : a.peer \in liars \/ (a.kind = "ids" /\ a.overtaken)

(* process_backlog_of_sync_blocks hands a block to the chain after its     *)
(* parent, whatever the order in which the peers send them, and also when  *)
(* the parent is rejected.                                                 *)
InOrder ==
  [][liars = {} =>
       \A b \in Blocks :
          handling' = Append(handling, b) =>
            Parent[b] \in known \cup {NoBlock} \cup ToSet(handling)]_vars

(* The loops and the answers get the node to the longest chain of a peer.  *)
CatchesUp == <>[](\A p \in Peers : Num(head) >= Num(tip[p]))

(* "if we just received the last item in our list from this peer, we will  *)
(* want to send another request to find out if we are in sync": the node   *)
(* gets in sync with each peer, and stays so when no new block is made.    *)
SyncEnds == \A p \in Peers : <>[](~peer[p].need)
============================================================================
