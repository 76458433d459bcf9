----------------------------- MODULE Production -----------------------------
(***************************************************************************)
(* Nodes that make blocks and send them to one another                     *)
(* (libraries/plugins/miner/miner.cpp, with what generate_block and        *)
(* push_block of libraries/chain/db_block.cpp do to the head).             *)
(*                                                                         *)
(* A block is the sequence of the timestamps of its chain: the schedule is *)
(* fixed, so a timestamp gives the slot and the miner.  The clock counts   *)
(* seconds and is the same for all (NTP); within a second wake-ups and     *)
(* blocks come in any order.  Transactions, keys and maintenance are left  *)
(* out, and so is the check of participation: its option is a switch that  *)
(* sets the required rate to zero.                                         *)
(***************************************************************************)
EXTENDS Slots

CONSTANTS
  Nodes,
  Order,            \* current_shuffled_miners, the same for every round
  MinersOf,         \* _miners of each node
  Stale,            \* the nodes started with enable-stale-production
  Late,             \* the nodes whose loop may wake late, or not at all for a while
  Interval,         \* block_interval
  GenesisTime,
  MaxDelay,         \* assumed of the network: the time a block needs to reach a node
  MaxTime,          \* bound: the clock
  MaxRestarts       \* bound: the restarts of all nodes

ASSUME ProductionAssumption ==
  /\ Order # <<>> /\ IsInjective(Order)
  /\ MinersOf \in [Nodes -> SUBSET ToSet(Order)]
  /\ \A n, o \in Nodes : n # o => MinersOf[n] \cap MinersOf[o] = {}
  /\ Stale \subseteq Nodes /\ Late \subseteq Nodes
  /\ Interval \in Nat \ {0}
  /\ GenesisTime \in Nat /\ GenesisTime % Interval = 0
  /\ MaxDelay \in Nat /\ MaxRestarts \in Nat
  /\ MaxTime \in Nat /\ GenesisTime <= MaxTime

VARIABLES
  clock,      \* graphene::time::now, whole seconds
  known,      \* _fork_db: the blocks of each node
  head,       \* the head block of each node
  enabled,    \* _production_enabled
  wakeup,     \* when the production loop is due
  restarts,   \* counts towards MaxRestarts
  signed,     \* history: every block made
  since       \* history: when production was enabled, MaxTime + 1 if it is not

vars == <<clock, known, head, enabled, wakeup, restarts, signed, since>>

Genesis == <<>>
Miners  == ToSet(Order)

----------------------------------------------------------------------------
(* What a node whose head block is b reads from its objects. *)

Parameters == [block_interval |-> Interval, maintenance_skip_slots |-> 0]

Time(b)     == IF b = Genesis THEN GenesisTime ELSE Last(b)
Previous(b) == Front(b)
Branch(b)   == {SubSeq(b, 1, k) : k \in 0 .. Len(b)}

\* The slot since genesis of a timestamp, and the miner scheduled for it.
AslotAt(ts) == (ts - GenesisTime) \div Interval
MinerAt(ts) == Order[(AslotAt(ts) % Len(Order)) + 1]

Properties(b) ==
  [head_block_number |-> Len(b), time |-> Time(b), current_aslot |-> AslotAt(Time(b)),
   last_irreversible_block_num |-> 0, maintenance_flag |-> FALSE]

\* The last irreversible block of the chain of b.
Irreversible(b) ==
  SubSeq(b, 1, LastIrreversible(Properties(b), Miners,
    [m \in Miners |->
      [last_confirmed_block_num |-> Max({0} \cup {k \in DOMAIN b : MinerAt(b[k]) = m})]]))

----------------------------------------------------------------------------
Init ==
  /\ clock = GenesisTime
  /\ known = [n \in Nodes |-> {Genesis}]
  /\ head = [n \in Nodes |-> Genesis]
  /\ enabled = [n \in Nodes |-> n \in Stale]
  /\ wakeup = [n \in Nodes |-> GenesisTime + 1]
  /\ restarts = 0
  /\ signed = {}
  /\ since = [n \in Nodes |-> IF n \in Stale THEN GenesisTime + 1 ELSE MaxTime + 1]

\* A second passes, unless the loop or a block would be later than assumed.
Tick ==
  /\ clock < MaxTime
  /\ \A n \in Nodes \ Late : wakeup[n] > clock
  /\ \A n \in Nodes, b \in signed : Time(b) + MaxDelay <= clock => b \in known[n]
  /\ clock' = clock + 1
  /\ UNCHANGED <<known, head, enabled, wakeup, restarts, signed, since>>

(* Seeded fault: production stops when the chain falls behind. *)
SyncedOnlyNow(n, now) == SlotTime(Properties(head[n]), Parameters, 1) >= now

\* Production is enabled, or becomes so: the next block is not overdue.
Synced(n, now) ==
  enabled[n] \/ SlotTime(Properties(head[n]), Parameters, 1) >= now

(* Seeded fault: no check of the lag. *)
OnTimeOrLater(scheduled, now) == scheduled <= now

\* Whole seconds at most 500 milliseconds apart.
OnTime(scheduled, now) == scheduled = now

(* maybe_produce_block, with the slot of `now` in the chain of the head *)
Produces(n, now) ==
  LET slot == SlotAt(Properties(head[n]), Parameters, now)
  IN  /\ Synced(n, now)
      /\ slot > 0
      /\ Scheduled(Properties(head[n]), Order, slot) \in MinersOf[n]
      /\ OnTime(SlotTime(Properties(head[n]), Parameters, slot), now)

\* generate_block and the broadcast: a block on the head, with the time of the slot
Generated(n, now) ==
  LET d == Properties(head[n])
  IN  Append(head[n], SlotTime(d, Parameters, SlotAt(d, Parameters, now)))

(* block_production_loop: `now` is rounded to the nearest second, so a loop *)
(* that wakes half a second late takes the next one for the present.        *)
Wake(n, now) ==
  /\ wakeup[n] <= clock
  /\ now = clock \/ (n \in Late /\ now = clock + 1)
  /\ wakeup' = [wakeup EXCEPT ![n] = clock + 1]            \* schedule_production_loop
  /\ enabled' = [enabled EXCEPT ![n] = Synced(n, now)]
  /\ since' = [since EXCEPT ![n] = IF Synced(n, now) THEN Min({@, now}) ELSE @]
  /\ IF Produces(n, now)
     THEN LET b == Generated(n, now)
          IN  /\ signed' = signed \cup {b}
              /\ known' = [known EXCEPT ![n] = @ \cup {b}]
              /\ head' = [head EXCEPT ![n] = b]
     ELSE UNCHANGED <<signed, known, head>>
  /\ UNCHANGED <<clock, restarts>>


\* push_block: the head moves only to a higher block
Higher(n, b) == IF Len(b) > Len(head[n]) THEN b ELSE head[n]

(* handle_block of a block that came from another node, or comes again *)
Receive(n, b) ==
  /\ b \in signed \ known[n] /\ Previous(b) \in known[n]
  /\ known' = [known EXCEPT ![n] = @ \cup {b}]
  /\ head' = [head EXCEPT ![n] = Higher(n, b)]
  /\ UNCHANGED <<clock, enabled, wakeup, restarts, signed, since>>

(* database::close, and the start after it: the head is the last           *)
(* irreversible block again, the fork database holds that chain only.      *)
Restart(n) ==
  LET b == Irreversible(head[n])
  IN  /\ restarts < MaxRestarts
      /\ restarts' = restarts + 1
      /\ known' = [known EXCEPT ![n] = Branch(b)]
      /\ head' = [head EXCEPT ![n] = b]
      /\ enabled' = [enabled EXCEPT ![n] = n \in Stale]
      /\ wakeup' = [wakeup EXCEPT ![n] = clock + 1]
      /\ since' = [since EXCEPT ![n] = IF n \in Stale THEN clock + 1 ELSE MaxTime + 1]
      /\ UNCHANGED <<clock, signed>>

Next ==
  \/ Tick
  \/ \E n \in Nodes, now \in GenesisTime .. MaxTime + 1 : Wake(n, now)
  \/ \E n \in Nodes, b \in signed : Receive(n, b)
  \/ \E n \in Nodes : Restart(n)

Spec == Init /\ [][Next]_vars

----------------------------------------------------------------------------
\* The miners of nodes whose loop is on time.
PunctualMiners == UNION {MinersOf[n] : n \in Nodes \ Late}

(***************************************************************************)
(* A miner whose loop wakes on time never signs two blocks for one slot,   *)
(* whatever chains its head is switched to meanwhile, and restarts.  The   *)
(* code keeps no record of what it signed: it relies on the loop coming    *)
(* once a second and on the check of the lag.                              *)
(***************************************************************************)
SignsOnce ==
  \A b, c \in signed :
     (Time(b) = Time(c) /\ MinerAt(Time(b)) \in PunctualMiners) => b = c

(***************************************************************************)
(* Once production is enabled, a node whose loop wakes on time makes a     *)
(* block for every slot of its miners, however many slots others missed    *)
(* and wherever the head is moved: production that a recent block enabled  *)
(* is not disabled by the chain falling behind.                            *)
(***************************************************************************)
SlotsFilled ==
  \A n \in Nodes \ Late :
     \A ts \in since[n] .. clock - 1 :
        ((ts - GenesisTime) % Interval = 0 /\ MinerAt(ts) \in MinersOf[n])
          => \E b \in signed : Time(b) = ts

=============================================================================
