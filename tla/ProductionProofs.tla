-------------------------- MODULE ProductionProofs --------------------------
(***************************************************************************)
(* For every set of nodes, schedule and interval: a miner whose loop is on *)
(* time signs one block per slot, and misses none of its slots once its    *)
(* production is enabled.                                                  *)
(***************************************************************************)
EXTENDS Production, ObjectProofs, WellFoundedInduction

----------------------------------------------------------------------------
(* Maxima. *)

(***************************************************************************)
(* The numbers up to a bound have a greatest one, which is the one Max     *)
(* chooses: the miners' last blocks, and the block they confirm.           *)
(***************************************************************************)
LEMMA MaxOfBounded ==
  ASSUME NEW N \in Nat, NEW S \in SUBSET (0 .. N), S # {}
  PROVE  Max(S) \in S
<1> DEFINE T == {N - k : k \in S}
<1>1. T \subseteq Nat /\ T # {}
  <2>1. \A k \in S : k \in Nat /\ N - k \in Nat
    OBVIOUS
  <2>2. PICK k \in S : TRUE
    OBVIOUS
  <2>3. N - k \in T
    BY <2>2
  <2> QED
    BY <2>1, <2>3
<1>2. PICK t \in T : \A u \in T : ~(<<u, t>> \in OpToRel(<, Nat))
  BY <1>1, NatLessThanWellFounded, WFMin
<1>3. \A u \in T : ~(u < t)
  BY <1>1, <1>2 DEF OpToRel
<1>4. PICK x \in S : t = N - x
  BY <1>2
<1>5. \A y \in S : x >= y
  <2> SUFFICES ASSUME NEW y \in S PROVE x >= y
    OBVIOUS
  <2>1. N - y \in T /\ ~(N - y < N - x)
    BY <1>3, <1>4
  <2>2. x \in Nat /\ y \in Nat
    OBVIOUS
  <2> QED
    BY <2>1, <2>2
<1> QED
  BY <1>5, Zenon DEF Max

----------------------------------------------------------------------------
(* Timestamps and slots. *)

OnGrid(ts) == \E k \in Nat : ts = GenesisTime + k * Interval

\* Chains of blocks that are all on the grid of slots.
Chains == {b \in Seq(Nat) : \A k \in DOMAIN b : OnGrid(b[k])}

(***************************************************************************)
(* The parameters of this chain are as chain_parameters::validate wants.   *)
(***************************************************************************)
LEMMA IntervalValid ==
  /\ Interval \in Nat \ {0} /\ GenesisTime \in Nat
  /\ IsParameters(Parameters)
  BY ProductionAssumption DEF ProductionAssumption, IsParameters, Parameters

(***************************************************************************)
(* A multiple of the interval divided by it.                               *)
(***************************************************************************)
LEMMA Multiples ==
  ASSUME NEW x \in Nat
  PROVE  (x * Interval) \div Interval = x
<1> DEFINE q == (x * Interval) \div Interval
<1>1. Interval \in Nat \ {0} /\ x * Interval \in Nat
  BY IntervalValid
<1>2. q \in Nat /\ q * Interval <= x * Interval /\ x * Interval < (q + 1) * Interval
  BY <1>1, Division
<1>3. q + 1 <= x => (q + 1) * Interval <= x * Interval
  BY <1>1, <1>2, Products
<1>4. x + 1 <= q => (x + 1) * Interval <= q * Interval
  BY <1>1, <1>2, Products
<1>5. (x + 1) * Interval = x * Interval + 1 * Interval
  BY <1>1, Products
<1>6. (q + 1) * Interval \in Int /\ q * Interval \in Int
  BY <1>1, <1>2, Products
<1> QED
  BY <1>1, <1>2, <1>3, <1>4, <1>5, <1>6

(***************************************************************************)
(* A multiple of the interval since genesis is on the grid.                *)
(***************************************************************************)
LEMMA Remainder ==
  ASSUME NEW ts \in Nat, ts >= GenesisTime, (ts - GenesisTime) % Interval = 0
  PROVE  OnGrid(ts)
<1> DEFINE x == ts - GenesisTime
           q == x \div Interval
<1>1. Interval \in Nat \ {0} /\ x \in Nat
  BY IntervalValid
<1>2. x = q * Interval /\ q \in Nat
  BY <1>1, Division, SMTT(30)
<1>3. ts = GenesisTime + q * Interval
  BY <1>1, <1>2, IntervalValid
<1> QED
  BY <1>2, <1>3 DEF OnGrid

(***************************************************************************)
(* Two times of the grid are in the order of their slots.                  *)
(***************************************************************************)
LEMMA GridOrder ==
  ASSUME NEW i \in Nat, NEW j \in Nat,
         GenesisTime + i * Interval < GenesisTime + j * Interval
  PROVE  /\ i < j
         /\ GenesisTime + i * Interval + Interval <= GenesisTime + j * Interval
<1>1. Interval \in Nat \ {0} /\ GenesisTime \in Nat
  BY IntervalValid
<1>2. i * Interval \in Int /\ j * Interval \in Int
  BY <1>1, Products
<1>3. j <= i => j * Interval <= i * Interval
  BY <1>1, Products
<1>4. i < j
  BY <1>1, <1>2, <1>3
<1>5. (i + 1) * Interval = i * Interval + 1 * Interval
  BY <1>1, Products
<1>6. (i + 1) * Interval <= j * Interval
  BY <1>1, <1>4, Products
<1> QED
  BY <1>1, <1>2, <1>4, <1>5, <1>6

(***************************************************************************)
(* The time of a chain is that of its last block, or of genesis, and on    *)
(* the grid.                                                               *)
(***************************************************************************)
LEMMA ChainTimes ==
  ASSUME NEW b \in Chains
  PROVE  /\ Time(b) \in Nat /\ OnGrid(Time(b))
         /\ b # Genesis => Len(b) \in DOMAIN b /\ Time(b) = b[Len(b)]
         /\ IsClock(Properties(b))
<1>1. GenesisTime \in Nat /\ Interval \in Nat \ {0} /\ b \in Seq(Nat)
  BY IntervalValid DEF Chains
<1>2. CASE b = Genesis
  <2>1. Time(b) = GenesisTime
    BY <1>2 DEF Time
  <2>2. GenesisTime = GenesisTime + 0 * Interval
    BY <1>1
  <2>3. OnGrid(GenesisTime)
    BY <2>2 DEF OnGrid
  <2> QED
    BY <1>1, <1>2, <2>1, <2>3 DEF IsClock, Properties
<1>3. CASE b # Genesis
  <2>1. Len(b) \in DOMAIN b
    BY <1>1, <1>3 DEF Genesis
  <2>2. Time(b) = b[Len(b)]
    BY <1>3 DEF Time, Last
  <2>3. Time(b) \in Nat /\ OnGrid(Time(b))
    BY <1>1, <2>1, <2>2 DEF Chains
  <2> QED
    BY <1>1, <1>3, <2>1, <2>2, <2>3 DEF IsClock, Properties
<1> QED
  BY <1>2, <1>3

(***************************************************************************)
(* get_slot_time on a chain whose head block is in slot a.                 *)
(***************************************************************************)
LEMMA ChainSlots ==
  ASSUME NEW b \in Chains, NEW a \in Nat, Time(b) = GenesisTime + a * Interval
  PROVE  /\ AslotAt(Time(b)) = a
         /\ \A n \in Nat \ {0} :
              SlotTime(Properties(b), Parameters, n) = GenesisTime + (a + n) * Interval
<1>1. /\ Interval \in Nat \ {0} /\ GenesisTime \in Nat /\ GenesisTime % Interval = 0
      /\ b \in Seq(Nat) /\ a * Interval \in Nat
  BY ProductionAssumption DEF ProductionAssumption, Chains
<1>2. AslotAt(Time(b)) = a
  BY <1>1, Multiples DEF AslotAt
<1>3. ASSUME NEW n \in Nat \ {0}
      PROVE  SlotTime(Properties(b), Parameters, n) = GenesisTime + (a + n) * Interval
  <2>1. (a + n) * Interval = a * Interval + n * Interval
    BY <1>1, Products
  <2>2. n * Interval \in Int
    BY <1>1, Products
  <2>3. CASE b = Genesis
    <3>1. Properties(b).head_block_number = 0 /\ Properties(b).time = Time(b)
      BY <2>3 DEF Properties, Genesis
    <3>2. SlotTime(Properties(b), Parameters, n) = Time(b) + n * Interval
      BY <3>1 DEF SlotTime, Parameters
    <3> QED
      BY <1>1, <2>1, <2>2, <3>2
  <2>4. CASE b # Genesis
    <3>1. /\ Properties(b).head_block_number # 0 /\ Properties(b).time = Time(b)
          /\ Gap(Properties(b), Parameters) = 0
      BY <1>1, <2>4 DEF Properties, Genesis, Gap
    <3>2. SlotTime(Properties(b), Parameters, n)
            = (Time(b) \div Interval + n + Gap(Properties(b), Parameters)) * Interval
      BY <3>1 DEF SlotTime, Parameters
    <3> DEFINE g == GenesisTime \div Interval
    <3>3. g \in Nat /\ GenesisTime = g * Interval
      BY <1>1, Division, SMTT(30)
    <3>4. (g + a) * Interval = g * Interval + a * Interval
      BY <1>1, <3>3, Products
    <3>5. Time(b) \div Interval = g + a
      BY <3>3, <3>4, Multiples
    <3>6. (g + (a + n)) * Interval = g * Interval + (a + n) * Interval
      <4>1. g \in Int /\ a + n \in Int
        BY <3>3
      <4> QED
        BY <1>1, <4>1, Products
    <3>7. Time(b) \div Interval + n + Gap(Properties(b), Parameters) = g + (a + n)
      BY <3>1, <3>3, <3>5
    <3> QED
      BY <3>2, <3>3, <3>6, <3>7
  <2> QED
    BY <2>3, <2>4
<1> QED
  BY <1>2, <1>3

(***************************************************************************)
(* The slot a loop produces for is that of the time, in every chain: the   *)
(* miner it finds scheduled is the miner of the time.                      *)
(***************************************************************************)
LEMMA ProducedSlot ==
  ASSUME NEW b \in Chains, NEW now \in Nat,
         SlotAt(Properties(b), Parameters, now) > 0,
         SlotTime(Properties(b), Parameters, SlotAt(Properties(b), Parameters, now)) = now
  PROVE  /\ OnGrid(now)
         /\ Scheduled(Properties(b), Order, SlotAt(Properties(b), Parameters, now)) = MinerAt(now)
<1> DEFINE slot == SlotAt(Properties(b), Parameters, now)
<1>1. slot \in Nat \ {0}
  BY ChainTimes, IntervalValid, SlotAtInverse
<1>2. PICK a \in Nat : Time(b) = GenesisTime + a * Interval
  BY ChainTimes DEF OnGrid
<1>3. now = GenesisTime + (a + slot) * Interval /\ AslotAt(Time(b)) = a
  BY <1>1, <1>2, ChainSlots
<1>4. AslotAt(now) = a + slot
  <2>1. a + slot \in Nat /\ now - GenesisTime = (a + slot) * Interval
    BY <1>1, <1>3, IntervalValid, Products
  <2> QED
    BY <2>1, Multiples DEF AslotAt
<1>5. Properties(b).current_aslot = a
  BY <1>3 DEF Properties
<1> QED
  BY <1>1, <1>3, <1>4, <1>5 DEF OnGrid, Scheduled, MinerAt

(***************************************************************************)
(* A time of the grid after the head block is the time of a slot.          *)
(***************************************************************************)
LEMMA ReachedSlot ==
  ASSUME NEW b \in Chains, NEW now \in Nat, OnGrid(now), Time(b) < now
  PROVE  /\ SlotAt(Properties(b), Parameters, now) > 0
         /\ SlotTime(Properties(b), Parameters, SlotAt(Properties(b), Parameters, now)) = now
<1> DEFINE slot == SlotAt(Properties(b), Parameters, now)
<1>1. PICK a \in Nat : Time(b) = GenesisTime + a * Interval
  BY ChainTimes DEF OnGrid
<1>2. PICK c \in Nat : now = GenesisTime + c * Interval
  BY DEF OnGrid
<1>3. a < c
  BY <1>1, <1>2, GridOrder
<1>4. c - a \in Nat \ {0} /\ a + (c - a) = c /\ a + (c - a + 1) = c + 1
  BY <1>3
<1>5. SlotTime(Properties(b), Parameters, c - a) = now
  BY <1>1, <1>2, <1>4, ChainSlots
<1>6. SlotTime(Properties(b), Parameters, c - a + 1) > now
  <2>1. SlotTime(Properties(b), Parameters, c - a + 1) = GenesisTime + (c + 1) * Interval
    BY <1>1, <1>4, ChainSlots
  <2>2. (c + 1) * Interval = c * Interval + 1 * Interval /\ c * Interval \in Int
    BY IntervalValid, Products
  <2> QED
    BY <1>2, <2>1, <2>2, IntervalValid
<1>7. /\ slot \in Nat
      /\ \A n \in Nat \ {0} : SlotTime(Properties(b), Parameters, n) <= now <=> n <= slot
  BY ChainTimes, IntervalValid, SlotAtInverse
<1>8. c - a <= slot
  BY <1>4, <1>5, <1>7
<1>9. ~(c - a + 1 <= slot)
  <2>1. c - a + 1 \in Nat \ {0}
    BY <1>4
  <2>2. SlotTime(Properties(b), Parameters, c - a + 1) \in Int
    <3>1. SlotTime(Properties(b), Parameters, c - a + 1)
            = GenesisTime + (a + (c - a + 1)) * Interval
      BY <1>1, <2>1, ChainSlots
    <3>2. (a + (c - a + 1)) * Interval \in Int
      BY <2>1, IntervalValid, Products
    <3> QED
      BY <3>1, <3>2, IntervalValid
  <2> QED
    BY <1>6, <1>7, <2>1, <2>2
<1> QED
  BY <1>4, <1>5, <1>7, <1>8, <1>9

----------------------------------------------------------------------------
(* Irreversible blocks. *)

(***************************************************************************)
(* The chain of the last irreversible block is a beginning of the chain.   *)
(***************************************************************************)
LEMMA IrreversiblePrefix ==
  ASSUME NEW b \in Seq(Nat)
  PROVE  \E k \in 0 .. Len(b) : Irreversible(b) = SubSeq(b, 1, k)
<1> DEFINE blocks(m) == {k \in DOMAIN b : MinerAt(b[k]) = m}
           tbl == [m \in Miners |-> [last_confirmed_block_num |-> Max({0} \cup blocks(m))]]
           d == Properties(b)
           offset == ((100 - IrreversibleThreshold) * Cardinality(Miners)) \div 100
           confirmed == {n \in {tbl[m].last_confirmed_block_num : m \in Miners} :
                          Cardinality({m \in Miners : tbl[m].last_confirmed_block_num < n}) <= offset}
<1>1. Len(b) \in Nat /\ DOMAIN b = 1 .. Len(b)
  OBVIOUS
<1>2. ASSUME NEW m \in Miners PROVE tbl[m].last_confirmed_block_num \in 0 .. Len(b)
  <2>1. {0} \cup blocks(m) \in SUBSET (0 .. Len(b)) /\ {0} \cup blocks(m) # {}
    BY <1>1
  <2>2. Max({0} \cup blocks(m)) \in {0} \cup blocks(m)
    BY <1>1, <2>1, MaxOfBounded
  <2> QED
    BY <2>1, <2>2
<1>3. {0} \cup confirmed \in SUBSET (0 .. Len(b)) /\ {0} \cup confirmed # {}
  <2>1. confirmed \subseteq {tbl[m].last_confirmed_block_num : m \in Miners}
    BY Zenon
  <2>2. {tbl[m].last_confirmed_block_num : m \in Miners} \subseteq 0 .. Len(b)
    BY <1>2
  <2>3. confirmed \subseteq 0 .. Len(b)
    BY <2>1, <2>2, Zenon
  <2> HIDE DEF confirmed
  <2> QED
    BY <1>1, <2>3
<1>4. Max({0} \cup confirmed) \in 0 .. Len(b)
  BY <1>1, <1>3, MaxOfBounded
<1>5. d.last_irreversible_block_num = 0
  BY DEF Properties
<1>6. LastIrreversible(d, Miners, tbl) = Max({0} \cup confirmed)
  BY <1>5, Zenon DEF LastIrreversible
<1>7. Irreversible(b) = SubSeq(b, 1, Max({0} \cup confirmed))
  BY <1>6, Zenon DEF Irreversible
<1> QED
  BY <1>4, <1>7

----------------------------------------------------------------------------
(* The inductive invariant. *)

Typed ==
  /\ clock \in GenesisTime .. MaxTime
  /\ head \in [Nodes -> Chains]
  /\ wakeup \in [Nodes -> Nat]
  /\ since \in [Nodes -> Nat]
  /\ signed \subseteq Chains \ {Genesis}

\* No block is from later than the next second, and every block below one that was
\* signed, or below a head, has the time of one that was signed.
Dated(b) == \A k \in DOMAIN b : b[k] <= clock + 1 /\ \E c \in signed : Time(c) = b[k]

Loops ==
  /\ \A n \in Nodes : GenesisTime < wakeup[n] /\ wakeup[n] <= clock + 1
  /\ \A n \in Nodes \ Late : clock <= wakeup[n]
  /\ \A n \in Nodes : GenesisTime < since[n]

Enabling ==
  /\ enabled \in [Nodes -> BOOLEAN]
  /\ \A n \in Nodes : ~enabled[n] => since[n] = MaxTime + 1

\* What a miner whose loop is on time signed is from before the next wake-up.
SignedBefore ==
  \A n \in Nodes \ Late, b \in signed :
     MinerAt(Time(b)) \in MinersOf[n] => Time(b) < wakeup[n]

ProductionInv ==
  /\ Typed
  /\ Loops
  /\ Enabling
  /\ \A b \in signed : Dated(b)
  /\ \A n \in Nodes : Dated(head[n])
  /\ SignedBefore
  /\ SignsOnce

(***************************************************************************)
(* What a loop makes: a block on its head with the time of the wake-up,    *)
(* for one of its own miners.                                              *)
(***************************************************************************)
LEMMA MadeBlock ==
  ASSUME ProductionInv, NEW n \in Nodes, NEW now \in Nat, Produces(n, now)
  PROVE  /\ Generated(n, now) = Append(head[n], now)
         /\ Generated(n, now) \in Chains \ {Genesis}
         /\ Time(Generated(n, now)) = now
         /\ MinerAt(now) \in MinersOf[n]
<1> DEFINE b == head[n]
           slot == SlotAt(Properties(b), Parameters, now)
<1>1. b \in Chains /\ b \in Seq(Nat)
  BY DEF ProductionInv, Typed, Chains
<1>2. /\ slot > 0
      /\ Scheduled(Properties(b), Order, slot) \in MinersOf[n]
      /\ SlotTime(Properties(b), Parameters, slot) = now
  BY DEF Produces, OnTime
<1>3. OnGrid(now) /\ MinerAt(now) \in MinersOf[n]
  BY <1>1, <1>2, ProducedSlot
<1>4. Generated(n, now) = Append(b, now)
  BY <1>2 DEF Generated
<1>5. /\ Append(b, now) \in Seq(Nat) /\ Append(b, now) # <<>>
      /\ Len(Append(b, now)) = Len(b) + 1
      /\ Append(b, now)[Len(b) + 1] = now
      /\ \A k \in DOMAIN Append(b, now) :
            \/ k \in DOMAIN b /\ Append(b, now)[k] = b[k]
            \/ Append(b, now)[k] = now
  BY <1>1
<1>6. Append(b, now) \in Chains
  BY <1>1, <1>3, <1>5 DEF Chains
<1>7. Time(Append(b, now)) = now
  BY <1>5 DEF Time, Genesis, Last
<1> QED
  BY <1>3, <1>4, <1>5, <1>6, <1>7 DEF Genesis

(***************************************************************************)
(* ProductionInv is inductive.                                             *)
(***************************************************************************)
LEMMA ProductionInit == Init => ProductionInv
<1> SUFFICES ASSUME Init PROVE ProductionInv
  OBVIOUS
<1>1. GenesisTime \in Nat /\ MaxTime \in Nat /\ GenesisTime <= MaxTime
  BY ProductionAssumption DEF ProductionAssumption
<1>2. Genesis \in Chains /\ DOMAIN Genesis = {}
  BY DEF Chains, Genesis
<1>3. Typed
  BY <1>1, <1>2 DEF Init, Typed
<1>4. Loops
  <2>1. \A n \in Nodes : wakeup[n] = GenesisTime + 1
    BY DEF Init
  <2>2. \A n \in Nodes : since[n] = IF n \in Stale THEN GenesisTime + 1 ELSE MaxTime + 1
    BY DEF Init
  <2>3. clock = GenesisTime
    BY DEF Init
  <2> QED
    BY <1>1, <2>1, <2>2, <2>3 DEF Loops
<1>6. Enabling
  <2>1. enabled = [n \in Nodes |-> n \in Stale]
    BY DEF Init
  <2>2. since = [n \in Nodes |-> IF n \in Stale THEN GenesisTime + 1 ELSE MaxTime + 1]
    BY DEF Init
  <2>3. \A n \in Nodes : (n \in Stale) \in BOOLEAN
    OBVIOUS
  <2>4. enabled \in [Nodes -> BOOLEAN]
    BY <2>1, <2>3, Zenon
  <2>5. \A n \in Nodes : ~enabled[n] => since[n] = MaxTime + 1
    BY <2>1, <2>2, Zenon
  <2> QED
    BY <2>4, <2>5 DEF Enabling
<1>5. signed = {} /\ \A n \in Nodes : head[n] = Genesis
  BY DEF Init
<1> QED
  BY <1>2, <1>3, <1>4, <1>5, <1>6 DEF ProductionInv, Dated, SignedBefore, SignsOnce

(***************************************************************************)
(* A second that passes: every loop that is on time has had its turn.      *)
(***************************************************************************)
LEMMA TickKeeps == ProductionInv /\ Tick => ProductionInv'
<1> SUFFICES ASSUME ProductionInv, Tick PROVE ProductionInv'
  OBVIOUS
<1>1. /\ clock' = clock + 1 /\ clock < MaxTime /\ MaxTime \in Nat
      /\ UNCHANGED <<known, head, enabled, wakeup, restarts, signed, since>>
      /\ \A n \in Nodes \ Late : clock < wakeup[n]
      /\ GenesisTime \in Nat
  BY ProductionAssumption DEF Tick, ProductionAssumption
<1>2. Typed'
  BY <1>1 DEF ProductionInv, Typed
<1>3. Loops'
  BY <1>1 DEF ProductionInv, Typed, Loops
<1>7. Enabling'
  BY <1>1, Zenon DEF ProductionInv, Enabling
<1>4. \A b \in Chains : Dated(b) => Dated(b)'
  BY <1>1 DEF ProductionInv, Typed, Dated, Chains
<1>5. (\A b \in signed : Dated(b))' /\ (\A n \in Nodes : Dated(head[n]))'
  BY <1>1, <1>4 DEF ProductionInv, Typed
<1>6. SignedBefore' /\ SignsOnce'
  BY <1>1 DEF ProductionInv, SignedBefore, SignsOnce
<1> QED
  BY <1>2, <1>3, <1>5, <1>6, <1>7 DEF ProductionInv

(***************************************************************************)
(* A wake-up of the loop, and the block it may make.                       *)
(***************************************************************************)
LEMMA WakeKeeps ==
  ASSUME ProductionInv, NEW n \in Nodes, NEW now \in GenesisTime .. MaxTime + 1, Wake(n, now)
  PROVE  ProductionInv'
<1>1. /\ now \in Nat /\ clock \in Nat /\ MaxTime \in Nat /\ GenesisTime \in Nat
      /\ wakeup[n] <= clock /\ GenesisTime < now
      /\ now = clock \/ (n \in Late /\ now = clock + 1)
      /\ wakeup' = [wakeup EXCEPT ![n] = clock + 1]
      /\ enabled' = [enabled EXCEPT ![n] = Synced(n, now)]
      /\ since' = [since EXCEPT ![n] = IF Synced(n, now) THEN Min({since[n], now}) ELSE since[n]]
      /\ clock' = clock
  BY ProductionAssumption DEF Wake, ProductionAssumption, ProductionInv, Typed, Loops
<1>2. Min({since[n], now}) \in {since[n], now}
  <2>1. since[n] \in Nat
    BY DEF ProductionInv, Typed
  <2>2. \E x \in {since[n], now} : \A y \in {since[n], now} : x <= y
    BY <1>1, <2>1
  <2> QED
    BY <2>2, Zenon DEF Min
<1>3. Synced(n, now) \in BOOLEAN /\ (enabled[n] => Synced(n, now))
  BY Zenon DEF ProductionInv, Enabling, Synced
<1>4. Loops'
  <2>1. \A o \in Nodes : wakeup'[o] = IF o = n THEN clock + 1 ELSE wakeup[o]
    BY <1>1 DEF ProductionInv, Typed
  <2>2. \A o \in Nodes : since'[o] \in {since[o], now} /\ (o # n => since'[o] = since[o])
    BY <1>1, <1>2 DEF ProductionInv, Typed
  <2>3. \A o \in Nodes : wakeup[o] \in Nat /\ since[o] \in Nat
    BY DEF ProductionInv, Typed
  <2>4. \A o \in Nodes : GenesisTime < wakeup'[o] /\ wakeup'[o] <= clock + 1
    BY <1>1, <2>1, <2>3 DEF ProductionInv, Loops
  <2>5. \A o \in Nodes \ Late : clock <= wakeup'[o]
    BY <1>1, <2>1, <2>3 DEF ProductionInv, Loops
  <2>6. \A o \in Nodes : GenesisTime < since'[o]
    BY <1>1, <2>2, <2>3 DEF ProductionInv, Loops
  <2> QED
    BY <1>1, <2>4, <2>5, <2>6 DEF Loops
<1>5. /\ wakeup' \in [Nodes -> Nat] /\ since' \in [Nodes -> Nat]
  BY <1>1, <1>2 DEF ProductionInv, Typed
<1>6. Enabling'
  <2>1. enabled' \in [Nodes -> BOOLEAN]
    BY <1>1, <1>3, Zenon DEF ProductionInv, Enabling
  <2>2. since \in [Nodes -> Nat] /\ enabled \in [Nodes -> BOOLEAN]
    BY DEF ProductionInv, Typed, Enabling
  <2>3. since'[n] = IF Synced(n, now) THEN Min({since[n], now}) ELSE since[n]
    BY <1>1, <2>2, Zenon
  <2>4. enabled'[n] = Synced(n, now)
    BY <1>1, <2>2, Zenon
  <2>5. \A o \in Nodes : o # n => since'[o] = since[o] /\ enabled'[o] = enabled[o]
    BY <1>1, <2>2, Zenon
  <2>6. \A o \in Nodes : ~enabled'[o] => ~enabled[o] /\ since'[o] = since[o]
    BY <1>3, <2>3, <2>4, <2>5, Zenon
  <2> QED
    BY <1>1, <2>1, <2>6, Zenon DEF ProductionInv, Enabling
<1>7. CASE ~Produces(n, now)
  <2>1. UNCHANGED <<signed, known, head>>
    BY <1>7 DEF Wake
  <2>2. Typed'
    BY <1>1, <1>5, <2>1 DEF ProductionInv, Typed
  <2>3. (\A b \in signed : Dated(b))' /\ (\A o \in Nodes : Dated(head[o]))' /\ SignsOnce'
    BY <1>1, <2>1 DEF ProductionInv, Dated, SignsOnce
  <2>4. SignedBefore'
    <3> SUFFICES ASSUME NEW o \in Nodes \ Late, NEW c \in signed,
                        MinerAt(Time(c)) \in MinersOf[o]
                 PROVE  Time(c) < wakeup'[o]
      BY <2>1 DEF SignedBefore
    <3>1. Time(c) < wakeup[o] /\ wakeup[o] \in Nat /\ Time(c) \in Nat
      BY ChainTimes DEF ProductionInv, Typed, SignedBefore
    <3>2. wakeup'[o] = IF o = n THEN clock + 1 ELSE wakeup[o]
      BY <1>1 DEF ProductionInv, Typed
    <3> QED
      BY <1>1, <3>1, <3>2
  <2> QED
    BY <1>4, <1>6, <2>2, <2>3, <2>4 DEF ProductionInv
<1>8. CASE Produces(n, now)
  <2>0. PICK b \in Chains : b = Generated(n, now)
    BY <1>1, <1>8, MadeBlock
  <2>1. signed' = signed \cup {b} /\ head' = [head EXCEPT ![n] = b]
    BY <1>8, <2>0 DEF Wake
  <2>2. /\ b = Append(head[n], now) /\ b \in Chains \ {Genesis} /\ Time(b) = now
        /\ MinerAt(now) \in MinersOf[n] /\ head[n] \in Seq(Nat)
    BY <1>1, <1>8, <2>0, MadeBlock DEF ProductionInv, Typed, Chains
  <2>3. Typed'
    BY <1>1, <1>5, <2>1, <2>2 DEF ProductionInv, Typed
  <2>4. \A c \in Chains : Dated(c) => Dated(c)'
    BY <1>1, <2>1 DEF Dated
  <2>5. Dated(b)'
    <3> SUFFICES ASSUME NEW k \in DOMAIN b
                 PROVE  b[k] <= clock' + 1 /\ \E c \in signed' : Time(c) = b[k]
      BY <1>1, <2>1 DEF Dated
    <3>1. (k \in DOMAIN head[n] /\ b[k] = head[n][k]) \/ b[k] = now
      BY <2>2
    <3>2. CASE k \in DOMAIN head[n] /\ b[k] = head[n][k]
      BY <1>1, <2>1, <3>2 DEF ProductionInv, Dated
    <3>3. CASE b[k] = now
      <4>1. b \in signed' /\ Time(b) = b[k]
        BY <2>1, <2>2, <3>3
      <4>2. b[k] <= clock' + 1
        BY <1>1, <3>3
      <4> QED
        BY <4>1, <4>2
    <3> QED
      BY <3>1, <3>2, <3>3
  <2>6. (\A c \in signed : Dated(c))'
    BY <2>1, <2>4, <2>5 DEF ProductionInv, Typed
  <2>7. (\A o \in Nodes : Dated(head[o]))'
    <3>1. \A o \in Nodes : head'[o] = IF o = n THEN b ELSE head[o]
      BY <2>1 DEF ProductionInv, Typed
    <3> QED
      BY <2>4, <2>5, <3>1 DEF ProductionInv, Typed
  <2>8. \A o \in Nodes \ Late : MinerAt(now) \in MinersOf[o] => o = n /\ now = clock
    BY <1>1, <2>2, ProductionAssumption DEF ProductionAssumption
  <2>9. SignedBefore'
    <3> SUFFICES ASSUME NEW o \in Nodes \ Late, NEW c \in signed',
                        MinerAt(Time(c)) \in MinersOf[o]
                 PROVE  Time(c) < wakeup'[o]
      BY DEF SignedBefore
    <3>1. wakeup'[o] = IF o = n THEN clock + 1 ELSE wakeup[o]
      BY <1>1 DEF ProductionInv, Typed
    <3>2. CASE c = b
      BY <1>1, <2>2, <2>8, <3>1, <3>2
    <3>3. CASE c \in signed
      <4>1. Time(c) < wakeup[o] /\ wakeup[o] \in Nat /\ Time(c) \in Nat
        BY <3>3, ChainTimes DEF ProductionInv, Typed, SignedBefore
      <4> QED
        BY <1>1, <3>1, <4>1
    <3> QED
      BY <2>1, <3>2, <3>3
  <2>10. SignsOnce'
    <3>1. ASSUME NEW c \in signed, Time(c) = Time(b), MinerAt(Time(b)) \in PunctualMiners
          PROVE  FALSE
      <4>1. PICK o \in Nodes \ Late : MinerAt(now) \in MinersOf[o]
        BY <2>2, <3>1 DEF PunctualMiners
      <4>2. o = n /\ now = clock
        BY <2>8, <4>1
      <4>3. Time(c) < wakeup[n]
        BY <2>2, <3>1, <4>1, <4>2 DEF ProductionInv, SignedBefore
      <4> QED
        BY <1>1, <2>2, <3>1, <4>2, <4>3 DEF ProductionInv, Typed
    <3> QED
      BY <2>1, <3>1 DEF ProductionInv, SignsOnce, PunctualMiners
  <2> QED
    BY <1>4, <1>6, <2>3, <2>6, <2>7, <2>9, <2>10 DEF ProductionInv
<1> QED
  BY <1>7, <1>8

(***************************************************************************)
(* A block from another node: the head becomes one that was signed, or     *)
(* stays.                                                                  *)
(***************************************************************************)
LEMMA ReceiveKeeps ==
  ASSUME ProductionInv, NEW n \in Nodes, NEW b \in signed, Receive(n, b)
  PROVE  ProductionInv'
<1>1. /\ UNCHANGED <<clock, enabled, wakeup, restarts, signed, since>>
      /\ head' = [head EXCEPT ![n] = Higher(n, b)]
      /\ Higher(n, b) \in {b, head[n]}
  BY DEF Receive, Higher
<1>2. b \in Chains /\ Dated(b) /\ head[n] \in Chains /\ head \in [Nodes -> Chains]
  BY DEF ProductionInv, Typed
<1>3. Typed'
  BY <1>1, <1>2 DEF ProductionInv, Typed
<1>4. Loops' /\ Enabling'
  BY <1>1 DEF ProductionInv, Loops, Enabling
<1>5. \A c \in Chains : Dated(c) => Dated(c)'
  BY <1>1 DEF Dated
<1>6. (\A c \in signed : Dated(c))'
  BY <1>1, <1>5 DEF ProductionInv, Typed
<1>7. (\A o \in Nodes : Dated(head[o]))'
  <2>1. \A o \in Nodes : head'[o] \in {b, head[o]}
    BY <1>1, <1>2
  <2>2. \A o \in Nodes : head'[o] \in Chains /\ Dated(head'[o])
    BY <1>2, <2>1 DEF ProductionInv
  <2> QED
    BY <1>5, <2>2
<1>8. SignedBefore' /\ SignsOnce'
  BY <1>1 DEF ProductionInv, SignedBefore, SignsOnce
<1> QED
  BY <1>3, <1>4, <1>6, <1>7, <1>8 DEF ProductionInv

(***************************************************************************)
(* A restart: the loop comes next in the second after it, so that nothing  *)
(* is signed again for the present one.                                    *)
(***************************************************************************)
LEMMA RestartKeeps ==
  ASSUME ProductionInv, NEW n \in Nodes, Restart(n)
  PROVE  ProductionInv'
<1>1. PICK b \in Seq(Nat) : b = head[n]
  BY DEF ProductionInv, Typed, Chains
<1>2. PICK k \in 0 .. Len(b) : Irreversible(b) = SubSeq(b, 1, k)
  BY IrreversiblePrefix
<1>3. /\ UNCHANGED <<clock, signed>>
      /\ head' = [head EXCEPT ![n] = SubSeq(b, 1, k)]
      /\ enabled' = [enabled EXCEPT ![n] = n \in Stale]
      /\ wakeup' = [wakeup EXCEPT ![n] = clock + 1]
      /\ since' = [since EXCEPT ![n] = IF n \in Stale THEN clock + 1 ELSE MaxTime + 1]
  BY <1>1, <1>2 DEF Restart
<1>4. clock \in Nat /\ MaxTime \in Nat /\ GenesisTime \in Nat /\ GenesisTime <= clock /\ clock <= MaxTime
  BY ProductionAssumption DEF ProductionInv, Typed, ProductionAssumption
<1>5. b \in Chains /\ Dated(b) /\ head \in [Nodes -> Chains]
  BY <1>1 DEF ProductionInv, Typed
<1>6. /\ SubSeq(b, 1, k) \in Seq(Nat)
      /\ \A i \in DOMAIN SubSeq(b, 1, k) : i \in DOMAIN b /\ SubSeq(b, 1, k)[i] = b[i]
  BY <1>1
<1>7. SubSeq(b, 1, k) \in Chains
  BY <1>5, <1>6 DEF Chains
<1>8. Typed'
  BY <1>3, <1>4, <1>7 DEF ProductionInv, Typed
<1>9. wakeup \in [Nodes -> Nat] /\ since \in [Nodes -> Nat]
  BY DEF ProductionInv, Typed
<1>10. /\ \A o \in Nodes : wakeup'[o] = IF o = n THEN clock + 1 ELSE wakeup[o]
       /\ \A o \in Nodes : o # n => since'[o] = since[o]
       /\ since'[n] \in {clock + 1, MaxTime + 1}
  <2>1. \A o \in Nodes : wakeup'[o] = IF o = n THEN clock + 1 ELSE wakeup[o]
    BY <1>3, <1>9
  <2>2. since' = [since EXCEPT ![n] = clock + 1] \/ since' = [since EXCEPT ![n] = MaxTime + 1]
    BY <1>3, Zenon
  <2>3. \A o \in Nodes : o # n => since'[o] = since[o]
    BY <1>9, <2>2
  <2>4. since'[n] \in {clock + 1, MaxTime + 1}
    BY <1>9, <2>2
  <2> QED
    BY <2>1, <2>3, <2>4
<1>11. Loops'
  <2> USE <1>4
  <2>1. ASSUME NEW o \in Nodes
        PROVE  /\ GenesisTime < wakeup'[o] /\ wakeup'[o] <= clock + 1
               /\ o \notin Late => clock <= wakeup'[o]
    <3>1. wakeup[o] \in Nat /\ wakeup'[o] \in {clock + 1, wakeup[o]}
      BY <1>9, <1>10
    <3>2. /\ GenesisTime < wakeup[o] /\ wakeup[o] <= clock + 1
          /\ o \notin Late => clock <= wakeup[o]
      BY DEF ProductionInv, Loops
    <3> QED
      BY <3>1, <3>2
  <2>2. ASSUME NEW o \in Nodes
        PROVE  GenesisTime < since'[o]
    <3>1. since[o] \in Nat /\ since'[o] \in {clock + 1, MaxTime + 1, since[o]}
      BY <1>9, <1>10
    <3>2. GenesisTime < since[o]
      BY DEF ProductionInv, Loops
    <3> QED
      BY <3>1, <3>2
  <2> QED
    BY <1>3, <2>1, <2>2 DEF Loops
<1>12. Enabling'
  <2>1. enabled \in [Nodes -> BOOLEAN]
    BY DEF ProductionInv, Enabling
  <2>2. (n \in Stale) \in BOOLEAN
    OBVIOUS
  <2>3. enabled' \in [Nodes -> BOOLEAN]
    BY <1>3, <2>1, <2>2, Zenon
  <2>4. enabled'[n] = (n \in Stale) /\ \A o \in Nodes : o # n => enabled'[o] = enabled[o]
    BY <1>3, <2>1, Zenon
  <2>5. since'[n] = IF n \in Stale THEN clock + 1 ELSE MaxTime + 1
    BY <1>3, <1>9, Zenon
  <2>6. \A o \in Nodes : ~enabled'[o] => since'[o] = MaxTime + 1
    BY <1>10, <2>4, <2>5, Zenon DEF ProductionInv, Enabling
  <2> QED
    BY <2>3, <2>6 DEF Enabling
<1>13. \A c \in Chains : Dated(c) => Dated(c)'
  BY <1>3 DEF Dated
<1>14. (\A c \in signed : Dated(c))'
  BY <1>3, <1>13 DEF ProductionInv, Typed
<1>15. (\A o \in Nodes : Dated(head[o]))'
  <2>1. Dated(SubSeq(b, 1, k))
    BY <1>5, <1>6 DEF Dated
  <2>2. \A o \in Nodes : head'[o] \in Chains /\ Dated(head'[o])
    BY <1>3, <1>5, <1>7, <2>1 DEF ProductionInv
  <2> QED
    BY <1>13, <2>2
<1>16. SignedBefore'
  <2> SUFFICES ASSUME NEW o \in Nodes \ Late, NEW c \in signed,
                      MinerAt(Time(c)) \in MinersOf[o]
               PROVE  Time(c) < wakeup'[o]
    BY <1>3 DEF SignedBefore
  <2>1. Time(c) < wakeup[o] /\ wakeup[o] \in Nat /\ Time(c) \in Nat /\ wakeup[o] <= clock + 1
    BY ChainTimes DEF ProductionInv, Typed, Loops, SignedBefore
  <2> QED
    BY <1>4, <1>10, <2>1
<1>17. SignsOnce'
  BY <1>3 DEF ProductionInv, SignsOnce
<1> QED
  BY <1>8, <1>11, <1>12, <1>14, <1>15, <1>16, <1>17 DEF ProductionInv

(***************************************************************************)
(* ProductionInv holds in every reachable state.                           *)
(***************************************************************************)
THEOREM ProductionInvariant == Spec => []ProductionInv
<1>1. ProductionInv /\ [Next]_vars => ProductionInv'
  <2> SUFFICES ASSUME ProductionInv, [Next]_vars PROVE ProductionInv'
    OBVIOUS
  <2>1. CASE Tick
    BY <2>1, TickKeeps
  <2>2. CASE \E n \in Nodes, now \in GenesisTime .. MaxTime + 1 : Wake(n, now)
    BY <2>2, WakeKeeps
  <2>3. CASE \E n \in Nodes, b \in signed : Receive(n, b)
    BY <2>3, ReceiveKeeps
  <2>4. CASE \E n \in Nodes : Restart(n)
    BY <2>4, RestartKeeps
  <2>5. CASE UNCHANGED vars
    <3>1. UNCHANGED <<clock, head, enabled, wakeup, since, signed>>
      BY <2>5 DEF vars
    <3>2. Typed' /\ Loops' /\ Enabling' /\ SignedBefore' /\ SignsOnce'
      BY <3>1 DEF ProductionInv, Typed, Loops, Enabling, SignedBefore, SignsOnce
    <3>3. (\A b \in signed : Dated(b))' /\ (\A n \in Nodes : Dated(head[n]))'
      BY <3>1 DEF ProductionInv, Dated
    <3> QED
      BY <3>2, <3>3 DEF ProductionInv
  <2> QED
    BY <2>1, <2>2, <2>3, <2>4, <2>5 DEF Next
<1> QED
  BY <1>1, ProductionInit, PTL DEF Spec

(***************************************************************************)
(* A miner whose loop wakes on time never signs two blocks for one slot,   *)
(* with any number of nodes, forks and restarts and any interval.          *)
(***************************************************************************)
THEOREM SignedOnce == Spec => []SignsOnce
<1>1. ProductionInv => SignsOnce
  BY DEF ProductionInv
<1> QED
  BY <1>1, ProductionInvariant, PTL

----------------------------------------------------------------------------
(* No slot of an enabled loop that is on time stays empty. *)

Own(n, ts) == OnGrid(ts) /\ MinerAt(ts) \in MinersOf[n]

\* The slots up to the last wake-up are filled.
FilledInv ==
  \A n \in Nodes \ Late : \A ts \in since[n] .. wakeup[n] - 1 :
     Own(n, ts) => \E b \in signed : Time(b) = ts

(***************************************************************************)
(* A wake-up that finds production enabled in a slot of its own leaves the *)
(* slot filled: the head is before it, and the block is made, or the head  *)
(* is in it.                                                               *)
(***************************************************************************)
LEMMA WakeFills ==
  ASSUME Interval > 1, ProductionInv, NEW n \in Nodes \ Late, Wake(n, clock),
         Synced(n, clock), Own(n, clock)
  PROVE  \E b \in signed' : Time(b) = clock
<1>1. clock \in Nat /\ GenesisTime < clock /\ head[n] \in Chains /\ Dated(head[n]) /\ GenesisTime \in Nat
  BY ProductionAssumption DEF ProductionAssumption, Wake, ProductionInv, Typed, Loops
<1>2. Time(head[n]) \in Nat /\ OnGrid(Time(head[n]))
  BY <1>1, ChainTimes
<1>3. CASE Time(head[n]) < clock
  <2>1. /\ SlotAt(Properties(head[n]), Parameters, clock) > 0
        /\ SlotTime(Properties(head[n]), Parameters, SlotAt(Properties(head[n]), Parameters, clock)) = clock
    BY <1>1, <1>3, ReachedSlot DEF Own
  <2>2. Scheduled(Properties(head[n]), Order, SlotAt(Properties(head[n]), Parameters, clock)) \in MinersOf[n]
    BY <1>1, <2>1, ProducedSlot DEF Own
  <2>3. Produces(n, clock)
    BY <2>1, <2>2 DEF Produces, OnTime
  <2>4. Generated(n, clock) \in signed'
    BY <2>3 DEF Wake
  <2>5. Time(Generated(n, clock)) = clock
    BY <1>1, <2>3, MadeBlock
  <2> QED
    BY <2>4, <2>5
<1>4. CASE ~(Time(head[n]) < clock)
  <2>1. head[n] # Genesis
    BY <1>1, <1>4 DEF Time
  <2>2. Len(head[n]) \in DOMAIN head[n] /\ Time(head[n]) = head[n][Len(head[n])]
    BY <1>1, <2>1, ChainTimes
  <2>3. Time(head[n]) <= clock + 1 /\ \E c \in signed : Time(c) = Time(head[n])
    BY <1>1, <2>2 DEF Dated
  <2>4. Time(head[n]) # clock + 1
    <3> SUFFICES ASSUME Time(head[n]) = clock + 1 PROVE FALSE
      OBVIOUS
    <3>1. PICK i \in Nat : clock = GenesisTime + i * Interval
      BY DEF Own, OnGrid
    <3>2. PICK j \in Nat : Time(head[n]) = GenesisTime + j * Interval
      BY <1>2 DEF OnGrid
    <3>3. clock + Interval <= clock + 1
      BY <1>1, <3>1, <3>2, GridOrder
    <3> QED
      BY <1>1, <3>3, IntervalValid
  <2>5. Time(head[n]) = clock
    BY <1>1, <1>2, <1>4, <2>3, <2>4
  <2>6. signed \subseteq signed'
    BY DEF Wake
  <2> QED
    BY <2>3, <2>5, <2>6
<1> QED
  BY <1>3, <1>4

(***************************************************************************)
(* Every step keeps FilledInv.                                             *)
(***************************************************************************)
LEMMA StepFills ==
  ASSUME Interval > 1, ProductionInv, FilledInv, [Next]_vars
  PROVE  FilledInv'
<1>1. /\ clock \in Nat /\ MaxTime \in Nat /\ clock <= MaxTime
      /\ wakeup \in [Nodes -> Nat] /\ since \in [Nodes -> Nat]
      /\ \A n \in Nodes \ Late : wakeup[n] \in {clock, clock + 1}
  BY ProductionAssumption DEF ProductionAssumption, ProductionInv, Typed, Loops
<1>2. ASSUME UNCHANGED <<wakeup, since, signed>> PROVE FilledInv'
  BY <1>2 DEF FilledInv
<1>3. ASSUME NEW m \in Nodes, NEW now \in GenesisTime .. MaxTime + 1, Wake(m, now)
      PROVE  FilledInv'
  <2> SUFFICES ASSUME NEW n \in Nodes \ Late, NEW ts \in since'[n] .. wakeup'[n] - 1, Own(n, ts)
               PROVE  \E b \in signed' : Time(b) = ts
    BY DEF FilledInv
  <2>1. /\ wakeup' = [wakeup EXCEPT ![m] = clock + 1]
        /\ since' = [since EXCEPT ![m] = IF Synced(m, now) THEN Min({since[m], now}) ELSE since[m]]
        /\ wakeup[m] <= clock
        /\ signed \subseteq signed'
    BY <1>3 DEF Wake
  <2>2. CASE n # m
    <3>1. since'[n] = since[n] /\ wakeup'[n] = wakeup[n]
      BY <1>1, <2>1, <2>2
    <3> QED
      BY <2>1, <3>1 DEF FilledInv
  <2>3. CASE n = m
    <3>1. now = clock /\ wakeup[n] = clock
      BY <1>1, <1>3, <2>1, <2>3 DEF Wake
    <3>2. Min({since[n], clock}) \in {since[n], clock}
      <4>1. \E x \in {since[n], clock} : \A y \in {since[n], clock} : x <= y
        BY <1>1
      <4> QED
        BY <4>1, Zenon DEF Min
    <3>3. since'[n] = (IF Synced(n, clock) THEN Min({since[n], clock}) ELSE since[n])
      BY <1>1, <2>1, <2>3, <3>1
    <3>4. wakeup'[n] = clock + 1
      BY <1>1, <2>1, <2>3
    <3>5. ts <= clock /\ since'[n] \in Nat /\ since'[n] <= ts /\ ts \in Nat
      BY <1>1, <3>2, <3>3, <3>4
    <3>6. CASE ts < clock
      <4>1. since'[n] = since[n]
        BY <1>1, <3>2, <3>3, <3>5, <3>6
      <4>2. ts \in since[n] .. wakeup[n] - 1
        BY <1>1, <3>1, <3>5, <3>6, <4>1
      <4> QED
        BY <2>1, <4>2 DEF FilledInv
    <3>7. CASE ts = clock
      <4>1. Synced(n, clock)
        <5> SUFFICES ASSUME ~Synced(n, clock) PROVE FALSE
          OBVIOUS
        <5>1. since[n] = MaxTime + 1
          BY Zenon DEF Synced, ProductionInv, Enabling
        <5> QED
          BY <1>1, <3>3, <3>5, <3>7, <5>1
      <4> QED
        BY <1>3, <2>3, <3>1, <3>7, <4>1, WakeFills
    <3> QED
      BY <1>1, <3>5, <3>6, <3>7
  <2> QED
    BY <2>2, <2>3
<1>4. ASSUME NEW m \in Nodes, Restart(m) PROVE FilledInv'
  <2> SUFFICES ASSUME NEW n \in Nodes \ Late, NEW ts \in since'[n] .. wakeup'[n] - 1, Own(n, ts)
               PROVE  \E b \in signed' : Time(b) = ts
    BY DEF FilledInv
  <2>1. /\ wakeup' = [wakeup EXCEPT ![m] = clock + 1] /\ signed' = signed
        /\ \/ since' = [since EXCEPT ![m] = clock + 1]
           \/ since' = [since EXCEPT ![m] = MaxTime + 1]
    BY <1>4, Zenon DEF Restart
  <2>2. n # m
    BY <1>1, <2>1
  <2>3. since'[n] = since[n] /\ wakeup'[n] = wakeup[n]
    BY <1>1, <2>1, <2>2
  <2> QED
    BY <2>1, <2>3 DEF FilledInv
<1>5. CASE UNCHANGED vars
  BY <1>2, <1>5 DEF vars
<1> QED
  BY <1>2, <1>3, <1>4, <1>5 DEF Next, Tick, Receive

(***************************************************************************)
(* With more than a second between slots, a node whose loop wakes on time  *)
(* makes a block for every slot of its miners once production is enabled.  *)
(* With an interval of one second a late miner's block of the next slot    *)
(* can come first.                                                         *)
(***************************************************************************)
THEOREM FilledSlots == Interval > 1 => (Spec => []SlotsFilled)
<1> SUFFICES ASSUME Interval > 1 PROVE Spec => []SlotsFilled
  OBVIOUS
<1>1. Init => FilledInv
  <2> SUFFICES ASSUME Init PROVE FilledInv
    OBVIOUS
  <2>1. GenesisTime \in Nat /\ MaxTime \in Nat /\ GenesisTime <= MaxTime
    BY ProductionAssumption DEF ProductionAssumption
  <2>2. \A n \in Nodes : wakeup[n] = GenesisTime + 1 /\ since[n] \in {GenesisTime + 1, MaxTime + 1}
    BY DEF Init
  <2> QED
    BY <2>1, <2>2 DEF FilledInv
<1>2. ProductionInv /\ FilledInv /\ [Next]_vars => FilledInv'
  BY StepFills
<1>3. ProductionInv /\ FilledInv => SlotsFilled
  <2> SUFFICES ASSUME ProductionInv, FilledInv, NEW n \in Nodes \ Late,
                      NEW ts \in since[n] .. clock - 1,
                      (ts - GenesisTime) % Interval = 0, MinerAt(ts) \in MinersOf[n]
               PROVE  \E b \in signed : Time(b) = ts
    BY DEF SlotsFilled
  <2>1. /\ since[n] \in Nat /\ wakeup[n] \in Nat /\ clock \in Nat /\ clock <= wakeup[n]
        /\ GenesisTime < since[n] /\ GenesisTime \in Nat
    BY IntervalValid DEF ProductionInv, Typed, Loops
  <2>2. ts \in Nat /\ ts >= GenesisTime /\ ts \in since[n] .. wakeup[n] - 1
    BY <2>1
  <2>3. Own(n, ts)
    BY <2>2, Remainder DEF Own
  <2> QED
    BY <2>2, <2>3 DEF FilledInv
<1> QED
  BY <1>1, <1>2, <1>3, ProductionInvariant, PTL DEF Spec
=============================================================================
