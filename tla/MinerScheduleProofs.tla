------------------------ MODULE MinerScheduleProofs ------------------------
(***************************************************************************)
(* For every set of parameters and every time: slots and times are inverse *)
(* of one another, and the next maintenance is ahead.  For any number of   *)
(* miners and any window: the irreversible block is confirmed, the window  *)
(* of slots is the record of the chain, and so are each last_aslot and     *)
(* total_missed; the schedule follows the active miners within a round.    *)
(***************************************************************************)
EXTENDS MinerSchedule, ObjectProofs, FiniteSetTheorems, WellFoundedInduction

----------------------------------------------------------------------------
(* The global objects. *)

(***************************************************************************)
(* validate() of the parameters gives what the divisions need.             *)
(***************************************************************************)
LEMMA ParametersValid ==
  ASSUME NEW p \in Parameters
  PROVE  IsParameters(p) /\ p.maintenance_interval \in Nat \ {0}
  BY ScheduleAssumption DEF ScheduleAssumption, IsParameters

GlobalProperties ==
  [active_miners : ActiveSets, parameters : Parameters,
   pending_parameters : Parameters \cup {NoParameters}]

\* The inductive invariant: the fields the clock of the chain is made of.
ClockInv ==
  /\ {"head_block_number", "time", "maintenance_flag", "next_maintenance_time",
      "recently_missed_count", "recent_slots_filled", "current_aslot",
      "last_irreversible_block_num"} = DOMAIN dgp
  /\ IsClock(dgp)
  /\ dgp.next_maintenance_time \in Nat
  /\ dgp.head_block_number = 0 => dgp.next_maintenance_time = 0
  /\ MaintenanceAhead
  /\ gpo \in GlobalProperties

(***************************************************************************)
(* The next maintenance that perform_chain_maintenance computes is after   *)
(* the block, within one interval, however late the block is.              *)
(***************************************************************************)
LEMMA NextMaintenanceAhead ==
  ASSUME NEW d, d.next_maintenance_time \in Nat, NEW p,
         p.maintenance_interval \in Nat \ {0},
         NEW ts \in Nat, d.next_maintenance_time <= ts, NEW num \in Nat
  PROVE  /\ NextMaintenance(d, p, ts, num) \in Nat
         /\ NextMaintenance(d, p, ts, num) - ts \in 1 .. p.maintenance_interval
<1> DEFINE mi == p.maintenance_interval
           late == ts - d.next_maintenance_time
<1>1. mi \in Nat \ {0} /\ late \in Nat
  OBVIOUS
<1>2. CASE num = 1
  <2>1. /\ ts \div mi \in Nat
        /\ (ts \div mi) * mi <= ts
        /\ ts < (ts \div mi + 1) * mi
    BY <1>1, Division
  <2>2. (ts \div mi + 1) * mi = (ts \div mi) * mi + 1 * mi
    BY <1>1, <2>1, Products
  <2>3. (ts \div mi) * mi \in Int
    BY <1>1, <2>1, Products
  <2>4. NextMaintenance(d, p, ts, num) = (ts \div mi + 1) * mi
    BY <1>2 DEF NextMaintenance
  <2> QED
    BY <1>1, <2>1, <2>2, <2>3, <2>4
<1>3. CASE num # 1
  <2>1. /\ late \div mi \in Nat
        /\ (late \div mi) * mi <= late
        /\ late < (late \div mi + 1) * mi
    BY <1>1, Division
  <2>2. (late \div mi + 1) * mi = (late \div mi) * mi + 1 * mi
    BY <1>1, <2>1, Products
  <2>3. (late \div mi) * mi \in Int
    BY <1>1, <2>1, Products
  <2>4. NextMaintenance(d, p, ts, num) = d.next_maintenance_time + (late \div mi + 1) * mi
    BY <1>3 DEF NextMaintenance
  <2> QED
    BY <1>1, <2>1, <2>2, <2>3, <2>4
<1> QED
  BY <1>2, <1>3

(***************************************************************************)
(* The clock fields after a block, whatever becomes of the others.         *)
(***************************************************************************)
LEMMA BlockMovesClock ==
  ASSUME ClockInv, NEW ts \in GenesisTime .. MaxTime, ApplyBlock(ts)
  PROVE  /\ DOMAIN dgp' = DOMAIN dgp
         /\ dgp.time < ts
         /\ dgp'.head_block_number = dgp.head_block_number + 1
         /\ dgp'.time = ts
         /\ dgp'.maintenance_flag = (dgp.next_maintenance_time <= ts)
         /\ dgp'.next_maintenance_time =
              IF dgp.next_maintenance_time <= ts
              THEN NextMaintenance(dgp, gpo'.parameters, ts, dgp.head_block_number + 1)
              ELSE dgp.next_maintenance_time
         /\ \E active \in ActiveSets :
              gpo' = IF dgp.next_maintenance_time <= ts THEN Maintained(gpo, active) ELSE gpo
  BY DEF ClockInv, ApplyBlock, UpdateGlobalDynamicData

(***************************************************************************)
(* The global properties stay well formed when the maintenance of a block  *)
(* puts new parameters into effect, or none.                               *)
(***************************************************************************)
LEMMA MaintainedProperties ==
  ASSUME gpo \in GlobalProperties, NEW active \in ActiveSets
  PROVE  Maintained(gpo, active) \in GlobalProperties
  BY DEF GlobalProperties, Maintained, UpdateActiveMiners

(***************************************************************************)
(* ClockInv is inductive.                                                  *)
(***************************************************************************)
THEOREM ClockInvariant == Spec => []ClockInv
<1>1. Init => ClockInv
  <2> SUFFICES ASSUME Init PROVE ClockInv
    OBVIOUS
  <2>1. /\ dgp = [head_block_number |-> 0, time |-> GenesisTime, current_aslot |-> 0,
                  recent_slots_filled |-> [k \in 1 .. Window |-> TRUE],
                  recently_missed_count |-> 0, maintenance_flag |-> FALSE,
                  last_irreversible_block_num |-> 0, next_maintenance_time |-> 0]
        /\ gpo \in GlobalProperties
    BY DEF Init, GlobalProperties
  <2>2. GenesisTime \in Nat
    BY ScheduleAssumption DEF ScheduleAssumption
  <2>3. DOMAIN dgp = {"head_block_number", "time", "maintenance_flag",
                      "next_maintenance_time", "recently_missed_count",
                      "recent_slots_filled", "current_aslot",
                      "last_irreversible_block_num"}
    BY <2>1
  <2>4. /\ dgp.head_block_number = 0 /\ dgp.time = GenesisTime
        /\ dgp.maintenance_flag = FALSE /\ dgp.next_maintenance_time = 0
    BY <2>1
  <2> QED
    BY <2>1, <2>2, <2>3, <2>4 DEF ClockInv, IsClock, MaintenanceAhead
<1>2. ClockInv /\ [Next]_vars => ClockInv'
  <2> SUFFICES ASSUME ClockInv, [Next]_vars PROVE ClockInv'
    OBVIOUS
  <2>1. ASSUME NEW p \in Parameters, UpdateGlobalParameters(p) PROVE ClockInv'
    <3>1. gpo' \in GlobalProperties /\ gpo'.parameters = gpo.parameters /\ dgp' = dgp
      BY <2>1 DEF ClockInv, GlobalProperties, UpdateGlobalParameters
    <3> QED
      BY <3>1 DEF ClockInv, IsClock, MaintenanceAhead
  <2>2. ASSUME NEW ts \in GenesisTime .. MaxTime, ApplyBlock(ts) PROVE ClockInv'
    <3>1. ts \in Nat /\ dgp.head_block_number \in Nat /\ dgp.next_maintenance_time \in Nat
      BY ScheduleAssumption DEF ScheduleAssumption, ClockInv, IsClock
    <3>2. gpo' \in GlobalProperties
      BY <2>2, BlockMovesClock, MaintainedProperties DEF ClockInv
    <3>3. gpo'.parameters.maintenance_interval \in Nat \ {0}
      BY <3>2, ParametersValid DEF GlobalProperties
    <3>4. IsClock(dgp)'
      <4>1. dgp'.head_block_number \in Nat /\ dgp'.time \in Nat
        BY <2>2, <3>1, BlockMovesClock
      <4>2. dgp'.maintenance_flag \in BOOLEAN
        <5>1. dgp'.maintenance_flag = (dgp.next_maintenance_time <= ts)
          BY <2>2, BlockMovesClock
        <5>2. (dgp.next_maintenance_time <= ts) \in BOOLEAN
          BY <3>1
        <5> QED
          BY <5>1, <5>2, Zenon
      <4> QED
        BY <4>1, <4>2 DEF IsClock
    <3>5. CASE dgp.next_maintenance_time <= ts
      <4>1. /\ dgp'.next_maintenance_time \in Nat
            /\ dgp'.next_maintenance_time - ts \in 1 .. gpo'.parameters.maintenance_interval
        BY <2>2, <3>1, <3>3, <3>5, BlockMovesClock, NextMaintenanceAhead
      <4> QED
        BY <2>2, <3>1, <3>2, <3>4, <4>1, BlockMovesClock DEF ClockInv, MaintenanceAhead
    <3>6. CASE ~(dgp.next_maintenance_time <= ts)
      <4>1. /\ dgp'.next_maintenance_time = dgp.next_maintenance_time
            /\ gpo' = gpo /\ dgp.time < ts /\ dgp'.time = ts
        BY <2>2, <3>6, BlockMovesClock
      <4>2. dgp.head_block_number > 0
        BY <3>1, <3>6 DEF ClockInv
      <4>3. dgp'.next_maintenance_time - ts \in 1 .. gpo'.parameters.maintenance_interval
        BY <3>1, <3>3, <3>6, <4>1, <4>2 DEF ClockInv, MaintenanceAhead, IsClock
      <4> QED
        BY <2>2, <3>1, <3>2, <3>4, <4>1, <4>3, BlockMovesClock DEF ClockInv, MaintenanceAhead
    <3> QED
      BY <3>5, <3>6
  <2>3. CASE UNCHANGED vars
    BY <2>3 DEF ClockInv, IsClock, MaintenanceAhead, vars
  <2> QED
    BY <2>1, <2>2, <2>3 DEF Next
<1> QED
  BY <1>1, <1>2, PTL DEF Spec

(***************************************************************************)
(* The assertion of process_budget never fails: after every block the next *)
(* maintenance is ahead, by no more than an interval.                      *)
(***************************************************************************)
THEOREM MaintenanceIsAhead == Spec => []MaintenanceAhead
<1>1. ClockInv => MaintenanceAhead
  BY DEF ClockInv
<1> QED
  BY <1>1, ClockInvariant, PTL

(***************************************************************************)
(* In every reachable state get_slot_at_time returns the greatest slot     *)
(* that get_slot_time puts at or before the time.                          *)
(***************************************************************************)
THEOREM SlotsAreInverted == Spec => []SlotsInverted
<1>1. ClockInv => SlotsInverted
  <2> SUFFICES ASSUME ClockInv, NEW when \in GenesisTime .. MaxTime
               PROVE  SlotAt(dgp, gpo.parameters, when) =
                        Max({0} \cup {n \in 1 .. MaxTime : SlotTime(dgp, gpo.parameters, n) <= when})
    BY DEF SlotsInverted
  <2> DEFINE p == gpo.parameters
             fits == {n \in 1 .. MaxTime : SlotTime(dgp, p, n) <= when}
             slot == SlotAt(dgp, p, when)
  <2>1. when \in Nat /\ MaxTime \in Nat
    BY ScheduleAssumption DEF ScheduleAssumption
  <2>2. IsClock(dgp) /\ IsParameters(p)
    BY ParametersValid DEF ClockInv, GlobalProperties
  <2>3. slot \in Nat /\ slot <= when
    BY <2>1, <2>2, SlotAtInverse, SlotsBounded
  <2>4. \A n \in Nat \ {0} : SlotTime(dgp, p, n) <= when <=> n <= slot
    BY <2>1, <2>2, SlotAtInverse
  <2>5. slot \in {0} \cup fits
    BY <2>1, <2>3, <2>4
  <2>6. \A n \in {0} \cup fits : n <= slot
    BY <2>1, <2>3, <2>4
  <2>7. {0} \cup fits \in SUBSET Int
    BY <2>1
  <2> QED
    BY <2>5, <2>6, <2>7, MaxIs
<1> QED
  BY <1>1, ClockInvariant, PTL

----------------------------------------------------------------------------
(* Least and greatest numbers. *)

(***************************************************************************)
(* Some numbers have a least one: the miner that confirmed least above a   *)
(* block.                                                                  *)
(***************************************************************************)
LEMMA Least ==
  ASSUME NEW S \in SUBSET Nat, S # {}
  PROVE  \E x \in S : \A y \in S : x <= y
<1>1. PICK x \in S : \A y \in S : ~(<<y, x>> \in OpToRel(<, Nat))
  BY NatLessThanWellFounded, WFMin
<1>2. \A y \in S : ~(y < x)
  BY <1>1 DEF OpToRel
<1> QED
  BY <1>2

(***************************************************************************)
(* Numbers up to a bound have a greatest one, and Max is it: the miners'   *)
(* last blocks and the blocks that enough of them confirmed.               *)
(***************************************************************************)
LEMMA Greatest ==
  ASSUME NEW N \in Nat, NEW S \in SUBSET (0 .. N), S # {}
  PROVE  Max(S) \in S /\ \A y \in S : y <= Max(S)
<1> DEFINE T == {N - k : k \in S}
<1>1. T \in SUBSET Nat /\ T # {}
  OBVIOUS
<1>2. PICK t \in T : \A u \in T : t <= u
  BY <1>1, Least
<1>3. PICK x \in S : t = N - x
  BY <1>2
<1>4. \A y \in S : N - y \in T
  OBVIOUS
<1>5. ASSUME NEW y \in S PROVE y <= x
  <2>1. t <= N - y /\ x \in Nat /\ y \in Nat
    BY <1>2, <1>4
  <2> QED
    BY <1>3, <2>1
<1>6. Max(S) = x
  BY <1>3, <1>5, MaxIs
<1> QED
  BY <1>3, <1>5, <1>6

----------------------------------------------------------------------------
(* update_last_irreversible_block. *)

(***************************************************************************)
(* Those below a number and those at or above it are all of them.          *)
(***************************************************************************)
LEMMA Complement ==
  ASSUME NEW A, IsFiniteSet(A), NEW f \in [A -> Nat], NEW n \in Nat
  PROVE  /\ Cardinality({m \in A : f[m] < n}) \in Nat
         /\ Cardinality({m \in A : f[m] >= n}) =
              Cardinality(A) - Cardinality({m \in A : f[m] < n})
<1> DEFINE L == {m \in A : f[m] < n}
           U == {m \in A : f[m] >= n}
<1>1. IsFiniteSet(L) /\ IsFiniteSet(U)
  BY FS_Subset
<1>2. L \cup U = A /\ L \cap U = {}
  OBVIOUS
<1>3. Cardinality(L \cup U) = Cardinality(L) + Cardinality(U) - Cardinality(L \cap U)
  BY <1>1, FS_Union
<1>4. Cardinality(L) \in Nat /\ Cardinality(U) \in Nat /\ Cardinality({}) = 0
  BY <1>1, FS_CardinalityType, FS_EmptySet
<1>5. Cardinality(A) = Cardinality(L) + Cardinality(U) - 0
  BY <1>2, <1>3, <1>4
<1> HIDE DEF L, U
<1>6. Cardinality(U) = Cardinality(A) - Cardinality(L)
  BY <1>4, <1>5
<1> QED
  BY <1>4, <1>6 DEF L, U

\* The blocks up to N that enough of the miners A have a block at or after.
ConfirmedUpTo(N, A, tbl) ==
  {n \in 1 .. N : 100 * Cardinality({m \in A : tbl[m].last_confirmed_block_num >= n})
                    >= IrreversibleThreshold * Cardinality(A)}

(***************************************************************************)
(* The element that nth_element finds at the offset is the highest block   *)
(* that at least 70 percent of the active miners have a block at or after, *)
(* whatever the rounding of the offset.                                    *)
(***************************************************************************)
LEMMA NthElementIsConfirmed ==
  ASSUME NEW N \in Nat, NEW A, IsFiniteSet(A), A # {},
         NEW tbl, \A m \in A : tbl[m].last_confirmed_block_num \in 0 .. N,
         NEW d, d.last_irreversible_block_num \in 0 .. N
  PROVE  /\ LastIrreversible(d, A, tbl) \in 0 .. N
         /\ LastIrreversible(d, A, tbl) =
              Max({d.last_irreversible_block_num} \cup ConfirmedUpTo(N, A, tbl))
<1> DEFINE f == [m \in A |-> tbl[m].last_confirmed_block_num]
           c == Cardinality(A)
           offset == (30 * c) \div 100
           below(n) == Cardinality({m \in A : f[m] < n})
           old == d.last_irreversible_block_num
           S == {old} \cup {n \in {f[m] : m \in A} : below(n) <= offset}
           C == {n \in 1 .. N : 100 * Cardinality({m \in A : f[m] >= n}) >= 70 * c}
           T == {old} \cup C
<1>1. f \in [A -> Nat] /\ \A m \in A : f[m] \in 0 .. N
  OBVIOUS
<1>2. c \in Nat \ {0}
  BY FS_CardinalityType, FS_EmptySet
<1>3. offset \in Nat /\ offset * 100 <= 30 * c /\ 30 * c < (offset + 1) * 100
  <2> HIDE DEF c
  <2>1. 30 * c \in Nat /\ 100 \in Nat \ {0}
    BY <1>2
  <2> QED
    BY <2>1, Division
<1>4. LastIrreversible(d, A, tbl) = Max(S)
  <2>1. {f[m] : m \in A} = {tbl[m].last_confirmed_block_num : m \in A}
    OBVIOUS
  <2>2. \A n : {m \in A : f[m] < n} = {m \in A : tbl[m].last_confirmed_block_num < n}
    OBVIOUS
  <2>3. ((100 - IrreversibleThreshold) * Cardinality(A)) \div 100 = offset
    BY DEF IrreversibleThreshold
  <2> HIDE DEF f, offset
  <2> QED
    BY <2>1, <2>2, <2>3 DEF LastIrreversible
<1>5. ConfirmedUpTo(N, A, tbl) = C
  <2>1. \A n : {m \in A : f[m] >= n} = {m \in A : tbl[m].last_confirmed_block_num >= n}
    OBVIOUS
  <2> HIDE DEF f
  <2> QED
    BY <2>1 DEF IrreversibleThreshold, ConfirmedUpTo
<1> HIDE DEF f
<1>6. \A n \in Nat : /\ below(n) \in Nat
                     /\ 100 * Cardinality({m \in A : f[m] >= n}) >= 70 * c <=> below(n) <= offset
  <2> SUFFICES ASSUME NEW n \in Nat
               PROVE  /\ below(n) \in Nat
                      /\ 100 * Cardinality({m \in A : f[m] >= n}) >= 70 * c <=> below(n) <= offset
    OBVIOUS
  <2>1. below(n) \in Nat /\ Cardinality({m \in A : f[m] >= n}) = c - below(n)
    BY <1>1, Complement
  <2> HIDE DEF c, offset, below
  <2> QED
    BY <1>2, <1>3, <2>1
<1>7. /\ \A n : n \in S <=> n = old \/ (n \in {f[m] : m \in A} /\ below(n) <= offset)
      /\ \A n : n \in T <=> n = old \/ (n \in 1 .. N /\ below(n) <= offset)
  BY <1>6
<1>8. S \in SUBSET (0 .. N) /\ S # {} /\ T \in SUBSET (0 .. N) /\ T # {}
  BY <1>1
<1>9. PICK s \in S : s = Max(S) /\ \A n \in S : n <= s
  BY <1>8, Greatest
<1>10. PICK t \in T : t = Max(T) /\ \A n \in T : n <= t
  BY <1>8, Greatest
<1>11. /\ s \in 0 .. N /\ t \in 0 .. N /\ old \in 0 .. N
       /\ old <= s /\ old <= t
  BY <1>8, <1>9, <1>10
<1>12. s <= t
  <2> HIDE DEF S, T, C, below, offset
  <2>1. CASE s = 0 \/ s = old
    BY <2>1, <1>11
  <2>2. CASE s # 0 /\ s # old
    <3>1. s \in 1 .. N /\ below(s) <= offset
      BY <2>2, <1>7, <1>9, <1>11
    <3> QED
      BY <3>1, <1>7, <1>10
  <2> QED
    BY <2>1, <2>2
<1>13. t <= s
  <2>1. CASE t = old
    BY <2>1, <1>11
  <2>2. CASE t # old
    <3> DEFINE U == {m \in A : f[m] >= t}
    <3>1. t \in 1 .. N /\ below(t) <= offset /\ t \in Nat
      <4> HIDE DEF S, T, C, below, offset
      <4> QED
        BY <2>2, <1>7, <1>10, <1>11
    <3>2. U # {}
      <4> SUFFICES ASSUME U = {} PROVE FALSE
        OBVIOUS
      <4>1. 100 * Cardinality(U) >= 70 * c
        BY <3>1, <1>6
      <4>2. Cardinality(U) = 0
        BY FS_EmptySet
      <4> HIDE DEF U, c
      <4> QED
        BY <4>1, <4>2, <1>2
    <3>3. PICK v \in {f[m] : m \in U} : \A w \in {f[m] : m \in U} : v <= w
      <4>1. {f[m] : m \in U} \in SUBSET Nat /\ {f[m] : m \in U} # {}
        BY <1>1, <3>2, ZenonT(30)
      <4> HIDE DEF U
      <4> QED
        BY <4>1, Least
    <3>4. v \in Nat /\ v >= t /\ v \in {f[m] : m \in A}
      BY <1>1, <3>1, <3>3
    <3>5. ASSUME NEW m \in A
          PROVE  f[m] < v <=> f[m] < t
      <4>1. f[m] \in Nat /\ (f[m] >= t => v <= f[m])
        BY <1>1, <3>3
      <4> QED
        BY <3>1, <3>4, <4>1
    <3>6. {m \in A : f[m] < v} = {m \in A : f[m] < t}
      BY <3>5
    <3>7. below(v) <= offset
      BY <3>1, <3>6
    <3>8. v <= s
      <4>1. v \in S
        BY <3>4, <3>7, <1>7
      <4> QED
        BY <4>1, <1>9
    <3> QED
      BY <3>1, <3>4, <3>8, <1>11
  <2> QED
    BY <2>1, <2>2
<1>14. Max(S) = Max(T) /\ Max(S) \in 0 .. N
  <2> HIDE DEF S, T
  <2> QED
    BY <1>9, <1>10, <1>11, <1>12, <1>13
<1> QED
  BY <1>4, <1>5, <1>14

----------------------------------------------------------------------------
(* The fields that are kept in step with the chain. *)

Fields == {"head_block_number", "time", "maintenance_flag", "next_maintenance_time",
           "recently_missed_count", "recent_slots_filled", "current_aslot",
           "last_irreversible_block_num"}

\* The slots of the blocks are those up to current_aslot, which is the last one.
SlotsOfChain ==
  /\ \E S : chain \in Seq(S)
  /\ dgp.current_aslot \in Nat
  /\ \A n \in DOMAIN chain : chain[n].aslot \in 1 .. dgp.current_aslot
  /\ dgp.current_aslot = IF chain = <<>> THEN 0 ELSE chain[Len(chain)].aslot

\* No miner has a block above the head, and nothing above it is irreversible.
Numbers ==
  /\ dgp.head_block_number = Len(chain)
  /\ dgp.last_irreversible_block_num \in 0 .. Len(chain)
  /\ \A m \in Miners : miner[m].last_confirmed_block_num \in 0 .. Len(chain)

HistoryInv ==
  /\ SlotsOfChain
  /\ Numbers
  /\ dgp.recent_slots_filled \in [1 .. Window -> BOOLEAN]
  /\ WindowEndsBeforeHead
  /\ LastSlotsExact

(***************************************************************************)
(* No block yet: no slot is behind genesis, and all count as filled.       *)
(***************************************************************************)
LEMMA HistoryInit == Init => HistoryInv
<1> SUFFICES ASSUME Init PROVE HistoryInv
  OBVIOUS
<1>1. /\ chain = <<>>
      /\ dgp.head_block_number = 0 /\ dgp.current_aslot = 0
      /\ dgp.last_irreversible_block_num = 0
      /\ dgp.recent_slots_filled = [k \in 1 .. Window |-> TRUE]
      /\ \A m \in Miners : miner[m].last_aslot = 0 /\ miner[m].last_confirmed_block_num = 0
  BY DEF Init
<1>2. SlotsOfChain /\ Numbers
  BY <1>1 DEF SlotsOfChain, Numbers
<1>3. dgp.recent_slots_filled \in [1 .. Window -> BOOLEAN]
  BY <1>1, Zenon
<1>4. WindowEndsBeforeHead
  <2>1. \A k \in 1 .. Window : dgp.current_aslot - k <= 0
    BY <1>1, ScheduleAssumption DEF ScheduleAssumption
  <2>2. \A k \in 1 .. Window : dgp.recent_slots_filled[k]
    BY <1>1
  <2> QED
    BY <2>1, <2>2 DEF WindowEndsBeforeHead
<1>5. LastSlotsExact
  <2>1. ASSUME NEW m \in Miners
        PROVE  miner[m].last_aslot = Max({0} \cup {chain[n].aslot : n \in BlocksOf(m)})
    <3>1. {0} \cup {chain[n].aslot : n \in BlocksOf(m)} = {0}
      BY <1>1 DEF BlocksOf
    <3>2. Max({0}) = 0
      BY MaxIs
    <3> QED
      BY <1>1, <3>1, <3>2
  <2> QED
    BY <2>1 DEF LastSlotsExact
<1> QED
  BY <1>2, <1>3, <1>4, <1>5 DEF HistoryInv

\* The slots that a block stamped ts skips, its miner, and its slot since genesis.
Missed(ts)   == SlotAt(dgp, gpo.parameters, ts) - 1
Signer(ts)   == Scheduled(dgp, order, SlotAt(dgp, gpo.parameters, ts))
NewSlot(ts)  == dgp.current_aslot + Missed(ts) + 1
DgpAfter(ts) == UpdateGlobalDynamicData(dgp, gpo.parameters, ts)

(***************************************************************************)
(* update_signing_miner finds slot 0 for the time of the head, which the   *)
(* block is by then, so that the slot of the block is current_aslot.       *)
(***************************************************************************)
LEMMA SigningSlot ==
  ASSUME ClockInv, HistoryInv, NEW ts \in GenesisTime .. MaxTime, ApplyBlock(ts)
  PROVE  /\ Missed(ts) \in Nat
         /\ SigningAslot(DgpAfter(ts), gpo.parameters, ts) = NewSlot(ts)
<1> DEFINE d == DgpAfter(ts)
           p == gpo.parameters
           slot == SlotAt(dgp, p, ts)
<1>1. ts \in Nat
  BY ScheduleAssumption DEF ScheduleAssumption
<1>2. IsClock(dgp) /\ IsParameters(p)
  BY ParametersValid DEF ClockInv, GlobalProperties
<1>3. slot \in Nat /\ slot > 0
  BY <1>1, <1>2, SlotAtInverse DEF ApplyBlock
<1>4. /\ d.head_block_number = dgp.head_block_number + 1 /\ d.time = ts
      /\ d.maintenance_flag = dgp.maintenance_flag
      /\ d.current_aslot = dgp.current_aslot + (slot - 1) + 1
  BY DEF DgpAfter, UpdateGlobalDynamicData, ClockInv
<1>5. IsClock(d)
  BY <1>1, <1>2, <1>4 DEF IsClock
<1>6. ts < SlotTime(d, p, 1)
  BY <1>2, <1>4, <1>5, SlotTimes
<1>7. SlotAt(d, p, ts) = 0
  BY <1>6 DEF SlotAt
<1>8. SigningAslot(d, p, ts) = dgp.current_aslot + slot
  BY <1>3, <1>4, <1>7 DEF SigningAslot, HistoryInv, SlotsOfChain
<1> QED
  BY <1>3, <1>8 DEF Missed, NewSlot, HistoryInv, SlotsOfChain

(***************************************************************************)
(* What _apply_block leaves in the fields that the history is about.       *)
(***************************************************************************)
LEMMA BlockMovesHistory ==
  ASSUME ClockInv, HistoryInv, NEW ts \in GenesisTime .. MaxTime, ApplyBlock(ts)
  PROVE  /\ dgp'.current_aslot = NewSlot(ts)
         /\ dgp'.recent_slots_filled = FillWindow(dgp.recent_slots_filled, Missed(ts))
         /\ dgp'.head_block_number = Len(chain) + 1
         /\ chain' = Append(chain, [aslot |-> NewSlot(ts), miner |-> Signer(ts),
                                    order |-> order, active |-> gpo'.active_miners])
         /\ \A m \in Miners :
              /\ miner'[m].last_aslot = IF m = Signer(ts) THEN NewSlot(ts) ELSE miner[m].last_aslot
              /\ miner'[m].last_confirmed_block_num =
                   IF m = Signer(ts) THEN Len(chain) + 1 ELSE miner[m].last_confirmed_block_num
         /\ DgpAfter(ts).last_irreversible_block_num = dgp.last_irreversible_block_num
         /\ dgp'.last_irreversible_block_num = LastIrreversible(DgpAfter(ts), gpo.active_miners, miner')
<1> DEFINE d == DgpAfter(ts)
<1>1. /\ DOMAIN d = DOMAIN dgp
      /\ d.current_aslot = NewSlot(ts)
      /\ d.recent_slots_filled = FillWindow(dgp.recent_slots_filled, Missed(ts))
      /\ d.head_block_number = Len(chain) + 1
      /\ d.last_irreversible_block_num = dgp.last_irreversible_block_num
  BY DEF DgpAfter, UpdateGlobalDynamicData, NewSlot, Missed, ClockInv, HistoryInv, Numbers
<1>2. \E irreversible, next, flag :
        /\ dgp' = [d EXCEPT !.last_irreversible_block_num = irreversible,
                            !.next_maintenance_time = next, !.maintenance_flag = flag]
        /\ irreversible = LastIrreversible(d, gpo.active_miners, miner')
  BY Zenon DEF ApplyBlock, DgpAfter
<1>3. /\ dgp'.current_aslot = d.current_aslot
      /\ dgp'.recent_slots_filled = d.recent_slots_filled
      /\ dgp'.head_block_number = d.head_block_number
      /\ dgp'.last_irreversible_block_num = LastIrreversible(d, gpo.active_miners, miner')
  BY <1>1, <1>2 DEF ClockInv
<1>4. chain' = Append(chain, [aslot |-> dgp'.current_aslot, miner |-> Signer(ts),
                              order |-> order, active |-> gpo'.active_miners])
  BY Zenon DEF ApplyBlock, Signer
<1>5. ASSUME NEW m \in Miners
      PROVE  /\ miner'[m].last_aslot =
                  IF m = Signer(ts) THEN SigningAslot(d, gpo.parameters, ts) ELSE miner[m].last_aslot
             /\ miner'[m].last_confirmed_block_num =
                  IF m = Signer(ts) THEN d.head_block_number ELSE miner[m].last_confirmed_block_num
  BY DEF ApplyBlock, Signer, DgpAfter
<1> QED
  BY <1>1, <1>3, <1>4, <1>5, SigningSlot

(***************************************************************************)
(* The active miners are finitely many, and there is one.                  *)
(***************************************************************************)
LEMMA ActiveMiners ==
  ASSUME ClockInv
  PROVE  IsFiniteSet(gpo.active_miners) /\ gpo.active_miners # {} /\ gpo.active_miners \subseteq Miners
<1>1. gpo.active_miners \in ActiveSets
  BY DEF ClockInv, GlobalProperties
<1>2. gpo.active_miners \in SUBSET Miners /\ gpo.active_miners # {} /\ IsFiniteSet(Miners)
  BY <1>1, ScheduleAssumption DEF ScheduleAssumption
<1> QED
  BY <1>2, FS_Subset

(***************************************************************************)
(* The history grows by the block, whose slot is after all others.         *)
(***************************************************************************)
LEMMA ChainGrows ==
  ASSUME ClockInv, HistoryInv, NEW ts \in GenesisTime .. MaxTime, ApplyBlock(ts)
  PROVE  /\ NewSlot(ts) \in Nat /\ dgp.current_aslot < NewSlot(ts)
         /\ Len(chain) \in Nat /\ Len(chain') = Len(chain) + 1
         /\ DOMAIN chain = 1 .. Len(chain) /\ DOMAIN chain' = 1 .. Len(chain) + 1
         /\ \A n \in DOMAIN chain : chain'[n] = chain[n]
         /\ chain'[Len(chain) + 1].aslot = NewSlot(ts)
         /\ chain'[Len(chain) + 1].miner = Signer(ts)
         /\ SlotsOfChain'
<1> DEFINE block == [aslot |-> NewSlot(ts), miner |-> Signer(ts),
                     order |-> order, active |-> gpo'.active_miners]
<1>1. chain' = Append(chain, block) /\ dgp'.current_aslot = NewSlot(ts)
  BY BlockMovesHistory
<1>2. block.aslot = NewSlot(ts) /\ block.miner = Signer(ts)
  OBVIOUS
<1> HIDE DEF block
<1>3. PICK S : chain \in Seq(S)
  BY DEF HistoryInv, SlotsOfChain
<1>4. NewSlot(ts) \in Nat /\ dgp.current_aslot < NewSlot(ts)
  BY SigningSlot DEF NewSlot, HistoryInv, SlotsOfChain
<1>5. /\ Len(chain) \in Nat /\ DOMAIN chain = 1 .. Len(chain)
      /\ chain' \in Seq(S \cup {block}) /\ Len(chain') = Len(chain) + 1
      /\ \A n \in DOMAIN chain : chain'[n] = chain[n]
      /\ chain'[Len(chain) + 1] = block
  BY <1>1, <1>3
<1>6. DOMAIN chain' = 1 .. Len(chain) + 1
  BY <1>5
<1>7. \A n \in DOMAIN chain' : chain'[n].aslot \in 1 .. dgp'.current_aslot
  <2>1. ASSUME NEW n \in DOMAIN chain' PROVE chain'[n].aslot \in 1 .. dgp'.current_aslot
    <3>1. CASE n \in DOMAIN chain
      <4>1. chain[n].aslot \in 1 .. dgp.current_aslot /\ dgp.current_aslot \in Nat
        BY <3>1 DEF HistoryInv, SlotsOfChain
      <4> QED
        BY <1>1, <1>4, <1>5, <3>1, <4>1
    <3>2. CASE n = Len(chain) + 1
      <4>1. dgp.current_aslot \in Nat
        BY DEF HistoryInv, SlotsOfChain
      <4> QED
        BY <1>1, <1>2, <1>4, <1>5, <3>2, <4>1
    <3> QED
      BY <1>5, <1>6, <3>1, <3>2
  <2> QED
    BY <2>1
<1>8. SlotsOfChain'
  BY <1>1, <1>2, <1>4, <1>5, <1>7 DEF SlotsOfChain
<1> QED
  BY <1>2, <1>4, <1>5, <1>6, <1>8

(***************************************************************************)
(* Numbers stay below the head: that of the signer is the head's.          *)
(***************************************************************************)
LEMMA NumbersKept ==
  ASSUME ClockInv, HistoryInv, NEW ts \in GenesisTime .. MaxTime, ApplyBlock(ts)
  PROVE  /\ Numbers'
         /\ dgp'.last_irreversible_block_num =
              Max({dgp.last_irreversible_block_num} \cup
                  {n \in 1 .. dgp'.head_block_number : Confirmed(n)})
<1>1. Len(chain) \in Nat /\ Len(chain') = Len(chain) + 1 /\ dgp'.head_block_number = Len(chain) + 1
  BY ChainGrows, BlockMovesHistory
<1>2. ASSUME NEW m \in Miners PROVE miner'[m].last_confirmed_block_num \in 0 .. Len(chain) + 1
  <2>1. miner[m].last_confirmed_block_num \in 0 .. Len(chain)
    BY DEF HistoryInv, Numbers
  <2>2. miner'[m].last_confirmed_block_num \in {Len(chain) + 1, miner[m].last_confirmed_block_num}
    BY BlockMovesHistory
  <2> QED
    BY <1>1, <2>1, <2>2
<1>3. DgpAfter(ts).last_irreversible_block_num = dgp.last_irreversible_block_num
  BY BlockMovesHistory
<1>4. DgpAfter(ts).last_irreversible_block_num \in 0 .. Len(chain) + 1
  BY <1>1, <1>3 DEF HistoryInv, Numbers
<1>5. \A m \in gpo.active_miners : miner'[m].last_confirmed_block_num \in 0 .. Len(chain) + 1
  BY <1>2, ActiveMiners
<1>6. /\ LastIrreversible(DgpAfter(ts), gpo.active_miners, miner') \in 0 .. Len(chain) + 1
      /\ LastIrreversible(DgpAfter(ts), gpo.active_miners, miner') =
           Max({DgpAfter(ts).last_irreversible_block_num} \cup
               ConfirmedUpTo(Len(chain) + 1, gpo.active_miners, miner'))
  <2>1. Len(chain) + 1 \in Nat
    BY <1>1
  <2> QED
    BY <1>4, <1>5, <2>1, ActiveMiners, NthElementIsConfirmed
<1>7. dgp'.last_irreversible_block_num = LastIrreversible(DgpAfter(ts), gpo.active_miners, miner')
  BY BlockMovesHistory
<1>8. Numbers'
  BY <1>1, <1>2, <1>6, <1>7 DEF Numbers
<1> QED
  BY <1>1, <1>3, <1>6, <1>7, <1>8 DEF Confirmed, ConfirmedUpTo

(***************************************************************************)
(* The block shifts its skipped slots in, and the slot of the block before *)
(* it, which is where current_aslot was: the record moves on with the      *)
(* chain.                                                                  *)
(***************************************************************************)
LEMMA WindowKept ==
  ASSUME ClockInv, HistoryInv, NEW ts \in GenesisTime .. MaxTime, ApplyBlock(ts)
  PROVE  /\ dgp'.recent_slots_filled \in [1 .. Window -> BOOLEAN]
         /\ WindowEndsBeforeHead'
<1> DEFINE filled == dgp.recent_slots_filled
           missed == Missed(ts)
           before == dgp.current_aslot
<1>1. /\ missed \in Nat /\ before \in Nat /\ NewSlot(ts) = before + missed + 1
      /\ Window \in Nat /\ filled \in [1 .. Window -> BOOLEAN]
  BY SigningSlot, ScheduleAssumption DEF NewSlot, HistoryInv, SlotsOfChain, ScheduleAssumption
<1>2. dgp'.current_aslot = before + missed + 1
  BY <1>1, BlockMovesHistory
<1>3. ASSUME NEW k \in 1 .. Window
      PROVE  dgp'.recent_slots_filled[k] = IF k <= missed + 1 THEN k = missed + 1
                                           ELSE filled[k - missed - 1]
  BY BlockMovesHistory DEF FillWindow
<1>4. dgp'.recent_slots_filled \in [1 .. Window -> BOOLEAN]
  <2>1. ASSUME NEW k \in 1 .. Window
        PROVE  (IF k <= missed + 1 THEN k = missed + 1 ELSE filled[k - missed - 1]) \in BOOLEAN
    <3>1. CASE k <= missed + 1
      BY <3>1
    <3>2. CASE ~(k <= missed + 1)
      <4>1. k - missed - 1 \in 1 .. Window
        BY <1>1, <3>2
      <4> HIDE DEF filled, missed
      <4> QED
        BY <1>1, <3>2, <4>1, Zenon
    <3> QED
      BY <3>1, <3>2
  <2> HIDE DEF filled, missed
  <2>2. dgp'.recent_slots_filled =
          [k \in 1 .. Window |-> IF k <= missed + 1 THEN k = missed + 1 ELSE filled[k - missed - 1]]
    BY BlockMovesHistory, Zenon DEF FillWindow, filled, missed
  <2> QED
    BY <2>1, <2>2, Zenon
\* A slot before the block's has a block iff it had one before.
<1>5. ASSUME NEW s \in Int, s < before + missed + 1
      PROVE  (\E n \in DOMAIN chain' : chain'[n].aslot = s)
                <=> (\E n \in DOMAIN chain : chain[n].aslot = s)
  BY <1>1, <1>5, ChainGrows, SMTT(20)
<1>6. ASSUME NEW s \in Int, before < s
      PROVE  ~(\E n \in DOMAIN chain : chain[n].aslot = s)
  <2>1. \A n \in DOMAIN chain : chain[n].aslot \in 1 .. before
    BY DEF HistoryInv, SlotsOfChain
  <2> QED
    BY <1>1, <1>6, <2>1
<1>7. before > 0 => \E n \in DOMAIN chain : chain[n].aslot = before
  <2>1. CASE chain = <<>>
    BY <2>1 DEF HistoryInv, SlotsOfChain
  <2>2. CASE chain # <<>>
    <3>1. before = chain[Len(chain)].aslot
      BY <2>2 DEF HistoryInv, SlotsOfChain
    <3>2. Len(chain) \in DOMAIN chain
      <4>1. PICK S : chain \in Seq(S)
        BY DEF HistoryInv, SlotsOfChain
      <4> QED
        BY <2>2, <4>1
    <3> QED
      BY <3>1, <3>2
  <2> QED
    BY <2>1, <2>2
<1>8. ASSUME NEW k \in 1 .. Window
      PROVE  dgp'.recent_slots_filled[k] <=>
               \/ dgp'.current_aslot - k <= 0
               \/ \E n \in DOMAIN chain' : chain'[n].aslot = dgp'.current_aslot - k
  <2> DEFINE s == dgp'.current_aslot - k
             had(x) == \E n \in DOMAIN chain : chain[n].aslot = x
  <2>1. s = before + missed + 1 - k /\ s \in Int /\ s < before + missed + 1 /\ k \in Nat
    BY <1>1, <1>2
  <2>2. (\E n \in DOMAIN chain' : chain'[n].aslot = s) <=> had(s)
    BY <2>1, <1>5
  <2>3. CASE k <= missed
    <3>1. ~had(s) /\ s > 0
      <4>1. before < s
        BY <1>1, <2>1, <2>3
      <4> QED
        BY <1>1, <2>1, <4>1, <1>6
    <3>2. ~dgp'.recent_slots_filled[k]
      <4>1. k <= missed + 1 /\ k # missed + 1
        BY <1>1, <2>3
      <4> QED
        BY <1>3, <4>1, Zenon
    <3> HIDE DEF s, had
    <3> QED
      BY <2>1, <2>2, <3>1, <3>2 DEF s
  <2>4. CASE k = missed + 1
    <3>1. s = before /\ k <= missed + 1
      BY <1>1, <2>1, <2>4
    <3>2. s <= 0 \/ had(s)
      BY <3>1, <1>1, <1>7
    <3>3. dgp'.recent_slots_filled[k]
      BY <1>3, <2>4, <3>1, Zenon
    <3> QED
      BY <2>2, <3>2, <3>3, Zenon
  <2>5. CASE k > missed + 1
    <3>1. k - missed - 1 \in 1 .. Window /\ before - (k - missed - 1) = s
      BY <1>1, <2>1, <2>5, SMTT(20)
    <3>2. filled[k - missed - 1] <=> (s <= 0 \/ had(s))
      <4>1. \A i \in 1 .. Window : filled[i] <=> (before - i <= 0 \/ had(before - i))
        BY DEF HistoryInv, WindowEndsBeforeHead
      <4> HIDE DEF filled, had, before, missed, s
      <4> QED
        BY <3>1, <4>1, Zenon
    <3>3. dgp'.recent_slots_filled[k] = filled[k - missed - 1]
      BY <1>1, <1>3, <2>5
    <3> QED
      BY <2>2, <3>2, <3>3, Zenon
  <2> QED
    BY <1>1, <2>1, <2>3, <2>4, <2>5
<1> HIDE DEF filled, missed, before
<1>9. WindowEndsBeforeHead'
  BY <1>8, Zenon DEF WindowEndsBeforeHead
<1> QED
  BY <1>4, <1>9

(***************************************************************************)
(* The slot of the block is above all others, and the signer's last; those *)
(* of the other miners stay.                                               *)
(***************************************************************************)
LEMMA LastSlotsKept ==
  ASSUME ClockInv, HistoryInv, NEW ts \in GenesisTime .. MaxTime, ApplyBlock(ts)
  PROVE  LastSlotsExact'
<1> DEFINE Slots(m)  == {chain[n].aslot : n \in BlocksOf(m)}
           Slots2(m) == {chain'[n].aslot : n \in BlocksOf(m)'}
<1>1. \A n \in DOMAIN chain : chain[n].aslot \in 1 .. dgp.current_aslot /\ dgp.current_aslot \in Nat
  BY DEF HistoryInv, SlotsOfChain
<1>2. ASSUME NEW m \in Miners, m # Signer(ts)
      PROVE  miner'[m].last_aslot = Max({0} \cup Slots2(m))
  <2>1. BlocksOf(m)' = BlocksOf(m)
    BY <1>2, ChainGrows DEF BlocksOf
  <2>2. \A n \in BlocksOf(m) : chain'[n] = chain[n]
    BY ChainGrows DEF BlocksOf
  <2>3. Slots2(m) = Slots(m)
    BY <2>1, <2>2
  <2>4. miner'[m].last_aslot = miner[m].last_aslot
    BY <1>2, BlockMovesHistory
  <2> QED
    BY <2>3, <2>4 DEF HistoryInv, LastSlotsExact
<1>3. ASSUME NEW m \in Miners, m = Signer(ts)
      PROVE  miner'[m].last_aslot = Max({0} \cup Slots2(m))
  <2>1. BlocksOf(m)' \subseteq DOMAIN chain'
    BY DEF BlocksOf
  <2>2. ASSUME NEW n \in DOMAIN chain'
        PROVE  chain'[n].aslot \in Nat /\ chain'[n].aslot <= NewSlot(ts)
    <3>1. dgp'.current_aslot = NewSlot(ts)
      BY BlockMovesHistory
    <3> QED
      BY <3>1, ChainGrows DEF SlotsOfChain
  <2>3. Len(chain) + 1 \in BlocksOf(m)' /\ chain'[Len(chain) + 1].aslot = NewSlot(ts)
    BY <1>3, ChainGrows DEF BlocksOf
  <2>4. /\ {0} \cup Slots2(m) \in SUBSET Int /\ NewSlot(ts) \in {0} \cup Slots2(m)
        /\ \A y \in {0} \cup Slots2(m) : y <= NewSlot(ts)
    BY <2>1, <2>2, <2>3, ChainGrows
  <2>5. Max({0} \cup Slots2(m)) = NewSlot(ts)
    <3> HIDE DEF Slots2
    <3> QED
      BY <2>4, MaxIs
  <2>6. miner'[m].last_aslot = NewSlot(ts)
    BY <1>3, BlockMovesHistory
  <2> QED
    BY <2>5, <2>6
<1> QED
  BY <1>2, <1>3 DEF LastSlotsExact

----------------------------------------------------------------------------
(* The invariant, and what follows from it. *)

(***************************************************************************)
(* HistoryInv is inductive, given the clock of MinerScheduleProofs: a      *)
(* change of the parameters touches none of it, and a block moves each of  *)
(* its parts with the chain.                                               *)
(***************************************************************************)
THEOREM HistoryInvariant == Spec => []HistoryInv
<1>1. ClockInv /\ HistoryInv /\ [Next]_vars => HistoryInv'
  <2> SUFFICES ASSUME ClockInv, HistoryInv, [Next]_vars PROVE HistoryInv'
    OBVIOUS
  <2>1. ASSUME NEW p \in Parameters, UpdateGlobalParameters(p) PROVE HistoryInv'
    BY <2>1 DEF UpdateGlobalParameters, HistoryInv, SlotsOfChain, Numbers,
                WindowEndsBeforeHead, LastSlotsExact, BlocksOf
  <2>2. ASSUME NEW ts \in GenesisTime .. MaxTime, ApplyBlock(ts) PROVE HistoryInv'
    BY <2>2, ChainGrows, NumbersKept, WindowKept, LastSlotsKept DEF HistoryInv
  <2>3. CASE UNCHANGED vars
    BY <2>3 DEF vars, HistoryInv, SlotsOfChain, Numbers,
                WindowEndsBeforeHead, LastSlotsExact, BlocksOf
  <2> QED
    BY <2>1, <2>2, <2>3 DEF Next
<1> QED
  BY <1>1, HistoryInit, ClockInvariant, PTL DEF Spec

(***************************************************************************)
(* recent_slots_filled records the slots before the one of the head block, *)
(* for every size of the window.                                           *)
(***************************************************************************)
THEOREM WindowIsRecord == Spec => []WindowEndsBeforeHead
<1>1. HistoryInv => WindowEndsBeforeHead
  BY DEF HistoryInv
<1> QED
  BY <1>1, HistoryInvariant, PTL

(***************************************************************************)
(* The last_aslot of every miner is the slot of its last block.            *)
(***************************************************************************)
THEOREM LastSlotsAreExact == Spec => []LastSlotsExact
<1>1. HistoryInv => LastSlotsExact
  BY DEF HistoryInv
<1> QED
  BY <1>1, HistoryInvariant, PTL

(***************************************************************************)
(* last_irreversible_block_num never falls, and becomes the highest number *)
(* that 70 percent of the active miners confirmed, for every number of     *)
(* active miners: rounding the offset down loses no block and admits none. *)
(***************************************************************************)
THEOREM IrreversibleHasMajority == Spec => IrreversibleIsConfirmed
<1> DEFINE Exact == dgp' # dgp =>
                      dgp'.last_irreversible_block_num =
                        Max({dgp.last_irreversible_block_num} \cup
                            {n \in 1 .. dgp'.head_block_number : Confirmed(n)})
<1>1. ClockInv /\ HistoryInv /\ [Next]_vars => [Exact]_vars
  <2> SUFFICES ASSUME ClockInv, HistoryInv, Next PROVE Exact
    OBVIOUS
  <2>1. ASSUME NEW p \in Parameters, UpdateGlobalParameters(p) PROVE Exact
    BY <2>1 DEF UpdateGlobalParameters
  <2>2. ASSUME NEW ts \in GenesisTime .. MaxTime, ApplyBlock(ts) PROVE Exact
    BY <2>2, NumbersKept
  <2> HIDE DEF Exact
  <2> QED
    BY <2>1, <2>2 DEF Next
<1> QED
  BY <1>1, ClockInvariant, HistoryInvariant, PTL DEF Spec, IrreversibleIsConfirmed

----------------------------------------------------------------------------
(* Missed slots. *)

(***************************************************************************)
(* Slots are as many as their distances from a slot before them.           *)
(***************************************************************************)
LEMMA SameDistance ==
  ASSUME NEW a \in Nat, NEW n \in Nat, NEW P
  PROVE  Cardinality({s \in a + 1 .. a + n : s \in P}) = Cardinality({i \in 1 .. n : a + i \in P})
<1> DEFINE Steps == {i \in 1 .. n : a + i \in P}
           Slots == {s \in a + 1 .. a + n : s \in P}
           f     == [i \in Steps |-> a + i]
<1>1. IsFiniteSet(Steps)
  <2>1. IsFiniteSet(1 .. n) /\ Steps \in SUBSET (1 .. n)
    BY FS_Interval
  <2> QED BY <2>1, FS_Subset
<1>2. f \in Injection(Steps, Slots)
  BY DEF Injection, IsInjective
<1>3. f \in Surjection(Steps, Slots)
  <2>1. ASSUME NEW s \in Slots PROVE s - a \in Steps /\ f[s - a] = s
    OBVIOUS
  <2> QED BY <1>2, <2>1 DEF Surjection, Injection
<1>4. ExistsBijection(Steps, Slots)
  <2> HIDE DEF f
  <2> QED BY <1>2, <1>3 DEF ExistsBijection, Bijection
<1> HIDE DEF Steps, Slots
<1>5. Cardinality(Slots) = Cardinality(Steps)
  BY <1>1, <1>4, FS_Bijection
<1> QED BY <1>5 DEF Steps, Slots

(***************************************************************************)
(* What update_global_dynamic_data counts for a block are the slots that   *)
(* it leaves empty, those of its own miner aside.                          *)
(***************************************************************************)
LEMMA BlockMisses ==
  ASSUME ClockInv, HistoryInv, NEW ts \in GenesisTime .. MaxTime, ApplyBlock(ts),
         NEW m \in Miners, miner[m].total_missed \in Int, NEW last, last = Len(chain) + 1
  PROVE  /\ miner'[m].total_missed = miner[m].total_missed + LeftEmpty(last, m)'
         /\ LeftEmpty(last, m)' \in Int
<1> DEFINE a == dgp.current_aslot
           n == Missed(ts)
           P == {s \in Nat : order[(s % Len(order)) + 1] = m /\ Signer(ts) # m}
<1>1. a \in Nat /\ n \in Nat /\ NewSlot(ts) = a + n + 1
  BY SigningSlot DEF NewSlot, HistoryInv, SlotsOfChain
<1>2. /\ chain'[last] = [aslot |-> NewSlot(ts), miner |-> Signer(ts),
                         order |-> order, active |-> gpo'.active_miners]
      /\ Len(chain') = last /\ last \in Nat \ {0} /\ Len(chain) \in Nat
  <2>1. PICK S : chain \in Seq(S)
    BY DEF HistoryInv, SlotsOfChain
  <2> DEFINE block == [aslot |-> NewSlot(ts), miner |-> Signer(ts),
                       order |-> order, active |-> gpo'.active_miners]
  <2>2. chain' = Append(chain, block)
    BY BlockMovesHistory
  <2> HIDE DEF block
  <2>3. chain'[last] = block /\ Len(chain') = last /\ last \in Nat \ {0} /\ Len(chain) \in Nat
    BY <2>1, <2>2
  <2> QED BY <2>3 DEF block
<1>3. AslotOf(last - 1)' = a /\ AslotOf(last)' = a + n + 1
  <2>1. last - 1 = Len(chain) /\ Len(chain) \in Nat
    BY <1>2
  <2>2. CASE chain = <<>>
    <3>1. a = 0 /\ Len(chain) = 0
      BY <2>2 DEF HistoryInv, SlotsOfChain
    <3> QED BY <1>1, <1>2, <2>1, <3>1 DEF AslotOf
  <2>3. CASE chain # <<>>
    <3>1. a = chain[Len(chain)].aslot /\ Len(chain) # 0 /\ Len(chain) \in DOMAIN chain
      <4>1. PICK S : chain \in Seq(S)
        BY DEF HistoryInv, SlotsOfChain
      <4> QED BY <2>3, <4>1 DEF HistoryInv, SlotsOfChain
    <3>2. chain'[Len(chain)] = chain[Len(chain)]
      BY <3>1, ChainGrows
    <3> QED BY <1>1, <1>2, <2>1, <3>1, <3>2 DEF AslotOf
  <2> QED BY <2>2, <2>3
<1>4. LeftEmpty(last, m)' = Cardinality({s \in a + 1 .. a + n : s \in P})
  <2> DEFINE Between(x, y, o, w) ==
               {s \in x + 1 .. y - 1 : o[(s % Len(o)) + 1] = m /\ w # m}
  <2>1. LeftEmpty(last, m)' =
          Cardinality(Between(AslotOf(last - 1)', AslotOf(last)', chain'[last].order,
                              chain'[last].miner))
    BY DEF LeftEmpty
  <2>2. chain'[last].order = order /\ chain'[last].miner = Signer(ts)
    BY <1>2
  <2>3. LeftEmpty(last, m)' = Cardinality(Between(a, a + n + 1, order, Signer(ts)))
    <3> HIDE DEF Between, a, n
    <3> QED BY <1>3, <2>1, <2>2 DEF a, n
  <2>4. Between(a, a + n + 1, order, Signer(ts)) = {s \in a + 1 .. a + n : s \in P}
    BY <1>1
  <2> HIDE DEF Between, P
  <2> QED BY <2>3, <2>4
<1>5. LeftEmpty(last, m)' = Cardinality({i \in 1 .. n : a + i \in P})
  <2> HIDE DEF P
  <2> QED BY <1>1, <1>4, SameDistance
<1>6. miner'[m].total_missed = miner[m].total_missed +
        IF m = Signer(ts) THEN 0 ELSE MissedBy(dgp, order, m, n)
  BY DEF ApplyBlock, Signer, Missed
<1>7. IsFiniteSet({i \in 1 .. n : a + i \in P})
  <2>1. IsFiniteSet(1 .. n) /\ {i \in 1 .. n : a + i \in P} \in SUBSET (1 .. n)
    BY <1>1, FS_Interval
  <2> QED BY <2>1, FS_Subset
<1>8. CASE m = Signer(ts)
  <2>1. {i \in 1 .. n : a + i \in P} = {}
    BY <1>8
  <2>2. LeftEmpty(last, m)' = 0
    BY <1>5, <2>1, FS_EmptySet
  <2> QED BY <1>6, <1>8, <2>2
<1>9. CASE m # Signer(ts)
  <2>1. {i \in 1 .. n : a + i \in P} = {i \in 1 .. n : Scheduled(dgp, order, i) = m}
    <3>1. ASSUME NEW i \in 1 .. n PROVE a + i \in P <=> Scheduled(dgp, order, i) = m
      <4>1. a + i \in Nat
        BY <1>1
      <4>2. Scheduled(dgp, order, i) = order[((a + i) % Len(order)) + 1]
        BY DEF Scheduled
      <4> HIDE DEF a, n
      <4> QED BY <1>9, <4>1, <4>2
    <3> HIDE DEF P, a, n
    <3> QED BY <3>1
  <2>2. MissedBy(dgp, order, m, n) = LeftEmpty(last, m)'
    BY <1>5, <2>1 DEF MissedBy
  <2>3. LeftEmpty(last, m)' \in Int
    BY <1>5, <1>7, FS_CardinalityType
  <2> QED BY <1>6, <1>9, <2>2, <2>3
<1> QED BY <1>8, <1>9

\* What the blocks of the chain left empty are numbers.
MissedInv ==
  /\ MissedAccounted
  /\ \A m \in Miners : \A n \in DOMAIN chain : LeftEmpty(n, m) \in Int

(***************************************************************************)
(* What the chain and the counts do not change, the account does not.      *)
(***************************************************************************)
LEMMA MissedStays ==
  ASSUME MissedInv, UNCHANGED <<miner, chain>>
  PROVE  MissedInv'
<1>1. chain' = chain /\ miner' = miner
  OBVIOUS
<1>2. ASSUME NEW m, NEW n PROVE LeftEmpty(n, m)' = LeftEmpty(n, m)
  BY <1>1 DEF LeftEmpty, AslotOf
<1>3. ASSUME NEW m
      PROVE  [n \in DOMAIN chain |-> LeftEmpty(n, m)]' = [n \in DOMAIN chain |-> LeftEmpty(n, m)]
  BY <1>1, <1>2
<1> QED BY <1>1, <1>2, <1>3 DEF MissedInv, MissedAccounted

(***************************************************************************)
(* total_missed counts, for every miner, exactly its slots that others'    *)
(* blocks left empty, by the schedules that these blocks met: for any      *)
(* number of miners, any order and any gaps.                               *)
(***************************************************************************)
THEOREM MissedIsAccounted == Spec => []MissedAccounted
<1>1. Init => MissedInv
  <2> SUFFICES ASSUME Init PROVE MissedInv
    OBVIOUS
  <2>1. chain = <<>> /\ \A m \in Miners : miner[m].total_missed = 0
    BY DEF Init
  <2>2. DOMAIN chain = {}
    BY <2>1
  <2>3. ASSUME NEW f PROVE Total(f, {}) = 0
    BY TotalZero, FS_EmptySet
  <2> QED BY <2>1, <2>2, <2>3 DEF MissedInv, MissedAccounted
<1>2. ClockInv /\ HistoryInv /\ MissedInv /\ [Next]_vars => MissedInv'
  <2> SUFFICES ASSUME ClockInv, HistoryInv, MissedInv, [Next]_vars PROVE MissedInv'
    OBVIOUS
  <2>1. ASSUME NEW p \in Parameters, UpdateGlobalParameters(p) PROVE MissedInv'
    BY <2>1, MissedStays DEF UpdateGlobalParameters
  <2>2. ASSUME NEW ts \in GenesisTime .. MaxTime, ApplyBlock(ts) PROVE MissedInv'
    <3>0. PICK N : N = Len(chain)
      OBVIOUS
    <3>1. /\ N \in Nat /\ DOMAIN chain = 1 .. N /\ DOMAIN chain' = 1 .. N + 1
          /\ \A n \in DOMAIN chain : chain'[n] = chain[n]
      BY <2>2, <3>0, ChainGrows
    <3>2. ASSUME NEW m \in Miners, NEW n \in DOMAIN chain
          PROVE  LeftEmpty(n, m)' = LeftEmpty(n, m)
      <4>1. AslotOf(n)' = AslotOf(n) /\ AslotOf(n - 1)' = AslotOf(n - 1)
        BY <3>1 DEF AslotOf
      <4> QED BY <3>1, <4>1 DEF LeftEmpty
    <3>3. ASSUME NEW m \in Miners
          PROVE  /\ miner'[m].total_missed =
                      Total([n \in DOMAIN chain' |-> LeftEmpty(n, m)'], DOMAIN chain')
                 /\ \A n \in DOMAIN chain' : LeftEmpty(n, m)' \in Int
      <4> DEFINE f == [n \in DOMAIN chain |-> LeftEmpty(n, m)]
                 g == [n \in DOMAIN chain' |-> LeftEmpty(n, m)']
                 e == LeftEmpty(N + 1, m)'
      <4>1. \A n \in DOMAIN chain : f[n] \in Int
        BY DEF MissedInv
      <4>2. IsFiniteSet(DOMAIN chain)
        BY <3>1, FS_Interval
      <4>3. miner[m].total_missed = Total(f, DOMAIN chain) /\ Total(f, DOMAIN chain) \in Int
        <5>1. Total(f, DOMAIN chain) \in Int
          <6> HIDE DEF f
          <6> QED BY <4>1, <4>2, TotalStep
        <5> QED BY <5>1 DEF MissedInv, MissedAccounted
      <4>4. miner'[m].total_missed = miner[m].total_missed + e /\ e \in Int
        BY <2>2, <3>0, <3>1, <4>3, BlockMisses
      <4>5. g[N + 1] = e /\ \A n \in DOMAIN chain \ {N + 1} : g[n] = f[n]
        BY <3>1, <3>2
      <4>6. DOMAIN chain' = DOMAIN chain \cup {N + 1} /\ N + 1 \notin DOMAIN chain
        BY <3>1
      <4>7. \A n \in DOMAIN chain' : LeftEmpty(n, m)' \in Int
        BY <3>2, <4>4, <4>6 DEF MissedInv
      <4> HIDE DEF f, g, e
      <4>8. g[N + 1] \in Int
        BY <4>4, <4>5
      <4>9. Total(g, DOMAIN chain \cup {N + 1}) =
              Total(f, DOMAIN chain) + g[N + 1] - (IF N + 1 \in DOMAIN chain THEN f[N + 1] ELSE 0)
        <5>1. PICK D : D = DOMAIN chain
          OBVIOUS
        <5>2. PICK x : x = N + 1
          OBVIOUS
        <5>3. /\ \A n \in D : f[n] \in Int
              /\ IsFiniteSet(D) /\ g[x] \in Int
              /\ \A n \in D \ {x} : g[n] = f[n]
          BY <4>1, <4>2, <4>5, <4>8, <5>1, <5>2
        <5>4. Total(g, D \cup {x}) = Total(f, D) + g[x] - (IF x \in D THEN f[x] ELSE 0)
          BY ONLY <5>3, TotalChange
        <5> QED BY <5>1, <5>2, <5>4
      <4>10. miner'[m].total_missed = Total(g, DOMAIN chain')
        BY <4>3, <4>4, <4>5, <4>6, <4>9
      <4> QED BY <4>7, <4>10 DEF g
    <3> QED BY <3>3 DEF MissedInv, MissedAccounted
  <2>3. CASE UNCHANGED vars
    BY <2>3, MissedStays DEF vars
  <2> QED BY <2>1, <2>2, <2>3 DEF Next
<1>3. MissedInv => MissedAccounted
  BY DEF MissedInv
<1> QED BY <1>1, <1>2, <1>3, ClockInvariant, HistoryInvariant, PTL DEF Spec

----------------------------------------------------------------------------
(* The schedule follows the active miners. *)

(***************************************************************************)
(* A shuffle leaves nobody out.                                            *)
(***************************************************************************)
LEMMA ShuffleIsComplete ==
  ASSUME NEW S, IsFiniteSet(S), NEW o \in SetToSeqs(S)
  PROVE  ToSet(o) = S
<1> DEFINE D == 1 .. Cardinality(S)
<1>1. Cardinality(S) \in Nat
  BY FS_CardinalityType
<1>2. o \in [D -> S] /\ \A i, j \in D : i # j => o[i] # o[j]
  BY DEF SetToSeqs
<1>3. o \in Injection(D, S)
  BY <1>2 DEF Injection, IsInjective
<1>4. Cardinality(D) = Cardinality(S)
  BY <1>1, FS_Interval
<1>5. o \in Surjection(D, S)
  BY <1>3, <1>4, FS_Injection
<1>6. \A s \in S : \E i \in D : o[i] = s
  BY <1>5 DEF Surjection
<1> HIDE DEF D
<1> QED BY <1>2, <1>6 DEF ToSet

(***************************************************************************)
(* Rounds end at the multiples of their length.                            *)
(***************************************************************************)
LEMMA MultiplesDivide ==
  ASSUME NEW k \in Nat, NEW c \in Nat \ {0}
  PROVE  (k * c) % c = 0
<1> DEFINE a == k * c
           q == a \div c
<1>1. a \in Nat
  BY Products
<1>2. q \in Nat /\ q * c <= a /\ a < (q + 1) * c
  BY <1>1, Division
<1>3. q * c \in Int /\ (k <= q => a <= q * c) /\ (q + 1 <= k => (q + 1) * c <= a)
  BY <1>1, <1>2, Products
<1>4. ~(q + 1 <= k)
  <2> HIDE DEF a, q
  <2> QED BY <1>1, <1>2, <1>3
<1>5. q * c = a
  BY <1>1, <1>2, <1>3, <1>4
<1>6. a % c = a - q * c
  <2> HIDE DEF a
  <2> QED BY <1>1
<1> HIDE DEF a, q
<1>7. a % c = 0
  BY <1>1, <1>5, <1>6
<1> QED BY <1>7 DEF a

\* Since the n-th block the same miners have been active.
ActiveSince(n) == \A i \in n .. Len(chain) : chain[i].active = chain[n].active

\* Whoever has been active since a block that ended a round is scheduled.
FollowInv ==
  /\ chain # <<>> => chain[Len(chain)].active = gpo.active_miners
  /\ \A n \in DOMAIN chain :
        n % Cardinality(chain[n].active) = 0 /\ ActiveSince(n) => ToSet(order) = chain[n].active

(***************************************************************************)
(* A block that ends a round of the miners that it leaves active shuffles  *)
(* them; others leave the order alone, and those who were scheduled since  *)
(* the last such block are, if they are still active.                      *)
(***************************************************************************)
LEMMA BlockFollows ==
  ASSUME ClockInv, ClockInv', HistoryInv, FollowInv,
         NEW ts \in GenesisTime .. MaxTime, ApplyBlock(ts)
  PROVE  FollowInv'
<1> PICK N : N = Len(chain)
  OBVIOUS
<1>1. /\ N \in Nat /\ DOMAIN chain = 1 .. N /\ DOMAIN chain' = 1 .. N + 1 /\ Len(chain') = N + 1
      /\ \A n \in DOMAIN chain : chain'[n] = chain[n]
  BY ChainGrows
<1>2. chain'[N + 1].active = gpo'.active_miners
  <2>1. PICK S : chain \in Seq(S)
    BY DEF HistoryInv, SlotsOfChain
  <2> DEFINE block == [aslot |-> NewSlot(ts), miner |-> Signer(ts),
                       order |-> order, active |-> gpo'.active_miners]
  <2>2. chain' = Append(chain, block)
    BY BlockMovesHistory
  <2>3. block.active = gpo'.active_miners
    OBVIOUS
  <2> HIDE DEF block
  <2>4. chain'[N + 1] = block
    BY <2>1, <2>2
  <2> QED BY <2>3, <2>4
<1>3. dgp'.head_block_number = N + 1
  BY BlockMovesHistory
<1>4. IF Reshuffle(dgp', gpo') THEN order' \in SetToSeqs(gpo'.active_miners) ELSE order' = order
  BY DEF ApplyBlock
<1>5. (N + 1) % Cardinality(gpo'.active_miners) = 0 => ToSet(order') = gpo'.active_miners
  <2>1. gpo'.active_miners \in ActiveSets
    BY DEF ClockInv, GlobalProperties
  <2>2. gpo'.active_miners \in SUBSET Miners /\ IsFiniteSet(Miners)
    BY <2>1, ScheduleAssumption
  <2>3. IsFiniteSet(gpo'.active_miners)
    BY <2>2, FS_Subset
  <2> QED BY <1>3, <1>4, <2>3, ShuffleIsComplete DEF Reshuffle
<1>6. (N + 1) % Cardinality(gpo'.active_miners) # 0 => order' = order
  BY <1>3, <1>4 DEF Reshuffle
<1>7. ASSUME NEW n \in DOMAIN chain', n % Cardinality(chain'[n].active) = 0,
             \A i \in n .. N + 1 : chain'[i].active = chain'[n].active
      PROVE  ToSet(order') = chain'[n].active
  <2>1. chain'[n].active = gpo'.active_miners
    BY <1>1, <1>2, <1>7
  <2>2. CASE (N + 1) % Cardinality(gpo'.active_miners) = 0
    BY <1>5, <2>1, <2>2
  <2>3. CASE (N + 1) % Cardinality(gpo'.active_miners) # 0
    <3>1. n \in DOMAIN chain
      BY <1>1, <1>7, <2>1, <2>3
    <3>2. ActiveSince(n)
      BY <1>1, <1>7, <3>1 DEF ActiveSince
    <3>3. chain'[n].active = chain[n].active
      BY <1>1, <3>1
    <3>4. ToSet(order) = chain[n].active
      BY <1>7, <3>1, <3>2, <3>3 DEF FollowInv
    <3> QED BY <1>6, <2>3, <3>3, <3>4
  <2> QED BY <2>2, <2>3
<1>8. chain' # <<>> => chain'[Len(chain')].active = gpo'.active_miners
  BY <1>1, <1>2
<1> QED BY <1>1, <1>7, <1>8 DEF FollowInv, ActiveSince

(***************************************************************************)
(* FollowInv is inductive.                                                 *)
(***************************************************************************)
THEOREM FollowInvariant == Spec => []FollowInv
<1>1. Init => FollowInv
  <2>1. Init => chain = <<>>
    BY DEF Init
  <2> QED BY <2>1 DEF FollowInv
<1>2. ClockInv /\ ClockInv' /\ HistoryInv /\ FollowInv /\ [Next]_vars => FollowInv'
  <2> SUFFICES ASSUME ClockInv, ClockInv', HistoryInv, FollowInv, [Next]_vars PROVE FollowInv'
    OBVIOUS
  <2>1. ASSUME NEW p \in Parameters, UpdateGlobalParameters(p) PROVE FollowInv'
    <3>1. gpo'.active_miners = gpo.active_miners /\ chain' = chain /\ order' = order
      BY <2>1 DEF UpdateGlobalParameters, ClockInv, GlobalProperties
    <3> QED BY <3>1 DEF FollowInv, ActiveSince
  <2>2. ASSUME NEW ts \in GenesisTime .. MaxTime, ApplyBlock(ts) PROVE FollowInv'
    BY <2>2, BlockFollows
  <2>3. CASE UNCHANGED vars
    BY <2>3 DEF vars, FollowInv, ActiveSince
  <2> QED BY <2>1, <2>2, <2>3 DEF Next
<1> QED BY <1>1, <1>2, ClockInvariant, HistoryInvariant, PTL DEF Spec

(***************************************************************************)
(* A change of the active miners is in the schedule after as many blocks   *)
(* as there are of them, wherever in the round it was made.                *)
(***************************************************************************)
THEOREM ScheduleFollows == Spec => []ScheduleFollowsActive
<1>1. ClockInv /\ HistoryInv /\ FollowInv => ScheduleFollowsActive
  <2> SUFFICES ASSUME ClockInv, HistoryInv, FollowInv,
                      NEW c, c = Cardinality(gpo.active_miners), Len(chain) >= c,
                      \A i \in Len(chain) - c + 1 .. Len(chain) :
                          chain[i].active = gpo.active_miners
               PROVE  ToSet(order) = gpo.active_miners
    BY DEF ScheduleFollowsActive
  <2>1. c \in Nat \ {0}
    BY ActiveMiners, FS_CardinalityType, FS_EmptySet
  <2>2. PICK N : N = Len(chain)
    OBVIOUS
  <2>3. N \in Nat /\ DOMAIN chain = 1 .. N
    <3>1. PICK S : chain \in Seq(S)
      BY DEF HistoryInv, SlotsOfChain
    <3> QED BY <2>2, <3>1
  \* the last block that ended a round
  <2>4. PICK n \in N - c + 1 .. N : n % c = 0
    <3> DEFINE n == (N \div c) * c
    <3>1. N \div c \in Nat /\ n <= N /\ N < (N \div c + 1) * c
      BY <2>1, <2>3, Division
    <3>2. (N \div c + 1) * c = n + 1 * c /\ n \in Int
      BY <2>1, <3>1, Products
    <3>3. n % c = 0
      BY <2>1, <3>1, MultiplesDivide
    <3>4. n \in N - c + 1 .. N
      <4> HIDE DEF n
      <4> QED BY <2>1, <2>3, <3>1, <3>2
    <3> HIDE DEF n
    <3> QED BY <3>3, <3>4
  <2>5. n \in DOMAIN chain /\ chain[n].active = gpo.active_miners
    BY <2>1, <2>2, <2>3, <2>4
  <2>6. ActiveSince(n)
    BY <2>1, <2>2, <2>3, <2>4, <2>5 DEF ActiveSince
  <2> QED BY <2>4, <2>5, <2>6 DEF FollowInv
<1> QED BY <1>1, ClockInvariant, HistoryInvariant, FollowInvariant, PTL
=============================================================================
