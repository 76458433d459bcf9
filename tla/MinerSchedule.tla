--------------------------- MODULE MinerSchedule ---------------------------
(***************************************************************************)
(* Slots, missed slots, irreversibility and maintenance of one chain       *)
(* (libraries/chain/db_miner_schedule.cpp, db_update.cpp, db_maint.cpp):   *)
(* what _apply_block does to the global objects and to the miner objects.  *)
(*                                                                         *)
(* A block is the second it is stamped with; its miner is then the one     *)
(* scheduled for it.  No checkpoint is configured.  The votes a            *)
(* maintenance counts, the hash the shuffle draws from and the pay of the  *)
(* miners are left open: any set of active miners, any order.              *)
(***************************************************************************)
EXTENDS Slots, Totals

CONSTANTS
  Miners,
  ActiveSets,       \* the sets of miners that votes can make active
  Parameters,       \* chain_parameters that can be voted in
  NoParameters,     \* no pending_parameters
  GenesisTime,      \* initial_timestamp
  Window,           \* bits of recent_slots_filled (128)
  MaxUndoHistory,   \* GRAPHENE_MAX_UNDO_HISTORY
  MaxTime,          \* bound: the time of the last block
  MaxBlocks         \* bound: the number of blocks

ASSUME ScheduleAssumption ==
  /\ IsFiniteSet(Miners)
  /\ ActiveSets \subseteq (SUBSET Miners) \ {{}}
  /\ \A p \in Parameters :                       \* chain_parameters::validate
        /\ p.block_interval \in Nat \ {0}
        /\ p.maintenance_interval \in Nat
        /\ p.maintenance_interval > p.block_interval
        /\ p.maintenance_interval % p.block_interval = 0
        /\ p.maintenance_skip_slots \in Nat
  /\ NoParameters \notin Parameters
  /\ GenesisTime \in Nat \ {0}
  /\ Window \in Nat \ {0}
  /\ MaxUndoHistory \in Nat \ {0}
  /\ MaxTime \in Nat /\ MaxBlocks \in Nat

VARIABLES
  dgp,      \* dynamic_global_property_object
  gpo,      \* global_property_object
  order,    \* current_shuffled_miners
  miner,    \* the miner objects
  chain     \* history: the blocks applied, with the schedule they met

vars == <<dgp, gpo, order, miner, chain>>

MissedIncrement == 4                \* GRAPHENE_RECENTLY_MISSED_COUNT_INCREMENT
MissedDecrement == 3                \* GRAPHENE_RECENTLY_MISSED_COUNT_DECREMENT

----------------------------------------------------------------------------
(* The parts of _apply_block, in its order. *)

(* Seeded fault: the slots up to the block are counted from slot 0. *)
MissedFromZero(d, o, m, missed) ==
  Cardinality({i \in 0 .. missed - 1 : Scheduled(d, o, i) = m})

\* The skipped slots of miner m, as update_global_dynamic_data counts them.
MissedBy(d, o, m, missed) == Cardinality({i \in 1 .. missed : Scheduled(d, o, i) = m})

\* recently_missed_count, as update_global_dynamic_data changes it
MissedCount(count, num, missed) ==
  CASE num = 1                                     -> 0
    [] num # 1 /\ missed > 0                       -> count + MissedIncrement * missed
    [] num # 1 /\ missed = 0 /\ count > MissedIncrement -> count - MissedDecrement
    [] OTHER                                       -> IF count > 0 THEN count - 1 ELSE 0

(* Seeded fault: the skipped slots are shifted in before the block. *)
FillWindowInOrder(filled, missed) ==
  [k \in 1 .. Window |-> IF k = 1 THEN TRUE
                         ELSE k > missed + 1 /\ filled[k - missed - 1]]

\* ((filled << 1) + 1) << missed, newest bit first
FillWindow(filled, missed) ==
  [k \in 1 .. Window |-> IF k <= missed + 1 THEN k = missed + 1
                         ELSE filled[k - missed - 1]]

(* update_global_dynamic_data, of a block stamped ts *)
UpdateGlobalDynamicData(d, p, ts) ==
  LET missed == SlotAt(d, p, ts) - 1
      num    == d.head_block_number + 1
  IN  [d EXCEPT !.head_block_number     = num,
                !.time                  = ts,
                !.recently_missed_count = MissedCount(@, num, missed),
                !.recent_slots_filled   = FillWindow(@, missed),
                !.current_aslot         = @ + missed + 1]

(* Seeded fault: the block's slot is added to a count that has it already. *)
SigningAslotTwice(d, p, ts) == d.current_aslot + 1

(* update_signing_miner's new_block_aslot, with d as updated by then *)
SigningAslot(d, p, ts) == d.current_aslot + SlotAt(d, p, ts)

(* Seeded fault: one interval after the last, however late the block is. *)
NextMaintenanceOneLater(d, p, ts, num) ==
  IF num = 1 THEN (ts \div p.maintenance_interval + 1) * p.maintenance_interval
  ELSE d.next_maintenance_time + p.maintenance_interval

(* perform_chain_maintenance's next_maintenance_time *)
NextMaintenance(d, p, ts, num) ==
  IF num = 1 THEN (ts \div p.maintenance_interval + 1) * p.maintenance_interval
  ELSE d.next_maintenance_time + ((ts - d.next_maintenance_time) \div p.maintenance_interval + 1)
                                   * p.maintenance_interval

(* update_active_miners: whoever the votes make active *)
UpdateActiveMiners(g, active) == [g EXCEPT !.active_miners = active]

(* perform_chain_maintenance: the pending parameters take effect after the *)
(* active miners have been replaced.                                       *)
Maintained(g, active) ==
  LET g1 == UpdateActiveMiners(g, active)
  IN  IF g.pending_parameters = NoParameters THEN g1
      ELSE [g1 EXCEPT !.parameters = g.pending_parameters, !.pending_parameters = NoParameters]

(* Seeded fault: the rounds are counted in slots. *)
ReshuffleBySlots(d, g) == d.current_aslot % Cardinality(g.active_miners) = 0

(* update_miner_schedule's condition *)
Reshuffle(d, g) == d.head_block_number % Cardinality(g.active_miners) = 0

----------------------------------------------------------------------------
Init ==
  \E p \in Parameters, active \in ActiveSets :
    /\ dgp = [head_block_number |-> 0, time |-> GenesisTime, current_aslot |-> 0,
              recent_slots_filled |-> [k \in 1 .. Window |-> TRUE],
              recently_missed_count |-> 0, maintenance_flag |-> FALSE,
              last_irreversible_block_num |-> 0, next_maintenance_time |-> 0]
    /\ gpo = [active_miners |-> active, parameters |-> p, pending_parameters |-> NoParameters]
    /\ order \in SetToSeqs(active)
    /\ miner = [m \in Miners |-> [last_aslot |-> 0, last_confirmed_block_num |-> 0,
                                  total_missed |-> 0]]
    /\ chain = <<>>

(* miner_update_global_parameters_evaluator::do_apply, from a proposal *)
UpdateGlobalParameters(p) ==
  /\ gpo' = [gpo EXCEPT !.pending_parameters = p]
  /\ UNCHANGED <<dgp, order, miner, chain>>

(* _apply_block of the block stamped ts *)
ApplyBlock(ts) ==
  LET slot   == SlotAt(dgp, gpo.parameters, ts)
      signer == Scheduled(dgp, order, slot)
      d1     == UpdateGlobalDynamicData(dgp, gpo.parameters, ts)
      num    == d1.head_block_number
      tbl    == [m \in Miners |->
                  [last_aslot   |-> IF m = signer THEN SigningAslot(d1, gpo.parameters, ts)
                                    ELSE miner[m].last_aslot,
                   last_confirmed_block_num |->
                      IF m = signer THEN num ELSE miner[m].last_confirmed_block_num,
                   total_missed |-> miner[m].total_missed +
                      IF m = signer THEN 0 ELSE MissedBy(dgp, order, m, slot - 1)]]
      maint  == dgp.next_maintenance_time <= ts
  IN  /\ dgp.time < ts /\ slot > 0                    \* validate_block_header
      /\ num - dgp.last_irreversible_block_num < MaxUndoHistory
      /\ num <= MaxBlocks
      /\ miner' = tbl
      /\ \E active \in ActiveSets :
            gpo' = IF maint THEN Maintained(gpo, active) ELSE gpo
      /\ dgp' = [d1 EXCEPT
                   !.last_irreversible_block_num = LastIrreversible(d1, gpo.active_miners, tbl),
                   !.next_maintenance_time =
                      IF maint THEN NextMaintenance(dgp, gpo'.parameters, ts, num) ELSE @,
                   !.maintenance_flag = maint]
      /\ IF Reshuffle(dgp', gpo')
         THEN order' \in SetToSeqs(gpo'.active_miners)
         ELSE order' = order
      /\ chain' = Append(chain, [aslot |-> dgp'.current_aslot, miner |-> signer,
                                 order |-> order, active |-> gpo'.active_miners])

Next ==
  \/ \E p \in Parameters : UpdateGlobalParameters(p)
  \/ \E ts \in GenesisTime .. MaxTime : ApplyBlock(ts)

Spec == Init /\ [][Next]_vars

----------------------------------------------------------------------------
\* The slot of the n-th block; genesis stands for slot 0.
AslotOf(n) == IF n = 0 THEN 0 ELSE chain[n].aslot

BlocksOf(m) == {n \in DOMAIN chain : chain[n].miner = m}

(***************************************************************************)
(* The values of the variables.                                            *)
(***************************************************************************)
TypeOK ==
  /\ dgp.head_block_number = Len(chain)
  /\ dgp.time \in GenesisTime .. MaxTime
  /\ dgp.current_aslot \in Nat
  /\ dgp.recent_slots_filled \in [1 .. Window -> BOOLEAN]
  /\ dgp.recently_missed_count \in Nat
  /\ dgp.maintenance_flag \in BOOLEAN
  /\ dgp.last_irreversible_block_num \in 0 .. Len(chain)
  /\ dgp.next_maintenance_time \in Nat
  /\ gpo.active_miners \in ActiveSets
  /\ gpo.parameters \in Parameters
  /\ gpo.pending_parameters \in Parameters \cup {NoParameters}
  /\ order # <<>> /\ ToSet(order) \in ActiveSets /\ IsInjective(order)
  /\ \A m \in Miners : /\ miner[m].last_aslot \in Nat
                       /\ miner[m].last_confirmed_block_num \in 0 .. Len(chain)
                       /\ miner[m].total_missed \in Nat

(***************************************************************************)
(* get_slot_at_time returns the greatest slot that get_slot_time puts at   *)
(* or before the time, 0 if there is none, on and off the grid, around     *)
(* maintenance, before the first block and after a change of the interval. *)
(* A producer picks its slot with the one and its timestamp with the other.*)
(***************************************************************************)
SlotsInverted ==
  \A when \in GenesisTime .. MaxTime :
     LET fits == {n \in 1 .. MaxTime : SlotTime(dgp, gpo.parameters, n) <= when}
     IN  SlotAt(dgp, gpo.parameters, when) = Max({0} \cup fits)

\* How many slots of miner m the n-th block, not its own, left empty.
LeftEmpty(n, m) ==
  Cardinality({s \in AslotOf(n - 1) + 1 .. AslotOf(n) - 1 :
                 /\ chain[n].order[(s % Len(chain[n].order)) + 1] = m
                 /\ chain[n].miner # m})

(***************************************************************************)
(* total_missed counts, for every miner, exactly the slots that were its   *)
(* own in the schedule each block met and that this block left empty, but  *)
(* those left by the miner of the block itself.                            *)
(***************************************************************************)
MissedAccounted ==
  \A m \in Miners :
     miner[m].total_missed = Total([n \in DOMAIN chain |-> LeftEmpty(n, m)], DOMAIN chain)

(***************************************************************************)
(* recent_slots_filled, which decides whether a producer stops, is the     *)
(* record of the Window slots before the one of the head block: the block  *)
(* that is shifted in stands for the slots it skipped, and its own slot is *)
(* seen one block later.  Slots up to genesis count as filled.             *)
(***************************************************************************)
WindowEndsBeforeHead ==
  \A k \in 1 .. Window :
     dgp.recent_slots_filled[k] <=>
       \/ dgp.current_aslot - k <= 0
       \/ \E n \in DOMAIN chain : chain[n].aslot = dgp.current_aslot - k

(***************************************************************************)
(* The last_aslot of a miner is the slot of its last block, although       *)
(* update_signing_miner computes it after current_aslot has moved on.      *)
(***************************************************************************)
LastSlotsExact ==
  \A m \in Miners :
     miner[m].last_aslot = Max({0} \cup {chain[n].aslot : n \in BlocksOf(m)})

(***************************************************************************)
(* After every block the next maintenance is ahead, by no more than one    *)
(* interval: the assertion of process_budget, for blocks that come late,   *)
(* skip whole intervals, or change the interval.                           *)
(***************************************************************************)
MaintenanceAhead ==
  dgp.head_block_number > 0 =>
    dgp.next_maintenance_time - dgp.time \in 1 .. gpo.parameters.maintenance_interval

(***************************************************************************)
(* last_irreversible_block_num never falls, and becomes the highest number *)
(* that at least 70 percent of the miners active when the block came have  *)
(* a block at or after, if that is higher.                                 *)
(***************************************************************************)
Confirmed(n) ==
  100 * Cardinality({m \in gpo.active_miners : miner'[m].last_confirmed_block_num >= n})
    >= IrreversibleThreshold * Cardinality(gpo.active_miners)

IrreversibleIsConfirmed ==
  [][dgp' # dgp =>
       dgp'.last_irreversible_block_num =
         Max({dgp.last_irreversible_block_num} \cup
             {n \in 1 .. dgp'.head_block_number : Confirmed(n)})]_vars

(***************************************************************************)
(* When the same miners have been active for as many blocks as there are   *)
(* of them, they and no others are scheduled: update_miner_schedule takes  *)
(* a change of the active miners up within a round of blocks, missed slots *)
(* or not.                                                                 *)
(***************************************************************************)
ScheduleFollowsActive ==
  LET n == Cardinality(gpo.active_miners)
  IN  (/\ Len(chain) >= n
       /\ \A i \in Len(chain) - n + 1 .. Len(chain) : chain[i].active = gpo.active_miners)
      => ToSet(order) = gpo.active_miners
============================================================================
