------------------------------- MODULE Slots -------------------------------
(***************************************************************************)
(* Slots and irreversibility as functions of the objects they are read     *)
(* from (libraries/chain/db_miner_schedule.cpp, db_update.cpp): used when  *)
(* a block is applied (MinerSchedule) and when one is made (Production).   *)
(***************************************************************************)
EXTENDS Integers, SequencesExt, FiniteSetsExt

IrreversibleThreshold == 70         \* percent

----------------------------------------------------------------------------
(* Slots.  d is the dynamic, p the chain parameters. *)

\* The slots left out for the maintenance in the head block.
Gap(d, p) == IF d.maintenance_flag THEN p.maintenance_skip_slots ELSE 0

(* get_slot_time: no block is on the grid of slots before the first *)
SlotTime(d, p, slot) ==
  CASE slot = 0 -> 0
    [] slot # 0 /\ d.head_block_number = 0 -> d.time + slot * p.block_interval
    [] OTHER -> (d.time \div p.block_interval + slot + Gap(d, p)) * p.block_interval

(* Seeded fault: slots are counted from the head block. *)
SlotAtFromHead(d, p, when) ==
  IF when < SlotTime(d, p, 1) THEN 0 ELSE (when - d.time) \div p.block_interval

(* get_slot_at_time *)
SlotAt(d, p, when) ==
  IF when < SlotTime(d, p, 1) THEN 0
  ELSE (when - SlotTime(d, p, 1)) \div p.block_interval + 1

(* get_scheduled_miner *)
Scheduled(d, o, slot) == o[((d.current_aslot + slot) % Len(o)) + 1]

----------------------------------------------------------------------------
(* Irreversibility. *)

(* Seeded fault: the threshold itself is taken for the offset. *)
LastIrreversibleAt70(d, active, tbl) ==
  LET offset   == (IrreversibleThreshold * Cardinality(active)) \div 100
      below(n) == Cardinality({m \in active : tbl[m].last_confirmed_block_num < n})
  IN  Max({d.last_irreversible_block_num} \cup
          {n \in {tbl[m].last_confirmed_block_num : m \in active} : below(n) <= offset})

(* update_last_irreversible_block: nth_element of the active miners' last  *)
(* blocks, when that is higher than before.                                *)
LastIrreversible(d, active, tbl) ==
  LET offset   == ((100 - IrreversibleThreshold) * Cardinality(active)) \div 100
      below(n) == Cardinality({m \in active : tbl[m].last_confirmed_block_num < n})
  IN  Max({d.last_irreversible_block_num} \cup
          {n \in {tbl[m].last_confirmed_block_num : m \in active} : below(n) <= offset})
============================================================================
