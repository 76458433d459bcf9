-------------------------- MODULE MCMinerSchedule --------------------------
(***************************************************************************)
(* Four miners, of whom one may lose its place: the last irreversible      *)
(* block is the second lowest of four, or the lowest of three last blocks. *)
(* Two sets of parameters; with the second, genesis is not on the grid.    *)
(***************************************************************************)
EXTENDS MinerSchedule

CONSTANTS m1, m2, m3, m4

MCMiners == {m1, m2, m3, m4}

MCActiveSets == {MCMiners, {m1, m2, m3}}

MCSymmetry == Permutations({m1, m2, m3})

MCParameters ==
  {[block_interval |-> 2, maintenance_interval |-> 6, maintenance_skip_slots |-> 0],
   [block_interval |-> 4, maintenance_interval |-> 8, maintenance_skip_slots |-> 1]}
============================================================================
