------------------------------ MODULE MCSupply ------------------------------
(***************************************************************************)
(* Three parts of what may happen on the chain, each with parameters and   *)
(* times under which its cases come up within a few blocks.  A behaviour   *)
(* of MCSpec stays within one of them and is one of Spec.                  *)
(***************************************************************************)
EXTENDS Supply

CONSTANTS a, b, temp

VARIABLE part

MCAccounts == {a, b, temp}
MCBalances == (a :> 6) @@ (b :> 2)

\* A miner each, so that the pay of one is not the vote of the other.
MCMinerAccount == (1 :> a) @@ (2 :> b)

MCParameters(block, maintenance, skip, seconds) ==
  [block_interval |-> block, maintenance_interval |-> maintenance,
   maintenance_skip_slots |-> skip, miner_pay_vesting_seconds |-> seconds]

\* Hidden balances and fees, with slots of two seconds.
MCHidden ==
  [name |-> "hidden", parameters |-> {MCParameters(2, 4, 0, 0)}, miners |-> {1},
   times |-> {3, 5, 6, 8}, blocks |-> 4, transactions |-> 3]

\* Vesting balances, and pay whose vesting changes.
MCVesting ==
  [name |-> "vesting", parameters |-> {MCParameters(1, 3, 0, 2), MCParameters(1, 3, 0, 1)},
   miners |-> {1}, times |-> {2, 3, 4, 6}, blocks |-> 5, transactions |-> 2]

\* Votes and proxies that change between maintenances, which skip a slot.
MCVotes ==
  [name |-> "votes", parameters |-> {MCParameters(1, 2, 1, 0)}, miners |-> {1, 2},
   times |-> {2, 4, 5, 6}, blocks |-> 4, transactions |-> 3]

\* What several commitments may hide, less than nothing included.
MCValues == -1 .. 2

\* What notes may pay to accounts: zero, one or two outputs, and negative ones.
MCPayments ==
  {<<>>, a :> 1, b :> -1, b :> -2, (a :> 2) @@ (b :> -1)}

MCParts == {MCHidden, MCVesting, MCVotes}

MCAllParameters == UNION {x.parameters : x \in MCParts}

\* The reward is halved with the third block.
MCRewards == <<4, 2>>
MCSplits  == <<3, 100>>

MCPolicies ==
  {[kind |-> "linear", begin_timestamp |-> 1, vesting_cliff_seconds |-> 2,
    vesting_duration_seconds |-> 3],
   [kind |-> "cdd", vesting_seconds |-> 2, start_claim |-> 3]}

\* Votes for one's own miners or, by proxy, for those of b.
MCOptions ==
  {[voting_account |-> a, votes |-> {1}], [voting_account |-> a, votes |-> {1, 2}],
   [voting_account |-> b, votes |-> {2}]}

----------------------------------------------------------------------------
MCInit == Init /\ part \in MCParts /\ gpo.parameters \in part.parameters

\* One step of the part, as Next allows it.
MCNext ==
  \/ /\ transactions < part.transactions /\ UNCHANGED part
     /\ \E fee \in Fees :
          \/ part # MCVesting /\ Transfers(fee)
          \/ part = MCHidden  /\ Hidings(fee)
          \/ part = MCVesting /\ Vestings(fee)
          \/ part = MCVotes   /\ Updates(fee)
  \/ \E p \in part.parameters \ {gpo.parameters} : UpdateGlobalParameters(p) /\ UNCHANGED part
  \/ \E m \in part.miners, ts \in part.times :
        dgp.head_block_number < part.blocks /\ ApplyBlock(m, ts) /\ UNCHANGED part

MCSpec == MCInit /\ [][MCNext]_<<vars, part>>

MCSymmetry == Permutations(Commitments)
=============================================================================
