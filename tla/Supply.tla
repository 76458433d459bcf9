------------------------------- MODULE Supply -------------------------------
(***************************************************************************)
(* The core asset on one chain (libraries/chain/db_balance.cpp,            *)
(* db_update.cpp, db_maint.cpp, db_cyva.cpp and the evaluators of          *)
(* transfers, blinded and confidential balances and vesting balances):     *)
(* where every unit of it is, from the fees of a transaction to the pay of *)
(* miners and of those who voted for them.                                 *)
(*                                                                         *)
(* Transactions are applied to the state at the head; one that throws is   *)
(* undone and no step.  The miner of a block is left open, and so are      *)
(* authorities, names and memos.  The value of a commitment, which only    *)
(* the sums that validate checks reveal, is written beside it: an integer, *)
(* since no check keeps a single output from hiding a negative one.  The   *)
(* public outputs of a transfer to one account are added up.  Not here:    *)
(* the creation of accounts, budget records and the planned rewards, which *)
(* are only read by the API, the freezing of transfers, and assets other   *)
(* than the core asset: the index by_owner allows one balance object to    *)
(* an account.                                                             *)
(***************************************************************************)
EXTENDS Vesting, Slots, Totals

CONSTANTS
  Accounts,
  TempAccount,       \* GRAPHENE_TEMP_ACCOUNT
  Miners,            \* vote ids of the miners, numbers from 1
  MinerAccount,      \* [Miners -> Accounts]
  Balances,          \* the initial balances of some accounts
  Parameters,        \* chain_parameters that can be voted in
  NoParameters,      \* no pending_parameters
  Rewards,           \* CYVA_BLOCK_REWARD
  Splits,            \* CYVA_SPLIT
  VoteRewardFork,    \* VOTE_REWARD_FORK
  VoteRewardCheck,   \* VOTE_REWARD_CHECK
  GenesisTime,
  Times,             \* timestamps of blocks
  Word,              \* how many numbers a uint64_t has; zero if blind took signed ones
  \* the operations, by their arguments
  Amounts, Fees, Policies, Options, Commitments,
  Values,            \* what each of several outputs may hide
  Payments,          \* public outputs: what some accounts get, or give
  \* bounds
  MaxTime,           \* to which withdrawals are looked ahead
  MaxBalance, MaxBlocks, MaxVestings, MaxTransactions

ASSUME SupplyAssumption ==
  /\ IsFiniteSet(Accounts) /\ TempAccount \in Accounts
  /\ Miners \subseteq Nat \ {0}
  /\ MinerAccount \in [Miners -> Accounts]
  /\ DOMAIN Balances \subseteq Accounts /\ \A a \in DOMAIN Balances : Balances[a] \in Nat
  /\ \A o \in Options : o.voting_account \in Accounts /\ o.votes \subseteq Miners
  /\ IsFiniteSet(Commitments)
  /\ \A p \in Parameters :
        /\ p.block_interval \in Nat \ {0}
        /\ p.maintenance_interval \in Nat \ {0}
        /\ p.maintenance_interval % p.block_interval = 0
        /\ p.maintenance_skip_slots \in Nat
        /\ p.miner_pay_vesting_seconds \in Nat
  /\ NoParameters \notin Parameters
  /\ \A i \in DOMAIN Rewards : Rewards[i] \in Nat
  /\ Splits \in Seq(Nat) /\ Splits # <<>> /\ DOMAIN Rewards = 1 .. Len(Splits)
  /\ VoteRewardFork \in Nat /\ VoteRewardCheck \in Nat
  /\ GenesisTime \in Nat \ {0} /\ Times \subseteq Nat
  /\ Word \in Nat /\ Values \subseteq Int
  /\ Amounts \subseteq Nat \ {0} /\ Fees \subseteq Nat
  /\ \A p \in Payments : DOMAIN p \subseteq Accounts /\ \A a \in DOMAIN p : p[a] \in Int
  /\ \A i \in Policies :
        \/ /\ i.kind = "linear"
           /\ i.begin_timestamp \in Nat
           /\ i.vesting_cliff_seconds \in Nat /\ i.vesting_duration_seconds \in Nat
        \/ /\ i.kind = "cdd"
           /\ i.vesting_seconds \in Nat /\ i.start_claim \in Nat
  /\ {MaxTime, MaxBalance, MaxBlocks, MaxVestings, MaxTransactions} \subseteq Nat

VARIABLES
  account,       \* account_object: options and cashback_vb
  balance,       \* account_balance_object, of the accounts that have one
  vesting,       \* vesting_balance_object, by owner and a number
  miner,         \* miner_object
  blinded,       \* blinded_balance_object: the value of each commitment
  confidential,  \* confidential_tx_object: value and unspent
  core,          \* asset_dynamic_data_object of the core asset; history: wraps,
                 \* how many public volumes were negative
  dgp,           \* dynamic_global_property_object
  gpo,           \* global_property_object
  held,          \* history: coin-seconds each vesting balance has been held for
  transactions   \* bound: the transactions so far

objects == <<account, balance, vesting, miner, blinded, confidential, core, dgp, gpo>>
vars == <<objects, held, transactions>>

NoVesting == <<>>                    \* an optional id that is not valid
NoVote    == 0                       \* the vote id of no miner

\* old with the entries of new, in place of its own where it has them.
With(old, new) ==
  [x \in DOMAIN old \cup DOMAIN new |-> IF x \in DOMAIN new THEN new[x] ELSE old[x]]

\* What is in the balances, of accounts or vesting, of a state.
InBalances(b) == Total([i \in DOMAIN b |-> b[i].balance], DOMAIN b)

\* What the notes in cs hide.
NoteValue(notes, cs) == Total([c \in cs |-> notes[c].value], cs)

\* The notes that are not spent.
Unspent(notes) == {c \in DOMAIN notes : notes[c].unspent}

----------------------------------------------------------------------------
(* Balances of accounts. *)

(* get_balance *)
BalanceOf(b, a) == IF a \in DOMAIN b THEN b[a].balance ELSE 0

(* adjust_balance: the assertions, and the effect *)
CanAdjust(b, a, delta) == delta < 0 => BalanceOf(b, a) >= -delta

Adjust(b, a, delta) ==
  IF delta = 0 THEN b
  ELSE [c \in DOMAIN b \cup {a} |->
          IF c # a THEN b[c]
          ELSE IF a \in DOMAIN b THEN [b[a] EXCEPT !.balance = @ + delta]
          ELSE [balance |-> delta, vote_power |-> 0, casted_vote |-> NoVote]]

(* evaluator::apply: the fee is in accumulated_fees before the operation   *)
(* is applied, and leaves its payer after; b is the balances in between.   *)
PayFee(b, payer, fee) ==
  /\ CanAdjust(b, payer, -fee)
  /\ balance' = Adjust(b, payer, -fee)
  /\ transactions < MaxTransactions /\ transactions' = transactions + 1

\* b after each of the payments p.
Paid(b, p) ==
  [c \in DOMAIN b \cup {a \in DOMAIN p : p[a] # 0} |->
     IF c \in DOMAIN p THEN Adjust(b, c, p[c])[c] ELSE b[c]]

\* The core asset's data with the fee, and with delta moved to hidden balances.
WithFee(fee, delta) ==
  /\ core.confidential_supply + delta >= 0
  /\ core' = [core EXCEPT !.accumulated_fees = @ + fee, !.confidential_supply = @ + delta]

----------------------------------------------------------------------------
(* Vesting balances: their ids are the owner with a number. *)

NewVesting(vs, owner) == <<owner, Cardinality({id \in DOMAIN vs : id[1] = owner}) + 1>>

\* vs with the object v under id.
WithVesting(vs, id, v) == [i \in DOMAIN vs \cup {id} |-> IF i = id THEN v ELSE vs[i]]

(* deposit_lazy_vesting's conditions on the balance it may add to *)
Accepts(vs, id, owner, seconds) ==
  /\ id # NoVesting
  /\ vs[id].owner = owner
  /\ vs[id].policy.kind = "cdd"
  /\ vs[id].policy.vesting_seconds = seconds

(* Seeded fault: a balance that does not fit is overwritten. *)
LazyIdReused(vs, id, owner, seconds) == IF id # NoVesting THEN id ELSE NewVesting(vs, owner)

\* The id deposit_lazy_vesting deposits to, an existing or a new one.
LazyId(vs, id, owner, seconds) ==
  IF Accepts(vs, id, owner, seconds) THEN id ELSE NewVesting(vs, owner)

\* The object that is there after deposit_lazy_vesting.
LazyVesting(vs, id, owner, seconds, amount, now) ==
  IF Accepts(vs, id, owner, seconds) THEN Deposit(vs[id], now, amount)
  ELSE [owner |-> owner, balance |-> amount,
        policy |-> InitPolicy([kind |-> "cdd", vesting_seconds |-> seconds, start_claim |-> 0],
                              amount, now)]

(* deposit_account_pay, to every account of which pay is not zero: each    *)
(* touches only balances of its own, so that their order is of no account. *)
PayAccounts(vs, pay, seconds, now) ==
  LET paid   == {a \in Accounts : pay[a] # 0}
      id(a)  == LazyId(vs, account[a].cashback_vb, a, seconds)
  IN  [i \in DOMAIN vs \cup {id(a) : a \in paid} |->
         IF i[1] \in paid /\ i = id(i[1])
         THEN LazyVesting(vs, account[i[1]].cashback_vb, i[1], seconds, pay[i[1]], now)
         ELSE vs[i]]

\* The accounts after that: a new balance becomes the account's cashback_vb.
LinkAccounts(vs, pay, seconds) ==
  [a \in Accounts |->
     IF pay[a] = 0 THEN account[a]
     ELSE [account[a] EXCEPT !.cashback_vb = LazyId(vs, @, a, seconds)]]

(* deposit_miner_pay *)
PayMiner(vs, m, amount, seconds, now) ==
  LET owner == MinerAccount[m]
      id    == LazyId(vs, miner[m].pay_vb, owner, seconds)
  IN  IF amount = 0 THEN vs
      ELSE WithVesting(vs, id, LazyVesting(vs, miner[m].pay_vb, owner, seconds, amount, now))

LinkMiner(vs, m, amount, seconds) ==
  IF amount = 0 THEN miner
  ELSE [miner EXCEPT ![m].pay_vb = LazyId(vs, @, MinerAccount[m], seconds)]

----------------------------------------------------------------------------
(* The pay of a block: update_signing_miner. *)

(* get_asset_per_block_by_block_num *)
BlockReward(num) ==
  LET ahead == {i \in DOMAIN Splits : Splits[i] > num}
  IN  IF ahead = {} THEN Rewards[Len(Splits)] ELSE Rewards[Min(ahead)]

\* Division of the C++ integers, towards zero.
Quotient(a, b) == IF a >= 0 THEN a \div b ELSE -((-a) \div b)

(* Seeded fault: an interval that is not full is not counted. *)
BlocksInFullIntervals(d, p) == (d.next_maintenance_time - d.last_budget_time) \div p.block_interval

\* The blocks that fit between two maintenances.
BlocksInInterval(d, p) ==
  (d.next_maintenance_time - d.last_budget_time + p.block_interval - 1) \div p.block_interval

\* The share of the fees in the pay, as it is before the check for negative pay.
ShareOfFees(d, p) ==
  IF BlocksInInterval(d, p) > 0
  THEN Quotient(d.miner_budget_from_fees, BlocksInInterval(d, p)) ELSE 0

(* get_voted_miner: the first of an ordered set *)
VotedMiner(votes) == IF votes = {} THEN NoVote ELSE Min(votes)

VotePower(b, a) == IF a \in DOMAIN b THEN b[a].vote_power ELSE 0

(* Seeded fault: the accounts that vote for the miner now are paid by the  *)
(* rule of the first vote reward.                                          *)
VotersNow(num, m) == {a \in Accounts : VotedMiner(account[a].votes) = m}

\* Those who share in the pay of miner m for block num.
Voters(num, m) ==
  CASE num < VoteRewardFork -> {}
    [] num >= VoteRewardFork /\ num < VoteRewardCheck ->
         {a \in Accounts : VotedMiner(account[a].votes) = m}
    [] OTHER -> {a \in DOMAIN balance : balance[a].casted_vote = m}

VotersReward(pay) == (pay * 3) \div 5

\* What block num pays: its share of the fees and the reward.
Pay(d, p, num) == Max({ShareOfFees(d, p), 0}) + BlockReward(num)

\* What each account gets of the pay of miner m for block num.
VoterPay(num, m, pay) ==
  [a \in Accounts |->
     IF a \in Voters(num, m) /\ miner[m].total_votes > 0
     THEN (VotersReward(pay) * VotePower(balance, a)) \div miner[m].total_votes
     ELSE 0]

----------------------------------------------------------------------------
(* Maintenance: vote_tally_helper, update_active_miners, process_budget. *)

\* The votes that count for the stake of account a.
Opinion(acc, a) == acc[acc[a].voting_account].votes

Stake(acc, b, vs, a) ==
  BalanceOf(b, a) + IF acc[a].cashback_vb = NoVesting THEN 0 ELSE vs[acc[a].cashback_vb].balance

\* vote_tally_helper: the votes for miner m.
Tally(acc, b, vs, m) ==
  Total([a \in Accounts |-> Stake(acc, b, vs, a)], {a \in Accounts : m \in Opinion(acc, a)})

\* The balances with the power that pays for votes until the next maintenance.
RecordVotes(acc, b, vs) ==
  [a \in DOMAIN b |-> [b[a] EXCEPT !.vote_power  = Stake(acc, b, vs, a),
                                   !.casted_vote = VotedMiner(Opinion(acc, a))]]

(* next_maintenance_time of perform_chain_maintenance *)
NextMaintenance(d, p, ts, num) ==
  IF num = 1 THEN (ts \div p.maintenance_interval + 1) * p.maintenance_interval
  ELSE d.next_maintenance_time + ((ts - d.next_maintenance_time) \div p.maintenance_interval + 1)
                                   * p.maintenance_interval

\* from_accumulated_fees of process_budget
FeeBudget(d, c) == c.accumulated_fees + d.unspent_fee_budget

(* Seeded fault: the fees of the budget that are left are taken for paid. *)
SupplyDeltaOfBudget(d, c) == d.mined_rewards + d.miner_budget_from_fees - c.accumulated_fees

(* supply_delta of process_budget *)
SupplyDelta(d, c) ==
  d.mined_rewards + d.miner_budget_from_fees - d.unspent_fee_budget - c.accumulated_fees

----------------------------------------------------------------------------
Init ==
  \E p \in Parameters :
    /\ account = [a \in Accounts |-> [voting_account |-> a, votes |-> {},
                                      cashback_vb |-> NoVesting]]
    /\ balance = [a \in DOMAIN Balances |->
                    [balance |-> Balances[a], vote_power |-> 0, casted_vote |-> NoVote]]
    /\ vesting = <<>> /\ blinded = <<>> /\ confidential = <<>> /\ held = <<>>
    /\ miner = [m \in Miners |-> [pay_vb |-> NoVesting, total_votes |-> 0]]
    /\ core = [current_supply |-> Total(Balances, DOMAIN Balances),
               confidential_supply |-> 0, accumulated_fees |-> 0, wraps |-> 0]
    /\ dgp = [head_block_number |-> 0, time |-> GenesisTime, maintenance_flag |-> FALSE,
              next_maintenance_time |-> 0, last_budget_time |-> 0,
              miner_budget_from_fees |-> 0, unspent_fee_budget |-> 0, mined_rewards |-> 0]
    /\ gpo = [parameters |-> p, pending_parameters |-> NoParameters]
    /\ transactions = 0

----------------------------------------------------------------------------
(* Operations. *)

(* transfer_evaluator *)
Transfer(from, to, amount, fee) ==
  /\ BalanceOf(balance, from) >= amount
  /\ PayFee(Adjust(Adjust(balance, from, -amount), to, amount), from, fee)
  /\ WithFee(fee, 0)
  /\ UNCHANGED <<account, vesting, miner, blinded, confidential, dgp, gpo, held>>

(* account_update_evaluator, of the options *)
UpdateAccount(a, options, fee) ==
  /\ account' = [account EXCEPT ![a].voting_account = options.voting_account,
                                ![a].votes = options.votes]
  /\ PayFee(balance, a, fee)
  /\ WithFee(fee, 0)
  /\ UNCHANGED <<vesting, miner, blinded, confidential, dgp, gpo, held>>

(* vesting_balance_create_evaluator *)
CreateVesting(creator, owner, amount, i, fee) ==
  LET id == NewVesting(vesting, owner)
  IN  /\ id[2] <= MaxVestings
      /\ BalanceOf(balance, creator) >= amount
      /\ vesting' = WithVesting(vesting, id,
                      [owner |-> owner, balance |-> amount,
                       policy |-> InitPolicy(i, amount, dgp.time)])
      /\ held' = WithVesting(held, id, 0)
      /\ PayFee(Adjust(balance, creator, -amount), creator, fee)
      /\ WithFee(fee, 0)
      /\ UNCHANGED <<account, miner, blinded, confidential, dgp, gpo>>

(* vesting_balance_withdraw_evaluator *)
WithdrawVesting(id, amount, fee) ==
  LET v == vesting[id]
  IN  /\ amount <= AllowedWithdraw(v, dgp.time)
      /\ vesting' = [vesting EXCEPT ![id] = Withdraw(v, dgp.time, amount)]
      /\ held' = IF v.policy.kind = "linear" THEN held
                 ELSE [held EXCEPT ![id] = @ - amount * AtLeastOne(v.policy.vesting_seconds)]
      /\ PayFee(Adjust(balance, v.owner, amount), v.owner, fee)
      /\ WithFee(fee, 0)
      /\ UNCHANGED <<account, miner, blinded, confidential, dgp, gpo>>

(* validate: the values of new commitments that add up to a total.  A      *)
(* single one hides what is left, whatever that is; of several, each comes *)
(* with a proof whose range is read, without the commitment it is of.      *)
Outputs(total) ==
  {outs \in UNION {[S -> Values] : S \in SUBSET Commitments} :
     Cardinality(DOMAIN outs) # 1 /\ Total(outs, DOMAIN outs) = total}
  \cup {[c \in {d} |-> total] : d \in Commitments}

(* transfer_to_blind_evaluator *)
TransferToBlind(from, amount, fee) ==
  \E outs \in Outputs(amount) :
    /\ amount > 0 /\ DOMAIN outs # {} /\ DOMAIN outs \cap DOMAIN blinded = {}
    /\ CanAdjust(balance, from, -amount)
    /\ blinded' = With(blinded, outs)
    /\ PayFee(Adjust(balance, from, -amount), from, fee)
    /\ WithFee(fee, amount)
    /\ UNCHANGED <<account, vesting, miner, confidential, dgp, gpo, held>>

(* transfer_from_blind_evaluator: the temporary account gets the fee that  *)
(* it then pays.                                                           *)
TransferFromBlind(ins, to, fee) ==
  LET amount == Total(blinded, ins) - fee
  IN  /\ ins # {} /\ amount > 0
      /\ blinded' = Restrict(blinded, DOMAIN blinded \ ins)
      /\ PayFee(Adjust(Adjust(balance, TempAccount, fee), to, amount), TempAccount, fee)
      /\ WithFee(fee, -(amount + fee))
      /\ UNCHANGED <<account, vesting, miner, confidential, dgp, gpo, held>>

(* Seeded fault: the fee leaves the hidden balances but not their sum. *)
BlindTransferFeeKept(ins, fee) ==
  LET rest == DOMAIN blinded \ ins
  IN  \E outs \in Outputs(Total(blinded, ins) - fee) :
        /\ ins # {} /\ DOMAIN outs \cap rest = {}
        /\ blinded' = With(Restrict(blinded, rest), outs)
        /\ PayFee(Adjust(balance, TempAccount, fee), TempAccount, fee)
        /\ WithFee(fee, 0)
        /\ UNCHANGED <<account, vesting, miner, confidential, dgp, gpo, held>>

(* blind_transfer_evaluator *)
BlindTransfer(ins, fee) ==
  LET rest == DOMAIN blinded \ ins
  IN  \E outs \in Outputs(Total(blinded, ins) - fee) :
        /\ ins # {} /\ DOMAIN outs \cap rest = {}
        /\ blinded' = With(Restrict(blinded, rest), outs)
        /\ PayFee(Adjust(balance, TempAccount, fee), TempAccount, fee)
        /\ WithFee(fee, -fee)
        /\ UNCHANGED <<account, vesting, miner, confidential, dgp, gpo, held>>

\* confidential with the new notes outs.
WithNotes(notes, outs) ==
  With(notes, [c \in DOMAIN outs |-> [value |-> outs[c], unspent |-> TRUE]])

(* transfer_to_confidential_evaluator *)
TransferToConfidential(from, amount, fee) ==
  \E outs \in Outputs(amount) :
    /\ amount > 0 /\ DOMAIN outs # {} /\ DOMAIN outs \cap DOMAIN confidential = {}
    /\ CanAdjust(balance, from, -amount)
    /\ confidential' = WithNotes(confidential, outs)
    /\ PayFee(Adjust(balance, from, -amount), from, fee)
    /\ WithFee(fee, amount)
    /\ UNCHANGED <<account, vesting, miner, blinded, dgp, gpo, held>>

\* What fc::ecc::blind commits to for the public volume: an unsigned number.
Committed(volume) == IF volume < 0 THEN volume + Word ELSE volume

(* transfer_from_confidential_evaluator: inputs become spent and stay,     *)
(* outs are new notes, and p are the public outputs: those for an address  *)
(* are positive, those with a zero commitment have any value.  With the    *)
(* negative ones first the sum of what is hidden falls once at the end.    *)
TransferFromConfidential(ins, p, fee) ==
  LET volume == fee + Total(p, DOMAIN p)
      funded == Adjust(balance, TempAccount, fee)
  IN  \E outs \in Outputs(NoteValue(confidential, ins) - Committed(volume)) :
        /\ ins # {} /\ DOMAIN outs \cap DOMAIN confidential = {}
        /\ ins \subseteq Unspent(confidential)
        /\ core.confidential_supply >= fee
        /\ \A a \in DOMAIN p : CanAdjust(funded, a, p[a])
        /\ confidential' =
             WithNotes([c \in DOMAIN confidential |->
                          IF c \in ins THEN [confidential[c] EXCEPT !.unspent = FALSE]
                          ELSE confidential[c]], outs)
        /\ PayFee(Paid(funded, p), TempAccount, fee)
        /\ core.confidential_supply >= volume
        /\ core' = [core EXCEPT !.accumulated_fees = @ + fee,
                                !.confidential_supply = @ - volume,
                                !.wraps = IF volume < 0 THEN @ + 1 ELSE @]
        /\ UNCHANGED <<account, vesting, miner, blinded, dgp, gpo, held>>

(* miner_update_global_parameters_evaluator, from a proposal *)
UpdateGlobalParameters(p) ==
  /\ gpo' = [gpo EXCEPT !.pending_parameters = p]
  /\ UNCHANGED <<account, balance, vesting, miner, blinded, confidential, core, dgp, held,
                 transactions>>

----------------------------------------------------------------------------
(* _apply_block of a block of miner m stamped ts, after its transactions:  *)
(* update_global_dynamic_data, update_signing_miner, maintenance.          *)
ApplyBlock(m, ts) ==
  LET p       == gpo.parameters
      num     == dgp.head_block_number + 1
      seconds == p.miner_pay_vesting_seconds
      fees    == Max({ShareOfFees(dgp, p), 0})
      reward  == BlockReward(num)
      pay     == VoterPay(num, m, fees + reward)
      voted   == Total(pay, Accounts)
      rest    == fees + reward - voted
      vs1     == PayAccounts(vesting, pay, seconds, ts)
      vs2     == PayMiner(vs1, m, rest, seconds, ts)
      acc     == LinkAccounts(vesting, pay, seconds)
      mnr     == LinkMiner(vs1, m, rest, seconds)
      d1      == [dgp EXCEPT !.head_block_number = num, !.time = ts,
                             !.mined_rewards = @ + reward, !.unspent_fee_budget = @ - fees]
      maint   == dgp.next_maintenance_time <= ts
  IN  /\ dgp.time < ts /\ SlotAt(dgp, p, ts) > 0
      /\ num <= MaxBlocks
      /\ num >= VoteRewardCheck => voted <= VotersReward(fees + reward)
      /\ vesting' = vs2 /\ account' = acc
      /\ held' = [id \in DOMAIN vs2 |->
                    IF id \in DOMAIN vesting
                    THEN held[id] + vesting[id].balance * (ts - dgp.time) ELSE 0]
      /\ IF maint
         THEN LET p1 == IF gpo.pending_parameters = NoParameters THEN p
                        ELSE gpo.pending_parameters
              IN  /\ miner' = [n \in Miners |->
                                 [mnr[n] EXCEPT !.total_votes = Tally(acc, balance, vs2, n)]]
                  /\ balance' = RecordVotes(acc, balance, vs2)
                  /\ gpo' = [parameters |-> p1, pending_parameters |-> NoParameters]
                  /\ core' = [core EXCEPT !.current_supply = @ + SupplyDelta(d1, core),
                                          !.accumulated_fees = 0]
                  /\ dgp' = [d1 EXCEPT
                               !.next_maintenance_time  = NextMaintenance(dgp, p1, ts, num),
                               !.last_budget_time       = ts,
                               !.miner_budget_from_fees = FeeBudget(d1, core),
                               !.unspent_fee_budget     = FeeBudget(d1, core),
                               !.mined_rewards          = 0,
                               !.maintenance_flag       = TRUE]
         ELSE /\ dgp' = [d1 EXCEPT !.maintenance_flag = FALSE]
              /\ miner' = mnr
              /\ UNCHANGED <<balance, core, gpo>>
      /\ UNCHANGED <<blinded, confidential, transactions>>

----------------------------------------------------------------------------
Transfers(fee) == \E from, to \in Accounts, amount \in Amounts : Transfer(from, to, amount, fee)

Updates(fee) == \E a \in Accounts, options \in Options : UpdateAccount(a, options, fee)

Vestings(fee) ==
  \/ \E creator, owner \in Accounts, amount \in Amounts, i \in Policies :
        CreateVesting(creator, owner, amount, i, fee)
  \/ \E id \in DOMAIN vesting, amount \in Amounts : WithdrawVesting(id, amount, fee)

Hidings(fee) ==
  \/ \E from \in Accounts, amount \in Amounts :
        \/ TransferToBlind(from, amount, fee)
        \/ TransferToConfidential(from, amount, fee)
  \/ \E ins \in SUBSET DOMAIN blinded, to \in Accounts : TransferFromBlind(ins, to, fee)
  \/ \E ins \in SUBSET DOMAIN blinded : BlindTransfer(ins, fee)
  \/ \E ins \in SUBSET DOMAIN confidential, p \in Payments :
        TransferFromConfidential(ins, p, fee)

Next ==
  \/ \E fee \in Fees : Transfers(fee) \/ Updates(fee) \/ Vestings(fee) \/ Hidings(fee)
  \/ \E p \in Parameters : UpdateGlobalParameters(p)
  \/ \E m \in Miners, ts \in Times : ApplyBlock(m, ts)

Spec == Init /\ [][Next]_vars

----------------------------------------------------------------------------
(***************************************************************************)
(* The values of the variables.                                            *)
(***************************************************************************)
TypeOK ==
  /\ \A a \in Accounts : /\ account[a].voting_account \in Accounts
                         /\ account[a].votes \subseteq Miners
                         /\ account[a].cashback_vb \in DOMAIN vesting \cup {NoVesting}
  /\ \A a \in DOMAIN balance : /\ balance[a].balance \in Nat
                               /\ balance[a].vote_power \in Nat
                               /\ balance[a].casted_vote \in Miners \cup {NoVote}
  /\ \A m \in Miners : /\ miner[m].pay_vb \in DOMAIN vesting \cup {NoVesting}
                       /\ miner[m].total_votes \in Nat
  /\ DOMAIN held = DOMAIN vesting
  /\ core.confidential_supply \in Nat /\ core.accumulated_fees \in Nat /\ core.wraps \in Nat

(***************************************************************************)
(* Nothing is made or lost: what is mined and what of the fees has been    *)
(* paid again, since the last budget, is in the balances that the supply   *)
(* does not count yet.  At every maintenance this is the assertion of      *)
(* process_budget, current_supply == _real_supply.total() +                *)
(* confidential_supply, whatever was paid, hidden or vested in between.    *)
(***************************************************************************)
SupplyAccounted ==
  core.current_supply + SupplyDelta(dgp, core) =
    InBalances(balance) + InBalances(vesting) + core.confidential_supply

(***************************************************************************)
(* confidential_supply is what the blinded balances and the unspent        *)
(* confidential notes hide, by whatever way it came in, was split, left    *)
(* with fees or was spent, and also where an output hides less than        *)
(* nothing or a public output is negative.  One exception: a transfer      *)
(* whose public volume is negative commits to that number unsigned, so     *)
(* that what is hidden falls behind by a whole Word.                       *)
(***************************************************************************)
ConfidentialBacked ==
  core.confidential_supply =
    Total(blinded, DOMAIN blinded) + NoteValue(confidential, Unspent(confidential))
      + Word * core.wraps

(***************************************************************************)
(* The fees that are paid again with the blocks of an interval never       *)
(* exceed those of the budget, late blocks and maintenance gaps included,  *)
(* so that a negative share, which "should never happen", does not.  This  *)
(* is so while the block interval stays as it is.                          *)
(***************************************************************************)
FeesCoverPay == dgp.unspent_fee_budget >= 0

(***************************************************************************)
(* From block VOTE_REWARD_CHECK on, where update_signing_miner makes it,   *)
(* the assertion tot_deposited <= voters_reward holds for every miner and  *)
(* every pay, so that votes, proxies and payments since the maintenance    *)
(* never keep a miner's block from being applied.                          *)
(***************************************************************************)
VotersWithinReward ==
  LET num == dgp.head_block_number + 1
      pay == Pay(dgp, gpo.parameters, num)
  IN  num >= VoteRewardCheck =>
        \A m \in Miners : Total(VoterPay(num, m, pay), Accounts) <= VotersReward(pay)

----------------------------------------------------------------------------
\* What the vesting balance id is worth to its owner.
Promise(id) ==
  INSTANCE VestingBalance WITH
    v    <- IF id \in DOMAIN vesting
            THEN [balance |-> vesting[id].balance, policy |-> vesting[id].policy]
            ELSE NoVesting,
    now  <- dgp.time,
    held <- IF id \in DOMAIN held THEN held[id] ELSE 0,
    NoBalance  <- NoVesting,
    Amounts    <- 1 .. MaxBalance,
    Policies   <- Policies \cup
                  {[kind |-> "cdd", vesting_seconds |-> p.miner_pay_vesting_seconds,
                    start_claim |-> 0] : p \in Parameters},
    Times      <- {GenesisTime} \cup Times

(***************************************************************************)
(* Every vesting balance behaves as VestingBalance says, also those that   *)
(* pay is deposited to: in one step of the chain each is deposited to,     *)
(* withdrawn from or left alone once, at the time of the head block, and   *)
(* none is replaced when the account or the miner takes a new one.  Ids    *)
(* that are not used yet are NoBalance before and after a step.            *)
(***************************************************************************)
VestingPromise ==
  /\ \A owner \in Accounts, n \in 1 .. MaxBlocks : Promise(<<owner, n>>)!Init
  /\ [][\A id \in DOMAIN vesting \cup DOMAIN vesting' :
           [Promise(id)!Next]_(Promise(id)!vars)]_vars

(***************************************************************************)
(* The same of the promise itself, for the balances of accounts and pay:   *)
(* the assertions of the policies hold at every later time, and the coin   *)
(* age that counts was held, whatever the order of pay and withdrawals.    *)
(***************************************************************************)
VestingKept ==
  \A id \in DOMAIN vesting : Promise(id)!WithdrawBounded /\ Promise(id)!EarnedByHolding
============================================================================
