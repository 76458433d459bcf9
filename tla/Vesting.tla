------------------------------ MODULE Vesting ------------------------------
(***************************************************************************)
(* Vesting balances as functions of the object and the time                *)
(* (libraries/chain/vesting_balance_object.cpp): what is in the balance,   *)
(* how much of it may leave, and what a deposit or a withdrawal makes of   *)
(* it.  Amounts are of the core asset; 128 bits hold every product.        *)
(***************************************************************************)
EXTENDS Integers, FiniteSetsExt

\* The seconds by which coin-seconds are counted: a balance that does not
\* have to vest counts one.
AtLeastOne(seconds) == Max({seconds, 1})

(* init_policy_visitor: the policy of a new balance, from the initializer i *)
InitPolicy(i, amount, now) ==
  IF i.kind = "linear"
  THEN [kind |-> "linear", begin_timestamp |-> i.begin_timestamp,
        vesting_cliff_seconds |-> i.vesting_cliff_seconds,
        vesting_duration_seconds |-> i.vesting_duration_seconds, begin_balance |-> amount]
  ELSE [kind |-> "cdd", vesting_seconds |-> i.vesting_seconds, start_claim |-> i.start_claim,
        coin_seconds_earned |-> 0, coin_seconds_earned_last_update |-> now]

----------------------------------------------------------------------------
(* linear_vesting_policy *)

\* What has vested when elapsed seconds have passed, the cliff included.
TotalVested(p, elapsed) ==
  IF elapsed < p.vesting_duration_seconds
  THEN (p.begin_balance * elapsed) \div p.vesting_duration_seconds
  ELSE p.begin_balance

(* linear_vesting_policy::get_allowed_withdraw *)
LinearAllowed(p, balance, now) ==
  LET elapsed == now - p.begin_timestamp
  IN  IF elapsed > 0 /\ elapsed >= p.vesting_cliff_seconds
      THEN TotalVested(p, elapsed) - (p.begin_balance - balance)
      ELSE 0

----------------------------------------------------------------------------
(* cdd_vesting_policy *)

(* compute_coin_seconds_earned *)
CoinSecondsEarned(p, balance, now) ==
  Min({p.coin_seconds_earned + balance * (now - p.coin_seconds_earned_last_update),
       balance * AtLeastOne(p.vesting_seconds)})

(* update_coin_seconds_earned *)
Updated(p, balance, now) ==
  [p EXCEPT !.coin_seconds_earned = CoinSecondsEarned(p, balance, now),
            !.coin_seconds_earned_last_update = now]

(* cdd_vesting_policy::get_allowed_withdraw *)
CddAllowed(p, balance, now) ==
  IF now <= p.start_claim THEN 0
  ELSE CoinSecondsEarned(p, balance, now) \div AtLeastOne(p.vesting_seconds)

----------------------------------------------------------------------------
(* vesting_balance_object *)

(* get_allowed_withdraw *)
AllowedWithdraw(v, now) ==
  IF v.policy.kind = "linear" THEN LinearAllowed(v.policy, v.balance, now)
  ELSE CddAllowed(v.policy, v.balance, now)

(* Seeded fault: the deposit is there before its coin-seconds are brought up to date. *)
DepositFirst(v, now, amount) ==
  [v EXCEPT !.policy  = IF v.policy.kind = "cdd" THEN Updated(@, v.balance + amount, now) ELSE @,
            !.balance = @ + amount]

(* deposit *)
Deposit(v, now, amount) ==
  [v EXCEPT !.policy  = IF v.policy.kind = "cdd" THEN Updated(@, v.balance, now) ELSE @,
            !.balance = @ + amount]

(* withdraw *)
Withdraw(v, now, amount) ==
  [v EXCEPT !.policy =
              IF v.policy.kind = "cdd"
              THEN LET p == Updated(@, v.balance, now)
                   IN  [p EXCEPT !.coin_seconds_earned =
                                   @ - amount * AtLeastOne(p.vesting_seconds)]
              ELSE @,
            !.balance = @ - amount]
============================================================================
