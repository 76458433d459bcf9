--------------------------- MODULE VestingBalance ---------------------------
(***************************************************************************)
(* One vesting balance from its creation on (vesting_balance_object.cpp):  *)
(* whoever deposits or withdraws and when, as its promise to its owner.    *)
(* Supply implements it for each of its vesting balances.                  *)
(***************************************************************************)
EXTENDS Vesting

CONSTANTS
  Amounts,       \* of deposits and withdrawals
  Policies,      \* initializers of policies
  Times,         \* times of the head block
  MaxTime,       \* to which withdrawals are looked ahead
  MaxBalance,    \* bound: the balance
  NoBalance      \* before it is created

VARIABLES
  v,      \* vesting_balance_object
  now,    \* the time of the head block
  held    \* history: the coin-seconds held and not used by a withdrawal

vars == <<v, now, held>>

Init == v = NoBalance /\ now \in Times /\ held = 0

----------------------------------------------------------------------------
\* The coin-seconds by time t.
Held(t) == IF v = NoBalance THEN 0 ELSE held + v.balance * (t - now)

\* Blocks that leave the balance alone.
Pass(t) == UNCHANGED v /\ now' = t /\ held' = Held(t)

(* vesting_balance_create_evaluator, deposit_lazy_vesting *)
Create(t, amount, i) ==
  /\ v = NoBalance
  /\ v' = [balance |-> amount, policy |-> InitPolicy(i, amount, t)]
  /\ now' = t /\ held' = 0

(* deposit_lazy_vesting, which adds to balances with coin age only *)
DepositTo(t, amount) ==
  /\ v # NoBalance /\ v.policy.kind = "cdd"
  /\ v.balance + amount <= MaxBalance
  /\ v' = Deposit(v, t, amount)
  /\ now' = t /\ held' = Held(t)

(* vesting_balance_withdraw_evaluator *)
WithdrawFrom(t, amount) ==
  /\ v # NoBalance
  /\ amount <= AllowedWithdraw(v, t)
  /\ v' = Withdraw(v, t, amount)
  /\ now' = t
  /\ held' = Held(t) - IF v.policy.kind = "cdd"
                       THEN amount * AtLeastOne(v.policy.vesting_seconds) ELSE 0

Next ==
  \E t \in Times :
    /\ t >= now
    /\ \/ Pass(t)
       \/ \E amount \in Amounts, i \in Policies : Create(t, amount, i)
       \/ \E amount \in Amounts : DepositTo(t, amount) \/ WithdrawFrom(t, amount)

Spec == Init /\ [][Next]_vars

----------------------------------------------------------------------------
(***************************************************************************)
(* What the policies assert, at every later time: no more may be withdrawn *)
(* than there is, and never less than nothing, whatever was deposited and  *)
(* withdrawn before and however the divisions round.                       *)
(***************************************************************************)
WithdrawBounded ==
  v # NoBalance => \A t \in now .. MaxTime : AllowedWithdraw(v, t) \in 0 .. v.balance

(***************************************************************************)
(* Coins with coin age leave only after the seconds that are asked for:    *)
(* the coin-seconds that count for a withdrawal were held and not used by  *)
(* another one, through all deposits, caps and withdrawals.                *)
(***************************************************************************)
EarnedByHolding ==
  v # NoBalance /\ v.policy.kind = "cdd" =>
    CoinSecondsEarned(v.policy, v.balance, now) <= held
============================================================================
