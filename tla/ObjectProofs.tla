---------------------------- MODULE ObjectProofs ----------------------------
(***************************************************************************)
(* What the functions of the chain's objects return, for every object: the *)
(* slots of a head block (Slots), what a vesting balance allows and becomes *)
(* (Vesting), and sums over objects (Totals).  Used wherever a component   *)
(* applies them.                                                           *)
(***************************************************************************)
EXTENDS Slots, Vesting, Totals, FiniteSetTheorems, WellFoundedInduction, TLAPS

----------------------------------------------------------------------------
(* Arithmetic. *)

(***************************************************************************)
(* What the integer divisions of the slot functions round to.              *)
(***************************************************************************)
LEMMA Division ==
  ASSUME NEW a \in Nat, NEW b \in Nat \ {0}
  PROVE  /\ a \div b \in Nat
         /\ (a \div b) * b <= a
         /\ a < (a \div b + 1) * b
  BY SMT

(***************************************************************************)
(* Products with an interval keep the order.                               *)
(***************************************************************************)
LEMMA Products ==
  ASSUME NEW x \in Int, NEW y \in Int, NEW b \in Nat \ {0}
  PROVE  /\ x * b \in Int
         /\ (x + y) * b = x * b + y * b
         /\ x <= y => x * b <= y * b
         /\ x \in Nat => x <= x * b
  BY SMT

----------------------------------------------------------------------------
(* Slots and times. *)

IsClock(d) ==
  /\ d.head_block_number \in Nat
  /\ d.time \in Nat
  /\ d.maintenance_flag \in BOOLEAN

IsParameters(p) ==
  /\ p.block_interval \in Nat \ {0}
  /\ p.maintenance_skip_slots \in Nat

(***************************************************************************)
(* get_slot_time: the first slot is after the head block, the others       *)
(* follow it one interval apart.                                           *)
(***************************************************************************)
LEMMA SlotTimes ==
  ASSUME NEW d, IsClock(d), NEW p, IsParameters(p)
  PROVE  /\ SlotTime(d, p, 1) \in Nat
         /\ d.time < SlotTime(d, p, 1)
         /\ \A n \in Nat \ {0} :
               SlotTime(d, p, n) = SlotTime(d, p, 1) + (n - 1) * p.block_interval
<1> DEFINE b == p.block_interval
           q == d.time \div b
           gap == Gap(d, p)
<1>1. b \in Nat \ {0} /\ gap \in Nat /\ d.time \in Nat
  BY DEF IsClock, IsParameters, Gap
<1>2. q \in Nat /\ d.time < (q + 1) * b
  BY <1>1, Division
<1>3. CASE d.head_block_number = 0
  <2>1. \A n \in Nat \ {0} : SlotTime(d, p, n) = d.time + n * b
    BY <1>3 DEF SlotTime
  <2>2. SlotTime(d, p, 1) = d.time + b
    BY <2>1, <1>1
  <2>3. \A n \in Nat \ {0} : (1 + (n - 1)) * b = 1 * b + (n - 1) * b
    BY <1>1, Products
  <2>4. \A n \in Nat \ {0} : n * b = b + (n - 1) * b
    BY <2>3, <1>1
  <2> QED
    BY <1>1, <2>1, <2>2, <2>4, Products
<1>4. CASE d.head_block_number # 0
  <2>1. \A n \in Nat \ {0} : SlotTime(d, p, n) = (q + n + gap) * b
    BY <1>4 DEF SlotTime
  <2>2. SlotTime(d, p, 1) = (q + 1 + gap) * b
    BY <2>1
  <2>3. (q + 1) * b <= (q + 1 + gap) * b
    BY <1>1, <1>2, Products
  <2>4. \A n \in Nat \ {0} : ((q + 1 + gap) + (n - 1)) * b = (q + 1 + gap) * b + (n - 1) * b
    BY <1>1, <1>2, Products
  <2>5. \A n \in Nat \ {0} : (q + 1 + gap) + (n - 1) = q + n + gap
    BY <1>1, <1>2
  <2>6. (q + 1 + gap) * b \in Int
    BY <1>1, <1>2, Products
  <2>7. (q + 1) * b \in Int
    BY <1>1, <1>2, Products
  <2>8. d.time < SlotTime(d, p, 1) /\ SlotTime(d, p, 1) \in Nat
    BY <1>1, <1>2, <2>2, <2>3, <2>6, <2>7
  <2> QED
    BY <2>1, <2>2, <2>4, <2>5, <2>8
<1> QED
  BY <1>3, <1>4

(***************************************************************************)
(* get_slot_at_time is the inverse of get_slot_time: a slot is at or       *)
(* before a time exactly if its number is no greater.                      *)
(***************************************************************************)
THEOREM SlotAtInverse ==
  ASSUME NEW d, IsClock(d), NEW p, IsParameters(p), NEW when \in Nat
  PROVE  /\ SlotAt(d, p, when) \in Nat
         /\ \A n \in Nat \ {0} : SlotTime(d, p, n) <= when <=> n <= SlotAt(d, p, when)
<1> DEFINE b == p.block_interval
           first == SlotTime(d, p, 1)
           q == (when - first) \div b
<1>1. b \in Nat \ {0} /\ first \in Nat
  BY SlotTimes DEF IsParameters
<1>2. \A n \in Nat \ {0} : SlotTime(d, p, n) = first + (n - 1) * b
  BY SlotTimes
<1>3. CASE when < first
  <2>1. SlotAt(d, p, when) = 0
    BY <1>3 DEF SlotAt
  <2>2. \A n \in Nat \ {0} : (n - 1) * b \in Nat
    BY <1>1
  <2> QED
    BY <1>1, <1>2, <1>3, <2>1, <2>2
<1>4. CASE ~(when < first)
  <2>1. SlotAt(d, p, when) = q + 1
    BY <1>4 DEF SlotAt
  <2>2. when - first \in Nat
    BY <1>1, <1>4
  <2>3. q \in Nat /\ q * b <= when - first /\ when - first < (q + 1) * b
    BY <1>1, <2>2, Division
  <2>4. ASSUME NEW n \in Nat \ {0}
        PROVE  SlotTime(d, p, n) <= when <=> n <= q + 1
    <3>1. (n - 1) * b \in Int /\ q * b \in Int /\ (q + 1) * b \in Int
      BY <1>1, <2>3, Products
    <3>2. n - 1 <= q => (n - 1) * b <= q * b
      BY <1>1, <2>3, Products
    <3>3. q + 1 <= n - 1 => (q + 1) * b <= (n - 1) * b
      BY <1>1, <2>3, Products
    <3> QED
      BY <1>1, <1>2, <2>2, <2>3, <3>1, <3>2, <3>3
  <2> QED
    BY <2>1, <2>3, <2>4
<1> QED
  BY <1>3, <1>4

(***************************************************************************)
(* A slot is no later than its time is great: the slots at or before a     *)
(* time up to MaxTime are among the first MaxTime.                         *)
(***************************************************************************)
LEMMA SlotsBounded ==
  ASSUME NEW d, IsClock(d), NEW p, IsParameters(p), NEW when \in Nat
  PROVE  SlotAt(d, p, when) <= when
<1> DEFINE n == SlotAt(d, p, when)
<1>1. n \in Nat /\ (n # 0 => SlotTime(d, p, n) <= when)
  BY SlotAtInverse
<1>2. CASE n = 0
  BY <1>2
<1>3. CASE n # 0
  <2>1. SlotTime(d, p, n) = SlotTime(d, p, 1) + (n - 1) * p.block_interval
    BY <1>1, <1>3, SlotTimes
  <2>2. n - 1 <= (n - 1) * p.block_interval /\ (n - 1) * p.block_interval \in Int
    BY <1>1, <1>3, Products DEF IsParameters
  <2>3. SlotTime(d, p, 1) \in Nat /\ d.time \in Nat /\ d.time < SlotTime(d, p, 1)
    BY SlotTimes DEF IsClock
  <2> QED
    BY <1>1, <1>3, <2>1, <2>2, <2>3
<1> QED
  BY <1>2, <1>3

(***************************************************************************)
(* A number of the set that none is above is the one Max chooses.          *)
(***************************************************************************)
LEMMA MaxIs ==
  ASSUME NEW S \in SUBSET Int, NEW x \in S, \A y \in S : y <= x
  PROVE  Max(S) = x
<1>1. \A y \in S : x >= y
  OBVIOUS
<1>2. Max(S) \in S /\ \A y \in S : Max(S) >= y
  BY <1>1, Zenon DEF Max
<1>3. Max(S) >= x /\ x >= Max(S) /\ Max(S) \in Int
  BY <1>1, <1>2
<1> QED
  BY <1>3

----------------------------------------------------------------------------
(* Divisions and products of vesting balances. *)

(***************************************************************************)
(* The divisions of the policies round down and keep the order.            *)
(***************************************************************************)
LEMMA RoundsDown ==
  ASSUME NEW a \in Nat, NEW d \in Nat \ {0}
  PROVE  /\ a \div d \in Nat
         /\ (a \div d) * d <= a
         /\ a < (a \div d) * d + d
  BY SMT

(***************************************************************************)
(* Products with the seconds or with the balance keep the order.           *)
(***************************************************************************)
LEMMA ProductOrder ==
  ASSUME NEW a \in Nat, NEW b \in Nat, NEW d \in Nat, a <= b
  PROVE  a * d \in Nat /\ b * d \in Nat /\ a * d <= b * d
<1>1. PICK c \in Nat : b = a + c
  <2>1. b - a \in Nat /\ b = a + (b - a)
    BY SMT
  <2> QED BY <2>1
<1>2. b * d = a * d + c * d
  BY <1>1, SMT
<1>3. a * d \in Nat /\ c * d \in Nat /\ b * d \in Nat
  BY SMT
<1> QED BY <1>2, <1>3, SMT

(***************************************************************************)
(* What remains of coin-seconds or time when each is divided: no more than *)
(* the number that bounds it from above, when that is a multiple.          *)
(***************************************************************************)
LEMMA DivisionBelow ==
  ASSUME NEW a \in Nat, NEW q \in Nat, NEW d \in Nat \ {0}, a <= q * d
  PROVE  a \div d <= q
<1> DEFINE m == a \div d
<1>1. m \in Nat /\ m * d <= a
  BY RoundsDown
<1> HIDE DEF m
<1>2. ASSUME m > q PROVE FALSE
  <2>1. (q + 1) * d <= m * d
    BY <1>1, <1>2, ProductOrder, q + 1 \in Nat, d \in Nat, q + 1 <= m
  <2>2. (q + 1) * d = q * d + d
    BY SMT
  <2>3. q * d \in Nat /\ m * d \in Nat
    BY <1>1, SMT
  <2> QED BY <1>1, <2>1, <2>2, <2>3, SMT
<1>3. m <= q
  BY <1>1, <1>2, SMT
<1> QED BY <1>3 DEF m

(***************************************************************************)
(* A greater number does not have a smaller quotient.                      *)
(***************************************************************************)
LEMMA DivisionOrder ==
  ASSUME NEW a \in Nat, NEW b \in Nat, NEW d \in Nat \ {0}, a <= b
  PROVE  a \div d <= b \div d
<1> DEFINE m == a \div d
           n == b \div d
<1>1. m \in Nat /\ n \in Nat /\ m * d <= a /\ b < n * d + d
  BY RoundsDown
<1> HIDE DEF m, n
<1>2. ASSUME m > n PROVE FALSE
  <2>1. (n + 1) * d <= m * d
    BY <1>1, <1>2, ProductOrder, n + 1 \in Nat, d \in Nat, n + 1 <= m
  <2>2. (n + 1) * d = n * d + d
    BY <1>1, SMT
  <2>3. n * d \in Nat /\ m * d \in Nat
    BY <1>1, SMT
  <2> QED BY <1>1, <2>1, <2>2, <2>3, SMT
<1>3. m <= n
  BY <1>1, <1>2, SMT
<1> QED BY <1>3 DEF m, n
----------------------------------------------------------------------------
(* Policies. *)

(***************************************************************************)
(* The seconds a withdrawal is divided by are never zero.                  *)
(***************************************************************************)
LEMMA AtLeastOneIsPositive ==
  ASSUME NEW s \in Nat PROVE AtLeastOne(s) \in Nat \ {0}
<1>1. \E x \in {s, 1} : \A y \in {s, 1} : x >= y
  BY SMT
<1>2. Max({s, 1}) \in {s, 1} /\ \A y \in {s, 1} : Max({s, 1}) >= y
  BY <1>1 DEF Max
<1> QED BY <1>2, SMT DEF AtLeastOne

(***************************************************************************)
(* std::min of two amounts of coin-seconds is one of them and not above    *)
(* either.                                                                 *)
(***************************************************************************)
LEMMA MinOfTwo ==
  ASSUME NEW a \in Nat, NEW b \in Nat
  PROVE  Min({a, b}) \in {a, b} /\ Min({a, b}) <= a /\ Min({a, b}) <= b
<1>1. \E x \in {a, b} : \A y \in {a, b} : x <= y
  BY SMT
<1>2. Min({a, b}) \in {a, b} /\ \A y \in {a, b} : Min({a, b}) <= y
  BY <1>1 DEF Min
<1> QED BY <1>2

CddPolicies ==
  [kind : {"cdd"}, vesting_seconds : Nat, start_claim : Nat,
   coin_seconds_earned : Nat, coin_seconds_earned_last_update : Nat]

LinearPolicies ==
  [kind : {"linear"}, begin_timestamp : Nat, vesting_cliff_seconds : Nat,
   vesting_duration_seconds : Nat, begin_balance : Nat]

\* A policy of coin age, last brought up to date not after t.
Cdd(p, t) == p \in CddPolicies /\ p.coin_seconds_earned_last_update <= t

\* A linear policy of which at least what has left the balance has vested at t.
Linear(p, balance, t) ==
  /\ p \in LinearPolicies
  /\ balance <= p.begin_balance
  /\ balance < p.begin_balance =>
       /\ t > p.begin_timestamp /\ t - p.begin_timestamp >= p.vesting_cliff_seconds
       /\ p.begin_balance - balance <= TotalVested(p, t - p.begin_timestamp)

(***************************************************************************)
(* compute_coin_seconds_earned: within the cap, and growing by no more     *)
(* than the coins that are held.                                           *)
(***************************************************************************)
LEMMA CoinSeconds ==
  ASSUME NEW p, NEW b \in Nat, NEW s \in Nat, NEW t \in Nat, Cdd(p, s), s <= t
  PROVE  /\ CoinSecondsEarned(p, b, t) \in Nat
         /\ CoinSecondsEarned(p, b, t) <= b * AtLeastOne(p.vesting_seconds)
         /\ CoinSecondsEarned(p, b, t) <= CoinSecondsEarned(p, b, s) + b * (t - s)
         /\ CoinSecondsEarned(p, b, t) <=
              p.coin_seconds_earned + b * (t - p.coin_seconds_earned_last_update)
<1> DEFINE e   == p.coin_seconds_earned
           l   == p.coin_seconds_earned_last_update
           cap == b * AtLeastOne(p.vesting_seconds)
           c(u) == CoinSecondsEarned(p, b, u)
<1>1. e \in Nat /\ l \in Nat /\ l <= s /\ AtLeastOne(p.vesting_seconds) \in Nat \ {0}
  BY AtLeastOneIsPositive DEF Cdd, CddPolicies
<1>2. ASSUME NEW u \in Nat, l <= u
      PROVE  /\ e + b * (u - l) \in Nat /\ cap \in Nat
             /\ c(u) \in {e + b * (u - l), cap}
             /\ c(u) <= e + b * (u - l) /\ c(u) <= cap
  <2>1. u - l \in Nat
    BY <1>1, <1>2, SMT
  <2>2. b * (u - l) \in Nat /\ cap \in Nat
    BY <1>1, <2>1, SMT
  <2>3. e + b * (u - l) \in Nat
    BY <1>1, <2>2, SMT
  <2> QED BY <2>2, <2>3, MinOfTwo DEF CoinSecondsEarned
<1>3. b * (t - l) = b * (s - l) + b * (t - s) /\ b * (t - s) \in Nat
  <2>1. s - l \in Nat /\ t - s \in Nat /\ t - l = (s - l) + (t - s)
    BY <1>1, SMT
  <2>2. \A x, y \in Nat : b * (x + y) = b * x + b * y /\ b * y \in Nat
    BY SMT
  <2> QED BY <2>1, <2>2
<1>4. l <= t
  BY <1>1, SMT
<1>5. c(s) \in Nat /\ c(t) \in Nat
  BY <1>1, <1>2, <1>4
<1>6. c(t) <= cap /\ c(t) <= e + b * (t - l)
  BY <1>2, <1>4
<1>7. c(s) = e + b * (s - l) \/ c(s) = cap
  BY <1>1, <1>2
<1>8. e + b * (s - l) \in Nat /\ cap \in Nat
  BY <1>1, <1>2
<1>9. c(t) <= c(s) + b * (t - s)
  <2> DEFINE w == b * (s - l)
             y == b * (t - s)
             z == b * (t - l)
             cs == c(s)
             ct == c(t)
  <2>1. /\ cs \in Nat /\ ct \in Nat /\ cap \in Nat /\ e \in Nat /\ y \in Nat
        /\ z = w + y /\ e + w \in Nat
        /\ ct <= cap /\ ct <= e + z
        /\ cs = e + w \/ cs = cap
    BY <1>1, <1>3, <1>5, <1>6, <1>7, <1>8
  <2>2. w \in Int /\ z \in Int
    BY <1>1, SMT
  <2> HIDE DEF w, y, z, cs, ct, cap, e
  <2>3. ct <= cs + y
    BY <2>1, <2>2, SMT
  <2> QED BY <2>3 DEF cs, ct, y
<1> QED BY <1>5, <1>6, <1>9

(***************************************************************************)
(* What has vested grows with time up to the whole of begin_balance.       *)
(***************************************************************************)
LEMMA TotalVestedGrows ==
  ASSUME NEW p \in LinearPolicies, NEW e \in Nat, NEW f \in Nat, e <= f
  PROVE  /\ TotalVested(p, e) \in Nat
         /\ TotalVested(p, e) <= p.begin_balance
         /\ TotalVested(p, e) <= TotalVested(p, f)
<1> DEFINE B == p.begin_balance
           D == p.vesting_duration_seconds
<1>1. B \in Nat /\ D \in Nat
  BY DEF LinearPolicies
<1>2. ASSUME NEW g \in Nat, g < D
      PROVE  /\ D \in Nat \ {0} /\ B * g \in Nat
             /\ (B * g) \div D \in Nat /\ (B * g) \div D <= B
             /\ TotalVested(p, g) = (B * g) \div D
  <2>1. D \in Nat \ {0} /\ B * g \in Nat /\ B * D \in Nat /\ B * g = g * B /\ B * D = D * B
    BY <1>1, <1>2, SMT
  <2>2. B * g <= B * D
    BY <1>1, <1>2, <2>1, ProductOrder, g <= D
  <2>3. (B * g) \div D \in Nat
    BY <2>1, RoundsDown
  <2>4. (B * g) \div D <= B
    BY <1>1, <2>1, <2>2, DivisionBelow
  <2> QED BY <1>2, <2>1, <2>3, <2>4 DEF TotalVested
<1>3. ASSUME NEW g \in Nat, ~(g < D)
      PROVE  TotalVested(p, g) = B
  BY <1>3 DEF TotalVested
<1>4. CASE f < D
  <2>1. e < D
    BY <1>1, <1>4, SMT
  <2>2. B * e <= B * f
    <3>1. B * e = e * B /\ B * f = f * B
      BY <1>1, SMT
    <3> QED BY <1>1, <3>1, ProductOrder
  <2>3. (B * e) \div D <= (B * f) \div D
    BY <1>2, <1>4, <2>1, <2>2, DivisionOrder
  <2> QED BY <1>2, <1>4, <2>1, <2>3
<1>5. CASE ~(f < D)
  <2>1. TotalVested(p, f) = B
    BY <1>3, <1>5
  <2>2. TotalVested(p, e) \in Nat /\ TotalVested(p, e) <= B
    <3>1. CASE e < D
      BY <1>2, <3>1
    <3>2. CASE ~(e < D)
      BY <1>1, <1>3, <3>2, B <= B
    <3> QED BY <3>1, <3>2
  <2> QED BY <2>1, <2>2
<1> QED BY <1>2, <1>4, <1>5, e < D \/ ~(e < D)

(***************************************************************************)
(* linear_vesting_policy::get_allowed_withdraw: its assertions hold, now   *)
(* and later.                                                              *)
(***************************************************************************)
LEMMA LinearIsBounded ==
  ASSUME NEW p, NEW b \in Nat, NEW s \in Nat, NEW t \in Nat, Linear(p, b, s), s <= t
  PROVE  Linear(p, b, t) /\ LinearAllowed(p, b, t) \in 0 .. b
<1> DEFINE B == p.begin_balance
           begin == p.begin_timestamp
           cliff == p.vesting_cliff_seconds
           vested(u) == TotalVested(p, u - begin)
<1>1. B \in Nat /\ begin \in Nat /\ cliff \in Nat /\ p \in LinearPolicies /\ b <= B
  BY DEF Linear, LinearPolicies
<1>2. ASSUME NEW u \in Nat, u > begin
      PROVE  vested(u) \in Nat /\ vested(u) <= B
  <2>1. u - begin \in Nat /\ u - begin <= u - begin
    BY <1>1, <1>2, SMT
  <2> QED BY <1>1, <2>1, TotalVestedGrows
<1>3. Linear(p, b, t)
  <2>1. CASE b < B
    <3>1. s > begin /\ s - begin >= cliff /\ B - b <= vested(s)
      BY <2>1 DEF Linear
    <3>2. s - begin \in Nat /\ t - begin \in Nat /\ s - begin <= t - begin
      BY <1>1, <3>1, SMT
    <3>3. vested(s) <= vested(t)
      BY <1>1, <3>2, TotalVestedGrows
    <3>4. t > begin /\ t - begin >= cliff
      BY <1>1, <3>1, SMT
    <3>5. vested(s) \in Nat /\ vested(t) \in Nat
      BY <1>2, <3>1, <3>4
    <3> HIDE DEF vested
    <3>6. B - b <= vested(t)
      BY <1>1, <3>1, <3>3, <3>5, SMT
    <3> QED BY <1>1, <3>4, <3>6 DEF Linear, vested
  <2>2. CASE ~(b < B)
    BY <1>1, <2>2 DEF Linear
  <2> QED BY <2>1, <2>2
<1>4. CASE t > begin /\ t - begin >= cliff
  <2>1. LinearAllowed(p, b, t) = vested(t) - (B - b)
    <3>1. t - begin > 0
      BY <1>1, <1>4, SMT
    <3> QED BY <1>4, <3>1 DEF LinearAllowed
  <2>2. vested(t) \in Nat /\ vested(t) <= B
    BY <1>2, <1>4
  <2>3. B - b <= vested(t)
    <3>1. CASE b < B
      BY <1>3, <3>1 DEF Linear
    <3>2. CASE ~(b < B)
      BY <1>1, <2>2, <3>2, SMT
    <3> QED BY <3>1, <3>2
  <2> HIDE DEF vested
  <2>4. vested(t) - (B - b) \in 0 .. b
    BY <1>1, <2>2, <2>3, SMT
  <2> QED BY <1>3, <2>1, <2>4
<1>5. CASE ~(t > begin /\ t - begin >= cliff)
  <2>1. ~(t - begin > 0 /\ t - begin >= cliff)
    BY <1>1, <1>5, SMT
  <2>2. LinearAllowed(p, b, t) = 0
    BY <2>1 DEF LinearAllowed
  <2> QED BY <1>3, <2>2, 0 \in 0 .. b
<1> QED BY <1>4, <1>5

(***************************************************************************)
(* cdd_vesting_policy::get_allowed_withdraw: its assertion holds, and so   *)
(* does the one of on_withdraw.                                            *)
(***************************************************************************)
LEMMA CddIsBounded ==
  ASSUME NEW p, NEW b \in Nat, NEW t \in Nat, Cdd(p, t)
  PROVE  /\ CddAllowed(p, b, t) \in 0 .. b
         /\ \A amount \in Nat : amount <= CddAllowed(p, b, t) =>
              amount * AtLeastOne(p.vesting_seconds) <= CoinSecondsEarned(p, b, t)
<1> DEFINE s == AtLeastOne(p.vesting_seconds)
           c == CoinSecondsEarned(p, b, t)
<1>1. s \in Nat \ {0}
  BY AtLeastOneIsPositive DEF Cdd, CddPolicies
<1>2. c \in Nat /\ c <= b * s
  BY CoinSeconds, t <= t
<1> HIDE DEF s, c
<1>3. c \div s \in Nat /\ c \div s <= b /\ (c \div s) * s <= c
  BY <1>1, <1>2, RoundsDown, DivisionBelow
<1>4. CddAllowed(p, b, t) \in {0, c \div s}
  BY DEF CddAllowed, s, c
<1>5. ASSUME NEW amount \in Nat, amount <= CddAllowed(p, b, t)
      PROVE  amount * s <= c
  <2>1. amount <= c \div s
    BY <1>3, <1>4, <1>5, SMT
  <2>2. amount * s <= (c \div s) * s /\ amount * s \in Nat /\ (c \div s) * s \in Nat
    BY <1>1, <1>3, <2>1, ProductOrder
  <2> QED BY <1>2, <1>3, <2>2, SMT
<1> QED BY <1>3, <1>4, <1>5, SMT DEF s, c
----------------------------------------------------------------------------
(* The invariant. *)

Objects == [balance : Nat, policy : CddPolicies \cup LinearPolicies]

\* What a balance o keeps of its history at time t, with h coin-seconds held.
Kept(o, t, h) ==
  /\ o \in Objects
  /\ o.policy.kind = "cdd" => Cdd(o.policy, t) /\ CoinSecondsEarned(o.policy, o.balance, t) <= h
  /\ o.policy.kind = "linear" => Linear(o.policy, o.balance, t)

(***************************************************************************)
(* The kind of a policy says which of the two it is.                       *)
(***************************************************************************)
LEMMA PolicyOfKind ==
  ASSUME NEW o \in Objects
  PROVE  /\ o.balance \in Nat
         /\ \/ o.policy.kind = "cdd" /\ o.policy \in CddPolicies
            \/ o.policy.kind = "linear" /\ o.policy \in LinearPolicies
<1>1. o.balance \in Nat /\ o.policy \in CddPolicies \cup LinearPolicies
  BY DEF Objects
<1>2. \A p \in CddPolicies : p.kind = "cdd"
  BY DEF CddPolicies
<1>3. \A p \in LinearPolicies : p.kind = "linear"
  BY DEF LinearPolicies
<1>4. CASE o.policy \in CddPolicies
  BY <1>1, <1>2, <1>4
<1>5. CASE o.policy \in LinearPolicies
  BY <1>1, <1>3, <1>5
<1> QED BY <1>1, <1>4, <1>5

(***************************************************************************)
(* A balance that is left alone keeps its promise as time passes.          *)
(***************************************************************************)
LEMMA PassKeeps ==
  ASSUME NEW o, NEW s \in Nat, NEW t \in Nat, s <= t, NEW h \in Int, Kept(o, s, h)
  PROVE  Kept(o, t, h + o.balance * (t - s)) /\ h + o.balance * (t - s) \in Int
<1> DEFINE b == o.balance
           p == o.policy
           g == b * (t - s)
<1>1. o \in Objects /\ b \in Nat
  BY PolicyOfKind DEF Kept
<1>2. g \in Int /\ h + g \in Int
  <2>1. t - s \in Int
    BY SMT
  <2>2. g \in Int
    BY <1>1, <2>1, SMT
  <2> HIDE DEF g
  <2> QED BY <2>2, SMT
<1>3. CASE p.kind = "cdd"
  <2>1. Cdd(p, s) /\ CoinSecondsEarned(p, b, s) <= h
    BY <1>3 DEF Kept
  <2>2. CoinSecondsEarned(p, b, t) <= CoinSecondsEarned(p, b, s) + g
    BY <1>1, <2>1, CoinSeconds
  <2>3. CoinSecondsEarned(p, b, t) \in Nat /\ CoinSecondsEarned(p, b, s) \in Nat
    BY <1>1, <2>1, CoinSeconds, s <= s
  <2>4. Cdd(p, t)
    <3>1. p.coin_seconds_earned_last_update \in Nat
      BY <2>1 DEF Cdd, CddPolicies
    <3> QED BY <2>1, <3>1, SMT DEF Cdd
  <2>5. CoinSecondsEarned(p, b, t) <= h + g
    <3> DEFINE ct == CoinSecondsEarned(p, b, t)
               cs == CoinSecondsEarned(p, b, s)
    <3>1. ct \in Nat /\ cs \in Nat /\ ct <= cs + g /\ cs <= h
      BY <2>1, <2>2, <2>3
    <3> HIDE DEF ct, cs, g
    <3>2. ct <= h + g
      BY <1>2, <3>1, SMT
    <3> QED BY <3>2 DEF ct
  <2> QED BY <1>1, <1>2, <1>3, <2>4, <2>5 DEF Kept
<1>4. CASE p.kind = "linear"
  <2>1. Linear(p, b, t)
    BY <1>1, <1>4, LinearIsBounded DEF Kept
  <2> QED BY <1>1, <1>2, <1>4, <2>1 DEF Kept
<1> QED BY <1>1, <1>3, <1>4, PolicyOfKind

\* What the arguments of an operation give for the policy of a balance.
IsInitializer(i) ==
  \/ /\ i.kind = "linear"
     /\ i.begin_timestamp \in Nat
     /\ i.vesting_cliff_seconds \in Nat /\ i.vesting_duration_seconds \in Nat
  \/ /\ i.kind = "cdd"
     /\ i.vesting_seconds \in Nat /\ i.start_claim \in Nat

(***************************************************************************)
(* init_policy_visitor, and deposit_lazy_vesting for a new balance: it     *)
(* starts without age.                                                     *)
(***************************************************************************)
LEMMA CreateKeeps ==
  ASSUME NEW amount \in Nat, NEW i, IsInitializer(i), NEW t \in Nat
  PROVE  Kept([balance |-> amount, policy |-> InitPolicy(i, amount, t)], t, 0)
<1> DEFINE p == InitPolicy(i, amount, t)
           o == [balance |-> amount, policy |-> p]
<1>1. amount \in Nat
  OBVIOUS
<1>2. CASE i.kind = "linear"
  <2>1. /\ i.begin_timestamp \in Nat
        /\ i.vesting_cliff_seconds \in Nat /\ i.vesting_duration_seconds \in Nat
    BY <1>2 DEF IsInitializer
  <2>2. p \in LinearPolicies /\ p.kind = "linear" /\ p.begin_balance = amount
    BY <1>1, <1>2, <2>1 DEF InitPolicy, LinearPolicies
  <2>3. Linear(p, amount, t)
    BY <1>1, <2>2, SMT DEF Linear
  <2> HIDE DEF p
  <2>4. o \in Objects /\ o.policy = p /\ o.balance = amount
    BY <1>1, <2>2 DEF Objects
  <2> HIDE DEF o
  <2>5. Kept(o, t, 0)
    BY <2>2, <2>3, <2>4 DEF Kept
  <2> QED BY <2>5 DEF o, p
<1>3. CASE i.kind # "linear"
  <2>1. i.vesting_seconds \in Nat /\ i.start_claim \in Nat
    BY <1>3 DEF IsInitializer
  <2>2. /\ p \in CddPolicies /\ p.kind = "cdd"
        /\ p.coin_seconds_earned = 0 /\ p.coin_seconds_earned_last_update = t
    BY <1>3, <2>1 DEF InitPolicy, CddPolicies
  <2> HIDE DEF p
  <2>3. Cdd(p, t)
    BY <2>2, t <= t DEF Cdd
  <2>4. CoinSecondsEarned(p, amount, t) <= 0 + amount * (t - t)
    BY <1>1, <2>2, <2>3, CoinSeconds, t <= t
  <2>5. 0 + amount * (t - t) = 0
    BY <1>1, SMT
  <2>6. o \in Objects /\ o.policy = p /\ o.balance = amount
    BY <1>1, <2>2 DEF Objects
  <2> HIDE DEF o
  <2>7. Kept(o, t, 0)
    BY <2>2, <2>3, <2>4, <2>5, <2>6 DEF Kept
  <2> QED BY <2>7 DEF o, p
<1> QED BY <1>2, <1>3

(***************************************************************************)
(* update_coin_seconds_earned changes nothing of what has been earned, and *)
(* nothing more is earned at the same time by another balance b.           *)
(***************************************************************************)
LEMMA UpdateKeeps ==
  ASSUME NEW p, NEW b \in Nat, NEW t \in Nat, Cdd(p, t), NEW n \in Nat,
         n <= CoinSecondsEarned(p, b, t), NEW c \in Nat
  PROVE  LET q == [Updated(p, b, t) EXCEPT !.coin_seconds_earned = @ - n]
         IN  /\ Cdd(q, t) /\ q.kind = "cdd"
             /\ CoinSecondsEarned(q, c, t) <= CoinSecondsEarned(p, b, t) - n
             /\ CoinSecondsEarned(q, c, t) \in Nat
<1> DEFINE e == CoinSecondsEarned(p, b, t)
           q == [Updated(p, b, t) EXCEPT !.coin_seconds_earned = @ - n]
<1>1. e \in Nat /\ p \in CddPolicies
  BY CoinSeconds, t <= t DEF Cdd
<1>2. e - n \in Nat
  BY <1>1, SMT
<1>3. /\ q \in CddPolicies /\ q.kind = "cdd"
      /\ q.coin_seconds_earned = e - n /\ q.coin_seconds_earned_last_update = t
  <2> HIDE DEF e
  <2>1. Updated(p, b, t) = [p EXCEPT !.coin_seconds_earned = e,
                                     !.coin_seconds_earned_last_update = t]
    BY DEF Updated, e
  <2> QED BY <1>1, <1>2, <2>1 DEF CddPolicies
<1> HIDE DEF q
<1>4. Cdd(q, t)
  BY <1>3, t <= t DEF Cdd
<1>5. CoinSecondsEarned(q, c, t) <= (e - n) + c * (t - t) /\ CoinSecondsEarned(q, c, t) \in Nat
  BY <1>3, <1>4, CoinSeconds, t <= t
<1>6. (e - n) + c * (t - t) = e - n
  BY <1>1, <1>2, SMT
<1> QED BY <1>3, <1>4, <1>5, <1>6 DEF q

(***************************************************************************)
(* A deposit brings no age with it.                                        *)
(***************************************************************************)
LEMMA DepositKeeps ==
  ASSUME NEW o, NEW t \in Nat, NEW h \in Int, Kept(o, t, h), o.policy.kind = "cdd",
         NEW amount \in Nat
  PROVE  Kept(Deposit(o, t, amount), t, h)
<1> DEFINE p == o.policy
           b == o.balance
           q == [Updated(p, b, t) EXCEPT !.coin_seconds_earned = @ - 0]
           d == Deposit(o, t, amount)
<1>1. o \in Objects /\ b \in Nat /\ p \in CddPolicies /\ Cdd(p, t)
      /\ CoinSecondsEarned(p, b, t) <= h
  BY PolicyOfKind DEF Kept
<1>2. CoinSecondsEarned(p, b, t) \in Nat /\ 0 <= CoinSecondsEarned(p, b, t)
  BY <1>1, CoinSeconds, t <= t, SMT
<1>3. b + amount \in Nat
  BY <1>1, SMT
<1>4. /\ Cdd(q, t) /\ q.kind = "cdd"
      /\ CoinSecondsEarned(q, b + amount, t) <= CoinSecondsEarned(p, b, t) - 0
      /\ CoinSecondsEarned(q, b + amount, t) \in Nat
  BY <1>1, <1>2, <1>3, UpdateKeeps, 0 \in Nat
<1>5. Updated(p, b, t) = q
  <2>1. Updated(p, b, t) \in CddPolicies
    BY <1>1, <1>2 DEF Updated, CddPolicies, Cdd
  <2>2. Updated(p, b, t).coin_seconds_earned - 0 = Updated(p, b, t).coin_seconds_earned
    BY <2>1, SMT DEF CddPolicies
  <2> QED BY <2>1, <2>2 DEF CddPolicies
<1> HIDE DEF q
<1>6. q \in CddPolicies
  BY <1>4 DEF Cdd
<1>7. d \in Objects /\ d.policy = q /\ d.balance = b + amount
  <2>1. d = [o EXCEPT !.policy = q, !.balance = b + amount]
    BY <1>5 DEF Deposit
  <2> QED BY <1>1, <1>3, <1>6, <2>1 DEF Objects
<1> HIDE DEF d
<1>8. CoinSecondsEarned(q, b + amount, t) <= h
  BY <1>1, <1>2, <1>4, SMT
<1>9. Kept(d, t, h)
  BY <1>4, <1>7, <1>8 DEF Kept
<1> QED BY <1>9 DEF d

(***************************************************************************)
(* A withdrawal that is allowed uses up what it needs.                     *)
(***************************************************************************)
LEMMA WithdrawKeeps ==
  ASSUME NEW o, NEW t \in Nat, NEW h \in Int, Kept(o, t, h),
         NEW amount \in Nat \ {0}, amount <= AllowedWithdraw(o, t)
  PROVE  LET n == IF o.policy.kind = "cdd"
                  THEN amount * AtLeastOne(o.policy.vesting_seconds) ELSE 0
         IN  Kept(Withdraw(o, t, amount), t, h - n) /\ n \in Nat
<1> DEFINE p == o.policy
           b == o.balance
           d == Withdraw(o, t, amount)
<1>1. o \in Objects /\ b \in Nat
  BY PolicyOfKind DEF Kept
<1>2. CASE p.kind = "cdd"
  <2> DEFINE n == amount * AtLeastOne(p.vesting_seconds)
             q == [Updated(p, b, t) EXCEPT !.coin_seconds_earned = @ - n]
             c == CoinSecondsEarned(p, b, t)
  <2>1. p \in CddPolicies /\ Cdd(p, t) /\ c <= h
    BY <1>1, <1>2, PolicyOfKind DEF Kept
  <2>2. n \in Nat
    <3>1. AtLeastOne(p.vesting_seconds) \in Nat
      BY <2>1, AtLeastOneIsPositive DEF CddPolicies
    <3> QED BY <3>1, SMT
  <2>3. amount <= CddAllowed(p, b, t)
    BY <1>2 DEF AllowedWithdraw
  <2>4. n <= c /\ amount <= b /\ c \in Nat
    <3>1. CddAllowed(p, b, t) \in 0 .. b /\ n <= c
      BY <1>1, <2>1, <2>3, CddIsBounded, amount \in Nat
    <3>2. amount <= b
      BY <1>1, <2>3, <3>1, SMT
    <3> QED BY <1>1, <2>1, <3>1, <3>2, CoinSeconds, t <= t
  <2>5. b - amount \in Nat
    BY <1>1, <2>4, SMT
  <2>6. /\ Cdd(q, t) /\ q.kind = "cdd"
        /\ CoinSecondsEarned(q, b - amount, t) <= c - n
        /\ CoinSecondsEarned(q, b - amount, t) \in Nat
    BY <1>1, <2>1, <2>2, <2>4, <2>5, UpdateKeeps
  <2>7. d = [o EXCEPT !.policy = q, !.balance = b - amount]
    <3>1. Updated(p, b, t).vesting_seconds = p.vesting_seconds
      BY <2>1 DEF Updated, CddPolicies
    <3> QED BY <1>2, <3>1 DEF Withdraw
  <2> HIDE DEF q, n, c
  <2>8. q \in CddPolicies
    BY <2>6 DEF Cdd
  <2>9. d \in Objects /\ d.policy = q /\ d.balance = b - amount
    BY <1>1, <2>5, <2>7, <2>8 DEF Objects
  <2>10. CoinSecondsEarned(q, b - amount, t) <= h - n
    BY <2>1, <2>2, <2>4, <2>6, SMT
  <2> HIDE DEF d
  <2>11. Kept(d, t, h - n)
    BY <2>6, <2>9, <2>10 DEF Kept
  <2> QED BY <1>2, <2>2, <2>11 DEF d, n
<1>3. CASE p.kind = "linear"
  <2>1. p \in LinearPolicies /\ Linear(p, b, t)
    BY <1>1, <1>3, PolicyOfKind DEF Kept
  <2>2. amount <= LinearAllowed(p, b, t) /\ LinearAllowed(p, b, t) \in 0 .. b
    BY <1>1, <1>3, <2>1, LinearIsBounded, t <= t DEF AllowedWithdraw
  <2>3. b - amount \in Nat
    BY <1>1, <2>2, SMT
  <2>4. d = [o EXCEPT !.policy = p, !.balance = b - amount]
    BY <1>3 DEF Withdraw
  <2>5. d \in Objects /\ d.policy = p /\ d.balance = b - amount
    BY <1>1, <2>3, <2>4 DEF Objects
  <2>6. Linear(p, b - amount, t)
    <3> DEFINE e == t - p.begin_timestamp
               B == p.begin_balance
               w == TotalVested(p, e)
    <3>1. p.begin_timestamp \in Nat /\ B \in Nat /\ p.vesting_cliff_seconds \in Nat /\ b <= B
      BY <2>1 DEF Linear, LinearPolicies
    <3>2. e > 0 /\ e >= p.vesting_cliff_seconds
      BY <2>2, SMT DEF LinearAllowed
    <3>3. LinearAllowed(p, b, t) = w - (B - b)
      BY <3>2 DEF LinearAllowed
    <3>4. e \in Nat /\ t > p.begin_timestamp
      BY <3>1, <3>2, SMT
    <3>5. w \in Nat
      BY <2>1, <3>4, TotalVestedGrows, e <= e
    <3> HIDE DEF w, B
    <3>6. B - (b - amount) <= w /\ b - amount <= B
      BY <1>1, <2>2, <2>3, <3>1, <3>3, <3>5, SMT
    <3> QED BY <2>1, <3>2, <3>4, <3>6 DEF Linear, w, B
  <2> HIDE DEF d
  <2>7. Kept(d, t, h - 0)
    BY <1>3, <2>5, <2>6 DEF Kept
  <2> QED BY <1>3, <2>7 DEF d
<1> QED BY <1>1, <1>2, <1>3, PolicyOfKind

----------------------------------------------------------------------------
(* Totals over finite sets. *)

(***************************************************************************)
(* Induction over the subsets of a finite set: if a set of subsets has     *)
(* every subset of which it has all proper subsets, it has them all.       *)
(***************************************************************************)
LEMMA SubsetInduction ==
  ASSUME NEW S, IsFiniteSet(S), NEW Good,
         \A T \in SUBSET S : (\A U \in SUBSET T : U # T => U \in Good) => T \in Good
  PROVE  \A T \in SUBSET S : T \in Good
<1> DEFINE R   == StrictSubsetOrdering(S)
           Bad == (SUBSET S) \ Good
<1>1. IsWellFoundedOn(R, SUBSET S)
  BY FS_StrictSubsetOrderingWellFounded, FS_FiniteSubsetsOfFinite
<1>2. Bad \subseteq SUBSET S
  OBVIOUS
<1>3. ASSUME Bad # {} PROVE FALSE
  <2>1. \E T \in Bad : \A U \in Bad : ~ (<<U, T>> \in R)
    <3> HIDE DEF Bad, R
    <3> QED BY <1>1, <1>2, <1>3, WFMin
  <2>2. PICK T \in Bad : \A U \in Bad : ~ (<<U, T>> \in R)
    BY <2>1
  <2>3. \A U \in SUBSET T : U # T => U \in Good
    BY <2>2 DEF StrictSubsetOrdering
  <2> QED BY <2>2, <2>3
<1> QED BY <1>3

\* Some element of s, the one that the sum takes first.
Pick(s) == CHOOSE x \in s : TRUE

\* g computes the totals of f over the subsets in D.
Sums(g, f, D) == g = [s \in D |-> IF s = {} THEN 0 ELSE f[Pick(s)] + g[s \ {Pick(s)}]]

(***************************************************************************)
(* The element that is added last is one of the set.                       *)
(***************************************************************************)
LEMMA PickIn == ASSUME NEW s, s # {} PROVE Pick(s) \in s
BY DEF Pick

(***************************************************************************)
(* The recursion at one subset: the picked element and the rest.           *)
(***************************************************************************)
LEMMA SumsAt ==
  ASSUME NEW g, NEW f, NEW D, Sums(g, f, D), NEW s \in D
  PROVE  g[s] = IF s = {} THEN 0 ELSE f[Pick(s)] + g[s \ {Pick(s)}]
BY DEF Sums

(***************************************************************************)
(* The recursion that defines Total has a solution.                        *)
(***************************************************************************)
LEMMA SumsExist ==
  ASSUME NEW f, NEW S, IsFiniteSet(S)
  PROVE  \E g : Sums(g, f, SUBSET S)
<1> DEFINE UpTo(T) == {s \in SUBSET S : Cardinality(s) <= Cardinality(T)}
           Good == {T \in SUBSET S : \E g : Sums(g, f, UpTo(T))}
<1>1. \A s \in SUBSET S : IsFiniteSet(s) /\ Cardinality(s) \in Nat /\ Cardinality(s) <= Cardinality(S)
  BY FS_Subset, FS_CardinalityType
<1>2. ASSUME NEW T \in SUBSET S, \A U \in SUBSET T : U # T => U \in Good
      PROVE  T \in Good
  <2>1. CASE T = {}
    <3>1. UpTo(T) = {{}}
      BY <1>1, <2>1, FS_EmptySet
    <3>2. Sums([s \in UpTo(T) |-> 0], f, UpTo(T))
      BY <3>1 DEF Sums
    <3> QED BY <3>2
  <2>2. CASE T # {}
    <3> DEFINE U == T \ {Pick(T)}
    <3>1. U \in Good /\ U \in SUBSET S
      BY <1>2, <2>2, PickIn
    <3>2. PICK g : Sums(g, f, UpTo(U))
      BY <3>1
    <3>3. Cardinality(U) = Cardinality(T) - 1 /\ Cardinality(T) \in Nat
      BY <1>1, <2>2, PickIn, FS_RemoveElement
    <3> DEFINE h == [s \in UpTo(T) |-> IF s = {} THEN 0 ELSE f[Pick(s)] + g[s \ {Pick(s)}]]
    <3>4. ASSUME NEW s \in UpTo(T), s # {}
          PROVE  s \ {Pick(s)} \in UpTo(U)
      <4>1. Cardinality(s \ {Pick(s)}) = Cardinality(s) - 1
        BY <1>1, <3>4, PickIn, FS_RemoveElement
      <4> QED BY <1>1, <3>3, <4>1
    <3>5. UpTo(U) \subseteq UpTo(T)
      BY <1>1, <3>1, <3>3
    <3>6. \A s \in UpTo(U) : h[s] = g[s]
      BY <3>2, <3>5 DEF Sums
    <3>7. Sums(h, f, UpTo(T))
      BY <3>4, <3>6 DEF Sums
    <3> QED BY <3>7
  <2> QED BY <2>1, <2>2
<1>3. S \in Good
  <2> HIDE DEF Good
  <2> QED BY <1>2, SubsetInduction
<1>4. UpTo(S) = SUBSET S
  BY <1>1
<1> QED BY <1>3, <1>4

(***************************************************************************)
(* Total, as the community modules define it, is a solution of the         *)
(* recursion that is chosen.                                               *)
(***************************************************************************)
LEMMA TotalIsChosen ==
  ASSUME NEW f, NEW S
  PROVE  Total(f, S) = (CHOOSE g : Sums(g, f, SUBSET S))[S]
BY DEF Total, MapThenSumSet, MapThenFoldSet, Sums, Pick

(***************************************************************************)
(* So Total obeys the recursion at every subset of a finite set.           *)
(***************************************************************************)
LEMMA TotalRecursion ==
  ASSUME NEW f, NEW S, IsFiniteSet(S)
  PROVE  /\ Total(f, {}) = 0
         /\ \A T \in SUBSET S : T # {} => Total(f, T) = f[Pick(T)] + Total(f, T \ {Pick(T)})
<1> DEFINE G(T) == CHOOSE g : Sums(g, f, SUBSET T)
<1>1. \A T \in SUBSET S : Sums(G(T), f, SUBSET T)
  BY SumsExist, FS_Subset
<1>2. \A T \in SUBSET S : Total(f, T) = G(T)[T]
  BY TotalIsChosen
<1> DEFINE Good == {s \in SUBSET S : \A T \in SUBSET S : s \subseteq T => G(T)[s] = G(s)[s]}
<1>3. ASSUME NEW s \in SUBSET S, \A U \in SUBSET s : U # s => U \in Good
      PROVE  s \in Good
  <2> SUFFICES ASSUME NEW T \in SUBSET S, s \subseteq T
               PROVE  G(T)[s] = G(s)[s]
    OBVIOUS
  <2>1. Sums(G(T), f, SUBSET T) /\ Sums(G(s), f, SUBSET s)
    BY <1>1
  <2>2. CASE s = {}
    <3> HIDE DEF G
    <3> QED BY <2>1, <2>2 DEF Sums
  <2>3. CASE s # {}
    <3> DEFINE u == s \ {Pick(s)}
    <3>1. u \in SUBSET s /\ u # s
      BY <2>3, PickIn
    <3>2. G(T)[u] = G(u)[u] /\ G(s)[u] = G(u)[u]
      <4> HIDE DEF G
      <4> QED BY <1>3, <3>1
    <3>3. G(T)[s] = f[Pick(s)] + G(T)[u] /\ G(s)[s] = f[Pick(s)] + G(s)[u]
      <4> HIDE DEF G
      <4> QED BY <2>1, <2>3, SumsAt
    <3> HIDE DEF G, u
    <3> QED BY <3>2, <3>3
  <2> QED BY <2>2, <2>3
<1>4. \A s, T \in SUBSET S : s \subseteq T => G(T)[s] = G(s)[s]
  <2>1. \A s \in SUBSET S : s \in Good
    <3> HIDE DEF Good
    <3> QED BY <1>3, SubsetInduction
  <2> QED BY <2>1
<1>5. Total(f, {}) = 0
  <2>1. Sums(G({}), f, SUBSET {})
    BY <1>1
  <2> HIDE DEF G
  <2> QED BY <1>2, <2>1 DEF Sums
<1>6. ASSUME NEW T \in SUBSET S, T # {}
      PROVE  Total(f, T) = f[Pick(T)] + Total(f, T \ {Pick(T)})
  <2> DEFINE u == T \ {Pick(T)}
  <2>1. u \in SUBSET S /\ u \subseteq T
    OBVIOUS
  <2>2. G(T)[u] = G(u)[u]
    <3> HIDE DEF G
    <3> QED BY <1>4, <2>1
  <2>3. Sums(G(T), f, SUBSET T)
    BY <1>1
  <2>4. G(T)[T] = f[Pick(T)] + G(T)[u]
    <3> HIDE DEF G
    <3> QED BY <1>6, <2>3, SumsAt
  <2>5. Total(f, T) = G(T)[T] /\ Total(f, u) = G(u)[u]
    <3> HIDE DEF G
    <3> QED BY <1>2, <2>1
  <2> HIDE DEF G
  <2> QED BY <2>2, <2>4, <2>5
<1> QED BY <1>5, <1>6

(***************************************************************************)
(* A total of integers is an integer, whichever element is taken first.    *)
(***************************************************************************)
LEMMA TotalStep ==
  ASSUME NEW f, NEW S, IsFiniteSet(S), \A x \in S : f[x] \in Int
  PROVE  /\ Total(f, {}) = 0
         /\ \A T \in SUBSET S :
              /\ Total(f, T) \in Int
              /\ \A x \in T : Total(f, T) = f[x] + Total(f, T \ {x})
<1> DEFINE Good == {T \in SUBSET S : /\ Total(f, T) \in Int
                                     /\ \A x \in T : Total(f, T) = f[x] + Total(f, T \ {x})}
<1>1. Total(f, {}) = 0 /\ \A T \in SUBSET S : T # {} => Total(f, T) = f[Pick(T)] + Total(f, T \ {Pick(T)})
  BY TotalRecursion
<1>2. ASSUME NEW T \in SUBSET S, \A U \in SUBSET T : U # T => U \in Good
      PROVE  T \in Good
  <2>1. CASE T = {}
    BY <1>1, <2>1
  <2>2. CASE T # {}
    <3> DEFINE c == Pick(T)
    <3>1. c \in T
      BY <2>2, PickIn
    <3>2. Total(f, T) = f[c] + Total(f, T \ {c})
      BY <1>1, <2>2
    <3>3. T \ {c} \in Good
      BY <1>2, <3>1
    <3>4. ASSUME NEW x \in T, x # c
          PROVE  Total(f, T) = f[x] + Total(f, T \ {x})
      <4>1. T \ {x} \in Good
        BY <1>2
      <4>2. Total(f, T \ {c}) = f[x] + Total(f, (T \ {c}) \ {x})
        BY <3>3, <3>4
      <4>3. Total(f, T \ {x}) = f[c] + Total(f, (T \ {x}) \ {c})
        BY <4>1, <3>1, <3>4
      <4>4. (T \ {x}) \ {c} = (T \ {c}) \ {x}
        OBVIOUS
      <4>5. (T \ {c}) \ {x} \in Good
        BY <1>2, <3>1
      <4>6. f[x] \in Int /\ f[c] \in Int /\ Total(f, (T \ {c}) \ {x}) \in Int
        BY <3>1, <4>5
      <4>7. Total(f, T \ {x}) = f[c] + Total(f, (T \ {c}) \ {x})
        BY <4>3, <4>4
      <4> HIDE DEF c
      <4> QED BY <3>2, <4>2, <4>7, <4>6
    <3>5. Total(f, T) \in Int
      BY <3>1, <3>2, <3>3
    <3> QED BY <3>2, <3>4, <3>5
  <2> QED BY <2>1, <2>2
<1>3. \A T \in SUBSET S : T \in Good
  <2> HIDE DEF Good
  <2> QED BY <1>2, SubsetInduction
<1> QED BY <1>1, <1>3

(***************************************************************************)
(* A total over two disjoint sets, and one element more.                   *)
(***************************************************************************)
LEMMA TotalUnion ==
  ASSUME NEW f, NEW S, NEW T, IsFiniteSet(S), IsFiniteSet(T), S \cap T = {},
         \A x \in S \cup T : f[x] \in Int
  PROVE  Total(f, S \cup T) = Total(f, S) + Total(f, T)
<1> DEFINE Good == {U \in SUBSET T : Total(f, S \cup U) = Total(f, S) + Total(f, U)}
<1>1. IsFiniteSet(S \cup T)
  BY FS_Union
<1>2. /\ Total(f, {}) = 0
      /\ \A U \in SUBSET (S \cup T) :
              /\ Total(f, U) \in Int
              /\ \A x \in U : Total(f, U) = f[x] + Total(f, U \ {x})
  BY <1>1, TotalStep
<1>3. ASSUME NEW U \in SUBSET T, \A V \in SUBSET U : V # U => V \in Good
      PROVE  U \in Good
  <2>1. CASE U = {}
    <3>1. S \cup U = S
      BY <2>1
    <3> QED BY <1>2, <2>1, <3>1
  <2>2. CASE U # {}
    <3>1. PICK x \in U : TRUE
      BY <2>2
    <3>2. Total(f, S \cup (U \ {x})) = Total(f, S) + Total(f, U \ {x})
      BY <1>3
    <3>3. (S \cup U) \ {x} = S \cup (U \ {x})
      OBVIOUS
    <3>4. Total(f, S \cup U) = f[x] + Total(f, S \cup (U \ {x}))
      BY <1>2, <3>3
    <3>5. Total(f, U) = f[x] + Total(f, U \ {x})
      BY <1>2
    <3>6. f[x] \in Int /\ Total(f, S) \in Int /\ Total(f, U \ {x}) \in Int
      BY <1>2
    <3> QED BY <3>2, <3>4, <3>5, <3>6
  <2> QED BY <2>1, <2>2
<1>4. \A U \in SUBSET T : U \in Good
  <2> HIDE DEF Good
  <2> QED BY <1>3, SubsetInduction
<1> QED BY <1>4

(***************************************************************************)
(* Totals compare as their terms do; hence they are equal if their terms   *)
(* are.                                                                    *)
(***************************************************************************)
LEMMA TotalOrder ==
  ASSUME NEW f, NEW g, NEW S, IsFiniteSet(S),
         \A x \in S : f[x] \in Int /\ g[x] \in Int /\ f[x] <= g[x]
  PROVE  Total(f, S) <= Total(g, S)
<1> DEFINE Good == {T \in SUBSET S : Total(f, T) <= Total(g, T)}
<1>1. /\ Total(f, {}) = 0
      /\ \A T \in SUBSET S :
              /\ Total(f, T) \in Int
              /\ \A x \in T : Total(f, T) = f[x] + Total(f, T \ {x})
  BY TotalStep
<1>2. /\ Total(g, {}) = 0
      /\ \A T \in SUBSET S :
              /\ Total(g, T) \in Int
              /\ \A x \in T : Total(g, T) = g[x] + Total(g, T \ {x})
  BY TotalStep
<1>3. ASSUME NEW T \in SUBSET S, \A U \in SUBSET T : U # T => U \in Good
      PROVE  T \in Good
  <2>1. CASE T = {}
    BY <1>1, <1>2, <2>1
  <2>2. CASE T # {}
    <3>1. PICK x \in T : TRUE
      BY <2>2
    <3>2. T \ {x} \in Good
      BY <1>3
    <3>3. Total(f, T \ {x}) <= Total(g, T \ {x})
      BY <3>2
    <3>4. f[x] \in Int /\ g[x] \in Int /\ f[x] <= g[x]
      OBVIOUS
    <3>5. Total(f, T \ {x}) \in Int /\ Total(g, T \ {x}) \in Int
      BY <1>1, <1>2
    <3>6. Total(f, T) = f[x] + Total(f, T \ {x}) /\ Total(g, T) = g[x] + Total(g, T \ {x})
      BY <1>1, <1>2
    <3>7. Total(f, T) <= Total(g, T)
      BY <3>3, <3>4, <3>5, <3>6
    <3> QED BY <3>7
  <2> QED BY <2>1, <2>2
<1>4. \A T \in SUBSET S : T \in Good
  <2> HIDE DEF Good
  <2> QED BY <1>3, SubsetInduction
<1> QED BY <1>4

(***************************************************************************)
(* Functions that agree on a finite set have one total there, an integer.  *)
(***************************************************************************)
LEMMA TotalSame ==
  ASSUME NEW f, NEW g, NEW S, IsFiniteSet(S), \A x \in S : f[x] \in Int /\ g[x] = f[x]
  PROVE  Total(g, S) = Total(f, S) /\ Total(f, S) \in Int
<1>1. \A x \in S : f[x] \in Int /\ g[x] \in Int /\ f[x] <= g[x] /\ g[x] <= f[x]
  OBVIOUS
<1>2. Total(f, S) <= Total(g, S) /\ Total(g, S) <= Total(f, S)
  BY <1>1, TotalOrder
<1>3. Total(f, S) \in Int /\ Total(g, S) \in Int
  BY <1>1, TotalStep
<1> QED BY <1>2, <1>3

(***************************************************************************)
(* A function that differs at one place only, or is defined at one more.   *)
(***************************************************************************)
LEMMA TotalChange ==
  ASSUME NEW f, NEW g, NEW S, NEW x, IsFiniteSet(S), \A y \in S : f[y] \in Int,
         g[x] \in Int, \A y \in S \ {x} : g[y] = f[y]
  PROVE  Total(g, S \cup {x}) = Total(f, S) + g[x] - (IF x \in S THEN f[x] ELSE 0)
<1> DEFINE R == S \ {x}
<1>1. IsFiniteSet(S \cup {x}) /\ IsFiniteSet(R)
  BY FS_AddElement, FS_RemoveElement
<1>2. Total(g, R) = Total(f, R) /\ Total(f, R) \in Int
  BY <1>1, TotalSame
<1>3. Total(g, S \cup {x}) = g[x] + Total(g, R)
  <2>1. \A y \in S \cup {x} : g[y] \in Int
    OBVIOUS
  <2>2. Total(g, S \cup {x}) = g[x] + Total(g, (S \cup {x}) \ {x})
    BY <1>1, <2>1, TotalStep
  <2>3. (S \cup {x}) \ {x} = R
    OBVIOUS
  <2> QED BY <2>2, <2>3
<1>4. CASE x \in S
  <2>1. Total(f, S) = f[x] + Total(f, R) /\ f[x] \in Int
    BY <1>4, TotalStep
  <2> HIDE DEF R
  <2> QED BY <1>2, <1>3, <1>4, <2>1
<1>5. CASE x \notin S
  <2>1. R = S
    BY <1>5
  <2>2. Total(f, R) = Total(f, S)
    BY <2>1
  <2> HIDE DEF R
  <2> QED BY <1>2, <1>3, <1>5, <2>2
<1> QED BY <1>4, <1>5

(***************************************************************************)
(* Terms that are zero do not count.                                       *)
(***************************************************************************)
LEMMA TotalZero ==
  ASSUME NEW f, NEW S, IsFiniteSet(S), \A x \in S : f[x] = 0
  PROVE  Total(f, S) = 0
<1> DEFINE Good == {T \in SUBSET S : Total(f, T) = 0}
<1>1. /\ Total(f, {}) = 0
      /\ \A T \in SUBSET S : \A x \in T : Total(f, T) = f[x] + Total(f, T \ {x})
  BY TotalStep
<1>3. ASSUME NEW T \in SUBSET S, \A U \in SUBSET T : U # T => U \in Good
      PROVE  T \in Good
  <2>1. CASE T = {}
    BY <1>1, <2>1
  <2>2. CASE T # {}
    <3>1. PICK x \in T : TRUE
      BY <2>2
    <3>2. T \ {x} \in Good
      BY <1>3
    <3> QED BY <1>1, <3>2
  <2> QED BY <2>1, <2>2
<1>4. \A T \in SUBSET S : T \in Good
  <2> HIDE DEF Good
  <2> QED BY <1>3, SubsetInduction
<1> QED BY <1>4
=============================================================================
