---------------------------- MODULE SupplyProofs ----------------------------
(***************************************************************************)
(* Nothing of the core asset is made or lost, for any accounts, miners,    *)
(* notes, parameters and times.                                            *)
(***************************************************************************)
EXTENDS Supply, ObjectProofs, FiniteSetTheorems, WellFoundedInduction, TLAPS

(***************************************************************************)
(* Shares of an amount r in proportion to powers p, each rounded down,     *)
(* are together at most r if the powers are at most q.                     *)
(***************************************************************************)
LEMMA SharesWithin ==
  ASSUME NEW f, NEW p, NEW S, IsFiniteSet(S), NEW r \in Nat, NEW q \in Nat \ {0},
         \A x \in S : p[x] \in Nat /\ f[x] = (r * p[x]) \div q,
         Total(p, S) <= q
  PROVE  Total(f, S) <= r
<1> DEFINE Good == {T \in SUBSET S : Total(f, T) \in Nat /\ Total(p, T) \in Nat
                                       /\ Total(f, T) * q <= r * Total(p, T)}
<1>1. \A x \in S : f[x] \in Nat /\ f[x] * q <= r * p[x]
  <2> TAKE x \in S
  <2> DEFINE a == r * p[x]
  <2>1. a \in Nat /\ f[x] = a \div q
    OBVIOUS
  <2> HIDE DEF a
  <2>2. f[x] \in Nat /\ f[x] * q <= a
    BY <2>1
  <2> QED BY <2>2 DEF a
<1>2. /\ Total(f, {}) = 0
      /\ \A T \in SUBSET S : \A x \in T : Total(f, T) = f[x] + Total(f, T \ {x})
  <2>1. \A x \in S : f[x] \in Int
    BY <1>1
  <2>2. /\ Total(f, {}) = 0
        /\ \A T \in SUBSET S :
              /\ Total(f, T) \in Int
              /\ \A x \in T : Total(f, T) = f[x] + Total(f, T \ {x})
    BY ONLY IsFiniteSet(S), <2>1, TotalStep, ZenonT(30)
  <2> QED BY <2>2, Zenon
<1>3. /\ Total(p, {}) = 0
      /\ \A T \in SUBSET S : \A x \in T : Total(p, T) = p[x] + Total(p, T \ {x})
  <2>1. \A x \in S : p[x] \in Int
    OBVIOUS
  <2>2. /\ Total(p, {}) = 0
        /\ \A T \in SUBSET S :
              /\ Total(p, T) \in Int
              /\ \A x \in T : Total(p, T) = p[x] + Total(p, T \ {x})
    BY ONLY IsFiniteSet(S), <2>1, TotalStep, ZenonT(30)
  <2> QED BY <2>2, Zenon
<1>4. ASSUME NEW T \in SUBSET S, \A U \in SUBSET T : U # T => U \in Good
      PROVE  T \in Good
  <2>1. CASE T = {}
    BY <1>2, <1>3, <2>1
  <2>2. CASE T # {}
    <3>1. PICK x \in T : TRUE
      BY <2>2
    <3> DEFINE ff == Total(f, T \ {x})
               pp == Total(p, T \ {x})
               fx == f[x]
               px == p[x]
    <3>2. ff \in Nat /\ pp \in Nat /\ ff * q <= r * pp
      BY <1>4
    <3>3. fx \in Nat /\ px \in Nat /\ fx * q <= r * px
      BY <1>1
    <3>4. Total(f, T) = fx + ff /\ Total(p, T) = px + pp
      BY <1>2, <1>3
    <3> HIDE DEF ff, pp, fx, px
    <3>5. (fx + ff) * q = fx * q + ff * q
      BY <3>2, <3>3, SMT
    <3>6. r * (px + pp) = r * px + r * pp
      BY <3>2, <3>3, SMT
    <3>7. (fx + ff) * q <= r * (px + pp)
      BY <3>2, <3>3, <3>5, <3>6
    <3>8. Total(f, T) \in Nat /\ Total(p, T) \in Nat /\ Total(f, T) * q <= r * Total(p, T)
      BY <3>2, <3>3, <3>4, <3>7
    <3> QED BY <3>8
  <2> QED BY <2>1, <2>2
<1>5. \A T \in SUBSET S : T \in Good
  <2> HIDE DEF Good
  <2> QED BY <1>4, SubsetInduction
<1> DEFINE F == Total(f, S)
           P == Total(p, S)
<1>6. F \in Nat /\ P \in Nat /\ F * q <= r * P /\ P <= q
  BY <1>5
<1> HIDE DEF F, P
<1>7. r * P <= r * q
  BY <1>6
<1>8. F * q <= r * q
  BY <1>6, <1>7
<1>9. F <= r
  BY <1>6, <1>8
<1> QED BY <1>9 DEF F

----------------------------------------------------------------------------
----------------------------------------------------------------------------
(* Balances. *)

(***************************************************************************)
(* A balance that is put in place of another, or a new one, adds the       *)
(* difference.                                                             *)
(***************************************************************************)
LEMMA PutBalance ==
  ASSUME NEW b, IsFiniteSet(DOMAIN b), \A i \in DOMAIN b : b[i].balance \in Int,
         NEW c, NEW x, DOMAIN c = DOMAIN b \cup {x}, c[x].balance \in Int,
         \A i \in DOMAIN b : i # x => c[i] = b[i]
  PROVE  /\ InBalances(b) \in Int
         /\ x \in DOMAIN b => InBalances(c) = InBalances(b) + c[x].balance - b[x].balance
         /\ x \notin DOMAIN b => InBalances(c) = InBalances(b) + c[x].balance
<1> DEFINE D == DOMAIN b
           f == [i \in D |-> b[i].balance]
           g == [i \in D \cup {x} |-> c[i].balance]
<1>1. \A y \in D : f[y] \in Int
  OBVIOUS
<1>2. g[x] \in Int /\ \A y \in D \ {x} : g[y] = f[y]
  OBVIOUS
<1>3. Total(g, D \cup {x}) = Total(f, D) + g[x] - (IF x \in D THEN f[x] ELSE 0)
  <2> HIDE DEF f, g, D
  <2>1. IsFiniteSet(D)
    BY DEF D
  <2> QED BY <1>1, <1>2, <2>1, TotalChange
<1>4. InBalances(b) = Total(f, D) /\ InBalances(c) = Total(g, D \cup {x})
  BY DEF InBalances
<1>5. Total(f, D) \in Int
  <2> HIDE DEF f
  <2> QED BY <1>1, TotalStep
<1>6. g[x] = c[x].balance /\ (x \in D => f[x] = b[x].balance)
  OBVIOUS
<1> QED BY <1>2, <1>3, <1>4, <1>5, <1>6

\* An account_balance_object with some balance.
IsBalance(r) ==
  /\ r.balance \in Int /\ r.vote_power \in Int
  /\ r = [balance |-> r.balance, vote_power |-> r.vote_power, casted_vote |-> r.casted_vote]

BalancesTyped(b) ==
  /\ b = [a \in DOMAIN b |-> b[a]]
  /\ DOMAIN b \subseteq Accounts
  /\ \A a \in DOMAIN b : IsBalance(b[a])

(***************************************************************************)
(* adjust_balance adds what it is given.                                   *)
(***************************************************************************)
LEMMA AdjustAdds ==
  ASSUME NEW b, BalancesTyped(b), NEW a \in Accounts, NEW delta \in Int
  PROVE  /\ BalancesTyped(Adjust(b, a, delta))
         /\ InBalances(b) \in Int
         /\ InBalances(Adjust(b, a, delta)) = InBalances(b) + delta
<1>1. IsFiniteSet(DOMAIN b) /\ \A i \in DOMAIN b : b[i].balance \in Int
  BY SupplyAssumption, FS_Subset DEF BalancesTyped, IsBalance
<1>2. InBalances(b) \in Int
  <2> DEFINE c == [i \in DOMAIN b \cup {a} |-> IF i = a THEN [balance |-> 0] ELSE b[i]]
  <2>1. DOMAIN c = DOMAIN b \cup {a} /\ c[a].balance \in Int /\ \A i \in DOMAIN b : i # a => c[i] = b[i]
    OBVIOUS
  <2> HIDE DEF c
  <2> QED BY <1>1, <2>1, PutBalance
<1>3. CASE delta = 0
  BY <1>2, <1>3 DEF Adjust
<1>4. CASE delta # 0
  <2> DEFINE v == IF a \in DOMAIN b THEN [b[a] EXCEPT !.balance = @ + delta]
                  ELSE [balance |-> delta, vote_power |-> 0, casted_vote |-> NoVote]
             c == [i \in DOMAIN b \cup {a} |-> IF i = a THEN v ELSE b[i]]
  <2>1. Adjust(b, a, delta) = c
    BY <1>4 DEF Adjust
  <2>2. IsBalance(v) /\ v.balance = delta + IF a \in DOMAIN b THEN b[a].balance ELSE 0
    <3>1. CASE a \in DOMAIN b
      <4>1. IsBalance(b[a])
        BY <3>1 DEF BalancesTyped
      <4>2. v = [balance |-> b[a].balance + delta, vote_power |-> b[a].vote_power,
                 casted_vote |-> b[a].casted_vote]
        BY <3>1, <4>1 DEF IsBalance
      <4> QED BY <3>1, <4>1, <4>2 DEF IsBalance
    <3>2. CASE a \notin DOMAIN b
      BY <3>2 DEF IsBalance
    <3> QED BY <3>1, <3>2
  <2> HIDE DEF v
  <2>3. BalancesTyped(c)
    BY <2>2 DEF BalancesTyped
  <2>4. /\ a \in DOMAIN b => InBalances(c) = InBalances(b) + v.balance - b[a].balance
        /\ a \notin DOMAIN b => InBalances(c) = InBalances(b) + v.balance
    <3>1. /\ DOMAIN c = DOMAIN b \cup {a} /\ c[a] = v /\ c[a].balance \in Int
          /\ \A i \in DOMAIN b : i # a => c[i] = b[i]
      BY <2>2 DEF IsBalance
    <3> HIDE DEF c
    <3> QED BY <1>1, <3>1, PutBalance
  <2>5. a \in DOMAIN b => b[a].balance \in Int
    BY <1>1
  <2> HIDE DEF c
  <2> QED BY <1>2, <2>1, <2>2, <2>3, <2>4, <2>5
<1> QED BY <1>3, <1>4

\* b after the payments p to the accounts in T.
PaidTo(b, p, T) == Paid(b, [a \in T |-> p[a]])

(***************************************************************************)
(* One more payment adjusts one more balance, which was as it is in b.     *)
(***************************************************************************)
LEMMA PaidStep ==
  ASSUME NEW b, b = [a \in DOMAIN b |-> b[a]], NEW p, NEW T, NEW x \in T
  PROVE  /\ PaidTo(b, p, {}) = b
         /\ PaidTo(b, p, T) = Adjust(PaidTo(b, p, T \ {x}), x, p[x])
         /\ BalanceOf(PaidTo(b, p, T \ {x}), x) = BalanceOf(b, x)
<1> DEFINE A == DOMAIN b
           U == T \ {x}
           D(S) == A \cup {a \in S : p[a] # 0}
           v(c) == Adjust(b, c, p[c])[c]
           P(S) == [c \in D(S) |-> IF c \in S THEN v(c) ELSE b[c]]
<1>1. PaidTo(b, p, {}) = P({}) /\ PaidTo(b, p, T) = P(T) /\ PaidTo(b, p, U) = P(U)
  BY DEF PaidTo, Paid
<1>2. P({}) = b
  <2>1. D({}) = A
    OBVIOUS
  <2> QED BY <2>1
<1>3. P(T) = Adjust(P(U), x, p[x]) /\ BalanceOf(P(U), x) = BalanceOf(b, x)
  <2>1. /\ DOMAIN P(U) = D(U) /\ x \in D(U) <=> x \in A
        /\ x \in A => P(U)[x] = b[x]
        /\ \A c \in D(U) : c # x => P(U)[c] = IF c \in T THEN v(c) ELSE b[c]
    OBVIOUS
  <2> HIDE DEF v
  <2>2. BalanceOf(P(U), x) = BalanceOf(b, x)
    BY <2>1 DEF BalanceOf
  <2>3. CASE p[x] = 0
    <3>1. v(x) = b[x]
      BY <2>3 DEF v, Adjust
    <3>2. D(T) = D(U)
      BY <2>3
    <3>3. P(T) = P(U)
      BY <3>1, <3>2
    <3> QED BY <2>2, <2>3, <3>3 DEF Adjust
  <2>4. CASE p[x] # 0
    <3> DEFINE w == IF x \in A THEN [b[x] EXCEPT !.balance = @ + p[x]]
                    ELSE [balance |-> p[x], vote_power |-> 0, casted_vote |-> NoVote]
    <3>1. v(x) = w
      BY <2>4 DEF v, Adjust
    <3>2. D(T) = D(U) \cup {x}
      BY <2>4
    <3> DEFINE Q == P(U)
    <3>3. Adjust(Q, x, p[x]) = [c \in DOMAIN Q \cup {x} |-> IF c # x THEN Q[c] ELSE w]
      BY <2>1, <2>4 DEF Adjust
    <3>4. P(T) = [c \in D(T) |-> IF c # x THEN Q[c] ELSE w]
      <4> HIDE DEF w
      <4>1. \A c \in D(T) : (IF c \in T THEN v(c) ELSE b[c]) = IF c # x THEN Q[c] ELSE w
        BY <2>1, <3>1, <3>2
      <4> HIDE DEF Q, D
      <4> QED BY <4>1
    <3> QED BY <2>1, <2>2, <3>2, <3>3, <3>4
  <2> QED BY <2>3, <2>4
<1> HIDE DEF P
<1> QED BY <1>1, <1>2, <1>3

(***************************************************************************)
(* Payments add up to what they come to, of either sign.                   *)
(***************************************************************************)
LEMMA PaidAdds ==
  ASSUME NEW b, BalancesTyped(b), NEW p, DOMAIN p \subseteq Accounts,
         \A a \in DOMAIN p : p[a] \in Int
  PROVE  /\ BalancesTyped(Paid(b, p)) /\ InBalances(b) \in Int
         /\ Total(p, DOMAIN p) \in Int
         /\ InBalances(Paid(b, p)) = InBalances(b) + Total(p, DOMAIN p)
<1> DEFINE S == DOMAIN p
           Good == {T \in SUBSET S : /\ BalancesTyped(PaidTo(b, p, T))
                                     /\ InBalances(PaidTo(b, p, T)) = InBalances(b) + Total(p, T)}
<1>1. IsFiniteSet(S) /\ \A a \in S : a \in Accounts /\ p[a] \in Int
  BY SupplyAssumption, FS_Subset
<1>2. /\ Total(p, {}) = 0
      /\ \A T \in SUBSET S : /\ Total(p, T) \in Int
                             /\ \A x \in T : Total(p, T) = p[x] + Total(p, T \ {x})
  <2> HIDE DEF S
  <2> QED BY ONLY <1>1, TotalStep, ZenonT(30)
<1>3. InBalances(b) \in Int /\ b = [a \in DOMAIN b |-> b[a]]
  BY AdjustAdds, SupplyAssumption, 0 \in Int DEF BalancesTyped
<1>4. ASSUME NEW T \in SUBSET S, \A U \in SUBSET T : U # T => U \in Good
      PROVE  T \in Good
  <2>1. CASE T = {}
    <3>1. PaidTo(b, p, {}) = b
      <4>1. 0 \in {0}
        OBVIOUS
      <4> QED BY <1>3, <4>1, PaidStep
    <3> QED BY <1>2, <1>3, <2>1, <3>1
  <2>2. CASE T # {}
    <3>1. PICK x \in T : TRUE
      BY <2>2
    <3> DEFINE c == PaidTo(b, p, T \ {x})
               d == PaidTo(b, p, T)
    <3>2. BalancesTyped(c) /\ InBalances(c) = InBalances(b) + Total(p, T \ {x})
      BY <1>4
    <3>3. d = Adjust(c, x, p[x]) /\ x \in Accounts /\ p[x] \in Int
      BY <1>1, <1>3, PaidStep
    <3>4. Total(p, T) = p[x] + Total(p, T \ {x}) /\ Total(p, T \ {x}) \in Int
      BY <1>2
    <3> HIDE DEF c, d
    <3>5. BalancesTyped(d) /\ InBalances(d) = InBalances(c) + p[x]
      BY <3>2, <3>3, AdjustAdds
    <3>6. InBalances(d) = InBalances(b) + Total(p, T)
      BY <1>3, <3>2, <3>3, <3>4, <3>5
    <3> QED BY <3>5, <3>6 DEF d
  <2> QED BY <2>1, <2>2
<1>5. S \in Good
  <2>1. \A T \in SUBSET S : T \in Good
    <3> HIDE DEF Good, S
    <3> QED BY <1>1, <1>4, SubsetInduction
  <2> QED BY <2>1
<1>6. PaidTo(b, p, S) = Paid(b, p)
  BY DEF PaidTo, Paid
<1> QED BY <1>2, <1>3, <1>5, <1>6

----------------------------------------------------------------------------
(* Vesting balances. *)

\* The vesting balances of an owner.
IdsOf(vs, owner) == {id \in DOMAIN vs : id[1] = owner}

\* A vesting_balance_object of owner with some balance.
IsVesting(v, owner) ==
  /\ v.balance \in Int
  /\ v = [owner |-> owner, balance |-> v.balance, policy |-> v.policy]

\* Ids are given one after another.
VestingsTyped(vs) ==
  /\ vs = [id \in DOMAIN vs |-> vs[id]]
  /\ IsFiniteSet(DOMAIN vs)
  /\ \A id \in DOMAIN vs :
       /\ id = <<id[1], id[2]>> /\ id[1] \in Accounts
       /\ id[2] \in 1 .. Cardinality(IdsOf(vs, id[1]))
       /\ IsVesting(vs[id], id[1])

(***************************************************************************)
(* New ids are new.                                                        *)
(***************************************************************************)
LEMMA NewVestingIsNew ==
  ASSUME NEW vs, VestingsTyped(vs), NEW owner \in Accounts
  PROVE  /\ NewVesting(vs, owner) \notin DOMAIN vs
         /\ NewVesting(vs, owner) = <<owner, Cardinality(IdsOf(vs, owner)) + 1>>
         /\ Cardinality(IdsOf(vs, owner)) \in Nat
<1>1. IsFiniteSet(IdsOf(vs, owner))
  BY FS_Subset DEF IdsOf, VestingsTyped
<1>2. Cardinality(IdsOf(vs, owner)) \in Nat
  BY <1>1, FS_CardinalityType
<1>3. NewVesting(vs, owner) = <<owner, Cardinality(IdsOf(vs, owner)) + 1>>
  BY DEF NewVesting, IdsOf
<1> QED BY <1>2, <1>3 DEF VestingsTyped

\* v, under n, is a balance of owner with amount more than before.
Fits(vs, n, v, owner, amount) ==
  /\ IsVesting(v, owner) /\ n[1] = owner
  /\ \/ n \in DOMAIN vs /\ v.balance = vs[n].balance + amount
     \/ n = NewVesting(vs, owner) /\ n \notin DOMAIN vs /\ v.balance = amount

\* ws is vs with amount added, in a balance with the id n.
Adds(vs, ws, n, amount) ==
  /\ VestingsTyped(ws)
  /\ DOMAIN ws = DOMAIN vs \cup {n}
  /\ InBalances(vs) \in Int
  /\ InBalances(ws) = InBalances(vs) + amount

(***************************************************************************)
(* A deposit to a balance, or a balance that is new, adds what it holds    *)
(* more.                                                                   *)
(***************************************************************************)
LEMMA WithVestingAdds ==
  ASSUME NEW vs, VestingsTyped(vs), NEW owner \in Accounts, NEW id, NEW v, NEW amount \in Int,
         Fits(vs, id, v, owner, amount)
  PROVE  Adds(vs, WithVesting(vs, id, v), id, amount)
<1>0. /\ IsVesting(v, owner) /\ id[1] = owner
      /\ \/ id \in DOMAIN vs /\ v.balance = vs[id].balance + amount
         \/ id = NewVesting(vs, owner) /\ id \notin DOMAIN vs /\ v.balance = amount
  BY DEF Fits
<1> DEFINE ws == WithVesting(vs, id, v)
<1>1. ws = [i \in DOMAIN vs \cup {id} |-> IF i = id THEN v ELSE vs[i]]
  BY DEF WithVesting
<1>2. IsFiniteSet(DOMAIN vs) /\ \A i \in DOMAIN vs : vs[i].balance \in Int
  BY DEF VestingsTyped, IsVesting
<1>3. v.balance \in Int
  BY <1>0 DEF IsVesting
<1>5. /\ DOMAIN ws = DOMAIN vs \cup {id} /\ IsFiniteSet(DOMAIN ws)
      /\ ws = [i \in DOMAIN ws |-> ws[i]]
      /\ ws[id] = v /\ \A i \in DOMAIN vs : i # id => ws[i] = vs[i]
  BY <1>1, <1>2, FS_AddElement
<1> HIDE DEF ws
<1>4. /\ InBalances(vs) \in Int
      /\ id \in DOMAIN vs => InBalances(ws) = InBalances(vs) + v.balance - vs[id].balance
      /\ id \notin DOMAIN vs => InBalances(ws) = InBalances(vs) + v.balance
  <2>1. ws[id].balance \in Int
    BY <1>3, <1>5
  <2>2. /\ InBalances(vs) \in Int
        /\ id \in DOMAIN vs => InBalances(ws) = InBalances(vs) + ws[id].balance - vs[id].balance
        /\ id \notin DOMAIN vs => InBalances(ws) = InBalances(vs) + ws[id].balance
    BY <1>2, <1>5, <2>1, PutBalance
  <2> QED BY <1>5, <2>2
<1>6. id = <<id[1], id[2]>> /\ id[1] = owner
  BY <1>0, NewVestingIsNew DEF VestingsTyped
<1>7. \A o : IdsOf(ws, o) = IF o = owner THEN IdsOf(vs, o) \cup {id} ELSE IdsOf(vs, o)
  BY <1>5, <1>6 DEF IdsOf
<1>8. \A o : IsFiniteSet(IdsOf(vs, o)) /\ Cardinality(IdsOf(vs, o)) \in Nat
  BY <1>2, FS_Subset, FS_CardinalityType DEF IdsOf
<1>9. \A o : /\ Cardinality(IdsOf(ws, o)) \in Nat
             /\ Cardinality(IdsOf(vs, o)) <= Cardinality(IdsOf(ws, o))
             /\ o = owner /\ id \notin DOMAIN vs =>
                  Cardinality(IdsOf(ws, o)) = Cardinality(IdsOf(vs, o)) + 1
  <2> TAKE o
  <2>1. CASE o = owner
    <3>1. Cardinality(IdsOf(vs, o) \cup {id})
            = IF id \in IdsOf(vs, o) THEN Cardinality(IdsOf(vs, o)) ELSE Cardinality(IdsOf(vs, o)) + 1
      BY <1>8, FS_AddElement
    <3>2. id \in IdsOf(vs, o) => id \in DOMAIN vs
      BY DEF IdsOf
    <3> QED BY <1>7, <1>8, <2>1, <3>1, <3>2
  <2>2. CASE o # owner
    BY <1>7, <1>8, <2>2
  <2> QED BY <2>1, <2>2
<1>10. ASSUME NEW i \in DOMAIN ws
       PROVE  /\ i = <<i[1], i[2]>> /\ i[1] \in Accounts
              /\ i[2] \in 1 .. Cardinality(IdsOf(ws, i[1]))
              /\ IsVesting(ws[i], i[1])
  <2>1. CASE i \in DOMAIN vs /\ i # id
    BY <1>5, <1>8, <1>9, <2>1 DEF VestingsTyped
  <2>2. CASE i = id /\ id \in DOMAIN vs
    BY <1>0, <1>5, <1>6, <1>8, <1>9, <2>2 DEF VestingsTyped
  <2>3. CASE i = id /\ id \notin DOMAIN vs
    <3>1. id = <<owner, Cardinality(IdsOf(vs, owner)) + 1>>
      BY <1>0, <2>3, NewVestingIsNew
    <3> QED BY <1>0, <1>5, <1>6, <1>8, <1>9, <2>3, <3>1
  <2> QED BY <1>5, <1>10, <2>1, <2>2, <2>3
<1>11. VestingsTyped(ws)
  BY <1>5, <1>10 DEF VestingsTyped
<1>12. InBalances(ws) = InBalances(vs) + amount
  BY <1>0, <1>2, <1>4
<1> QED BY <1>4, <1>5, <1>11, <1>12 DEF ws, Adds

(***************************************************************************)
(* What withdraw makes of the record of a vesting balance.                 *)
(***************************************************************************)
LEMMA VestingExcept ==
  ASSUME NEW owner, NEW b, NEW p, NEW q, NEW c,
         NEW o, o = [owner |-> owner, balance |-> b, policy |-> p]
  PROVE  [o EXCEPT !.policy = q, !.balance = c] = [owner |-> owner, balance |-> c, policy |-> q]
<1> DEFINE m == [o EXCEPT !.policy = q]
<1>1. m = [owner |-> owner, balance |-> b, policy |-> q]
  OBVIOUS
<1>2. [o EXCEPT !.policy = q, !.balance = c] = [m EXCEPT !.balance = c]
  OBVIOUS
<1> HIDE DEF m
<1>3. [m EXCEPT !.balance = c] = [owner |-> owner, balance |-> c, policy |-> q]
  BY <1>1
<1> QED BY <1>2, <1>3

(***************************************************************************)
(* A vesting balance knows its owner.                                      *)
(***************************************************************************)
LEMMA OwnerOf == ASSUME NEW v, NEW owner, IsVesting(v, owner) PROVE v.owner = owner
<1> DEFINE b == v.balance
           p == v.policy
<1>1. v = [owner |-> owner, balance |-> b, policy |-> p]
  BY DEF IsVesting
<1> HIDE DEF b, p
<1> QED BY <1>1

(***************************************************************************)
(* deposit_lazy_vesting leaves a balance of the owner, under an id that is *)
(* his, with the amount in it.                                             *)
(***************************************************************************)
LEMMA LazyIsVesting ==
  ASSUME NEW vs, VestingsTyped(vs), NEW owner \in Accounts,
         NEW id \in DOMAIN vs \cup {NoVesting}, NEW seconds, NEW amount \in Int, NEW now,
         NEW n, n = LazyId(vs, id, owner, seconds),
         NEW v, v = LazyVesting(vs, id, owner, seconds, amount, now)
  PROVE  /\ Fits(vs, n, v, owner, amount)
         /\ Accepts(vs, id, owner, seconds) => n = id /\ n \in DOMAIN vs
         /\ ~Accepts(vs, id, owner, seconds) => n = NewVesting(vs, owner) /\ n \notin DOMAIN vs
<1>1. CASE Accepts(vs, id, owner, seconds)
  <2> DEFINE o == vs[id]
  <2>1. id \in DOMAIN vs /\ o.owner = owner
    BY <1>1 DEF Accepts
  <2>2. IsVesting(o, id[1])
    BY <2>1 DEF VestingsTyped
  <2>3. id[1] = owner
    BY <2>1, <2>2 DEF IsVesting
  <2>4. v = Deposit(o, now, amount) /\ n = id
    BY <1>1 DEF LazyVesting, LazyId
  <2> DEFINE q == IF o.policy.kind = "cdd" THEN Updated(o.policy, o.balance, now) ELSE o.policy
  <2> HIDE DEF o
  <2>5. o.balance \in Int /\ o = [owner |-> owner, balance |-> o.balance, policy |-> o.policy]
    BY <2>2, <2>3 DEF IsVesting
  <2>7. v = [o EXCEPT !.policy = q, !.balance = o.balance + amount]
    BY <2>4 DEF Deposit
  <2> HIDE DEF q
  <2>9. v = [owner |-> owner, balance |-> o.balance + amount, policy |-> q]
    <3> DEFINE b == o.balance
               p == o.policy
               c == o.balance + amount
    <3>1. o = [owner |-> owner, balance |-> b, policy |-> p] /\ v = [o EXCEPT !.policy = q, !.balance = c]
      BY <2>5, <2>7
    <3> HIDE DEF b, p, c
    <3>2. v = [owner |-> owner, balance |-> c, policy |-> q]
      BY <3>1, VestingExcept
    <3> QED BY <3>2 DEF c
  <2>8. v.balance = o.balance + amount /\ IsVesting(v, owner)
    BY <2>5, <2>9 DEF IsVesting
  <2> QED BY <1>1, <2>1, <2>3, <2>4, <2>8 DEF o, Fits
<1>2. CASE ~Accepts(vs, id, owner, seconds)
  <2>1. n = NewVesting(vs, owner) /\ n \notin DOMAIN vs /\ n[1] = owner
    BY <1>2, NewVestingIsNew DEF LazyId
  <2> DEFINE q == InitPolicy([kind |-> "cdd", vesting_seconds |-> seconds, start_claim |-> 0],
                             amount, now)
  <2>2. v = [owner |-> owner, balance |-> amount, policy |-> q]
    BY <1>2 DEF LazyVesting
  <2> HIDE DEF q
  <2>3. v.balance = amount /\ IsVesting(v, owner)
    BY <2>2 DEF IsVesting
  <2> QED BY <1>2, <2>1, <2>3 DEF Fits
<1> QED BY <1>1, <1>2

(***************************************************************************)
(* The pay of one account or miner adds to the vesting balances what is    *)
(* paid.                                                                   *)
(***************************************************************************)
LEMMA LazyAdds ==
  ASSUME NEW vs, VestingsTyped(vs), NEW owner \in Accounts,
         NEW id \in DOMAIN vs \cup {NoVesting}, NEW seconds, NEW amount \in Int, NEW now,
         NEW n, n = LazyId(vs, id, owner, seconds),
         NEW v, v = LazyVesting(vs, id, owner, seconds, amount, now)
  PROVE  Adds(vs, WithVesting(vs, n, v), n, amount)
<1>1. Fits(vs, n, v, owner, amount)
  BY LazyIsVesting
<1> QED BY ONLY VestingsTyped(vs), owner \in Accounts, amount \in Int, <1>1, WithVestingAdds, Zenon

(***************************************************************************)
(* deposit_account_pay, to all accounts at once, is the pay of one after   *)
(* the other and adds their sum.                                           *)
(***************************************************************************)
LEMMA PayAccountsAdds ==
  ASSUME NEW vs, VestingsTyped(vs), NEW seconds, NEW now, NEW pay \in [Accounts -> Int],
         \A a \in Accounts : account[a].cashback_vb \in DOMAIN vs \cup {NoVesting},
         NEW ws, ws = PayAccounts(vs, pay, seconds, now)
  PROVE  /\ VestingsTyped(ws) /\ DOMAIN vs \subseteq DOMAIN ws
         /\ \A a \in Accounts :
              pay[a] # 0 => LazyId(vs, account[a].cashback_vb, a, seconds) \in DOMAIN ws
         /\ InBalances(vs) \in Int
         /\ InBalances(ws) = InBalances(vs) + Total(pay, Accounts)
<1> DEFINE only(A) == [a \in Accounts |-> IF a \in A THEN pay[a] ELSE 0]
           after(A) == PayAccounts(vs, only(A), seconds, now)
           cb(a) == account[a].cashback_vb
           id(a) == LazyId(vs, cb(a), a, seconds)
           paid(A) == {a \in A : pay[a] # 0}
           lazy(a) == LazyVesting(vs, cb(a), a, seconds, pay[a], now)
           ok(a) == Accepts(vs, cb(a), a, seconds)
           Good == {A \in SUBSET Accounts :
                      /\ VestingsTyped(after(A))
                      /\ InBalances(after(A)) = InBalances(vs) + Total(pay, A)}
<1>1. \A A \in SUBSET Accounts :
        after(A) = [i \in DOMAIN vs \cup {id(a) : a \in paid(A)} |->
                      IF i[1] \in paid(A) /\ i = id(i[1]) THEN lazy(i[1]) ELSE vs[i]]
  <2> TAKE A \in SUBSET Accounts
  <2>1. {a \in Accounts : only(A)[a] # 0} = paid(A)
    OBVIOUS
  <2>2. \A a \in paid(A) : only(A)[a] = pay[a]
    OBVIOUS
  <2> HIDE DEF only, paid
  <2> QED BY <2>1, <2>2 DEF PayAccounts
<1>2. \A a \in Accounts : /\ id(a)[1] = a
                          /\ ok(a) => id(a) = cb(a) /\ id(a) \in DOMAIN vs
                          /\ ~ok(a) => id(a) = NewVesting(vs, a) /\ id(a) \notin DOMAIN vs
  <2> TAKE a \in Accounts
  <2>1. cb(a) \in DOMAIN vs \cup {NoVesting} /\ pay[a] \in Int
    OBVIOUS
  <2> HIDE DEF cb
  <2>2. /\ Fits(vs, id(a), lazy(a), a, pay[a])
        /\ Accepts(vs, cb(a), a, seconds) => id(a) = cb(a) /\ id(a) \in DOMAIN vs
        /\ ~Accepts(vs, cb(a), a, seconds) => id(a) = NewVesting(vs, a) /\ id(a) \notin DOMAIN vs
    <3> HIDE DEF id, lazy
    <3>1. id(a) = LazyId(vs, cb(a), a, seconds) /\ lazy(a) = LazyVesting(vs, cb(a), a, seconds, pay[a], now)
      BY DEF id, lazy
    <3> QED BY ONLY VestingsTyped(vs), a \in Accounts, <2>1, <3>1, LazyIsVesting
  <2> QED BY <2>2 DEF Fits
<1>3. Total(pay, {}) = 0 /\ \A T \in SUBSET Accounts :
              /\ Total(pay, T) \in Int
              /\ \A x \in T : Total(pay, T) = pay[x] + Total(pay, T \ {x})
  BY SupplyAssumption, TotalStep
<1>4. InBalances(vs) \in Int
  BY LazyAdds, SupplyAssumption DEF Adds
<1> HIDE DEF only, after, cb, id, lazy, ok
<1>5. after({}) = vs
  <2>1. paid({}) = {}
    OBVIOUS
  <2>2. after({}) = [i \in DOMAIN vs |-> vs[i]]
    BY <1>1, <2>1
  <2> QED BY <2>2 DEF VestingsTyped
<1>6. ASSUME NEW T \in SUBSET Accounts, \A U \in SUBSET T : U # T => U \in Good
      PROVE  T \in Good
  <2>1. CASE T = {}
    BY <1>3, <1>4, <1>5, <2>1
  <2>2. CASE T # {}
    <3>1. PICK x \in T : TRUE
      BY <2>2
    <3> DEFINE A == T \ {x}
               as == after(A)
    <3>2. VestingsTyped(as) /\ InBalances(as) = InBalances(vs) + Total(pay, A)
      BY <1>6
    <3>3. Total(pay, T) = pay[x] + Total(pay, A) /\ Total(pay, A) \in Int /\ pay[x] \in Int
      BY <1>3
    <3>4. CASE pay[x] = 0
      <4>1. paid(T) = paid(A)
        BY <3>4
      <4>2. after(T) = as
        BY <1>1, <4>1
      <4>3. Total(pay, T) = Total(pay, A)
        BY <3>3, <3>4
      <4> QED BY <3>2, <4>2, <4>3
    <3>5. CASE pay[x] # 0
      <4>1. as = [i \in DOMAIN vs \cup {id(a) : a \in paid(A)} |->
                      IF i[1] \in paid(A) /\ i = id(i[1]) THEN lazy(i[1]) ELSE vs[i]]
        BY <1>1
      <4>2. after(T) = [i \in DOMAIN vs \cup {id(a) : a \in paid(T)} |->
                      IF i[1] \in paid(T) /\ i = id(i[1]) THEN lazy(i[1]) ELSE vs[i]]
        BY <1>1
      <4> HIDE DEF as
      <4>3. x \notin paid(A) /\ paid(T) = paid(A) \cup {x} /\ paid(A) \subseteq Accounts
        BY <3>5
      <4> HIDE DEF paid
      <4>4. \A i \in DOMAIN as : i[1] = x => i \in DOMAIN vs /\ as[i] = vs[i]
        BY <1>2, <4>1, <4>3, ZenonT(30)
      <4>5. \A i \in DOMAIN vs : i \in DOMAIN as
        BY <4>1
      <4>6. cb(x) \in DOMAIN as \cup {NoVesting}
        BY <4>5 DEF cb
      <4>7. Accepts(as, cb(x), x, seconds) <=> ok(x)
        <5>1. CASE cb(x) = NoVesting
          BY <5>1 DEF Accepts, ok
        <5>2. CASE cb(x) # NoVesting
          <6>1. cb(x) \in DOMAIN vs /\ cb(x) \in DOMAIN as
            BY <4>5, <5>2 DEF cb
          <6>2. IsVesting(vs[cb(x)], cb(x)[1]) /\ IsVesting(as[cb(x)], cb(x)[1])
            BY <6>1, <3>2 DEF VestingsTyped
          <6>3. vs[cb(x)].owner = cb(x)[1] /\ as[cb(x)].owner = cb(x)[1]
            BY <6>2, OwnerOf
          <6>4. cb(x)[1] = x => as[cb(x)] = vs[cb(x)]
            BY <4>4, <6>1
          <6> QED BY <6>3, <6>4 DEF Accepts, ok
        <5> QED BY <5>1, <5>2
      <4>8. ok(x) => as[cb(x)] = vs[cb(x)]
        BY <1>2, <4>4, <4>5
      <4>9. {i \in DOMAIN as : i[1] = x} = {i \in DOMAIN vs : i[1] = x}
        BY <4>4, <4>5
      <4>10. LazyId(as, cb(x), x, seconds) = id(x)
        BY <4>7, <4>9 DEF LazyId, NewVesting, id, ok
      <4>11. LazyVesting(as, cb(x), x, seconds, pay[x], now) = lazy(x)
        BY <4>7, <4>8 DEF LazyVesting, lazy, ok
      <4>12. /\ VestingsTyped(WithVesting(as, id(x), lazy(x)))
             /\ InBalances(WithVesting(as, id(x), lazy(x))) = InBalances(as) + pay[x]
        <5> DEFINE c == cb(x)
                   n == id(x)
                   v == lazy(x)
                   am == pay[x]
        <5>1. VestingsTyped(as) /\ c \in DOMAIN as \cup {NoVesting} /\ am \in Int
          BY <3>2, <3>3, <4>6
        <5>2. n = LazyId(as, c, x, seconds) /\ v = LazyVesting(as, c, x, seconds, am, now)
          BY <4>10, <4>11
        <5>4. x \in Accounts
          OBVIOUS
        <5> HIDE DEF c, n, v, am
        <5>3. Adds(as, WithVesting(as, n, v), n, am)
          BY ONLY <5>1, <5>2, <5>4, LazyAdds, Zenon
        <5> QED BY <5>3 DEF n, v, am, Adds
      <4>13. after(T) = WithVesting(as, id(x), lazy(x))
        <5> DEFINE L == after(T)
                   R == WithVesting(as, id(x), lazy(x))
                   D == DOMAIN vs \cup {id(a) : a \in paid(T)}
        <5>1. DOMAIN as \cup {id(x)} = D
          BY <4>1, <4>3
        <5>2. R = [i \in D |-> IF i = id(x) THEN lazy(x) ELSE as[i]]
          BY <5>1 DEF WithVesting
        <5>3. ASSUME NEW i \in D
              PROVE  L[i] = R[i]
          <6>1. CASE i = id(x)
            BY <1>2, <4>2, <4>3, <5>2, <6>1
          <6>2. CASE i # id(x)
            <7>1. i \in DOMAIN as
              BY <5>1, <6>2
            <7>2. R[i] = as[i]
              BY <5>2, <6>2
            <7>3. i[1] \in paid(T) /\ i = id(i[1]) <=> i[1] \in paid(A) /\ i = id(i[1])
              BY <4>3, <6>2
            <7>4. as[i] = IF i[1] \in paid(A) /\ i = id(i[1]) THEN lazy(i[1]) ELSE vs[i]
              BY <4>1, <7>1
            <7>5. L[i] = IF i[1] \in paid(T) /\ i = id(i[1]) THEN lazy(i[1]) ELSE vs[i]
              BY <4>2
            <7> QED BY <7>2, <7>3, <7>4, <7>5
          <6> QED BY <6>1, <6>2
        <5>4. L = [i \in D |-> L[i]] /\ R = [i \in D |-> R[i]]
          BY <4>2, <5>2
        <5> HIDE DEF L, R, D
        <5>5. L = R
          BY <5>3, <5>4
        <5> QED BY <5>5 DEF L, R
      <4>14. InBalances(after(T)) = InBalances(vs) + Total(pay, T)
        BY <1>4, <3>2, <3>3, <4>12, <4>13
      <4> QED BY <4>12, <4>13, <4>14
    <3> QED BY <3>4, <3>5
  <2> QED BY <2>1, <2>2
<1>7. Accounts \in Good
  <2>1. \A A \in SUBSET Accounts : A \in Good
    <3> HIDE DEF Good
    <3> QED BY <1>6, SubsetInduction, SupplyAssumption
  <2> HIDE DEF Good
  <2> QED BY <2>1
<1>8. ws = after(Accounts)
  <2>1. only(Accounts) = pay
    BY DEF only
  <2> QED BY <2>1 DEF after
<1>9. DOMAIN vs \subseteq DOMAIN ws /\ \A a \in Accounts : pay[a] # 0 => id(a) \in DOMAIN ws
  <2>1. DOMAIN ws = DOMAIN vs \cup {id(a) : a \in paid(Accounts)}
    BY <1>1, <1>8, ZenonT(30)
  <2> QED BY <2>1
<1>10. VestingsTyped(ws) /\ InBalances(ws) = InBalances(vs) + Total(pay, Accounts)
  BY <1>7, <1>8
<1> QED BY <1>4, <1>9, <1>10 DEF id, cb

----------------------------------------------------------------------------
(* Hidden balances. *)

\* Values of commitments.
HiddenTyped(h) ==
  /\ h = [c \in DOMAIN h |-> h[c]]
  /\ DOMAIN h \subseteq Commitments
  /\ \A c \in DOMAIN h : h[c] \in Int

\* What all the commitments of h hide.
Hidden(h) == Total(h, DOMAIN h)

(***************************************************************************)
(* The outputs of an operation hide the total that validate's sums leave   *)
(* for them, whatever each of them hides.                                  *)
(***************************************************************************)
LEMMA OutputsTyped ==
  ASSUME NEW total \in Int, NEW outs \in Outputs(total)
  PROVE  HiddenTyped(outs) /\ Hidden(outs) = total
<1>1. CASE outs \in UNION {[S -> Values] : S \in SUBSET Commitments} /\ Total(outs, DOMAIN outs) = total
  <2>1. PICK S \in SUBSET Commitments : outs \in [S -> Values]
    BY <1>1
  <2>2. DOMAIN outs = S /\ outs = [c \in S |-> outs[c]] /\ \A c \in S : outs[c] \in Values
    BY <2>1
  <2>3. \A c \in S : outs[c] \in Int
    BY <2>2, SupplyAssumption
  <2> QED BY <1>1, <2>2, <2>3 DEF HiddenTyped, Hidden
<1>2. CASE \E d \in Commitments : outs = [c \in {d} |-> total]
  <2>1. PICK d \in Commitments : outs = [c \in {d} |-> total]
    BY <1>2
  <2>2. DOMAIN outs = {d} /\ outs[d] = total /\ outs = [c \in {d} |-> outs[c]]
    BY <2>1
  <2>3. Total(outs, {d}) = outs[d]
    <3>1. IsFiniteSet({d}) /\ \A c \in {d} : outs[c] \in Int
      BY <2>2, FS_Singleton
    <3>2. Total(outs, {}) = 0 /\ Total(outs, {d}) = outs[d] + Total(outs, {d} \ {d})
      BY <3>1, TotalStep
    <3>3. {d} \ {d} = {}
      OBVIOUS
    <3> QED BY <2>2, <3>2, <3>3
  <2> QED BY <2>2, <2>3 DEF HiddenTyped, Hidden
<1> QED BY <1>1, <1>2 DEF Outputs

(***************************************************************************)
(* What some of the commitments hide is a number, and so is the rest.      *)
(***************************************************************************)
LEMMA HiddenPart ==
  ASSUME NEW h, HiddenTyped(h), NEW ins \in SUBSET DOMAIN h
  PROVE  /\ IsFiniteSet(DOMAIN h) /\ IsFiniteSet(ins) /\ IsFiniteSet(DOMAIN h \ ins)
         /\ Hidden(h) \in Int /\ Total(h, ins) \in Int /\ Total(h, DOMAIN h \ ins) \in Int
         /\ Hidden(h) = Total(h, DOMAIN h \ ins) + Total(h, ins)
<1> DEFINE D == DOMAIN h
<1>1. IsFiniteSet(D) /\ \A c \in D : h[c] \in Int
  BY SupplyAssumption, FS_Subset DEF HiddenTyped
<1>2. ins \subseteq D /\ D \ ins \subseteq D /\ (D \ ins) \cap ins = {} /\ (D \ ins) \cup ins = D
  OBVIOUS
<1>3. IsFiniteSet(ins) /\ IsFiniteSet(D \ ins)
  BY <1>1, <1>2, FS_Subset
<1> HIDE DEF D
<1>4. Total(h, D) \in Int /\ Total(h, ins) \in Int /\ Total(h, D \ ins) \in Int
  BY <1>1, <1>2, TotalStep
<1>5. Total(h, (D \ ins) \cup ins) = Total(h, D \ ins) + Total(h, ins)
  BY <1>1, <1>2, <1>3, TotalUnion
<1> QED BY <1>1, <1>2, <1>3, <1>4, <1>5 DEF Hidden, D

(***************************************************************************)
(* New commitments add what they hide.                                     *)
(***************************************************************************)
LEMMA WithAdds ==
  ASSUME NEW old, HiddenTyped(old), NEW new, HiddenTyped(new), DOMAIN old \cap DOMAIN new = {}
  PROVE  /\ HiddenTyped(With(old, new))
         /\ Hidden(old) \in Int /\ Hidden(new) \in Int
         /\ Hidden(With(old, new)) = Hidden(old) + Hidden(new)
<1> DEFINE A == DOMAIN old
           B == DOMAIN new
           w == With(old, new)
<1>1. w = [c \in A \cup B |-> IF c \in B THEN new[c] ELSE old[c]]
  BY DEF With
<1>2. DOMAIN w = A \cup B /\ \A c \in A \cup B : w[c] = IF c \in B THEN new[c] ELSE old[c]
  BY <1>1
<1>3. HiddenTyped(w)
  BY <1>1 DEF HiddenTyped
<1>4. /\ IsFiniteSet(A) /\ \A c \in A : old[c] \in Int
      /\ IsFiniteSet(B) /\ \A c \in B : new[c] \in Int
  BY SupplyAssumption, FS_Subset DEF HiddenTyped
<1>5. A \cap B = {}
  OBVIOUS
<1> HIDE DEF w, A, B
<1>6. \A c \in A : w[c] = old[c]
  BY <1>2, <1>5
<1>7. Total(w, A) = Total(old, A) /\ Total(old, A) \in Int
  BY <1>4, <1>6, TotalSame
<1>8. \A c \in B : w[c] = new[c]
  BY <1>2
<1>9. Total(w, B) = Total(new, B) /\ Total(new, B) \in Int
  BY <1>4, <1>8, TotalSame
<1>10. \A c \in A \cup B : w[c] \in Int
  BY <1>4, <1>6, <1>8
<1>11. Total(w, A \cup B) = Total(w, A) + Total(w, B)
  BY <1>4, <1>5, <1>10, TotalUnion
<1> QED BY <1>2, <1>3, <1>7, <1>9, <1>11 DEF Hidden, w, A, B

(***************************************************************************)
(* Commitments that are gone take away what they hid.                      *)
(***************************************************************************)
LEMMA RestrictRemoves ==
  ASSUME NEW h, HiddenTyped(h), NEW ins \in SUBSET DOMAIN h,
         NEW r, r = Restrict(h, DOMAIN h \ ins)
  PROVE  /\ HiddenTyped(r) /\ DOMAIN r = DOMAIN h \ ins
         /\ Hidden(h) \in Int /\ Total(h, ins) \in Int
         /\ Hidden(r) = Hidden(h) - Total(h, ins)
<1> DEFINE D == DOMAIN h \ ins
<1>1. r = [c \in D |-> h[c]]
  BY DEF Restrict
<1>2. DOMAIN r = D /\ \A c \in D : r[c] = h[c]
  BY <1>1
<1>3. HiddenTyped(r)
  BY <1>1 DEF HiddenTyped
<1>4. \A c \in D : h[c] \in Int
  BY DEF HiddenTyped
<1>5. IsFiniteSet(D)
  BY HiddenPart
<1>6. Total(r, D) = Total(h, D)
  <2> HIDE DEF D
  <2> QED BY <1>2, <1>4, <1>5, TotalSame
<1>7. /\ Hidden(h) \in Int /\ Total(h, ins) \in Int /\ Total(h, D) \in Int
      /\ Hidden(h) = Total(h, D) + Total(h, ins)
  BY HiddenPart
<1> HIDE DEF D
<1> QED BY <1>2, <1>3, <1>6, <1>7 DEF Hidden, D

----------------------------------------------------------------------------
(* Confidential notes. *)

NotesTyped(notes) ==
  /\ notes = [c \in DOMAIN notes |-> notes[c]]
  /\ DOMAIN notes \subseteq Commitments
  /\ \A c \in DOMAIN notes : notes[c] \in [value : Int, unspent : BOOLEAN]

(***************************************************************************)
(* New notes add what they hide to what the unspent ones hide.             *)
(***************************************************************************)
LEMMA NotesAdd ==
  ASSUME NEW notes, NotesTyped(notes), NEW outs, HiddenTyped(outs),
         DOMAIN outs \cap DOMAIN notes = {}, NEW w, w = WithNotes(notes, outs)
  PROVE  /\ NotesTyped(w)
         /\ NoteValue(notes, Unspent(notes)) \in Int /\ Hidden(outs) \in Int
         /\ NoteValue(w, Unspent(w)) = NoteValue(notes, Unspent(notes)) + Hidden(outs)
<1> DEFINE A == DOMAIN notes
           B == DOMAIN outs
           U == Unspent(notes)
           f == [c \in U |-> notes[c].value]
           g == [c \in U \cup B |-> w[c].value]
<1>1. w = [c \in A \cup B |-> IF c \in B THEN [value |-> outs[c], unspent |-> TRUE] ELSE notes[c]]
  BY DEF WithNotes, With
<1>2. DOMAIN w = A \cup B
  BY <1>1
<1>3. \A c \in B : /\ outs[c] \in Int /\ w[c].value = outs[c] /\ w[c].unspent = TRUE
                   /\ w[c] \in [value : Int, unspent : BOOLEAN]
  <2> TAKE c \in B
  <2>1. outs[c] \in Int
    BY DEF HiddenTyped
  <2> DEFINE r == w[c]
             x == outs[c]
  <2>2. r = [value |-> x, unspent |-> TRUE]
    BY <1>1
  <2> HIDE DEF r, x
  <2>3. r.value = x /\ r.unspent = TRUE /\ r = [value |-> x, unspent |-> TRUE]
    BY <2>2
  <2>4. x \in Int => r \in [value : Int, unspent : BOOLEAN]
    BY <2>2
  <2> QED BY <2>1, <2>3, <2>4 DEF r, x
<1>4. A \cap B = {} /\ U \subseteq A
  BY DEF Unspent
<1>5. \A c \in A : w[c] = notes[c] /\ notes[c] \in [value : Int, unspent : BOOLEAN]
  BY <1>1 DEF NotesTyped
<1>6. NotesTyped(w)
  <2>1. w = [c \in DOMAIN w |-> w[c]]
    BY <1>1
  <2>2. A \subseteq Commitments /\ B \subseteq Commitments
    BY DEF NotesTyped, HiddenTyped
  <2> HIDE DEF A, B
  <2> QED BY <1>2, <1>3, <1>5, <2>1, <2>2 DEF NotesTyped
<1>7. Unspent(w) = U \cup B
  <2> HIDE DEF A, B
  <2> QED BY <1>2, <1>3, <1>4, <1>5 DEF Unspent, A
<1>8. IsFiniteSet(U) /\ IsFiniteSet(B)
  BY <1>4, SupplyAssumption, FS_Subset DEF NotesTyped, HiddenTyped
<1>9. \A c \in U : f[c] \in Int /\ g[c] = f[c]
  BY <1>4, <1>5
<1>10. \A c \in B : outs[c] \in Int /\ g[c] = outs[c]
  BY <1>3
<1>11. /\ NoteValue(notes, U) = Total(f, U) /\ NoteValue(w, U \cup B) = Total(g, U \cup B)
       /\ Hidden(outs) = Total(outs, B)
  BY DEF NoteValue, Hidden
<1>12. U \cap B = {}
  BY <1>4
<1> HIDE DEF f, g, U, B
<1>13. Total(g, U) = Total(f, U) /\ Total(f, U) \in Int
  BY <1>8, <1>9, TotalSame
<1>14. Total(g, B) = Total(outs, B) /\ Total(outs, B) \in Int
  BY <1>8, <1>10, TotalSame
<1>15. \A c \in U \cup B : g[c] \in Int
  BY <1>9, <1>10
<1>16. Total(g, U \cup B) = Total(g, U) + Total(g, B)
  BY <1>8, <1>12, <1>15, TotalUnion
<1> QED BY <1>6, <1>7, <1>11, <1>13, <1>14, <1>16 DEF U

(***************************************************************************)
(* Notes that are spent take away what they hid.                           *)
(***************************************************************************)
LEMMA NotesSpent ==
  ASSUME NEW notes, NotesTyped(notes), NEW ins \in SUBSET Unspent(notes),
         NEW w, w = [c \in DOMAIN notes |->
                       IF c \in ins THEN [notes[c] EXCEPT !.unspent = FALSE] ELSE notes[c]]
  PROVE  /\ NotesTyped(w) /\ DOMAIN w = DOMAIN notes
         /\ NoteValue(notes, Unspent(notes)) \in Int /\ NoteValue(notes, ins) \in Int
         /\ NoteValue(w, Unspent(w)) = NoteValue(notes, Unspent(notes)) - NoteValue(notes, ins)
<1> DEFINE A == DOMAIN notes
           U == Unspent(notes)
           f == [c \in U |-> notes[c].value]
           g == [c \in U \ ins |-> w[c].value]
           h == [c \in ins |-> notes[c].value]
<1>1. DOMAIN w = A /\ w = [c \in A |-> w[c]]
  OBVIOUS
<1>2. \A c \in A : notes[c] \in [value : Int, unspent : BOOLEAN]
  BY DEF NotesTyped
<1>3. \A c \in A : /\ w[c] \in [value : Int, unspent : BOOLEAN]
                   /\ c \notin ins => w[c] = notes[c]
                   /\ c \in ins => w[c].unspent = FALSE
  BY <1>2
<1>4. NotesTyped(w)
  BY <1>1, <1>3 DEF NotesTyped
<1>5. U \subseteq A /\ ins \subseteq U /\ U = (U \ ins) \cup ins /\ (U \ ins) \cap ins = {}
  BY DEF Unspent
<1>6. Unspent(w) = U \ ins
  BY <1>1, <1>3, <1>5 DEF Unspent
<1>7. IsFiniteSet(U) /\ IsFiniteSet(ins) /\ IsFiniteSet(U \ ins)
  BY <1>5, SupplyAssumption, FS_Subset DEF NotesTyped
<1>8. /\ \A c \in U : f[c] \in Int
      /\ \A c \in U \ ins : f[c] \in Int /\ g[c] = f[c]
      /\ \A c \in ins : f[c] \in Int /\ h[c] = f[c]
  BY <1>2, <1>3, <1>5
<1>9. /\ NoteValue(notes, U) = Total(f, U) /\ NoteValue(w, U \ ins) = Total(g, U \ ins)
      /\ NoteValue(notes, ins) = Total(h, ins)
  BY DEF NoteValue
<1> HIDE DEF f, g, h, U
<1>10. Total(g, U \ ins) = Total(f, U \ ins) /\ Total(f, U \ ins) \in Int
  BY <1>7, <1>8, TotalSame
<1>11. Total(h, ins) = Total(f, ins) /\ Total(f, ins) \in Int
  BY <1>7, <1>8, TotalSame
<1>12. Total(f, (U \ ins) \cup ins) = Total(f, U \ ins) + Total(f, ins)
  BY <1>5, <1>7, <1>8, TotalUnion
<1>13. Total(f, U) = Total(f, U \ ins) + Total(f, ins)
  BY <1>5, <1>12
<1>14. /\ Total(f, U) \in Int /\ Total(h, ins) \in Int
       /\ Total(g, U \ ins) = Total(f, U) - Total(h, ins)
  BY <1>10, <1>11, <1>13
<1>15. /\ NoteValue(notes, U) \in Int /\ NoteValue(notes, ins) \in Int
       /\ NoteValue(w, Unspent(w)) = NoteValue(notes, U) - NoteValue(notes, ins)
  BY <1>6, <1>9, <1>14
<1> QED BY <1>1, <1>4, <1>15 DEF U

----------------------------------------------------------------------------
(* The invariant. *)

AccountsTyped(acc, ids) ==
  acc \in [Accounts -> [voting_account : Accounts, votes : SUBSET Miners,
                        cashback_vb : ids \cup {NoVesting}]]

MinersTyped(mnr, ids) ==
  mnr \in [Miners -> [pay_vb : ids \cup {NoVesting}, total_votes : Int]]

CoreTyped(c) ==
  /\ DOMAIN c = {"current_supply", "confidential_supply", "accumulated_fees", "wraps"}
  /\ c.wraps \in Nat
  /\ c.current_supply \in Int /\ c.confidential_supply \in Int /\ c.accumulated_fees \in Int

DgpTyped(d) ==
  /\ DOMAIN d = {"head_block_number", "time", "maintenance_flag", "next_maintenance_time",
                 "last_budget_time", "miner_budget_from_fees", "unspent_fee_budget",
                 "mined_rewards"}
  /\ d.head_block_number \in Nat /\ d.time \in Nat
  /\ d.next_maintenance_time \in Int /\ d.last_budget_time \in Int
  /\ d.miner_budget_from_fees \in Int /\ d.unspent_fee_budget \in Int /\ d.mined_rewards \in Int

GpoTyped(g) ==
  g \in [parameters : Parameters, pending_parameters : Parameters \cup {NoParameters}]

Typed ==
  /\ AccountsTyped(account, DOMAIN vesting) /\ MinersTyped(miner, DOMAIN vesting)
  /\ BalancesTyped(balance) /\ VestingsTyped(vesting)
  /\ HiddenTyped(blinded) /\ NotesTyped(confidential)
  /\ CoreTyped(core) /\ DgpTyped(dgp) /\ GpoTyped(gpo)

SupplyInv == Typed /\ SupplyAccounted /\ ConfidentialBacked

----------------------------------------------------------------------------
(* Operations. *)

(***************************************************************************)
(* evaluator::apply takes the fee from its payer.                          *)
(***************************************************************************)
LEMMA PayFeeTakes ==
  ASSUME NEW b, BalancesTyped(b), NEW payer \in Accounts, NEW fee \in Nat,
         PayFee(b, payer, fee)
  PROVE  BalancesTyped(balance') /\ InBalances(b) \in Int /\ InBalances(balance') = InBalances(b) - fee
<1>1. -fee \in Int
  OBVIOUS
<1> DEFINE delta == -fee
           c == Adjust(b, payer, delta)
<1>2. balance' = c
  BY DEF PayFee
<1> HIDE DEF delta
<1>3. BalancesTyped(c) /\ InBalances(b) \in Int /\ InBalances(c) = InBalances(b) + delta
  BY <1>1, AdjustAdds DEF delta
<1>4. InBalances(b) \in Int => InBalances(b) + delta = InBalances(b) - fee
  BY DEF delta
<1> QED BY <1>2, <1>3, <1>4

\* An operation takes the fee and moves z to hidden balances.
CoreMoves(fee, z) ==
  /\ core'.current_supply = core.current_supply
  /\ core'.accumulated_fees = core.accumulated_fees + fee
  /\ core'.confidential_supply = core.confidential_supply + z

(***************************************************************************)
(* The core asset's data after an operation.                               *)
(***************************************************************************)
LEMMA WithFeeAdds ==
  ASSUME CoreTyped(core), NEW fee \in Nat, NEW delta \in Int, WithFee(fee, delta)
  PROVE  /\ CoreTyped(core') /\ CoreMoves(fee, delta) /\ core'.wraps = core.wraps
         /\ core'.confidential_supply = core.confidential_supply + delta
<1>1. core' = [core EXCEPT !.accumulated_fees = core.accumulated_fees + fee,
                           !.confidential_supply = core.confidential_supply + delta]
  BY DEF WithFee
<1> QED BY <1>1 DEF CoreTyped, CoreMoves

\* An operation moves x to the balances of accounts, y to vesting balances and
\* z to hidden ones, and takes the fee.
Moves(fee, x, y, z) ==
  /\ x \in Int /\ y \in Int /\ z \in Int
  /\ UNCHANGED dgp /\ CoreMoves(fee, z)
  /\ InBalances(balance') = InBalances(balance) + x - fee
  /\ InBalances(vesting') = InBalances(vesting) + y

(***************************************************************************)
(* What is in the balances is a number.                                    *)
(***************************************************************************)
LEMMA BalancesAreNumbers ==
  ASSUME Typed
  PROVE  InBalances(balance) \in Int /\ InBalances(vesting) \in Int
<1>1. InBalances(balance) \in Int
  BY AdjustAdds, SupplyAssumption, 0 \in Int DEF Typed
<1>2. InBalances(vesting) \in Int
  <2>1. VestingsTyped(vesting)
    BY DEF Typed
  <2>2. PICK a \in Accounts : TRUE
    BY SupplyAssumption
  <2>3. NoVesting \in DOMAIN vesting \cup {NoVesting} /\ 0 \in Int
    OBVIOUS
  <2> DEFINE n == LazyId(vesting, NoVesting, a, 0)
             v == LazyVesting(vesting, NoVesting, a, 0, 0, 0)
  <2>4. Adds(vesting, WithVesting(vesting, n, v), n, 0)
    BY ONLY <2>1, <2>2, <2>3, LazyAdds, Zenon
  <2> QED BY <2>4 DEF Adds
<1> QED BY <1>1, <1>2

(***************************************************************************)
(* An operation that moves nothing in all keeps the supply.                *)
(***************************************************************************)
LEMMA OperationKeeps ==
  ASSUME Typed, SupplyAccounted,
         NEW fee \in Nat, NEW x, NEW y, NEW z, Moves(fee, x, y, z), x + y + z = 0
  PROVE  SupplyAccounted'
<1>0. /\ InBalances(balance) \in Int /\ InBalances(vesting) \in Int
      /\ x \in Int /\ y \in Int /\ z \in Int /\ UNCHANGED dgp /\ CoreMoves(fee, z)
      /\ InBalances(balance') = InBalances(balance) + x - fee
      /\ InBalances(vesting') = InBalances(vesting) + y
  BY BalancesAreNumbers DEF Moves
<1>1. CoreTyped(core) /\ DgpTyped(dgp)
  BY DEF Typed
<1>2. /\ core'.current_supply = core.current_supply
      /\ core'.accumulated_fees = core.accumulated_fees + fee
      /\ core'.confidential_supply = core.confidential_supply + z
  BY <1>0 DEF CoreMoves
<1>3. /\ dgp.mined_rewards \in Int /\ dgp.miner_budget_from_fees \in Int
      /\ dgp.unspent_fee_budget \in Int /\ core.accumulated_fees \in Int
      /\ core.current_supply \in Int /\ core.confidential_supply \in Int
  BY <1>1 DEF CoreTyped, DgpTyped
<1>4. SupplyDelta(dgp', core') = SupplyDelta(dgp, core) - fee /\ SupplyDelta(dgp, core) \in Int
  BY <1>0, <1>2, <1>3 DEF SupplyDelta
<1>5. core.current_supply + SupplyDelta(dgp, core)
        = InBalances(balance) + InBalances(vesting) + core.confidential_supply
  BY DEF SupplyAccounted
<1>6. core'.current_supply + SupplyDelta(dgp', core')
        = InBalances(balance') + InBalances(vesting') + core'.confidential_supply
  BY <1>0, <1>2, <1>3, <1>4, <1>5
<1> QED BY <1>6 DEF SupplyAccounted

(***************************************************************************)
(* transfer_evaluator and account_update_evaluator                         *)
(***************************************************************************)
LEMMA TransferKeeps ==
  ASSUME SupplyInv, NEW from \in Accounts, NEW to \in Accounts, NEW amount \in Amounts,
         NEW fee \in Fees, Transfer(from, to, amount, fee)
  PROVE  SupplyInv'
<1>1. fee \in Nat /\ amount \in Nat /\ -amount \in Int /\ amount \in Int
  BY SupplyAssumption
<1>2. Typed /\ BalancesTyped(balance) /\ CoreTyped(core)
  BY DEF SupplyInv, Typed
<1> DEFINE minus == -amount
           b1 == Adjust(balance, from, minus)
           b2 == Adjust(b1, to, amount)
<1>3. PayFee(b2, from, fee) /\ WithFee(fee, 0)
  BY DEF Transfer
<1> HIDE DEF minus
<1>4. BalancesTyped(b1) /\ InBalances(balance) \in Int /\ InBalances(b1) = InBalances(balance) + minus
  BY <1>1, <1>2, AdjustAdds DEF minus
<1> HIDE DEF b1
<1>5. BalancesTyped(b2) /\ InBalances(b2) = InBalances(b1) + amount
  BY <1>1, <1>4, AdjustAdds
<1> HIDE DEF b2
<1>6. BalancesTyped(balance') /\ InBalances(balance') = InBalances(b2) - fee
  BY <1>1, <1>3, <1>5, PayFeeTakes
<1>7. InBalances(balance') = InBalances(balance) + 0 - fee
  BY <1>1, <1>4, <1>5, <1>6 DEF minus
<1>8. UNCHANGED <<account, vesting, miner, blinded, confidential, dgp, gpo>>
  BY DEF Transfer
<1>9. SupplyAccounted'
  <2>1. InBalances(vesting') = InBalances(vesting) + 0
    BY <1>2, <1>8, BalancesAreNumbers
  <2>2. Moves(fee, 0, 0, 0)
    BY <1>1, <1>2, <1>3, <1>7, <1>8, <2>1, WithFeeAdds DEF Moves
  <2>3. 0 + 0 + 0 = 0 /\ SupplyAccounted
    BY DEF SupplyInv
  <2> QED BY ONLY <1>1, <1>2, <2>2, <2>3, OperationKeeps
<1>10. CoreTyped(core') /\ core'.confidential_supply = core.confidential_supply
      /\ core'.wraps = core.wraps
  BY <1>1, <1>2, <1>3, WithFeeAdds DEF CoreTyped
<1>11. Typed'
  BY <1>2, <1>6, <1>8, <1>10 DEF Typed
<1>12. ConfidentialBacked'
  BY <1>8, <1>10 DEF SupplyInv, ConfidentialBacked
<1> QED BY <1>9, <1>11, <1>12 DEF SupplyInv

(***************************************************************************)
(* account_update_evaluator                                                *)
(***************************************************************************)
LEMMA UpdateAccountKeeps ==
  ASSUME SupplyInv, NEW a \in Accounts, NEW options \in Options, NEW fee \in Fees,
         UpdateAccount(a, options, fee)
  PROVE  SupplyInv'
<1>1. fee \in Nat /\ options.voting_account \in Accounts /\ options.votes \in SUBSET Miners
  BY SupplyAssumption
<1>2. Typed /\ BalancesTyped(balance) /\ CoreTyped(core) /\ SupplyAccounted
  BY DEF SupplyInv, Typed
<1>3. /\ PayFee(balance, a, fee) /\ WithFee(fee, 0)
      /\ UNCHANGED <<vesting, miner, blinded, confidential, dgp, gpo>>
  BY DEF UpdateAccount
<1>4. BalancesTyped(balance') /\ InBalances(balance') = InBalances(balance) - fee
  BY <1>1, <1>2, <1>3, PayFeeTakes
<1>5. AccountsTyped(account', DOMAIN vesting')
  <2> DEFINE T == [voting_account : Accounts, votes : SUBSET Miners,
                   cashback_vb : DOMAIN vesting \cup {NoVesting}]
             m == [account EXCEPT ![a].voting_account = options.voting_account]
  <2>1. account \in [Accounts -> T]
    BY <1>2 DEF Typed, AccountsTyped
  <2>2. m \in [Accounts -> T]
    BY <1>1, <2>1
  <2>3. account' = [m EXCEPT ![a].votes = options.votes]
    BY DEF UpdateAccount
  <2> HIDE DEF m
  <2>4. account' \in [Accounts -> T]
    BY <1>1, <2>2, <2>3
  <2> QED BY <1>3, <2>4 DEF AccountsTyped
<1>6. Moves(fee, 0, 0, 0)
  <2>1. InBalances(balance) \in Int /\ InBalances(vesting) \in Int
    BY <1>2, BalancesAreNumbers
  <2> QED BY <1>1, <1>2, <1>3, <1>4, <2>1, WithFeeAdds DEF Moves
<1>7. SupplyAccounted'
  <2>1. 0 + 0 + 0 = 0
    OBVIOUS
  <2> QED BY ONLY <1>1, <1>2, <1>6, <2>1, OperationKeeps
<1>8. CoreTyped(core') /\ core'.confidential_supply = core.confidential_supply
      /\ core'.wraps = core.wraps
  BY <1>1, <1>2, <1>3, WithFeeAdds DEF CoreTyped
<1>9. Typed'
  BY <1>2, <1>3, <1>4, <1>5, <1>8 DEF Typed
<1>10. ConfidentialBacked'
  BY <1>3, <1>8 DEF SupplyInv, ConfidentialBacked
<1> QED BY <1>7, <1>9, <1>10 DEF SupplyInv

(***************************************************************************)
(* The balances after one or two of them changed and the fee was paid.     *)
(***************************************************************************)
LEMMA BalanceMoves ==
  ASSUME BalancesTyped(balance), NEW p \in Accounts, NEW x \in Int,
         NEW payer \in Accounts, NEW fee \in Nat, PayFee(Adjust(balance, p, x), payer, fee)
  PROVE  BalancesTyped(balance') /\ InBalances(balance') = InBalances(balance) + x - fee
<1> DEFINE b == Adjust(balance, p, x)
<1>1. BalancesTyped(b) /\ InBalances(balance) \in Int /\ InBalances(b) = InBalances(balance) + x
  BY AdjustAdds
<1> HIDE DEF b
<1>2. BalancesTyped(balance') /\ InBalances(balance') = InBalances(b) - fee
  BY <1>1, PayFeeTakes DEF b
<1> QED BY <1>1, <1>2

(***************************************************************************)
(* A transfer with its fee: two balances are adjusted, and the payer       *)
(* pays. What is in balances changes by what the adjustments and the fee   *)
(* do.                                                                     *)
(***************************************************************************)
LEMMA BalancesMove ==
  ASSUME BalancesTyped(balance), NEW p \in Accounts, NEW x \in Int, NEW q \in Accounts, NEW y \in Int,
         NEW payer \in Accounts, NEW fee \in Nat,
         PayFee(Adjust(Adjust(balance, p, x), q, y), payer, fee)
  PROVE  BalancesTyped(balance') /\ InBalances(balance') = InBalances(balance) + (x + y) - fee
<1> DEFINE b == Adjust(balance, p, x)
           c == Adjust(b, q, y)
<1>1. BalancesTyped(b) /\ InBalances(balance) \in Int /\ InBalances(b) = InBalances(balance) + x
  BY AdjustAdds
<1>2. PayFee(c, payer, fee)
  OBVIOUS
<1> HIDE DEF b
<1>3. BalancesTyped(c) /\ InBalances(c) = InBalances(b) + y
  BY <1>1, AdjustAdds
<1> HIDE DEF c
<1>4. BalancesTyped(balance') /\ InBalances(balance') = InBalances(c) - fee
  BY <1>2, <1>3, PayFeeTakes
<1> QED BY <1>1, <1>3, <1>4

(***************************************************************************)
(* More vesting balances do not take away the balances that accounts and   *)
(* miners are paid to.                                                     *)
(***************************************************************************)
LEMMA MoreVestings ==
  ASSUME NEW ids, NEW more, ids \subseteq more
  PROVE  /\ \A acc : AccountsTyped(acc, ids) => AccountsTyped(acc, more)
         /\ \A mnr : MinersTyped(mnr, ids) => MinersTyped(mnr, more)
<1>1. ASSUME NEW acc, AccountsTyped(acc, ids) PROVE AccountsTyped(acc, more)
  BY <1>1 DEF AccountsTyped
<1>2. ASSUME NEW mnr, MinersTyped(mnr, ids) PROVE MinersTyped(mnr, more)
  BY <1>2 DEF MinersTyped
<1> QED BY <1>1, <1>2

(***************************************************************************)
(* vesting_balance_create_evaluator                                        *)
(***************************************************************************)
LEMMA CreateVestingKeeps ==
  ASSUME SupplyInv, NEW creator \in Accounts, NEW owner \in Accounts, NEW amount \in Amounts,
         NEW i \in Policies, NEW fee \in Fees, CreateVesting(creator, owner, amount, i, fee)
  PROVE  SupplyInv'
<1> DEFINE id == NewVesting(vesting, owner)
           q == InitPolicy(i, amount, dgp.time)
           v == [owner |-> owner, balance |-> amount, policy |-> q]
           minus == -amount
<1>1. fee \in Nat /\ amount \in Int /\ minus \in Int
  BY SupplyAssumption
<1>2. Typed /\ BalancesTyped(balance) /\ CoreTyped(core) /\ SupplyAccounted /\ VestingsTyped(vesting)
  BY DEF SupplyInv, Typed
<1>3. /\ vesting' = WithVesting(vesting, id, v)
      /\ PayFee(Adjust(balance, creator, minus), creator, fee) /\ WithFee(fee, 0)
      /\ UNCHANGED <<account, miner, blinded, confidential, dgp, gpo>>
  BY DEF CreateVesting
<1>4. Adds(vesting, vesting', id, amount)
  <2> HIDE DEF q
  <2>1. v.balance = amount /\ IsVesting(v, owner)
    BY <1>1 DEF IsVesting
  <2>2. id \notin DOMAIN vesting /\ id[1] = owner
    BY <1>2, NewVestingIsNew
  <2> HIDE DEF v
  <2>3. Fits(vesting, id, v, owner, amount)
    BY <2>1, <2>2 DEF Fits
  <2> HIDE DEF id
  <2>4. Adds(vesting, WithVesting(vesting, id, v), id, amount)
    BY <1>1, <1>2, <2>3, WithVestingAdds, Zenon
  <2> QED BY <1>3, <2>4
<1> HIDE DEF id, v, q
<1>5. /\ BalancesTyped(balance') /\ InBalances(balance') = InBalances(balance) + minus - fee
  BY <1>1, <1>2, <1>3, BalanceMoves DEF minus
<1>6. Moves(fee, minus, amount, 0)
  BY <1>1, <1>2, <1>3, <1>4, <1>5, WithFeeAdds DEF Moves, Adds
<1>7. SupplyAccounted'
  <2>1. minus + amount + 0 = 0
    BY <1>1
  <2> HIDE DEF minus
  <2> QED BY ONLY <1>1, <1>2, <1>6, <2>1, OperationKeeps
<1>8. CoreTyped(core') /\ core'.confidential_supply = core.confidential_supply
      /\ core'.wraps = core.wraps
  BY <1>1, <1>2, <1>3, WithFeeAdds DEF CoreTyped
<1>9. /\ AccountsTyped(account', DOMAIN vesting') /\ MinersTyped(miner', DOMAIN vesting')
      /\ VestingsTyped(vesting')
  BY <1>2, <1>3, <1>4, MoreVestings DEF Adds, Typed
<1>10. Typed'
  BY <1>2, <1>3, <1>5, <1>8, <1>9 DEF Typed
<1>11. ConfidentialBacked'
  BY <1>3, <1>8 DEF SupplyInv, ConfidentialBacked
<1> QED BY <1>7, <1>10, <1>11 DEF SupplyInv

(***************************************************************************)
(* vesting_balance_withdraw_evaluator                                      *)
(***************************************************************************)
LEMMA WithdrawVestingKeeps ==
  ASSUME SupplyInv, NEW id \in DOMAIN vesting, NEW amount \in Amounts, NEW fee \in Fees,
         WithdrawVesting(id, amount, fee)
  PROVE  SupplyInv'
<1> DEFINE o == vesting[id]
           owner == id[1]
           minus == -amount
           w == Withdraw(o, dgp.time, amount)
<1>1. fee \in Nat /\ amount \in Int /\ minus \in Int
  BY SupplyAssumption
<1>2. Typed /\ BalancesTyped(balance) /\ CoreTyped(core) /\ SupplyAccounted /\ VestingsTyped(vesting)
  BY DEF SupplyInv, Typed
<1>3. IsVesting(o, owner) /\ owner \in Accounts
  BY <1>2 DEF VestingsTyped
<1>4. o.owner = owner
  <2> HIDE DEF o, owner
  <2> QED BY <1>3, OwnerOf
<1>5. /\ vesting' = [vesting EXCEPT ![id] = w]
      /\ PayFee(Adjust(balance, owner, amount), owner, fee) /\ WithFee(fee, 0)
      /\ UNCHANGED <<account, miner, blinded, confidential, dgp, gpo>>
  BY <1>4 DEF WithdrawVesting
<1>6. IsVesting(w, owner) /\ w.balance = o.balance + minus
  <2> DEFINE b == o.balance
             p == o.policy
             c == o.balance - amount
  <2>1. PICK q : w = [o EXCEPT !.policy = q, !.balance = c]
    BY DEF Withdraw
  <2> HIDE DEF o, owner, w
  <2>2. o = [owner |-> owner, balance |-> b, policy |-> p] /\ b \in Int
    BY <1>3 DEF IsVesting
  <2> HIDE DEF b, p, c
  <2>3. w = [owner |-> owner, balance |-> c, policy |-> q]
    BY <2>1, <2>2, VestingExcept
  <2>4. c \in Int /\ c = b + minus
    BY <1>1, <2>2 DEF c, b
  <2> QED BY <2>3, <2>4 DEF IsVesting, b
<1>7. Adds(vesting, vesting', id, minus)
  <2>1. vesting' = WithVesting(vesting, id, w)
    <3> HIDE DEF w
    <3> QED BY <1>5 DEF WithVesting
  <2>2. Fits(vesting, id, w, owner, minus)
    <3> HIDE DEF w
    <3> QED BY <1>6 DEF Fits
  <2> HIDE DEF w, owner, minus
  <2>3. Adds(vesting, WithVesting(vesting, id, w), id, minus)
    BY ONLY <1>1, <1>2, <1>3, <2>2, WithVestingAdds, Zenon
  <2> QED BY <2>1, <2>3
<1>8. /\ BalancesTyped(balance') /\ InBalances(balance') = InBalances(balance) + amount - fee
  <2> HIDE DEF owner
  <2> QED BY <1>1, <1>2, <1>3, <1>5, BalanceMoves
<1>9. Moves(fee, amount, minus, 0)
  BY <1>1, <1>2, <1>5, <1>7, <1>8, WithFeeAdds DEF Moves, Adds
<1>10. SupplyAccounted'
  <2>1. amount + minus + 0 = 0
    BY <1>1
  <2> HIDE DEF minus
  <2> QED BY ONLY <1>1, <1>2, <1>9, <2>1, OperationKeeps
<1>11. CoreTyped(core') /\ core'.confidential_supply = core.confidential_supply
      /\ core'.wraps = core.wraps
  BY <1>1, <1>2, <1>5, WithFeeAdds DEF CoreTyped
<1>12. /\ AccountsTyped(account', DOMAIN vesting') /\ MinersTyped(miner', DOMAIN vesting')
       /\ VestingsTyped(vesting')
  BY <1>2, <1>5, <1>7, MoreVestings DEF Adds, Typed
<1>13. Typed'
  BY <1>2, <1>5, <1>8, <1>11, <1>12 DEF Typed
<1>14. ConfidentialBacked'
  BY <1>5, <1>11 DEF SupplyInv, ConfidentialBacked
<1> QED BY <1>10, <1>13, <1>14 DEF SupplyInv

----------------------------------------------------------------------------
(* Operations on hidden balances. *)

\* What a state hides, as confidential_supply counts it.
Backing == Hidden(blinded) + NoteValue(confidential, Unspent(confidential)) + Word * core.wraps

(***************************************************************************)
(* An operation that moves x to the balances of accounts and z to hidden   *)
(* ones keeps the invariant if these hide z more.                          *)
(***************************************************************************)
LEMMA HidingMoves ==
  ASSUME SupplyInv, NEW fee \in Nat, NEW x \in Int, NEW z \in Int, x + z = 0,
         CoreTyped(core'), CoreMoves(fee, z), UNCHANGED <<account, vesting, miner, dgp, gpo>>,
         BalancesTyped(balance'), InBalances(balance') = InBalances(balance) + x - fee,
         HiddenTyped(blinded'), NotesTyped(confidential'),
         Backing \in Int, Backing' = Backing + z
  PROVE  SupplyInv'
<1>1. Typed /\ SupplyAccounted /\ CoreTyped(core)
  BY DEF SupplyInv, Typed
<1>2. core'.confidential_supply = core.confidential_supply + z
  BY DEF CoreMoves
<1>3. Moves(fee, x, 0, z)
  <2>1. InBalances(vesting') = InBalances(vesting) + 0
    BY <1>1, BalancesAreNumbers
  <2> QED BY <2>1 DEF Moves
<1>4. SupplyAccounted'
  <2>1. x + 0 + z = 0
    OBVIOUS
  <2> QED BY ONLY fee \in Nat, <1>1, <1>3, <2>1, OperationKeeps
<1>5. Typed'
  BY <1>1 DEF Typed
<1>6. ConfidentialBacked'
  <2>1. core.confidential_supply = Backing
    BY DEF SupplyInv, ConfidentialBacked, Backing, Hidden
  <2>2. core'.confidential_supply = Backing'
    BY <1>2, <2>1
  <2> QED BY <2>2 DEF ConfidentialBacked, Backing, Hidden
<1> QED BY <1>4, <1>5, <1>6 DEF SupplyInv

(***************************************************************************)
(* The same of an operation that has no public volume below zero.          *)
(***************************************************************************)
LEMMA HidingKeeps ==
  ASSUME SupplyInv, NEW fee \in Nat, NEW x \in Int, NEW z \in Int, x + z = 0,
         WithFee(fee, z), UNCHANGED <<account, vesting, miner, dgp, gpo>>,
         BalancesTyped(balance'), InBalances(balance') = InBalances(balance) + x - fee,
         HiddenTyped(blinded'), NotesTyped(confidential'),
         Hidden(blinded) \in Int, NoteValue(confidential, Unspent(confidential)) \in Int,
         Hidden(blinded') + NoteValue(confidential', Unspent(confidential')) =
           Hidden(blinded) + NoteValue(confidential, Unspent(confidential)) + z
  PROVE  SupplyInv'
<1>1. CoreTyped(core)
  BY DEF SupplyInv, Typed
<1>2. CoreTyped(core') /\ CoreMoves(fee, z) /\ core'.wraps = core.wraps
  BY <1>1, WithFeeAdds
<1>3. Word * core.wraps \in Int
  BY <1>1, SupplyAssumption DEF CoreTyped
<1>4. Backing \in Int /\ Backing' = Backing + z
  <2> DEFINE k == Word * core.wraps
             h == Hidden(blinded)
             n == NoteValue(confidential, Unspent(confidential))
  <2>1. Backing = h + n + k /\ h \in Int /\ n \in Int /\ k \in Int
    BY <1>3 DEF Backing
  <2>2. Backing' = Hidden(blinded') + NoteValue(confidential', Unspent(confidential')) + k
    BY <1>2 DEF Backing
  <2>3. Hidden(blinded') + NoteValue(confidential', Unspent(confidential')) = h + n + z
    OBVIOUS
  <2> HIDE DEF h, n, k
  <2>4. Backing' = (h + n + z) + k
    BY <2>2, <2>3
  <2> QED BY ONLY z \in Int, <2>1, <2>4
<1> QED BY <1>2, <1>4, HidingMoves

(***************************************************************************)
(* What a state hides is a number.                                         *)
(***************************************************************************)
LEMMA HiddenAreNumbers ==
  ASSUME SupplyInv
  PROVE  /\ HiddenTyped(blinded) /\ NotesTyped(confidential) /\ BalancesTyped(balance)
         /\ Hidden(blinded) \in Int /\ NoteValue(confidential, Unspent(confidential)) \in Int
<1>1. HiddenTyped(blinded) /\ NotesTyped(confidential) /\ BalancesTyped(balance)
  BY DEF SupplyInv, Typed
<1>2. Hidden(blinded) \in Int
  BY <1>1, HiddenPart
<1>3. NoteValue(confidential, Unspent(confidential)) \in Int
  BY <1>1, NotesSpent
<1> QED BY <1>1, <1>2, <1>3

(***************************************************************************)
(* transfer_to_blind_evaluator and transfer_to_confidential_evaluator      *)
(***************************************************************************)
LEMMA TransferToBlindKeeps ==
  ASSUME SupplyInv, NEW from \in Accounts, NEW amount \in Amounts, NEW fee \in Fees,
         TransferToBlind(from, amount, fee)
  PROVE  SupplyInv'
<1> DEFINE minus == -amount
<1>0. PICK outs \in Outputs(amount) :
        /\ DOMAIN outs \cap DOMAIN blinded = {} /\ blinded' = With(blinded, outs)
        /\ PayFee(Adjust(balance, from, minus), from, fee) /\ WithFee(fee, amount)
        /\ UNCHANGED <<account, vesting, miner, confidential, dgp, gpo>>
  BY DEF TransferToBlind
<1>1. fee \in Nat /\ HiddenTyped(outs) /\ Hidden(outs) = amount /\ amount \in Int /\ minus \in Int
  <2>1. amount \in Int /\ fee \in Nat
    BY SupplyAssumption
  <2> QED BY <2>1, OutputsTyped
<1>2. /\ HiddenTyped(blinded) /\ NotesTyped(confidential) /\ BalancesTyped(balance)
      /\ Hidden(blinded) \in Int /\ NoteValue(confidential, Unspent(confidential)) \in Int
  BY HiddenAreNumbers
<1>3. /\ DOMAIN outs \cap DOMAIN blinded = {} /\ blinded' = With(blinded, outs)
      /\ PayFee(Adjust(balance, from, minus), from, fee) /\ WithFee(fee, amount)
      /\ UNCHANGED <<account, vesting, miner, confidential, dgp, gpo>>
  BY <1>0
<1>4. HiddenTyped(blinded') /\ Hidden(blinded') = Hidden(blinded) + amount
  BY <1>1, <1>2, <1>3, WithAdds
<1>5. BalancesTyped(balance') /\ InBalances(balance') = InBalances(balance) + minus - fee
  <2> HIDE DEF minus
  <2> QED BY <1>1, <1>2, <1>3, BalanceMoves
<1>6. minus + amount = 0
  BY <1>1
<1>7. Hidden(blinded') + NoteValue(confidential', Unspent(confidential')) =
        Hidden(blinded) + NoteValue(confidential, Unspent(confidential)) + amount
  BY <1>1, <1>2, <1>3, <1>4
<1> HIDE DEF minus
<1> QED BY <1>1, <1>2, <1>3, <1>4, <1>5, <1>6, <1>7, HidingKeeps

(***************************************************************************)
(* transfer_to_confidential: what leaves the balance is hidden in notes.   *)
(***************************************************************************)
LEMMA TransferToConfidentialKeeps ==
  ASSUME SupplyInv, NEW from \in Accounts, NEW amount \in Amounts, NEW fee \in Fees,
         TransferToConfidential(from, amount, fee)
  PROVE  SupplyInv'
<1> DEFINE minus == -amount
<1>0. PICK outs \in Outputs(amount) :
        /\ DOMAIN outs \cap DOMAIN confidential = {} /\ confidential' = WithNotes(confidential, outs)
        /\ PayFee(Adjust(balance, from, minus), from, fee) /\ WithFee(fee, amount)
        /\ UNCHANGED <<account, vesting, miner, blinded, dgp, gpo>>
  BY DEF TransferToConfidential
<1>1. fee \in Nat /\ HiddenTyped(outs) /\ Hidden(outs) = amount /\ amount \in Int /\ minus \in Int
  <2>1. amount \in Int /\ fee \in Nat
    BY SupplyAssumption
  <2> QED BY <2>1, OutputsTyped
<1>2. /\ HiddenTyped(blinded) /\ NotesTyped(confidential) /\ BalancesTyped(balance)
      /\ Hidden(blinded) \in Int /\ NoteValue(confidential, Unspent(confidential)) \in Int
  BY HiddenAreNumbers
<1>3. /\ DOMAIN outs \cap DOMAIN confidential = {} /\ confidential' = WithNotes(confidential, outs)
      /\ PayFee(Adjust(balance, from, minus), from, fee) /\ WithFee(fee, amount)
      /\ UNCHANGED <<account, vesting, miner, blinded, dgp, gpo>>
  BY <1>0
<1>4. /\ NotesTyped(confidential')
      /\ NoteValue(confidential', Unspent(confidential'))
           = NoteValue(confidential, Unspent(confidential)) + amount
  BY <1>1, <1>2, <1>3, NotesAdd
<1>5. BalancesTyped(balance') /\ InBalances(balance') = InBalances(balance) + minus - fee
  <2> HIDE DEF minus
  <2> QED BY <1>1, <1>2, <1>3, BalanceMoves
<1>6. minus + amount = 0
  BY <1>1
<1>7. Hidden(blinded') + NoteValue(confidential', Unspent(confidential')) =
        Hidden(blinded) + NoteValue(confidential, Unspent(confidential)) + amount
  BY <1>1, <1>2, <1>3, <1>4
<1> HIDE DEF minus
<1> QED BY <1>1, <1>2, <1>3, <1>4, <1>5, <1>6, <1>7, HidingKeeps

(***************************************************************************)
(* transfer_from_blind_evaluator: what the inputs hid goes to an account   *)
(* and, as the fee, through the temporary account.                         *)
(***************************************************************************)
LEMMA TransferFromBlindKeeps ==
  ASSUME SupplyInv, NEW ins \in SUBSET DOMAIN blinded, NEW to \in Accounts, NEW fee \in Fees,
         TransferFromBlind(ins, to, fee)
  PROVE  SupplyInv'
<1> DEFINE hid == Total(blinded, ins)
           amount == hid - fee
           minus == -(amount + fee)
<1>1. fee \in Nat /\ fee \in Int /\ TempAccount \in Accounts
  BY SupplyAssumption
<1>2. /\ HiddenTyped(blinded) /\ NotesTyped(confidential) /\ BalancesTyped(balance)
      /\ Hidden(blinded) \in Int /\ NoteValue(confidential, Unspent(confidential)) \in Int
  BY HiddenAreNumbers
<1>3. /\ blinded' = Restrict(blinded, DOMAIN blinded \ ins)
      /\ PayFee(Adjust(Adjust(balance, TempAccount, fee), to, amount), TempAccount, fee)
      /\ WithFee(fee, minus)
      /\ UNCHANGED <<account, vesting, miner, confidential, dgp, gpo>>
  BY DEF TransferFromBlind
<1>4. HiddenTyped(blinded') /\ hid \in Int /\ Hidden(blinded') = Hidden(blinded) - hid
  BY <1>2, <1>3, RestrictRemoves
<1> HIDE DEF hid
<1>5. amount \in Int /\ minus \in Int /\ fee + amount \in Int
      /\ (fee + amount) + minus = 0 /\ minus = -hid
  BY <1>1, <1>4
<1> HIDE DEF amount, minus
<1>6. BalancesTyped(balance') /\ InBalances(balance') = InBalances(balance) + (fee + amount) - fee
  BY <1>1, <1>2, <1>3, <1>5, BalancesMove
<1>7. Hidden(blinded') + NoteValue(confidential', Unspent(confidential')) =
        Hidden(blinded) + NoteValue(confidential, Unspent(confidential)) + minus
  BY <1>2, <1>3, <1>4, <1>5
<1> DEFINE x == fee + amount
<1> HIDE DEF x
<1>8. x \in Int /\ x + minus = 0 /\ InBalances(balance') = InBalances(balance) + x - fee
  BY <1>5, <1>6 DEF x
<1> QED BY <1>1, <1>2, <1>3, <1>4, <1>5, <1>6, <1>7, <1>8, HidingKeeps

(***************************************************************************)
(* blind_transfer_evaluator: the inputs hid what the outputs do and fee.   *)
(***************************************************************************)
LEMMA BlindTransferKeeps ==
  ASSUME SupplyInv, NEW ins \in SUBSET DOMAIN blinded, NEW fee \in Fees, BlindTransfer(ins, fee)
  PROVE  SupplyInv'
<1> DEFINE hid == Total(blinded, ins)
           minus == -fee
           rest == Restrict(blinded, DOMAIN blinded \ ins)
<1>1. fee \in Nat /\ fee \in Int /\ TempAccount \in Accounts /\ minus \in Int /\ fee + minus = 0
  BY SupplyAssumption
<1>2. /\ HiddenTyped(blinded) /\ NotesTyped(confidential) /\ BalancesTyped(balance)
      /\ Hidden(blinded) \in Int /\ NoteValue(confidential, Unspent(confidential)) \in Int
  BY HiddenAreNumbers
<1>3. PICK outs \in Outputs(hid - fee) :
         /\ DOMAIN outs \cap (DOMAIN blinded \ ins) = {}
         /\ blinded' = With(rest, outs)
         /\ PayFee(Adjust(balance, TempAccount, fee), TempAccount, fee)
         /\ WithFee(fee, minus)
         /\ UNCHANGED <<account, vesting, miner, confidential, dgp, gpo>>
  BY DEF BlindTransfer
<1> HIDE DEF rest
<1>4. HiddenTyped(rest) /\ DOMAIN rest = DOMAIN blinded \ ins
      /\ hid \in Int /\ Hidden(rest) = Hidden(blinded) - hid
  BY <1>2, RestrictRemoves DEF rest
<1> HIDE DEF hid
<1>5. HiddenTyped(outs) /\ Hidden(outs) = hid - fee
  <2>1. hid - fee \in Int
    BY <1>1, <1>4
  <2> QED BY <2>1, OutputsTyped
<1>6. HiddenTyped(blinded') /\ Hidden(outs) \in Int /\ Hidden(blinded') = Hidden(rest) + Hidden(outs)
  BY <1>3, <1>4, <1>5, WithAdds
<1>7. BalancesTyped(balance') /\ InBalances(balance') = InBalances(balance) + fee - fee
  BY <1>1, <1>2, <1>3, BalanceMoves
<1>8. Hidden(blinded') + NoteValue(confidential', Unspent(confidential')) =
        Hidden(blinded) + NoteValue(confidential, Unspent(confidential)) + minus
  BY <1>1, <1>2, <1>3, <1>4, <1>5, <1>6
<1> HIDE DEF minus
<1> QED BY <1>1, <1>2, <1>3, <1>6, <1>7, <1>8, HidingKeeps

(***************************************************************************)
(* The number that a public volume is committed as is off by a Word if the *)
(* volume is negative.                                                     *)
(***************************************************************************)
LEMMA CommittedIs ==
  ASSUME NEW volume \in Int, NEW n \in Nat, NEW m, m = IF volume < 0 THEN n + 1 ELSE n
  PROVE  /\ Committed(volume) \in Int /\ m \in Nat
         /\ Word * n \in Int /\ Word * m \in Int
         /\ Word * m - Committed(volume) = Word * n - volume
<1>1. Word \in Nat
  BY SupplyAssumption
<1>2. Word * (n + 1) = Word * n + Word /\ Word * n \in Int
  BY <1>1
<1> DEFINE k == Word * n
<1>3. CASE volume < 0
  <2>1. m = n + 1 /\ Committed(volume) = volume + Word /\ Word * m = k + Word /\ k \in Int
    BY <1>2, <1>3 DEF Committed
  <2> HIDE DEF k
  <2>2. Word * m - Committed(volume) = k - volume
    BY <1>1, <2>1
  <2>3. Committed(volume) \in Int /\ Word * m \in Int
    BY <1>1, <2>1
  <2> QED BY <2>1, <2>2, <2>3 DEF k
<1>4. CASE ~(volume < 0)
  BY <1>2, <1>4 DEF Committed
<1> QED BY <1>3, <1>4

(***************************************************************************)
(* transfer_from_confidential_evaluator: the inputs hid what the outputs   *)
(* do, and what the public volume is committed as.                         *)
(***************************************************************************)
LEMMA TransferFromConfidentialKeeps ==
  ASSUME SupplyInv, NEW ins \in SUBSET DOMAIN confidential, NEW p \in Payments,
         NEW fee \in Fees, TransferFromConfidential(ins, p, fee)
  PROVE  SupplyInv'
<1> DEFINE hid == NoteValue(confidential, ins)
           volume == fee + Total(p, DOMAIN p)
           minus == -volume
           b == Adjust(balance, TempAccount, fee)
           w == [c \in DOMAIN confidential |->
                   IF c \in ins THEN [confidential[c] EXCEPT !.unspent = FALSE] ELSE confidential[c]]
<1>1. /\ fee \in Nat /\ fee \in Int /\ TempAccount \in Accounts
      /\ DOMAIN p \subseteq Accounts /\ \A a \in DOMAIN p : p[a] \in Int
  BY SupplyAssumption
<1>2. /\ HiddenTyped(blinded) /\ NotesTyped(confidential) /\ BalancesTyped(balance)
      /\ Hidden(blinded) \in Int /\ NoteValue(confidential, Unspent(confidential)) \in Int
  BY HiddenAreNumbers
<1>3. PICK outs \in Outputs(hid - Committed(volume)) :
         /\ DOMAIN outs \cap DOMAIN confidential = {} /\ ins \in SUBSET Unspent(confidential)
         /\ confidential' = WithNotes(w, outs)
         /\ PayFee(Paid(b, p), TempAccount, fee)
         /\ core' = [core EXCEPT !.accumulated_fees = @ + fee, !.confidential_supply = @ - volume,
                                 !.wraps = IF volume < 0 THEN @ + 1 ELSE @]
         /\ UNCHANGED <<account, vesting, miner, blinded, dgp, gpo>>
  BY DEF TransferFromConfidential
<1>4. /\ NotesTyped(w) /\ DOMAIN w = DOMAIN confidential /\ hid \in Int
      /\ NoteValue(w, Unspent(w)) = NoteValue(confidential, Unspent(confidential)) - hid
  BY <1>2, <1>3, NotesSpent
<1> HIDE DEF w, hid
<1>5. /\ volume \in Int /\ minus \in Int /\ volume + minus = 0
      /\ BalancesTyped(balance') /\ InBalances(balance') = InBalances(balance) + volume - fee
  <2>1. BalancesTyped(b) /\ InBalances(balance) \in Int /\ InBalances(b) = InBalances(balance) + fee
    BY <1>1, <1>2, AdjustAdds
  <2> HIDE DEF b
  <2> DEFINE q == Paid(b, p)
             paid == Total(p, DOMAIN p)
  <2>2. BalancesTyped(q) /\ paid \in Int /\ InBalances(q) = InBalances(b) + paid
    BY <1>1, <2>1, PaidAdds
  <2>3. PayFee(q, TempAccount, fee)
    BY <1>3
  <2> HIDE DEF q, paid
  <2>4. BalancesTyped(balance') /\ InBalances(balance') = InBalances(q) - fee
    BY <1>1, <2>2, <2>3, PayFeeTakes
  <2>5. InBalances(balance') = InBalances(balance) + (fee + paid) - fee
    BY <1>1, <2>1, <2>2, <2>4
  <2>6. volume = fee + paid
    BY DEF paid
  <2> HIDE DEF volume
  <2> QED BY <1>1, <2>2, <2>4, <2>5, <2>6
<1> HIDE DEF volume
<1>6. CoreTyped(core)
  BY DEF SupplyInv, Typed
<1>7. /\ CoreTyped(core') /\ CoreMoves(fee, minus)
      /\ core'.wraps = IF volume < 0 THEN core.wraps + 1 ELSE core.wraps
  BY <1>1, <1>3, <1>5, <1>6 DEF CoreTyped, CoreMoves
<1> DEFINE off == Committed(volume)
<1>8. /\ off \in Int /\ Word * core.wraps \in Int /\ Word * core'.wraps \in Int
      /\ Word * core'.wraps - off = Word * core.wraps - volume
  <2>1. core.wraps \in Nat
    BY <1>6 DEF CoreTyped
  <2> QED BY <1>5, <1>7, <2>1, CommittedIs
<1> HIDE DEF off
<1>9. HiddenTyped(outs) /\ Hidden(outs) = hid - off
  <2>1. hid - off \in Int /\ outs \in Outputs(hid - off)
    BY <1>3, <1>4, <1>8 DEF off
  <2> QED BY <2>1, OutputsTyped
<1>10. /\ NotesTyped(confidential') /\ Hidden(outs) \in Int
       /\ NoteValue(confidential', Unspent(confidential'))
            = NoteValue(w, Unspent(w)) + Hidden(outs)
  BY <1>3, <1>4, <1>9, NotesAdd
<1>11. Backing \in Int /\ Backing' = Backing + minus
  <2> DEFINE k == Word * core.wraps
             j == Word * core'.wraps
             h == Hidden(blinded)
             n == NoteValue(confidential, Unspent(confidential))
             l == NoteValue(confidential', Unspent(confidential'))
  <2>1. Backing = h + n + k /\ h \in Int /\ n \in Int /\ k \in Int /\ j \in Int
    BY <1>2, <1>8 DEF Backing
  <2>2. Backing' = h + l + j
    BY <1>3 DEF Backing
  <2>3. l = (n - hid) + (hid - off) /\ j - off = k - volume /\ minus = -volume
    BY <1>4, <1>8, <1>9, <1>10
  <2> HIDE DEF h, n, k, j, l, minus
  <2> QED BY ONLY <1>4, <1>5, <1>8, <2>1, <2>2, <2>3
<1>12. HiddenTyped(blinded')
  BY <1>2, <1>3
<1> HIDE DEF minus
<1> QED BY <1>1, <1>3, <1>5, <1>7, <1>10, <1>11, <1>12, HidingMoves

----------------------------------------------------------------------------
(* The pay of a block. *)

(***************************************************************************)
(* Some numbers have a least one, and Min is it.                           *)
(***************************************************************************)
LEMMA MinIs ==
  ASSUME NEW S \in SUBSET Nat, S # {}
  PROVE  Min(S) \in S /\ \A y \in S : Min(S) <= y
<1>1. PICK x \in S : \A y \in S : ~(<<y, x>> \in OpToRel(<, Nat))
  BY NatLessThanWellFounded, WFMin
<1>2. \A y \in S : ~(y < x)
  BY <1>1 DEF OpToRel
<1>3. \A y \in S : x =< y
  BY <1>2
<1> QED BY <1>3, Zenon DEF Min

(***************************************************************************)
(* The larger of a share of the fees and zero, which is what is paid.      *)
(***************************************************************************)
LEMMA MaxWithZero ==
  ASSUME NEW x \in Int
  PROVE  Max({x, 0}) = IF x >= 0 THEN x ELSE 0
<1>1. CASE x >= 0
  BY <1>1, MaxIs, {x, 0} \in SUBSET Int
<1>2. CASE ~(x >= 0)
  BY <1>2, MaxIs, {x, 0} \in SUBSET Int
<1> QED BY <1>1, <1>2

(***************************************************************************)
(* The reward of a block is never negative.                                *)
(***************************************************************************)
LEMMA RewardIsNat == ASSUME NEW num \in Nat PROVE BlockReward(num) \in Nat
<1> DEFINE ahead == {i \in DOMAIN Splits : Splits[i] > num}
<1>1. /\ DOMAIN Splits = 1 .. Len(Splits) /\ Len(Splits) \in Nat \ {0}
      /\ \A i \in 1 .. Len(Splits) : Rewards[i] \in Nat
  <2>1. /\ \A i \in DOMAIN Rewards : Rewards[i] \in Nat
        /\ Splits \in Seq(Nat) /\ Splits # <<>> /\ DOMAIN Rewards = 1 .. Len(Splits)
    BY SupplyAssumption, Zenon
  <2> QED BY ONLY <2>1
<1>2. CASE ahead = {}
  BY <1>1, <1>2 DEF BlockReward
<1>3. CASE ahead # {}
  <2>1. ahead \in SUBSET Nat
    BY <1>1
  <2>2. Min(ahead) \in ahead
    BY <1>3, <2>1, MinIs
  <2>3. BlockReward(num) = Rewards[Min(ahead)]
    BY <1>3 DEF BlockReward
  <2>4. Min(ahead) \in 1 .. Len(Splits)
    BY <1>1, <2>2
  <2> QED BY <1>1, <2>3, <2>4
<1> QED BY <1>2, <1>3

(***************************************************************************)
(* Division that truncates towards zero gives integers.                    *)
(***************************************************************************)
LEMMA QuotientIsInt ==
  ASSUME NEW a \in Int, NEW b \in Nat \ {0}
  PROVE  Quotient(a, b) \in Int
BY DEF Quotient

(***************************************************************************)
(* The parameters in use are among those a proposal may set.               *)
(***************************************************************************)
LEMMA ParametersTyped ==
  ASSUME GpoTyped(gpo)
  PROVE  /\ gpo.parameters \in Parameters
         /\ gpo.parameters.block_interval \in Nat \ {0}
         /\ gpo.parameters.maintenance_interval \in Nat \ {0}
         /\ gpo.parameters.maintenance_skip_slots \in Nat
BY SupplyAssumption DEF GpoTyped

(***************************************************************************)
(* The fees in the pay are never negative.                                 *)
(***************************************************************************)
LEMMA FeesInPay ==
  ASSUME DgpTyped(dgp), GpoTyped(gpo)
  PROVE  /\ ShareOfFees(dgp, gpo.parameters) \in Int
         /\ Max({ShareOfFees(dgp, gpo.parameters), 0}) \in Nat
<1> DEFINE p == gpo.parameters
           n == BlocksInInterval(dgp, p)
<1>1. n \in Int
  BY ParametersTyped DEF BlocksInInterval, DgpTyped
<1>2. ShareOfFees(dgp, p) \in Int
  <2>1. dgp.miner_budget_from_fees \in Int
    BY DEF DgpTyped
  <2>2. n > 0 => Quotient(dgp.miner_budget_from_fees, n) \in Int
    BY <1>1, <2>1, QuotientIsInt
  <2> HIDE DEF n
  <2> QED BY <2>2 DEF ShareOfFees, n
<1> QED BY <1>2, MaxWithZero

(***************************************************************************)
(* The pay of the voters is a number for each account.                     *)
(***************************************************************************)
LEMMA VoterPayTyped ==
  ASSUME Typed, NEW num, NEW m \in Miners, NEW pay \in Int
  PROVE  VoterPay(num, m, pay) \in [Accounts -> Int]
<1>1. miner[m].total_votes \in Int
  BY DEF Typed, MinersTyped
<1>2. VotersReward(pay) \in Int
  BY DEF VotersReward
<1> DEFINE r == VotersReward(pay)
           q == miner[m].total_votes
<1>3. ASSUME NEW a \in Accounts
      PROVE  (IF a \in Voters(num, m) /\ q > 0 THEN (r * VotePower(balance, a)) \div q ELSE 0) \in Int
  <2> DEFINE v == VotePower(balance, a)
  <2>1. v \in Int
    BY DEF VotePower, Typed, BalancesTyped, IsBalance
  <2> HIDE DEF v, r, q
  <2>2. r \in Int /\ q \in Int
    BY <1>1, <1>2 DEF r, q
  <2>3. r * v \in Int
    BY <2>1, <2>2
  <2> DEFINE w == r * v
  <2> HIDE DEF w
  <2>4. q > 0 => w \div q \in Int
    BY <2>2, <2>3 DEF w
  <2>5. CASE a \in Voters(num, m) /\ q > 0
    BY <2>4, <2>5 DEF w, v
  <2>6. CASE ~(a \in Voters(num, m) /\ q > 0)
    BY <2>6
  <2> QED BY <2>5, <2>6
<1> QED BY <1>3 DEF VoterPay

(***************************************************************************)
(* deposit_miner_pay adds the rest of the pay.                             *)
(***************************************************************************)
LEMMA PayMinerAdds ==
  ASSUME NEW vs, VestingsTyped(vs), InBalances(vs) \in Int, MinersTyped(miner, DOMAIN vs),
         NEW m \in Miners, NEW amount \in Int, NEW seconds, NEW now,
         NEW ws, ws = PayMiner(vs, m, amount, seconds, now)
  PROVE  /\ VestingsTyped(ws) /\ DOMAIN vs \subseteq DOMAIN ws
         /\ InBalances(ws) = InBalances(vs) + amount
         /\ MinersTyped(LinkMiner(vs, m, amount, seconds), DOMAIN ws)
<1> DEFINE owner == MinerAccount[m]
           pb == miner[m].pay_vb
           n == LazyId(vs, pb, owner, seconds)
           v == LazyVesting(vs, pb, owner, seconds, amount, now)
<1>1. owner \in Accounts
  BY SupplyAssumption
<1>2. pb \in DOMAIN vs \cup {NoVesting}
  BY DEF MinersTyped
<1>3. CASE amount = 0
  BY <1>3 DEF PayMiner, LinkMiner
<1>4. CASE amount # 0
  <2>1. ws = WithVesting(vs, n, v)
    BY <1>4 DEF PayMiner
  <2>2. LinkMiner(vs, m, amount, seconds) = [miner EXCEPT ![m].pay_vb = n]
    BY <1>4 DEF LinkMiner
  <2> HIDE DEF owner, pb
  <2>3. n = LazyId(vs, pb, owner, seconds) /\ v = LazyVesting(vs, pb, owner, seconds, amount, now)
    OBVIOUS
  <2> HIDE DEF n, v
  <2>4. Adds(vs, WithVesting(vs, n, v), n, amount)
    BY ONLY VestingsTyped(vs), amount \in Int, <1>1, <1>2, <2>3, LazyAdds, Zenon
  <2>5. VestingsTyped(ws) /\ DOMAIN ws = DOMAIN vs \cup {n} /\ InBalances(ws) = InBalances(vs) + amount
    BY <2>1, <2>4 DEF Adds
  <2>6. MinersTyped(LinkMiner(vs, m, amount, seconds), DOMAIN ws)
    BY <2>2, <2>5 DEF MinersTyped
  <2> QED BY <2>5, <2>6
<1> QED BY <1>3, <1>4

(***************************************************************************)
(* The accounts that are paid keep a balance of theirs to be paid to.      *)
(***************************************************************************)
LEMMA LinkAccountsTyped ==
  ASSUME NEW vs, NEW pay, NEW seconds, NEW ids, AccountsTyped(account, DOMAIN vs),
         DOMAIN vs \subseteq ids,
         \A a \in Accounts : pay[a] # 0 => LazyId(vs, account[a].cashback_vb, a, seconds) \in ids
  PROVE  AccountsTyped(LinkAccounts(vs, pay, seconds), ids)
<1> DEFINE T == [voting_account : Accounts, votes : SUBSET Miners, cashback_vb : ids \cup {NoVesting}]
<1>1. ASSUME NEW a \in Accounts
      PROVE  (IF pay[a] = 0 THEN account[a]
              ELSE [account[a] EXCEPT !.cashback_vb = LazyId(vs, account[a].cashback_vb, a, seconds)]) \in T
  <2>1. account[a] \in T
    BY DEF AccountsTyped
  <2> DEFINE n == LazyId(vs, account[a].cashback_vb, a, seconds)
  <2>2. pay[a] # 0 => n \in ids
    OBVIOUS
  <2> HIDE DEF n
  <2>3. pay[a] # 0 => [account[a] EXCEPT !.cashback_vb = n] \in T
    BY <2>1, <2>2
  <2> QED BY <2>1, <2>3 DEF n
<1> QED BY <1>1 DEF LinkAccounts, AccountsTyped

----------------------------------------------------------------------------
(* Maintenance. *)

(***************************************************************************)
(* Stakes and tallies are numbers.                                         *)
(***************************************************************************)
LEMMA StakeIsInt ==
  ASSUME NEW acc, NEW b, NEW vs, AccountsTyped(acc, DOMAIN vs), BalancesTyped(b), VestingsTyped(vs)
  PROVE  /\ \A a \in Accounts : Stake(acc, b, vs, a) \in Int
         /\ \A m : Tally(acc, b, vs, m) \in Int
<1>1. ASSUME NEW a \in Accounts PROVE Stake(acc, b, vs, a) \in Int
  <2>1. BalanceOf(b, a) \in Int
    BY DEF BalanceOf, BalancesTyped, IsBalance
  <2> DEFINE cb == acc[a].cashback_vb
  <2>2. cb \in DOMAIN vs \cup {NoVesting}
    BY DEF AccountsTyped
  <2>3. cb # NoVesting => vs[cb].balance \in Int
    BY <2>2 DEF VestingsTyped, IsVesting
  <2>4. Stake(acc, b, vs, a) = BalanceOf(b, a) + IF cb = NoVesting THEN 0 ELSE vs[cb].balance
    BY DEF Stake
  <2> HIDE DEF cb
  <2> QED BY <2>1, <2>3, <2>4
<1>2. ASSUME NEW m PROVE Tally(acc, b, vs, m) \in Int
  <2> DEFINE f == [a \in Accounts |-> Stake(acc, b, vs, a)]
             V == {a \in Accounts : m \in Opinion(acc, a)}
  <2>1. V \in SUBSET Accounts /\ \A a \in Accounts : f[a] \in Int
    BY <1>1
  <2>2. Tally(acc, b, vs, m) = Total(f, V)
    BY DEF Tally
  <2> HIDE DEF f, V
  <2> QED BY <2>1, <2>2, SupplyAssumption, TotalStep
<1> QED BY <1>1, <1>2

(***************************************************************************)
(* vote_tally_helper changes no balance.                                   *)
(***************************************************************************)
LEMMA VotesKeepBalances ==
  ASSUME NEW acc, NEW b, NEW vs, AccountsTyped(acc, DOMAIN vs), BalancesTyped(b), VestingsTyped(vs),
         NEW c, c = RecordVotes(acc, b, vs)
  PROVE  BalancesTyped(c) /\ DOMAIN c = DOMAIN b /\ InBalances(c) = InBalances(b)
<1> DEFINE s(a) == Stake(acc, b, vs, a)
           w(a) == VotedMiner(Opinion(acc, a))
<1>1. /\ DOMAIN c = DOMAIN b /\ c = [a \in DOMAIN c |-> c[a]]
      /\ \A a \in DOMAIN b : c[a] = [b[a] EXCEPT !.vote_power = s(a), !.casted_vote = w(a)]
  BY DEF RecordVotes
<1>2. DOMAIN b \subseteq Accounts /\ \A a \in DOMAIN b : IsBalance(b[a]) /\ s(a) \in Int
  BY StakeIsInt DEF BalancesTyped
<1> HIDE DEF s, w
<1>3. ASSUME NEW a \in DOMAIN b
      PROVE  IsBalance(c[a]) /\ c[a].balance = b[a].balance /\ b[a].balance \in Int
  <2> DEFINE r == b[a]
             x == s(a)
             y == w(a)
             u == r.balance
             e == c[a]
             p == r.vote_power
             q == r.casted_vote
  <2>1. u \in Int /\ r = [balance |-> u, vote_power |-> p, casted_vote |-> q] /\ x \in Int
    BY <1>2 DEF IsBalance
  <2>2. e = [r EXCEPT !.vote_power = x, !.casted_vote = y]
    BY <1>1
  <2> HIDE DEF r, x, y, e, u, p, q
  <2> DEFINE k == [r EXCEPT !.vote_power = x]
  <2>3. k = [balance |-> u, vote_power |-> x, casted_vote |-> q]
    BY <2>1
  <2>4. e = [k EXCEPT !.casted_vote = y]
    BY <2>2
  <2> HIDE DEF k
  <2>5. e = [balance |-> u, vote_power |-> x, casted_vote |-> y]
    BY <2>3, <2>4
  <2> QED BY <2>1, <2>5 DEF IsBalance, e, u, r
<1>4. BalancesTyped(c)
  BY <1>1, <1>2, <1>3 DEF BalancesTyped
<1>5. InBalances(c) = InBalances(b)
  <2> DEFINE D == DOMAIN b
             f == [a \in D |-> b[a].balance]
             g == [a \in D |-> c[a].balance]
  <2>1. IsFiniteSet(D)
    BY <1>2, SupplyAssumption, FS_Subset
  <2>2. \A a \in D : f[a] \in Int /\ g[a] = f[a]
    BY <1>3
  <2>3. InBalances(b) = Total(f, D) /\ InBalances(c) = Total(g, D)
    BY <1>1 DEF InBalances
  <2> HIDE DEF f, g, D
  <2> QED BY <2>1, <2>2, <2>3, TotalSame
<1> QED BY <1>1, <1>4, <1>5

----------------------------------------------------------------------------
(* Blocks. *)

(***************************************************************************)
(* The flag of a maintenance changes nothing else.                         *)
(***************************************************************************)
LEMMA FlagInDgp ==
  ASSUME NEW d, DgpTyped(d), NEW f, NEW d1, d1 = [d EXCEPT !.maintenance_flag = f]
  PROVE  /\ DgpTyped(d1)
         /\ d1.head_block_number = d.head_block_number /\ d1.time = d.time
         /\ d1.mined_rewards = d.mined_rewards /\ d1.unspent_fee_budget = d.unspent_fee_budget
         /\ d1.miner_budget_from_fees = d.miner_budget_from_fees
         /\ d1.next_maintenance_time = d.next_maintenance_time
         /\ d1.last_budget_time = d.last_budget_time
BY DEF DgpTyped

(***************************************************************************)
(* update_signing_miner pays the fees and the reward to vesting balances,  *)
(* all of it.                                                              *)
(***************************************************************************)
LEMMA BlockPays ==
  ASSUME Typed, NEW m \in Miners, NEW ts, NEW num, NEW seconds, NEW amount \in Int,
         NEW pay, pay = VoterPay(num, m, amount),
         NEW rest, rest = amount - Total(pay, Accounts),
         NEW vs1, vs1 = PayAccounts(vesting, pay, seconds, ts),
         NEW vs2, vs2 = PayMiner(vs1, m, rest, seconds, ts)
  PROVE  /\ VestingsTyped(vs2) /\ DOMAIN vesting \subseteq DOMAIN vs2
         /\ InBalances(vs2) = InBalances(vesting) + amount
         /\ AccountsTyped(LinkAccounts(vesting, pay, seconds), DOMAIN vs2)
         /\ MinersTyped(LinkMiner(vs1, m, rest, seconds), DOMAIN vs2)
<1>1. pay \in [Accounts -> Int] /\ \A a \in Accounts : pay[a] \in Int
  BY VoterPayTyped
<1>2. Total(pay, Accounts) \in Int /\ rest \in Int
  <2>1. Total(pay, Accounts) \in Int
    BY ONLY <1>1, SupplyAssumption, TotalStep
  <2> QED BY ONLY <2>1, amount \in Int, rest = amount - Total(pay, Accounts)
<1>3. \A a \in Accounts : account[a].cashback_vb \in DOMAIN vesting \cup {NoVesting}
  BY DEF Typed, AccountsTyped
<1>4. VestingsTyped(vesting) /\ MinersTyped(miner, DOMAIN vesting) /\ AccountsTyped(account, DOMAIN vesting)
  BY DEF Typed
<1>5. /\ VestingsTyped(vs1) /\ InBalances(vesting) \in Int /\ DOMAIN vesting \subseteq DOMAIN vs1
      /\ \A a \in Accounts :
           pay[a] # 0 => LazyId(vesting, account[a].cashback_vb, a, seconds) \in DOMAIN vs1
      /\ InBalances(vs1) = InBalances(vesting) + Total(pay, Accounts)
  BY ONLY <1>1, <1>3, <1>4, vs1 = PayAccounts(vesting, pay, seconds, ts), PayAccountsAdds
<1>6. DOMAIN vesting \subseteq DOMAIN vs1
  BY <1>5
<1>7. MinersTyped(miner, DOMAIN vs1) /\ InBalances(vs1) \in Int
  <2>1. MinersTyped(miner, DOMAIN vs1)
    BY ONLY <1>4, <1>6, MoreVestings
  <2> QED BY ONLY <1>2, <1>5, <2>1
<1>8. /\ VestingsTyped(vs2) /\ DOMAIN vs1 \subseteq DOMAIN vs2
      /\ InBalances(vs2) = InBalances(vs1) + rest
      /\ MinersTyped(LinkMiner(vs1, m, rest, seconds), DOMAIN vs2)
  BY ONLY <1>2, <1>5, <1>7, m \in Miners, vs2 = PayMiner(vs1, m, rest, seconds, ts), PayMinerAdds
<1>9. AccountsTyped(LinkAccounts(vesting, pay, seconds), DOMAIN vs2)
  <2>1. /\ DOMAIN vesting \subseteq DOMAIN vs2
        /\ \A a \in Accounts :
             pay[a] # 0 => LazyId(vesting, account[a].cashback_vb, a, seconds) \in DOMAIN vs2
    BY ONLY <1>5, <1>6, <1>8
  <2> QED BY ONLY <1>4, <2>1, LinkAccountsTyped
<1>10. InBalances(vs2) = InBalances(vesting) + amount
  BY <1>2, <1>5, <1>8
<1> QED BY <1>6, <1>8, <1>9, <1>10

(***************************************************************************)
(* _apply_block keeps the supply: what it pays is mined or taken from the  *)
(* fees of the budget, and at maintenance current_supply takes in what was *)
(* mined and paid since the last.                                          *)
(***************************************************************************)
LEMMA ApplyBlockKeeps ==
  ASSUME SupplyInv, NEW m \in Miners, NEW ts \in Times, ApplyBlock(m, ts)
  PROVE  SupplyInv'
<1> DEFINE p       == gpo.parameters
           num     == dgp.head_block_number + 1
           seconds == p.miner_pay_vesting_seconds
           fees    == Max({ShareOfFees(dgp, p), 0})
           reward  == BlockReward(num)
           amount  == fees + reward
           pay     == VoterPay(num, m, amount)
           voted   == Total(pay, Accounts)
           rest    == fees + reward - voted
           vs1     == PayAccounts(vesting, pay, seconds, ts)
           vs2     == PayMiner(vs1, m, rest, seconds, ts)
           acc     == LinkAccounts(vesting, pay, seconds)
           mnr     == LinkMiner(vs1, m, rest, seconds)
           d1      == [dgp EXCEPT !.head_block_number = num, !.time = ts,
                                  !.mined_rewards = @ + reward, !.unspent_fee_budget = @ - fees]
           maint   == dgp.next_maintenance_time <= ts
           p1      == IF gpo.pending_parameters = NoParameters THEN p ELSE gpo.pending_parameters
           next    == NextMaintenance(dgp, p1, ts, num)
           budget  == FeeBudget(d1, core)
<1>1. /\ Typed /\ SupplyAccounted /\ ConfidentialBacked
      /\ DgpTyped(dgp) /\ GpoTyped(gpo) /\ CoreTyped(core) /\ BalancesTyped(balance)
  BY DEF SupplyInv, Typed
<1>2. ts \in Nat /\ num \in Nat /\ fees \in Nat /\ reward \in Nat /\ amount \in Int
  <2>1. num \in Nat
    BY <1>1 DEF DgpTyped
  <2>2. reward \in Nat
    <3> HIDE DEF num
    <3> QED BY <2>1, RewardIsNat
  <2>3. fees \in Nat
    BY <1>1, FeesInPay
  <2>4. ts \in Nat
    BY SupplyAssumption
  <2> HIDE DEF num, reward, fees
  <2> QED BY <2>1, <2>2, <2>3, <2>4
<1>3. /\ vesting' = vs2 /\ account' = acc /\ UNCHANGED <<blinded, confidential>>
      /\ maint => /\ miner' = [n \in Miners |-> [mnr[n] EXCEPT !.total_votes = Tally(acc, balance, vs2, n)]]
                  /\ balance' = RecordVotes(acc, balance, vs2)
                  /\ gpo' = [parameters |-> p1, pending_parameters |-> NoParameters]
                  /\ core' = [core EXCEPT !.current_supply = @ + SupplyDelta(d1, core),
                                          !.accumulated_fees = 0]
                  /\ dgp' = [d1 EXCEPT !.next_maintenance_time  = next,
                                       !.last_budget_time       = ts,
                                       !.miner_budget_from_fees = budget,
                                       !.unspent_fee_budget     = budget,
                                       !.mined_rewards          = 0,
                                       !.maintenance_flag       = TRUE]
      /\ ~maint => /\ dgp' = [d1 EXCEPT !.maintenance_flag = FALSE]
                   /\ miner' = mnr
                   /\ UNCHANGED <<balance, core, gpo>>
  BY DEF ApplyBlock
<1>14. rest = amount - voted
  <2>1. pay \in [Accounts -> Int]
    BY <1>1, <1>2, VoterPayTyped
  <2>2. voted \in Int
    <3> HIDE DEF pay
    <3> QED BY <2>1, SupplyAssumption, TotalStep
  <2> HIDE DEF voted, fees, reward
  <2> QED BY <1>2, <2>2 DEF amount
<1> HIDE DEF amount, rest
<1>4. /\ VestingsTyped(vs2) /\ InBalances(vs2) = InBalances(vesting) + amount
      /\ AccountsTyped(acc, DOMAIN vs2) /\ MinersTyped(mnr, DOMAIN vs2)
  BY ONLY <1>1, <1>2, <1>14, m \in Miners, BlockPays
<1> HIDE DEF num, fees, reward, mnr, acc, vs2
<1>5. InBalances(vesting) \in Int /\ InBalances(balance) \in Int
  BY <1>1, BalancesAreNumbers
<1>6. /\ dgp.mined_rewards \in Int /\ dgp.unspent_fee_budget \in Int /\ dgp.miner_budget_from_fees \in Int
      /\ core.accumulated_fees \in Int /\ core.current_supply \in Int /\ core.confidential_supply \in Int
  BY <1>1 DEF DgpTyped, CoreTyped
<1>7. /\ DgpTyped(d1)
      /\ d1.head_block_number = num /\ d1.time = ts
      /\ d1.mined_rewards = dgp.mined_rewards + reward
      /\ d1.unspent_fee_budget = dgp.unspent_fee_budget - fees
      /\ d1.miner_budget_from_fees = dgp.miner_budget_from_fees
  BY ONLY <1>1, <1>2 DEF DgpTyped
<1> HIDE DEF d1
<1>8. SupplyDelta(d1, core) = SupplyDelta(dgp, core) + amount /\ SupplyDelta(d1, core) \in Int
  BY <1>2, <1>6, <1>7 DEF SupplyDelta, amount
<1>9. core.current_supply + SupplyDelta(d1, core)
        = InBalances(balance) + InBalances(vs2) + core.confidential_supply
  <2>1. core.current_supply + SupplyDelta(dgp, core)
          = InBalances(balance) + InBalances(vesting) + core.confidential_supply
    BY <1>1 DEF SupplyAccounted
  <2>2. SupplyDelta(dgp, core) \in Int
    BY <1>6 DEF SupplyDelta
  <2> QED BY <1>2, <1>4, <1>5, <1>6, <1>8, <2>1, <2>2
<1>10. CASE maint
  <2>1. BalancesTyped(balance') /\ InBalances(balance') = InBalances(balance)
    BY <1>1, <1>3, <1>4, <1>10, VotesKeepBalances
  <2>2. MinersTyped(miner', DOMAIN vs2)
    <3>1. \A n \in Miners : Tally(acc, balance, vs2, n) \in Int
      BY <1>1, <1>4, StakeIsInt
    <3>2. mnr \in [Miners -> [pay_vb : DOMAIN vs2 \cup {NoVesting}, total_votes : Int]]
      BY <1>4 DEF MinersTyped
    <3> QED BY <1>3, <1>10, <3>1, <3>2 DEF MinersTyped
  <2>3. p1 \in Parameters /\ GpoTyped(gpo')
    BY <1>1, <1>3, <1>10 DEF GpoTyped
  <2>4. next \in Int
    <3>1. p1.maintenance_interval \in Nat \ {0} /\ dgp.next_maintenance_time \in Int
      BY <1>1, <2>3, SupplyAssumption DEF DgpTyped
    <3> HIDE DEF p1
    <3> QED BY <1>2, <3>1 DEF NextMaintenance
  <2>5. budget \in Int /\ budget = core.accumulated_fees + d1.unspent_fee_budget
    BY <1>6, <1>7 DEF FeeBudget, DgpTyped
  <2> HIDE DEF next, budget, p1
  <2>6. /\ DgpTyped(dgp') /\ dgp'.mined_rewards = 0
        /\ dgp'.unspent_fee_budget = budget /\ dgp'.miner_budget_from_fees = budget
    <3>1. ts \in Int
      BY <1>2
    <3>2. dgp' = [d1 EXCEPT !.next_maintenance_time  = next,
                            !.last_budget_time       = ts,
                            !.miner_budget_from_fees = budget,
                            !.unspent_fee_budget     = budget,
                            !.mined_rewards          = 0,
                            !.maintenance_flag       = TRUE]
      BY <1>3, <1>10
    <3> QED BY ONLY <1>7, <2>4, <2>5, <3>1, <3>2 DEF DgpTyped
  <2>7. /\ CoreTyped(core') /\ core'.accumulated_fees = 0
        /\ core'.confidential_supply = core.confidential_supply /\ core'.wraps = core.wraps
        /\ core'.current_supply = core.current_supply + SupplyDelta(d1, core)
    <3> DEFINE x == SupplyDelta(d1, core)
    <3>1. core' = [core EXCEPT !.current_supply = @ + x, !.accumulated_fees = 0]
      BY <1>3, <1>10
    <3>2. x \in Int
      BY <1>8
    <3> HIDE DEF x
    <3>3. /\ CoreTyped(core') /\ core'.accumulated_fees = 0
          /\ core'.confidential_supply = core.confidential_supply /\ core'.wraps = core.wraps
          /\ core'.current_supply = core.current_supply + x
      BY ONLY <1>1, <3>1, <3>2 DEF CoreTyped
    <3> QED BY <3>3 DEF x
  <2>8. SupplyDelta(dgp', core') = 0
    BY <2>5, <2>6, <2>7 DEF SupplyDelta
  <2>9. SupplyAccounted'
    <3>1. core'.current_supply + SupplyDelta(dgp', core')
            = InBalances(balance') + InBalances(vesting') + core'.confidential_supply
      BY <1>3, <1>6, <1>8, <1>9, <2>1, <2>7, <2>8
    <3> QED BY <3>1 DEF SupplyAccounted
  <2>10. Typed'
    BY <1>1, <1>3, <1>4, <2>1, <2>2, <2>3, <2>6, <2>7 DEF Typed
  <2>11. ConfidentialBacked'
    BY <1>1, <1>3, <2>7 DEF ConfidentialBacked
  <2> QED BY <2>9, <2>10, <2>11 DEF SupplyInv
<1>11. CASE ~maint
  <2>1. dgp' = [d1 EXCEPT !.maintenance_flag = FALSE] /\ miner' = mnr /\ UNCHANGED <<balance, core, gpo>>
    BY <1>3, <1>11
  <2>2. /\ DgpTyped(dgp') /\ dgp'.mined_rewards = d1.mined_rewards
        /\ dgp'.unspent_fee_budget = d1.unspent_fee_budget
        /\ dgp'.miner_budget_from_fees = d1.miner_budget_from_fees
    BY <1>7, <2>1, FlagInDgp
  <2>3. SupplyDelta(dgp', core') = SupplyDelta(d1, core)
    BY <2>1, <2>2 DEF SupplyDelta
  <2>4. SupplyAccounted'
    BY <1>3, <1>9, <2>1, <2>3 DEF SupplyAccounted
  <2>5. Typed'
    BY <1>1, <1>3, <1>4, <2>1, <2>2 DEF Typed
  <2>6. ConfidentialBacked'
    BY <1>1, <1>3, <2>1 DEF ConfidentialBacked
  <2> QED BY <2>4, <2>5, <2>6 DEF SupplyInv
<1> QED BY <1>10, <1>11

----------------------------------------------------------------------------
(* The chain. *)

(***************************************************************************)
(* At the start nothing is vested or hidden, and the supply is what is in  *)
(* the initial balances.                                                   *)
(***************************************************************************)
LEMMA InitSupplyInv == Init => SupplyInv
<1> SUFFICES ASSUME Init PROVE SupplyInv
  OBVIOUS
<1>1. PICK p \in Parameters : gpo = [parameters |-> p, pending_parameters |-> NoParameters]
  BY DEF Init
<1>2. /\ account = [a \in Accounts |-> [voting_account |-> a, votes |-> {}, cashback_vb |-> NoVesting]]
      /\ balance = [a \in DOMAIN Balances |->
                      [balance |-> Balances[a], vote_power |-> 0, casted_vote |-> NoVote]]
      /\ vesting = <<>> /\ blinded = <<>> /\ confidential = <<>>
      /\ miner = [m \in Miners |-> [pay_vb |-> NoVesting, total_votes |-> 0]]
      /\ core = [current_supply |-> Total(Balances, DOMAIN Balances),
                 confidential_supply |-> 0, accumulated_fees |-> 0, wraps |-> 0]
      /\ dgp = [head_block_number |-> 0, time |-> GenesisTime, maintenance_flag |-> FALSE,
                next_maintenance_time |-> 0, last_budget_time |-> 0,
                miner_budget_from_fees |-> 0, unspent_fee_budget |-> 0, mined_rewards |-> 0]
  BY DEF Init
<1> DEFINE e == [x \in {} |-> {}]
           D == DOMAIN Balances
<1>3. <<>> = e
  OBVIOUS
<1>4. DOMAIN e = {} /\ e = [x \in DOMAIN e |-> e[x]]
  OBVIOUS
<1>5. vesting = e /\ blinded = e /\ confidential = e
  BY <1>2, <1>3
<1> HIDE DEF e
<1>6. IsFiniteSet({})
  BY FS_EmptySet
<1>7. VestingsTyped(vesting) /\ HiddenTyped(blinded) /\ NotesTyped(confidential)
  BY <1>4, <1>5, <1>6 DEF VestingsTyped, HiddenTyped, NotesTyped
<1>8. IsFiniteSet(D) /\ \A a \in D : Balances[a] \in Int
  BY SupplyAssumption, FS_Subset
<1>9. Total(Balances, D) \in Int
  <2> HIDE DEF D
  <2> QED BY <1>8, TotalStep
<1>10. \A f : Total(f, {}) = 0
  BY <1>6, TotalRecursion
<1>11. BalancesTyped(balance)
  <2>1. \A a \in D : balance[a] = [balance |-> Balances[a], vote_power |-> 0, casted_vote |-> NoVote]
    BY <1>2
  <2>2. ASSUME NEW a \in D PROVE IsBalance(balance[a])
    <3> DEFINE r == balance[a]
               x == Balances[a]
    <3>1. r = [balance |-> x, vote_power |-> 0, casted_vote |-> NoVote] /\ x \in Int
      BY <1>8, <2>1, <2>2
    <3> HIDE DEF r, x
    <3>2. IsBalance(r)
      BY <3>1 DEF IsBalance
    <3> QED BY <3>2 DEF r
  <2>3. D \subseteq Accounts /\ DOMAIN balance = D /\ balance = [a \in D |-> balance[a]]
    BY <1>2, SupplyAssumption
  <2> QED BY <2>2, <2>3 DEF BalancesTyped
<1>12. InBalances(balance) = Total(Balances, D)
  <2> DEFINE f == [a \in D |-> balance[a].balance]
  <2>1. \A a \in D : f[a] = Balances[a]
    BY <1>2
  <2>2. InBalances(balance) = Total(f, D)
    BY <1>2 DEF InBalances
  <2> HIDE DEF f, D
  <2> QED BY <1>8, <2>1, <2>2, TotalSame
<1>13. InBalances(vesting) = 0
  BY <1>4, <1>5, <1>10 DEF InBalances
<1>14. CoreTyped(core) /\ DgpTyped(dgp) /\ GpoTyped(gpo)
  <2>1. CoreTyped(core)
    <3> DEFINE t == Total(Balances, D)
    <3>1. /\ core = [current_supply |-> t, confidential_supply |-> 0, accumulated_fees |-> 0,
                     wraps |-> 0]
          /\ t \in Int
      BY <1>2, <1>9
    <3> HIDE DEF t
    <3> QED BY <3>1 DEF CoreTyped
  <2>2. DgpTyped(dgp)
    BY <1>2, SupplyAssumption DEF DgpTyped
  <2>3. GpoTyped(gpo)
    BY <1>1 DEF GpoTyped
  <2> QED BY <2>1, <2>2, <2>3
<1>15. AccountsTyped(account, DOMAIN vesting) /\ MinersTyped(miner, DOMAIN vesting)
  BY <1>2 DEF AccountsTyped, MinersTyped
<1>16. Typed
  BY <1>7, <1>11, <1>14, <1>15 DEF Typed
<1>17. SupplyAccounted
  <2>1. SupplyDelta(dgp, core) = 0
    BY <1>2 DEF SupplyDelta
  <2>2. core.current_supply = Total(Balances, D) /\ core.confidential_supply = 0
    BY <1>2
  <2> HIDE DEF D
  <2> QED BY <1>9, <1>12, <1>13, <2>1, <2>2 DEF SupplyAccounted
<1>18. ConfidentialBacked
  <2>1. Unspent(confidential) = {}
    BY <1>4, <1>5 DEF Unspent
  <2>2. Total(blinded, DOMAIN blinded) = 0 /\ NoteValue(confidential, {}) = 0
    BY <1>4, <1>5, <1>10 DEF NoteValue
  <2>3. core.confidential_supply = 0 /\ core.wraps = 0
    BY <1>2
  <2>4. Word * 0 = 0
    BY SupplyAssumption
  <2> QED BY <2>1, <2>2, <2>3, <2>4 DEF ConfidentialBacked
<1> QED BY <1>16, <1>17, <1>18 DEF SupplyInv

(***************************************************************************)
(* Whatever is transferred, vested, hidden, voted, mined and paid, every   *)
(* unit of the core asset stays accounted for.                             *)
(***************************************************************************)
THEOREM SupplyInvariant == Spec => []SupplyInv
<1>1. SupplyInv /\ [Next]_vars => SupplyInv'
  <2> SUFFICES ASSUME SupplyInv, [Next]_vars PROVE SupplyInv'
    OBVIOUS
  <2>1. ASSUME NEW fee \in Fees, Transfers(fee) PROVE SupplyInv'
    BY <2>1, TransferKeeps DEF Transfers
  <2>2. ASSUME NEW fee \in Fees, Updates(fee) PROVE SupplyInv'
    BY <2>2, UpdateAccountKeeps DEF Updates
  <2>3. ASSUME NEW fee \in Fees, Vestings(fee) PROVE SupplyInv'
    BY <2>3, CreateVestingKeeps, WithdrawVestingKeeps DEF Vestings
  <2>4. ASSUME NEW fee \in Fees, Hidings(fee) PROVE SupplyInv'
    BY <2>4, TransferToBlindKeeps, TransferToConfidentialKeeps, TransferFromBlindKeeps,
       BlindTransferKeeps, TransferFromConfidentialKeeps DEF Hidings
  <2>5. ASSUME NEW p \in Parameters, UpdateGlobalParameters(p) PROVE SupplyInv'
    <3>1. /\ gpo' = [gpo EXCEPT !.pending_parameters = p]
          /\ UNCHANGED <<account, balance, vesting, miner, blinded, confidential, core, dgp>>
      BY <2>5 DEF UpdateGlobalParameters
    <3>2. GpoTyped(gpo')
      BY <3>1 DEF GpoTyped, SupplyInv, Typed
    <3>3. Typed'
      BY <3>1, <3>2 DEF SupplyInv, Typed
    <3> QED BY <3>1, <3>3 DEF SupplyInv, SupplyAccounted, ConfidentialBacked
  <2>6. ASSUME NEW m \in Miners, NEW ts \in Times, ApplyBlock(m, ts) PROVE SupplyInv'
    BY <2>6, ApplyBlockKeeps
  <2>7. CASE UNCHANGED vars
    BY <2>7 DEF vars, objects, SupplyInv, Typed, SupplyAccounted, ConfidentialBacked
  <2> QED BY <2>1, <2>2, <2>3, <2>4, <2>5, <2>6, <2>7 DEF Next
<1> QED BY <1>1, InitSupplyInv, PTL DEF Spec

(***************************************************************************)
(* The assertion of process_budget holds: nothing is made or lost.         *)
(***************************************************************************)
THEOREM SupplyIsAccounted == Spec => []SupplyAccounted
<1>1. SupplyInv => SupplyAccounted
  BY DEF SupplyInv
<1> QED BY <1>1, SupplyInvariant, PTL

(***************************************************************************)
(* confidential_supply is what the hidden balances hold, whatever sign the *)
(* values of outputs have, but for public volumes below zero, which are    *)
(* committed to as unsigned numbers.                                       *)
(***************************************************************************)
THEOREM ConfidentialIsBacked == Spec => []ConfidentialBacked
<1>1. SupplyInv => ConfidentialBacked
  BY DEF SupplyInv
<1> QED BY <1>1, SupplyInvariant, PTL

----------------------------------------------------------------------------
(* The fees that are paid again. *)

(***************************************************************************)
(* Times and the intervals they are in: a later interval, the blocks that  *)
(* fit before the end of one, and the end itself.                          *)
(***************************************************************************)
LEMMA LaterInterval ==
  ASSUME NEW i \in Nat \ {0}, NEW t \in Nat, NEW k \in Nat, t < k * i
  PROVE  t \div i \in Nat /\ t \div i + 1 <= k
<1> DEFINE c == t \div i
<1>1. c \in Nat /\ c * i <= t
  BY Division
<1> HIDE DEF c
<1>2. ASSUME k <= c PROVE FALSE
  <2>1. k * i <= c * i
    BY <1>1, <1>2, Products
  <2>2. k * i \in Int /\ c * i \in Int
    BY <1>1
  <2> QED BY <1>1, <2>1, <2>2
<1>3. c + 1 <= k
  BY <1>1, <1>2
<1> QED BY <1>1, <1>3 DEF c

(***************************************************************************)
(* A block is in a later interval than the head it is on, skipped slots    *)
(* and the first block included.                                           *)
(***************************************************************************)
LEMMA BlockInLaterInterval ==
  ASSUME DgpTyped(dgp), GpoTyped(gpo), NEW ts \in Nat, SlotAt(dgp, gpo.parameters, ts) > 0
  PROVE  LET i == gpo.parameters.block_interval
         IN  /\ i \in Nat \ {0} /\ dgp.time \div i \in Nat /\ ts \div i \in Nat
             /\ dgp.time \div i + 1 <= ts \div i
<1> DEFINE p == gpo.parameters
           i == p.block_interval
           c == dgp.time \div i
           e == ts \div i
           gap == Gap(dgp, p)
<1>1. i \in Nat \ {0} /\ p.maintenance_skip_slots \in Nat /\ dgp.time \in Nat
  BY ParametersTyped DEF DgpTyped
<1>2. c \in Nat /\ c * i <= dgp.time /\ e \in Nat /\ ts < (e + 1) * i
  BY <1>1, Division
<1>3. gap \in Nat
  BY <1>1 DEF Gap
<1>4. SlotTime(dgp, p, 1) <= ts
  <2>1. SlotTime(dgp, p, 1) \in Int
    <3>1. CASE dgp.head_block_number = 0
      BY <1>1, <3>1 DEF SlotTime
    <3>2. CASE dgp.head_block_number # 0
      <4>1. SlotTime(dgp, p, 1) = (c + 1 + gap) * i
        BY <3>2 DEF SlotTime
      <4> HIDE DEF c, gap, i
      <4> QED BY <1>1, <1>2, <1>3, <4>1
    <3> QED BY <3>1, <3>2
  <2>2. ~(ts < SlotTime(dgp, p, 1))
    BY DEF SlotAt
  <2> QED BY <2>1, <2>2
<1>5. (c + 1) * i <= ts
  <2>1. (c + 1) * i = c * i + i /\ (c + 1) * i \in Int /\ c * i \in Int
    <3> HIDE DEF c
    <3> QED BY <1>1, <1>2
  <2>2. CASE dgp.head_block_number = 0
    <3>1. SlotTime(dgp, p, 1) = dgp.time + 1 * i
      BY <2>2 DEF SlotTime
    <3> HIDE DEF c, i
    <3> QED BY <1>1, <1>2, <1>4, <2>1, <3>1
  <2>3. CASE dgp.head_block_number # 0
    <3>1. SlotTime(dgp, p, 1) = (c + 1 + gap) * i
      BY <2>3 DEF SlotTime
    <3> HIDE DEF c, gap, i
    <3>2. (c + 1) * i <= (c + 1 + gap) * i
      BY <1>1, <1>2, <1>3, Products
    <3>3. (c + 1 + gap) * i \in Int
      BY <1>1, <1>2, <1>3
    <3> QED BY <1>4, <2>1, <3>1, <3>2, <3>3
  <2> QED BY <2>2, <2>3
<1>6. c + 1 <= e
  <2> HIDE DEF c, e, i
  <2>1. ASSUME e + 1 <= c + 1 PROVE FALSE
    <3>1. (e + 1) * i <= (c + 1) * i
      BY <1>1, <1>2, <2>1, Products
    <3>2. (e + 1) * i \in Int /\ (c + 1) * i \in Int
      BY <1>1, <1>2
    <3> QED BY <1>2, <1>5, <3>1, <3>2
  <2> QED BY <1>2, <2>1
<1> QED BY <1>1, <1>2, <1>6

\* The start of an interval i after ts.
NextOnGrid(next, ts, i) == \E n \in Nat : next = n * i /\ ts < n * i

(***************************************************************************)
(* The next maintenance is after the block and at the start of an interval *)
(* of blocks, when intervals of maintenance are made of those.             *)
(***************************************************************************)
LEMMA MaintenanceOnGrid ==
  ASSUME NEW i \in Nat \ {0}, NEW M \in Nat \ {0}, M % i = 0,
         NEW k \in Nat, NEW ts \in Nat, NEW num \in Nat, NEW d, NEW p,
         d.next_maintenance_time = k * i, k * i <= ts, p.maintenance_interval = M
  PROVE  NextOnGrid(NextMaintenance(d, p, ts, num), ts, i)
<1>1. PICK q \in Nat : M = q * i
  <2> DEFINE q == M \div i
  <2>1. q \in Nat /\ M = q * i
    BY SMT
  <2> QED BY <2>1
<1>2. CASE num = 1
  <2> DEFINE x == ts \div M
  <2>1. x \in Nat /\ ts < (x + 1) * M
    BY Division
  <2>2. NextMaintenance(d, p, ts, num) = (x + 1) * M
    BY <1>2 DEF NextMaintenance
  <2> HIDE DEF x
  <2>3. (x + 1) * M = ((x + 1) * q) * i /\ (x + 1) * q \in Nat
    BY <1>1, <2>1, SMT
  <2> QED BY <2>1, <2>2, <2>3 DEF NextOnGrid
<1>3. CASE num # 1
  <2> DEFINE late == ts - k * i
             x == late \div M
  <2>1. late \in Nat
    BY SMT
  <2>2. x \in Nat /\ late < (x + 1) * M
    <3> HIDE DEF late
    <3> QED BY <2>1, Division
  <2>3. NextMaintenance(d, p, ts, num) = k * i + (x + 1) * M
    BY <1>3 DEF NextMaintenance
  <2> HIDE DEF x
  <2>4. (x + 1) * M = ((x + 1) * q) * i /\ (x + 1) * q \in Nat
    BY <1>1, <2>2, SMT
  <2> DEFINE y == (x + 1) * q
  <2> HIDE DEF y
  <2>5. y \in Nat /\ (x + 1) * M = y * i
    BY <2>4 DEF y
  <2>6. k * i + y * i = (k + y) * i /\ k + y \in Nat /\ k * i \in Int /\ y * i \in Int
    BY <2>5, SMT
  <2>7. ts < k * i + y * i
    BY <2>2, <2>5, <2>6
  <2> QED BY <2>3, <2>5, <2>6, <2>7 DEF NextOnGrid
<1> QED BY <1>2, <1>3

(***************************************************************************)
(* What a budget f pays with each of b blocks, and that it suffices for    *)
(* the blocks from the interval of t on, which are no more than b.         *)
(***************************************************************************)
LEMMA BudgetSuffices ==
  ASSUME NEW i \in Nat \ {0}, NEW k \in Nat, NEW t \in Nat, t < k * i,
         NEW b, b = (k * i - t + i - 1) \div i, NEW f \in Nat
  PROVE  /\ b \in Nat \ {0} /\ f \div b \in Nat
         /\ (f \div b) * (k - t \div i) \in Nat
         /\ (f \div b) * (k - t \div i) <= f
<1> DEFINE c == t \div i
           a == k * i - t + i - 1
           s == f \div b
<1>1. c \in Nat /\ c + 1 <= k /\ t < (c + 1) * i
  BY LaterInterval, Division
<1>2. a \in Nat
  <2>1. k * i \in Int
    OBVIOUS
  <2> QED BY <2>1
<1>3. b \in Nat /\ a < (b + 1) * i
  <2> HIDE DEF a
  <2> QED BY <1>2, Division DEF a
<1> HIDE DEF c
<1>4. k - c <= b
  <2>1. ASSUME b + 1 <= k - c PROVE FALSE
    <3>1. (b + 1) * i <= (k - c) * i
      BY <1>1, <1>3, <2>1, k - c \in Nat, b + 1 \in Nat, Products
    <3>2. (k - c) * i = k * i - c * i /\ (c + 1) * i = c * i + i
      BY <1>1, SMT
    <3>3. k * i \in Int /\ c * i \in Int /\ (b + 1) * i \in Int
      BY <1>1, <1>3
    <3>4. a = k * i - t + i - 1
      OBVIOUS
    <3> HIDE DEF a
    <3> QED BY <1>1, <1>2, <1>3, <3>1, <3>2, <3>3, <3>4
  <2> QED BY <1>1, <1>3, <2>1
<1>5. b \in Nat \ {0} /\ k - c \in Nat
  BY <1>1, <1>3, <1>4
<1>6. s \in Nat /\ s * b <= f
  BY <1>5, Division
<1> HIDE DEF s
<1>7. (k - c) * s <= b * s
  BY <1>4, <1>5, <1>6, ProductOrder
<1>8. (k - c) * s = s * (k - c) /\ b * s = s * b /\ s * (k - c) \in Nat /\ s * b \in Nat
  BY <1>5, <1>6
<1>9. s * (k - c) <= f
  BY <1>6, <1>7, <1>8
<1> QED BY <1>5, <1>6, <1>8, <1>9 DEF s, c

\* What is left of the fees of the budget suffices for the blocks to come, at
\* most one in each interval i before the next maintenance.
BudgetLasts(d, i) ==
  \E k \in Nat :
    LET blocks == (k * i - d.last_budget_time + i - 1) \div i
    IN  /\ d.next_maintenance_time = k * i /\ d.time < k * i
        /\ d.last_budget_time \in Nat /\ d.last_budget_time <= d.time
        /\ d.miner_budget_from_fees \in Nat
        /\ d.unspent_fee_budget >=
             (d.miner_budget_from_fees \div blocks) * (k - d.time \div i)

NoBudget(d) ==
  /\ d.next_maintenance_time = 0 /\ d.last_budget_time = 0
  /\ d.miner_budget_from_fees = 0 /\ d.unspent_fee_budget = 0

FeesInv(i) ==
  /\ core.accumulated_fees \in Nat
  /\ IF dgp.head_block_number = 0 THEN NoBudget(dgp) ELSE BudgetLasts(dgp, i)

(***************************************************************************)
(* A block takes its share and leaves enough for those after it.           *)
(***************************************************************************)
LEMMA ShareLeavesEnough ==
  ASSUME DgpTyped(dgp), GpoTyped(gpo), NEW i, gpo.parameters.block_interval = i,
         BudgetLasts(dgp, i), NEW ts \in Nat, SlotAt(dgp, gpo.parameters, ts) > 0
  PROVE  \E k \in Nat, s \in Nat :
           /\ dgp.next_maintenance_time = k * i
           /\ Max({ShareOfFees(dgp, gpo.parameters), 0}) = s
           /\ s = dgp.miner_budget_from_fees \div
                    ((k * i - dgp.last_budget_time + i - 1) \div i)
           /\ dgp.unspent_fee_budget - s \in Nat
           /\ ts < k * i => dgp.unspent_fee_budget - s >= s * (k - ts \div i)
           /\ dgp.last_budget_time \in Nat /\ dgp.last_budget_time <= ts
           /\ dgp.miner_budget_from_fees \in Nat
<1> DEFINE p == gpo.parameters
           U == dgp.unspent_fee_budget
           F == dgp.miner_budget_from_fees
           L == dgp.last_budget_time
           c == dgp.time \div i
           e == ts \div i
           share == ShareOfFees(dgp, p)
           blocks(k) == (k * i - L + i - 1) \div i
<1>1. /\ i \in Nat \ {0} /\ c \in Nat /\ e \in Nat /\ c + 1 <= e
  BY BlockInLaterInterval
<1>2. PICK k \in Nat :
        /\ dgp.next_maintenance_time = k * i /\ dgp.time < k * i
        /\ L \in Nat /\ L <= dgp.time /\ F \in Nat
        /\ U >= (F \div blocks(k)) * (k - c)
  BY DEF BudgetLasts
<1> DEFINE b == blocks(k)
           s == F \div b
<1>3. dgp.time \in Nat /\ U \in Int /\ c + 1 <= k
  BY <1>1, <1>2, LaterInterval DEF DgpTyped
<1>4. b \in Nat \ {0} /\ s \in Nat
  <2>1. L < k * i
    <3>1. k * i \in Int
      BY <1>1
    <3> QED BY <1>2, <1>3, <3>1
  <2>2. b = (k * i - L + i - 1) \div i
    OBVIOUS
  <2> HIDE DEF b
  <2> QED BY <1>1, <1>2, <2>1, <2>2, BudgetSuffices
<1>5. share = s
  <2>1. BlocksInInterval(dgp, p) = b
    BY <1>2 DEF BlocksInInterval
  <2> HIDE DEF b
  <2>2. b > 0 /\ F >= 0
    BY <1>2, <1>4
  <2> QED BY <2>1, <2>2 DEF ShareOfFees, Quotient
<1> HIDE DEF b, share
<1>6. Max({share, 0}) = s
  <2> HIDE DEF s
  <2>1. share \in Int /\ share >= 0
    BY <1>4, <1>5
  <2>2. \A x \in {share, 0} : share >= x
    BY <2>1
  <2>3. Max({share, 0}) = share
    BY <2>1, <2>2, MaxIs
  <2> QED BY <1>5, <2>3
<1> HIDE DEF s
<1>7. U >= s * (k - c)
  BY <1>2 DEF b, s
<1> HIDE DEF c, e
<1>8. s * (k - c) = s * (k - (c + 1)) + s /\ k - (c + 1) \in Nat
  <2>1. \A x \in Nat : s * (x + 1) = s * x + s
    BY <1>4, SMT
  <2>2. k - (c + 1) \in Nat /\ k - c = (k - (c + 1)) + 1
    BY <1>1, <1>3
  <2> QED BY <2>1, <2>2
<1>9. s * (k - (c + 1)) \in Nat
  BY <1>4, <1>8
<1>10. U - s \in Nat
  BY <1>3, <1>4, <1>7, <1>8, <1>9
<1>11. ASSUME ts < k * i PROVE U - s >= s * (k - e)
  <2>1. e + 1 <= k
    BY <1>1, <1>11, LaterInterval DEF e
  <2>2. k - e \in Nat /\ k - e <= k - (c + 1)
    BY <1>1, <1>3, <2>1
  <2>3. (k - e) * s <= (k - (c + 1)) * s
    BY <1>4, <1>8, <2>2, ProductOrder
  <2>4. (k - e) * s = s * (k - e) /\ (k - (c + 1)) * s = s * (k - (c + 1)) /\ s * (k - e) \in Nat
    BY <1>4, <1>8, <2>2, SMT
  <2> QED BY <1>3, <1>4, <1>7, <1>8, <1>9, <2>3, <2>4
<1>12. dgp.time <= ts
  <2>1. ASSUME ts < dgp.time PROVE FALSE
    <3>1. ts <= dgp.time /\ dgp.time \in Nat
      BY <1>3, <2>1
    <3>2. ts \div i <= dgp.time \div i
      BY ONLY <1>1, <3>1, ts \in Nat, DivisionOrder, Zenon
    <3> QED BY <1>1, <3>2 DEF c, e
  <2> QED BY <1>3, <2>1
<1>13. L <= ts
  BY <1>2, <1>3, <1>12
<1>14. s = F \div ((k * i - L + i - 1) \div i)
  BY DEF s, b
<1>15. ts < k * i => U - s >= s * (k - ts \div i)
  BY <1>11 DEF e
<1> QED BY ONLY <1>2, <1>4, <1>6, <1>10, <1>13, <1>14, <1>15, k \in Nat DEF share

(***************************************************************************)
(* A new budget suffices for the whole of the next interval.               *)
(***************************************************************************)
LEMMA NewBudgetLasts ==
  ASSUME NEW d, NEW i \in Nat \ {0}, NEW n \in Nat, NEW ts \in Nat, ts < n * i,
         d.next_maintenance_time = n * i, d.time = ts, d.last_budget_time = ts,
         NEW f \in Nat, d.miner_budget_from_fees = f, d.unspent_fee_budget = f
  PROVE  BudgetLasts(d, i)
<1> DEFINE b == (n * i - ts + i - 1) \div i
           r == (f \div b) * (n - ts \div i)
<1>1. r \in Nat /\ r <= f
  <2> HIDE DEF b
  <2> QED BY BudgetSuffices DEF b
<1> HIDE DEF r
<1>2. f >= r
  BY <1>1
<1> QED BY <1>2 DEF BudgetLasts, r

(***************************************************************************)
(* _apply_block, of the fees: the share of a block, and the budget that a  *)
(* maintenance makes of the fees since the last.                           *)
(***************************************************************************)
LEMMA BlockTakesShare ==
  ASSUME Typed, NEW m \in Miners, NEW ts \in Times, ApplyBlock(m, ts)
  PROVE  LET p  == gpo.parameters
             s  == Max({ShareOfFees(dgp, p), 0})
             n  == dgp.head_block_number + 1
             p1 == gpo'.parameters
         IN  /\ SlotAt(dgp, p, ts) > 0 /\ ts \in Nat
             /\ p \in Parameters /\ p1 \in Parameters
             /\ dgp'.head_block_number = n /\ dgp'.time = ts
             /\ IF dgp.next_maintenance_time <= ts
                THEN LET b == core.accumulated_fees + (dgp.unspent_fee_budget - s)
                     IN  /\ core'.accumulated_fees = 0
                         /\ dgp'.next_maintenance_time = NextMaintenance(dgp, p1, ts, n)
                         /\ dgp'.last_budget_time = ts
                         /\ dgp'.miner_budget_from_fees = b /\ dgp'.unspent_fee_budget = b
                ELSE /\ core' = core /\ gpo' = gpo
                     /\ dgp'.next_maintenance_time = dgp.next_maintenance_time
                     /\ dgp'.last_budget_time = dgp.last_budget_time
                     /\ dgp'.miner_budget_from_fees = dgp.miner_budget_from_fees
                     /\ dgp'.unspent_fee_budget = dgp.unspent_fee_budget - s
<1> DEFINE p   == gpo.parameters
           num == dgp.head_block_number + 1
           s   == Max({ShareOfFees(dgp, p), 0})
           reward == BlockReward(num)
           d1  == [dgp EXCEPT !.head_block_number = num, !.time = ts,
                              !.mined_rewards = @ + reward, !.unspent_fee_budget = @ - s]
           p1  == IF gpo.pending_parameters = NoParameters THEN p ELSE gpo.pending_parameters
           budget == FeeBudget(d1, core)
           maint == dgp.next_maintenance_time <= ts
           next  == NextMaintenance(dgp, p1, ts, num)
<1>1. DgpTyped(dgp) /\ GpoTyped(gpo) /\ CoreTyped(core)
  BY DEF Typed
<1>2. /\ SlotAt(dgp, p, ts) > 0
      /\ maint => /\ gpo' = [parameters |-> p1, pending_parameters |-> NoParameters]
                  /\ core'.accumulated_fees = 0
                  /\ dgp' = [d1 EXCEPT !.next_maintenance_time  = next,
                                       !.last_budget_time       = ts,
                                       !.miner_budget_from_fees = budget,
                                       !.unspent_fee_budget     = budget,
                                       !.mined_rewards          = 0,
                                       !.maintenance_flag       = TRUE]
      /\ ~maint => dgp' = [d1 EXCEPT !.maintenance_flag = FALSE] /\ UNCHANGED <<core, gpo>>
  <2>1. /\ SlotAt(dgp, p, ts) > 0
        /\ maint => /\ gpo' = [parameters |-> p1, pending_parameters |-> NoParameters]
                    /\ core' = [core EXCEPT !.current_supply = @ + SupplyDelta(d1, core),
                                            !.accumulated_fees = 0]
                    /\ dgp' = [d1 EXCEPT !.next_maintenance_time  = next,
                                         !.last_budget_time       = ts,
                                         !.miner_budget_from_fees = budget,
                                         !.unspent_fee_budget     = budget,
                                         !.mined_rewards          = 0,
                                         !.maintenance_flag       = TRUE]
        /\ ~maint => dgp' = [d1 EXCEPT !.maintenance_flag = FALSE] /\ UNCHANGED <<core, gpo>>
    BY DEF ApplyBlock
  <2> HIDE DEF d1, budget, next, p1, maint
  <2> QED BY ONLY <1>1, <2>1 DEF CoreTyped
<1>3. p \in Parameters /\ p1 \in Parameters /\ ts \in Nat
  BY <1>1, SupplyAssumption DEF GpoTyped
<1> HIDE DEF s, reward, next, num
<1>4. /\ DOMAIN d1 = DOMAIN dgp /\ d1.head_block_number = num /\ d1.time = ts
      /\ d1.unspent_fee_budget = dgp.unspent_fee_budget - s
      /\ d1.miner_budget_from_fees = dgp.miner_budget_from_fees
      /\ d1.next_maintenance_time = dgp.next_maintenance_time
      /\ d1.last_budget_time = dgp.last_budget_time
  BY ONLY <1>1 DEF DgpTyped
<1> HIDE DEF d1
<1>5. budget = core.accumulated_fees + (dgp.unspent_fee_budget - s)
  BY <1>4 DEF FeeBudget
<1> HIDE DEF budget, p1
<1>6. CASE maint
  <2>1. dgp' = [d1 EXCEPT !.next_maintenance_time  = next,
                          !.last_budget_time       = ts,
                          !.miner_budget_from_fees = budget,
                          !.unspent_fee_budget     = budget,
                          !.mined_rewards          = 0,
                          !.maintenance_flag       = TRUE]
    BY <1>2, <1>6
  <2>2. /\ dgp'.head_block_number = num /\ dgp'.time = ts
        /\ dgp'.next_maintenance_time = next /\ dgp'.last_budget_time = ts
        /\ dgp'.miner_budget_from_fees = budget /\ dgp'.unspent_fee_budget = budget
    BY ONLY <1>1, <1>4, <2>1 DEF DgpTyped
  <2>3. gpo'.parameters = p1 /\ core'.accumulated_fees = 0
    BY <1>2, <1>6
  <2> QED BY <1>2, <1>3, <1>5, <1>6, <2>2, <2>3 DEF next, s, num
<1>7. CASE ~maint
  <2>1. dgp' = [d1 EXCEPT !.maintenance_flag = FALSE] /\ core' = core /\ gpo' = gpo
    BY <1>2, <1>7
  <2>2. /\ dgp'.head_block_number = num /\ dgp'.time = ts
        /\ dgp'.next_maintenance_time = dgp.next_maintenance_time
        /\ dgp'.last_budget_time = dgp.last_budget_time
        /\ dgp'.miner_budget_from_fees = dgp.miner_budget_from_fees
        /\ dgp'.unspent_fee_budget = dgp.unspent_fee_budget - s
    BY ONLY <1>1, <1>4, <2>1 DEF DgpTyped
  <2> QED BY <1>2, <1>3, <1>7, <2>1, <2>2 DEF s, num
<1> QED BY <1>6, <1>7

(***************************************************************************)
(* An operation adds its fee to those of the next budget and touches       *)
(* nothing else of it.                                                     *)
(***************************************************************************)
LEMMA OperationAddsFee ==
  ASSUME Typed, NEW fee \in Fees, Transfers(fee) \/ Updates(fee) \/ Vestings(fee) \/ Hidings(fee)
  PROVE  /\ dgp' = dgp /\ gpo' = gpo
         /\ fee \in Nat /\ core'.accumulated_fees = core.accumulated_fees + fee
<1>1. /\ dgp' = dgp /\ gpo' = gpo
      /\ \/ \E delta : WithFee(fee, delta)
         \/ \E c, w : core' = [core EXCEPT !.accumulated_fees = @ + fee,
                                          !.confidential_supply = c, !.wraps = w]
  <2>1. CASE Transfers(fee)
    BY <2>1 DEF Transfers, Transfer
  <2>2. CASE Updates(fee)
    BY <2>2 DEF Updates, UpdateAccount
  <2>3. CASE Vestings(fee)
    BY <2>3 DEF Vestings, CreateVesting, WithdrawVesting
  <2>4. CASE Hidings(fee)
    <3>1. ASSUME NEW from \in Accounts, NEW amount \in Amounts,
                 TransferToBlind(from, amount, fee) \/ TransferToConfidential(from, amount, fee)
          PROVE  dgp' = dgp /\ gpo' = gpo /\ \E delta : WithFee(fee, delta)
      BY <3>1 DEF TransferToBlind, TransferToConfidential
    <3>2. ASSUME NEW ins, NEW to, TransferFromBlind(ins, to, fee) \/ BlindTransfer(ins, fee)
          PROVE  dgp' = dgp /\ gpo' = gpo /\ \E delta : WithFee(fee, delta)
      BY <3>2 DEF TransferFromBlind, BlindTransfer
    <3>3. ASSUME NEW ins, NEW p, TransferFromConfidential(ins, p, fee)
          PROVE  /\ dgp' = dgp /\ gpo' = gpo
                 /\ \E c, w : core' = [core EXCEPT !.accumulated_fees = @ + fee,
                                                  !.confidential_supply = c, !.wraps = w]
      BY <3>3 DEF TransferFromConfidential
    <3> QED BY <2>4, <3>1, <3>2, <3>3 DEF Hidings
  <2> QED BY <2>1, <2>2, <2>3, <2>4
<1>4. CoreTyped(core)
  BY DEF Typed
<1>5. core'.accumulated_fees = core.accumulated_fees + fee
  <2>1. ASSUME NEW delta, WithFee(fee, delta)
        PROVE  core'.accumulated_fees = core.accumulated_fees + fee
    <3>1. core' = [core EXCEPT !.accumulated_fees = core.accumulated_fees + fee,
                               !.confidential_supply = core.confidential_supply + delta]
      BY <2>1 DEF WithFee
    <3> QED BY ONLY <1>4, <3>1 DEF CoreTyped
  <2>2. ASSUME NEW c, NEW w,
               core' = [core EXCEPT !.accumulated_fees = @ + fee,
                                    !.confidential_supply = c, !.wraps = w]
        PROVE  core'.accumulated_fees = core.accumulated_fees + fee
    BY ONLY <1>4, <2>2 DEF CoreTyped
  <2> QED BY <1>1, <2>1, <2>2
<1>6. fee \in Nat
  BY SupplyAssumption
<1> QED BY <1>1, <1>5, <1>6

(***************************************************************************)
(* Every step keeps what is left of the budget, while the block interval   *)
(* is i before and after it.                                               *)
(***************************************************************************)
LEMMA StepKeepsFees ==
  ASSUME Typed, NEW i, gpo.parameters.block_interval = i, gpo'.parameters.block_interval = i,
         FeesInv(i), [Next]_vars
  PROVE  FeesInv(i)'
<1>1. DgpTyped(dgp) /\ GpoTyped(gpo) /\ i \in Nat \ {0} /\ core.accumulated_fees \in Nat
  BY ParametersTyped DEF Typed, FeesInv
<1>2. ASSUME NEW fee \in Fees, Transfers(fee) \/ Updates(fee) \/ Vestings(fee) \/ Hidings(fee)
      PROVE  FeesInv(i)'
  <2>1. /\ dgp' = dgp /\ fee \in Nat /\ core'.accumulated_fees = core.accumulated_fees + fee
    BY <1>2, OperationAddsFee
  <2>2. core'.accumulated_fees \in Nat
    BY <1>1, <2>1
  <2> QED BY <2>1, <2>2 DEF FeesInv
<1>3. ASSUME NEW p \in Parameters, UpdateGlobalParameters(p)
      PROVE  FeesInv(i)'
  BY <1>3 DEF UpdateGlobalParameters, FeesInv
<1>4. ASSUME NEW m \in Miners, NEW ts \in Times, ApplyBlock(m, ts)
      PROVE  FeesInv(i)'
  <2> DEFINE p  == gpo.parameters
             s  == Max({ShareOfFees(dgp, p), 0})
             n  == dgp.head_block_number + 1
             p1 == gpo'.parameters
             b  == core.accumulated_fees + (dgp.unspent_fee_budget - s)
             maint == dgp.next_maintenance_time <= ts
  <2>1. /\ SlotAt(dgp, p, ts) > 0 /\ ts \in Nat
        /\ p \in Parameters /\ p1 \in Parameters
        /\ dgp'.head_block_number = n /\ dgp'.time = ts
        /\ IF maint
           THEN /\ core'.accumulated_fees = 0
                /\ dgp'.next_maintenance_time = NextMaintenance(dgp, p1, ts, n)
                /\ dgp'.last_budget_time = ts
                /\ dgp'.miner_budget_from_fees = b /\ dgp'.unspent_fee_budget = b
           ELSE /\ core' = core /\ gpo' = gpo
                /\ dgp'.next_maintenance_time = dgp.next_maintenance_time
                /\ dgp'.last_budget_time = dgp.last_budget_time
                /\ dgp'.miner_budget_from_fees = dgp.miner_budget_from_fees
                /\ dgp'.unspent_fee_budget = dgp.unspent_fee_budget - s
    BY <1>4, BlockTakesShare
  <2>2. n \in Nat \ {0} /\ dgp'.head_block_number # 0
    BY <1>1, <2>1 DEF DgpTyped
  <2>3. CASE dgp.head_block_number = 0
    <3>1. NoBudget(dgp)
      BY <2>3 DEF FeesInv
    <3>2. s = 0
      <4>1. ShareOfFees(dgp, p) = 0
        <5>1. BlocksInInterval(dgp, p) = (i - 1) \div i
          BY <1>1, <3>1 DEF BlocksInInterval, NoBudget
        <5>2. (i - 1) \div i = 0
          BY <1>1
        <5> QED BY <5>1, <5>2 DEF ShareOfFees
      <4> QED BY <4>1, MaxIs, \A x \in {0} : 0 >= x, {0, 0} = {0}
    <3>3. maint /\ b \in Nat
      BY <1>1, <2>1, <3>1, <3>2 DEF NoBudget
    <3> HIDE DEF s, b, n
    <3>4. NextOnGrid(NextMaintenance(dgp, p1, ts, n), ts, i)
      <4>1. dgp.next_maintenance_time = 0 * i /\ 0 * i <= ts
        BY <1>1, <2>1, <3>1 DEF NoBudget
      <4>2. p1.maintenance_interval \in Nat \ {0} /\ p1.maintenance_interval % i = 0
        BY <2>1, SupplyAssumption
      <4> DEFINE M == p1.maintenance_interval
      <4>3. M \in Nat \ {0} /\ M % i = 0 /\ p1.maintenance_interval = M
        BY <4>2 DEF NextOnGrid
      <4> HIDE DEF M
      <4>4. n \in Nat /\ ts \in Nat /\ i \in Nat \ {0} /\ 0 \in Nat
        BY <1>1, <2>1, <2>2
      <4> QED BY ONLY <4>1, <4>3, <4>4, MaintenanceOnGrid, Zenon
    <3>5. PICK k \in Nat : NextMaintenance(dgp, p1, ts, n) = k * i /\ ts < k * i
      BY <3>4 DEF NextOnGrid
    <3>6. BudgetLasts(dgp', i) /\ core'.accumulated_fees \in Nat
      BY <1>1, <2>1, <3>3, <3>5, NewBudgetLasts
    <3> QED BY <2>2, <3>6 DEF FeesInv
  <2>4. CASE dgp.head_block_number # 0
    <3>1. BudgetLasts(dgp, i)
      BY <2>4 DEF FeesInv
    <3>2. PICK k \in Nat, r \in Nat :
           /\ dgp.next_maintenance_time = k * i
           /\ s = r
           /\ r = dgp.miner_budget_from_fees \div
                    ((k * i - dgp.last_budget_time + i - 1) \div i)
           /\ dgp.unspent_fee_budget - r \in Nat
           /\ ts < k * i => dgp.unspent_fee_budget - r >= r * (k - ts \div i)
           /\ dgp.last_budget_time \in Nat /\ dgp.last_budget_time <= ts
           /\ dgp.miner_budget_from_fees \in Nat
      BY <1>1, <2>1, <3>1, ShareLeavesEnough
    <3> HIDE DEF s, n
    <3>3. CASE maint
      <4>1. b \in Nat
        BY <1>1, <3>2
      <4>2. NextOnGrid(NextMaintenance(dgp, p1, ts, n), ts, i)
        <5>1. dgp.next_maintenance_time = k * i /\ k * i <= ts
          BY <3>2, <3>3
        <5>2. p1.maintenance_interval \in Nat \ {0} /\ p1.maintenance_interval % i = 0
          BY <2>1, SupplyAssumption
        <5> DEFINE M == p1.maintenance_interval
        <5>3. M \in Nat \ {0} /\ M % i = 0 /\ p1.maintenance_interval = M
          BY <5>2
        <5> HIDE DEF M
        <5>4. n \in Nat /\ ts \in Nat /\ i \in Nat \ {0} /\ k \in Nat
          BY <1>1, <2>1, <2>2
        <5> QED BY ONLY <5>1, <5>3, <5>4, MaintenanceOnGrid, Zenon
      <4>3. PICK j \in Nat : NextMaintenance(dgp, p1, ts, n) = j * i /\ ts < j * i
        BY <4>2 DEF NextOnGrid
      <4> HIDE DEF b
      <4>4. BudgetLasts(dgp', i) /\ core'.accumulated_fees \in Nat
        BY <1>1, <2>1, <3>3, <4>1, <4>3, NewBudgetLasts
      <4> QED BY <2>2, <4>4 DEF FeesInv
    <3>4. CASE ~maint
      <4>1. ts < k * i
        <5>1. k * i \in Int
          BY <1>1
        <5> QED BY <2>1, <3>2, <3>4, <5>1
      <4>2. BudgetLasts(dgp', i)
        BY <2>1, <3>2, <3>4, <4>1 DEF BudgetLasts
      <4> QED BY <1>1, <2>1, <2>2, <3>4, <4>2 DEF FeesInv
    <3> QED BY <3>3, <3>4
  <2> QED BY <2>3, <2>4
<1>5. CASE UNCHANGED vars
  BY <1>5 DEF vars, objects, FeesInv
<1> QED BY <1>2, <1>3, <1>4, <1>5 DEF Next

(***************************************************************************)
(* The fees of the budget pay for every share of the blocks of an          *)
(* interval, in every behaviour whose block interval stays as it is, and   *)
(* whatever else of the parameters is changed: "this should never happen"  *)
(* of a negative share is right.                                           *)
(***************************************************************************)
THEOREM FeesCoverTheirPay ==
  ASSUME NEW i
  PROVE  Spec /\ [](gpo.parameters.block_interval = i) => []FeesCoverPay
<1>1. Init => FeesInv(i)
  <2> SUFFICES ASSUME Init PROVE FeesInv(i)
    OBVIOUS
  <2>1. core.accumulated_fees = 0 /\ dgp.head_block_number = 0 /\ NoBudget(dgp)
    BY DEF Init, NoBudget
  <2> QED BY <2>1 DEF FeesInv
<1>2. /\ SupplyInv /\ FeesInv(i) /\ [Next]_vars
      /\ gpo.parameters.block_interval = i /\ (gpo.parameters.block_interval = i)'
      => FeesInv(i)'
  BY StepKeepsFees DEF SupplyInv
<1>3. SupplyInv /\ FeesInv(i) /\ gpo.parameters.block_interval = i => FeesCoverPay
  <2> SUFFICES ASSUME SupplyInv, FeesInv(i), gpo.parameters.block_interval = i
               PROVE  dgp.unspent_fee_budget >= 0
    BY DEF FeesCoverPay
  <2>1. DgpTyped(dgp) /\ GpoTyped(gpo) /\ i \in Nat \ {0}
    BY ParametersTyped DEF SupplyInv, Typed
  <2>2. CASE dgp.head_block_number = 0
    BY <2>2 DEF FeesInv, NoBudget
  <2>3. CASE dgp.head_block_number # 0
    <3> DEFINE L == dgp.last_budget_time
               F == dgp.miner_budget_from_fees
               b(k) == (k * i - L + i - 1) \div i
    <3>1. PICK k \in Nat :
            /\ dgp.time < k * i /\ L \in Nat /\ L <= dgp.time /\ F \in Nat
            /\ dgp.unspent_fee_budget >= (F \div b(k)) * (k - dgp.time \div i)
      BY <2>3 DEF FeesInv, BudgetLasts
    <3>2. dgp.time \in Nat /\ L < k * i
      <4>1. dgp.time \in Nat /\ k * i \in Int
        BY <2>1 DEF DgpTyped
      <4> QED BY <3>1, <4>1
    <3>3. F \div b(k) \in Nat
      BY <2>1, <3>1, <3>2, BudgetSuffices
    <3>4. k - dgp.time \div i \in Nat
      BY <2>1, <3>1, <3>2, LaterInterval
    <3> DEFINE s == F \div b(k)
               r == k - dgp.time \div i
    <3>5. s \in Nat /\ r \in Nat /\ dgp.unspent_fee_budget >= s * r
      BY <3>1, <3>3, <3>4
    <3> HIDE DEF s, r
    <3>6. s * r \in Nat /\ dgp.unspent_fee_budget \in Int
      BY <2>1, <3>5 DEF DgpTyped
    <3> QED BY <3>5, <3>6
  <2> QED BY <2>2, <2>3
<1>4. Spec => []SupplyInv
  BY SupplyInvariant
<1> QED BY <1>1, <1>2, <1>3, <1>4, PTL DEF Spec

----------------------------------------------------------------------------
(* What is paid for votes. *)

\* The accounts whose balances keep a vote for miner m.
VotersOf(b, m) == {a \in DOMAIN b : b[a].casted_vote = m}

Powers(b) == [a \in DOMAIN b |-> b[a].vote_power]

\* No balance is overdrawn, and the powers that are paid are no more than the
\* votes they are a share of.
PaysVotes(b, mnr) ==
  /\ \A a \in DOMAIN b : b[a].balance \in Nat /\ b[a].vote_power \in Nat
  /\ \A m \in Miners : /\ mnr[m].total_votes \in Nat
                       /\ Total(Powers(b), VotersOf(b, m)) <= mnr[m].total_votes

(***************************************************************************)
(* adjust_balance leaves the powers as they are, and its assertion leaves  *)
(* no balance overdrawn.                                                   *)
(***************************************************************************)
LEMMA AdjustPaysVotes ==
  ASSUME NEW b, BalancesTyped(b), NEW mnr, PaysVotes(b, mnr), NEW a \in Accounts,
         NEW delta \in Int, CanAdjust(b, a, delta)
  PROVE  PaysVotes(Adjust(b, a, delta), mnr)
<1>1. CASE delta = 0
  BY <1>1 DEF Adjust
<1>2. CASE delta # 0
  <2> DEFINE v == IF a \in DOMAIN b THEN [b[a] EXCEPT !.balance = @ + delta]
                  ELSE [balance |-> delta, vote_power |-> 0, casted_vote |-> NoVote]
             c == [i \in DOMAIN b \cup {a} |-> IF i = a THEN v ELSE b[i]]
  <2>1. Adjust(b, a, delta) = c
    BY <1>2 DEF Adjust
  <2>2. /\ v.balance \in Nat /\ v.vote_power \in Nat
        /\ a \in DOMAIN b => v.vote_power = b[a].vote_power /\ v.casted_vote = b[a].casted_vote
        /\ a \notin DOMAIN b => v.casted_vote = NoVote
    <3>1. CASE a \in DOMAIN b
      <4>1. IsBalance(b[a]) /\ b[a].balance \in Nat /\ b[a].vote_power \in Nat
        BY <3>1 DEF BalancesTyped, PaysVotes
      <4>2. v = [balance |-> b[a].balance + delta, vote_power |-> b[a].vote_power,
                 casted_vote |-> b[a].casted_vote]
        BY <3>1, <4>1 DEF IsBalance
      <4>3. b[a].balance + delta \in Nat
        BY <3>1, <4>1 DEF CanAdjust, BalanceOf
      <4> QED BY <3>1, <4>1, <4>2, <4>3
    <3>2. CASE a \notin DOMAIN b
      <4>1. delta \in Nat
        BY <3>2 DEF CanAdjust, BalanceOf
      <4> QED BY <3>2, <4>1
    <3> QED BY <3>1, <3>2
  <2>3. /\ DOMAIN c = DOMAIN b \cup {a} /\ c[a] = v
        /\ \A i \in DOMAIN b : i # a => c[i] = b[i]
    OBVIOUS
  <2> HIDE DEF v, c
  <2>4. \A i \in DOMAIN c : c[i].balance \in Nat /\ c[i].vote_power \in Nat
    BY <2>2, <2>3 DEF PaysVotes
  <2>5. ASSUME NEW m \in Miners
        PROVE  /\ mnr[m].total_votes \in Nat
               /\ Total(Powers(c), VotersOf(c, m)) <= mnr[m].total_votes
    <3>1. m # NoVote
      BY SupplyAssumption DEF NoVote
    <3>2. VotersOf(c, m) = VotersOf(b, m)
      BY <2>2, <2>3, <3>1 DEF VotersOf
    <3> DEFINE V == VotersOf(b, m)
               f == Powers(b)
               g == Powers(c)
    <3>3. IsFiniteSet(V) /\ V \subseteq DOMAIN b
      BY SupplyAssumption, FS_Subset DEF VotersOf, BalancesTyped
    <3>4. \A x \in V : f[x] \in Int /\ g[x] = f[x]
      BY <2>2, <2>3, <3>3 DEF Powers, PaysVotes
    <3>5. Total(f, V) <= mnr[m].total_votes /\ mnr[m].total_votes \in Nat
      BY DEF PaysVotes
    <3> HIDE DEF V, f, g
    <3>6. Total(g, V) = Total(f, V)
      BY <3>3, <3>4, TotalSame
    <3> QED BY <3>2, <3>5, <3>6 DEF V, g
  <2>6. PaysVotes(c, mnr)
    BY <2>4, <2>5 DEF PaysVotes
  <2> QED BY <2>1, <2>6
<1> QED BY <1>1, <1>2

(***************************************************************************)
(* Nor do payments, each within the balance it is taken from.              *)
(***************************************************************************)
LEMMA PaidPaysVotes ==
  ASSUME NEW b, BalancesTyped(b), NEW mnr, PaysVotes(b, mnr),
         NEW p, DOMAIN p \subseteq Accounts,
         \A a \in DOMAIN p : p[a] \in Int /\ CanAdjust(b, a, p[a])
  PROVE  BalancesTyped(Paid(b, p)) /\ PaysVotes(Paid(b, p), mnr)
<1> DEFINE S == DOMAIN p
           Good == {T \in SUBSET S : /\ BalancesTyped(PaidTo(b, p, T))
                                     /\ PaysVotes(PaidTo(b, p, T), mnr)}
<1>1. IsFiniteSet(S)
  BY SupplyAssumption, FS_Subset
<1>2. b = [a \in DOMAIN b |-> b[a]]
  BY DEF BalancesTyped
<1>3. ASSUME NEW T \in SUBSET S, \A U \in SUBSET T : U # T => U \in Good
      PROVE  T \in Good
  <2>1. CASE T = {}
    <3>1. PaidTo(b, p, {}) = b
      <4>1. 0 \in {0}
        OBVIOUS
      <4> QED BY <1>2, <4>1, PaidStep
    <3> QED BY <2>1, <3>1
  <2>2. CASE T # {}
    <3>1. PICK x \in T : TRUE
      BY <2>2
    <3> DEFINE c == PaidTo(b, p, T \ {x})
               d == PaidTo(b, p, T)
    <3>2. BalancesTyped(c) /\ PaysVotes(c, mnr)
      BY <1>3
    <3>3. d = Adjust(c, x, p[x]) /\ BalanceOf(c, x) = BalanceOf(b, x)
      BY <1>2, PaidStep
    <3>4. x \in Accounts /\ p[x] \in Int /\ CanAdjust(b, x, p[x])
      OBVIOUS
    <3> HIDE DEF c, d
    <3>5. CanAdjust(c, x, p[x])
      BY <3>3, <3>4 DEF CanAdjust
    <3>6. BalancesTyped(d) /\ PaysVotes(d, mnr)
      BY <3>2, <3>3, <3>4, <3>5, AdjustAdds, AdjustPaysVotes
    <3> QED BY <3>6 DEF d
  <2> QED BY <2>1, <2>2
<1>4. S \in Good
  <2>1. \A T \in SUBSET S : T \in Good
    <3> HIDE DEF Good, S
    <3> QED BY <1>1, <1>3, SubsetInduction
  <2> QED BY <2>1
<1>5. PaidTo(b, p, S) = Paid(b, p)
  BY DEF PaidTo, Paid
<1> QED BY <1>4, <1>5

(***************************************************************************)
(* evaluator::apply takes a fee that is there.                             *)
(***************************************************************************)
LEMMA PayFeePaysVotes ==
  ASSUME NEW b, BalancesTyped(b), PaysVotes(b, miner), NEW payer \in Accounts, NEW fee \in Nat,
         PayFee(b, payer, fee)
  PROVE  PaysVotes(balance', miner)
<1> DEFINE delta == -fee
<1>1. delta \in Int /\ balance' = Adjust(b, payer, delta) /\ CanAdjust(b, payer, delta)
  BY DEF PayFee
<1> HIDE DEF delta
<1> QED BY <1>1, AdjustPaysVotes

(***************************************************************************)
(* One balance changed and the fee was paid, or two changed.               *)
(***************************************************************************)
LEMMA OneMovePaysVotes ==
  ASSUME BalancesTyped(balance), PaysVotes(balance, miner), NEW p \in Accounts, NEW x \in Int,
         CanAdjust(balance, p, x),
         NEW payer \in Accounts, NEW fee \in Nat, PayFee(Adjust(balance, p, x), payer, fee)
  PROVE  PaysVotes(balance', miner)
<1> DEFINE b == Adjust(balance, p, x)
<1>1. BalancesTyped(b) /\ PaysVotes(b, miner) /\ PayFee(b, payer, fee)
  BY AdjustAdds, AdjustPaysVotes
<1> HIDE DEF b
<1> QED BY <1>1, PayFeePaysVotes

(***************************************************************************)
(* Two balances changed, the second for the better, and the fee was paid.  *)
(***************************************************************************)
LEMMA TwoMovesPayVotes ==
  ASSUME BalancesTyped(balance), PaysVotes(balance, miner), NEW p \in Accounts, NEW x \in Int,
         CanAdjust(balance, p, x), NEW q \in Accounts, NEW y \in Nat,
         NEW payer \in Accounts, NEW fee \in Nat,
         PayFee(Adjust(Adjust(balance, p, x), q, y), payer, fee)
  PROVE  PaysVotes(balance', miner)
<1> DEFINE b == Adjust(balance, p, x)
           c == Adjust(b, q, y)
<1>1. BalancesTyped(b) /\ PaysVotes(b, miner)
  BY AdjustAdds, AdjustPaysVotes
<1>2. PayFee(c, payer, fee) /\ y \in Int /\ CanAdjust(b, q, y)
  BY DEF CanAdjust
<1> HIDE DEF b
<1>3. BalancesTyped(c) /\ PaysVotes(c, miner)
  BY <1>1, <1>2, AdjustAdds, AdjustPaysVotes
<1> HIDE DEF c
<1> QED BY <1>2, <1>3, PayFeePaysVotes

(***************************************************************************)
(* No operation changes a power or overdraws a balance.                    *)
(***************************************************************************)
LEMMA OperationPaysVotes ==
  ASSUME SupplyInv, PaysVotes(balance, miner), NEW fee \in Fees,
         Transfers(fee) \/ Updates(fee) \/ Vestings(fee) \/ Hidings(fee)
  PROVE  PaysVotes(balance', miner')
<1>1. BalancesTyped(balance) /\ VestingsTyped(vesting) /\ fee \in Nat
      /\ HiddenTyped(blinded) /\ TempAccount \in Accounts
  BY SupplyAssumption DEF SupplyInv, Typed
<1>2. ASSUME NEW amount \in Int, NEW a \in Accounts, BalanceOf(balance, a) >= amount
      PROVE  -amount \in Int /\ CanAdjust(balance, a, -amount)
  BY <1>2 DEF CanAdjust
<1>3. ASSUME NEW amount \in Nat, NEW a \in Accounts
      PROVE  amount \in Int /\ CanAdjust(balance, a, amount)
  BY DEF CanAdjust
<1>4. ASSUME NEW from \in Accounts, NEW to \in Accounts, NEW amount \in Amounts,
             Transfer(from, to, amount, fee)
      PROVE  PaysVotes(balance', miner')
  <2> DEFINE minus == -amount
  <2>1. /\ BalanceOf(balance, from) >= amount /\ miner' = miner
        /\ PayFee(Adjust(Adjust(balance, from, minus), to, amount), from, fee)
    BY <1>4 DEF Transfer
  <2>2. amount \in Nat /\ minus \in Int /\ CanAdjust(balance, from, minus)
    BY <1>2, <2>1, SupplyAssumption
  <2> HIDE DEF minus
  <2>3. PaysVotes(balance', miner)
    BY <1>1, <2>1, <2>2, TwoMovesPayVotes
  <2> QED BY <2>1, <2>3
<1>5. ASSUME NEW a \in Accounts, NEW options \in Options, UpdateAccount(a, options, fee)
      PROVE  PaysVotes(balance', miner')
  <2>1. PayFee(balance, a, fee) /\ miner' = miner
    BY <1>5 DEF UpdateAccount
  <2>2. PaysVotes(balance', miner)
    BY <1>1, <2>1, PayFeePaysVotes
  <2> QED BY <2>1, <2>2
<1>6. ASSUME NEW creator \in Accounts, NEW owner \in Accounts, NEW amount \in Amounts,
             NEW i \in Policies, CreateVesting(creator, owner, amount, i, fee)
      PROVE  PaysVotes(balance', miner')
  <2> DEFINE minus == -amount
  <2>1. /\ BalanceOf(balance, creator) >= amount /\ miner' = miner
        /\ PayFee(Adjust(balance, creator, minus), creator, fee)
    BY <1>6 DEF CreateVesting
  <2>2. minus \in Int /\ CanAdjust(balance, creator, minus)
    BY <1>2, <2>1, SupplyAssumption
  <2> HIDE DEF minus
  <2>3. PaysVotes(balance', miner)
    BY <1>1, <2>1, <2>2, OneMovePaysVotes
  <2> QED BY <2>1, <2>3
<1>7. ASSUME NEW id \in DOMAIN vesting, NEW amount \in Amounts, WithdrawVesting(id, amount, fee)
      PROVE  PaysVotes(balance', miner')
  <2> DEFINE owner == vesting[id].owner
  <2>1. miner' = miner /\ PayFee(Adjust(balance, owner, amount), owner, fee)
    BY <1>7 DEF WithdrawVesting
  <2>2. owner \in Accounts
    <3>1. IsVesting(vesting[id], id[1]) /\ id[1] \in Accounts
      BY <1>1 DEF VestingsTyped
    <3> QED BY <3>1, OwnerOf
  <2> HIDE DEF owner
  <2>3. amount \in Int /\ CanAdjust(balance, owner, amount)
    BY <1>3, <2>2, SupplyAssumption
  <2>4. PaysVotes(balance', miner)
    BY <1>1, <2>1, <2>2, <2>3, OneMovePaysVotes
  <2> QED BY <2>1, <2>4
<1>8. ASSUME NEW from \in Accounts, NEW amount \in Amounts,
             TransferToBlind(from, amount, fee) \/ TransferToConfidential(from, amount, fee)
      PROVE  PaysVotes(balance', miner')
  <2> DEFINE minus == -amount
  <2>1. /\ miner' = miner /\ CanAdjust(balance, from, minus)
        /\ PayFee(Adjust(balance, from, minus), from, fee)
    BY <1>8 DEF TransferToBlind, TransferToConfidential
  <2>2. minus \in Int
    BY SupplyAssumption
  <2> HIDE DEF minus
  <2>3. PaysVotes(balance', miner)
    BY <1>1, <2>1, <2>2, OneMovePaysVotes
  <2> QED BY <2>1, <2>3
<1>9. ASSUME NEW ins \in SUBSET DOMAIN blinded, NEW to \in Accounts, TransferFromBlind(ins, to, fee)
      PROVE  PaysVotes(balance', miner')
  <2> DEFINE amount == Total(blinded, ins) - fee
  <2>1. /\ miner' = miner /\ amount > 0
        /\ PayFee(Adjust(Adjust(balance, TempAccount, fee), to, amount), TempAccount, fee)
    BY <1>9 DEF TransferFromBlind
  <2>2. amount \in Nat
    <3>1. Total(blinded, ins) \in Int
      BY <1>1, HiddenPart
    <3> QED BY <1>1, <2>1, <3>1
  <2> HIDE DEF amount
  <2>3. fee \in Int /\ CanAdjust(balance, TempAccount, fee)
    BY <1>1, <1>3
  <2>4. PaysVotes(balance', miner)
    BY <1>1, <2>1, <2>2, <2>3, TwoMovesPayVotes
  <2> QED BY <2>1, <2>4
<1>10. ASSUME NEW ins \in SUBSET DOMAIN blinded, BlindTransfer(ins, fee)
       PROVE  PaysVotes(balance', miner')
  <2>1. miner' = miner /\ PayFee(Adjust(balance, TempAccount, fee), TempAccount, fee)
    BY <1>10 DEF BlindTransfer
  <2>2. fee \in Int /\ CanAdjust(balance, TempAccount, fee)
    BY <1>1, <1>3
  <2>3. PaysVotes(balance', miner)
    BY <1>1, <2>1, <2>2, OneMovePaysVotes
  <2> QED BY <2>1, <2>3
<1>11. ASSUME NEW ins \in SUBSET DOMAIN confidential, NEW p \in Payments,
              TransferFromConfidential(ins, p, fee)
       PROVE  PaysVotes(balance', miner')
  <2> DEFINE b == Adjust(balance, TempAccount, fee)
  <2>1. /\ miner' = miner /\ \A a \in DOMAIN p : CanAdjust(b, a, p[a])
        /\ PayFee(Paid(b, p), TempAccount, fee)
    BY <1>11 DEF TransferFromConfidential
  <2>2. DOMAIN p \subseteq Accounts /\ \A a \in DOMAIN p : p[a] \in Int
    BY SupplyAssumption
  <2>3. BalancesTyped(b) /\ PaysVotes(b, miner)
    BY <1>1, <1>3, AdjustAdds, AdjustPaysVotes
  <2> DEFINE c == Paid(b, p)
  <2> HIDE DEF b
  <2>4. BalancesTyped(c) /\ PaysVotes(c, miner)
    BY <2>1, <2>2, <2>3, PaidPaysVotes
  <2>5. PayFee(c, TempAccount, fee)
    BY <2>1
  <2> HIDE DEF c
  <2>6. PaysVotes(balance', miner)
    BY <1>1, <2>4, <2>5, PayFeePaysVotes
  <2> QED BY <2>1, <2>6
<1>12. CASE Transfers(fee)
  BY <1>4, <1>12 DEF Transfers
<1>13. CASE Updates(fee)
  BY <1>5, <1>13 DEF Updates
<1>14. CASE Vestings(fee)
  BY <1>6, <1>7, <1>14 DEF Vestings
<1>15. CASE Hidings(fee)
  BY <1>8, <1>9, <1>10, <1>11, <1>15 DEF Hidings
<1> QED BY <1>12, <1>13, <1>14, <1>15

----------------------------------------------------------------------------
(* What vesting balances keep. *)

\* What Vesting says of is a vesting_balance_object without its owner.
Object(v) == [balance |-> v.balance, policy |-> v.policy]

\* Every balance keeps its history at time t, with the coin-seconds h.
KeptAll(vs, h, t) ==
  \A id \in DOMAIN vs : h[id] \in Int /\ Kept(Object(vs[id]), t, h[id])

\* w is v with another policy and balance.
Puts(v, w, policy, amount) == w = [v EXCEPT !.policy = policy, !.balance = amount]

(***************************************************************************)
(* The owner of an object is of no account when it changes.                *)
(***************************************************************************)
LEMMA ObjectExcept ==
  ASSUME NEW v, NEW owner, IsVesting(v, owner), NEW q, NEW c,
         NEW w, Puts(v, w, q, c), NEW u, Puts(Object(v), u, q, c)
  PROVE  Object(w) = u
<1> DEFINE b == v.balance
           p == v.policy
           o == Object(v)
<1>0. v = [owner |-> owner, balance |-> b, policy |-> p]
  BY DEF IsVesting
<1>1. w = [owner |-> owner, balance |-> c, policy |-> q]
  <2>1. w = [v EXCEPT !.policy = q, !.balance = c]
    BY DEF Puts
  <2> HIDE DEF b, p
  <2> QED BY <1>0, <2>1, VestingExcept
<1> DEFINE m == [o EXCEPT !.policy = q]
<1>2. Object(w) = [balance |-> c, policy |-> q]
  BY <1>1 DEF Object
<1>3. o = [balance |-> b, policy |-> p] /\ u = [o EXCEPT !.policy = q, !.balance = c]
  BY DEF Object, Puts
<1> HIDE DEF o, b, p
<1>4. m = [balance |-> b, policy |-> q] /\ u = [m EXCEPT !.balance = c]
  BY <1>3
<1> HIDE DEF m
<1>5. u = [balance |-> c, policy |-> q]
  BY <1>4
<1> QED BY <1>2, <1>5

(***************************************************************************)
(* deposit, withdraw and get_allowed_withdraw do not look at the owner.    *)
(***************************************************************************)
LEMMA ObjectChanges ==
  ASSUME NEW v, NEW owner, IsVesting(v, owner), NEW now, NEW amount
  PROVE  /\ Object(Deposit(v, now, amount)) = Deposit(Object(v), now, amount)
         /\ Object(Withdraw(v, now, amount)) = Withdraw(Object(v), now, amount)
         /\ AllowedWithdraw(v, now) = AllowedWithdraw(Object(v), now)
         /\ Object(v).policy = v.policy /\ Object(v).balance = v.balance
<1> DEFINE b == v.balance
           p == v.policy
           o == Object(v)
<1>1. v = [owner |-> owner, balance |-> b, policy |-> p]
  BY DEF IsVesting
<1>2. o.balance = b /\ o.policy = p
  BY DEF Object
<1>3. Object(Deposit(v, now, amount)) = Deposit(o, now, amount)
  <2> DEFINE w == Deposit(v, now, amount)
             x == Deposit(o, now, amount)
             q == IF p.kind = "cdd" THEN Updated(p, b, now) ELSE p
             c == b + amount
  <2>1. w = [v EXCEPT !.policy = q, !.balance = c]
    BY DEF Deposit
  <2>2. x = [o EXCEPT !.policy = q, !.balance = c]
    <3> HIDE DEF o, b, p
    <3> QED BY <1>2 DEF Deposit
  <2> HIDE DEF q, c, b, p, w, x
  <2>3. Puts(v, w, q, c) /\ Puts(Object(v), x, q, c)
    BY <2>1, <2>2 DEF Puts
  <2>4. Object(w) = x
    BY ONLY IsVesting(v, owner), <2>3, ObjectExcept, Zenon
  <2> QED BY <2>4 DEF w, x
<1>4. Object(Withdraw(v, now, amount)) = Withdraw(o, now, amount)
  <2> DEFINE w == Withdraw(v, now, amount)
             x == Withdraw(o, now, amount)
             u == Updated(p, b, now)
             q == IF p.kind = "cdd"
                  THEN [u EXCEPT !.coin_seconds_earned = @ - amount * AtLeastOne(u.vesting_seconds)]
                  ELSE p
             c == b - amount
  <2>1. w = [v EXCEPT !.policy = q, !.balance = c]
    BY DEF Withdraw
  <2>2. x = [o EXCEPT !.policy = q, !.balance = c]
    <3> HIDE DEF o, b, p
    <3> QED BY <1>2 DEF Withdraw
  <2> HIDE DEF q, c, b, p, w, x
  <2>3. Puts(v, w, q, c) /\ Puts(Object(v), x, q, c)
    BY <2>1, <2>2 DEF Puts
  <2>4. Object(w) = x
    BY ONLY IsVesting(v, owner), <2>3, ObjectExcept, Zenon
  <2> QED BY <2>4 DEF w, x
<1>5. AllowedWithdraw(v, now) = AllowedWithdraw(o, now)
  <2> HIDE DEF o
  <2> QED BY <1>2 DEF AllowedWithdraw
<1> QED BY <1>2, <1>3, <1>4, <1>5

(***************************************************************************)
(* deposit_lazy_vesting: the balance paid to keeps its history, and a new  *)
(* one starts without any.                                                 *)
(***************************************************************************)
LEMMA LazyKeeps ==
  ASSUME NEW vs, VestingsTyped(vs), NEW now \in Nat, NEW h, KeptAll(vs, h, now),
         NEW owner \in Accounts, NEW id \in DOMAIN vs \cup {NoVesting},
         NEW seconds \in Nat, NEW amount \in Nat,
         NEW n, n = LazyId(vs, id, owner, seconds),
         n \notin DOMAIN vs => h[n] = 0,
         NEW v, v = LazyVesting(vs, id, owner, seconds, amount, now)
  PROVE  h[n] \in Int /\ Kept(Object(v), now, h[n]) /\ n[1] = owner
<1>1. /\ Fits(vs, n, v, owner, amount)
      /\ Accepts(vs, id, owner, seconds) => n = id /\ n \in DOMAIN vs
      /\ ~Accepts(vs, id, owner, seconds) => n = NewVesting(vs, owner) /\ n \notin DOMAIN vs
  BY amount \in Int, LazyIsVesting
<1>2. CASE Accepts(vs, id, owner, seconds)
  <2> DEFINE o == vs[id]
             g == h[id]
  <2>1. n = id /\ id \in DOMAIN vs /\ v = Deposit(o, now, amount)
    BY <1>1, <1>2 DEF LazyVesting
  <2>2. IsVesting(o, id[1]) /\ g \in Int /\ Kept(Object(o), now, g)
    BY <2>1 DEF VestingsTyped, KeptAll
  <2>3. o.policy.kind = "cdd"
    BY <1>2 DEF Accepts
  <2> HIDE DEF o, g
  <2>4. Object(v) = Deposit(Object(o), now, amount) /\ Object(o).policy.kind = "cdd"
    BY <2>1, <2>2, <2>3, ObjectChanges
  <2>5. Kept(Object(v), now, g)
    BY <2>2, <2>4, DepositKeeps
  <2> QED BY <1>1, <2>1, <2>2, <2>5 DEF g, Fits
<1>3. CASE ~Accepts(vs, id, owner, seconds)
  <2> DEFINE i == [kind |-> "cdd", vesting_seconds |-> seconds, start_claim |-> 0]
             q == InitPolicy(i, amount, now)
  <2>1. v = [owner |-> owner, balance |-> amount, policy |-> q] /\ h[n] = 0
    BY <1>1, <1>3 DEF LazyVesting
  <2>2. IsInitializer(i)
    BY DEF IsInitializer
  <2>3. Kept([balance |-> amount, policy |-> q], now, 0)
    BY <2>2, CreateKeeps
  <2> HIDE DEF q
  <2>4. Object(v) = [balance |-> amount, policy |-> q]
    BY <2>1 DEF Object
  <2> QED BY <1>1, <2>1, <2>3, <2>4 DEF Fits
<1> QED BY <1>2, <1>3

(***************************************************************************)
(* deposit_account_pay: all balances keep their histories.                 *)
(***************************************************************************)
LEMMA PayAccountsKeeps ==
  ASSUME NEW vs, VestingsTyped(vs), NEW now \in Nat, NEW h, KeptAll(vs, h, now),
         NEW seconds \in Nat, NEW pay, \A a \in Accounts : pay[a] \in Nat,
         \A a \in Accounts : account[a].cashback_vb \in DOMAIN vs \cup {NoVesting},
         NEW ws, ws = PayAccounts(vs, pay, seconds, now),
         \A id \in DOMAIN ws : id \notin DOMAIN vs => h[id] = 0
  PROVE  KeptAll(ws, h, now)
<1> DEFINE cb(a) == account[a].cashback_vb
           id(a) == LazyId(vs, cb(a), a, seconds)
           paid == {a \in Accounts : pay[a] # 0}
           lazy(a) == LazyVesting(vs, cb(a), a, seconds, pay[a], now)
<1>1. ws = [i \in DOMAIN vs \cup {id(a) : a \in paid} |->
              IF i[1] \in paid /\ i = id(i[1]) THEN lazy(i[1]) ELSE vs[i]]
  BY DEF PayAccounts
<1>2. ASSUME NEW a \in paid
      PROVE  h[id(a)] \in Int /\ Kept(Object(lazy(a)), now, h[id(a)]) /\ id(a)[1] = a
  <2> DEFINE n == id(a)
             v == lazy(a)
             x == pay[a]
             c == cb(a)
  <2>1. n \notin DOMAIN vs => h[n] = 0
    BY <1>1
  <2>2. a \in Accounts /\ x \in Nat /\ c \in DOMAIN vs \cup {NoVesting}
    OBVIOUS
  <2>3. n = LazyId(vs, c, a, seconds) /\ v = LazyVesting(vs, c, a, seconds, x, now)
    OBVIOUS
  <2> HIDE DEF n, v, x, c
  <2>4. h[n] \in Int /\ Kept(Object(v), now, h[n]) /\ n[1] = a
    <3>1. \A i \in DOMAIN vs \cup {NoVesting}, y \in Nat : \A j, w :
            /\ j = LazyId(vs, i, a, seconds) /\ (j \notin DOMAIN vs => h[j] = 0)
            /\ w = LazyVesting(vs, i, a, seconds, y, now)
            => h[j] \in Int /\ Kept(Object(w), now, h[j]) /\ j[1] = a
      BY <2>2, LazyKeeps
    <3> QED BY ONLY <2>1, <2>2, <2>3, <3>1, Zenon
  <2> QED BY <2>4 DEF n, v
<1> HIDE DEF id, lazy, paid
<1>3. ASSUME NEW i \in DOMAIN ws PROVE h[i] \in Int /\ Kept(Object(ws[i]), now, h[i])
  <2>1. CASE i[1] \in paid /\ i = id(i[1])
    <3>1. ws[i] = lazy(i[1])
      BY <1>1, <2>1
    <3> QED BY <1>2, <2>1, <3>1
  <2>2. CASE ~(i[1] \in paid /\ i = id(i[1]))
    <3>1. ws[i] = vs[i]
      BY <1>1, <2>2
    <3>2. i \in DOMAIN vs
      BY <1>1, <1>2, <2>2
    <3> QED BY <3>1, <3>2 DEF KeptAll
  <2> QED BY <2>1, <2>2
<1> QED BY <1>3 DEF KeptAll

(***************************************************************************)
(* deposit_miner_pay: all balances keep their histories.                   *)
(***************************************************************************)
LEMMA PayMinerKeeps ==
  ASSUME NEW vs, VestingsTyped(vs), NEW now \in Nat, NEW h, KeptAll(vs, h, now),
         NEW seconds \in Nat, NEW amount \in Nat, NEW m \in Miners,
         miner[m].pay_vb \in DOMAIN vs \cup {NoVesting},
         NEW ws, ws = PayMiner(vs, m, amount, seconds, now),
         \A id \in DOMAIN ws : id \notin DOMAIN vs => h[id] = 0
  PROVE  KeptAll(ws, h, now)
<1> DEFINE owner == MinerAccount[m]
           pb == miner[m].pay_vb
           n == LazyId(vs, pb, owner, seconds)
           v == LazyVesting(vs, pb, owner, seconds, amount, now)
<1>1. CASE amount = 0
  BY <1>1 DEF PayMiner
<1>2. CASE amount # 0
  <2>1. ws = [i \in DOMAIN vs \cup {n} |-> IF i = n THEN v ELSE vs[i]]
    BY <1>2 DEF PayMiner, WithVesting
  <2>2. owner \in Accounts /\ pb \in DOMAIN vs \cup {NoVesting}
    BY SupplyAssumption
  <2> HIDE DEF owner, pb
  <2>3. n = LazyId(vs, pb, owner, seconds) /\ v = LazyVesting(vs, pb, owner, seconds, amount, now)
    OBVIOUS
  <2> HIDE DEF n, v
  <2>4. n \notin DOMAIN vs => h[n] = 0
    BY <2>1
  <2>5. h[n] \in Int /\ Kept(Object(v), now, h[n])
    BY ONLY VestingsTyped(vs), now \in Nat, KeptAll(vs, h, now), seconds \in Nat, amount \in Nat,
            <2>2, <2>3, <2>4, LazyKeeps, ZenonT(30)
  <2> QED BY <2>1, <2>5 DEF KeptAll
<1> QED BY <1>1, <1>2

----------------------------------------------------------------------------
(* Votes and histories together. *)

\* Between the two forks the code does not compare what the voters get with
\* the pay: here it is within it.
FirstRewardCovered ==
  LET num == dgp.head_block_number + 1
      pay == Pay(dgp, gpo.parameters, num)
  IN  num \in VoteRewardFork .. VoteRewardCheck - 1 =>
        \A m \in Miners : Total(VoterPay(num, m, pay), Accounts) <= pay

\* The inductive invariant of the promises to voters and owners.
PromisesInv ==
  /\ SupplyInv
  /\ PaysVotes(balance, miner)
  /\ DOMAIN held = DOMAIN vesting /\ KeptAll(vesting, held, dgp.time)

(***************************************************************************)
(* What is never negative is not so in all, and a part is no more than the *)
(* whole.                                                                  *)
(***************************************************************************)
LEMMA TotalPart ==
  ASSUME NEW f, NEW S, IsFiniteSet(S), \A x \in S : f[x] \in Nat, NEW T \in SUBSET S
  PROVE  Total(f, S) \in Nat /\ Total(f, T) \in Nat /\ Total(f, T) <= Total(f, S)
<1> DEFINE zero == [x \in S |-> 0]
           U == S \ T
<1>1. IsFiniteSet(T) /\ IsFiniteSet(U) /\ T \cap U = {} /\ S = T \cup U
  BY FS_Subset
<1>2. \A R \in SUBSET S : Total(f, R) \in Nat
  <2> TAKE R \in SUBSET S
  <2>1. IsFiniteSet(R)
    BY FS_Subset
  <2>2. Total(zero, R) = 0
    BY <2>1, TotalZero
  <2>3. \A x \in R : zero[x] \in Int /\ f[x] \in Int /\ zero[x] <= f[x]
    OBVIOUS
  <2> HIDE DEF zero
  <2>4. Total(zero, R) <= Total(f, R)
    BY <2>1, <2>3, TotalOrder
  <2>5. Total(f, R) \in Int
    BY <2>1, <2>3, TotalStep
  <2> QED BY <2>2, <2>4, <2>5
<1>3. Total(f, T \cup U) = Total(f, T) + Total(f, U)
  <2>1. \A x \in T \cup U : f[x] \in Int
    BY <1>1
  <2> HIDE DEF U
  <2> QED BY <1>1, <2>1, TotalUnion
<1>4. Total(f, T) \in Nat /\ Total(f, U) \in Nat /\ Total(f, S) \in Nat
  BY <1>2
<1>5. Total(f, S) = Total(f, T) + Total(f, U)
  BY <1>1, <1>3
<1> QED BY <1>4, <1>5

(***************************************************************************)
(* Of a pay that is there, the voters get no less than nothing, and by the *)
(* second rule no more than their part.                                    *)
(***************************************************************************)
LEMMA VotersGetTheirPart ==
  ASSUME BalancesTyped(balance), PaysVotes(balance, miner), NEW num \in Nat, NEW m \in Miners,
         NEW pay \in Nat, NEW f, f = VoterPay(num, m, pay)
  PROVE  /\ VotersReward(pay) \in Nat /\ VotersReward(pay) <= pay
         /\ \A a \in Accounts : f[a] \in Nat
         /\ num < VoteRewardFork => Total(f, Accounts) = 0
         /\ num >= VoteRewardCheck => Total(f, Accounts) <= VotersReward(pay)
<1> DEFINE r == VotersReward(pay)
           q == miner[m].total_votes
           V == Voters(num, m)
           p == Powers(balance)
<1>1. r \in Nat /\ r <= pay
  BY DEF VotersReward
<1>2. q \in Nat /\ Total(p, VotersOf(balance, m)) <= q
  BY DEF PaysVotes
<1>3. VoteRewardFork \in Nat /\ VoteRewardCheck \in Nat /\ IsFiniteSet(Accounts)
  BY SupplyAssumption
<1>4. \A a \in Accounts : VotePower(balance, a) \in Nat /\ (a \in DOMAIN balance => VotePower(balance, a) = p[a])
  BY DEF VotePower, PaysVotes, Powers
<1>5. \A a \in Accounts : f[a] = IF a \in V /\ q > 0 THEN (r * VotePower(balance, a)) \div q ELSE 0
  BY DEF VoterPay
<1>6. num < VoteRewardFork => V = {}
  BY <1>3 DEF Voters
<1>7. num >= VoteRewardCheck /\ ~(num < VoteRewardFork) => V = VotersOf(balance, m)
  BY <1>3 DEF Voters, VotersOf
<1>8. VotersOf(balance, m) \subseteq DOMAIN balance /\ DOMAIN balance \subseteq Accounts
  BY DEF VotersOf, BalancesTyped
<1> HIDE DEF r, q, V, p
<1>9. ASSUME NEW a \in Accounts PROVE f[a] \in Nat
  <2> DEFINE v == VotePower(balance, a)
             w == r * v
  <2>1. w \in Nat
    BY <1>1, <1>4
  <2>2. f[a] = IF a \in V /\ q > 0 THEN w \div q ELSE 0
    BY <1>5
  <2> HIDE DEF w
  <2>3. q > 0 => w \div q \in Nat
    BY <1>2, <2>1
  <2> QED BY <2>2, <2>3
<1>10. (V = {} \/ q = 0) => Total(f, Accounts) = 0
  <2>1. ASSUME V = {} \/ q = 0 PROVE \A a \in Accounts : f[a] = 0
    BY <1>5, <2>1
  <2> QED BY <1>3, <2>1, TotalZero
<1>11. ASSUME V = VotersOf(balance, m), q > 0 PROVE Total(f, Accounts) <= r
  <2> DEFINE U == Accounts \ V
  <2>1. V \cap U = {} /\ Accounts = V \cup U /\ IsFiniteSet(V) /\ IsFiniteSet(U)
    BY <1>3, <1>8, <1>11, FS_Subset
  <2>2. Total(f, Accounts) = Total(f, V) + Total(f, U)
    <3>1. \A x \in V \cup U : f[x] \in Int
      BY <1>9, <2>1
    <3> HIDE DEF U
    <3>2. Total(f, V \cup U) = Total(f, V) + Total(f, U)
      BY <2>1, <3>1, TotalUnion
    <3> QED BY <2>1, <3>2
  <2>3. Total(f, U) = 0
    <3>1. \A x \in U : f[x] = 0
      BY <1>5
    <3> HIDE DEF U
    <3> QED BY <2>1, <3>1, TotalZero
  <2>4. Total(f, V) <= r
    <3>1. \A x \in V : p[x] \in Nat /\ f[x] = (r * p[x]) \div q
      BY <1>4, <1>5, <1>8, <1>11
    <3>2. q \in Nat \ {0} /\ Total(p, V) <= q
      BY <1>2, <1>11
    <3> QED BY <1>1, <2>1, <3>1, <3>2, SharesWithin
  <2>5. Total(f, V) \in Int
    BY <1>9, <2>1, TotalStep
  <2> QED BY <1>1, <2>2, <2>3, <2>4, <2>5
<1>12. num >= VoteRewardCheck => Total(f, Accounts) <= r
  BY <1>1, <1>2, <1>6, <1>7, <1>10, <1>11
<1> QED BY <1>1, <1>6, <1>9, <1>10, <1>12 DEF r

(***************************************************************************)
(* The pay of the next block is there.                                     *)
(***************************************************************************)
LEMMA PayIsNat ==
  ASSUME SupplyInv
  PROVE  LET num == dgp.head_block_number + 1
         IN  num \in Nat /\ Pay(dgp, gpo.parameters, num) \in Nat
<1> DEFINE num == dgp.head_block_number + 1
<1>1. DgpTyped(dgp) /\ GpoTyped(gpo)
  BY DEF SupplyInv, Typed
<1>2. num \in Nat
  BY <1>1 DEF DgpTyped
<1> HIDE DEF num
<1>3. BlockReward(num) \in Nat /\ Max({ShareOfFees(dgp, gpo.parameters), 0}) \in Nat
  BY <1>1, <1>2, RewardIsNat, FeesInPay
<1>4. Pay(dgp, gpo.parameters, num) \in Nat
  BY <1>3 DEF Pay
<1> QED BY <1>2, <1>4 DEF num

(***************************************************************************)
(* update_signing_miner pays into balances that keep their histories.      *)
(***************************************************************************)
LEMMA PaymentsKeep ==
  ASSUME PromisesInv, NEW m \in Miners, NEW ts \in Nat, dgp.time <= ts,
         NEW seconds \in Nat, NEW num \in Nat, NEW amount \in Nat,
         NEW pay, pay = VoterPay(num, m, amount),
         NEW rest \in Nat, rest = amount - Total(pay, Accounts),
         NEW vs1, vs1 = PayAccounts(vesting, pay, seconds, ts),
         NEW vs2, vs2 = PayMiner(vs1, m, rest, seconds, ts),
         NEW h, \A id \in DOMAIN vs2 :
                  h[id] = IF id \in DOMAIN vesting
                          THEN held[id] + vesting[id].balance * (ts - dgp.time) ELSE 0
  PROVE  KeptAll(vs2, h, ts)
<1>1. /\ Typed /\ BalancesTyped(balance) /\ PaysVotes(balance, miner) /\ VestingsTyped(vesting)
      /\ AccountsTyped(account, DOMAIN vesting) /\ MinersTyped(miner, DOMAIN vesting)
      /\ KeptAll(vesting, held, dgp.time) /\ dgp.time \in Nat
  BY DEF PromisesInv, SupplyInv, Typed, DgpTyped
<1>2. \A a \in Accounts : pay[a] \in Nat
  BY <1>1, VotersGetTheirPart
<1>3. \A a \in Accounts : account[a].cashback_vb \in DOMAIN vesting \cup {NoVesting}
  BY <1>1 DEF AccountsTyped
<1>4. VestingsTyped(vs1) /\ DOMAIN vesting \subseteq DOMAIN vs1 /\ InBalances(vs1) \in Int
  <2>1. pay \in [Accounts -> Int]
    BY <1>1, amount \in Int, VoterPayTyped
  <2>2. /\ VestingsTyped(vs1) /\ DOMAIN vesting \subseteq DOMAIN vs1 /\ InBalances(vesting) \in Int
        /\ InBalances(vs1) = InBalances(vesting) + Total(pay, Accounts)
    BY ONLY <1>1, <1>3, <2>1, vs1 = PayAccounts(vesting, pay, seconds, ts), PayAccountsAdds
  <2>3. Total(pay, Accounts) \in Int
    BY ONLY <2>1, SupplyAssumption, TotalStep
  <2> QED BY ONLY <2>2, <2>3
<1>5. miner[m].pay_vb \in DOMAIN vs1 \cup {NoVesting} /\ MinersTyped(miner, DOMAIN vs1)
  <2>1. miner[m].pay_vb \in DOMAIN vesting \cup {NoVesting}
    BY <1>1 DEF MinersTyped
  <2> QED BY <1>1, <1>4, <2>1, MoreVestings
<1>6. DOMAIN vs1 \subseteq DOMAIN vs2
  BY ONLY <1>4, <1>5, m \in Miners, rest \in Nat, rest \in Int,
          vs2 = PayMiner(vs1, m, rest, seconds, ts), PayMinerAdds
<1>7. KeptAll(vesting, h, ts)
  <2>1. ASSUME NEW id \in DOMAIN vesting
        PROVE  h[id] \in Int /\ Kept(Object(vesting[id]), ts, h[id])
    <3> DEFINE o == Object(vesting[id])
               s == dgp.time
               g == held[id]
    <3>1. id \in DOMAIN vs2 /\ h[id] = g + o.balance * (ts - s)
      BY <1>4, <1>6 DEF Object
    <3>2. g \in Int /\ Kept(o, s, g) /\ s \in Nat /\ s <= ts
      BY <1>1 DEF KeptAll
    <3> HIDE DEF o, s, g
    <3>3. Kept(o, ts, g + o.balance * (ts - s)) /\ g + o.balance * (ts - s) \in Int
      BY <3>2, PassKeeps
    <3> QED BY <3>1, <3>3 DEF o
  <2> QED BY <2>1 DEF KeptAll
<1>8. KeptAll(vs1, h, ts)
  <2>1. \A id \in DOMAIN vs1 : id \notin DOMAIN vesting => h[id] = 0
    BY <1>6
  <2> QED BY ONLY <1>1, <1>2, <1>3, <1>7, <2>1, ts \in Nat, seconds \in Nat,
                  vs1 = PayAccounts(vesting, pay, seconds, ts), PayAccountsKeeps
<1>9. \A id \in DOMAIN vs2 : id \notin DOMAIN vs1 => h[id] = 0
  BY <1>4
<1> QED BY ONLY <1>4, <1>5, <1>8, <1>9, ts \in Nat, seconds \in Nat, rest \in Nat, m \in Miners,
                vs2 = PayMiner(vs1, m, rest, seconds, ts), PayMinerKeeps

(***************************************************************************)
(* vote_tally_helper: whoever is paid for the vote for a miner is among    *)
(* those whose stake is in the votes of that miner.                        *)
(***************************************************************************)
LEMMA VotesAreCounted ==
  ASSUME NEW acc, NEW b, NEW vs, AccountsTyped(acc, DOMAIN vs), BalancesTyped(b), VestingsTyped(vs),
         \A a \in DOMAIN b : b[a].balance \in Nat, \A id \in DOMAIN vs : vs[id].balance \in Nat,
         NEW mnr, MinersTyped(mnr, DOMAIN vs),
         NEW c, c = RecordVotes(acc, b, vs),
         NEW n, n = [k \in Miners |-> [mnr[k] EXCEPT !.total_votes = Tally(acc, b, vs, k)]]
  PROVE  PaysVotes(c, n)
<1> DEFINE s(a) == Stake(acc, b, vs, a)
           w(a) == VotedMiner(Opinion(acc, a))
           f == [a \in Accounts |-> s(a)]
           A(k) == {a \in Accounts : k \in Opinion(acc, a)}
<1>1. IsFiniteSet(Accounts) /\ Miners \subseteq Nat \ {0}
  BY SupplyAssumption
<1>2. ASSUME NEW a \in Accounts PROVE s(a) \in Nat
  <2>1. BalanceOf(b, a) \in Nat
    BY DEF BalanceOf
  <2> DEFINE cb == acc[a].cashback_vb
  <2>2. cb \in DOMAIN vs \cup {NoVesting}
    BY DEF AccountsTyped
  <2>3. cb # NoVesting => vs[cb].balance \in Nat
    BY <2>2
  <2>4. s(a) = BalanceOf(b, a) + IF cb = NoVesting THEN 0 ELSE vs[cb].balance
    BY DEF Stake
  <2> HIDE DEF cb, s
  <2> QED BY <2>1, <2>3, <2>4
<1>3. /\ DOMAIN c = DOMAIN b /\ DOMAIN b \subseteq Accounts
      /\ \A a \in DOMAIN b : c[a] = [b[a] EXCEPT !.vote_power = s(a), !.casted_vote = w(a)]
  BY DEF RecordVotes, BalancesTyped
<1>4. ASSUME NEW a \in DOMAIN b
      PROVE  c[a].balance \in Nat /\ c[a].vote_power = s(a) /\ c[a].casted_vote = w(a)
  <2> DEFINE r == b[a]
             x == s(a)
             y == w(a)
             e == c[a]
             u == r.balance
             p == r.vote_power
             q == r.casted_vote
             k == [r EXCEPT !.vote_power = x]
  <2>1. r = [balance |-> u, vote_power |-> p, casted_vote |-> q] /\ u \in Nat
    BY DEF BalancesTyped, IsBalance
  <2>2. e = [r EXCEPT !.vote_power = x, !.casted_vote = y]
    BY <1>3
  <2> HIDE DEF r, x, y, e, u, p, q
  <2>3. k = [balance |-> u, vote_power |-> x, casted_vote |-> q]
    BY <2>1
  <2>4. e = [k EXCEPT !.casted_vote = y]
    BY <2>2
  <2> HIDE DEF k
  <2>5. e = [balance |-> u, vote_power |-> x, casted_vote |-> y]
    BY <2>3, <2>4
  <2> QED BY <2>1, <2>5 DEF e, x, y
<1>5. ASSUME NEW a \in Accounts PROVE Opinion(acc, a) \in SUBSET Miners
  <2>1. acc[a].voting_account \in Accounts
    BY DEF AccountsTyped
  <2> QED BY <2>1 DEF Opinion, AccountsTyped
<1> HIDE DEF s
<1>6. ASSUME NEW a \in Accounts, NEW k \in Miners, w(a) = k PROVE a \in A(k)
  <2> DEFINE O == Opinion(acc, a)
  <2>1. O \in SUBSET Nat /\ k # NoVote
    BY <1>1, <1>5 DEF NoVote
  <2>2. O # {} /\ Min(O) = k
    BY <1>6, <2>1 DEF VotedMiner
  <2> HIDE DEF O
  <2>3. k \in O
    BY <2>1, <2>2, MinIs
  <2> QED BY <2>3 DEF O
<1> HIDE DEF w
<1>7. ASSUME NEW k \in Miners
      PROVE  /\ n[k].total_votes \in Nat
             /\ Total(Powers(c), VotersOf(c, k)) <= n[k].total_votes
  <2> DEFINE V == VotersOf(c, k)
             W == A(k)
             g == Powers(c)
  <2>1. n[k].total_votes = Total(f, W)
    <3> DEFINE t == Tally(acc, b, vs, k)
    <3>1. t = Total(f, W)
      BY DEF Tally, s
    <3>2. n[k] = [mnr[k] EXCEPT !.total_votes = t]
      OBVIOUS
    <3>3. mnr[k] \in [pay_vb : DOMAIN vs \cup {NoVesting}, total_votes : Int]
      BY DEF MinersTyped
    <3> HIDE DEF t
    <3>4. n[k].total_votes = t
      BY <3>2, <3>3
    <3> QED BY <3>1, <3>4
  <2>2. IsFiniteSet(W) /\ V \in SUBSET W /\ IsFiniteSet(V) /\ V \subseteq DOMAIN b
    <3>1. IsFiniteSet(W) /\ W \subseteq Accounts
      BY <1>1, FS_Subset
    <3>2. V \subseteq DOMAIN b /\ V \subseteq W
      BY <1>3, <1>4, <1>6 DEF VotersOf
    <3> QED BY <3>1, <3>2, FS_Subset
  <2>3. \A a \in W : f[a] \in Nat
    BY <1>2
  <2>4. \A a \in V : f[a] \in Int /\ g[a] = f[a]
    <3> TAKE a \in V
    <3>1. a \in DOMAIN b /\ a \in DOMAIN c /\ a \in Accounts
      BY <1>3, <2>2
    <3>2. f[a] = s(a) /\ g[a] = c[a].vote_power
      BY <3>1 DEF Powers
    <3> HIDE DEF f, g, V
    <3> QED BY <1>2, <1>4, <3>1, <3>2
  <2> HIDE DEF V, W, f, g
  <2>5. Total(f, W) \in Nat /\ Total(f, V) <= Total(f, W)
    BY <2>2, <2>3, TotalPart
  <2>6. Total(g, V) = Total(f, V)
    BY <2>2, <2>4, TotalSame
  <2> QED BY <2>1, <2>5, <2>6 DEF V, g
<1>8. \A a \in DOMAIN c : c[a].balance \in Nat /\ c[a].vote_power \in Nat
  BY <1>2, <1>3, <1>4
<1> QED BY <1>7, <1>8 DEF PaysVotes

(***************************************************************************)
(* What kept histories say of the balances.                                *)
(***************************************************************************)
LEMMA KeptBalances ==
  ASSUME NEW vs, NEW h, NEW t, KeptAll(vs, h, t)
  PROVE  \A id \in DOMAIN vs : vs[id].balance \in Nat
<1> SUFFICES ASSUME NEW id \in DOMAIN vs PROVE vs[id].balance \in Nat
  OBVIOUS
<1> DEFINE o == Object(vs[id])
<1>1. o \in Objects
  BY DEF KeptAll, Kept
<1>2. o.balance = vs[id].balance
  BY DEF Object
<1> HIDE DEF o
<1> QED BY <1>1, <1>2, PolicyOfKind

(***************************************************************************)
(* A new balance to be paid to changes no votes.                           *)
(***************************************************************************)
LEMMA LinkMinerPaysVotes ==
  ASSUME NEW b, PaysVotes(b, miner), NEW ids, MinersTyped(miner, ids),
         NEW vs, NEW m \in Miners, NEW amount, NEW seconds
  PROVE  PaysVotes(b, LinkMiner(vs, m, amount, seconds))
<1> DEFINE n == LazyId(vs, miner[m].pay_vb, MinerAccount[m], seconds)
           mnr == LinkMiner(vs, m, amount, seconds)
<1>1. mnr = miner \/ mnr = [miner EXCEPT ![m].pay_vb = n]
  BY DEF LinkMiner
<1> HIDE DEF n, mnr
<1>2. \A k \in Miners : mnr[k].total_votes = miner[k].total_votes
  BY <1>1 DEF MinersTyped
<1>3. PaysVotes(b, mnr)
  BY <1>2 DEF PaysVotes
<1> QED BY <1>3 DEF mnr

(***************************************************************************)
(* _apply_block pays owners and voters what they are promised.             *)
(***************************************************************************)
LEMMA BlockKeepsPromises ==
  ASSUME PromisesInv, FirstRewardCovered, SupplyInv',
         NEW m \in Miners, NEW ts \in Times, ApplyBlock(m, ts)
  PROVE  PromisesInv'
<1> DEFINE p       == gpo.parameters
           num     == dgp.head_block_number + 1
           seconds == p.miner_pay_vesting_seconds
           fees    == Max({ShareOfFees(dgp, p), 0})
           reward  == BlockReward(num)
           amount  == fees + reward
           pay     == VoterPay(num, m, amount)
           voted   == Total(pay, Accounts)
           rest    == fees + reward - voted
           vs1     == PayAccounts(vesting, pay, seconds, ts)
           vs2     == PayMiner(vs1, m, rest, seconds, ts)
           acc     == LinkAccounts(vesting, pay, seconds)
           mnr     == LinkMiner(vs1, m, rest, seconds)
           maint   == dgp.next_maintenance_time <= ts
           tallied == [n \in Miners |-> [mnr[n] EXCEPT !.total_votes = Tally(acc, balance, vs2, n)]]
<1>1. /\ vesting' = vs2 /\ dgp.time < ts
      /\ num >= VoteRewardCheck => voted <= VotersReward(amount)
      /\ held' = [id \in DOMAIN vs2 |->
                    IF id \in DOMAIN vesting
                    THEN held[id] + vesting[id].balance * (ts - dgp.time) ELSE 0]
      /\ maint => miner' = tallied /\ balance' = RecordVotes(acc, balance, vs2)
      /\ ~maint => miner' = mnr /\ balance' = balance
  BY DEF ApplyBlock
<1>2. /\ SupplyInv /\ Typed /\ BalancesTyped(balance) /\ VestingsTyped(vesting)
      /\ MinersTyped(miner, DOMAIN vesting)
      /\ PaysVotes(balance, miner) /\ KeptAll(vesting, held, dgp.time)
      /\ dgp.time \in Nat /\ GpoTyped(gpo)
  BY DEF PromisesInv, SupplyInv, Typed, DgpTyped
<1>3. num \in Nat /\ amount \in Nat /\ amount = Pay(dgp, p, num)
  <2>1. num \in Nat /\ Pay(dgp, p, num) \in Nat
    BY <1>2, PayIsNat
  <2>2. amount = Pay(dgp, p, num)
    BY DEF Pay
  <2> QED BY <2>1, <2>2
<1>4. dgp'.time = ts /\ ts \in Nat
  BY <1>2, BlockTakesShare
<1>5. seconds \in Nat
  BY <1>2, SupplyAssumption DEF GpoTyped
<1>6. fees \in Int /\ reward \in Int
  <2>1. fees \in Nat
    BY <1>2, FeesInPay DEF Typed
  <2>2. reward \in Nat
    <3> HIDE DEF num
    <3> QED BY <1>3, RewardIsNat
  <2> QED BY <2>1, <2>2
<1>7. voted <= amount /\ voted \in Nat
  <2>1. /\ VotersReward(amount) \in Nat /\ VotersReward(amount) <= amount
        /\ \A a \in Accounts : pay[a] \in Nat
        /\ num < VoteRewardFork => voted = 0
    <3> HIDE DEF num, amount
    <3> QED BY <1>2, <1>3, VotersGetTheirPart
  <2>2. voted \in Nat
    <3> HIDE DEF pay
    <3> QED BY <2>1, SupplyAssumption, TotalPart
  <2>3. num \in VoteRewardFork .. VoteRewardCheck - 1 => voted <= amount
    <3>1. num \in VoteRewardFork .. VoteRewardCheck - 1 =>
            Total(VoterPay(num, m, Pay(dgp, p, num)), Accounts) <= Pay(dgp, p, num)
      BY DEF FirstRewardCovered
    <3> HIDE DEF num, amount
    <3> QED BY <1>3, <3>1
  <2>4. VoteRewardFork \in Nat /\ VoteRewardCheck \in Nat
    BY SupplyAssumption
  <2>5. num >= VoteRewardCheck => voted <= VotersReward(amount)
    BY <1>1
  <2> HIDE DEF voted, amount, num
  <2>6. num < VoteRewardFork \/ num \in VoteRewardFork .. VoteRewardCheck - 1 \/ num >= VoteRewardCheck
    BY <1>3, <2>4
  <2> QED BY <1>3, <2>1, <2>2, <2>3, <2>5, <2>6
<1>8. rest = amount - voted /\ rest \in Nat
  <2> HIDE DEF voted, fees, reward
  <2> QED BY <1>3, <1>6, <1>7
<1> HIDE DEF amount, rest
<1>9. /\ VestingsTyped(vs2) /\ AccountsTyped(acc, DOMAIN vs2) /\ MinersTyped(mnr, DOMAIN vs2)
  BY ONLY <1>2, <1>3, <1>8, amount \in Int, m \in Miners, BlockPays
<1> HIDE DEF num
<1>10. KeptAll(vs2, held', ts) /\ DOMAIN held' = DOMAIN vs2
  <2> DEFINE h == held'
             t == dgp.time
  <2>1. /\ DOMAIN h = DOMAIN vs2 /\ t <= ts
        /\ \A id \in DOMAIN vs2 :
             h[id] = IF id \in DOMAIN vesting
                     THEN held[id] + vesting[id].balance * (ts - dgp.time) ELSE 0
    BY <1>1, <1>2, <1>4
  <2> HIDE DEF h, vs2
  <2>2. /\ pay = VoterPay(num, m, amount) /\ rest = amount - Total(pay, Accounts)
        /\ vs1 = PayAccounts(vesting, pay, seconds, ts) /\ vs2 = PayMiner(vs1, m, rest, seconds, ts)
    BY <1>8 DEF vs2
  <2> HIDE DEF pay, vs1, seconds
  <2>3. KeptAll(vs2, h, ts)
    BY <1>3, <1>4, <1>5, <1>8, <2>1, <2>2, PaymentsKeep
  <2> QED BY <2>1, <2>3 DEF h
<1>11. PaysVotes(balance', miner')
  <2>1. CASE maint
    <3>1. \A a \in DOMAIN balance : balance[a].balance \in Nat
      BY <1>2 DEF PaysVotes
    <3> HIDE DEF vs2, acc, mnr
    <3>2. \A id \in DOMAIN vs2 : vs2[id].balance \in Nat
      BY <1>10, KeptBalances
    <3>3. balance' = RecordVotes(acc, balance, vs2) /\ miner' = tallied
      BY <1>1, <2>1
    <3> QED BY <1>2, <1>9, <3>1, <3>2, <3>3, VotesAreCounted
  <2>2. CASE ~maint
    <3>1. balance' = balance /\ miner' = mnr
      BY <1>1, <2>2
    <3>2. PaysVotes(balance, mnr)
      <4> HIDE DEF vs1, seconds
      <4> QED BY <1>2, LinkMinerPaysVotes
    <3> QED BY <3>1, <3>2
  <2> QED BY <2>1, <2>2
<1> QED BY <1>1, <1>4, <1>10, <1>11 DEF PromisesInv

(***************************************************************************)
(* Operations on vesting balances keep their histories.                    *)
(***************************************************************************)
LEMMA VestingsKeepHistories ==
  ASSUME PromisesInv, NEW fee \in Fees, Vestings(fee)
  PROVE  DOMAIN held' = DOMAIN vesting' /\ KeptAll(vesting', held', dgp'.time)
<1> DEFINE t == dgp.time
<1>1. /\ VestingsTyped(vesting) /\ DOMAIN held = DOMAIN vesting /\ KeptAll(vesting, held, t)
      /\ t \in Nat
  BY DEF PromisesInv, SupplyInv, Typed, DgpTyped
<1>2. ASSUME NEW creator \in Accounts, NEW owner \in Accounts, NEW amount \in Amounts,
             NEW i \in Policies, CreateVesting(creator, owner, amount, i, fee)
      PROVE  DOMAIN held' = DOMAIN vesting' /\ KeptAll(vesting', held', dgp'.time)
  <2> DEFINE id == NewVesting(vesting, owner)
             q == InitPolicy(i, amount, t)
             v == [owner |-> owner, balance |-> amount, policy |-> q]
  <2>1. vesting' = WithVesting(vesting, id, v) /\ held' = WithVesting(held, id, 0) /\ dgp' = dgp
    BY <1>2 DEF CreateVesting
  <2>2. amount \in Nat /\ IsInitializer(i)
    BY SupplyAssumption DEF IsInitializer
  <2>3. Kept([balance |-> amount, policy |-> q], t, 0)
    BY <1>1, <2>2, CreateKeeps
  <2> HIDE DEF q, id, t
  <2>4. Object(v) = [balance |-> amount, policy |-> q]
    BY DEF Object
  <2> HIDE DEF v
  <2>5. /\ vesting' = [j \in DOMAIN vesting \cup {id} |-> IF j = id THEN v ELSE vesting[j]]
        /\ held' = [j \in DOMAIN held \cup {id} |-> IF j = id THEN 0 ELSE held[j]]
    BY <2>1 DEF WithVesting
  <2>6. KeptAll(vesting', held', t)
    BY <1>1, <2>3, <2>4, <2>5 DEF KeptAll
  <2> QED BY <1>1, <2>1, <2>5, <2>6 DEF t
<1>3. ASSUME NEW id \in DOMAIN vesting, NEW amount \in Amounts, WithdrawVesting(id, amount, fee)
      PROVE  DOMAIN held' = DOMAIN vesting' /\ KeptAll(vesting', held', dgp'.time)
  <2> DEFINE v == vesting[id]
             w == Withdraw(v, t, amount)
             o == Object(v)
             h == held[id]
             s == amount * AtLeastOne(v.policy.vesting_seconds)
             n == IF v.policy.kind = "cdd" THEN s ELSE 0
  <2>1. /\ amount <= AllowedWithdraw(v, t) /\ vesting' = [vesting EXCEPT ![id] = w]
        /\ held' = IF v.policy.kind = "linear" THEN held ELSE [held EXCEPT ![id] = @ - s]
        /\ dgp' = dgp
    BY <1>3 DEF WithdrawVesting
  <2>2. IsVesting(v, id[1]) /\ h \in Int /\ Kept(o, t, h) /\ vesting = [j \in DOMAIN vesting |-> vesting[j]]
    BY <1>1 DEF VestingsTyped, KeptAll
  <2>3. amount \in Nat \ {0}
    BY SupplyAssumption
  <2>4. /\ Object(w) = Withdraw(o, t, amount) /\ amount <= AllowedWithdraw(o, t)
        /\ o.policy = v.policy
    <3> HIDE DEF v, t
    <3> QED BY <2>1, <2>2, ObjectChanges
  <2>5. Kept(Object(w), t, h - n) /\ n \in Nat
    <3>1. n = IF o.policy.kind = "cdd" THEN amount * AtLeastOne(o.policy.vesting_seconds) ELSE 0
      BY <2>4
    <3> HIDE DEF w, o, n, h, t
    <3>2. Kept(Withdraw(o, t, amount), t, h - n) /\ n \in Nat
      BY <1>1, <2>2, <2>3, <2>4, <3>1, WithdrawKeeps
    <3> QED BY <2>4, <3>2
  <2>6. v.policy.kind = "cdd" \/ v.policy.kind = "linear"
    BY <2>2, <2>4, PolicyOfKind DEF Kept
  <2>7. DOMAIN held' = DOMAIN held /\ held'[id] = h - n /\ \A j \in DOMAIN held : j # id => held'[j] = held[j]
    <3>1. CASE v.policy.kind = "linear"
      <4>1. held' = held /\ n = 0
        BY <2>1, <3>1
      <4> HIDE DEF n
      <4> QED BY <2>2, <4>1
    <3>2. CASE v.policy.kind = "cdd"
      <4>1. held' = [held EXCEPT ![id] = h - s] /\ n = s
        BY <2>1, <3>2
      <4> HIDE DEF n, s, h
      <4> QED BY <1>1, <4>1
    <3> QED BY <2>6, <3>1, <3>2
  <2> HIDE DEF w, n, h, t
  <2>8. h - n \in Int
    BY <2>2, <2>5
  <2>9. DOMAIN vesting' = DOMAIN vesting /\ vesting'[id] = w /\ \A j \in DOMAIN vesting : j # id => vesting'[j] = vesting[j]
    BY <2>1, <2>2
  <2>10. KeptAll(vesting', held', t)
    BY <1>1, <2>5, <2>7, <2>8, <2>9 DEF KeptAll
  <2> QED BY <1>1, <2>1, <2>7, <2>9, <2>10 DEF t
<1> QED BY <1>2, <1>3 DEF Vestings

(***************************************************************************)
(* Every step keeps the promises.                                          *)
(***************************************************************************)
LEMMA StepKeepsPromises ==
  ASSUME PromisesInv, FirstRewardCovered, SupplyInv', [Next]_vars
  PROVE  PromisesInv'
<1>1. /\ SupplyInv /\ PaysVotes(balance, miner)
      /\ DOMAIN held = DOMAIN vesting /\ KeptAll(vesting, held, dgp.time)
  BY DEF PromisesInv
<1>2. ASSUME NEW fee \in Fees, Transfers(fee) \/ Updates(fee) \/ Vestings(fee) \/ Hidings(fee)
      PROVE  PromisesInv'
  <2>1. PaysVotes(balance', miner')
    BY <1>1, <1>2, OperationPaysVotes
  <2>2. DOMAIN held' = DOMAIN vesting' /\ KeptAll(vesting', held', dgp'.time)
    <3>1. CASE Vestings(fee)
      BY <3>1, VestingsKeepHistories
    <3>2. CASE Transfers(fee) \/ Updates(fee) \/ Hidings(fee)
      <4>1. UNCHANGED <<vesting, held, dgp>>
        <5>1. Transfers(fee) => UNCHANGED <<vesting, held, dgp>>
          BY DEF Transfers, Transfer
        <5>2. Updates(fee) => UNCHANGED <<vesting, held, dgp>>
          BY DEF Updates, UpdateAccount
        <5>3. Hidings(fee) => UNCHANGED <<vesting, held, dgp>>
          BY DEF Hidings, TransferToBlind, TransferToConfidential, TransferFromBlind,
                 BlindTransfer, TransferFromConfidential
        <5> QED BY <3>2, <5>1, <5>2, <5>3
      <4> QED BY <1>1, <4>1
    <3> QED BY <1>2, <3>1, <3>2
  <2> QED BY <2>1, <2>2 DEF PromisesInv
<1>3. ASSUME NEW p \in Parameters, UpdateGlobalParameters(p) PROVE PromisesInv'
  BY <1>1, <1>3 DEF UpdateGlobalParameters, PromisesInv
<1>4. ASSUME NEW m \in Miners, NEW ts \in Times, ApplyBlock(m, ts) PROVE PromisesInv'
  BY <1>4, BlockKeepsPromises
<1>5. CASE UNCHANGED vars
  BY <1>1, <1>5 DEF vars, objects, PromisesInv
<1> QED BY <1>2, <1>3, <1>4, <1>5 DEF Next

(***************************************************************************)
(* At genesis nothing is promised.                                         *)
(***************************************************************************)
LEMMA InitPromises == Init => PromisesInv
<1> SUFFICES ASSUME Init PROVE PromisesInv
  OBVIOUS
<1>1. SupplyInv
  BY InitSupplyInv
<1>2. /\ balance = [a \in DOMAIN Balances |->
                      [balance |-> Balances[a], vote_power |-> 0, casted_vote |-> NoVote]]
      /\ miner = [m \in Miners |-> [pay_vb |-> NoVesting, total_votes |-> 0]]
      /\ vesting = <<>> /\ held = <<>>
  BY DEF Init
<1>3. DOMAIN vesting = {} /\ DOMAIN held = {}
  <2>1. DOMAIN <<>> = 1 .. 0 /\ 1 .. 0 = {}
    OBVIOUS
  <2> QED BY <1>2, <2>1
<1>4. KeptAll(vesting, held, dgp.time)
  BY <1>3 DEF KeptAll
<1>5. \A a \in DOMAIN balance : balance[a].balance \in Nat /\ balance[a].vote_power \in Nat
  BY <1>2, SupplyAssumption
<1>6. ASSUME NEW m \in Miners
      PROVE  /\ miner[m].total_votes \in Nat
             /\ Total(Powers(balance), VotersOf(balance, m)) <= miner[m].total_votes
  <2>1. m # NoVote
    BY SupplyAssumption DEF NoVote
  <2>2. VotersOf(balance, m) = {}
    BY <1>2, <2>1 DEF VotersOf
  <2> DEFINE p == Powers(balance)
  <2>3. Total(p, {}) = 0
    BY FS_EmptySet, TotalZero
  <2> HIDE DEF p
  <2>4. miner[m].total_votes = 0
    BY <1>2
  <2> QED BY <2>2, <2>3, <2>4 DEF p
<1>7. PaysVotes(balance, miner)
  BY <1>5, <1>6 DEF PaysVotes
<1> QED BY <1>1, <1>3, <1>4, <1>7 DEF PromisesInv

(***************************************************************************)
(* The powers that share a reward stay within the votes of their miner,    *)
(* and vesting balances keep their histories, through all operations,      *)
(* payments and maintenances. Blocks between the two forks of voters'      *)
(* rewards, in which update_signing_miner does not compare what it         *)
(* deposits with the pay, are assumed not to have paid more than it;       *)
(* without such blocks nothing is assumed.                                 *)
(***************************************************************************)
THEOREM PromisesInvariant == Spec /\ []FirstRewardCovered => []PromisesInv
<1>1. PromisesInv /\ FirstRewardCovered /\ SupplyInv' /\ [Next]_vars => PromisesInv'
  BY StepKeepsPromises
<1> QED BY <1>1, InitPromises, SupplyInvariant, PTL DEF Spec

(***************************************************************************)
(* The assertion of update_signing_miner on what voters get cannot keep a  *)
(* block from being applied.                                               *)
(***************************************************************************)
THEOREM VotersStayWithinReward == Spec /\ []FirstRewardCovered => []VotersWithinReward
<1>1. PromisesInv => VotersWithinReward
  <2> SUFFICES ASSUME PromisesInv PROVE VotersWithinReward
    OBVIOUS
  <2> DEFINE num == dgp.head_block_number + 1
             pay == Pay(dgp, gpo.parameters, num)
  <2>1. SupplyInv /\ BalancesTyped(balance) /\ PaysVotes(balance, miner)
    BY DEF PromisesInv, SupplyInv, Typed
  <2>2. num \in Nat /\ pay \in Nat
    BY <2>1, PayIsNat
  <2>3. ASSUME num >= VoteRewardCheck, NEW m \in Miners
        PROVE  Total(VoterPay(num, m, pay), Accounts) <= VotersReward(pay)
    <3> HIDE DEF num, pay
    <3> QED BY <2>1, <2>2, <2>3, VotersGetTheirPart
  <2> QED BY <2>3 DEF VotersWithinReward
<1> QED BY <1>1, PromisesInvariant, PTL

(***************************************************************************)
(* The assertions of both policies hold for every vesting balance of the   *)
(* chain at every later time, and what counts as coin age was held.        *)
(***************************************************************************)
THEOREM VestingsAreKept == Spec /\ []FirstRewardCovered => []VestingKept
<1>1. PromisesInv => VestingKept
  <2> SUFFICES ASSUME PromisesInv, NEW id \in DOMAIN vesting
               PROVE  Promise(id)!WithdrawBounded /\ Promise(id)!EarnedByHolding
    BY DEF VestingKept
  <2> DEFINE o == Object(vesting[id])
             h == held[id]
             s == dgp.time
  <2>1. h \in Int /\ Kept(o, s, h) /\ s \in Nat /\ DOMAIN held = DOMAIN vesting
    BY DEF PromisesInv, KeptAll, SupplyInv, Typed, DgpTyped
  <2>2. o \in Objects /\ o.balance \in Nat
    BY <2>1, PolicyOfKind DEF Kept
  <2>3. ASSUME NEW t \in s .. MaxTime PROVE AllowedWithdraw(o, t) \in 0 .. o.balance
    <3> HIDE DEF o, h, s
    <3>1. t \in Nat /\ s <= t
      BY <2>1
    <3>2. Kept(o, t, h + o.balance * (t - s))
      BY <2>1, <3>1, PassKeeps
    <3>3. CASE o.policy.kind = "cdd"
      BY <2>2, <3>1, <3>2, <3>3, CddIsBounded DEF Kept, AllowedWithdraw
    <3>4. CASE o.policy.kind = "linear"
      BY <2>2, <3>1, <3>2, <3>4, LinearIsBounded DEF Kept, AllowedWithdraw
    <3> QED BY <2>2, <3>3, <3>4, PolicyOfKind
  <2>4. o.policy.kind = "cdd" => CoinSecondsEarned(o.policy, o.balance, s) <= h
    BY <2>1 DEF Kept
  <2>5. (IF id \in DOMAIN vesting
         THEN [balance |-> vesting[id].balance, policy |-> vesting[id].policy]
         ELSE NoVesting) = o
    BY DEF Object
  <2>6. (IF id \in DOMAIN held THEN held[id] ELSE 0) = h
    BY <2>1
  <2>8. ASSUME NEW t \in Int
        PROVE  /\ Promise(id)!AllowedWithdraw(o, t) = AllowedWithdraw(o, t)
               /\ Promise(id)!CoinSecondsEarned(o.policy, o.balance, t)
                    = CoinSecondsEarned(o.policy, o.balance, t)
    <3> HIDE DEF o
    <3> QED
      BY DEF Promise!AllowedWithdraw, Promise!LinearAllowed, Promise!CddAllowed,
             Promise!CoinSecondsEarned, Promise!TotalVested, Promise!AtLeastOne, Promise!Min,
             Promise!Max, AllowedWithdraw, LinearAllowed, CddAllowed, CoinSecondsEarned,
             TotalVested, AtLeastOne, Min, Max
  <2>9. Promise(id)!WithdrawBounded
    <3> HIDE DEF o
    <3> QED BY <2>1, <2>3, <2>5, <2>8 DEF Promise!WithdrawBounded
  <2>10. Promise(id)!EarnedByHolding
    <3> HIDE DEF o
    <3> QED BY <2>1, <2>4, <2>5, <2>6, <2>8 DEF Promise!EarnedByHolding
  <2> QED BY <2>9, <2>10
<1> QED BY <1>1, PromisesInvariant, PTL

----------------------------------------------------------------------------
(* What VestingBalance promises, of each vesting balance by itself. *)

VestingOf(id) ==
  IF id \in DOMAIN vesting
  THEN [balance |-> vesting[id].balance, policy |-> vesting[id].policy]
  ELSE NoVesting

HeldOf(id) == IF id \in DOMAIN held THEN held[id] ELSE 0

PromiseInv(id) ==
  /\ dgp.time \in Nat /\ HeldOf(id) \in Int
  /\ VestingOf(id) # NoVesting => Kept(VestingOf(id), dgp.time, HeldOf(id))

(***************************************************************************)
(* The operators of Vesting are the same for all promises.                 *)
(***************************************************************************)
LEMMA PromisedOperators ==
  ASSUME NEW id
  PROVE  /\ \A s : Promise(id)!AtLeastOne(s) = AtLeastOne(s)
         /\ \A i, a, t : Promise(id)!InitPolicy(i, a, t) = InitPolicy(i, a, t)
         /\ \A p, b, t : Promise(id)!CoinSecondsEarned(p, b, t) = CoinSecondsEarned(p, b, t)
         /\ \A o, t : Promise(id)!AllowedWithdraw(o, t) = AllowedWithdraw(o, t)
         /\ \A o, t, a : Promise(id)!Deposit(o, t, a) = Deposit(o, t, a)
         /\ \A o, t, a : Promise(id)!Withdraw(o, t, a) = Withdraw(o, t, a)
<1>1. \A s : Promise(id)!AtLeastOne(s) = AtLeastOne(s)
  BY Zenon DEF Promise!AtLeastOne, AtLeastOne, Promise!Max, Max
<1>2. \A i, a, t : Promise(id)!InitPolicy(i, a, t) = InitPolicy(i, a, t)
  BY Zenon DEF Promise!InitPolicy, InitPolicy
<1>3. \A p, b, t : Promise(id)!CoinSecondsEarned(p, b, t) = CoinSecondsEarned(p, b, t)
  <2>1. \A S : Promise(id)!Min(S) = Min(S)
    BY Zenon DEF Promise!Min, Min
  <2>2. ASSUME NEW p, NEW b, NEW t
        PROVE  Promise(id)!CoinSecondsEarned(p, b, t) = CoinSecondsEarned(p, b, t)
    <3> DEFINE S(least) ==
          {p.coin_seconds_earned + b * (t - p.coin_seconds_earned_last_update), b * least}
    <3>1. Promise(id)!CoinSecondsEarned(p, b, t)
            = Promise(id)!Min(S(Promise(id)!AtLeastOne(p.vesting_seconds)))
      BY Zenon DEF Promise!CoinSecondsEarned
    <3>2. CoinSecondsEarned(p, b, t) = Min(S(AtLeastOne(p.vesting_seconds)))
      BY Zenon DEF CoinSecondsEarned
    <3>3. Promise(id)!AtLeastOne(p.vesting_seconds) = AtLeastOne(p.vesting_seconds)
      BY <1>1, Zenon
    <3> HIDE DEF S
    <3> QED BY <2>1, <3>1, <3>2, <3>3, Zenon
  <2> QED BY <2>2
<1>4. \A o, t : Promise(id)!AllowedWithdraw(o, t) = AllowedWithdraw(o, t)
  <2>1. \A p, b, t : Promise(id)!CddAllowed(p, b, t) = CddAllowed(p, b, t)
    BY <1>1, <1>3, Zenon DEF Promise!CddAllowed, CddAllowed
  <2>2. \A p, b, t : Promise(id)!LinearAllowed(p, b, t) = LinearAllowed(p, b, t)
    BY Zenon DEF Promise!LinearAllowed, LinearAllowed, Promise!TotalVested, TotalVested
  <2> QED BY <2>1, <2>2, Zenon DEF Promise!AllowedWithdraw, AllowedWithdraw
<1>5. \A p, b, t : Promise(id)!Updated(p, b, t) = Updated(p, b, t)
  BY <1>3, Zenon DEF Promise!Updated, Updated
<1>6. ASSUME NEW o, NEW t, NEW a
      PROVE  /\ Promise(id)!Deposit(o, t, a) = Deposit(o, t, a)
             /\ Promise(id)!Withdraw(o, t, a) = Withdraw(o, t, a)
  <2>1. /\ Promise(id)!Updated(o.policy, o.balance, t) = Updated(o.policy, o.balance, t)
        /\ Promise(id)!AtLeastOne(Updated(o.policy, o.balance, t).vesting_seconds)
             = AtLeastOne(Updated(o.policy, o.balance, t).vesting_seconds)
    BY <1>1, <1>5, Zenon
  <2>2. Promise(id)!Deposit(o, t, a) = Deposit(o, t, a)
    BY <2>1, SMT DEF Promise!Deposit, Deposit
  <2>3. Promise(id)!Withdraw(o, t, a) = Withdraw(o, t, a)
    BY <2>1, SMT DEF Promise!Withdraw, Withdraw
  <2> QED BY <2>2, <2>3
<1> QED BY <1>1, <1>2, <1>3, <1>4, <1>6

(***************************************************************************)
(* Every step at time t: first the time passes, then the balance changes.  *)
(***************************************************************************)
LEMMA PromiseStep ==
  ASSUME NEW id, PromiseInv(id), [Promise(id)!Next]_(Promise(id)!vars)
  PROVE  PromiseInv(id)'
<1> DEFINE o == VestingOf(id)
           h == HeldOf(id)
           s == dgp.time
<1>1. s \in Nat /\ h \in Int /\ (o # NoVesting => Kept(o, s, h))
  BY DEF PromiseInv
<1>2. CASE UNCHANGED Promise(id)!vars
  <2>1. o' = o /\ h' = h /\ s' = s
    BY <1>2 DEF Promise!vars, VestingOf, HeldOf
  <2> QED BY <1>1, <2>1 DEF PromiseInv
<1>3. CASE Promise(id)!Next
  <2>1. PICK t \in {GenesisTime} \cup Times :
          /\ t >= s
          /\ \/ Promise(id)!Pass(t)
             \/ \E amount \in 1 .. MaxBalance,
                   i \in Policies \cup
                         {[kind |-> "cdd", vesting_seconds |-> p.miner_pay_vesting_seconds,
                           start_claim |-> 0] : p \in Parameters} :
                  Promise(id)!Create(t, amount, i)
             \/ \E amount \in 1 .. MaxBalance :
                  Promise(id)!DepositTo(t, amount) \/ Promise(id)!WithdrawFrom(t, amount)
    BY <1>3 DEF Promise!Next
  <2>2. t \in Nat /\ s <= t
    <3>1. t \in Nat
      BY SupplyAssumption
    <3> QED BY <1>1, <2>1, <3>1, SMT
  <2> DEFINE g == IF o = NoVesting THEN 0 ELSE h + o.balance * (t - s)
  <2>3. Promise(id)!Held(t) = g
    BY DEF Promise!Held, VestingOf, HeldOf
  <2>4. g \in Int /\ (o # NoVesting => Kept(o, t, g))
    <3>1. CASE o = NoVesting
      BY <3>1
    <3>2. CASE o # NoVesting
      BY <1>1, <2>2, <3>2, PassKeeps
    <3> QED BY <3>1, <3>2
  <2> SUFFICES ASSUME NEW q, NEW k \in Int, o' = q, s' = t, h' = k, q # NoVesting => Kept(q, t, k)
               PROVE  PromiseInv(id)'
    <3>1. CASE Promise(id)!Pass(t)
      <4>1. o' = o /\ s' = t /\ h' = g
        BY <2>3, <3>1 DEF Promise!Pass, VestingOf, HeldOf
      <4> QED BY <2>4, <4>1
    <3>2. ASSUME NEW amount \in 1 .. MaxBalance,
                 NEW i \in Policies \cup
                         {[kind |-> "cdd", vesting_seconds |-> p.miner_pay_vesting_seconds,
                           start_claim |-> 0] : p \in Parameters},
                 Promise(id)!Create(t, amount, i)
          PROVE  PromiseInv(id)'
      <4> DEFINE q == [balance |-> amount, policy |-> InitPolicy(i, amount, t)]
      <4>1. o' = q /\ s' = t /\ h' = 0
        BY <3>2, PromisedOperators DEF Promise!Create, VestingOf, HeldOf
      <4>2. amount \in Nat
        BY SupplyAssumption
      <4>3. IsInitializer(i)
        BY SupplyAssumption DEF IsInitializer
      <4>4. Kept(q, t, 0)
        BY <2>2, <4>2, <4>3, CreateKeeps
      <4> QED BY <4>1, <4>4
    <3>3. ASSUME NEW amount \in 1 .. MaxBalance, Promise(id)!DepositTo(t, amount)
          PROVE  PromiseInv(id)'
      <4>1. /\ o # NoVesting /\ o.policy.kind = "cdd"
            /\ o' = Deposit(o, t, amount) /\ s' = t /\ h' = g
        BY <2>3, <3>3, PromisedOperators DEF Promise!DepositTo, VestingOf, HeldOf
      <4>2. amount \in Nat
        BY SupplyAssumption
      <4>3. Kept(Deposit(o, t, amount), t, g)
        BY <2>2, <2>4, <4>1, <4>2, DepositKeeps
      <4> QED BY <2>4, <4>1, <4>3
    <3>4. ASSUME NEW amount \in 1 .. MaxBalance, Promise(id)!WithdrawFrom(t, amount)
          PROVE  PromiseInv(id)'
      <4> DEFINE n == IF o.policy.kind = "cdd"
                      THEN amount * AtLeastOne(o.policy.vesting_seconds) ELSE 0
      <4>1. /\ o # NoVesting /\ amount <= AllowedWithdraw(o, t)
            /\ o' = Withdraw(o, t, amount) /\ s' = t /\ h' = g - n
        BY <2>3, <3>4, PromisedOperators DEF Promise!WithdrawFrom, VestingOf, HeldOf
      <4>2. amount \in Nat \ {0}
        BY SupplyAssumption
      <4>3. Kept(Withdraw(o, t, amount), t, g - n) /\ n \in Nat
        BY <2>2, <2>4, <4>1, <4>2, WithdrawKeeps
      <4> HIDE DEF n
      <4>4. g - n \in Int
        BY <2>4, <4>3, SMT
      <4> QED BY <4>1, <4>3, <4>4
    <3> QED BY <2>1, <3>1, <3>2, <3>3, <3>4
  <2> QED BY <2>2 DEF PromiseInv
<1> QED BY <1>2, <1>3

(***************************************************************************)
(* A vesting balance that behaves as VestingBalance says keeps its history.*)
(***************************************************************************)
THEOREM VestingInvariant == \A id : Promise(id)!Spec => []PromiseInv(id)
<1> SUFFICES ASSUME NEW id PROVE Promise(id)!Spec => []PromiseInv(id)
  OBVIOUS
<1>1. ASSUME Promise(id)!Init PROVE PromiseInv(id)
  <2>1. VestingOf(id) = NoVesting /\ dgp.time \in {GenesisTime} \cup Times /\ HeldOf(id) = 0
    BY <1>1 DEF Promise!Init, VestingOf, HeldOf
  <2>2. dgp.time \in Nat
    BY <2>1, SupplyAssumption
  <2>3. HeldOf(id) \in Int
    BY <2>1
  <2> QED BY <2>1, <2>2, <2>3, Zenon DEF PromiseInv
<1>2. PromiseInv(id) /\ [Promise(id)!Next]_(Promise(id)!vars) => PromiseInv(id)'
  BY PromiseStep
<1> QED BY <1>1, <1>2, PTL DEF Promise!Spec

(***************************************************************************)
(* What the policies assert when a withdrawal is looked at, at any later   *)
(* time: neither more than there is nor less than nothing may leave.       *)
(***************************************************************************)
THEOREM WithdrawalsAreBounded ==
  \A id : Promise(id)!Spec => []Promise(id)!WithdrawBounded
<1> SUFFICES ASSUME NEW id PROVE Promise(id)!Spec => []Promise(id)!WithdrawBounded
  OBVIOUS
<1>1. ASSUME PromiseInv(id) PROVE Promise(id)!WithdrawBounded
  <2> DEFINE o == VestingOf(id)
             h == HeldOf(id)
             s == dgp.time
  <2>1. s \in Nat /\ h \in Int /\ (o # NoVesting => Kept(o, s, h))
    BY <1>1 DEF PromiseInv
  <2>2. ASSUME o # NoVesting, NEW t \in s .. MaxTime
        PROVE  AllowedWithdraw(o, t) \in 0 .. o.balance
    <3> HIDE DEF o, h, s
    <3>1. t \in Nat /\ s <= t
      BY <2>1, SupplyAssumption
    <3>2. Kept(o, t, h + o.balance * (t - s))
      BY <2>1, <2>2, <3>1, PassKeeps
    <3>3. o \in Objects /\ o.balance \in Nat
      BY <3>2, PolicyOfKind DEF Kept
    <3>4. CASE o.policy.kind = "cdd"
      BY <3>1, <3>2, <3>3, <3>4, CddIsBounded DEF Kept, AllowedWithdraw
    <3>5. CASE o.policy.kind = "linear"
      BY <3>1, <3>2, <3>3, <3>5, LinearIsBounded DEF Kept, AllowedWithdraw
    <3> QED BY <3>3, <3>4, <3>5, PolicyOfKind
  <2> QED BY <2>2, PromisedOperators DEF Promise!WithdrawBounded, VestingOf
<1>2. Promise(id)!Spec => []PromiseInv(id)
  BY VestingInvariant
<1> QED BY <1>1, <1>2, PTL

(***************************************************************************)
(* The coin-seconds that a withdrawal can use were held and not used.      *)
(***************************************************************************)
THEOREM AgeIsHeld ==
  \A id : Promise(id)!Spec => []Promise(id)!EarnedByHolding
<1> SUFFICES ASSUME NEW id PROVE Promise(id)!Spec => []Promise(id)!EarnedByHolding
  OBVIOUS
<1>1. ASSUME PromiseInv(id) PROVE Promise(id)!EarnedByHolding
  <2>1. VestingOf(id) # NoVesting => Kept(VestingOf(id), dgp.time, HeldOf(id))
    BY <1>1 DEF PromiseInv
  <2>2. VestingOf(id) # NoVesting /\ VestingOf(id).policy.kind = "cdd" =>
          CoinSecondsEarned(VestingOf(id).policy, VestingOf(id).balance, dgp.time) <= HeldOf(id)
    BY <2>1 DEF Kept
  <2> QED BY <2>2, PromisedOperators DEF Promise!EarnedByHolding, VestingOf, HeldOf
<1>2. Promise(id)!Spec => []PromiseInv(id)
  BY VestingInvariant
<1> QED BY <1>1, <1>2, PTL
============================================================================
