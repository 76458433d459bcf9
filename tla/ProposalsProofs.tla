-------------------------- MODULE ProposalsProofs --------------------------
(***************************************************************************)
(* For every set of proposals, authorities and lifetimes: no transaction   *)
(* is applied twice on one chain, proposals are executed with the          *)
(* approvals they need, and expire in the order of the chain, whatever     *)
(* blocks are popped.                                                      *)
(***************************************************************************)
EXTENDS Proposals, FiniteSetTheorems, WellFoundedInduction, TLAPS

----------------------------------------------------------------------------
(* Counting. *)

(***************************************************************************)
(* What holds at the start of a prefix of the numbers and from one to the  *)
(* next holds of all of it.                                                *)
(***************************************************************************)
LEMMA PrefixInduction ==
  ASSUME NEW L \in Nat, NEW Good, 0 \in Good,
         \A n \in 1 .. L : n - 1 \in Good => n \in Good
  PROVE  \A n \in 0 .. L : n \in Good
<1> DEFINE Except == {n \in 0 .. L : n \notin Good}
<1>1. ASSUME Except # {} PROVE FALSE
  <2>1. Except \subseteq Nat
    OBVIOUS
  <2>2. PICK n \in Except : \A m \in Except : ~(<<m, n>> \in OpToRel(<, Nat))
    <3> HIDE DEF Except
    <3> QED BY <1>1, <2>1, NatLessThanWellFounded, WFMin
  <2>3. n # 0 /\ n - 1 \in 0 .. L /\ n \in 1 .. L
    <3>1. n \in 0 .. L /\ n \notin Good
      BY ONLY n \in Except
    <3> QED BY ONLY <3>1, 0 \in Good, L \in Nat
  <2>4. n - 1 \in Except
    BY <2>2, <2>3
  <2>5. ~(n - 1 < n)
    <3> HIDE DEF Except
    <3>1. n - 1 \in Nat /\ n \in Nat
      BY <2>3
    <3> QED BY <2>2, <2>4, <3>1 DEF OpToRel
  <2> QED BY <2>3, <2>5
<1> QED BY <1>1

(***************************************************************************)
(* Places of a sequence without duplicates are no more than the values     *)
(* they hold.                                                              *)
(***************************************************************************)
LEMMA InjectiveCount ==
  ASSUME NEW q, IsInjective(q), NEW I, I \subseteq DOMAIN q, NEW J, IsFiniteSet(J),
         \A i \in I : q[i] \in J
  PROVE  /\ IsFiniteSet(I) /\ Cardinality(I) \in Nat /\ Cardinality(J) \in Nat
         /\ Cardinality(I) <= Cardinality(J)
<1>1. [i \in I |-> q[i]] \in Injection(I, J)
  BY DEF Injection, IsInjective
<1> QED BY <1>1, FS_Injection, FS_CardinalityType

(***************************************************************************)
(* A part of 1 .. n that has with a number those below it is 1 .. m, and m *)
(* is how many it has.                                                     *)
(***************************************************************************)
LEMMA PrefixCount ==
  ASSUME NEW n \in Nat, NEW S, S \subseteq 1 .. n,
         \A i \in S : \A j \in 1 .. n : j <= i => j \in S
  PROVE  Cardinality(S) \in 0 .. n /\ S = 1 .. Cardinality(S)
<1>1. IsFiniteSet(1 .. n) /\ Cardinality(1 .. n) = n
  BY FS_Interval
<1>2. PICK m : m = Cardinality(S)
  OBVIOUS
<1>3. S \in SUBSET (1 .. n)
  OBVIOUS
<1>4. IsFiniteSet(S) /\ m <= n /\ m \in Nat
  BY <1>1, <1>2, <1>3, FS_Subset, FS_CardinalityType
<1>5. ASSUME NEW i \in 1 .. n, i <= m PROVE i \in S
  <2> SUFFICES ASSUME i \notin S PROVE FALSE
    OBVIOUS
  <2>1. S \in SUBSET (1 .. (i - 1))
    <3> SUFFICES ASSUME NEW j \in S PROVE j \in 1 .. (i - 1)
      OBVIOUS
    <3>1. j \in 1 .. n /\ ~(i <= j)
      OBVIOUS
    <3> QED BY <3>1
  <2>2. IsFiniteSet(1 .. (i - 1)) /\ Cardinality(1 .. (i - 1)) = i - 1
    BY i - 1 \in Int, FS_Interval
  <2>3. PICK J : J = 1 .. (i - 1)
    OBVIOUS
  <2>4. IsFiniteSet(J) /\ S \in SUBSET J
    BY <2>1, <2>2, <2>3, Zenon
  <2>5. Cardinality(S) <= Cardinality(J)
    BY <2>4, FS_Subset, Zenon
  <2> QED BY ONLY <1>2, <1>4, <1>5, <2>2, <2>3, <2>5, i \in 1 .. n, n \in Nat
<1>6. ASSUME NEW i \in S PROVE i <= m
  <2>1. i \in 1 .. n
    OBVIOUS
  <2>2. (1 .. i) \in SUBSET S
    BY <2>1
  <2>3. IsFiniteSet(1 .. i) /\ Cardinality(1 .. i) = i
    BY <2>1, FS_Interval
  <2> QED BY <1>2, <1>4, <2>2, <2>3, FS_Subset
<1>7. m \in 0 .. n
  BY <1>4
<1>8. S = 1 .. m
  <2>1. ASSUME NEW i \in S PROVE i \in 1 .. m
    BY <1>4, <1>6
  <2>2. ASSUME NEW i \in 1 .. m PROVE i \in S
    BY <1>4, <1>5
  <2> QED BY <2>1, <2>2
<1> QED BY <1>2, <1>7, <1>8

(***************************************************************************)
(* Without a number that is in it, a finite set has one less.              *)
(***************************************************************************)
LEMMA OneMore ==
  ASSUME NEW S, IsFiniteSet(S), NEW x, x \notin S
  PROVE  IsFiniteSet(S \cup {x}) /\ Cardinality(S) \in Nat /\ Cardinality(S \cup {x}) = Cardinality(S) + 1
BY FS_AddElement, FS_CardinalityType

\* h is g up to N - 1, and v at N.
Extends(h, N, g, v) ==
  /\ h = [i \in 0 .. N |-> h[i]]
  /\ \A i \in 0 .. N - 1 : h[i] = g[i]
  /\ h[N] = v

(***************************************************************************)
(* A function on a prefix of the numbers has one that goes on with v.      *)
(***************************************************************************)
LEMMA Extension ==
  ASSUME NEW N \in Nat, N # 0, NEW g, NEW v
  PROVE  \E h : Extends(h, N, g, v)
<1> DEFINE h == [i \in 0 .. N |-> IF i = N THEN v ELSE g[i]]
<1>1. h = [i \in 0 .. N |-> h[i]]
  OBVIOUS
<1>2. ASSUME NEW i \in 0 .. N - 1 PROVE h[i] = g[i]
  <2>1. i \in 0 .. N /\ i # N
    OBVIOUS
  <2> QED BY <2>1
<1>3. h[N] = v
  OBVIOUS
<1> QED
  <2> HIDE DEF h
  <2> QED BY <1>1, <1>2, <1>3 DEF Extends

----------------------------------------------------------------------------
(* Authorities: who counts as approving did approve, or its authority is   *)
(* reached by such accounts and by keys.                                   *)

Weight(authority, keys, a, R) ==
  Cardinality({k \in keys : k \in ToSet(authority[a].keys)})
    + Cardinality({b \in R : b \in ToSet(authority[a].accounts)})

\* R has every account that the keys and the accounts of R amount to.
Upward(authority, keys, R) ==
  /\ authority \in [Accounts -> Authority] /\ keys \subseteq Keys /\ R \subseteq Accounts
  /\ \A a \in Accounts : Weight(authority, keys, a, R) >= authority[a].threshold => a \in R

(***************************************************************************)
(* Approving is such a set, and has those that approved.                   *)
(***************************************************************************)
LEMMA ApprovingIsUpward ==
  ASSUME NEW authority \in [Accounts -> Authority], NEW approved, approved \subseteq Accounts,
         NEW keys, keys \subseteq Keys, NEW R, R = Approving(authority, approved, keys)
  PROVE  approved \subseteq R /\ Upward(authority, keys, R)
<1> DEFINE Closed == {s \in SUBSET Accounts :
                        /\ approved \subseteq s
                        /\ \A a \in Accounts : Weight(authority, keys, a, s) >= authority[a].threshold => a \in s}
<1>1. R = {a \in Accounts : \A s \in Closed : a \in s}
  BY DEF Approving, Weight
<1>2. ASSUME NEW a \in Accounts, Weight(authority, keys, a, R) >= authority[a].threshold,
             NEW s \in Closed
      PROVE  a \in s
  <2>1. R \subseteq s /\ s \subseteq Accounts
    BY <1>1
  <2> DEFINE X == {b \in R : b \in ToSet(authority[a].accounts)}
             Y == {b \in s : b \in ToSet(authority[a].accounts)}
             K == {k \in keys : k \in ToSet(authority[a].keys)}
  <2>2. IsFiniteSet(Accounts) /\ IsFiniteSet(Keys)
    BY ProposalsAssumption DEF ProposalsAssumption
  <2>3. Y \in SUBSET Accounts /\ K \in SUBSET Keys /\ X \in SUBSET Y
    BY <2>1
  <2>4. IsFiniteSet(Y) /\ IsFiniteSet(K)
    <3> HIDE DEF Y, K
    <3> QED BY <2>2, <2>3, FS_Subset
  <2>5. IsFiniteSet(X) /\ Cardinality(X) <= Cardinality(Y)
    <3> HIDE DEF X, Y
    <3> QED BY <2>3, <2>4, FS_Subset
  <2>6. Cardinality(X) \in Nat /\ Cardinality(Y) \in Nat /\ Cardinality(K) \in Nat
    <3> HIDE DEF X, Y, K
    <3> QED BY <2>4, <2>5, FS_CardinalityType
  <2>7. authority[a].threshold \in Nat
    BY DEF Authority
  <2>8. Cardinality(K) + Cardinality(X) >= authority[a].threshold
    BY <1>2 DEF Weight
  <2>9. Cardinality(K) + Cardinality(Y) >= authority[a].threshold
    <3> HIDE DEF X, Y, K
    <3> QED BY <2>5, <2>6, <2>7, <2>8
  <2>10. Weight(authority, keys, a, s) >= authority[a].threshold
    BY <2>9 DEF Weight
  <2> HIDE DEF X, Y, K
  <2> QED BY <2>10
<1>3. \A s \in Closed : approved \subseteq s
  OBVIOUS
<1>4. approved \subseteq R
  <2> HIDE DEF Closed
  <2> QED BY <1>1, <1>3
<1>5. \A a \in Accounts : Weight(authority, keys, a, R) >= authority[a].threshold => a \in R
  <2> HIDE DEF Closed
  <2> QED BY <1>1, <1>2
<1>6. R \subseteq Accounts
  <2> HIDE DEF Closed
  <2> QED BY <1>1
<1> QED BY <1>4, <1>5, <1>6 DEF Upward

\* What a check that begins with approvals in R may say of account a, and leave.
Sound(r, a, R) ==
  /\ r.s \in Progress /\ r.s.approved \subseteq R
  /\ r.ok => a \in R

\* The places of an authority's first L accounts that are in R.
Standing(au, R, L) == {j \in 1 .. L : au.accounts[j] \in R}

\* The check on the next level is sound, when there is one.
SoundBelow(below, n, R) ==
  n # 0 => \A b \in Accounts : \A s \in Progress : s.approved \subseteq R => Sound(below[b][s], b, R)

\* A state of the loop over an authority's accounts: no more than m weigh.
Weighed(t, R, m) ==
  /\ DOMAIN t = {"weight", "over", "s"}
  /\ t.s \in Progress /\ t.s.approved \subseteq R
  /\ t.weight \in Nat /\ t.weight <= m

(***************************************************************************)
(* An account that is not in R does not weigh.                             *)
(***************************************************************************)
LEMMA WeighSound ==
  ASSUME NEW authority, NEW keys, NEW R, Upward(authority, keys, R), NEW au, NEW n \in Nat,
         NEW below, SoundBelow(below, n, R), NEW b \in Accounts, NEW m \in Nat,
         NEW t, Weighed(t, R, m)
  PROVE  Weighed(Weigh(au, n, below, t, b), R, IF b \in R THEN m + 1 ELSE m)
<1> DEFINE m2 == IF b \in R THEN m + 1 ELSE m
<1>1. m <= m2 /\ m2 \in Nat
  OBVIOUS
<1>2. ASSUME NEW u, Weighed(u, R, m) PROVE Weighed(u, R, m2)
  <2> HIDE DEF m2
  <2> QED BY <1>1, <1>2 DEF Weighed
<1>3. ASSUME b \in R, NEW u, Weighed(u, R, m), u.weight = t.weight
      PROVE  Weighed(Reaches(au, u, t.weight + 1), R, m2)
  <2>1. t.weight + 1 \in Nat /\ t.weight + 1 <= m2
    BY <1>3 DEF Weighed
  <2> HIDE DEF m2
  <2> QED BY <1>3, <2>1 DEF Weighed, Reaches
<1>4. CASE t.over
  <2>1. Weigh(au, n, below, t, b) = t
    BY <1>4, Zenon DEF Weigh
  <2> QED BY <1>2, <2>1
<1>5. CASE ~t.over /\ b \in t.s.approved
  <2>1. Weigh(au, n, below, t, b) = Reaches(au, t, t.weight + 1)
    BY <1>5, Zenon DEF Weigh
  <2>2. b \in R
    BY <1>5 DEF Weighed
  <2> QED BY <1>3, <2>1, <2>2
<1>6. CASE ~t.over /\ b \notin t.s.approved /\ n = 0
  <2>1. Weigh(au, n, below, t, b) = [t EXCEPT !.over = TRUE]
    BY <1>6, Zenon DEF Weigh
  <2>2. Weighed([t EXCEPT !.over = TRUE], R, m)
    BY DEF Weighed
  <2> QED BY <1>2, <2>1, <2>2
<1>7. CASE ~t.over /\ b \notin t.s.approved /\ n # 0
  <2>1. PICK r : r = below[b][t.s]
    OBVIOUS
  <2>2. Sound(r, b, R)
    BY <1>7, <2>1 DEF SoundBelow, Weighed
  <2>3. Weigh(au, n, below, t, b) =
          IF r.ok THEN Reaches(au, [t EXCEPT !.s = [r.s EXCEPT !.approved = @ \cup {b}]], t.weight + 1)
          ELSE [t EXCEPT !.s = r.s]
    BY <1>7, <2>1, Zenon DEF Weigh
  <2>4. CASE r.ok
    <3> DEFINE s2 == [r.s EXCEPT !.approved = @ \cup {b}]
               u  == [t EXCEPT !.s = s2]
    <3>1. b \in R
      BY <2>2, <2>4 DEF Sound
    <3>2. s2 \in Progress /\ s2.approved \subseteq R
      BY <2>2, <3>1 DEF Sound, Progress
    <3>3. Weighed(u, R, m) /\ u.weight = t.weight
      <4> HIDE DEF s2
      <4> QED BY <3>2 DEF Weighed
    <3>4. Weighed(Reaches(au, u, t.weight + 1), R, m2)
      <4> HIDE DEF s2, u, m2
      <4> QED BY <1>3, <3>1, <3>3
    <3> QED BY <2>3, <2>4, <3>4, Zenon
  <2>5. CASE ~r.ok
    <3>1. Weighed([t EXCEPT !.s = r.s], R, m)
      BY <2>2 DEF Weighed, Sound
    <3> QED BY <1>2, <2>3, <2>5, <3>1
  <2> QED BY <2>4, <2>5
<1> QED BY <1>4, <1>5, <1>6, <1>7

\* The state of the loop before the first account, and the loop.
Start(au, available, s) ==
  LET counted == Counted(au, available)
  IN  [weight |-> Cardinality(counted), over |-> Cardinality(counted) >= au.threshold,
       s |-> [s EXCEPT !.used = @ \cup {au.keys[j] : j \in counted}]]

Weighing(w, au, available, n, below, s, N) ==
  w = [i \in 0 .. N |->
         IF i = 0 THEN Start(au, available, s) ELSE Weigh(au, n, below, w[i - 1], au.accounts[i])]

(***************************************************************************)
(* The recursion of the loop has a solution.                               *)
(***************************************************************************)
LEMMA WeighingExists ==
  ASSUME NEW au, NEW available, NEW n, NEW below, NEW s, NEW L \in Nat
  PROVE  \E w : Weighing(w, au, available, n, below, s, L)
<1> DEFINE step(w, i) == Weigh(au, n, below, w[i - 1], au.accounts[i])
           start      == Start(au, available, s)
           Loop(w, N) == /\ w = [i \in 0 .. N |-> w[i]] /\ w[0] = start
                         /\ \A i \in 1 .. N : w[i] = step(w, i)
           Good == {N \in Nat : \E w : Loop(w, N)}
<1>1. 0 \in Good
  <2> HIDE DEF step, start
  <2>1. PICK w : w = [i \in 0 .. 0 |-> start]
    OBVIOUS
  <2>2. Loop(w, 0)
    BY <2>1
  <2> QED BY <2>2
<1>2. ASSUME NEW N \in 1 .. L, N - 1 \in Good PROVE N \in Good
  <2>1. PICK g : Loop(g, N - 1)
    BY <1>2
  <2>2. PICK v : v = step(g, N)
    OBVIOUS
  <2>3. PICK h : Extends(h, N, g, v)
    BY Extension
  <2>4. ASSUME NEW i \in 1 .. N PROVE h[i] = step(h, i)
    <3>1. h[i - 1] = g[i - 1]
      <4>1. i - 1 \in 0 .. N - 1
        OBVIOUS
      <4> QED BY ONLY <2>3, <4>1 DEF Extends
    <3>2. CASE i = N
      BY <2>2, <2>3, <3>1, <3>2 DEF Extends
    <3>3. CASE i # N
      <4>1. i \in 1 .. N - 1 /\ i \in 0 .. N - 1
        BY <3>3
      <4>2. g[i] = step(g, i)
        <5> HIDE DEF step
        <5> QED BY <2>1, <4>1
      <4> QED BY <2>3, <3>1, <4>1, <4>2 DEF Extends
    <3> QED BY <3>2, <3>3
  <2>5. Loop(h, N)
    <3> HIDE DEF step, start
    <3> QED BY <2>1, <2>3, <2>4 DEF Extends
  <2> HIDE DEF Loop
  <2> QED BY <2>5
<1>3. L \in Good
  <2> HIDE DEF Good
  <2> QED BY <1>1, <1>2, PrefixInduction
<1>4. PICK w : Loop(w, L)
  BY <1>3
<1>5. ASSUME NEW i \in 0 .. L PROVE w[i] = IF i = 0 THEN start ELSE step(w, i)
  <2> HIDE DEF step, start
  <2> QED BY <1>4
<1>6. w = [i \in 0 .. L |-> IF i = 0 THEN start ELSE step(w, i)]
  <2> HIDE DEF step, start
  <2> QED BY <1>4, <1>5
<1> QED BY <1>6 DEF Weighing

(***************************************************************************)
(* The keys that count are in the authority, and signed.                   *)
(***************************************************************************)
LEMMA StartSound ==
  ASSUME NEW au \in Authority, NEW keys, keys \subseteq Keys, NEW R,
         NEW s \in Progress, s.approved \subseteq R
  PROVE  /\ Cardinality(Counted(au, keys)) \in Nat
         /\ Cardinality(Counted(au, keys)) <= Cardinality({k \in keys : k \in ToSet(au.keys)})
         /\ Weighed(Start(au, keys, s), R, Cardinality(Counted(au, keys)))
<1>1. IsInjective(au.keys) /\ au.keys \in Seq(Keys)
  BY DEF Authority
<1>2. PICK I : I = Counted(au, keys)
  OBVIOUS
<1>3. PICK J : J = {k \in keys : k \in ToSet(au.keys)}
  OBVIOUS
<1>4. I \subseteq DOMAIN au.keys /\ \A i \in I : au.keys[i] \in J
  BY <1>2, <1>3 DEF Counted, ToSet
<1>5. IsFiniteSet(J)
  <2>1. IsFiniteSet(Keys) /\ J \in SUBSET Keys
    BY <1>3, ProposalsAssumption DEF ProposalsAssumption
  <2> QED BY <2>1, FS_Subset
<1>6. Cardinality(I) \in Nat /\ Cardinality(I) <= Cardinality(J)
  BY <1>1, <1>4, <1>5, InjectiveCount
<1>7. {au.keys[j] : j \in I} \subseteq Keys
  BY <1>1, <1>4
<1>8. PICK s2 : s2 = [s EXCEPT !.used = @ \cup {au.keys[j] : j \in I}]
  OBVIOUS
<1>9. s2 \in Progress /\ s2.approved = s.approved
  BY <1>7, <1>8 DEF Progress
<1>10. Start(au, keys, s) = [weight |-> Cardinality(I), over |-> Cardinality(I) >= au.threshold, s |-> s2]
  BY <1>2, <1>8 DEF Start
<1>11. Weighed(Start(au, keys, s), R, Cardinality(I))
  BY <1>6, <1>9, <1>10 DEF Weighed
<1> QED BY <1>2, <1>3, <1>6, <1>11

(***************************************************************************)
(* Along the accounts, no more weigh than are in R.                        *)
(***************************************************************************)
LEMMA WeighingSound ==
  ASSUME NEW authority, NEW keys, NEW R, Upward(authority, keys, R), NEW au \in Authority,
         NEW n \in Nat, NEW below, SoundBelow(below, n, R), NEW s, NEW c \in Nat,
         Weighed(Start(au, keys, s), R, c), NEW w, NEW L \in Nat, L = Len(au.accounts),
         Weighing(w, au, keys, n, below, s, L)
  PROVE  Weighed(w[L], R, c + Cardinality(Standing(au, R, L)))
<1> DEFINE In(i) == Standing(au, R, i)
           Good  == {i \in 0 .. L : Weighed(w[i], R, c + Cardinality(In(i)))}
<1>1. /\ w[0] = Start(au, keys, s)
      /\ \A i \in 1 .. L : w[i] = Weigh(au, n, below, w[i - 1], au.accounts[i])
  <2>1. \A i \in 0 .. L : w[i] = IF i = 0 THEN Start(au, keys, s)
                                 ELSE Weigh(au, n, below, w[i - 1], au.accounts[i])
    BY DEF Weighing
  <2>2. 0 \in 0 .. L /\ \A i \in 1 .. L : i \in 0 .. L /\ i # 0
    OBVIOUS
  <2> QED BY ONLY <2>1, <2>2, Zenon
<1>2. 0 \in Good
  <2>1. In(0) = {}
    BY DEF Standing
  <2>2. Cardinality(In(0)) = 0
    BY <2>1, FS_EmptySet
  <2>3. c + Cardinality(In(0)) = c
    BY <2>2
  <2> HIDE DEF In
  <2> QED BY <1>1, <2>3
<1>3. ASSUME NEW i \in 1 .. L, i - 1 \in Good PROVE i \in Good
  <2>1. PICK b : b = au.accounts[i]
    OBVIOUS
  <2>2. b \in Accounts
    BY <2>1 DEF Authority
  <2>3. PICK S : S = In(i - 1)
    OBVIOUS
  <2>4. IsFiniteSet(S) /\ i \notin S
    <3>1. S \in SUBSET (1 .. i) /\ i \notin S
      BY <2>3 DEF Standing
    <3>2. IsFiniteSet(1 .. i)
      BY 1 \in Int, i \in Int, FS_Interval
    <3> QED BY <3>1, <3>2, FS_Subset
  <2>5. In(i) = IF b \in R THEN S \cup {i} ELSE S
    BY <2>1, <2>3 DEF Standing
  <2>6. Cardinality(S) \in Nat /\ Cardinality(S \cup {i}) = Cardinality(S) + 1
    BY <2>4, OneMore
  <2>7. PICK m : m = c + Cardinality(S)
    OBVIOUS
  <2>8. m \in Nat /\ c + Cardinality(In(i)) = IF b \in R THEN m + 1 ELSE m
    <3> HIDE DEF In
    <3> QED BY <2>5, <2>6, <2>7
  <2>9. Weighed(w[i - 1], R, m)
    BY <1>3, <2>3, <2>7
  <2>10. Weighed(Weigh(au, n, below, w[i - 1], b), R, IF b \in R THEN m + 1 ELSE m)
    BY <2>2, <2>8, <2>9, WeighSound
  <2>11. w[i] = Weigh(au, n, below, w[i - 1], b)
    BY <1>1, <2>1
  <2> HIDE DEF In
  <2> QED BY <2>8, <2>10, <2>11
<1>4. L \in Good
  <2>1. L \in 0 .. L
    OBVIOUS
  <2> HIDE DEF Good
  <2> QED BY <1>2, <1>3, <2>1, PrefixInduction
<1> QED BY <1>4

(***************************************************************************)
(* check_authority of one authority that says yes speaks of an account in  *)
(* R: what weighs is keys that signed and accounts of R.                   *)
(***************************************************************************)
LEMMA CheckSound ==
  ASSUME NEW authority, NEW keys, NEW R, Upward(authority, keys, R), NEW a \in Accounts,
         NEW n \in Nat, NEW below, SoundBelow(below, n, R),
         NEW s \in Progress, s.approved \subseteq R
  PROVE  Sound(Check(authority[a], keys, n, below, s), a, R)
<1>1. PICK au : au = authority[a]
  OBVIOUS
<1>2. au \in Authority /\ keys \subseteq Keys
  BY <1>1 DEF Upward
<1>3. PICK L : L = Len(au.accounts)
  OBVIOUS
<1>4. L \in Nat /\ IsInjective(au.accounts) /\ DOMAIN au.accounts = 1 .. L
  BY <1>2, <1>3 DEF Authority
<1>5. PICK w : w = CHOOSE u : Weighing(u, au, keys, n, below, s, L)
  OBVIOUS
<1>6. Weighing(w, au, keys, n, below, s, L)
  BY <1>4, <1>5, WeighingExists
<1>7. PICK c : c = Cardinality(Counted(au, keys))
  OBVIOUS
<1>8. /\ c \in Nat /\ c <= Cardinality({k \in keys : k \in ToSet(au.keys)})
      /\ Weighed(Start(au, keys, s), R, c)
  BY <1>2, <1>7, StartSound
<1>9. PICK m : m = Cardinality(Standing(au, R, L))
  OBVIOUS
<1>10. Weighed(w[L], R, c + m)
  BY ONLY <1>2, <1>3, <1>4, <1>6, <1>8, <1>9, Upward(authority, keys, R), n \in Nat,
     SoundBelow(below, n, R), WeighingSound
<1>11. m \in Nat /\ m <= Cardinality({b \in R : b \in ToSet(au.accounts)})
  <2>1. PICK I : I = Standing(au, R, L)
    OBVIOUS
  <2>2. PICK J : J = {b \in R : b \in ToSet(au.accounts)}
    OBVIOUS
  <2>3. IsFiniteSet(Accounts) /\ J \in SUBSET Accounts
    BY <2>2, ProposalsAssumption DEF ProposalsAssumption, Upward
  <2>4. IsFiniteSet(J)
    BY <2>3, FS_Subset
  <2>5. I \subseteq DOMAIN au.accounts /\ \A i \in I : au.accounts[i] \in J
    BY <1>4, <2>1, <2>2 DEF ToSet, Standing
  <2> QED BY <1>4, <1>9, <2>1, <2>2, <2>4, <2>5, InjectiveCount
<1>12. Check(au, keys, n, below, s) = [ok |-> w[L].weight >= au.threshold, s |-> w[L].s]
  BY <1>3, <1>5 DEF Check, Weighing, Start
<1>13. ASSUME w[L].weight >= au.threshold PROVE a \in R
  <2>1. PICK x, y : /\ x = Cardinality({k \in keys : k \in ToSet(au.keys)})
                    /\ y = Cardinality({b \in R : b \in ToSet(au.accounts)})
    OBVIOUS
  <2>2. x \in Nat /\ y \in Nat
    <3>1. PICK J : J = {b \in R : b \in ToSet(au.accounts)}
      OBVIOUS
    <3>2. PICK K : K = {k \in keys : k \in ToSet(au.keys)}
      OBVIOUS
    <3>3. IsFiniteSet(Accounts) /\ IsFiniteSet(Keys) /\ J \in SUBSET Accounts /\ K \in SUBSET Keys
      BY <3>1, <3>2, ProposalsAssumption DEF ProposalsAssumption, Upward
    <3>4. IsFiniteSet(J) /\ IsFiniteSet(K)
      BY <3>3, FS_Subset
    <3> QED BY <2>1, <3>1, <3>2, <3>4, FS_CardinalityType
  <2>3. au.threshold \in Nat
    BY <1>2 DEF Authority
  <2>4. w[L].weight \in Nat /\ w[L].weight <= c + m
    BY <1>10 DEF Weighed
  <2>5. x + y >= au.threshold
    BY <1>8, <1>11, <1>13, <2>1, <2>2, <2>3, <2>4
  <2> QED BY <1>1, <2>1, <2>5 DEF Upward, Weight
<1>14. PICK r : r = Check(au, keys, n, below, s)
  OBVIOUS
<1>15. (r.ok <=> w[L].weight >= au.threshold) /\ r.s = w[L].s
  <2>1. PICK yes, state : yes = (w[L].weight >= au.threshold) /\ state = w[L].s
    OBVIOUS
  <2>2. r = [ok |-> yes, s |-> state]
    BY ONLY <1>12, <1>14, <2>1, Zenon
  <2>3. r.ok = yes /\ r.s = state
    BY ONLY <2>2
  <2> QED BY ONLY <2>1, <2>3, Zenon
<1> QED BY <1>1, <1>10, <1>13, <1>14, <1>15 DEF Sound, Weighed

\* check_authority of all accounts on the level with n below it, from the one below.
Level(authority, keys, n, below) ==
  [a \in Accounts |-> [s \in Progress |-> Check(authority[a], keys, n, below, s)]]

Checking(c, authority, keys, N) ==
  c = [n \in 0 .. N |->
         LET below == IF n = 0 THEN <<>> ELSE c[n - 1]
         IN  [a \in Accounts |-> [s \in Progress |-> Check(authority[a], keys, n, below, s)]]]

(***************************************************************************)
(* The recursion over the levels has a solution.                           *)
(***************************************************************************)
LEMMA CheckingExists ==
  ASSUME NEW authority, NEW keys, NEW L \in Nat
  PROVE  \E c : Checking(c, authority, keys, L)
<1> DEFINE step(c, n) == Level(authority, keys, n, IF n = 0 THEN <<>> ELSE c[n - 1])
           Loop(c, N) == c = [n \in 0 .. N |-> c[n]] /\ \A n \in 0 .. N : c[n] = step(c, n)
           Good == {N \in Nat : \E c : Loop(c, N)}
<1>1. 0 \in Good
  <2>1. PICK c : c = [n \in 0 .. 0 |-> Level(authority, keys, 0, <<>>)]
    OBVIOUS
  <2>2. Loop(c, 0)
    BY <2>1
  <2> QED BY <2>2
<1>2. ASSUME NEW N \in 1 .. L, N - 1 \in Good PROVE N \in Good
  <2>1. PICK g : Loop(g, N - 1)
    BY <1>2
  <2>2. PICK v : v = step(g, N)
    OBVIOUS
  <2>3. PICK h : Extends(h, N, g, v)
    BY Extension
  <2>4. ASSUME NEW n \in 0 .. N PROVE h[n] = step(h, n)
    <3>1. step(h, n) = step(g, n)
      <4>1. CASE n = 0
        BY <4>1
      <4>2. CASE n # 0
        <5>1. n - 1 \in 0 .. N - 1
          BY <4>2
        <5>2. h[n - 1] = g[n - 1]
          BY ONLY <2>3, <5>1 DEF Extends
        <5> QED BY <4>2, <5>2
      <4> QED BY <4>1, <4>2
    <3> HIDE DEF step
    <3>2. CASE n = N
      BY <2>2, <2>3, <3>1, <3>2 DEF Extends
    <3>3. CASE n # N
      <4>1. n \in 0 .. N - 1
        BY <3>3
      <4>2. g[n] = step(g, n)
        BY <2>1, <4>1
      <4> QED BY <2>3, <3>1, <4>1, <4>2 DEF Extends
    <3> QED BY <3>2, <3>3
  <2>5. Loop(h, N)
    <3> HIDE DEF step
    <3> QED BY <2>3, <2>4 DEF Extends
  <2> HIDE DEF Loop
  <2> QED BY <2>5
<1>3. L \in Good
  <2> HIDE DEF Good
  <2> QED BY <1>1, <1>2, PrefixInduction
<1>4. PICK c : Loop(c, L)
  BY <1>3
<1>5. c = [n \in 0 .. L |-> step(c, n)]
  <2> HIDE DEF step
  <2> QED BY <1>4
<1> QED BY <1>5 DEF Checking, Level

(***************************************************************************)
(* check_authority is sound on every level.                                *)
(***************************************************************************)
LEMMA CheckAuthoritySound ==
  ASSUME NEW authority, NEW keys, NEW R, Upward(authority, keys, R), NEW check,
         check = CheckAuthority(authority, keys)
  PROVE  \A b \in Accounts : \A s \in Progress : s.approved \subseteq R => Sound(check[b][s], b, R)
<1>1. MaxDepth \in Nat
  BY ProposalsAssumption DEF ProposalsAssumption
<1>2. PICK c : c = CHOOSE d : Checking(d, authority, keys, MaxDepth)
  OBVIOUS
<1>3. Checking(c, authority, keys, MaxDepth)
  BY <1>1, <1>2, CheckingExists
<1>4. check = c[MaxDepth]
  BY <1>2 DEF CheckAuthority, Checking
<1>5. \A n \in 0 .. MaxDepth : c[n] = Level(authority, keys, n, IF n = 0 THEN <<>> ELSE c[n - 1])
  BY <1>3 DEF Checking, Level
<1> DEFINE Yes(f)  == \A b \in Accounts : \A s \in Progress : s.approved \subseteq R => Sound(f[b][s], b, R)
           Good == {n \in 0 .. MaxDepth : Yes(c[n])}
<1>6. ASSUME NEW n \in Nat, NEW below, SoundBelow(below, n, R) PROVE Yes(Level(authority, keys, n, below))
  <2> SUFFICES ASSUME NEW b \in Accounts, NEW s \in Progress, s.approved \subseteq R
               PROVE  Sound(Level(authority, keys, n, below)[b][s], b, R)
    OBVIOUS
  <2>1. Level(authority, keys, n, below)[b][s] = Check(authority[b], keys, n, below, s)
    BY DEF Level
  <2> QED BY <1>6, <2>1, CheckSound
<1>7. 0 \in Good
  <2>1. 0 \in 0 .. MaxDepth
    BY <1>1
  <2>2. c[0] = Level(authority, keys, 0, <<>>)
    BY <1>5, <2>1
  <2>3. SoundBelow(<<>>, 0, R)
    BY DEF SoundBelow
  <2>4. Yes(Level(authority, keys, 0, <<>>))
    <3> HIDE DEF Yes
    <3> QED BY <1>6, <2>3
  <2> HIDE DEF Yes
  <2> QED BY <2>1, <2>2, <2>4
<1>8. ASSUME NEW n \in 1 .. MaxDepth, n - 1 \in Good PROVE n \in Good
  <2>1. n \in 0 .. MaxDepth /\ n # 0 /\ n \in Nat
    BY <1>1
  <2>2. c[n] = Level(authority, keys, n, c[n - 1])
    BY <1>5, <2>1
  <2>3. PICK below : below = c[n - 1]
    OBVIOUS
  <2>4. SoundBelow(below, n, R)
    BY <1>8, <2>3 DEF SoundBelow
  <2>5. Yes(Level(authority, keys, n, below))
    <3> HIDE DEF Yes
    <3> QED BY <1>6, <2>1, <2>4
  <2> HIDE DEF Yes
  <2> QED BY <2>1, <2>2, <2>3, <2>5
<1>9. MaxDepth \in Good
  <2> HIDE DEF Good
  <2> QED BY <1>1, <1>7, <1>8, PrefixInduction, MaxDepth \in 0 .. MaxDepth
<1> QED BY <1>4, <1>9

(***************************************************************************)
(* A required account that is verified is in R.                            *)
(***************************************************************************)
LEMMA VerifySound ==
  ASSUME NEW R, NEW check,
         \A b \in Accounts : \A s \in Progress : s.approved \subseteq R => Sound(check[b][s], b, R),
         NEW a \in Accounts, NEW r, r.s \in Progress, r.s.approved \subseteq R,
         NEW v, v = Verify(check, r, a)
  PROVE  v.s \in Progress /\ v.s.approved \subseteq R /\ (v.ok => r.ok /\ a \in R)
<1>1. CASE ~r.ok \/ a \in r.s.approved
  <2>1. v = r
    BY <1>1, Zenon DEF Verify
  <2> QED BY <1>1, <2>1
<1>2. CASE r.ok /\ a \notin r.s.approved
  <2>1. PICK first : first = check[a][r.s]
    OBVIOUS
  <2>2. Sound(first, a, R)
    BY <2>1
  <2>3. PICK second : second = check[a][first.s]
    OBVIOUS
  <2>4. Sound(second, a, R)
    BY <2>2, <2>3 DEF Sound
  <2>5. v = IF first.ok THEN first ELSE second
    BY <1>2, <2>1, <2>3, Zenon DEF Verify
  <2> QED BY <1>2, <2>2, <2>4, <2>5 DEF Sound
<1> QED BY <1>1, <1>2

Verifying(v, check, p, N) ==
  v = [i \in 0 .. N |->
         IF i = 0 THEN [ok |-> TRUE, s |-> [used |-> {}, approved |-> p.active]]
         ELSE Verify(check, v[i - 1], Required[p.operation][i])]

(***************************************************************************)
(* The recursion over the required accounts has a solution.                *)
(***************************************************************************)
LEMMA VerifyingExists ==
  ASSUME NEW check, NEW p, NEW L \in Nat
  PROVE  \E v : Verifying(v, check, p, L)
<1> DEFINE step(w, i) == Verify(check, w[i - 1], Required[p.operation][i])
           start      == [ok |-> TRUE, s |-> [used |-> {}, approved |-> p.active]]
           Loop(w, N) == /\ w = [i \in 0 .. N |-> w[i]] /\ w[0] = start
                         /\ \A i \in 1 .. N : w[i] = step(w, i)
           Good == {N \in Nat : \E w : Loop(w, N)}
<1>1. 0 \in Good
  <2> HIDE DEF step, start
  <2>1. PICK w : w = [i \in 0 .. 0 |-> start]
    OBVIOUS
  <2>2. Loop(w, 0)
    BY <2>1
  <2> QED BY <2>2
<1>2. ASSUME NEW N \in 1 .. L, N - 1 \in Good PROVE N \in Good
  <2>1. PICK g : Loop(g, N - 1)
    BY <1>2
  <2>2. PICK v : v = step(g, N)
    OBVIOUS
  <2>3. PICK h : Extends(h, N, g, v)
    BY Extension
  <2>4. ASSUME NEW i \in 1 .. N PROVE h[i] = step(h, i)
    <3>1. h[i - 1] = g[i - 1]
      <4>1. i - 1 \in 0 .. N - 1
        OBVIOUS
      <4> QED BY ONLY <2>3, <4>1 DEF Extends
    <3>2. CASE i = N
      BY <2>2, <2>3, <3>1, <3>2 DEF Extends
    <3>3. CASE i # N
      <4>1. i \in 1 .. N - 1 /\ i \in 0 .. N - 1
        BY <3>3
      <4>2. g[i] = step(g, i)
        <5> HIDE DEF step
        <5> QED BY <2>1, <4>1
      <4> QED BY <2>3, <3>1, <4>1, <4>2 DEF Extends
    <3> QED BY <3>2, <3>3
  <2>5. Loop(h, N)
    <3> HIDE DEF step, start
    <3> QED BY <2>1, <2>3, <2>4 DEF Extends
  <2> HIDE DEF Loop
  <2> QED BY <2>5
<1>3. L \in Good
  <2> HIDE DEF Good
  <2> QED BY <1>1, <1>2, PrefixInduction
<1>4. PICK w : Loop(w, L)
  BY <1>3
<1>5. ASSUME NEW i \in 0 .. L PROVE w[i] = IF i = 0 THEN start ELSE step(w, i)
  <2> HIDE DEF step, start
  <2> QED BY <1>4
<1>6. w = [i \in 0 .. L |-> IF i = 0 THEN start ELSE step(w, i)]
  <2> HIDE DEF step, start
  <2> QED BY <1>4, <1>5
<1> QED BY <1>6 DEF Verifying

(***************************************************************************)
(* is_authorized_to_execute: the accounts whose approval an operation      *)
(* requires approved, or their authorities are reached by such accounts    *)
(* and by keys.                                                            *)
(***************************************************************************)
LEMMA AuthorizedIsApproved ==
  ASSUME NEW authority \in [Accounts -> Authority], NEW p, p.operation \in Operations,
         p.active \subseteq Accounts, p.keys \subseteq Keys, IsAuthorized(authority, p)
  PROVE  ToSet(Required[p.operation]) \subseteq Approving(authority, p.active, p.keys)
<1>1. PICK R : R = Approving(authority, p.active, p.keys)
  OBVIOUS
<1>2. p.active \subseteq R /\ Upward(authority, p.keys, R)
  BY <1>1, ApprovingIsUpward
<1>3. PICK required : required = Required[p.operation]
  OBVIOUS
<1>4. required \in Seq(Accounts)
  BY <1>3, ProposalsAssumption DEF ProposalsAssumption
<1>5. PICK L : L = Len(required)
  OBVIOUS
<1>6. L \in Nat /\ DOMAIN required = 1 .. L
  BY <1>4, <1>5
<1>7. PICK check : check = CheckAuthority(authority, p.keys)
  OBVIOUS
<1>8. \A b \in Accounts : \A s \in Progress : s.approved \subseteq R => Sound(check[b][s], b, R)
  BY <1>2, <1>7, CheckAuthoritySound
<1>9. PICK v : v = CHOOSE w : Verifying(w, check, p, L)
  OBVIOUS
<1>10. Verifying(v, check, p, L)
  BY <1>6, <1>9, VerifyingExists
<1>11. v[L].ok
  BY <1>3, <1>5, <1>7, <1>9 DEF IsAuthorized, Verifying
<1>12. /\ v[0] = [ok |-> TRUE, s |-> [used |-> {}, approved |-> p.active]]
       /\ \A i \in 1 .. L : v[i] = Verify(check, v[i - 1], required[i])
  <2>1. \A i \in 0 .. L : v[i] = IF i = 0 THEN [ok |-> TRUE, s |-> [used |-> {}, approved |-> p.active]]
                                 ELSE Verify(check, v[i - 1], required[i])
    BY <1>3, <1>10 DEF Verifying
  <2>2. 0 \in 0 .. L /\ \A i \in 1 .. L : i \in 0 .. L /\ i # 0
    BY <1>6
  <2> QED BY ONLY <2>1, <2>2, Zenon
<1> DEFINE Yes(n) == /\ v[n].s \in Progress /\ v[n].s.approved \subseteq R
                     /\ v[n].ok => \A i \in 1 .. n : required[i] \in R
           Good   == {n \in 0 .. L : Yes(n)}
<1>13. 0 \in Good
  <2>1. [used |-> {}, approved |-> p.active] \in Progress
    BY DEF Progress
  <2>2. v[0].s = [used |-> {}, approved |-> p.active]
    BY ONLY <1>12
  <2>3. v[0].s \in Progress /\ v[0].s.approved \subseteq R
    BY <1>2, <2>1, <2>2
  <2>4. 0 \in 0 .. L /\ \A i \in 1 .. 0 : required[i] \in R
    BY <1>6
  <2> QED BY <2>3, <2>4
<1>14. ASSUME NEW n \in 1 .. L, n - 1 \in Good PROVE n \in Good
  <2>1. PICK r : r = v[n - 1]
    OBVIOUS
  <2>2. /\ r.s \in Progress /\ r.s.approved \subseteq R
        /\ r.ok => \A i \in 1 .. n - 1 : required[i] \in R
    BY <1>14, <2>1
  <2>3. PICK a : a = required[n]
    OBVIOUS
  <2>4. a \in Accounts
    BY <1>4, <1>6, <2>3
  <2>5. v[n] = Verify(check, r, a)
    BY <1>12, <2>1, <2>3
  <2>6. v[n].s \in Progress /\ v[n].s.approved \subseteq R /\ (v[n].ok => r.ok /\ a \in R)
    BY <1>8, <2>2, <2>4, <2>5, VerifySound
  <2>7. \A i \in 1 .. n : i = n \/ i \in 1 .. n - 1
    OBVIOUS
  <2>8. Yes(n)
    BY <2>2, <2>3, <2>6, <2>7
  <2>9. n \in 0 .. L
    BY <1>6
  <2> HIDE DEF Yes
  <2> QED BY <2>8, <2>9
<1>15. L \in Good
  <2>1. L \in 0 .. L
    BY <1>6
  <2> HIDE DEF Good
  <2> QED BY <1>6, <1>13, <1>14, <2>1, PrefixInduction
<1>16. \A i \in 1 .. L : required[i] \in R
  BY <1>11, <1>15
<1> QED BY <1>1, <1>3, <1>6, <1>16 DEF ToSet

----------------------------------------------------------------------------
(* The inductive invariant: a transaction that was applied is on the list, *)
(* or the chain is past its expiration, in the head and in every copy that *)
(* an undo can bring back.                                                 *)

Remembered(h) ==
  /\ h = [time |-> h.time, transactions |-> h.transactions,
          applied |-> h.applied, repeated |-> h.repeated]
  /\ h.time \in Nat
  /\ h.repeated = {}
  /\ \A t \in h.applied : /\ t.expiration \in Nat
                          /\ t \in h.transactions \/ t.expiration < h.time

TransactionsInv ==
  /\ Remembered(head)
  /\ \E S : undo \in Seq(S)
  /\ Len(undo) > 0
  /\ \A i \in 1 .. Len(undo) : Remembered(undo[i].head)

(***************************************************************************)
(* _apply_transaction keeps every transaction that can come again on the   *)
(* list: one that is off it and was applied has expired.                   *)
(***************************************************************************)
LEMMA TransactionRemembered ==
  ASSUME Remembered(head), NEW t, ApplyTransaction(t), t.expiration \in Expirations
  PROVE  Remembered(head)'
<1> DEFINE h == head
<1>1. MaxUntilExpiration \in Nat
  BY ProposalsAssumption DEF ProposalsAssumption
<1>2. t.expiration \in Nat
  BY <1>1 DEF Expirations, Remembered
<1>3. t \notin head.transactions /\ head.time <= t.expiration
  BY DEF ApplyTransaction
<1>4. t \notin head.applied
  BY <1>2, <1>3 DEF Remembered
<1>5. head' = [head EXCEPT !.transactions = @ \cup {t}, !.applied = @ \cup {t}]
  BY <1>4 DEF ApplyTransaction, Remembered
<1>6. head' = [time |-> head.time, transactions |-> head.transactions \cup {t},
               applied |-> head.applied \cup {t}, repeated |-> head.repeated]
  BY <1>5 DEF Remembered
<1> QED
  BY <1>2, <1>6 DEF Remembered

(***************************************************************************)
(* clear_expired_transactions, after the time of the head has moved on.    *)
(***************************************************************************)
LEMMA BlockRemembered ==
  ASSUME Remembered(head), NEW time \in Nat, time > head.time,
         head' = [head EXCEPT !.time = time, !.transactions = Unexpired(@, time)]
  PROVE  Remembered(head)'
<1>1. head' = [time |-> time, transactions |-> Unexpired(head.transactions, time),
               applied |-> head.applied, repeated |-> head.repeated]
  BY DEF Remembered
<1>2. ASSUME NEW t \in head.applied
      PROVE  t.expiration \in Nat /\ (t \in Unexpired(head.transactions, time) \/ t.expiration < time)
  <2>1. t.expiration \in Nat /\ (t \in head.transactions \/ t.expiration < head.time)
    BY DEF Remembered
  <2>2. CASE t.expiration < head.time
    BY <2>1, <2>2 DEF Remembered
  <2>3. CASE t \in head.transactions
    BY <2>1, <2>3 DEF Unexpired
  <2> QED
    BY <2>1, <2>2, <2>3
<1> QED
  BY <1>1, <1>2 DEF Remembered

(***************************************************************************)
(* The copies stay sound when one is added at the end and the oldest goes. *)
(***************************************************************************)
LEMMA CopyAdded ==
  ASSUME NEW S, NEW u \in Seq(S), \A i \in 1 .. Len(u) : Remembered(u[i].head),
         NEW c, Remembered(c.head), NEW v,
         v = (IF Len(Append(u, c)) > MaxUndo THEN Tail(Append(u, c)) ELSE Append(u, c))
  PROVE  /\ v \in Seq(S \cup {c}) /\ Len(v) > 0
         /\ \A i \in 1 .. Len(v) : Remembered(v[i].head)
<1> DEFINE w == Append(u, c)
<1>1. /\ w \in Seq(S \cup {c}) /\ Len(w) = Len(u) + 1
      /\ \A i \in 1 .. Len(u) : w[i] = u[i]
      /\ w[Len(u) + 1] = c
  <2>1. u \in Seq(S \cup {c})
    OBVIOUS
  <2> QED
    BY <2>1
<1>2. \A i \in 1 .. Len(w) : Remembered(w[i].head)
  BY <1>1
<1>3. CASE Len(w) > MaxUndo
  <2>1. MaxUndo \in Nat \ {0} /\ Len(w) > 1
    BY <1>1, <1>3, ProposalsAssumption DEF ProposalsAssumption
  <2>2. /\ v = Tail(w) /\ Len(v) = Len(w) - 1 /\ v \in Seq(S \cup {c})
        /\ \A i \in 1 .. Len(v) : v[i] = w[i + 1] /\ i + 1 \in 1 .. Len(w)
    BY <1>1, <1>3, <2>1
  <2> QED
    BY <1>2, <2>1, <2>2
<1>4. CASE ~(Len(w) > MaxUndo)
  BY <1>1, <1>2, <1>4
<1> QED
  BY <1>3, <1>4

(***************************************************************************)
(* TransactionsInv holds in every reachable state.                         *)
(***************************************************************************)
THEOREM TransactionsInvariant == Spec => []TransactionsInv
<1>1. Init => TransactionsInv
  <2> SUFFICES ASSUME Init PROVE TransactionsInv
    OBVIOUS
  <2>1. Remembered(head)
    BY DEF Init, Remembered
  <2>2. undo = <<[head |-> head, db |-> db]>>
    BY DEF Init
  <2>3. undo \in Seq({[head |-> head, db |-> db]}) /\ Len(undo) = 1 /\ undo[1].head = head
    BY <2>2
  <2> QED
    BY <2>1, <2>3 DEF TransactionsInv
<1>2. TransactionsInv /\ [Next]_vars => TransactionsInv'
  <2> SUFFICES ASSUME TransactionsInv, [Next]_vars PROVE TransactionsInv'
    OBVIOUS
  <2>1. ASSUME NEW t, ApplyTransaction(t), t.expiration \in Expirations, UNCHANGED undo
        PROVE  TransactionsInv'
    BY <2>1, TransactionRemembered DEF TransactionsInv, Remembered
  <2>2. ASSUME NEW o \in Operations, NEW p \in Terms, NEW e \in Expirations,
               Create(o, head.time + p.lifetime, p.review, e)
        PROVE  TransactionsInv'
    BY <2>1, <2>2 DEF Create
  <2>3. ASSUME NEW id \in DOMAIN db.proposals, NEW a \in Approvals, NEW ok \in BOOLEAN,
               NEW e \in Expirations, Update(id, a, ok, e)
        PROVE  TransactionsInv'
    BY <2>1, <2>3 DEF Update
  <2>4. ASSUME NEW id \in DOMAIN db.proposals, NEW a \in Accounts, NEW e \in Expirations,
               Delete(id, a, e)
        PROVE  TransactionsInv'
    BY <2>1, <2>4 DEF Delete
  <2>5. ASSUME NEW time \in 1 .. MaxTime, NEW failing, EndBlock(time, failing)
        PROVE  TransactionsInv'
    <3>1. time \in Nat /\ time > head.time
          /\ head' = [head EXCEPT !.time = time, !.transactions = Unexpired(@, time)]
      BY <2>5, ProposalsAssumption DEF EndBlock, ProposalsAssumption
    <3>2. Remembered(head)'
      BY <3>1, BlockRemembered DEF TransactionsInv
    <3>3. PICK c : c = [head |-> head', db |-> db']
      OBVIOUS
    <3>4. Remembered(c.head)
      BY <3>2, <3>3 DEF Remembered
    <3>5. undo' = (IF Len(Append(undo, c)) > MaxUndo THEN Tail(Append(undo, c)) ELSE Append(undo, c))
      BY <2>5, <3>3, Zenon DEF EndBlock
    <3>6. PICK S : undo \in Seq(S)
      BY DEF TransactionsInv
    <3>7. PICK v : v = undo'
      OBVIOUS
    <3>8. v \in Seq(S \cup {c}) /\ Len(v) > 0 /\ \A i \in 1 .. Len(v) : Remembered(v[i].head)
      BY <3>4, <3>5, <3>6, <3>7, CopyAdded DEF TransactionsInv
    <3> QED
      BY <3>2, <3>7, <3>8 DEF TransactionsInv, Remembered
  <2>6. PICK S : undo \in Seq(S)
    BY DEF TransactionsInv
  <2>7. CASE Reset
    <3>1. head' = undo[Len(undo)].head /\ undo' = undo
      BY <2>7 DEF Reset, Undone, Last
    <3> QED
      BY <2>6, <3>1 DEF TransactionsInv, Remembered
  <2>8. CASE Pop
    <3>1. /\ head' = undo[Len(undo) - 1].head /\ Len(undo) > 1
          /\ undo' = SubSeq(undo, 1, Len(undo) - 1)
      BY <2>8 DEF Pop, Undone, Front
    <3>2. /\ undo' \in Seq(S) /\ Len(undo') = Len(undo) - 1
          /\ \A i \in 1 .. Len(undo') : undo'[i] = undo[i] /\ i \in 1 .. Len(undo)
      BY <2>6, <3>1
    <3>3. Len(undo) - 1 \in 1 .. Len(undo)
      BY <2>6, <3>1
    <3>4. Remembered(undo[Len(undo) - 1].head)
      BY <3>3 DEF TransactionsInv
    <3>5. Remembered(head)'
      BY <3>1, <3>4 DEF Remembered
    <3>6. PICK v : v = undo'
      OBVIOUS
    <3>7. \A i \in 1 .. Len(v) : Remembered(v[i].head)
      BY <3>2, <3>6 DEF TransactionsInv
    <3>8. v \in Seq(S) /\ Len(v) > 0
      BY <2>6, <3>1, <3>2, <3>6
    <3> QED
      BY <3>5, <3>6, <3>7, <3>8 DEF TransactionsInv, Remembered
  <2>9. CASE Restart
    <3>1. head' = undo[1].head /\ undo' = <<undo[1]>>
      <4>1. head' = Head(undo).head /\ undo' = <<Head(undo)>>
        BY <2>9, Zenon DEF Restart
      <4>2. Head(undo) = undo[1]
        BY <2>6 DEF TransactionsInv
      <4> QED
        BY <4>1, <4>2, Zenon
    <3>2. 1 \in 1 .. Len(undo)
      BY <2>6 DEF TransactionsInv
    <3>3. undo' \in Seq({undo[1]}) /\ Len(undo') = 1 /\ undo'[1] = undo[1]
      BY <3>1
    <3> QED
      BY <3>1, <3>2, <3>3 DEF TransactionsInv, Remembered
  <2>10. CASE UNCHANGED vars
    BY <2>10 DEF vars, TransactionsInv, Remembered
  <2> QED
    BY <2>2, <2>3, <2>4, <2>5, <2>7, <2>8, <2>9, <2>10 DEF Next
<1> QED
  BY <1>1, <1>2, PTL DEF Spec

(***************************************************************************)
(* No transaction is applied twice on one chain, for any lifetimes, undo   *)
(* states and popped blocks.                                               *)
(***************************************************************************)
THEOREM TransactionsAppliedOnce == Spec => []AppliedOnce
<1>1. TransactionsInv => AppliedOnce
  BY DEF TransactionsInv, Remembered, AppliedOnce
<1> QED
  BY <1>1, TransactionsInvariant, PTL

----------------------------------------------------------------------------
(* The queue: by_expiration. *)

\* i comes before j: by expiration, then by id unless an undo put one of them back.
Before(p, back, i, j) ==
  \/ p[i].expiration < p[j].expiration
  \/ p[i].expiration = p[j].expiration /\ ({i, j} \cap back = {} => i < j)

IsQueueOf(q, p, back) ==
  /\ q \in Seq(DOMAIN p) /\ IsInjective(q) /\ ToSet(q) = DOMAIN p
  /\ \A i, j \in DOMAIN q : i < j => Before(p, back, q[i], q[j])

Dated(p) == \A id \in DOMAIN p : id \in Nat /\ p[id].expiration \in Nat

\* r holds the m elements of a, then the n of b.
Joined(r, S, a, m, b, n) ==
  /\ r \in Seq(S) /\ Len(r) = m + n
  /\ \A i \in 1 .. m : r[i] = a[i]
  /\ \A i \in m + 1 .. m + n : r[i] = b[i - m]

(***************************************************************************)
(* The places of a concatenation.                                          *)
(***************************************************************************)
LEMMA JoinedPlaces ==
  ASSUME NEW S, NEW a \in Seq(S), NEW b \in Seq(S), NEW m, m = Len(a), NEW n, n = Len(b),
         NEW r, r = a \o b
  PROVE  Joined(r, S, a, m, b, n)
BY DEF Joined

\* r holds the L elements of q, and id after the first k.
Inserted(r, S, q, L, k, id) ==
  /\ r \in Seq(S) /\ Len(r) = L + 1
  /\ \A i \in 1 .. k : r[i] = q[i]
  /\ r[k + 1] = id
  /\ \A i \in k + 2 .. L + 1 : r[i] = q[i - 1]

\* r holds the L elements of q but the one at k.
Shortened(r, S, q, L, k) ==
  /\ r \in Seq(S) /\ Len(r) = L - 1
  /\ \A i \in 1 .. k - 1 : r[i] = q[i]
  /\ \A i \in k .. L - 1 : r[i] = q[i + 1]

(***************************************************************************)
(* The places after an insertion.                                          *)
(***************************************************************************)
LEMMA InsertedPlaces ==
  ASSUME NEW S, NEW q \in Seq(S), NEW L, L = Len(q), NEW k \in 0 .. L, NEW id \in S,
         NEW r, r = InsertedAfter(q, k, id)
  PROVE  Inserted(r, S, q, L, k, id)
<1>1. PICK a, b : a = SubSeq(q, 1, k) /\ b = SubSeq(q, k + 1, Len(q))
  OBVIOUS
<1>2. a \in Seq(S) /\ Len(a) = k /\ \A i \in 1 .. k : a[i] = q[i]
  BY <1>1
<1>3. b \in Seq(S) /\ Len(b) = Len(q) - k /\ \A i \in 1 .. Len(q) - k : b[i] = q[i + k]
  BY <1>1
<1>4. r = a \o <<id>> \o b
  BY <1>1 DEF InsertedAfter
<1>5. PICK c : c = a \o <<id>>
  OBVIOUS
<1>6. c \in Seq(S) /\ Len(c) = k + 1 /\ (\A i \in 1 .. k : c[i] = q[i]) /\ c[k + 1] = id
  BY <1>2, <1>5
<1>7. r = c \o b
  BY <1>4, <1>5
<1>8. L \in Nat
  OBVIOUS
<1>9. PICK m, n : m = k + 1 /\ n = L - k
  OBVIOUS
<1>10. m \in Nat /\ n \in Nat /\ m + n = L + 1
  BY <1>8, <1>9
<1>11. Joined(r, S, c, m, b, n)
  <2>1. m = Len(c) /\ n = Len(b)
    BY <1>3, <1>6, <1>9
  <2> QED BY ONLY <1>3, <1>6, <1>7, <2>1, JoinedPlaces, Zenon
<1>12. ASSUME NEW i \in 1 .. k PROVE r[i] = q[i]
  BY <1>6, <1>9, <1>10, <1>11, i \in 1 .. m DEF Joined
<1>13. r[k + 1] = id
  BY <1>6, <1>9, <1>10, <1>11, k + 1 \in 1 .. m DEF Joined
<1>14. ASSUME NEW i \in k + 2 .. L + 1 PROVE r[i] = q[i - 1]
  <2>1. PICK j : j = i - m
    OBVIOUS
  <2>2. i \in m + 1 .. m + n /\ j \in 1 .. L - k /\ j + k = i - 1
    BY <1>8, <1>9, <1>10, <2>1
  <2>3. r[i] = b[j]
    BY <1>11, <2>1, <2>2 DEF Joined
  <2>4. b[j] = q[j + k]
    BY <1>3, <2>2
  <2> QED BY <2>2, <2>3, <2>4
<1>15. r \in Seq(S) /\ Len(r) = L + 1
  BY <1>10, <1>11 DEF Joined
<1> QED BY ONLY <1>12, <1>13, <1>14, <1>15, Zenon DEF Inserted

(***************************************************************************)
(* The places after a removal.                                             *)
(***************************************************************************)
LEMMA RemovedPlaces ==
  ASSUME NEW S, NEW q \in Seq(S), NEW L, L = Len(q), NEW k \in 1 .. L, NEW r, r = RemoveAt(q, k)
  PROVE  Shortened(r, S, q, L, k)
<1>1. PICK a, b : a = SubSeq(q, 1, k - 1) /\ b = SubSeq(q, k + 1, Len(q))
  OBVIOUS
<1>2. a \in Seq(S) /\ Len(a) = k - 1 /\ \A i \in 1 .. k - 1 : a[i] = q[i]
  BY <1>1
<1>3. b \in Seq(S) /\ Len(b) = Len(q) - k /\ \A i \in 1 .. Len(q) - k : b[i] = q[i + k]
  BY <1>1
<1>4. r = a \o b
  BY <1>1 DEF RemoveAt
<1>5. L \in Nat
  OBVIOUS
<1>6. PICK m, n : m = k - 1 /\ n = L - k
  OBVIOUS
<1>7. m \in Nat /\ n \in Nat /\ m + n = L - 1
  BY <1>5, <1>6
<1>8. Joined(r, S, a, m, b, n)
  <2>1. m = Len(a) /\ n = Len(b)
    BY <1>2, <1>3, <1>6
  <2> QED BY ONLY <1>2, <1>3, <1>4, <2>1, JoinedPlaces, Zenon
<1>9. ASSUME NEW i \in 1 .. k - 1 PROVE r[i] = q[i]
  BY <1>2, <1>6, <1>8 DEF Joined
<1>10. ASSUME NEW i \in k .. L - 1 PROVE r[i] = q[i + 1]
  <2>1. PICK j : j = i - m
    OBVIOUS
  <2>2. i \in m + 1 .. m + n /\ j \in 1 .. L - k /\ j + k = i + 1
    BY <1>5, <1>6, <1>7, <2>1
  <2>3. r[i] = b[j]
    BY <1>8, <2>1, <2>2 DEF Joined
  <2>4. b[j] = q[j + k]
    BY <1>3, <2>2
  <2> QED BY <2>2, <2>3, <2>4
<1>11. r \in Seq(S) /\ Len(r) = L - 1
  BY <1>7, <1>8 DEF Joined
<1> QED BY ONLY <1>9, <1>10, <1>11, Zenon DEF Shortened

(***************************************************************************)
(* In a queue those that expire by some time are the first, as many as     *)
(* they are.                                                               *)
(***************************************************************************)
LEMMA DueAreFirst ==
  ASSUME NEW p, Dated(p), NEW back, NEW q, IsQueueOf(q, p, back), NEW time \in Nat,
         NEW k, k = Cardinality({i \in DOMAIN q : p[q[i]].expiration <= time})
  PROVE  /\ k \in 0 .. Len(q)
         /\ \A i \in DOMAIN q : i <= k <=> p[q[i]].expiration <= time
<1>1. PICK S : S = {i \in DOMAIN q : p[q[i]].expiration <= time}
  OBVIOUS
<1>2. Len(q) \in Nat /\ DOMAIN q = 1 .. Len(q) /\ \A i \in DOMAIN q : q[i] \in DOMAIN p
  BY DEF IsQueueOf
<1>3. ASSUME NEW i \in S, NEW j \in 1 .. Len(q), j <= i PROVE j \in S
  <2>1. i \in DOMAIN q /\ j \in DOMAIN q /\ p[q[i]].expiration <= time
    BY <1>1, <1>2
  <2>2. p[q[i]].expiration \in Nat /\ p[q[j]].expiration \in Nat
    BY <1>2, <2>1 DEF Dated
  <2>3. p[q[j]].expiration <= p[q[i]].expiration
    <3>1. CASE j = i
      BY <2>2, <3>1
    <3>2. CASE j # i
      <4>1. j < i
        BY <1>2, <1>3, <2>1, <3>2
      <4>2. Before(p, back, q[j], q[i])
        BY <2>1, <4>1 DEF IsQueueOf
      <4> QED BY <2>2, <4>2 DEF Before
    <3> QED BY <3>1, <3>2
  <2> QED BY <1>1, <2>1, <2>2, <2>3
<1>4. Cardinality(S) \in 0 .. Len(q) /\ S = 1 .. Cardinality(S)
  BY <1>1, <1>2, <1>3, PrefixCount
<1>5. S = 1 .. k /\ k \in 0 .. Len(q)
  BY <1>1, <1>4
<1>6. ASSUME NEW i \in DOMAIN q PROVE i <= k <=> p[q[i]].expiration <= time
  <2>1. i \in S <=> p[q[i]].expiration <= time
    BY <1>1
  <2>2. i \in S <=> i <= k
    BY <1>2, <1>5
  <2> QED BY <2>1, <2>2
<1> QED BY <1>5, <1>6

(***************************************************************************)
(* A new proposal, with an id above all, takes its place in the queue.     *)
(***************************************************************************)
LEMMA EnqueuedKeepsQueue ==
  ASSUME NEW p, Dated(p), NEW back, NEW q, IsQueueOf(q, p, back), NEW id \in Nat,
         \A j \in DOMAIN p : j < id, NEW v, v.expiration \in Nat, NEW p2, p2 = With(p, id, v)
  PROVE  IsQueueOf(Enqueued(q, p2, id), p2, back \ {id})
<1>1. PICK L : L = Len(q)
  OBVIOUS
<1>2. L \in Nat /\ DOMAIN q = 1 .. L /\ \A i \in 1 .. L : q[i] \in DOMAIN p
  BY <1>1 DEF IsQueueOf
<1>3. id \notin DOMAIN p
  BY DEF Dated
<1>4. /\ DOMAIN p2 = DOMAIN p \cup {id} /\ p2[id] = v
      /\ \A j \in DOMAIN p : p2[j] = p[j]
  BY <1>3 DEF With
<1>5. PICK k : k = Cardinality({i \in DOMAIN q : p2[q[i]].expiration <= p2[id].expiration})
  OBVIOUS
<1>6. {i \in DOMAIN q : p2[q[i]].expiration <= p2[id].expiration}
        = {i \in DOMAIN q : p[q[i]].expiration <= v.expiration}
  BY <1>2, <1>4
<1>7. k \in 0 .. L /\ \A i \in 1 .. L : i <= k <=> p[q[i]].expiration <= v.expiration
  BY <1>1, <1>2, <1>5, <1>6, DueAreFirst
<1>8. PICK r : r = Enqueued(q, p2, id)
  OBVIOUS
<1>9. r = InsertedAfter(q, k, id)
  BY <1>5, <1>8 DEF Enqueued
<1>10. q \in Seq(DOMAIN p2) /\ id \in DOMAIN p2
  BY <1>4 DEF IsQueueOf
<1>11. /\ r \in Seq(DOMAIN p2) /\ Len(r) = L + 1
       /\ \A i \in 1 .. k : r[i] = q[i]
       /\ r[k + 1] = id
       /\ \A i \in k + 2 .. L + 1 : r[i] = q[i - 1]
  <2>1. PICK S : S = DOMAIN p2
    OBVIOUS
  <2>2. q \in Seq(S) /\ k \in 0 .. L /\ id \in S
    BY <1>7, <1>10, <2>1
  <2>3. Inserted(r, S, q, L, k, id)
    BY ONLY <1>1, <1>9, <2>2, InsertedPlaces, Zenon
  <2> QED BY <2>1, <2>3 DEF Inserted
<1>12. DOMAIN r = 1 .. L + 1
  BY <1>2, <1>11
\* The place in q of what is at i in r, when that is not the new one.
<1> DEFINE was(i) == IF i <= k THEN i ELSE i - 1
<1>13. ASSUME NEW i \in 1 .. L + 1, i # k + 1
       PROVE  was(i) \in 1 .. L /\ r[i] = q[was(i)] /\ (was(i) <= k <=> i <= k)
  <2>1. CASE i <= k
    BY <1>2, <1>7, <1>11, <2>1
  <2>2. CASE ~(i <= k)
    <3>1. i \in k + 2 .. L + 1 /\ i - 1 \in 1 .. L
      BY <1>2, <1>7, <1>13, <2>2
    <3> QED BY <1>2, <1>7, <1>11, <2>2, <3>1
  <2> QED BY <2>1, <2>2
<1>14. ASSUME NEW i \in 1 .. L + 1, NEW j \in 1 .. L + 1, i < j
       PROVE  r[i] # r[j] /\ Before(p2, back \ {id}, r[i], r[j])
  <2>1. CASE i = k + 1
    <3>1. j # k + 1 /\ ~(j <= k)
      BY <1>2, <1>7, <1>14, <2>1
    <3>2. PICK n \in 1 .. L : n = was(j)
      BY <1>13, <3>1
    <3>3. r[j] = q[n] /\ ~(n <= k) /\ q[n] \in DOMAIN p /\ r[i] = id
      BY <1>2, <1>11, <1>13, <2>1, <3>1, <3>2
    <3>4. ~(p[q[n]].expiration <= v.expiration) /\ p[q[n]].expiration \in Nat
      BY <1>7, <3>3 DEF Dated
    <3>5. p2[r[i]].expiration < p2[r[j]].expiration
      BY <1>4, <3>3, <3>4
    <3> QED BY <1>3, <3>3, <3>5 DEF Before
  <2>2. CASE j = k + 1
    <3>1. i # k + 1 /\ i <= k
      BY <1>2, <1>7, <1>14, <2>2
    <3>2. PICK n \in 1 .. L : n = was(i)
      BY <1>13, <3>1
    <3>3. r[i] = q[n] /\ n <= k /\ q[n] \in DOMAIN p /\ r[j] = id
      BY <1>2, <1>11, <1>13, <2>2, <3>1, <3>2
    <3>4. p[q[n]].expiration <= v.expiration /\ p[q[n]].expiration \in Nat /\ q[n] < id
      BY <1>7, <3>3 DEF Dated
    <3>5. p2[r[i]].expiration <= p2[r[j]].expiration
          /\ p2[r[i]].expiration \in Nat /\ p2[r[j]].expiration \in Nat /\ r[i] < r[j]
      BY <1>4, <3>3, <3>4
    <3> QED BY <1>3, <3>3, <3>5 DEF Before
  <2>3. CASE i # k + 1 /\ j # k + 1
    <3>1. PICK m \in 1 .. L, n \in 1 .. L : m = was(i) /\ n = was(j)
      BY <1>13, <2>3
    <3>2. r[i] = q[m] /\ r[j] = q[n] /\ (m <= k <=> i <= k) /\ (n <= k <=> j <= k)
      BY <1>13, <2>3, <3>1
    <3>3. m < n
      BY <1>2, <1>7, <1>14, <2>3, <3>1
    <3>4. q[m] # q[n] /\ Before(p, back, q[m], q[n])
      BY <1>2, <3>3 DEF IsQueueOf, IsInjective
    <3>5. q[m] \in DOMAIN p /\ q[n] \in DOMAIN p
      BY <1>2
    <3> QED BY <1>3, <1>4, <3>2, <3>4, <3>5 DEF Before
  <2> QED BY <2>1, <2>2, <2>3
<1>15. IsInjective(r)
  <2> SUFFICES ASSUME NEW i \in 1 .. L + 1, NEW j \in 1 .. L + 1, i # j PROVE r[i] # r[j]
    BY <1>12 DEF IsInjective
  <2>1. i < j \/ j < i
    BY <1>2
  <2> QED BY <1>14, <2>1
<1>16. ToSet(r) = DOMAIN p2
  <2>1. ToSet(r) \subseteq DOMAIN p2
    BY <1>11, <1>12 DEF ToSet
  <2>2. ASSUME NEW j \in DOMAIN p2 PROVE \E i \in 1 .. L + 1 : r[i] = j
    <3>1. CASE j = id
      BY <1>2, <1>7, <1>11, <3>1, k + 1 \in 1 .. L + 1
    <3>2. CASE j # id
      <4>1. j \in DOMAIN p
        BY <1>4, <3>2
      <4>2. PICK n \in 1 .. L : q[n] = j
        BY <1>2, <4>1 DEF IsQueueOf, ToSet
      <4>3. CASE n <= k
        BY <1>2, <1>7, <1>11, <4>2, <4>3, n \in 1 .. L + 1
      <4>4. CASE ~(n <= k)
        <5>1. n + 1 \in k + 2 .. L + 1 /\ n + 1 \in 1 .. L + 1 /\ (n + 1) - 1 = n
          BY <1>2, <1>7, <4>4
        <5> QED BY <1>11, <4>2, <5>1
      <4> QED BY <4>3, <4>4
    <3> QED BY <3>1, <3>2
  <2> QED BY <1>12, <2>1, <2>2 DEF ToSet
<1> QED BY <1>8, <1>11, <1>12, <1>14, <1>15, <1>16 DEF IsQueueOf

(***************************************************************************)
(* The place of a proposal, and the queue without it.                      *)
(***************************************************************************)
LEMMA RemovedKeepsQueue ==
  ASSUME NEW p, NEW back, NEW q, IsQueueOf(q, p, back), NEW id \in DOMAIN p,
         NEW k, k = PlaceOf(q, id), NEW r, r = RemoveAt(q, k)
  PROVE  /\ k \in 1 .. Len(q) /\ q[k] = id
         /\ IsQueueOf(r, Without(p, id), back)
         /\ Shortened(r, DOMAIN p, q, Len(q), k)
<1>1. PICK L : L = Len(q)
  OBVIOUS
<1>2. L \in Nat /\ DOMAIN q = 1 .. L /\ \A i \in 1 .. L : q[i] \in DOMAIN p
  BY <1>1 DEF IsQueueOf
<1>3. k \in 1 .. L /\ q[k] = id
  <2>1. \E i \in DOMAIN q : q[i] = id
    BY DEF IsQueueOf, ToSet
  <2> QED BY <1>2, <2>1 DEF PlaceOf
<1>4. Shortened(r, DOMAIN p, q, L, k)
  <2>1. PICK S : S = DOMAIN p
    OBVIOUS
  <2>2. q \in Seq(S)
    BY <2>1 DEF IsQueueOf
  <2>3. Shortened(r, S, q, L, k)
    BY ONLY <1>1, <1>3, <2>2, r = RemoveAt(q, k), RemovedPlaces, Zenon
  <2> QED BY <2>1, <2>3
<1>5. PICK p2 : p2 = Without(p, id)
  OBVIOUS
<1>6. DOMAIN p2 = DOMAIN p \ {id} /\ \A j \in DOMAIN p2 : p2[j] = p[j]
  BY <1>5 DEF Without
<1>7. Len(r) = L - 1 /\ DOMAIN r = 1 .. L - 1 /\ r \in Seq(DOMAIN p)
  BY <1>2, <1>4 DEF Shortened
\* The place in q of what is at i in r.
<1> DEFINE was(i) == IF i < k THEN i ELSE i + 1
<1>8. ASSUME NEW i \in 1 .. L - 1
      PROVE  was(i) \in 1 .. L /\ was(i) # k /\ r[i] = q[was(i)]
  <2>1. CASE i < k
    <3>1. i \in 1 .. k - 1 /\ i \in 1 .. L
      BY <1>2, <1>3, <2>1
    <3> QED BY <1>3, <1>4, <2>1, <3>1 DEF Shortened
  <2>2. CASE ~(i < k)
    <3>1. i \in k .. L - 1 /\ i + 1 \in 1 .. L /\ i + 1 # k
      BY <1>2, <1>3, <2>2
    <3> QED BY <1>4, <2>2, <3>1 DEF Shortened
  <2> QED BY <2>1, <2>2
<1>9. ASSUME NEW i \in 1 .. L - 1 PROVE r[i] \in DOMAIN p2
  <2>1. PICK m \in 1 .. L : m = was(i)
    BY <1>8
  <2>2. m # k /\ r[i] = q[m]
    BY <1>8, <2>1
  <2>3. q[m] # id
    BY <1>2, <1>3, <2>2 DEF IsQueueOf, IsInjective
  <2> QED BY <1>2, <1>6, <2>2, <2>3
<1>10. ASSUME NEW i \in 1 .. L - 1, NEW j \in 1 .. L - 1, i < j
       PROVE  r[i] # r[j] /\ Before(p2, back, r[i], r[j])
  <2>1. PICK m \in 1 .. L, n \in 1 .. L : m = was(i) /\ n = was(j)
    BY <1>8
  <2>2. r[i] = q[m] /\ r[j] = q[n]
    BY <1>8, <2>1
  <2>3. m < n
    BY <1>2, <1>3, <1>10, <2>1
  <2>4. q[m] # q[n] /\ Before(p, back, q[m], q[n])
    BY <1>2, <2>3 DEF IsQueueOf, IsInjective
  <2>5. p2[r[i]] = p[q[m]] /\ p2[r[j]] = p[q[n]]
    BY <1>6, <1>9, <2>2
  <2> QED BY <2>2, <2>4, <2>5 DEF Before
<1>11. IsInjective(r)
  <2> SUFFICES ASSUME NEW i \in 1 .. L - 1, NEW j \in 1 .. L - 1, i # j PROVE r[i] # r[j]
    BY <1>7 DEF IsInjective
  <2>1. i < j \/ j < i
    BY <1>2
  <2> QED BY <1>10, <2>1
<1>12. ASSUME NEW j \in DOMAIN p2 PROVE \E i \in 1 .. L - 1 : r[i] = j
  <2>1. j \in DOMAIN p /\ j # id
    BY <1>6
  <2>2. PICK n \in 1 .. L : q[n] = j
    BY <1>2, <2>1 DEF IsQueueOf, ToSet
  <2>3. n # k
    BY <1>3, <2>1, <2>2
  <2>4. CASE n < k
    <3>1. n \in 1 .. k - 1 /\ n \in 1 .. L - 1
      BY <1>2, <1>3, <2>4
    <3> QED BY <1>4, <2>2, <3>1 DEF Shortened
  <2>5. CASE ~(n < k)
    <3>1. PICK i : i = n - 1
      OBVIOUS
    <3>2. i \in k .. L - 1 /\ i \in 1 .. L - 1 /\ i + 1 = n
      BY <1>2, <1>3, <2>3, <2>5, <3>1
    <3> QED BY <1>4, <2>2, <3>2 DEF Shortened
  <2> QED BY <2>4, <2>5
<1>13. ToSet(r) = DOMAIN p2
  BY <1>7, <1>9, <1>12 DEF ToSet
<1>14. r \in Seq(DOMAIN p2)
  BY <1>7, <1>9
<1>15. IsQueueOf(r, p2, back)
  BY <1>7, <1>10, <1>11, <1>13, <1>14 DEF IsQueueOf
<1> QED BY <1>1, <1>3, <1>4, <1>5, <1>15

(***************************************************************************)
(* A queue depends on the expirations of the proposals alone.              *)
(***************************************************************************)
LEMMA SameDatesKeepQueue ==
  ASSUME NEW p, NEW back, NEW q, IsQueueOf(q, p, back), NEW p2, DOMAIN p2 = DOMAIN p,
         \A id \in DOMAIN p : p2[id].expiration = p[id].expiration
  PROVE  IsQueueOf(q, p2, back)
<1>1. \A i \in DOMAIN q : q[i] \in DOMAIN p
  BY DEF IsQueueOf
<1> QED BY <1>1 DEF IsQueueOf, Before

(***************************************************************************)
(* What undo and open leave of the queue: the proposals by expiration, and *)
(* by id where the order of those that expire together keeps to ids.       *)
(***************************************************************************)
LEMMA ChosenIsQueue ==
  ASSUME NEW p, IsFiniteSet(DOMAIN p), NEW q \in SetToSeqs(DOMAIN p), NEW ties, IsQueue(q, p, ties),
         NEW back, \A i, j \in DOMAIN p :
            (<<i, j>> \in ties /\ p[i].expiration = p[j].expiration /\ {i, j} \cap back = {}) => i < j
  PROVE  IsQueueOf(q, p, back)
<1>1. PICK D : D = DOMAIN p
  OBVIOUS
<1>2. PICK n : n = Cardinality(D)
  OBVIOUS
<1>3. n \in Nat /\ IsFiniteSet(D)
  BY <1>1, <1>2, FS_CardinalityType
<1>4. q \in [1 .. n -> D] /\ \A i, j \in 1 .. n : i # j => q[i] # q[j]
  BY <1>1, <1>2 DEF SetToSeqs
<1>5. q \in Seq(D) /\ DOMAIN q = 1 .. n
  BY <1>3, <1>4
<1>6. IsInjective(q)
  BY <1>4 DEF IsInjective
<1>7. q \in Injection(1 .. n, D)
  BY <1>4, <1>6 DEF Injection
<1>8. IsFiniteSet(1 .. n) /\ Cardinality(1 .. n) = n
  BY <1>3, FS_Interval
<1>9. q \in Surjection(1 .. n, D)
  BY ONLY <1>2, <1>3, <1>7, <1>8, FS_Injection
<1>10. ToSet(q) = D
  BY <1>4, <1>9 DEF Surjection, ToSet
<1>11. ASSUME NEW i \in DOMAIN q, NEW j \in DOMAIN q, i < j PROVE Before(p, back, q[i], q[j])
  <2>1. \/ p[q[i]].expiration < p[q[j]].expiration
        \/ p[q[i]].expiration = p[q[j]].expiration /\ <<q[i], q[j]>> \in ties
    BY <1>11 DEF IsQueue
  <2>2. q[i] \in DOMAIN p /\ q[j] \in DOMAIN p
    BY <1>1, <1>4, <1>5
  <2> QED BY <2>1, <2>2 DEF Before
<1> QED BY <1>1, <1>5, <1>6, <1>10, <1>11 DEF IsQueueOf

----------------------------------------------------------------------------
(* The inductive invariant of proposals, in the head and in every copy     *)
(* that an undo can bring back.                                            *)

IsProposal(p, time) ==
  /\ DOMAIN p = {"operation", "expiration", "review", "active", "keys", "early"}
  /\ p.operation \in Operations
  /\ p.expiration \in Nat /\ p.review \in Nat /\ p.review <= p.expiration
  /\ p.active \subseteq Accounts /\ p.keys \subseteq Keys
  /\ (p.review # NoReview /\ time >= p.review) => p.active \subseteq p.early

\* An execution with the approvals it needs.
IsApproved(e) ==
  LET p == e.proposal
  IN  /\ ToSet(Required[p.operation]) \subseteq Approving(e.authority, p.active, p.keys)
      /\ p.review # NoReview => e.time >= p.expiration /\ p.active \subseteq p.early

DbInv(d, time) ==
  /\ DOMAIN d = {"proposals", "next", "authority", "executed"}
  /\ d.next \in Nat
  /\ d.authority \in [Accounts -> Authority]
  /\ \A id \in DOMAIN d.proposals : id \in Nat /\ id < d.next /\ IsProposal(d.proposals[id], time)
  /\ \A id \in DOMAIN d.executed : IsApproved(d.executed[id])

\* Who must approve finds the proposal, unless an undo put it back.
Noted(i, p, back) ==
  \A id \in DOMAIN p \ back : \A a \in ToSet(Required[p[id].operation]) : id \in i[a]

Kept(d, q, i, back, time) ==
  DbInv(d, time) /\ IsQueueOf(q, d.proposals, back) /\ Noted(i, d.proposals, back)

\* The same of a state [db, queue, index] within an operation.
IsState(t, back, time) ==
  DOMAIN t = {"db", "queue", "index"} /\ Kept(t.db, t.queue, t.index, back, time)

\* What a proposal never changes.
SameTerms(p, q) == q.operation = p.operation /\ q.expiration = p.expiration

\* d2 follows d: ids are given once.
Continues(d, d2) ==
  /\ d.next <= d2.next
  /\ \A id \in DOMAIN d2.proposals :
        id >= d.next \/ (id \in DOMAIN d.proposals /\ SameTerms(d.proposals[id], d2.proposals[id]))

\* d is later on the chain than the copy c.
Lineage(c, d) ==
  /\ c.next <= d.next
  /\ \A id \in DOMAIN c.proposals \cap DOMAIN d.proposals : SameTerms(c.proposals[id], d.proposals[id])

\* r is t without the proposal id.
IsWithout(r, t, id, back, time) ==
  /\ IsState(r, back, time)
  /\ r.db.proposals = Without(t.db.proposals, id) /\ r.db.next = t.db.next
  /\ r.queue = RemoveAt(t.queue, PlaceOf(t.queue, id))
  /\ Continues(t.db, r.db)

ProposalsInv ==
  /\ Kept(db, queue, index, restored, head.time)
  /\ \A i \in 1 .. Len(undo) : DbInv(undo[i].db, undo[i].head.time) /\ Lineage(undo[i].db, db)
  /\ \A i, j \in 1 .. Len(undo) : i < j => Lineage(undo[i].db, undo[j].db)

(***************************************************************************)
(* The chain goes on: what follows the head is later than the copies.      *)
(***************************************************************************)
LEMMA LineageGoesOn ==
  ASSUME NEW c, NEW ct, DbInv(c, ct), NEW d, NEW dt, DbInv(d, dt), NEW d2, NEW d2t, DbInv(d2, d2t),
         Lineage(c, d), Continues(d, d2)
  PROVE  Lineage(c, d2)
<1>1. c.next \in Nat /\ d.next \in Nat /\ d2.next \in Nat
  BY DEF DbInv
<1>2. c.next <= d2.next
  BY <1>1 DEF Lineage, Continues
<1>3. ASSUME NEW id \in DOMAIN c.proposals \cap DOMAIN d2.proposals
      PROVE  SameTerms(c.proposals[id], d2.proposals[id])
  <2>1. id \in Nat /\ id < c.next
    BY DEF DbInv
  <2>2. ~(id >= d.next)
    BY <1>1, <2>1 DEF Lineage
  <2>3. id \in DOMAIN d.proposals /\ SameTerms(d.proposals[id], d2.proposals[id])
    BY <2>2 DEF Continues
  <2>4. SameTerms(c.proposals[id], d.proposals[id])
    BY <2>3 DEF Lineage
  <2> QED BY <2>3, <2>4 DEF SameTerms
<1> QED BY <1>2, <1>3 DEF Lineage

(***************************************************************************)
(* Every state is later than itself; steps of a block follow each other.   *)
(***************************************************************************)
LEMMA LineageOfItself ==
  ASSUME NEW d, NEW dt, DbInv(d, dt)
  PROVE  Lineage(d, d) /\ Continues(d, d)
BY DEF Lineage, Continues, SameTerms, DbInv

LEMMA ContinuesOn ==
  ASSUME NEW d, NEW d2, NEW d3, d.next \in Nat, d2.next \in Nat, d3.next \in Nat,
         \A id \in DOMAIN d3.proposals : id \in Nat,
         Continues(d, d2), Continues(d2, d3)
  PROVE  Continues(d, d3)
<1>1. ASSUME NEW id \in DOMAIN d3.proposals, ~(id >= d.next)
      PROVE  id \in DOMAIN d.proposals /\ SameTerms(d.proposals[id], d3.proposals[id])
  <2>1. ~(id >= d2.next)
    BY <1>1 DEF Continues
  <2>2. id \in DOMAIN d2.proposals /\ SameTerms(d2.proposals[id], d3.proposals[id])
    BY <2>1 DEF Continues
  <2>3. id \in DOMAIN d.proposals /\ SameTerms(d.proposals[id], d2.proposals[id])
    BY <1>1, <2>2 DEF Continues
  <2> QED BY <2>2, <2>3 DEF SameTerms
<1> QED BY <1>1 DEF Continues

(***************************************************************************)
(* Other proposals in a sound state.                                       *)
(***************************************************************************)
LEMMA DbWithProposals ==
  ASSUME NEW d, NEW dt, DbInv(d, dt), NEW time, NEW ps, NEW d2, d2 = [d EXCEPT !.proposals = ps],
         \A id \in DOMAIN ps : id \in Nat /\ id < d.next /\ IsProposal(ps[id], time)
  PROVE  /\ DbInv(d2, time)
         /\ d2.proposals = ps /\ d2.next = d.next /\ d2.authority = d.authority
         /\ d2.executed = d.executed
<1>1. /\ DOMAIN d2 = {"proposals", "next", "authority", "executed"}
      /\ d2.proposals = ps /\ d2.next = d.next /\ d2.authority = d.authority
      /\ d2.executed = d.executed
  BY DEF DbInv
<1> QED BY <1>1 DEF DbInv

(***************************************************************************)
(* remove: the proposal goes, from the queue and from the accounts' lists. *)
(***************************************************************************)
LEMMA RemovedKeeps ==
  ASSUME NEW t, NEW back, NEW time, IsState(t, back, time), NEW id \in DOMAIN t.db.proposals,
         NEW r, r = Removed(t, id)
  PROVE  /\ IsWithout(r, t, id, back, time)
         /\ r.db.authority = t.db.authority /\ r.db.executed = t.db.executed
<1>1. PICK d, p : d = t.db /\ p = t.db.proposals
  OBVIOUS
<1>2. PICK p2 : p2 = Without(p, id)
  OBVIOUS
<1>3. DOMAIN p2 = DOMAIN p \ {id} /\ \A j \in DOMAIN p2 : p2[j] = p[j]
  BY <1>2 DEF Without
<1>4. PICK d2 : d2 = [d EXCEPT !.proposals = p2]
  OBVIOUS
<1>5. PICK q2 : q2 = RemoveAt(t.queue, PlaceOf(t.queue, id))
  OBVIOUS
<1>6. PICK i2 : i2 = Unlisted(t.index, id, p[id])
  OBVIOUS
<1>7. r = [db |-> d2, queue |-> q2, index |-> i2]
  BY <1>1, <1>2, <1>4, <1>5, <1>6, Zenon DEF Removed
<1>8. DbInv(d, time)
  BY <1>1 DEF IsState, Kept
<1>9. \A j \in DOMAIN p2 : j \in Nat /\ j < d.next /\ IsProposal(p2[j], time)
  BY <1>1, <1>3, <1>8 DEF DbInv
<1>10. /\ DbInv(d2, time)
       /\ d2.proposals = p2 /\ d2.next = d.next /\ d2.authority = d.authority
       /\ d2.executed = d.executed
  BY <1>4, <1>8, <1>9, DbWithProposals
<1>11. IsQueueOf(q2, p2, back)
  BY <1>1, <1>2, <1>5, RemovedKeepsQueue DEF IsState, Kept
<1>12. Noted(i2, p2, back)
  <2> SUFFICES ASSUME NEW j \in DOMAIN p2 \ back, NEW a \in ToSet(Required[p2[j].operation])
               PROVE  j \in i2[a]
    BY DEF Noted
  <2>1. j \in DOMAIN p \ back /\ j # id /\ p2[j] = p[j]
    BY <1>3
  <2>2. j \in t.index[a]
    BY <1>1, <2>1 DEF IsState, Kept, Noted
  <2>3. a \in Accounts
    BY <1>9, ProposalsAssumption DEF ProposalsAssumption, IsProposal, ToSet
  <2> QED BY <1>6, <2>1, <2>2, <2>3 DEF Unlisted
<1>13. Continues(d, d2)
  BY <1>1, <1>3, <1>8, <1>10 DEF Continues, SameTerms, DbInv
<1>14. r.db = d2 /\ r.queue = q2 /\ r.index = i2 /\ DOMAIN r = {"db", "queue", "index"}
  BY <1>7
<1>15. IsState(r, back, time)
  BY <1>10, <1>11, <1>12, <1>14 DEF IsState, Kept
<1> QED BY <1>1, <1>2, <1>5, <1>10, <1>13, <1>14, <1>15 DEF IsWithout

(***************************************************************************)
(* push_proposal: executed with the approvals it needs, the proposal sets  *)
(* authorities and goes.                                                   *)
(***************************************************************************)
LEMMA PushedKeeps ==
  ASSUME NEW t, NEW back, NEW time, IsState(t, back, time), NEW id \in DOMAIN t.db.proposals,
         NEW e, e = [proposal |-> t.db.proposals[id], time |-> time, authority |-> t.db.authority],
         IsApproved(e), NEW r, r = Pushed(t, id, time)
  PROVE  IsWithout(r, t, id, back, time)
<1>1. PICK u : u = Removed(t, id)
  OBVIOUS
<1>2. /\ IsWithout(u, t, id, back, time)
      /\ u.db.authority = t.db.authority /\ u.db.executed = t.db.executed
  BY <1>1, RemovedKeeps
<1>3. PICK p : p = t.db.proposals[id]
  OBVIOUS
<1>4. DOMAIN u = {"db", "queue", "index"} /\ Kept(u.db, u.queue, u.index, back, time)
  BY <1>2 DEF IsWithout, IsState
<1>5. PICK d : d = u.db
  OBVIOUS
<1>6. PICK au : au = Replaced(d.authority, Changes[p.operation])
  OBVIOUS
<1>7. PICK ex : ex = With(d.executed, id, e)
  OBVIOUS
<1>8. DOMAIN d = {"proposals", "next", "authority", "executed"}
  BY <1>4, <1>5 DEF Kept, DbInv
<1>9. r = [u EXCEPT !.db.authority = au, !.db.executed = ex]
  BY <1>1, <1>3, <1>5, <1>6, <1>7, Zenon DEF Pushed
<1>10. /\ DOMAIN r = {"db", "queue", "index"} /\ r.queue = u.queue /\ r.index = u.index
       /\ DOMAIN r.db = {"proposals", "next", "authority", "executed"}
       /\ r.db.proposals = d.proposals /\ r.db.next = d.next
       /\ r.db.authority = au /\ r.db.executed = ex
  <2>1. DOMAIN u = {"db", "queue", "index"} /\ u.db = d
    BY <1>4, <1>5
  <2> QED BY ONLY <1>8, <1>9, <2>1
<1>11. au \in [Accounts -> Authority]
  <2>1. d.authority \in [Accounts -> Authority]
    BY <1>4, <1>5 DEF Kept, DbInv
  <2>2. p.operation \in Operations
    BY <1>3 DEF IsState, Kept, DbInv, IsProposal
  <2>3. PICK ch : ch = Changes[p.operation]
    OBVIOUS
  <2>4. DOMAIN ch \subseteq Accounts /\ \A a \in DOMAIN ch : ch[a] \in Authority
    BY <2>2, <2>3, ProposalsAssumption DEF ProposalsAssumption
  <2> QED BY <1>6, <2>1, <2>3, <2>4 DEF Replaced
<1>12. \A j \in DOMAIN ex : IsApproved(ex[j])
  <2>1. \A j \in DOMAIN d.executed : IsApproved(d.executed[j])
    BY <1>4, <1>5 DEF Kept, DbInv
  <2> QED BY <1>7, <2>1 DEF With
<1>13. DbInv(r.db, time)
  BY <1>4, <1>5, <1>10, <1>11, <1>12 DEF Kept, DbInv
<1>14. IsState(r, back, time)
  BY <1>4, <1>5, <1>10, <1>13 DEF IsState, Kept
<1>15. Continues(t.db, r.db)
  BY <1>2, <1>5, <1>10 DEF Continues, IsWithout
<1> QED BY <1>2, <1>5, <1>10, <1>14, <1>15 DEF IsWithout

----------------------------------------------------------------------------
(* clear_expired_proposals. *)

Expiring(u, t, failing, time, N) ==
  u = [n \in 0 .. N |-> IF n = 0 THEN t ELSE Expire(u[n - 1], failing, time)]

(***************************************************************************)
(* The recursion of the loop has a solution.                               *)
(***************************************************************************)
LEMMA ExpiringExists ==
  ASSUME NEW t, NEW failing, NEW time, NEW L \in Nat
  PROVE  \E u : Expiring(u, t, failing, time, L)
<1> DEFINE step(w, i) == Expire(w[i - 1], failing, time)
           start      == t
           Loop(w, N) == /\ w = [i \in 0 .. N |-> w[i]] /\ w[0] = start
                         /\ \A i \in 1 .. N : w[i] = step(w, i)
           Good == {N \in Nat : \E w : Loop(w, N)}
<1>1. 0 \in Good
  <2> HIDE DEF step, start
  <2>1. PICK w : w = [i \in 0 .. 0 |-> start]
    OBVIOUS
  <2>2. Loop(w, 0)
    BY <2>1
  <2> QED BY <2>2
<1>2. ASSUME NEW N \in 1 .. L, N - 1 \in Good PROVE N \in Good
  <2>1. PICK g : Loop(g, N - 1)
    BY <1>2
  <2>2. PICK v : v = step(g, N)
    OBVIOUS
  <2>3. PICK h : Extends(h, N, g, v)
    BY Extension
  <2>4. ASSUME NEW i \in 1 .. N PROVE h[i] = step(h, i)
    <3>1. h[i - 1] = g[i - 1]
      <4>1. i - 1 \in 0 .. N - 1
        OBVIOUS
      <4> QED BY ONLY <2>3, <4>1 DEF Extends
    <3>2. CASE i = N
      BY <2>2, <2>3, <3>1, <3>2 DEF Extends
    <3>3. CASE i # N
      <4>1. i \in 1 .. N - 1 /\ i \in 0 .. N - 1
        BY <3>3
      <4>2. g[i] = step(g, i)
        <5> HIDE DEF step
        <5> QED BY <2>1, <4>1
      <4> QED BY <2>3, <3>1, <4>1, <4>2 DEF Extends
    <3> QED BY <3>2, <3>3
  <2>5. Loop(h, N)
    <3> HIDE DEF step, start
    <3> QED BY <2>1, <2>3, <2>4 DEF Extends
  <2> HIDE DEF Loop
  <2> QED BY <2>5
<1>3. L \in Good
  <2> HIDE DEF Good
  <2> QED BY <1>1, <1>2, PrefixInduction
<1>4. PICK w : Loop(w, L)
  BY <1>3
<1>5. ASSUME NEW i \in 0 .. L PROVE w[i] = IF i = 0 THEN start ELSE step(w, i)
  <2> HIDE DEF step, start
  <2> QED BY <1>4
<1>6. w = [i \in 0 .. L |-> IF i = 0 THEN start ELSE step(w, i)]
  <2> HIDE DEF step, start
  <2> QED BY <1>4, <1>5
<1> QED BY <1>6 DEF Expiring

\* What a round of the loop makes of the state t, with a queue of L proposals.
IsRound(r, t, L, back, time) ==
  /\ IsState(r, back, time)
  /\ Continues(t.db, r.db) /\ r.db.next = t.db.next
  /\ Len(r.queue) = L - 1 /\ \A i \in 1 .. L - 1 : r.queue[i] = t.queue[i + 1]
  /\ \A id \in DOMAIN r.db.proposals : r.db.proposals[id] = t.db.proposals[id]

(***************************************************************************)
(* The first proposal, that has expired: executed with the approvals it    *)
(* needs, a review being over, or removed; those after it move up.         *)
(***************************************************************************)
LEMMA ExpireKeeps ==
  ASSUME NEW t, NEW back, NEW time \in Nat, IsState(t, back, time),
         NEW L \in Nat, L = Len(t.queue), L > 0,
         t.db.proposals[t.queue[1]].expiration <= time, NEW failing,
         NEW r, r = Expire(t, failing, time)
  PROVE  IsRound(r, t, L, back, time)
<1>1. PICK q : q = t.queue
  OBVIOUS
<1>2. PICK ps : ps = t.db.proposals
  OBVIOUS
<1>3. PICK id : id = q[1]
  OBVIOUS
<1>4. q \in Seq(DOMAIN ps) /\ IsInjective(q) /\ IsQueueOf(q, ps, back)
  BY <1>1, <1>2 DEF IsState, Kept, IsQueueOf
<1>5. Head(q) = id /\ 1 \in DOMAIN q /\ id \in DOMAIN ps
  BY <1>1, <1>3, <1>4
<1>6. PICK p : p = ps[id]
  OBVIOUS
<1>7. p.expiration <= time /\ IsProposal(p, time)
  BY <1>1, <1>2, <1>3, <1>5, <1>6 DEF IsState, Kept, DbInv
<1>8. PICK k : k = PlaceOf(q, id)
  OBVIOUS
<1>9. PICK q2 : q2 = RemoveAt(q, k)
  OBVIOUS
<1>10. k \in 1 .. Len(q) /\ q[k] = id /\ Shortened(q2, DOMAIN ps, q, Len(q), k)
  BY <1>4, <1>5, <1>8, <1>9, RemovedKeepsQueue
<1>11. k = 1
  BY <1>3, <1>4, <1>5, <1>10 DEF IsInjective
<1>12. Len(q2) = L - 1 /\ \A i \in 1 .. L - 1 : q2[i] = q[i + 1]
  BY <1>1, <1>10, <1>11 DEF Shortened
<1>13. \A j \in DOMAIN Without(ps, id) : Without(ps, id)[j] = ps[j]
  BY DEF Without
<1>14. ASSUME IsWithout(r, t, id, back, time) PROVE IsRound(r, t, L, back, time)
  <2>1. r.queue = q2 /\ r.db.proposals = Without(ps, id)
    BY <1>1, <1>2, <1>8, <1>9, <1>14 DEF IsWithout
  <2> QED BY <1>1, <1>2, <1>12, <1>13, <1>14, <2>1 DEF IsWithout, IsRound
<1>15. CASE IsAuthorized(t.db.authority, p) /\ id \notin failing
  <2>1. r = Pushed(t, id, time)
    BY <1>1, <1>2, <1>5, <1>6, <1>15, Zenon DEF Expire
  <2>2. PICK au : au = t.db.authority
    OBVIOUS
  <2>3. PICK e : e = [proposal |-> p, time |-> time, authority |-> au]
    OBVIOUS
  <2>4. IsApproved(e)
    <3>1. au \in [Accounts -> Authority]
      BY <2>2 DEF IsState, Kept, DbInv
    <3>2. ToSet(Required[p.operation]) \subseteq Approving(au, p.active, p.keys)
      BY <1>7, <1>15, <2>2, <3>1, AuthorizedIsApproved DEF IsProposal
    <3>3. p.review # NoReview => time >= p.expiration /\ p.active \subseteq p.early
      BY <1>7 DEF IsProposal
    <3>4. e.proposal = p /\ e.time = time /\ e.authority = au
      BY <2>3
    <3> QED BY <3>2, <3>3, <3>4 DEF IsApproved
  <2>5. IsWithout(r, t, id, back, time)
    <3>1. id \in DOMAIN t.db.proposals
      BY <1>2, <1>5
    <3>2. e = [proposal |-> t.db.proposals[id], time |-> time, authority |-> t.db.authority]
      BY <1>2, <1>6, <2>2, <2>3
    <3> QED BY ONLY IsState(t, back, time), <2>1, <2>4, <3>1, <3>2, PushedKeeps, Zenon
  <2> QED BY <1>14, <2>5
<1>16. CASE ~(IsAuthorized(t.db.authority, p) /\ id \notin failing)
  <2>1. r = Removed(t, id)
    BY <1>1, <1>2, <1>5, <1>6, <1>16, Zenon DEF Expire
  <2>2. id \in DOMAIN t.db.proposals
    BY <1>2, <1>5
  <2>3. IsWithout(r, t, id, back, time)
    BY ONLY IsState(t, back, time), <2>1, <2>2, RemovedKeeps, Zenon
  <2> QED BY <1>14, <2>3
<1> QED BY <1>15, <1>16

(***************************************************************************)
(* The loop takes those that have expired, which are the first.            *)
(***************************************************************************)
LEMMA ExpiredKeeps ==
  ASSUME NEW t, NEW back, NEW time \in Nat, IsState(t, back, time), NEW failing,
         NEW r, r = Expired(t, failing, time)
  PROVE  IsState(r, back, time) /\ Continues(t.db, r.db)
<1>1. PICK q, ps : q = t.queue /\ ps = t.db.proposals
  OBVIOUS
<1>2. PICK L : L = Len(q)
  OBVIOUS
<1>3. q \in Seq(DOMAIN ps) /\ IsQueueOf(q, ps, back) /\ L \in Nat /\ DOMAIN q = 1 .. L
  BY <1>1, <1>2 DEF IsState, Kept, IsQueueOf
<1>4. Dated(ps)
  BY <1>1 DEF IsState, Kept, DbInv, IsProposal, Dated
<1>5. PICK due : due = Cardinality({i \in DOMAIN q : ps[q[i]].expiration <= time})
  OBVIOUS
<1>6. due \in 0 .. L /\ \A i \in DOMAIN q : i <= due <=> ps[q[i]].expiration <= time
  BY <1>2, <1>3, <1>4, <1>5, DueAreFirst, SMTT(30)
<1>7. due \in Nat
  BY <1>3, <1>6
<1>8. PICK u : u = CHOOSE w : Expiring(w, t, failing, time, due)
  OBVIOUS
<1>9. Expiring(u, t, failing, time, due)
  BY <1>7, <1>8, ExpiringExists
<1>10. r = u[due]
  BY <1>1, <1>5, <1>8 DEF Expired, Expiring
<1>11. u[0] = t /\ \A n \in 1 .. due : u[n] = Expire(u[n - 1], failing, time)
  <2>1. \A n \in 0 .. due : u[n] = IF n = 0 THEN t ELSE Expire(u[n - 1], failing, time)
    BY <1>9 DEF Expiring
  <2>2. 0 \in 0 .. due /\ \A n \in 1 .. due : n \in 0 .. due /\ n # 0
    BY <1>7
  <2> QED BY ONLY <2>1, <2>2, Zenon
<1> DEFINE Yes(n, v) == /\ IsState(v, back, time)
                        /\ Continues(t.db, v.db) /\ v.db.next = t.db.next
                        /\ Len(v.queue) = L - n /\ \A i \in 1 .. L - n : v.queue[i] = q[i + n]
                        /\ \A id \in DOMAIN v.db.proposals : v.db.proposals[id] = ps[id]
           Good == {n \in 0 .. due : Yes(n, u[n])}
<1>12. 0 \in Good
  <2>1. Continues(t.db, t.db)
    BY LineageOfItself DEF IsState, Kept
  <2>2. Yes(0, t)
    BY <1>1, <1>2, <1>3, <2>1
  <2>3. 0 \in 0 .. due
    BY <1>7
  <2> HIDE DEF Yes
  <2> QED BY <1>11, <2>2, <2>3
<1>13. ASSUME NEW n \in 1 .. due, n - 1 \in Good PROVE n \in Good
  <2>1. PICK v : v = u[n - 1]
    OBVIOUS
  <2>2. Yes(n - 1, v)
    BY <1>13, <2>1
  <2>3. PICK w : w = Expire(v, failing, time)
    OBVIOUS
  <2>4. PICK M : M = L - (n - 1)
    OBVIOUS
  <2>5. M \in Nat /\ M > 0 /\ M = Len(v.queue) /\ n \in 1 .. L
    BY <1>3, <1>6, <2>2, <2>4
  <2>6. v.queue[1] = q[n]
    <3>1. 1 \in 1 .. L - (n - 1) /\ 1 + (n - 1) = n
      BY <2>4, <2>5
    <3> QED BY <2>2, <3>1
  <2>7. v.queue[1] \in DOMAIN v.db.proposals
    <3>1. v.queue \in Seq(DOMAIN v.db.proposals)
      BY <2>2 DEF IsState, Kept, IsQueueOf
    <3> QED BY <2>5, <3>1
  <2>8. v.db.proposals[v.queue[1]].expiration <= time
    <3>1. ps[q[n]].expiration <= time
      BY <1>3, <1>6, <2>5
    <3>2. v.db.proposals[v.queue[1]] = ps[v.queue[1]]
      BY <2>2, <2>7
    <3> QED BY <2>6, <3>1, <3>2
  <2>9. IsRound(w, v, M, back, time)
    BY ONLY <2>2, <2>3, <2>5, <2>8, time \in Nat, ExpireKeeps, Zenon
  <2>10. Continues(t.db, w.db)
    <3>1. t.db.next \in Nat /\ v.db.next \in Nat /\ w.db.next \in Nat
          /\ \A id \in DOMAIN w.db.proposals : id \in Nat
      BY <2>2, <2>9 DEF IsState, Kept, DbInv, IsRound
    <3>2. Continues(t.db, v.db) /\ Continues(v.db, w.db)
      BY <2>2, <2>9 DEF IsRound
    <3> QED BY <3>1, <3>2, ContinuesOn
  <2>11. ASSUME NEW i \in 1 .. L - n PROVE w.queue[i] = q[i + n]
    <3>1. i \in 1 .. M - 1 /\ i + 1 \in 1 .. L - (n - 1) /\ (i + 1) + (n - 1) = i + n
      BY <1>3, <2>4, <2>5
    <3>2. w.queue[i] = v.queue[i + 1]
      BY <2>9, <3>1 DEF IsRound
    <3>3. v.queue[i + 1] = q[(i + 1) + (n - 1)]
      BY <2>2, <3>1
    <3> QED BY <3>1, <3>2, <3>3
  <2>12. ASSUME NEW id \in DOMAIN w.db.proposals PROVE w.db.proposals[id] = ps[id]
    <3>1. w.db.proposals[id] = v.db.proposals[id]
      BY <2>9 DEF IsRound
    <3>2. id \in DOMAIN v.db.proposals
      <4>1. v.db.next \in Nat /\ id \in Nat /\ id < v.db.next
        BY <2>2, <2>9 DEF IsState, Kept, DbInv, IsRound
      <4> QED BY <2>9, <4>1 DEF Continues, IsRound
    <3> QED BY <2>2, <3>1, <3>2
  <2>13. Len(w.queue) = L - n
    BY <1>3, <2>4, <2>5, <2>9 DEF IsRound
  <2>14. w.db.next = t.db.next
    BY <2>2, <2>9 DEF IsRound
  <2>15. Yes(n, w)
    BY <2>9, <2>10, <2>11, <2>12, <2>13, <2>14 DEF IsRound
  <2>16. u[n] = w /\ n \in 0 .. due
    BY <1>7, <1>11, <2>1, <2>3
  <2> HIDE DEF Yes
  <2> QED BY <2>15, <2>16
<1>14. due \in Good
  <2>1. due \in 0 .. due
    BY <1>7
  <2> HIDE DEF Good
  <2> QED BY <1>7, <1>12, <1>13, <2>1, PrefixInduction
<1> QED BY <1>10, <1>14

----------------------------------------------------------------------------
(* The steps. *)

(***************************************************************************)
(* A transaction does not move the time of the head.                       *)
(***************************************************************************)
LEMMA TransactionKeepsTime ==
  ASSUME TransactionsInv, NEW t, ApplyTransaction(t)
  PROVE  head.time \in Nat /\ head'.time = head.time
<1>1. PICK h : h = head
  OBVIOUS
<1>2. DOMAIN h = {"time", "transactions", "applied", "repeated"} /\ h.time \in Nat
  BY <1>1 DEF TransactionsInv, Remembered
<1>3. PICK ts, ap, re : head' = [h EXCEPT !.transactions = ts, !.applied = ap, !.repeated = re]
  BY <1>1 DEF ApplyTransaction
<1>4. head'.time = h.time
  BY <1>2, <1>3
<1> QED BY <1>1, <1>2, <1>4

(***************************************************************************)
(* A new proposal: its review is to come, and those who must approve are   *)
(* told.                                                                   *)
(***************************************************************************)
LEMMA CreateKeeps ==
  ASSUME ProposalsInv, TransactionsInv, NEW o \in Operations, NEW expiration \in Nat,
         NEW review \in Nat, NEW e, Create(o, expiration, review, e)
  PROVE  Kept(db', queue', index', restored', head'.time) /\ Continues(db, db')
<1>1. PICK time : time = head.time
  OBVIOUS
<1>2. time \in Nat /\ head'.time = time
  BY <1>1, TransactionKeepsTime DEF Create
<1>3. PICK id : id = db.next
  OBVIOUS
<1>4. PICK p : p = [operation |-> o, expiration |-> expiration,
                    review |-> IF review = NoReview THEN NoReview ELSE expiration - review,
                    active |-> {}, keys |-> {}, early |-> {}]
  OBVIOUS
<1>5. PICK ps : ps = db.proposals
  OBVIOUS
<1>6. PICK ps2 : ps2 = With(ps, id, p)
  OBVIOUS
<1>7. DbInv(db, time) /\ IsQueueOf(queue, ps, restored) /\ Noted(index, ps, restored)
  BY <1>1, <1>5 DEF ProposalsInv, Kept
<1>8. id \in Nat /\ \A j \in DOMAIN ps : j \in Nat /\ j < id /\ IsProposal(ps[j], time)
  BY <1>3, <1>5, <1>7 DEF DbInv
<1>9. /\ db' = [db EXCEPT !.proposals = ps2, !.next = id + 1]
      /\ queue' = Enqueued(queue, db'.proposals, id)
      /\ index' = Listed(index, id, p) /\ restored' = restored \ {id}
      /\ expiration > time /\ review < expiration - time
  BY <1>1, <1>3, <1>4, <1>5, <1>6 DEF Create
<1>10. PICK d : d = db'
  OBVIOUS
<1>11. /\ DOMAIN d = {"proposals", "next", "authority", "executed"}
       /\ d.proposals = ps2 /\ d.next = id + 1 /\ d.authority = db.authority
       /\ d.executed = db.executed
  <2>1. DOMAIN db = {"proposals", "next", "authority", "executed"}
    BY <1>7 DEF DbInv
  <2>2. d = [db EXCEPT !.proposals = ps2, !.next = id + 1]
    BY <1>9, <1>10
  <2> QED BY <2>1, <2>2
<1>12. IsProposal(p, time)
  <2>1. PICK rev : rev = IF review = NoReview THEN NoReview ELSE expiration - review
    OBVIOUS
  <2>2. rev \in Nat /\ rev <= expiration
    BY <1>2, <1>9, <2>1 DEF NoReview
  <2>3. p = [operation |-> o, expiration |-> expiration, review |-> rev,
             active |-> {}, keys |-> {}, early |-> {}]
    BY <1>4, <2>1, Zenon
  <2> QED BY <2>2, <2>3 DEF IsProposal
<1>13. id \notin DOMAIN ps
  BY <1>8
<1>14. DOMAIN ps2 = DOMAIN ps \cup {id} /\ ps2[id] = p /\ \A j \in DOMAIN ps : ps2[j] = ps[j]
  BY <1>6, <1>13 DEF With
<1>15. DbInv(d, time)
  <2>1. ASSUME NEW j \in DOMAIN ps2 PROVE j \in Nat /\ j < id + 1 /\ IsProposal(ps2[j], time)
    BY <1>8, <1>12, <1>14
  <2>2. db.authority \in [Accounts -> Authority] /\ \A j \in DOMAIN db.executed : IsApproved(db.executed[j])
    BY <1>7 DEF DbInv
  <2>3. id + 1 \in Nat
    BY <1>8
  <2> QED BY <1>11, <2>1, <2>2, <2>3 DEF DbInv
<1>16. IsQueueOf(Enqueued(queue, ps2, id), ps2, restored \ {id})
  <2>1. Dated(ps)
    BY <1>8 DEF Dated, IsProposal
  <2>2. p.expiration \in Nat /\ \A j \in DOMAIN ps : j < id
    BY <1>8, <1>12 DEF IsProposal
  <2> QED BY ONLY <1>6, <1>7, <1>8, <2>1, <2>2, EnqueuedKeepsQueue, Zenon
<1>17. Noted(Listed(index, id, p), ps2, restored \ {id})
  <2> SUFFICES ASSUME NEW j \in DOMAIN ps2 \ (restored \ {id}),
                      NEW a \in ToSet(Required[ps2[j].operation])
               PROVE  j \in Listed(index, id, p)[a]
    BY DEF Noted
  <2>1. IsProposal(ps2[j], time)
    BY <1>8, <1>12, <1>14
  <2>2. a \in Accounts
    BY <2>1, ProposalsAssumption DEF ProposalsAssumption, IsProposal, ToSet
  <2>3. CASE j = id
    BY <1>14, <2>2, <2>3 DEF Listed, Concerned
  <2>4. CASE j # id
    <3>1. j \in DOMAIN ps \ restored /\ ps2[j] = ps[j]
      BY <1>14, <2>4
    <3>2. j \in index[a]
      BY <1>7, <3>1 DEF Noted
    <3> QED BY <2>2, <3>2 DEF Listed
  <2> QED BY <2>3, <2>4
<1>18. Kept(d, queue', index', restored', head'.time)
  BY <1>2, <1>9, <1>10, <1>11, <1>15, <1>16, <1>17 DEF Kept
<1>19. Continues(db, d)
  <2>1. id <= id + 1
    BY <1>8
  <2>2. ASSUME NEW j \in DOMAIN ps2, ~(j >= id)
        PROVE  j \in DOMAIN ps /\ SameTerms(ps[j], ps2[j])
    <3>1. j # id
      BY <1>8, <2>2
    <3> QED BY <1>14, <3>1 DEF SameTerms
  <2> QED BY <1>3, <1>5, <1>11, <2>1, <2>2 DEF Continues
<1> QED BY <1>10, <1>18, <1>19

(***************************************************************************)
(* Other approvals of a proposal: after the review has begun, none of an   *)
(* account is added.                                                       *)
(***************************************************************************)
LEMMA ApprovedKeeps ==
  ASSUME NEW p, NEW time \in Nat, IsProposal(p, time), NEW a \in Approvals,
         (p.review # NoReview /\ time >= p.review) => a.add = {},
         NEW q, q = [p EXCEPT !.active = (@ \cup a.add) \ a.remove,
                              !.keys   = (@ \cup a.keys_add) \ a.keys_remove]
  PROVE  IsProposal(q, time) /\ SameTerms(p, q)
<1>1. a.add \subseteq Accounts /\ a.keys_add \subseteq Keys
  <2>1. Approvers \subseteq Accounts
    BY ProposalsAssumption DEF ProposalsAssumption
  <2> DEFINE none == [add |-> {}, remove |-> {}, keys_add |-> {}, keys_remove |-> {}]
  <2> DEFINE X == {{[none EXCEPT !.add = {x}], [none EXCEPT !.remove = {x}]} : x \in Approvers}
             K == {{[none EXCEPT !.keys_add = {k}], [none EXCEPT !.keys_remove = {k}]} : k \in Keys}
  <2>2. a \in (UNION X) \cup (UNION K)
    BY Zenon DEF Approvals
  <2>3. CASE a \in UNION X
    <3>1. PICK x \in Approvers : a \in {[none EXCEPT !.add = {x}], [none EXCEPT !.remove = {x}]}
      <4> HIDE DEF none
      <4> QED BY <2>3
    <3> QED BY <2>1, <3>1
  <2>4. CASE a \in UNION K
    <3>1. PICK k \in Keys : a \in {[none EXCEPT !.keys_add = {k}], [none EXCEPT !.keys_remove = {k}]}
      <4> HIDE DEF none
      <4> QED BY <2>4
    <3> QED BY <3>1
  <2> HIDE DEF X, K
  <2> QED BY <2>2, <2>3, <2>4
<1>2. PICK ac, ks : ac = (p.active \cup a.add) \ a.remove /\ ks = (p.keys \cup a.keys_add) \ a.keys_remove
  OBVIOUS
<1>3. DOMAIN p = {"operation", "expiration", "review", "active", "keys", "early"}
  BY DEF IsProposal
<1>4. q = [p EXCEPT !.active = ac, !.keys = ks]
  BY <1>2
<1>5. /\ DOMAIN q = DOMAIN p /\ q.active = ac /\ q.keys = ks
      /\ q.operation = p.operation /\ q.expiration = p.expiration /\ q.review = p.review
      /\ q.early = p.early
  BY <1>3, <1>4
<1>6. ac \subseteq Accounts /\ ks \subseteq Keys
  BY <1>1, <1>2 DEF IsProposal
<1>7. (p.review # NoReview /\ time >= p.review) => ac \subseteq p.early
  BY <1>2 DEF IsProposal
<1> QED BY <1>5, <1>6, <1>7 DEF IsProposal, SameTerms

(***************************************************************************)
(* Approvals are added or removed, and may be enough: without a review the *)
(* proposal is executed.                                                   *)
(***************************************************************************)
LEMMA UpdateKeeps ==
  ASSUME ProposalsInv, TransactionsInv, NEW id \in DOMAIN db.proposals, NEW a \in Approvals,
         NEW ok, NEW e, Update(id, a, ok, e)
  PROVE  Kept(db', queue', index', restored', head'.time) /\ Continues(db, db')
<1>1. PICK time : time = head.time
  OBVIOUS
<1>2. time \in Nat /\ head'.time = time
  BY <1>1, TransactionKeepsTime DEF Update
<1>3. PICK ps : ps = db.proposals
  OBVIOUS
<1>4. PICK p : p = ps[id]
  OBVIOUS
<1>5. PICK q : q = [p EXCEPT !.active = (@ \cup a.add) \ a.remove,
                             !.keys   = (@ \cup a.keys_add) \ a.keys_remove]
  OBVIOUS
<1>6. PICK d : d = [db EXCEPT !.proposals[id] = q]
  OBVIOUS
<1>7. PICK ps2 : ps2 = [ps EXCEPT ![id] = q]
  OBVIOUS
<1>8. DbInv(db, time) /\ IsQueueOf(queue, ps, restored) /\ Noted(index, ps, restored)
  BY <1>1, <1>3 DEF ProposalsInv, Kept
<1>9. DOMAIN db = {"proposals", "next", "authority", "executed"}
  BY <1>8 DEF DbInv
<1>10. d = [db EXCEPT !.proposals = ps2]
  BY <1>3, <1>6, <1>7, <1>9
<1>11. /\ (p.review # NoReview /\ time >= p.review) => a.add = {}
       /\ IF q.review = NoReview /\ IsAuthorized(d.authority, q) /\ ok
          THEN Becomes(Pushed(Now(d), id, time)) ELSE Becomes(Now(d))
       /\ restored' = restored
  BY <1>1, <1>3, <1>4, <1>5, <1>6, Zenon DEF Update, MayApprove
<1>12. IsProposal(p, time)
  BY <1>3, <1>4, <1>8 DEF DbInv
<1>13. IsProposal(q, time) /\ SameTerms(p, q)
  BY <1>2, <1>5, <1>11, <1>12, ApprovedKeeps
<1>14. DOMAIN ps2 = DOMAIN ps /\ ps2[id] = q /\ \A j \in DOMAIN ps : j # id => ps2[j] = ps[j]
  BY <1>3, <1>7
<1>15. \A j \in DOMAIN ps2 : j \in Nat /\ j < db.next /\ IsProposal(ps2[j], time)
  BY <1>3, <1>8, <1>13, <1>14 DEF DbInv
<1>16. /\ DbInv(d, time) /\ d.proposals = ps2 /\ d.next = db.next
       /\ d.authority = db.authority /\ d.executed = db.executed
  BY <1>8, <1>10, <1>15, DbWithProposals
<1>17. \A j \in DOMAIN ps : SameTerms(ps[j], ps2[j])
  BY <1>4, <1>13, <1>14 DEF SameTerms
<1>18. IsQueueOf(queue, ps2, restored)
  BY <1>8, <1>14, <1>17, SameDatesKeepQueue DEF SameTerms
<1>19. Noted(index, ps2, restored)
  BY <1>8, <1>14, <1>17 DEF Noted, SameTerms
<1>20. PICK t : t = Now(d)
  OBVIOUS
<1>21. t = [db |-> d, queue |-> queue, index |-> index]
  BY <1>20 DEF Now
<1>22. IsState(t, restored, time) /\ t.db = d
  BY <1>16, <1>18, <1>19, <1>21 DEF IsState, Kept
<1>23. Continues(db, d)
  BY <1>3, <1>8, <1>14, <1>16, <1>17 DEF Continues, DbInv
<1>24. CASE q.review = NoReview /\ IsAuthorized(d.authority, q)
  <2>1. PICK r : r = Pushed(t, id, time)
    OBVIOUS
  <2>2. PICK x : x = [proposal |-> t.db.proposals[id], time |-> time, authority |-> t.db.authority]
    OBVIOUS
  <2>3. IsApproved(x)
    <3>1. ToSet(Required[q.operation]) \subseteq Approving(d.authority, q.active, q.keys)
      BY <1>13, <1>16, <1>24, AuthorizedIsApproved DEF IsProposal, DbInv
    <3>2. x.proposal = q /\ x.authority = d.authority
      BY <1>3, <1>14, <1>16, <1>22, <2>2
    <3> QED BY <1>24, <3>1, <3>2 DEF IsApproved
  <2>4. IsWithout(r, t, id, restored, time)
    <3>1. id \in DOMAIN t.db.proposals
      BY <1>3, <1>14, <1>16, <1>22
    <3> QED BY ONLY <1>22, <2>1, <2>2, <2>3, <3>1, PushedKeeps, Zenon
  <2>5. IsState(r, restored, time) /\ Continues(d, r.db)
    BY <1>22, <2>4 DEF IsWithout
  <2>6. Continues(db, r.db)
    <3>1. db.next \in Nat /\ d.next \in Nat /\ r.db.next \in Nat
          /\ \A j \in DOMAIN r.db.proposals : j \in Nat
      BY <1>8, <1>16, <2>5 DEF IsState, Kept, DbInv
    <3> QED BY <1>23, <2>5, <3>1, ContinuesOn
  <2>7. Becomes(r) \/ Becomes(t)
    BY <1>11, <1>20, <2>1
  <2>8. CASE Becomes(r)
    BY <1>2, <1>11, <2>5, <2>6, <2>8 DEF Becomes, IsState
  <2>9. CASE Becomes(t)
    BY <1>2, <1>11, <1>22, <1>23, <2>9 DEF Becomes, IsState
  <2> QED BY <2>7, <2>8, <2>9
<1>25. CASE ~(q.review = NoReview /\ IsAuthorized(d.authority, q))
  <2>1. Becomes(t)
    BY <1>11, <1>20, <1>25, Zenon
  <2> QED BY <1>2, <1>11, <1>22, <1>23, <2>1 DEF Becomes, IsState
<1> QED BY <1>24, <1>25

(***************************************************************************)
(* A deleted proposal is in no index.                                      *)
(***************************************************************************)
LEMMA DeleteKeeps ==
  ASSUME ProposalsInv, TransactionsInv, NEW id \in DOMAIN db.proposals, NEW a, NEW e, Delete(id, a, e)
  PROVE  Kept(db', queue', index', restored', head'.time) /\ Continues(db, db')
<1>1. PICK time : time = head.time
  OBVIOUS
<1>2. time \in Nat /\ head'.time = time
  BY <1>1, TransactionKeepsTime DEF Delete
<1>3. PICK t : t = Now(db)
  OBVIOUS
<1>4. t = [db |-> db, queue |-> queue, index |-> index]
  BY <1>3 DEF Now
<1>5. IsState(t, restored, time) /\ t.db = db
  BY <1>1, <1>4 DEF IsState, ProposalsInv
<1>6. PICK r : r = Removed(t, id)
  OBVIOUS
<1>7. IsWithout(r, t, id, restored, time)
  <2>1. id \in DOMAIN t.db.proposals
    BY <1>5
  <2> QED BY ONLY <1>5, <1>6, <2>1, RemovedKeeps, Zenon
<1>8. Becomes(r) /\ restored' = restored
  BY <1>3, <1>6 DEF Delete
<1> QED BY <1>2, <1>5, <1>7, <1>8 DEF Becomes, IsWithout, IsState

(***************************************************************************)
(* The end of a block: the reviews that begin, and what has expired.       *)
(***************************************************************************)
LEMMA BlockKeeps ==
  ASSUME ProposalsInv, TransactionsInv, NEW time \in Nat, NEW failing, EndBlock(time, failing)
  PROVE  /\ Kept(db', queue', index', restored', head'.time) /\ Continues(db, db')
         /\ head'.time = time
<1>1. PICK from : from = head.time
  OBVIOUS
<1>2. from \in Nat /\ from < time /\ head'.time = time
  <2>1. PICK h : h = head
    OBVIOUS
  <2>2. DOMAIN h = {"time", "transactions", "applied", "repeated"} /\ h.time \in Nat
    BY <2>1 DEF TransactionsInv, Remembered
  <2>3. PICK ts : head' = [h EXCEPT !.time = time, !.transactions = ts]
    BY <2>1 DEF EndBlock
  <2>4. head'.time = time
    BY <2>2, <2>3
  <2> QED BY <1>1, <2>1, <2>2, <2>4 DEF EndBlock
<1>3. PICK ps : ps = db.proposals
  OBVIOUS
<1>4. PICK ps2 : ps2 = ReviewsBegun(ps, from, time)
  OBVIOUS
<1>5. PICK d : d = [db EXCEPT !.proposals = ps2]
  OBVIOUS
<1>6. DbInv(db, from) /\ IsQueueOf(queue, ps, restored) /\ Noted(index, ps, restored)
  BY <1>1, <1>3 DEF ProposalsInv, Kept
<1>7. DOMAIN ps2 = DOMAIN ps
  BY <1>4 DEF ReviewsBegun
<1>8. ASSUME NEW j \in DOMAIN ps PROVE IsProposal(ps2[j], time) /\ SameTerms(ps[j], ps2[j])
  <2>1. PICK p : p = ps[j]
    OBVIOUS
  <2>2. IsProposal(p, from)
    BY <1>3, <1>6, <2>1 DEF DbInv
  <2>3. ps2[j] = IF from < p.review /\ p.review <= time THEN [p EXCEPT !.early = p.active] ELSE p
    BY <1>4, <2>1 DEF ReviewsBegun
  <2>4. CASE from < p.review /\ p.review <= time
    <3>1. PICK p2 : p2 = [p EXCEPT !.early = p.active]
      OBVIOUS
    <3>2. DOMAIN p = {"operation", "expiration", "review", "active", "keys", "early"}
      BY <2>2 DEF IsProposal
    <3>3. /\ DOMAIN p2 = DOMAIN p /\ p2.early = p.active /\ p2.active = p.active /\ p2.keys = p.keys
          /\ p2.operation = p.operation /\ p2.expiration = p.expiration /\ p2.review = p.review
      BY <3>1, <3>2
    <3>4. IsProposal(p2, time) /\ SameTerms(p, p2)
      BY <2>2, <3>3 DEF IsProposal, SameTerms
    <3> QED BY <2>1, <2>3, <2>4, <3>1, <3>4
  <2>5. CASE ~(from < p.review /\ p.review <= time)
    <3>1. IsProposal(p, time)
      BY <1>2, <2>2, <2>5 DEF IsProposal
    <3>2. ps2[j] = p
      BY <2>3, <2>5
    <3> QED BY <2>1, <3>1, <3>2 DEF SameTerms
  <2> QED BY <2>4, <2>5
<1>9. \A j \in DOMAIN ps2 : j \in Nat /\ j < db.next /\ IsProposal(ps2[j], time)
  BY <1>3, <1>6, <1>7, <1>8 DEF DbInv
<1>10. /\ DbInv(d, time) /\ d.proposals = ps2 /\ d.next = db.next
       /\ d.authority = db.authority /\ d.executed = db.executed
  BY <1>5, <1>6, <1>9, DbWithProposals
<1>11. IsQueueOf(queue, ps2, restored)
  BY <1>6, <1>7, <1>8, SameDatesKeepQueue DEF SameTerms
<1>12. Noted(index, ps2, restored)
  BY <1>6, <1>7, <1>8 DEF Noted, SameTerms
<1>13. PICK t : t = Now(d)
  OBVIOUS
<1>14. t = [db |-> d, queue |-> queue, index |-> index]
  BY <1>13 DEF Now
<1>15. IsState(t, restored, time) /\ t.db = d
  BY <1>10, <1>11, <1>12, <1>14 DEF IsState, Kept
<1>16. Continues(db, d)
  BY <1>3, <1>6, <1>7, <1>8, <1>10 DEF Continues, DbInv
<1>17. PICK r : r = Expired(t, failing, time)
  OBVIOUS
<1>18. IsState(r, restored, time) /\ Continues(d, r.db)
  BY <1>15, <1>17, ExpiredKeeps
<1>19. Continues(db, r.db)
  <2>1. db.next \in Nat /\ d.next \in Nat /\ r.db.next \in Nat
        /\ \A j \in DOMAIN r.db.proposals : j \in Nat
    BY <1>6, <1>10, <1>18 DEF IsState, Kept, DbInv
  <2> QED BY <1>16, <1>18, <2>1, ContinuesOn
<1>20. Becomes(r) /\ restored' = restored
  BY <1>1, <1>3, <1>4, <1>5, <1>13, <1>17, Zenon DEF EndBlock
<1> QED BY <1>2, <1>18, <1>19, <1>20 DEF Becomes, IsState

(***************************************************************************)
(* The proposals of a sound state are finitely many.                       *)
(***************************************************************************)
LEMMA FinitelyMany ==
  ASSUME NEW d, NEW time, DbInv(d, time)
  PROVE  IsFiniteSet(DOMAIN d.proposals)
<1>1. PICK n : n = d.next
  OBVIOUS
<1>2. n \in Nat
  BY <1>1 DEF DbInv
<1>3. IsFiniteSet(0 .. n)
  BY <1>2, 0 \in Int, n \in Int, FS_Interval
<1>4. DOMAIN d.proposals \in SUBSET (0 .. n)
  BY <1>1, <1>2 DEF DbInv
<1> QED BY <1>3, <1>4, FS_Subset

(***************************************************************************)
(* undo, back to a copy: proposals that stayed keep their places and their *)
(* entries, since ids are not given twice and terms do not change.         *)
(***************************************************************************)
LEMMA UndoneKeeps ==
  ASSUME ProposalsInv, NEW m \in 1 .. Len(undo), NEW c, c = undo[m], Undone(c)
  PROVE  /\ Kept(db', queue', index', restored', head'.time)
         /\ db' = c.db /\ head' = c.head
<1>1. PICK p, ps : p = c.db.proposals /\ ps = db.proposals
  OBVIOUS
<1>2. DbInv(c.db, c.head.time) /\ Lineage(c.db, db)
  BY DEF ProposalsInv
<1>3. DbInv(db, head.time) /\ IsQueueOf(queue, ps, restored) /\ Noted(index, ps, restored)
  BY <1>1 DEF ProposalsInv, Kept
<1>4. PICK ids : ids = DOMAIN p
  OBVIOUS
<1>5. PICK new : new = DOMAIN ps \ ids
  OBVIOUS
<1>6. PICK back : back = ids \ DOMAIN ps
  OBVIOUS
<1>7. PICK ties : ties = {t \in ids \X ids :
                            \/ t[2] \in back
                            \/ t[1] \notin back /\ PlaceOf(queue, t[1]) < PlaceOf(queue, t[2])}
  OBVIOUS
<1>8. /\ head' = c.head /\ db' = c.db
      /\ queue' \in SetToSeqs(ids) /\ IsQueue(queue', p, ties)
      /\ index' = [a \in Accounts |-> index[a] \ {id \in new : a \in Concerned(ps[id])}]
      /\ restored' = (restored \ new) \cup back
  BY <1>1, <1>4, <1>5, <1>6, <1>7 DEF Undone
<1>9. ASSUME NEW i \in ids, i \notin restored'
      PROVE  i \in DOMAIN ps /\ i \notin restored /\ i \notin new /\ i \notin back /\ SameTerms(p[i], ps[i])
  <2>1. i \in DOMAIN ps /\ i \notin restored /\ i \notin new /\ i \notin back
    BY <1>5, <1>6, <1>8, <1>9
  <2> QED BY <1>1, <1>2, <1>4, <2>1 DEF Lineage
<1>10. ASSUME NEW i \in ids, NEW j \in ids, <<i, j>> \in ties, p[i].expiration = p[j].expiration,
              {i, j} \cap restored' = {}
       PROVE  i < j
  <2>1. /\ i \in DOMAIN ps /\ i \notin restored /\ i \notin back /\ SameTerms(p[i], ps[i])
        /\ j \in DOMAIN ps /\ j \notin restored /\ j \notin back /\ SameTerms(p[j], ps[j])
    BY <1>9, <1>10
  <2>2. PICK x, y : x = PlaceOf(queue, i) /\ y = PlaceOf(queue, j)
    OBVIOUS
  <2>3. x < y
    <3>1. PICK t : t = <<i, j>>
      OBVIOUS
    <3>2. t[1] = i /\ t[2] = j
      BY <3>1
    <3>3. t \in ties
      BY <1>10, <3>1
    <3>4. t[2] \in back \/ PlaceOf(queue, t[1]) < PlaceOf(queue, t[2])
      BY <1>7, <3>3
    <3> QED BY <2>1, <2>2, <3>2, <3>4
  <2>4. x \in DOMAIN queue /\ queue[x] = i /\ y \in DOMAIN queue /\ queue[y] = j
    <3>1. (\E n \in DOMAIN queue : queue[n] = i) /\ \E n \in DOMAIN queue : queue[n] = j
      BY <1>3, <2>1 DEF IsQueueOf, ToSet
    <3> QED BY <2>2, <3>1 DEF PlaceOf
  <2>5. Before(ps, restored, i, j)
    BY <1>3, <2>3, <2>4 DEF IsQueueOf
  <2>6. ps[i].expiration = ps[j].expiration /\ ps[i].expiration \in Nat
    BY <1>1, <1>3, <1>10, <2>1 DEF SameTerms, DbInv, IsProposal
  <2>7. {i, j} \cap restored = {}
    BY <2>1
  <2> QED BY <2>5, <2>6, <2>7 DEF Before
<1>11. IsFiniteSet(DOMAIN p)
  BY <1>1, <1>2, FinitelyMany
<1>12. PICK q, b : q = queue' /\ b = restored'
  OBVIOUS
<1>13. IsQueueOf(q, p, b)
  BY <1>4, <1>8, <1>10, <1>11, <1>12, ChosenIsQueue
<1>14. Noted(index', p, restored')
  <2> SUFFICES ASSUME NEW i \in ids \ restored', NEW a \in ToSet(Required[p[i].operation])
               PROVE  i \in index'[a]
    BY <1>4 DEF Noted
  <2>1. i \in DOMAIN ps /\ i \notin restored /\ i \notin new /\ SameTerms(p[i], ps[i])
    BY <1>9
  <2>2. i \in index[a]
    BY <1>3, <2>1 DEF Noted, SameTerms
  <2>3. a \in Accounts
    BY <1>1, <1>2, <1>4, ProposalsAssumption DEF ProposalsAssumption, DbInv, IsProposal, ToSet
  <2> QED BY <1>8, <2>1, <2>2, <2>3
<1> QED BY <1>1, <1>2, <1>8, <1>12, <1>13, <1>14 DEF Kept

(***************************************************************************)
(* open, after close: the indexes are made anew, in the order of ids.      *)
(***************************************************************************)
LEMMA RestartKeeps ==
  ASSUME ProposalsInv, Len(undo) > 0, NEW c, c = undo[1], c = Head(undo), Restart
  PROVE  /\ Kept(db', queue', index', restored', head'.time)
         /\ db' = c.db /\ head' = c.head /\ undo' = <<c>>
<1>1. PICK p : p = c.db.proposals
  OBVIOUS
<1>2. DbInv(c.db, c.head.time)
  BY DEF ProposalsInv
<1>3. PICK ties : ties = {t \in (DOMAIN p) \X (DOMAIN p) : t[1] < t[2]}
  OBVIOUS
<1>4. /\ head' = c.head /\ db' = c.db /\ undo' = <<c>>
      /\ queue' \in SetToSeqs(DOMAIN p) /\ IsQueue(queue', p, ties)
      /\ index' = [a \in Accounts |-> {id \in DOMAIN p : a \in Concerned(p[id])}]
      /\ restored' = {}
  BY <1>1, <1>3 DEF Restart
<1>5. ASSUME NEW i \in DOMAIN p, NEW j \in DOMAIN p, <<i, j>> \in ties PROVE i < j
  <2>1. PICK t : t = <<i, j>>
    OBVIOUS
  <2>2. t[1] = i /\ t[2] = j
    BY <2>1
  <2>3. t[1] < t[2]
    BY <1>3, <1>5, <2>1
  <2> QED BY <2>2, <2>3
<1>6. IsFiniteSet(DOMAIN p)
  BY <1>1, <1>2, FinitelyMany
<1>7. PICK q, b : q = queue' /\ b = restored'
  OBVIOUS
<1>8. IsQueueOf(q, p, b)
  BY <1>4, <1>5, <1>6, <1>7, ChosenIsQueue
<1>9. Noted(index', p, restored')
  <2> SUFFICES ASSUME NEW i \in DOMAIN p, NEW a \in ToSet(Required[p[i].operation])
               PROVE  i \in index'[a]
    BY DEF Noted
  <2>1. a \in Accounts
    BY <1>1, <1>2, ProposalsAssumption DEF ProposalsAssumption, DbInv, IsProposal, ToSet
  <2> QED BY <1>4, <2>1 DEF Concerned
<1> QED BY <1>1, <1>2, <1>4, <1>7, <1>8, <1>9 DEF Kept

(***************************************************************************)
(* The copies when one is added at the end and the oldest may go.          *)
(***************************************************************************)
LEMMA CopiesShift ==
  ASSUME NEW S, NEW u \in Seq(S), NEW c, NEW v,
         v = (IF Len(Append(u, c)) > MaxUndo THEN Tail(Append(u, c)) ELSE Append(u, c))
  PROVE  \E k \in Nat : /\ Len(v) + k = Len(u) + 1
                        /\ \A i \in 1 .. Len(v) : v[i] = IF i + k = Len(u) + 1 THEN c ELSE u[i + k]
<1>1. PICK w, L : w = Append(u, c) /\ L = Len(u)
  OBVIOUS
<1>2. L \in Nat /\ Len(w) = L + 1 /\ (\A i \in 1 .. L : w[i] = u[i]) /\ w[L + 1] = c
  BY <1>1
<1>3. w \in Seq(S \cup {c})
  <2>1. u \in Seq(S \cup {c})
    OBVIOUS
  <2> QED BY <1>1, <2>1
<1>4. ASSUME NEW i \in 1 .. L + 1 PROVE w[i] = IF i = L + 1 THEN c ELSE u[i]
  BY <1>2
<1>5. CASE Len(w) > MaxUndo
  <2>1. v = Tail(w)
    BY <1>1, <1>5
  <2>2. Len(v) = L
    BY <1>2, <1>3, <2>1
  <2>4. ASSUME NEW i \in 1 .. L PROVE v[i] = w[i + 1] /\ i + 1 \in 1 .. L + 1
    <3>1. i + 1 \in 1 .. L + 1
      BY <1>2
    <3>2. i \in 1 .. Len(w) - 1
      BY <1>2
    <3>3. v[i] = w[i + 1]
      <4>1. w \in Seq(S \cup {c}) /\ w # <<>>
        BY <1>2, <1>3
      <4>2. i \in 1 .. Len(Tail(w))
        BY <2>1, <2>2
      <4> QED BY ONLY <2>1, <4>1, <4>2, SMTT(30)
    <3> QED BY <3>1, <3>3
  <2>3. ASSUME NEW i \in 1 .. L PROVE v[i] = IF i + 1 = L + 1 THEN c ELSE u[i + 1]
    <3>1. PICK n \in 1 .. L + 1 : n = i + 1
      BY <2>4
    <3>2. w[n] = IF n = L + 1 THEN c ELSE u[n]
      BY <1>4
    <3>3. v[i] = w[n]
      BY <2>4, <3>1
    <3>4. (n = L + 1) = (i + 1 = L + 1) /\ u[n] = u[i + 1]
      BY ONLY <3>1
    <3>5. CASE n = L + 1
      <4>1. i + 1 = L + 1
        BY <3>4, <3>5
      <4> QED BY ONLY <3>2, <3>3, <3>5, <4>1, Zenon
    <3>6. CASE n # L + 1
      <4>1. ~(i + 1 = L + 1)
        BY <3>4, <3>6
      <4>2. v[i] = u[n]
        BY ONLY <3>2, <3>3, <3>6, Zenon
      <4> QED BY ONLY <3>4, <4>1, <4>2, Zenon
    <3> QED BY ONLY <3>5, <3>6
  <2>5. 1 \in Nat /\ Len(v) + 1 = Len(u) + 1
    BY <1>1, <1>2, <2>2
  <2>6. \A i \in 1 .. Len(v) : v[i] = IF i + 1 = Len(u) + 1 THEN c ELSE u[i + 1]
    BY ONLY <1>1, <2>2, <2>3, Zenon
  <2> QED BY ONLY <2>5, <2>6
<1>6. CASE ~(Len(w) > MaxUndo)
  <2>1. v = w
    BY <1>1, <1>6
  <2>2. ASSUME NEW i \in 1 .. L + 1 PROVE v[i] = IF i + 0 = L + 1 THEN c ELSE u[i + 0]
    <3>1. i + 0 = i
      BY <1>2
    <3>2. v[i] = IF i = L + 1 THEN c ELSE u[i]
      BY <1>4, <2>1, Zenon
    <3> QED BY <3>1, <3>2, Zenon
  <2>3. Len(v) = L + 1
    BY <1>2, <2>1
  <2>4. Len(v) + 0 = Len(u) + 1
    BY <1>1, <1>2, <2>3
  <2> QED BY <1>1, <2>2, <2>3, <2>4
<1> QED BY <1>5, <1>6

\* The copies u are sound, and earlier on the chain than d and each other.
Copies(u, d) ==
  /\ \A i \in 1 .. Len(u) : DbInv(u[i].db, u[i].head.time) /\ Lineage(u[i].db, d)
  /\ \A i, j \in 1 .. Len(u) : i < j => Lineage(u[i].db, u[j].db)

(***************************************************************************)
(* The end of a block: the copies are earlier than it, and it is the last. *)
(***************************************************************************)
LEMMA BlockKeepsCopies ==
  ASSUME NEW S, NEW u \in Seq(S), NEW d, NEW dt, DbInv(d, dt), Copies(u, d),
         NEW d2, NEW c, DbInv(d2, c.head.time), c.db = d2, Continues(d, d2), NEW v,
         v = (IF Len(Append(u, c)) > MaxUndo THEN Tail(Append(u, c)) ELSE Append(u, c))
  PROVE  Copies(v, d2)
<1>1. PICK L : L = Len(u)
  OBVIOUS
<1>2. PICK k \in Nat : /\ Len(v) + k = L + 1
                       /\ \A i \in 1 .. Len(v) : v[i] = IF i + k = L + 1 THEN c ELSE u[i + k]
  BY <1>1, CopiesShift
<1>3. PICK M : M = Len(v)
  OBVIOUS
<1>4. L \in Nat /\ M \in Nat
  <2>1. L \in Nat
    BY <1>1
  <2>2. v \in Seq(S \cup {c})
    <3>1. PICK w : w = Append(u, c)
      OBVIOUS
    <3>2. u \in Seq(S \cup {c})
      OBVIOUS
    <3>3. w \in Seq(S \cup {c}) /\ w # <<>>
      BY <3>1, <3>2
    <3>4. v = IF Len(w) > MaxUndo THEN Tail(w) ELSE w
      BY <3>1
    <3> QED BY <3>3, <3>4
  <2> QED BY <1>3, <2>1, <2>2
<1>5. M + k = L + 1 /\ \A i \in 1 .. M : v[i] = IF i + k = L + 1 THEN c ELSE u[i + k]
  BY <1>2, <1>3
<1>6. ASSUME NEW i \in 1 .. L
      PROVE  DbInv(u[i].db, u[i].head.time) /\ Lineage(u[i].db, d2)
  <2>1. DbInv(u[i].db, u[i].head.time) /\ Lineage(u[i].db, d)
    BY <1>1 DEF Copies
  <2> QED BY <2>1, LineageGoesOn
<1>7. Lineage(d2, d2)
  BY LineageOfItself
<1>8. ASSUME NEW i \in 1 .. M PROVE i + k = L + 1 \/ i + k \in 1 .. L
  BY <1>4, <1>5
<1>9. ASSUME NEW i \in 1 .. M PROVE DbInv(v[i].db, v[i].head.time) /\ Lineage(v[i].db, d2)
  <2>1. CASE i + k = L + 1
    BY <1>5, <1>7, <2>1
  <2>2. CASE i + k # L + 1
    <3>1. PICK n \in 1 .. L : n = i + k
      BY <1>8, <2>2
    <3>2. v[i] = u[n]
      BY <1>5, <2>2, <3>1
    <3> QED BY <1>6, <3>2
  <2> QED BY <2>1, <2>2
<1>10. ASSUME NEW i \in 1 .. M, NEW j \in 1 .. M, i < j PROVE Lineage(v[i].db, v[j].db)
  <2>1. i + k # L + 1
    BY <1>4, <1>5, <1>10
  <2>2. PICK n \in 1 .. L : n = i + k
    BY <1>8, <2>1
  <2>3. v[i] = u[n]
    BY <1>5, <2>1, <2>2
  <2>4. CASE j + k = L + 1
    BY <1>5, <1>6, <2>3, <2>4
  <2>5. CASE j + k # L + 1
    <3>1. PICK x \in 1 .. L : x = j + k
      BY <1>8, <2>5
    <3>2. v[j] = u[x]
      BY <1>5, <2>5, <3>1, Zenon
    <3>3. n < x
      BY <1>4, <1>10, <2>2, <3>1
    <3> QED BY <1>1, <2>3, <3>2, <3>3 DEF Copies
  <2> QED BY <2>4, <2>5
<1> QED BY <1>3, <1>9, <1>10 DEF Copies

(***************************************************************************)
(* ProposalsInv holds in every reachable state.                            *)
(***************************************************************************)
THEOREM ProposalsInvariant == Spec => []ProposalsInv
<1>1. Init => ProposalsInv
  <2> SUFFICES ASSUME Init PROVE ProposalsInv
    OBVIOUS
  <2>1. PICK d : d = db
    OBVIOUS
  <2>2. d = [proposals |-> <<>>, next |-> 1, authority |-> GenesisAuthority, executed |-> <<>>]
    BY <2>1 DEF Init
  <2>3. PICK h : h = head
    OBVIOUS
  <2>4. h = [time |-> 1, transactions |-> {}, applied |-> {}, repeated |-> {}]
    BY <2>3 DEF Init
  <2>5. DbInv(d, h.time)
    BY <2>2, ProposalsAssumption DEF DbInv, ProposalsAssumption
  <2>6. IsQueueOf(queue, d.proposals, restored)
    BY <2>2 DEF Init, IsQueueOf, IsInjective, ToSet
  <2>7. Noted(index, d.proposals, restored)
    BY <2>2 DEF Noted
  <2>8. PICK c : c = [head |-> h, db |-> d]
    OBVIOUS
  <2>9. undo = <<c>>
    BY <2>1, <2>3, <2>8 DEF Init
  <2>10. Len(undo) = 1 /\ undo[1].head = h /\ undo[1].db = d
    BY <2>8, <2>9
  <2>11. Lineage(d, d)
    BY <2>5, LineageOfItself
  <2> QED BY <2>1, <2>3, <2>5, <2>6, <2>7, <2>10, <2>11 DEF ProposalsInv, Kept
<1>2. TransactionsInv /\ TransactionsInv' /\ ProposalsInv /\ [Next]_vars => ProposalsInv'
  <2> SUFFICES ASSUME TransactionsInv, TransactionsInv', ProposalsInv, [Next]_vars PROVE ProposalsInv'
    OBVIOUS
  <2>1. PICK S : undo \in Seq(S)
    BY DEF TransactionsInv
  <2>2. PICK u, d, time : u = undo /\ d = db /\ time = head.time
    OBVIOUS
  <2>3. DbInv(d, time) /\ Copies(u, d) /\ u \in Seq(S)
    BY <2>1, <2>2 DEF ProposalsInv, Kept, Copies
  <2>4. time \in Nat /\ MaxTime \in Nat
    BY <2>2, ProposalsAssumption DEF TransactionsInv, Remembered, ProposalsAssumption
  <2>5. ASSUME Kept(db', queue', index', restored', head'.time), Copies(undo', db')
        PROVE  ProposalsInv'
    BY <2>5 DEF ProposalsInv, Kept, Copies
  <2>6. ASSUME Kept(db', queue', index', restored', head'.time), Continues(db, db'), UNCHANGED undo
        PROVE  ProposalsInv'
    <3>1. PICK d2, t2 : d2 = db' /\ t2 = head'.time
      OBVIOUS
    <3>2. DbInv(d2, t2) /\ Continues(d, d2)
      BY <2>2, <2>6, <3>1 DEF Kept
    <3>3. Copies(u, d2)
      <4>1. ASSUME NEW i \in 1 .. Len(u) PROVE DbInv(u[i].db, u[i].head.time) /\ Lineage(u[i].db, d2)
        BY <2>3, <3>2, LineageGoesOn DEF Copies
      <4> QED BY <2>3, <4>1 DEF Copies
    <3>4. Copies(undo', db')
      BY <2>2, <2>6, <3>1, <3>3
    <3> QED BY <2>5, <2>6, <3>4
  <2>7. ASSUME NEW o \in Operations, NEW p \in Terms, NEW e \in Expirations,
               Create(o, head.time + p.lifetime, p.review, e)
        PROVE  ProposalsInv'
    <3>1. head.time + p.lifetime \in Nat /\ p.review \in Nat
      BY <2>2, <2>4, ProposalsAssumption DEF ProposalsAssumption
    <3>2. Kept(db', queue', index', restored', head'.time) /\ Continues(db, db')
      BY <2>7, <3>1, CreateKeeps
    <3>3. UNCHANGED undo
      BY <2>7 DEF Create
    <3> QED BY <2>6, <3>2, <3>3
  <2>8. ASSUME NEW id \in DOMAIN db.proposals, NEW a \in Approvals, NEW ok \in BOOLEAN,
               NEW e \in Expirations, Update(id, a, ok, e)
        PROVE  ProposalsInv'
    <3>1. Kept(db', queue', index', restored', head'.time) /\ Continues(db, db')
      BY <2>8, UpdateKeeps
    <3>2. UNCHANGED undo
      BY <2>8 DEF Update
    <3> QED BY <2>6, <3>1, <3>2
  <2>9. ASSUME NEW id \in DOMAIN db.proposals, NEW a \in Accounts, NEW e \in Expirations, Delete(id, a, e)
        PROVE  ProposalsInv'
    <3>1. Kept(db', queue', index', restored', head'.time) /\ Continues(db, db')
      BY <2>9, DeleteKeeps
    <3>2. UNCHANGED undo
      BY <2>9 DEF Delete
    <3> QED BY <2>6, <3>1, <3>2
  <2>10. ASSUME NEW now \in 1 .. MaxTime, NEW failing, EndBlock(now, failing)
         PROVE  ProposalsInv'
    <3>1. now \in Nat
      BY <2>4
    <3>2. Kept(db', queue', index', restored', head'.time) /\ Continues(db, db') /\ head'.time = now
      BY <2>10, <3>1, BlockKeeps
    <3>3. PICK h2, d2 : h2 = head' /\ d2 = db'
      OBVIOUS
    <3>4. PICK c : c = [head |-> h2, db |-> d2]
      OBVIOUS
    <3>5. c.head = h2 /\ c.db = d2
      BY <3>4
    <3>6. DbInv(d2, c.head.time) /\ Continues(d, d2)
      BY <2>2, <3>2, <3>3, <3>5 DEF Kept
    <3>7. PICK v : v = undo'
      OBVIOUS
    <3>8. v = (IF Len(Append(u, c)) > MaxUndo THEN Tail(Append(u, c)) ELSE Append(u, c))
      BY <2>2, <2>10, <3>3, <3>4, <3>7, Zenon DEF EndBlock
    <3>9. Copies(v, d2)
      BY ONLY <2>3, <3>5, <3>6, <3>8, BlockKeepsCopies, Zenon
    <3> QED BY <2>5, <3>2, <3>3, <3>7, <3>9
  <2>11. ASSUME NEW m \in 1 .. Len(u), Undone(u[m]), NEW v, v = undo', NEW M \in Nat, M = Len(v),
                M <= Len(u), M <= m, \A i \in 1 .. M : v[i] = u[i]
         PROVE  ProposalsInv'
    <3>1. PICK c : c = u[m]
      OBVIOUS
    <3>2. Kept(db', queue', index', restored', head'.time) /\ db' = c.db
      BY <2>2, <2>11, <3>1, UndoneKeeps
    <3>3. Len(u) \in Nat /\ \A i \in 1 .. M : i \in 1 .. Len(u) /\ i <= m
      BY <2>3, <2>11
    <3>4. Lineage(c.db, c.db)
      BY <2>3, <3>1, LineageOfItself DEF Copies
    <3>5. ASSUME NEW i \in 1 .. M PROVE DbInv(v[i].db, v[i].head.time) /\ Lineage(v[i].db, c.db)
      <4>1. i \in 1 .. Len(u) /\ v[i] = u[i] /\ (i = m \/ i < m)
        BY <2>11, <3>3
      <4> QED BY <2>3, <3>1, <3>4, <4>1 DEF Copies
    <3>6. \A i, j \in 1 .. M : i < j => Lineage(v[i].db, v[j].db)
      BY <2>3, <2>11, <3>3 DEF Copies
    <3>7. Copies(v, c.db)
      BY <2>11, <3>5, <3>6 DEF Copies
    <3> QED BY <2>5, <2>11, <3>2, <3>7
  <2>12. CASE Reset
    <3>1. Len(u) \in Nat /\ Len(u) > 0
      BY <2>2, <2>3 DEF TransactionsInv
    <3>2. Undone(u[Len(u)]) /\ undo' = u
      BY <2>2, <2>12 DEF Reset, Last
    <3>3. Len(u) \in 1 .. Len(u) /\ Len(u) <= Len(u)
      BY <3>1
    <3> QED BY <2>11, <3>1, <3>2, <3>3
  <2>13. CASE Pop
    <3>1. PICK m : m = Len(u) - 1
      OBVIOUS
    <3>2. Undone(u[m]) /\ Len(u) > 1 /\ undo' = SubSeq(u, 1, m)
      BY <2>2, <2>13, <3>1 DEF Pop, Front
    <3>3. m \in Nat /\ m \in 1 .. Len(u) /\ m <= Len(u) /\ m <= m
      BY <2>3, <3>1, <3>2
    <3>4. PICK v : v = undo'
      OBVIOUS
    <3>5. Len(v) = m /\ \A i \in 1 .. m : v[i] = u[i]
      BY <2>3, <3>1, <3>2, <3>3, <3>4
    <3> QED BY <2>11, <3>2, <3>3, <3>4, <3>5
  <2>14. CASE Restart
    <3>1. Len(undo) > 0
      BY DEF TransactionsInv
    <3>2. PICK c : c = undo[1]
      OBVIOUS
    <3>3. c = Head(undo)
      BY <2>1, <3>1, <3>2
    <3>4. Kept(db', queue', index', restored', head'.time) /\ db' = c.db /\ undo' = <<c>>
      BY <2>14, <3>1, <3>2, <3>3, RestartKeeps
    <3>5. DbInv(c.db, c.head.time)
      <4>1. 1 \in 1 .. Len(u)
        BY <2>2, <2>3, <3>1
      <4> QED BY <2>2, <2>3, <3>2, <4>1 DEF Copies
    <3>6. Lineage(c.db, c.db)
      BY <3>5, LineageOfItself
    <3>7. PICK v : v = undo'
      OBVIOUS
    <3>8. Len(v) = 1 /\ v[1] = c
      BY <3>4, <3>7
    <3>9. Copies(v, c.db)
      BY <3>5, <3>6, <3>8 DEF Copies
    <3> QED BY <2>5, <3>4, <3>7, <3>9
  <2>15. CASE UNCHANGED vars
    BY <2>15 DEF vars, ProposalsInv
  <2> QED BY <2>7, <2>8, <2>9, <2>10, <2>12, <2>13, <2>14, <2>15 DEF Next
<1> QED BY <1>1, <1>2, TransactionsInvariant, PTL DEF Spec

(***************************************************************************)
(* No proposal is executed without approvals that amount, however deep, to *)
(* those of all required accounts; one with a review only when it expires, *)
(* by approvals that stood when the review began.                          *)
(***************************************************************************)
THEOREM ExecutionsAreApproved == Spec => []ExecutedApproved
<1>1. ProposalsInv => ExecutedApproved
  BY DEF ProposalsInv, Kept, DbInv, IsApproved, ExecutedApproved
<1> QED BY <1>1, ProposalsInvariant, PTL

(***************************************************************************)
(* Apart from the proposals that an undo put back, every account whose     *)
(* approval is required finds the proposal, and proposals expire by time,  *)
(* then by id, whatever blocks were popped and after a restart.            *)
(***************************************************************************)
THEOREM IndexesFollowProposals == Spec => []IndexesFollow
<1>1. ProposalsInv => IndexesFollow
  <2> SUFFICES ASSUME ProposalsInv PROVE IndexesFollow
    OBVIOUS
  <2>1. IsQueueOf(queue, db.proposals, restored) /\ Noted(index, db.proposals, restored)
    BY DEF ProposalsInv, Kept
  <2>2. PICK p : p = db.proposals
    OBVIOUS
  <2>3. ASSUME NEW i \in DOMAIN queue, NEW j \in DOMAIN queue, i < j,
               {queue[i], queue[j]} \subseteq DOMAIN p \ restored
        PROVE  Earlier(queue[i], queue[j])
    <3>1. {queue[i], queue[j]} \cap restored = {}
      BY <2>3
    <3>2. Before(p, restored, queue[i], queue[j])
      BY <2>1, <2>2, <2>3 DEF IsQueueOf
    <3> QED BY <2>2, <3>1, <3>2 DEF Before, Earlier
  <2>4. ToSet(queue) = DOMAIN p
    BY <2>1, <2>2 DEF IsQueueOf
  <2>5. \A id \in DOMAIN p \ restored : \A a \in ToSet(Required[p[id].operation]) : id \in index[a]
    BY <2>1, <2>2 DEF Noted
  <2> QED BY <2>2, <2>3, <2>4, <2>5 DEF IndexesFollow
<1> QED BY <1>1, ProposalsInvariant, PTL
=============================================================================
