------------------------ MODULE ChainDatabaseProofs ------------------------
(***************************************************************************)
(* For every tree of blocks, every set of transactions and any failures:   *)
(* the undo states lead back along the chain, and no push loses a          *)
(* transaction.                                                            *)
(***************************************************************************)
EXTENDS ChainDatabase, SequenceTheorems, WellFoundedInduction, TLAPS

----------------------------------------------------------------------------
(* Sequences and maxima. *)

(***************************************************************************)
(* The end and the front of a sequence.                                    *)
(***************************************************************************)
LEMMA LastAndFront ==
  ASSUME NEW S, NEW s \in Seq(S), s # <<>>
  PROVE  /\ Len(s) \in Nat \ {0} /\ Last(s) = s[Len(s)] /\ Last(s) \in S
         /\ Front(s) \in Seq(S) /\ Len(Front(s)) = Len(s) - 1
         /\ \A i \in 1 .. Len(s) - 1 : Front(s)[i] = s[i]
<1>1. Len(s) \in Nat \ {0} /\ DOMAIN s = 1 .. Len(s)
  BY EmptySeq, LenProperties
<1>2. Len(s) \in 1 .. Len(s) /\ 1 \in Int /\ Len(s) - 1 \in Int
  BY <1>1
<1>3. \A i \in 1 .. Len(s) - 1 : s[i] \in S
  BY <1>1, ElementOfSeq
<1>4. /\ SubSeq(s, 1, Len(s) - 1) \in Seq(S)
      /\ Len(SubSeq(s, 1, Len(s) - 1)) = IF 1 <= Len(s) - 1 THEN Len(s) - 1 - 1 + 1 ELSE 0
      /\ \A i \in 1 .. Len(s) - 1 - 1 + 1 : SubSeq(s, 1, Len(s) - 1)[i] = s[1 + i - 1]
  BY <1>2, <1>3, SubSeqProperties
<1>5. Front(s) = SubSeq(s, 1, Len(s) - 1) /\ Last(s) = s[Len(s)]
  BY DEF Front, Last
<1>6. \A i \in 1 .. Len(s) - 1 : Front(s)[i] = s[i]
  BY <1>1, <1>4, <1>5
<1>7. Len(Front(s)) = Len(s) - 1
  BY <1>1, <1>4, <1>5
<1> QED BY <1>1, <1>2, <1>4, <1>5, <1>6, <1>7, ElementOfSeq

(***************************************************************************)
(* What a sequence holds when it is extended, joined or shortened.         *)
(***************************************************************************)
LEMMA Elements ==
  ASSUME NEW S, NEW s \in Seq(S)
  PROVE  /\ ToSet(s) \subseteq S
         /\ ToSet(<<>>) = {}
         /\ \A e \in S : ToSet(Append(s, e)) = ToSet(s) \cup {e}
         /\ \A t \in Seq(S) : ToSet(s \o t) = ToSet(s) \cup ToSet(t)
         /\ s # <<>> => ToSet(s) = {Head(s)} \cup ToSet(Tail(s))
<1>1. \A t \in Seq(S) : ToSet(t) = {t[i] : i \in 1 .. Len(t)} /\ Len(t) \in Nat
  BY LenProperties DEF ToSet
<1>2. ToSet(s) \subseteq S
  BY <1>1, ElementOfSeq
<1>3. ToSet(<<>>) = {}
  <2>1. <<>> \in Seq(S) /\ Len(<<>>) = 0 /\ 1 .. 0 = {}
    BY EmptySeq
  <2> QED BY <1>1, <2>1
<1>4. ASSUME NEW e \in S PROVE ToSet(Append(s, e)) = ToSet(s) \cup {e}
  <2> DEFINE a == Append(s, e)
  <2>1. /\ a \in Seq(S) /\ Len(a) = Len(s) + 1
        /\ \A i \in 1 .. Len(s) : a[i] = s[i]
        /\ a[Len(s) + 1] = e
    BY AppendProperties
  <2> HIDE DEF a
  <2>2. 1 .. Len(a) = (1 .. Len(s)) \cup {Len(s) + 1}
    BY <1>1, <2>1
  <2>3. ToSet(a) = {a[i] : i \in 1 .. Len(a)} /\ ToSet(s) = {s[i] : i \in 1 .. Len(s)}
    BY <1>1, <2>1
  <2> QED BY <2>1, <2>2, <2>3 DEF a
<1>5. ASSUME NEW t \in Seq(S) PROVE ToSet(s \o t) = ToSet(s) \cup ToSet(t)
  <2>1. /\ s \o t \in Seq(S) /\ Len(s \o t) = Len(s) + Len(t)
        /\ \A i \in 1 .. Len(s) + Len(t) :
              (s \o t)[i] = IF i <= Len(s) THEN s[i] ELSE t[i - Len(s)]
    BY ConcatProperties
  <2>2. ASSUME NEW i \in 1 .. Len(t)
        PROVE  Len(s) + i \in 1 .. Len(s) + Len(t) /\ (s \o t)[Len(s) + i] = t[i]
    BY <1>1, <2>1
  <2>3. ASSUME NEW i \in 1 .. Len(s)
        PROVE  i \in 1 .. Len(s) + Len(t) /\ (s \o t)[i] = s[i]
    BY <1>1, <2>1
  <2>4. ASSUME NEW i \in 1 .. Len(s) + Len(t)
        PROVE  (s \o t)[i] \in ToSet(s) \cup ToSet(t)
    <3>1. CASE i <= Len(s)
      BY <1>1, <2>1, <3>1
    <3>2. CASE ~(i <= Len(s))
      <4>1. i - Len(s) \in 1 .. Len(t)
        BY <1>1, <3>2
      <4> QED BY <1>1, <2>1, <3>2, <4>1
    <3> QED BY <3>1, <3>2
  <2>5. ToSet(s \o t) = {(s \o t)[i] : i \in 1 .. Len(s) + Len(t)}
    BY <1>1, <2>1
  <2> QED BY <1>1, <2>2, <2>3, <2>4, <2>5
<1>6. ASSUME s # <<>> PROVE ToSet(s) = {Head(s)} \cup ToSet(Tail(s))
  <2>1. /\ Tail(s) \in Seq(S) /\ Len(Tail(s)) = Len(s) - 1 /\ Head(s) = s[1]
        /\ \A i \in 1 .. Len(Tail(s)) : Tail(s)[i] = s[i + 1]
    BY <1>6, HeadTailProperties
  <2>2. Len(s) \in Nat \ {0}
    BY <1>6, EmptySeq
  <2>3. ASSUME NEW i \in 1 .. Len(s) PROVE s[i] \in {Head(s)} \cup ToSet(Tail(s))
    <3>1. CASE i = 1
      BY <2>1, <3>1
    <3>2. CASE i # 1
      <4>1. i - 1 \in 1 .. Len(Tail(s)) /\ i - 1 + 1 = i
        BY <2>1, <2>2, <3>2
      <4> QED BY <1>1, <2>1, <4>1
    <3> QED BY <3>1, <3>2
  <2>4. ASSUME NEW i \in 1 .. Len(Tail(s)) PROVE Tail(s)[i] \in ToSet(s)
    <3>1. i + 1 \in 1 .. Len(s)
      BY <2>1, <2>2
    <3> QED BY <1>1, <2>1, <3>1
  <2>5. Head(s) \in ToSet(s)
    <3>1. 1 \in 1 .. Len(s)
      BY <2>2
    <3> QED BY <1>1, <2>1, <3>1
  <2>6. ToSet(s) = {s[i] : i \in 1 .. Len(s)}
    BY <1>1
  <2>7. ToSet(Tail(s)) = {Tail(s)[i] : i \in 1 .. Len(Tail(s))}
    BY <1>1, <2>1
  <2> QED BY <2>3, <2>4, <2>5, <2>6, <2>7, Zenon
<1> QED BY <1>2, <1>3, <1>4, <1>5, <1>6

(***************************************************************************)
(* The greatest of some numbers up to a bound, which is the one Max        *)
(* chooses, is one of them.                                                *)
(***************************************************************************)
LEMMA MaxOfBounded ==
  ASSUME NEW N \in Nat, NEW S \in SUBSET (0 .. N), S # {}
  PROVE  Max(S) \in S
<1> DEFINE T == {N - k : k \in S}
<1>1. T \subseteq Nat /\ T # {}
  <2>1. PICK k \in S : TRUE
    OBVIOUS
  <2>2. N - k \in T
    BY <2>1
  <2> QED BY <2>2
<1>2. PICK t \in T : \A u \in T : ~(<<u, t>> \in OpToRel(<, Nat))
  BY <1>1, NatLessThanWellFounded, WFMin
<1>3. PICK x \in S : t = N - x
  BY <1>2
<1>4. ASSUME NEW y \in S PROVE x >= y
  <2>1. N - y \in T /\ ~(N - y < N - x)
    BY <1>1, <1>2, <1>3 DEF OpToRel
  <2> QED BY <2>1
<1> QED BY <1>4, Zenon DEF Max

(***************************************************************************)
(* The greater and the smaller of two numbers.                             *)
(***************************************************************************)
LEMMA MaxAndMinOfTwo ==
  ASSUME NEW m \in Nat, NEW n \in Nat
  PROVE  /\ Max({m, n}) = IF m >= n THEN m ELSE n
         /\ Min({m, n}) = IF m <= n THEN m ELSE n
<1>1. Max({m, n}) \in {m, n} /\ \A y \in {m, n} : Max({m, n}) >= y
  <2>1. \E x \in {m, n} : \A y \in {m, n} : x >= y
    OBVIOUS
  <2> QED BY <2>1, Zenon DEF Max
<1>2. Min({m, n}) \in {m, n} /\ \A y \in {m, n} : Min({m, n}) <= y
  <2>1. \E x \in {m, n} : \A y \in {m, n} : x <= y
    OBVIOUS
  <2> QED BY <2>1, Zenon DEF Min
<1> QED BY <1>1, <1>2

----------------------------------------------------------------------------
(* The paths of the tree. *)

\* The paths from a first block to b.
PathsTo(b) ==
  {s \in Seq(Blocks) :
     /\ s # <<>> /\ s[Len(s)] = b
     /\ Parent[s[1]] = NoBlock
     /\ \A i \in 2 .. Len(s) : Parent[s[i]] = s[i - 1]}

(***************************************************************************)
(* A path ends with a first block, or goes on from one to the parent.      *)
(***************************************************************************)
LEMMA PathsGoOn ==
  ASSUME NEW b \in Blocks
  PROVE  PathsTo(b) = IF Parent[b] = NoBlock THEN {<<b>>}
                      ELSE {Append(s, b) : s \in PathsTo(Parent[b])}
<1>1. CASE Parent[b] = NoBlock
  <2>1. <<b>> \in Seq(Blocks) /\ Len(<<b>>) = 1 /\ <<b>>[1] = b /\ <<b>> # <<>>
    OBVIOUS
  <2>2. <<b>> \in PathsTo(b)
    BY <1>1, <2>1 DEF PathsTo
  <2>3. ASSUME NEW s \in PathsTo(b) PROVE s = <<b>>
    <3>1. s \in Seq(Blocks) /\ s # <<>> /\ s[Len(s)] = b /\ Len(s) \in Nat \ {0}
      BY EmptySeq DEF PathsTo
    <3>2. Len(s) = 1
      <4>1. ASSUME Len(s) # 1 PROVE FALSE
        <5>1. Len(s) \in 2 .. Len(s) /\ Len(s) - 1 \in 1 .. Len(s)
          <6>1. \A n \in Nat \ {0} : n # 1 => n \in 2 .. n /\ n - 1 \in 1 .. n
            OBVIOUS
          <6> QED BY ONLY <3>1, <4>1, <6>1
        <5>2. Parent[b] = s[Len(s) - 1]
          BY <3>1, <5>1 DEF PathsTo
        <5>3. s[Len(s) - 1] \in Blocks
          BY <3>1, <5>1, ElementOfSeq
        <5> QED BY <1>1, <5>2, <5>3, BlocksAssumption
      <4> QED BY <4>1
    <3>3. \A i \in 1 .. Len(s) : s[i] = <<b>>[i]
      BY <2>1, <3>1, <3>2
    <3> QED BY <2>1, <3>1, <3>2, <3>3, SeqEqual
  <2> QED BY <1>1, <2>2, <2>3
<1>2. CASE Parent[b] # NoBlock
  <2>1. Parent[b] \in Blocks
    BY <1>2, BlocksAssumption
  <2>2. ASSUME NEW s \in PathsTo(Parent[b]) PROVE Append(s, b) \in PathsTo(b)
    <3> DEFINE a == Append(s, b)
    <3>1. s \in Seq(Blocks) /\ s # <<>> /\ s[Len(s)] = Parent[b] /\ Len(s) \in Nat \ {0}
      BY EmptySeq DEF PathsTo
    <3>2. /\ a \in Seq(Blocks) /\ a # <<>> /\ Len(a) = Len(s) + 1 /\ a[Len(s) + 1] = b
          /\ \A i \in 1 .. Len(s) : a[i] = s[i]
      BY <3>1, AppendProperties
    <3> HIDE DEF a
    <3>3. Parent[a[1]] = NoBlock
      <4>1. a[1] = s[1]
        BY <3>1, <3>2
      <4> QED BY <4>1 DEF PathsTo
    <3>4. ASSUME NEW i \in 2 .. Len(a) PROVE Parent[a[i]] = a[i - 1]
      <4>1. CASE i = Len(a)
        <5>1. i = Len(s) + 1 /\ i - 1 = Len(s) /\ i - 1 \in 1 .. Len(s)
          BY <3>1, <3>2, <4>1
        <5> QED BY <3>1, <3>2, <5>1
      <4>2. CASE i # Len(a)
        <5>1. i \in 2 .. Len(s) /\ i \in 1 .. Len(s) /\ i - 1 \in 1 .. Len(s)
          BY <3>1, <3>2, <4>2
        <5>2. Parent[s[i]] = s[i - 1]
          BY <5>1 DEF PathsTo
        <5> QED BY <3>2, <5>1, <5>2
      <4> QED BY <4>1, <4>2
    <3> QED BY <3>2, <3>3, <3>4 DEF PathsTo, a
  <2>3. ASSUME NEW s \in PathsTo(b)
        PROVE  \E t \in PathsTo(Parent[b]) : s = Append(t, b)
    <3>1. /\ s \in Seq(Blocks) /\ s # <<>> /\ s[Len(s)] = b /\ Parent[s[1]] = NoBlock
          /\ \A i \in 2 .. Len(s) : Parent[s[i]] = s[i - 1]
      BY DEF PathsTo
    <3>2. PICK t \in Seq(Blocks), e \in Blocks : s = Append(t, e)
      BY <3>1, SequenceEmptyOrAppend
    <3>3. /\ Len(s) = Len(t) + 1 /\ s[Len(t) + 1] = e /\ Len(t) \in Nat
          /\ \A i \in 1 .. Len(t) : s[i] = t[i]
      BY <3>2, AppendProperties, LenProperties
    <3>4. e = b
      BY <3>1, <3>3
    <3>5. Len(t) # 0
      <4>1. ASSUME Len(t) = 0 PROVE FALSE
        BY <1>2, <3>1, <3>3, <4>1
      <4> QED BY <4>1
    <3>6. t # <<>>
      BY <3>5, EmptySeq
    <3>7. t[Len(t)] = Parent[b]
      <4>1. Len(s) \in 2 .. Len(s) /\ Len(s) - 1 = Len(t) /\ Len(t) \in 1 .. Len(t)
        BY <3>3, <3>5
      <4>2. Parent[s[Len(s)]] = s[Len(s) - 1]
        BY <3>1, <4>1
      <4> QED BY <3>1, <3>3, <4>1, <4>2
    <3>8. Parent[t[1]] = NoBlock
      <4>1. 1 \in 1 .. Len(t)
        BY <3>3, <3>5
      <4> QED BY <3>1, <3>3, <4>1
    <3>9. ASSUME NEW i \in 2 .. Len(t) PROVE Parent[t[i]] = t[i - 1]
      <4>1. i \in 2 .. Len(s) /\ i \in 1 .. Len(t) /\ i - 1 \in 1 .. Len(t)
        BY <3>3
      <4> QED BY <3>1, <3>3, <4>1
    <3>10. t \in PathsTo(Parent[b])
      BY <3>6, <3>7, <3>8, <3>9 DEF PathsTo
    <3> QED BY <3>2, <3>4, <3>10
  <2> QED BY <1>2, <2>2, <2>3
<1> QED BY <1>1, <1>2

(***************************************************************************)
(* Each block has exactly one path, since there is no way round; Path is   *)
(* the function that the recursion describes.                              *)
(***************************************************************************)
LEMMA PathRecursion ==
  \A b \in Blocks :
    /\ Path[b] = IF Parent[b] = NoBlock THEN <<b>> ELSE Append(Path[Parent[b]], b)
    /\ Path[b] \in Seq(Blocks) /\ Path[b] # <<>>
<1> DEFINE Only == {b \in Blocks : \E s : PathsTo(b) = {s}}
<1>1. Only = Blocks
  <2> DEFINE Others == Blocks \ Only
  <2>1. ASSUME Others # {} PROVE FALSE
    <3>1. PICK b \in Others : Parent[b] \notin Others
      <4>1. Others \in SUBSET Blocks
        OBVIOUS
      <4> HIDE DEF Others
      <4> QED BY <2>1, <4>1, BlocksAssumption
    <3>2. CASE Parent[b] = NoBlock
      <4>1. PathsTo(b) = {<<b>>}
        BY <3>2, PathsGoOn
      <4> QED BY <4>1
    <3>3. CASE Parent[b] # NoBlock
      <4>1. Parent[b] \in Only
        BY <3>1, <3>3, BlocksAssumption
      <4>2. PICK s : PathsTo(Parent[b]) = {s}
        BY <4>1
      <4>3. PathsTo(b) = {Append(s, b)}
        BY <3>3, <4>2, PathsGoOn
      <4> QED BY <4>3
    <3> QED BY <3>2, <3>3
  <2> QED BY <2>1
<1> DEFINE f == [b \in Blocks |-> CHOOSE s : s \in PathsTo(b)]
           next(g, b) == IF Parent[b] = NoBlock THEN <<b>> ELSE Append(g[Parent[b]], b)
<1>2. ASSUME NEW b \in Blocks PROVE PathsTo(b) = {f[b]}
  <2>1. PICK s : PathsTo(b) = {s}
    BY <1>1
  <2>2. (CHOOSE t : t \in PathsTo(b)) \in PathsTo(b)
    BY <2>1
  <2> QED BY <2>1, <2>2
<1> HIDE DEF Only, f
<1>3. ASSUME NEW b \in Blocks PROVE f[b] = next(f, b)
  <2>1. CASE Parent[b] = NoBlock
    BY <1>2, <2>1, PathsGoOn
  <2>2. CASE Parent[b] # NoBlock
    <3>1. PathsTo(Parent[b]) = {f[Parent[b]]}
      BY <1>2, <2>2, BlocksAssumption
    <3>2. PathsTo(b) = {Append(f[Parent[b]], b)}
      BY <2>2, <3>1, PathsGoOn
    <3> QED BY <1>2, <2>2, <3>2
  <2> QED BY <2>1, <2>2
<1>4. f = [b \in Blocks |-> next(f, b)]
  <2>1. f = [b \in Blocks |-> f[b]]
    BY DEF f
  <2> HIDE DEF next
  <2> QED BY <1>3, <2>1
<1>5. Path = [b \in Blocks |-> next(Path, b)]
  BY <1>4, Zenon DEF Path
<1> DEFINE All == {b \in Blocks : Path[b] \in PathsTo(b)}
<1>6. All = Blocks
  <2> DEFINE Others == Blocks \ All
  <2>1. ASSUME Others # {} PROVE FALSE
    <3>1. PICK b \in Others : Parent[b] \notin Others
      <4>1. Others \in SUBSET Blocks
        OBVIOUS
      <4> HIDE DEF Others
      <4> QED BY <2>1, <4>1, BlocksAssumption
    <3>2. Path[b] = next(Path, b)
      <4> HIDE DEF next
      <4> QED BY <1>5
    <3>3. CASE Parent[b] = NoBlock
      BY <3>2, <3>3, PathsGoOn
    <3>4. CASE Parent[b] # NoBlock
      <4>1. Path[Parent[b]] \in PathsTo(Parent[b])
        BY <3>1, <3>4, BlocksAssumption
      <4> QED BY <3>2, <3>4, <4>1, PathsGoOn
    <3> QED BY <3>3, <3>4
  <2> QED BY <2>1
<1> SUFFICES ASSUME NEW b \in Blocks
             PROVE  Path[b] = next(Path, b) /\ Path[b] \in Seq(Blocks) /\ Path[b] # <<>>
  OBVIOUS
<1>7. Path[b] = next(Path, b)
  <2> HIDE DEF next
  <2> QED BY <1>5
<1>8. Path[b] \in Seq(Blocks) /\ Path[b] # <<>>
  BY <1>6 DEF PathsTo
<1> QED BY <1>7, <1>8

(***************************************************************************)
(* A block has the number after that of its parent.                        *)
(***************************************************************************)
LEMMA Numbers ==
  /\ Num(NoBlock) = 0
  /\ \A id \in Blocks \cup {NoBlock} : PathTo(id) \in Seq(Blocks) /\ Num(id) \in Nat
  /\ \A b \in Blocks : /\ PathTo(b) = Path[b] /\ Num(b) = Len(Path[b])
                       /\ Num(b) = Num(Parent[b]) + 1
                       /\ Parent[b] \in Blocks \cup {NoBlock}
<1>1. PathTo(NoBlock) = <<>> /\ Num(NoBlock) = 0
  BY EmptySeq DEF PathTo, Num
<1>2. ASSUME NEW b \in Blocks
      PROVE  PathTo(b) = Path[b] /\ Num(b) = Len(Path[b]) /\ Path[b] \in Seq(Blocks)
  BY PathRecursion, BlocksAssumption DEF PathTo, Num
<1>3. \A id \in Blocks \cup {NoBlock} : PathTo(id) \in Seq(Blocks) /\ Num(id) \in Nat
  <2>1. <<>> \in Seq(Blocks)
    BY EmptySeq
  <2> QED BY <1>1, <1>2, <2>1, LenProperties
<1>4. ASSUME NEW b \in Blocks PROVE Num(b) = Num(Parent[b]) + 1
  <2>1. CASE Parent[b] = NoBlock
    <3>1. Path[b] = <<b>> /\ Len(<<b>>) = 1
      BY <2>1, PathRecursion
    <3>2. Num(Parent[b]) = 0 /\ Num(b) = 1
      BY <1>1, <1>2, <2>1, <3>1, Zenon
    <3> QED BY <3>2
  <2>2. CASE Parent[b] # NoBlock
    <3>1. Parent[b] \in Blocks /\ Path[b] = Append(Path[Parent[b]], b)
      BY <2>2, PathRecursion, BlocksAssumption
    <3>2. Len(Append(Path[Parent[b]], b)) = Len(Path[Parent[b]]) + 1
      BY <1>2, <3>1, AppendProperties
    <3> QED BY <1>2, <3>1, <3>2
  <2> QED BY <2>1, <2>2
<1> QED BY <1>1, <1>2, <1>3, <1>4, BlocksAssumption

(***************************************************************************)
(* No block is irreversible before it is made, hence the undo database     *)
(* always has room for the session of a block and one more.                *)
(***************************************************************************)
LEMMA HistoryHasRoom ==
  ASSUME NEW b \in Blocks
  PROVE  HistorySize(b) \in Nat /\ HistorySize(b) > 1
<1> DEFINE p == Parent[b]
<1> DEFINE S == {n \in 0 .. Num(p) :
                   n = 0 \/ Cardinality({m \in Miners : LastConfirmed(p, m) < n})
                              <= (30 * Cardinality(Miners)) \div 100}
<1>1. Num(p) \in Nat /\ Num(b) = Num(p) + 1
  BY Numbers
<1>2. LastIrreversible(p) = Max(S)
  BY Zenon DEF LastIrreversible
<1>3. S \in SUBSET (0 .. Num(p)) /\ S # {}
  <2>1. 0 \in S
    BY <1>1
  <2> QED BY <2>1
<1> HIDE DEF S, p
<1>4. LastIrreversible(p) \in 0 .. Num(p)
  BY <1>1, <1>2, <1>3, MaxOfBounded
<1>5. \A n \in Nat : \A i \in 0 .. n : n + 1 - i + 1 \in Nat /\ n + 1 - i + 1 > 1
  OBVIOUS
<1>6. HistorySize(b) = Num(b) - LastIrreversible(p) + 1
  BY Zenon DEF HistorySize, p
<1>7. HistorySize(b) = Num(p) + 1 - LastIrreversible(p) + 1
  BY <1>1, <1>4, <1>6
<1> QED BY <1>1, <1>4, <1>5, <1>7

(***************************************************************************)
(* The part of a path that two branches do not share.                      *)
(***************************************************************************)
LEMMA BranchOfBlocks ==
  ASSUME NEW first \in Blocks, NEW second \in Blocks
  PROVE  \A b \in {first, second} : /\ Branch(Shared(first, second), b) \in Seq(Blocks)
                                   /\ Branch(Shared(first, second), b) # <<>>
<1>1. ASSUME NEW b \in {first, second}
      PROVE  /\ Path[b] \in Seq(Blocks) /\ Num(b) \in Nat \ {0} /\ Num(b) = Len(Path[b])
             /\ SubSeq(Path[b], 1, 0) = <<>>
  <2>1. b \in Blocks /\ Path[b] \in Seq(Blocks) /\ Path[b] # <<>>
    BY PathRecursion
  <2>2. Num(b) \in Nat \ {0} /\ Num(b) = Len(Path[b])
    BY <2>1, Numbers, EmptySeq
  <2> QED BY <2>1, <2>2, SubSeqEmpty
<1> DEFINE n == Min({Num(first), Num(second)})
<1> DEFINE S == {i \in 0 .. n - 1 : SubSeq(Path[first], 1, i) = SubSeq(Path[second], 1, i)}
<1>2. n \in Nat \ {0}
  BY <1>1, MaxAndMinOfTwo
<1>3. S \in SUBSET (0 .. n - 1) /\ 0 \in S /\ n - 1 \in Nat
  BY <1>1, <1>2
<1>4. Shared(first, second) = Max(S)
  BY Zenon DEF Shared
<1> HIDE DEF n, S
<1>5. Shared(first, second) \in Nat /\ Shared(first, second) + 1 <= n
  <2>1. Max(S) \in S
    BY <1>3, MaxOfBounded
  <2>2. Max(S) \in 0 .. n - 1
    BY <1>3, <2>1
  <2> QED BY <1>2, <1>3, <1>4, <2>2
<1>6. n <= Num(first) /\ n <= Num(second)
  <2>1. Num(first) \in Nat /\ Num(second) \in Nat
    BY <1>1
  <2>2. n = IF Num(first) <= Num(second) THEN Num(first) ELSE Num(second)
    BY <2>1, MaxAndMinOfTwo, Zenon DEF n
  <2> QED BY <2>1, <2>2
<1>7. ASSUME NEW b \in {first, second}
      PROVE  Branch(Shared(first, second), b) \in Seq(Blocks)
             /\ Branch(Shared(first, second), b) # <<>>
  <2> DEFINE k == Shared(first, second)
  <2>1. k + 1 \in Int /\ Num(b) \in Int /\ k \in Nat /\ k + 1 <= Num(b)
    BY <1>1, <1>2, <1>5, <1>6
  <2> HIDE DEF k
  <2>2. \A i \in k + 1 .. Num(b) : Path[b][i] \in Blocks
    <3>1. \A i \in k + 1 .. Num(b) : i \in 1 .. Len(Path[b])
      BY <1>1, <2>1
    <3> QED BY <1>1, <3>1, ElementOfSeq
  <2>3. /\ SubSeq(Path[b], k + 1, Num(b)) \in Seq(Blocks)
        /\ Len(SubSeq(Path[b], k + 1, Num(b))) = Num(b) - (k + 1) + 1
    BY <2>1, <2>2, SubSeqProperties
  <2>4. Num(b) - (k + 1) + 1 # 0
    BY <2>1
  <2>5. SubSeq(Path[b], k + 1, Num(b)) # <<>>
    BY <2>3, <2>4, EmptySeq
  <2> QED BY <2>3, <2>5 DEF Branch, k
<1> QED BY <1>7

(***************************************************************************)
(* The transactions of a chain are those of its head and of the chain of   *)
(* the block before.                                                       *)
(***************************************************************************)
LEMMA ChainTransactions ==
  /\ \A id \in Blocks \cup {NoBlock} : InChain(id) \subseteq Transactions
  /\ \A b \in Blocks : InChain(b) = InChain(Parent[b]) \cup ToSet(Txs[b])
<1>1. \A b \in Blocks : Txs[b] \in Seq(Transactions)
  BY ChainAssumption
<1>2. ASSUME NEW id \in Blocks \cup {NoBlock} PROVE InChain(id) \subseteq Transactions
  <2>1. ToSet(PathTo(id)) \subseteq Blocks
    BY Numbers, Elements
  <2>2. \A b \in Blocks : ToSet(Txs[b]) \subseteq Transactions
    BY <1>1, Elements
  <2> QED BY <2>1, <2>2 DEF InChain
<1>3. ASSUME NEW b \in Blocks
      PROVE  InChain(b) = InChain(Parent[b]) \cup ToSet(Txs[b])
  <2>1. ToSet(PathTo(b)) = ToSet(PathTo(Parent[b])) \cup {b}
    <3>1. CASE Parent[b] = NoBlock
      <4>1. PathTo(b) = <<b>> /\ PathTo(Parent[b]) = <<>>
        BY <3>1, PathRecursion, Numbers DEF PathTo
      <4>2. <<>> \in Seq(Blocks) /\ <<b>> = Append(<<>>, b)
        BY EmptySeq
      <4>3. ToSet(Append(<<>>, b)) = ToSet(<<>>) \cup {b}
        <5>1. \A s \in Seq(Blocks) : ToSet(Append(s, b)) = ToSet(s) \cup {b}
          BY Elements
        <5>2. <<>> \in Seq(Blocks)
          BY <4>2
        <5> QED BY ONLY <5>1, <5>2, Zenon
      <4> QED BY <4>1, <4>2, <4>3, Zenon
    <3>2. CASE Parent[b] # NoBlock
      <4>1. Parent[b] \in Blocks /\ PathTo(b) = Append(PathTo(Parent[b]), b)
        BY <3>2, PathRecursion, Numbers
      <4> QED BY <4>1, Numbers, Elements
    <3> QED BY <3>1, <3>2
  <2> QED BY <2>1, Zenon DEF InChain
<1> QED BY <1>2, <1>3

----------------------------------------------------------------------------
(* The fork database and the log stay what they are. *)

(***************************************************************************)
(* Every operation of the fork database yields one: its links are between  *)
(* blocks of the index, and only an empty head has no block.               *)
(***************************************************************************)
LEMMA ErasedFork ==
  ASSUME NEW f, IsForkDB(f), NEW S
  PROVE  IsForkDB(Erase(f, S))
<1> DEFINE gone == f.index \cap S
           h == IF f.head.block # NoBlock /\ Parent[f.head.block] \in gone
                THEN [f.head EXCEPT !.linked = FALSE] ELSE f.head
           e == [f EXCEPT !.index = @ \ gone,
                          !.linked = {b \in @ \ gone : Parent[b] \notin gone},
                          !.head = h]
<1>1. Erase(f, S) = e
  BY DEF Erase
<1>2. /\ h \in [block : Blocks \cup {NoBlock}, linked : BOOLEAN]
      /\ h.block = NoBlock => h = NoItem
  BY DEF IsForkDB, NoItem
<1> HIDE DEF h
<1>3. /\ e \in [index : SUBSET Blocks, linked : SUBSET Blocks, max_size : Nat,
                head : [block : Blocks \cup {NoBlock}, linked : BOOLEAN]]
      /\ e.linked \subseteq e.index /\ e.head = h
  BY <1>2 DEF IsForkDB
<1> QED BY <1>1, <1>2, <1>3 DEF IsForkDB

LEMMA ForkWithHead ==
  ASSUME NEW f, IsForkDB(f), NEW id \in Blocks \cup {NoBlock}
  PROVE  IsForkDB(SetHead(f, Item(f, id)))
<1> DEFINE i == Item(f, id)
<1>1. /\ i \in [block : Blocks \cup {NoBlock}, linked : BOOLEAN]
      /\ i.block = NoBlock => i = NoItem
  <2>1. NoBlock \notin f.linked
    BY BlocksAssumption DEF IsForkDB
  <2>2. CASE id \in f.linked
    <3>1. (id \in f.linked) = TRUE
      BY <2>2
    <3>2. i = [block |-> id, linked |-> TRUE]
      BY <3>1, Zenon DEF Item
    <3> HIDE DEF i
    <3> QED BY <2>1, <2>2, <3>2
  <2>3. CASE id \notin f.linked
    <3>1. (id \in f.linked) = FALSE
      BY <2>3
    <3>2. i = [block |-> id, linked |-> FALSE]
      BY <3>1, Zenon DEF Item
    <3> HIDE DEF i
    <3> QED BY <3>2 DEF NoItem
  <2> QED BY <2>2, <2>3
<1> HIDE DEF i
<1>2. IsForkDB(SetHead(f, i))
  BY <1>1 DEF IsForkDB, SetHead
<1> QED BY <1>2 DEF i

LEMMA SizedFork ==
  ASSUME NEW f, IsForkDB(f), NEW n \in Nat
  PROVE  IsForkDB(SetMaxSize(f, n))
<1> DEFINE g == [f EXCEPT !.max_size = n]
<1>1. IsForkDB(g)
  BY DEF IsForkDB
<1> HIDE DEF g
<1>2. \A S : IsForkDB(Erase(g, S))
  BY <1>1, ErasedFork
<1> QED BY <1>1, <1>2 DEF SetMaxSize, g

LEMMA PushedFork ==
  ASSUME NEW f, IsForkDB(f), NEW b \in Blocks
  PROVE  IsForkDB(Push(f, b))
<1> DEFINE links == f.head # NoItem /\ Parent[b] # NoBlock
           item  == [block |-> b, linked |-> links]
           g     == [f EXCEPT !.index = @ \cup {b},
                              !.linked = IF links /\ b \notin f.index THEN @ \cup {b} ELSE @]
<1>1. IsForkDB(g)
  BY DEF IsForkDB
<1>2. item \in [block : Blocks \cup {NoBlock}, linked : BOOLEAN] /\ item.block # NoBlock
  BY BlocksAssumption
<1>3. IsForkDB(SetHead(g, item))
  <2> HIDE DEF g, item
  <2> QED BY <1>1, <1>2 DEF SetHead, IsForkDB
<1> DEFINE old == {x \in g.index : Num(x) < Monus(Num(b), f.max_size)}
<1>4. Push(f, b) = IF f.head = NoItem THEN SetHead(g, item)
                   ELSE IF Num(b) > Num(f.head.block) THEN Erase(SetHead(g, item), old) ELSE g
  BY Zenon DEF Push
<1> HIDE DEF g, item, old
<1> QED BY <1>1, <1>3, <1>4, ErasedFork

LEMMA PoppedFork ==
  ASSUME NEW f, IsForkDB(f), NEW held, Poppable(f, held)
  PROVE  IsForkDB(Pop(f))
<1>1. f.head.block \in Blocks
  BY DEF IsForkDB, Poppable
<1>2. Parent[f.head.block] \in Blocks \cup {NoBlock}
  BY <1>1, Numbers
<1> QED BY <1>2, ForkWithHead DEF Pop

(***************************************************************************)
(* The log stays a sequence of entries.                                    *)
(***************************************************************************)
LEMMA StoredLog ==
  ASSUME NEW l \in Seq(Entry), NEW id \in Blocks, NEW b \in Blocks
  PROVE  Store(l, id, b) \in Seq(Entry)
<1> DEFINE N == Max({Num(id), Len(l)})
           e(n) == IF n = Num(id) THEN Stored(l, id, b) ELSE IF n <= Len(l) THEN l[n] ELSE Zeros
<1>1. N \in Nat /\ Len(l) \in Nat
  <2>1. Num(id) \in Nat /\ Len(l) \in Nat
    BY Numbers, LenProperties
  <2> QED BY <2>1, MaxAndMinOfTwo
<1>2. ASSUME NEW n \in 1 .. N PROVE e(n) \in Entry
  <2>1. Stored(l, id, b) \in Entry
    BY DEF Stored, Entry
  <2>2. n <= Len(l) => l[n] \in Entry
    <3>1. n <= Len(l) => n \in 1 .. Len(l)
      BY <1>1
    <3> QED BY <3>1, ElementOfSeq
  <2>3. Zeros \in Entry
    BY DEF Entry
  <2> QED BY <2>1, <2>2, <2>3
<1>3. Store(l, id, b) = [n \in 1 .. N |-> e(n)]
  BY DEF Store
<1> HIDE DEF N, e
<1>4. [n \in 1 .. N |-> e(n)] \in [1 .. N -> Entry]
  BY <1>2
<1> QED BY <1>1, <1>3, <1>4, SeqDef

LEMMA ShortenedLog ==
  ASSUME NEW l \in Seq(Entry), NEW id \in Blocks, HasEntry(l, id)
  PROVE  RemoveEntry(l, id) \in Seq(Entry)
<1> DEFINE n == Num(id)
<1>1. n \in 1 .. Len(l)
  <2>1. Num(id) = Num(Parent[id]) + 1 /\ Num(Parent[id]) \in Nat /\ Len(l) \in Nat
    BY Numbers, LenProperties
  <2> QED BY <2>1 DEF HasEntry
<1>2. l[n] \in Entry
  BY <1>1, ElementOfSeq
<1> HIDE DEF n
<1>3. CASE l[n].id = id
  <2>1. [l[n] EXCEPT !.live = FALSE] \in Entry
    <3>1. l[n] \in [id : Blocks, data : Blocks \cup {NoBlock}, live : BOOLEAN]
      BY <1>2, <1>3, BlocksAssumption DEF Entry, Zeros
    <3> DEFINE x == l[n]
    <3> HIDE DEF x
    <3>2. [x EXCEPT !.live = FALSE] \in [id : Blocks, data : Blocks \cup {NoBlock}, live : BOOLEAN]
      BY <3>1 DEF x
    <3> QED BY <3>2 DEF Entry, x
  <2>2. [l EXCEPT ![n] = [l[n] EXCEPT !.live = FALSE]] \in Seq(Entry)
    BY <1>1, <2>1, ExceptSeq
  <2> QED BY <1>3, <2>2 DEF RemoveEntry, n
<1>4. CASE l[n].id # id
  BY <1>4 DEF RemoveEntry, n
<1> QED BY <1>3, <1>4

----------------------------------------------------------------------------
(* The stack of undo states. *)

\* v is what is left of u without its k oldest elements.
EndOf(v, u, k) == Len(v) = Len(u) - k /\ \A i \in 1 .. Len(v) : v[i] = u[i + k]

\* The undo states of a chain with the head h.
UndoOf(u, h) == u \in Seq(State) /\ LeadsBack(u, h)

\* The same with a session on top that has started at the head.
Session(u, h) ==
  /\ u \in Seq(State) /\ u # <<>>
  /\ Last(u) = [head |-> h, pending |-> <<>>]
  /\ LeadsBack(Discard(u), h)

(***************************************************************************)
(* What a limit leaves of a stack.                                         *)
(***************************************************************************)
LEMMA Trimmed ==
  ASSUME NEW S, NEW u \in Seq(S), NEW n \in Nat \ {0}
  PROVE  LET k == IF Len(u) > n THEN Len(u) - n ELSE 0
         IN  /\ TrimTo(n, u) \in Seq(S) /\ EndOf(TrimTo(n, u), u, k) /\ k \in 0 .. Len(u)
             /\ u # <<>> => k \in 0 .. Len(u) - 1
<1>1. Len(u) \in Nat /\ (u # <<>> => Len(u) # 0)
  BY LenProperties, EmptySeq
<1>2. CASE Len(u) > n
  <2> DEFINE m == Len(u) - n + 1
  <2>1. m \in 1 .. Len(u) /\ Len(u) - m + 1 = n
    BY <1>1, <1>2
  <2>2. \A i \in m .. Len(u) : u[i] \in S
    <3>1. \A i \in m .. Len(u) : i \in 1 .. Len(u)
      BY <1>1, <1>2
    <3> QED BY <3>1, ElementOfSeq
  <2>3. TrimTo(n, u) = SubSeq(u, m, Len(u))
    BY <1>2 DEF TrimTo
  <2> HIDE DEF m
  <2>4. m \in Int /\ Len(u) \in Int /\ m <= Len(u)
    BY <1>1, <2>1
  <2>5. /\ SubSeq(u, m, Len(u)) \in Seq(S)
        /\ Len(SubSeq(u, m, Len(u))) = Len(u) - m + 1
        /\ \A i \in 1 .. Len(u) - m + 1 : SubSeq(u, m, Len(u))[i] = u[m + i - 1]
    BY <2>2, <2>4, SubSeqProperties
  <2>6. \A i \in 1 .. n : m + i - 1 = i + (Len(u) - n)
    BY <1>1, <1>2 DEF m
  <2>7. Len(u) - (Len(u) - n) = n /\ Len(u) - n \in 0 .. Len(u) - 1 /\ Len(u) - n \in 0 .. Len(u)
    BY <1>1, <1>2
  <2>8. EndOf(TrimTo(n, u), u, Len(u) - n)
    BY <2>1, <2>3, <2>5, <2>6, <2>7 DEF EndOf
  <2> QED BY <1>2, <2>3, <2>5, <2>7, <2>8
<1>3. CASE ~(Len(u) > n)
  <2>1. TrimTo(n, u) = u
    BY <1>3 DEF TrimTo
  <2>2. EndOf(u, u, 0)
    BY <1>1 DEF EndOf
  <2> QED BY <1>1, <1>3, <2>1, <2>2
<1> QED BY <1>2, <1>3

(***************************************************************************)
(* Forgetting the oldest states does not disturb the way back.             *)
(***************************************************************************)
LEMMA EndLeadsBack ==
  ASSUME NEW u \in Seq(State), NEW v \in Seq(State), NEW k \in Nat, NEW h,
         EndOf(v, u, k), LeadsBack(u, h)
  PROVE  LeadsBack(v, h)
<1>1. /\ Len(u) \in Nat /\ Len(v) \in Nat /\ Len(v) = Len(u) - k
      /\ DOMAIN u = 1 .. Len(u) /\ DOMAIN v = 1 .. Len(v)
  BY LenProperties DEF EndOf
<1> SUFFICES ASSUME NEW i \in 1 .. Len(v)
             PROVE  LET next == IF i = Len(v) THEN h ELSE v[i + 1].head
                    IN  /\ v[i].pending = <<>>
                        /\ \/ next # NoBlock /\ v[i].head = Parent[next]
                           \/ next = v[i].head /\ i = 1
  BY <1>1 DEF LeadsBack
<1>2. i + k \in 1 .. Len(u) /\ (i = Len(v) <=> i + k = Len(u)) /\ (i + k = 1 => i = 1)
  BY <1>1
<1>3. v[i] = u[i + k]
  BY DEF EndOf
<1>4. i # Len(v) => v[i + 1] = u[i + k + 1]
  <2>1. i # Len(v) => i + 1 \in 1 .. Len(v) /\ i + 1 + k = i + k + 1
    BY <1>1
  <2> QED BY <2>1 DEF EndOf
<1> DEFINE next == IF i + k = Len(u) THEN h ELSE u[i + k + 1].head
<1>5. /\ u[i + k].pending = <<>>
      /\ \/ next # NoBlock /\ u[i + k].head = Parent[next]
         \/ next = u[i + k].head /\ i + k = 1
  BY <1>1, <1>2 DEF LeadsBack
<1>6. next = IF i = Len(v) THEN h ELSE v[i + 1].head
  BY <1>2, <1>4
<1> HIDE DEF next
<1> QED BY <1>2, <1>3, <1>5, <1>6

LEMMA TrimKeeps ==
  ASSUME NEW u, NEW h, UndoOf(u, h), NEW n \in Nat \ {0}
  PROVE  UndoOf(TrimTo(n, u), h)
<1> DEFINE k == IF Len(u) > n THEN Len(u) - n ELSE 0
<1>1. u \in Seq(State) /\ LeadsBack(u, h)
  BY DEF UndoOf
<1>2. TrimTo(n, u) \in Seq(State) /\ EndOf(TrimTo(n, u), u, k) /\ k \in 0 .. Len(u)
  BY <1>1, Trimmed
<1> HIDE DEF k
<1>3. k \in Nat
  BY <1>1, <1>2, LenProperties
<1> QED BY <1>1, <1>2, <1>3, EndLeadsBack DEF UndoOf

(***************************************************************************)
(* A state that is put on the stack before a block is the one to go back   *)
(* to from it.                                                             *)
(***************************************************************************)
LEMMA AppendLeadsBack ==
  ASSUME NEW u, NEW h \in Blocks \cup {NoBlock}, UndoOf(u, h), NEW b \in Blocks, Parent[b] = h
  PROVE  UndoOf(Append(u, [head |-> h, pending |-> <<>>]), b)
<1> DEFINE d == [head |-> h, pending |-> <<>>]
           v == Append(u, d)
<1>1. d \in State /\ d.head = h /\ d.pending = <<>>
  BY EmptySeq DEF State
<1>2. u \in Seq(State) /\ LeadsBack(u, h) /\ Len(u) \in Nat /\ DOMAIN u = 1 .. Len(u)
  BY LenProperties DEF UndoOf
<1> HIDE DEF d
<1>3. /\ v \in Seq(State) /\ Len(v) = Len(u) + 1 /\ v[Len(u) + 1] = d
      /\ \A i \in 1 .. Len(u) : v[i] = u[i]
  BY <1>1, <1>2, AppendProperties
<1> HIDE DEF v
<1>4. DOMAIN v = 1 .. Len(v)
  BY <1>3, LenProperties
<1>5. ASSUME NEW i \in 1 .. Len(v)
      PROVE  LET next == IF i = Len(v) THEN b ELSE v[i + 1].head
             IN  /\ v[i].pending = <<>>
                 /\ \/ next # NoBlock /\ v[i].head = Parent[next]
                    \/ next = v[i].head /\ i = 1
  <2>1. CASE i = Len(v)
    BY <1>1, <1>3, <2>1, BlocksAssumption
  <2>2. CASE i # Len(v)
    <3>1. i \in 1 .. Len(u) /\ i + 1 \in 1 .. Len(v)
      BY <1>2, <1>3, <2>2
    <3>2. v[i] = u[i]
      BY <1>3, <3>1
    <3>3. v[i + 1].head = IF i = Len(u) THEN h ELSE u[i + 1].head
      <4>1. \A n \in Nat : \A j \in 1 .. n : j # n => j + 1 \in 1 .. n
        BY ONLY TRUE
      <4>2. i # Len(u) => i + 1 \in 1 .. Len(u)
        BY <1>2, <3>1, <4>1
      <4> QED BY <1>1, <1>3, <3>1, <4>2
    <3> DEFINE next == IF i = Len(u) THEN h ELSE u[i + 1].head
    <3>4. /\ u[i].pending = <<>>
          /\ \/ next # NoBlock /\ u[i].head = Parent[next]
             \/ next = u[i].head /\ i = 1
      BY <1>2, <3>1 DEF LeadsBack
    <3>5. v[i + 1].head = next
      BY <3>3
    <3> HIDE DEF next
    <3> QED BY <2>2, <3>2, <3>4, <3>5
  <2> QED BY <2>1, <2>2
<1>6. LeadsBack(v, b)
  BY <1>4, <1>5 DEF LeadsBack
<1> QED BY <1>3, <1>6 DEF UndoOf, v, d

(***************************************************************************)
(* A single state may be a copy of the head.                               *)
(***************************************************************************)
LEMMA SingleLeadsBack ==
  ASSUME NEW u \in Seq(State), Len(u) = 1, NEW h, u[1].head = h, u[1].pending = <<>>
  PROVE  LeadsBack(u, h)
<1>1. DOMAIN u = 1 .. 1
  BY LenProperties
<1>2. \A i \in 1 .. 1 : i = 1
  OBVIOUS
<1> QED BY <1>1, <1>2 DEF LeadsBack

(***************************************************************************)
(* The state of a session is what Last is of, and under it lies the chain. *)
(***************************************************************************)
LEMMA SessionHasTop ==
  ASSUME NEW u, NEW h, Session(u, h)
  PROVE  /\ u \in Seq(State) /\ u # <<>> /\ Len(u) \in Nat \ {0}
         /\ Last(u) = u[Len(u)] /\ u[Len(u)].head = h /\ u[Len(u)].pending = <<>>
         /\ UndoOf(Discard(u), h)
<1>1. u \in Seq(State) /\ u # <<>> /\ Last(u) = [head |-> h, pending |-> <<>>]
      /\ LeadsBack(Discard(u), h)
  BY DEF Session
<1>2. Len(u) \in Nat \ {0} /\ Last(u) = u[Len(u)] /\ Front(u) \in Seq(State)
  BY <1>1, LastAndFront
<1>3. Discard(u) \in Seq(State)
  BY <1>1, <1>2 DEF Discard
<1>4. Last(u).head = h /\ Last(u).pending = <<>>
  BY <1>1
<1> QED BY <1>1, <1>2, <1>3, <1>4 DEF UndoOf

(***************************************************************************)
(* A session that starts at a block keeps the states of the chain below.   *)
(***************************************************************************)
LEMMA StartKeeps ==
  ASSUME NEW u, NEW h \in Blocks \cup {NoBlock}, UndoOf(u, h), undo_max \in Nat \ {0}
  PROVE  LET s == Start(u, [head |-> h, pending |-> <<>>])
         IN  /\ Session(s, h)
             /\ \A b \in Blocks : Parent[b] = h => UndoOf(s, b)
<1> DEFINE d == [head |-> h, pending |-> <<>>]
           t == TrimTo(undo_max, u)
           s == Append(t, d)
<1>1. d \in State /\ d.head = h /\ d.pending = <<>>
  BY EmptySeq DEF State
<1>2. UndoOf(t, h)
  BY TrimKeeps
<1>3. t \in Seq(State) /\ LeadsBack(t, h) /\ Len(t) \in Nat
  BY <1>2, LenProperties DEF UndoOf
<1>4. \A b \in Blocks : Parent[b] = h => UndoOf(s, b)
  BY <1>2, AppendLeadsBack
<1> HIDE DEF d, t
<1>5. /\ s \in Seq(State) /\ Len(s) = Len(t) + 1 /\ s[Len(t) + 1] = d
      /\ \A i \in 1 .. Len(t) : s[i] = t[i]
  BY <1>1, <1>3, AppendProperties
<1> HIDE DEF s
<1>6. s # <<>>
  BY <1>3, <1>5, EmptySeq
<1>7. /\ Last(s) = s[Len(s)] /\ Front(s) \in Seq(State) /\ Len(Front(s)) = Len(s) - 1
      /\ \A i \in 1 .. Len(s) - 1 : Front(s)[i] = s[i]
  BY <1>5, <1>6, LastAndFront
<1>8. LeadsBack(Discard(s), h)
  <2>1. CASE Len(s) = 1
    <3>1. Len(t) + 1 = 1
      BY <1>5, <2>1
    <3>2. s[1] = d
      BY <1>5, <3>1
    <3> QED BY <1>1, <1>5, <2>1, <3>2, SingleLeadsBack DEF Discard
  <2>2. CASE Len(s) # 1
    <3>1. Len(Front(s)) = Len(t) /\ Len(s) - 1 = Len(t) /\ Len(t) - 0 = Len(t)
      BY <1>3, <1>5, <1>7
    <3>2. \A i \in 1 .. Len(t) : i + 0 = i
      BY <1>3
    <3>3. EndOf(Front(s), t, 0)
      BY <1>5, <1>7, <3>1, <3>2 DEF EndOf
    <3> QED BY <1>3, <1>7, <2>2, <3>3, EndLeadsBack DEF Discard
  <2> QED BY <2>1, <2>2
<1>9. Session(s, h)
  BY <1>5, <1>6, <1>7, <1>8 DEF Session, d
<1> QED BY <1>4, <1>9 DEF Start, s, t, d

(***************************************************************************)
(* What is left of a stack with a session on top is one as well.           *)
(***************************************************************************)
LEMMA EndOfSession ==
  ASSUME NEW u, NEW h, Session(u, h), NEW v \in Seq(State), v # <<>>,
         NEW k \in Nat, EndOf(v, u, k)
  PROVE  Session(v, h)
<1>1. /\ u \in Seq(State) /\ u # <<>> /\ Len(u) \in Nat \ {0}
      /\ Last(u) = u[Len(u)] /\ u[Len(u)].head = h /\ u[Len(u)].pending = <<>>
      /\ UndoOf(Discard(u), h)
  BY SessionHasTop
<1>2. /\ Len(v) \in Nat \ {0} /\ Last(v) = v[Len(v)] /\ Front(v) \in Seq(State)
      /\ Len(Front(v)) = Len(v) - 1
      /\ \A i \in 1 .. Len(v) - 1 : Front(v)[i] = v[i]
  BY LastAndFront
<1>3. /\ Len(Front(u)) = Len(u) - 1 /\ Front(u) \in Seq(State)
      /\ \A i \in 1 .. Len(u) - 1 : Front(u)[i] = u[i]
  BY <1>1, LastAndFront
<1>4. Len(v) = Len(u) - k /\ \A i \in 1 .. Len(v) : v[i] = u[i + k]
  BY DEF EndOf
<1>5. Len(v) \in 1 .. Len(v) /\ Len(v) + k = Len(u)
  BY <1>1, <1>2, <1>4
<1>6. v[Len(v)] = u[Len(u)]
  BY <1>4, <1>5
<1>7. Last(v) = [head |-> h, pending |-> <<>>]
  BY <1>1, <1>2, <1>6 DEF Session
<1>8. LeadsBack(Discard(v), h)
  <2>1. CASE Len(v) = 1
    BY <1>1, <1>6, <2>1, SingleLeadsBack DEF Discard
  <2>2. CASE Len(v) # 1
    <3>1. Len(u) # 1 /\ Len(Front(v)) = Len(Front(u)) - k
      BY <1>1, <1>2, <1>3, <1>4, <2>2
    <3>2. \A i \in 1 .. Len(v) - 1 : i \in 1 .. Len(v) /\ i + k \in 1 .. Len(u) - 1
      BY <1>1, <1>2, <1>4
    <3>3. \A i \in 1 .. Len(Front(v)) : Front(v)[i] = Front(u)[i + k]
      BY <1>2, <1>3, <1>4, <3>2
    <3>4. EndOf(Front(v), Front(u), k)
      BY <3>1, <3>3 DEF EndOf
    <3>5. LeadsBack(Front(u), h)
      BY <1>1, <3>1 DEF UndoOf, Discard
    <3> QED BY <1>2, <1>3, <2>2, <3>4, <3>5, EndLeadsBack DEF Discard
  <2> QED BY <2>1, <2>2
<1> QED BY <1>7, <1>8 DEF Session

(***************************************************************************)
(* Sessions inside a session leave its state and the chain below it.       *)
(***************************************************************************)
LEMMA ChildKeeps ==
  ASSUME NEW u, NEW h, Session(u, h), undo_max \in Nat \ {0}
  PROVE  Session(Child(u), h)
<1> DEFINE n == undo_max
           k == IF Len(u) > n THEN Len(u) - n ELSE 0
<1>1. u \in Seq(State) /\ u # <<>> /\ Len(u) \in Nat \ {0}
  BY SessionHasTop
<1>2. /\ TrimTo(undo_max, u) \in Seq(State) /\ EndOf(TrimTo(undo_max, u), u, k)
      /\ k \in 0 .. Len(u) - 1
  BY <1>1, Trimmed
<1> HIDE DEF k
<1>3. k \in Nat /\ Len(u) - k # 0
  BY <1>1, <1>2
<1>4. TrimTo(undo_max, u) # <<>>
  BY <1>2, <1>3, EmptySeq DEF EndOf
<1> QED BY <1>2, <1>3, <1>4, EndOfSession DEF Child

LEMMA GrandchildKeeps ==
  ASSUME NEW u, NEW h, Session(u, h), undo_max \in Nat \ {0}, undo_max > 1
  PROVE  Session(Grandchild(u), h)
<1> DEFINE a == TrimTo(undo_max, u)
           b == Append(a, Last(u))
           c == TrimTo(undo_max, b)
           k == IF Len(b) > undo_max THEN Len(b) - undo_max ELSE 0
<1>1. u \in Seq(State) /\ u # <<>> /\ Last(u) \in State
  <2>1. u \in Seq(State) /\ u # <<>>
    BY SessionHasTop
  <2> QED BY <2>1, LastAndFront
<1>2. Session(a, h)
  BY ChildKeeps DEF Child
<1>3. a \in Seq(State) /\ a # <<>> /\ Len(a) \in Nat \ {0}
  BY <1>2, SessionHasTop
<1>4. Len(a) <= undo_max
  <2> DEFINE m == IF Len(u) > undo_max THEN Len(u) - undo_max ELSE 0
  <2>1. EndOf(a, u, m)
    BY <1>1, Trimmed
  <2>2. Len(a) = Len(u) - m /\ Len(u) \in Nat
    BY <1>1, <2>1, LenProperties DEF EndOf
  <2> QED BY <2>2
<1> HIDE DEF a
<1>5. /\ b \in Seq(State) /\ Len(b) = Len(a) + 1
      /\ \A i \in 1 .. Len(a) : b[i] = a[i]
  BY <1>1, <1>3, AppendProperties
<1> HIDE DEF b
<1>6. b # <<>>
  BY <1>3, <1>5, EmptySeq
<1>7. c \in Seq(State) /\ EndOf(c, b, k) /\ k \in 0 .. Len(b) - 1
  BY <1>5, <1>6, Trimmed
<1>8. Len(c) = Len(b) - k /\ k \in 0 .. Len(a) - 1
  <2>1. Len(b) > undo_max => Len(b) - undo_max = 1 /\ Len(a) - 1 >= 1
    BY <1>3, <1>4, <1>5
  <2> QED BY <1>3, <1>7, <2>1 DEF EndOf
<1> HIDE DEF c, k
<1>9. c # <<>> /\ Len(c) = Len(a) + 1 - k
  BY <1>3, <1>5, <1>8, EmptySeq
<1>10. /\ Front(c) \in Seq(State) /\ Len(Front(c)) = Len(c) - 1
       /\ \A i \in 1 .. Len(c) - 1 : Front(c)[i] = c[i]
  BY <1>7, <1>9, LastAndFront
<1>11. Len(Front(c)) = Len(a) - k /\ Len(a) - k # 0 /\ k \in Nat
  BY <1>3, <1>8, <1>9, <1>10
<1>12. \A i \in 1 .. Len(a) - k : i \in 1 .. Len(c) - 1 /\ i \in 1 .. Len(c) /\ i + k \in 1 .. Len(a)
  BY <1>3, <1>8, <1>9
<1>13. \A i \in 1 .. Len(c) : c[i] = b[i + k]
  BY <1>7 DEF EndOf
<1>14. \A i \in 1 .. Len(Front(c)) : Front(c)[i] = a[i + k]
  BY <1>5, <1>10, <1>11, <1>12, <1>13
<1>15. EndOf(Front(c), a, k)
  BY <1>11, <1>14 DEF EndOf
<1>16. Front(c) # <<>>
  BY <1>11, EmptySeq
<1>17. Session(Front(c), h)
  BY <1>2, <1>10, <1>11, <1>15, <1>16, EndOfSession
<1> QED BY <1>17 DEF Grandchild, Start, a, b, c

(***************************************************************************)
(* A pop leads back to the state on top, and the rest leads back from it.  *)
(***************************************************************************)
LEMMA PopKeeps ==
  ASSUME NEW u, NEW h, UndoOf(u, h), u # <<>>
  PROVE  /\ Last(u) \in State /\ Last(u).pending = <<>>
         /\ UndoOf(Front(u), Last(u).head)
<1>1. u \in Seq(State) /\ LeadsBack(u, h)
  BY DEF UndoOf
<1>2. /\ Len(u) \in Nat \ {0} /\ Last(u) = u[Len(u)] /\ Last(u) \in State
      /\ Front(u) \in Seq(State) /\ Len(Front(u)) = Len(u) - 1
      /\ \A i \in 1 .. Len(u) - 1 : Front(u)[i] = u[i]
  BY <1>1, LastAndFront
<1>3. DOMAIN u = 1 .. Len(u) /\ DOMAIN Front(u) = 1 .. Len(u) - 1
  BY <1>1, <1>2, LenProperties
<1>4. Last(u).pending = <<>>
  <2>1. Len(u) \in DOMAIN u
    BY <1>2, <1>3
  <2> QED BY <1>1, <1>2, <2>1 DEF LeadsBack
<1> DEFINE f == Front(u)
           e == Last(u).head
<1>5. ASSUME NEW i \in 1 .. Len(u) - 1
      PROVE  LET next == IF i = Len(f) THEN e ELSE f[i + 1].head
             IN  /\ f[i].pending = <<>>
                 /\ \/ next # NoBlock /\ f[i].head = Parent[next]
                    \/ next = f[i].head /\ i = 1
  <2>1. i \in 1 .. Len(u) /\ i # Len(u) /\ (i = Len(f) => i + 1 = Len(u))
    BY <1>2
  <2>2. i # Len(f) => i + 1 \in 1 .. Len(u) - 1
    BY <1>2
  <2>3. (IF i = Len(f) THEN e ELSE f[i + 1].head) = u[i + 1].head
    BY <1>2, <2>1, <2>2
  <2>4. f[i] = u[i]
    BY <1>2
  <2> DEFINE next == u[i + 1].head
  <2>5. /\ u[i].pending = <<>>
        /\ \/ next # NoBlock /\ u[i].head = Parent[next]
           \/ next = u[i].head /\ i = 1
    BY <1>1, <1>3, <2>1 DEF LeadsBack
  <2> HIDE DEF next, f, e
  <2> QED BY <2>3, <2>4, <2>5 DEF next
<1> HIDE DEF e
<1>6. LeadsBack(f, e)
  BY <1>2, <1>3, <1>5 DEF LeadsBack
<1> QED BY <1>2, <1>4, <1>6 DEF UndoOf, e

----------------------------------------------------------------------------
(* The invariant. *)

\* Under the pending state, and at any step of a push, the way back is open.
Undoable ==
  IF pending_session THEN Session(undo, db.head)
  ELSE UndoOf(undo, db.head) /\ db.pending = <<>>

CallInv ==
  /\ call.at = "idle" => call = Idle
  /\ call.at # "idle" => call.block \in Blocks
  /\ call.at \in {"pop", "switch"} => call.good # <<>>
  /\ call.at \notin {"idle", "restore"} => ~pending_session

\* A block that turns out too big leaves transactions in pending only.
PendingInv ==
  /\ ToSet(db.pending) \subseteq ToSet(pending)
  /\ ~SizeMayGrow => db.pending = pending

\* Where the transactions are that a running push found.
AtHand == Known(db) \cup ToSet(popped) \cup ToSet(call.saved)

KnownInv == call # Idle => \A t \in call.known : ~Valid(AtHand, t)

ChainInv == TypeOK /\ undo_max > 1 /\ Undoable /\ CallInv /\ PendingInv /\ KnownInv

(***************************************************************************)
(* The pending session is reset to the head.                               *)
(***************************************************************************)
LEMMA ClearedState ==
  ASSUME ChainInv
  PROVE  /\ db.head \in Blocks \cup {NoBlock} /\ db.pending \in Seq(Transactions)
         /\ Cleared = [head |-> db.head, pending |-> <<>>] /\ Cleared \in State
         /\ UndoOf(ClearedUndo, db.head)
<1>1. db \in State /\ Undoable
  BY DEF ChainInv, TypeOK
<1>2. /\ db.head \in Blocks \cup {NoBlock} /\ db.pending \in Seq(Transactions)
      /\ db = [head |-> db.head, pending |-> db.pending]
  BY <1>1 DEF State
<1>3. [head |-> db.head, pending |-> <<>>] \in State
  BY <1>2, EmptySeq DEF State
<1>4. CASE pending_session
  <2>1. Session(undo, db.head)
    BY <1>1, <1>4 DEF Undoable
  <2>2. Cleared = [head |-> db.head, pending |-> <<>>]
    BY <1>4, <2>1 DEF Cleared, Session
  <2>3. UndoOf(ClearedUndo, db.head)
    BY <1>4, <2>1, SessionHasTop DEF ClearedUndo
  <2> QED BY <1>2, <1>3, <2>2, <2>3
<1>5. CASE ~pending_session
  <2>1. Cleared = [head |-> db.head, pending |-> <<>>]
    BY <1>1, <1>2, <1>5 DEF Cleared, Undoable
  <2>2. UndoOf(ClearedUndo, db.head)
    BY <1>1, <1>5 DEF ClearedUndo, Undoable
  <2> QED BY <1>2, <1>3, <2>1, <2>2
<1> QED BY <1>4, <1>5

(***************************************************************************)
(* What is known after a transaction became pending.                       *)
(***************************************************************************)
LEMMA KnownWithOneMore ==
  ASSUME NEW d \in State, NEW t \in Transactions
  PROVE  LET e == [d EXCEPT !.pending = Append(@, t)]
         IN  /\ e \in State /\ e.head = d.head /\ e.pending = Append(d.pending, t)
             /\ Known(e) = Known(d) \cup {t}
<1> DEFINE e == [d EXCEPT !.pending = Append(@, t)]
<1>1. d.pending \in Seq(Transactions)
  BY DEF State
<1>2. Append(d.pending, t) \in Seq(Transactions)
      /\ ToSet(Append(d.pending, t)) = ToSet(d.pending) \cup {t}
  BY <1>1, AppendProperties, Elements
<1>3. e \in State /\ e.head = d.head /\ e.pending = Append(d.pending, t)
  BY <1>2 DEF State
<1> HIDE DEF e
<1>4. Known(e) = Known(d) \cup {t}
  BY <1>2, <1>3 DEF Known
<1> QED BY <1>3, <1>4 DEF e

(***************************************************************************)
(* A transaction that is pushed goes into the session on top; when it      *)
(* stays out, one that excludes it is there.                               *)
(***************************************************************************)
LEMMA TxPushed ==
  ASSUME ChainInv, NEW t \in Transactions, PushTx(t)
  PROVE  /\ db' \in State /\ pending' \in Seq(Transactions) /\ pending_session' = TRUE
         /\ db'.head = db.head /\ Session(undo', db.head)
         /\ PendingInv'
         /\ Known(db) \subseteq Known(db') /\ ~Valid(Known(db'), t)
<1> DEFINE u     == IF pending_session THEN undo ELSE Start(undo, db)
           valid == Valid(Known(db), t)
<1>1. /\ db \in State /\ pending \in Seq(Transactions) /\ undo_max \in Nat \ {0} /\ undo_max > 1
      /\ Undoable /\ PendingInv /\ db.head \in Blocks \cup {NoBlock}
      /\ db.pending \in Seq(Transactions)
  BY ClearedState DEF ChainInv, TypeOK
<1>2. Session(u, db.head)
  <2>1. CASE pending_session
    BY <1>1, <2>1 DEF Undoable
  <2>2. CASE ~pending_session
    <3>1. db = [head |-> db.head, pending |-> <<>>] /\ UndoOf(undo, db.head)
      BY <1>1, <2>2 DEF Undoable, State
    <3>2. Session(Start(undo, [head |-> db.head, pending |-> <<>>]), db.head)
      BY <1>1, <3>1, StartKeeps
    <3> QED BY <2>2, <3>1, <3>2
  <2> QED BY <2>1, <2>2
<1>3. /\ pending_session' = TRUE
      /\ undo' = IF valid /\ t \in Executing THEN Grandchild(u) ELSE Child(u)
      /\ db' = IF valid THEN [db EXCEPT !.pending = Append(@, t)] ELSE db
      /\ pending' = IF valid THEN Append(pending, t) ELSE pending
  BY DEF PushTx
<1> HIDE DEF u
<1>4. Session(undo', db.head)
  BY <1>1, <1>2, <1>3, ChildKeeps, GrandchildKeeps
<1>5. CASE valid
  <2>1. /\ db' \in State /\ db'.head = db.head /\ db'.pending = Append(db.pending, t)
        /\ Known(db') = Known(db) \cup {t}
    BY <1>1, <1>3, <1>5, KnownWithOneMore
  <2>2. /\ pending' = Append(pending, t) /\ pending' \in Seq(Transactions)
        /\ ToSet(pending') = ToSet(pending) \cup {t}
        /\ ToSet(db'.pending) = ToSet(db.pending) \cup {t}
    BY <1>1, <1>3, <1>5, <2>1, AppendProperties, Elements
  <2>3. PendingInv'
    BY <1>1, <2>1, <2>2 DEF PendingInv
  <2>4. ~Valid(Known(db'), t)
    BY <2>1 DEF Valid
  <2> QED BY <1>3, <1>4, <2>1, <2>2, <2>3, <2>4
<1>6. CASE ~valid
  <2>1. db' = db /\ pending' = pending
    BY <1>3, <1>6
  <2>2. PendingInv'
    BY <1>1, <2>1 DEF PendingInv
  <2> QED BY <1>1, <1>3, <1>4, <1>6, <2>1, <2>2
<1> QED BY <1>5, <1>6

LEMMA TxRepushed ==
  ASSUME ChainInv, NEW t \in Transactions, Repush(t)
  PROVE  /\ db' \in State /\ undo' \in Seq(State) /\ pending' \in Seq(Transactions)
         /\ pending_session' \in BOOLEAN
         /\ Undoable' /\ PendingInv'
         /\ Known(db) \subseteq Known(db') /\ ~Valid(Known(db'), t)
<1>1. CASE t \in Known(db)
  <2>1. UNCHANGED <<db, undo, pending, pending_session>>
    BY <1>1 DEF Repush
  <2>2. TypeOK /\ Undoable /\ PendingInv
    BY DEF ChainInv
  <2>3. Undoable' /\ PendingInv'
    BY <2>1, <2>2 DEF Undoable, PendingInv
  <2>4. ~Valid(Known(db'), t)
    BY <1>1, <2>1 DEF Valid
  <2> QED BY <2>1, <2>2, <2>3, <2>4 DEF TypeOK
<1>2. CASE t \notin Known(db)
  <2>1. PushTx(t)
    BY <1>2 DEF Repush
  <2>2. Undoable' /\ undo' \in Seq(State)
    BY <2>1, TxPushed DEF Undoable, Session
  <2> QED BY <2>1, <2>2, TxPushed
<1> QED BY <1>1, <1>2

(***************************************************************************)
(* A transaction that is excluded stays so when others join.               *)
(***************************************************************************)
LEMMA StaysExcluded ==
  ASSUME NEW K, NEW L, NEW x, ~Valid(K, x),
         \A u \in K : \E w \in L : Coin[w] = Coin[u]
  PROVE  ~Valid(L, x)
BY DEF Valid

----------------------------------------------------------------------------
(* What every step of a push relies on. *)

(***************************************************************************)
(* The fields of the call.                                                 *)
(***************************************************************************)
LEMMA CallFields ==
  ASSUME ChainInv
  PROVE  /\ call \in Call /\ call.block \in Blocks \cup {NoBlock}
         /\ call.todo \in Seq(Blocks) /\ call.good \in Seq(Blocks)
         /\ call.saved \in Seq(Transactions) /\ call.known \in SUBSET Transactions
         /\ call.at # "idle" => call # Idle /\ call.block \in Blocks
         /\ call = Idle => call.at = "idle"
<1>1. call \in Call /\ CallInv
  BY DEF ChainInv, TypeOK
<1> QED BY <1>1 DEF Call, CallInv, Idle

(***************************************************************************)
(* While blocks are applied and popped there is no pending state.          *)
(***************************************************************************)
LEMMA AtWork ==
  ASSUME ChainInv, call.at \notin {"idle", "restore"}
  PROVE  /\ pending_session = FALSE /\ call # Idle /\ call.block \in Blocks
         /\ UndoOf(undo, db.head) /\ undo \in Seq(State)
         /\ db \in State /\ db.head \in Blocks \cup {NoBlock}
         /\ db = [head |-> db.head, pending |-> <<>>] /\ db.pending = <<>>
         /\ ~SizeMayGrow => pending = <<>>
         /\ Known(db) = InChain(db.head)
<1>1. /\ db \in State /\ undo \in Seq(State) /\ pending_session \in BOOLEAN
      /\ Undoable /\ PendingInv /\ CallInv
  BY DEF ChainInv, TypeOK
<1>2. pending_session = FALSE
  BY <1>1 DEF CallInv
<1>3. UndoOf(undo, db.head) /\ db.pending = <<>>
  BY <1>1, <1>2 DEF Undoable
<1>4. db.head \in Blocks \cup {NoBlock} /\ db = [head |-> db.head, pending |-> <<>>]
  BY <1>1, <1>3 DEF State
<1>5. Known(db) = InChain(db.head)
  <2>1. ToSet(<<>>) = {}
    BY EmptySeq, Elements
  <2> QED BY <1>3, <2>1 DEF Known
<1> QED BY <1>1, <1>2, <1>3, <1>4, <1>5, CallFields DEF PendingInv

(***************************************************************************)
(* A step of a push that ends without a pending state keeps the invariant, *)
(* when the stack leads back and all that was known is still at hand.      *)
(***************************************************************************)
LEMMA WorkKeeps ==
  ASSUME ChainInv, call.at \notin {"idle", "restore"},
         db' \in State, db'.pending = <<>>, UndoOf(undo', db'.head),
         undo_max' \in Nat \ {0}, undo_max' > 1, IsForkDB(fork)', log' \in Seq(Entry),
         UNCHANGED <<pending, pending_session>>, popped' \in Seq(Transactions),
         call' \in Call, call'.at # "idle", call'.block = call.block,
         call'.known = call.known, call'.saved = call.saved,
         call'.at \in {"pop", "switch"} => call'.good # <<>>,
         \A t \in Known(db) \cup ToSet(popped) : t \in Known(db') \cup ToSet(popped')
  PROVE  ChainInv'
<1>1. /\ pending_session = FALSE /\ call # Idle /\ call.block \in Blocks
      /\ ~SizeMayGrow => pending = <<>>
  BY AtWork
<1>2. pending \in Seq(Transactions) /\ KnownInv
  BY DEF ChainInv, TypeOK
<1>3. TypeOK'
  BY <1>1, <1>2 DEF TypeOK, UndoOf
<1>4. Undoable'
  BY <1>1 DEF Undoable
<1>5. CallInv'
  BY <1>1 DEF CallInv
<1>6. PendingInv'
  <2>1. ToSet(<<>>) = {}
    BY EmptySeq, Elements
  <2> QED BY <1>1, <2>1 DEF PendingInv
<1>7. KnownInv'
  <2> SUFFICES ASSUME NEW t \in call.known PROVE ~Valid(AtHand', t)
    BY DEF KnownInv
  <2>1. ~Valid(AtHand, t)
    BY <1>1, <1>2 DEF KnownInv
  <2>2. AtHand \subseteq AtHand'
    BY DEF AtHand
  <2> QED BY <2>1, <2>2, StaysExcluded
<1> QED BY <1>3, <1>4, <1>5, <1>6, <1>7 DEF ChainInv

(***************************************************************************)
(* A block is applied.                                                     *)
(***************************************************************************)
LEMMA Applied ==
  ASSUME ChainInv, call.at \notin {"idle", "restore"},
         NEW b \in Blocks, Applies(db, b)
  PROVE  LET d == [head |-> b, pending |-> <<>>]
         IN  /\ d \in State /\ Known(db) \subseteq Known(d)
             /\ HistorySize(b) \in Nat \ {0} /\ HistorySize(b) > 1
             /\ UndoOf(Start(undo, db), b) /\ UndoOf(Child(Start(undo, db)), b)
<1> DEFINE d == [head |-> b, pending |-> <<>>]
<1>1. /\ db.head \in Blocks \cup {NoBlock} /\ UndoOf(undo, db.head)
      /\ db = [head |-> db.head, pending |-> <<>>] /\ Known(db) = InChain(db.head)
  BY AtWork
<1>2. undo_max \in Nat \ {0} /\ Parent[b] = db.head
  BY DEF ChainInv, TypeOK, Applies
<1>3. UndoOf(Start(undo, [head |-> db.head, pending |-> <<>>]), b)
  BY <1>1, <1>2, StartKeeps
<1>4. UndoOf(Start(undo, db), b)
  BY <1>1, <1>3
<1>5. UndoOf(Child(Start(undo, db)), b)
  BY <1>2, <1>4, TrimKeeps DEF Child
<1>6. d \in State /\ d.head = b
  BY EmptySeq DEF State
<1>7. Known(db) \subseteq Known(d)
  BY <1>1, <1>2, <1>6, ChainTransactions DEF Known
<1>8. HistorySize(b) \in Nat /\ HistorySize(b) > 1
  BY HistoryHasRoom
<1> QED BY <1>4, <1>5, <1>6, <1>7, <1>8

(***************************************************************************)
(* The session of a block that does not apply is undone.                   *)
(***************************************************************************)
LEMMA Aborted ==
  ASSUME ChainInv, call.at \notin {"idle", "restore"}
  PROVE  UndoOf(Discard(Start(undo, db)), db.head)
<1>1. /\ db.head \in Blocks \cup {NoBlock} /\ UndoOf(undo, db.head)
      /\ db = [head |-> db.head, pending |-> <<>>]
  BY AtWork
<1>2. undo_max \in Nat \ {0}
  BY DEF ChainInv, TypeOK
<1>3. Session(Start(undo, [head |-> db.head, pending |-> <<>>]), db.head)
  BY <1>1, <1>2, StartKeeps
<1> QED BY <1>1, <1>3, SessionHasTop

----------------------------------------------------------------------------
(* The steps of a push. *)

LEMMA ApplyBlockKeeps ==
  ASSUME ChainInv, ApplyBlock
  PROVE  ChainInv'
<1> DEFINE b == call.block
           u == IF ToSet(Txs[b]) \cap Executing = {} THEN Start(undo, db)
                ELSE Child(Start(undo, db))
<1>1. /\ call.at = "apply" /\ Applies(db, b)
      /\ db' = [head |-> b, pending |-> <<>>]
      /\ undo_max' = HistorySize(b)
      /\ undo' = TrimTo(undo_max', u)
      /\ fork' = SetMaxSize(fork, undo_max')
      /\ log' = Store(log, b, b)
      /\ call' = [call EXCEPT !.at = "restore"]
      /\ UNCHANGED <<pending, pending_session, popped>>
  BY DEF ApplyBlock
<1>2. b \in Blocks /\ call \in Call
  BY <1>1, CallFields
<1>3. IsForkDB(fork) /\ log \in Seq(Entry) /\ popped \in Seq(Transactions)
  BY DEF ChainInv, TypeOK
<1>4. /\ db' \in State /\ Known(db) \subseteq Known(db')
      /\ undo_max' \in Nat \ {0} /\ undo_max' > 1
      /\ UndoOf(u, b)
  BY <1>1, <1>2, Applied
<1>5. call' \in Call /\ call'.at = "restore" /\ call'.block = call.block
      /\ call'.known = call.known /\ call'.saved = call.saved
  BY <1>1, <1>2 DEF Call
<1> HIDE DEF u
<1>6. UndoOf(undo', db'.head) /\ db'.pending = <<>>
  BY <1>1, <1>4, TrimKeeps
<1>7. IsForkDB(fork)' /\ log' \in Seq(Entry)
  BY <1>1, <1>2, <1>3, <1>4, SizedFork, StoredLog
<1> QED BY <1>1, <1>3, <1>4, <1>5, <1>6, <1>7, WorkKeeps

LEMMA ApplyNextKeeps ==
  ASSUME ChainInv, call.at \in {"switch", "rebuild"}, NEW id \in Blocks, ApplyNext(id)
  PROVE  ChainInv'
<1> DEFINE b == Head(call.todo)
           u == IF ToSet(Txs[b]) \cap Executing = {} THEN Start(undo, db)
                ELSE Child(Start(undo, db))
<1>1. /\ call.todo # <<>> /\ Applies(db, b)
      /\ db' = [head |-> b, pending |-> <<>>]
      /\ undo_max' = HistorySize(b)
      /\ undo' = u
      /\ fork' = SetMaxSize(fork, undo_max')
      /\ log' = Store(log, id, b)
      /\ call' = [call EXCEPT !.todo = Tail(@)]
      /\ UNCHANGED <<pending, pending_session, popped>>
  BY DEF ApplyNext
<1>2. call.todo \in Seq(Blocks) /\ call \in Call /\ CallInv
  BY CallFields DEF ChainInv
<1>3. b \in Blocks /\ Tail(call.todo) \in Seq(Blocks)
  BY <1>1, <1>2, HeadTailProperties
<1>4. IsForkDB(fork) /\ log \in Seq(Entry) /\ popped \in Seq(Transactions)
  BY DEF ChainInv, TypeOK
<1>5. /\ db' \in State /\ Known(db) \subseteq Known(db')
      /\ undo_max' \in Nat \ {0} /\ undo_max' > 1
      /\ UndoOf(u, b)
  BY <1>1, <1>3, Applied
<1>6. /\ call' \in Call /\ call'.at = call.at /\ call'.block = call.block
      /\ call'.known = call.known /\ call'.saved = call.saved /\ call'.good = call.good
  BY <1>1, <1>2, <1>3 DEF Call
<1> HIDE DEF u
<1>7. UndoOf(undo', db'.head) /\ db'.pending = <<>>
  BY <1>1, <1>5
<1>8. IsForkDB(fork)' /\ log' \in Seq(Entry)
  BY <1>1, <1>3, <1>4, <1>5, SizedFork, StoredLog
<1>9. call'.at \in {"pop", "switch"} => call'.good # <<>>
  BY <1>2, <1>6 DEF CallInv
<1> QED BY <1>1, <1>4, <1>5, <1>6, <1>7, <1>8, <1>9, WorkKeeps

LEMMA RejectBlockKeeps ==
  ASSUME ChainInv, RejectBlock
  PROVE  ChainInv'
<1>1. /\ call.at = "apply"
      /\ undo' = Discard(Start(undo, db))
      /\ fork' = RemoveItem(fork, call.block)
      /\ call' = Fails
      /\ UNCHANGED <<db, undo_max, log, pending, pending_session, popped>>
  BY DEF RejectBlock
<1>2. call \in Call
  BY CallFields
<1>3. /\ db \in State /\ undo_max \in Nat \ {0} /\ undo_max > 1 /\ IsForkDB(fork)
      /\ log \in Seq(Entry) /\ popped \in Seq(Transactions)
  BY DEF ChainInv, TypeOK
<1>4. /\ call' \in Call /\ call'.at = "restore" /\ call'.block = call.block
      /\ call'.known = call.known /\ call'.saved = call.saved
  BY <1>1, <1>2 DEF Call, Fails
<1>5. UndoOf(undo', db'.head) /\ db'.pending = <<>>
  BY <1>1, Aborted, AtWork
<1>6. IsForkDB(fork)'
  BY <1>1, <1>3, ErasedFork DEF RemoveItem
<1> QED BY <1>1, <1>3, <1>4, <1>5, <1>6, WorkKeeps

LEMMA RejectForkedKeeps ==
  ASSUME ChainInv, RejectForked
  PROVE  ChainInv'
<1> DEFINE f == Erase(fork, ToSet(call.todo))
<1>1. /\ call.at = "switch"
      /\ undo' = Discard(Start(undo, db))
      /\ fork' = SetHead(f, Item(f, Last(call.good)))
      /\ call' = [call EXCEPT !.at = "unwind"]
      /\ UNCHANGED <<db, undo_max, log, pending, pending_session, popped>>
  BY DEF RejectForked
<1>2. call \in Call /\ call.good \in Seq(Blocks) /\ call.good # <<>>
  BY <1>1, CallFields DEF ChainInv, CallInv
<1>3. /\ db \in State /\ undo_max \in Nat \ {0} /\ undo_max > 1 /\ IsForkDB(fork)
      /\ log \in Seq(Entry) /\ popped \in Seq(Transactions)
  BY DEF ChainInv, TypeOK
<1>4. /\ call' \in Call /\ call'.at = "unwind" /\ call'.block = call.block
      /\ call'.known = call.known /\ call'.saved = call.saved
  BY <1>1, <1>2 DEF Call
<1>5. UndoOf(undo', db'.head) /\ db'.pending = <<>>
  BY <1>1, Aborted, AtWork
<1>6. IsForkDB(f) /\ Last(call.good) \in Blocks
  BY <1>2, <1>3, ErasedFork, LastAndFront
<1> HIDE DEF f
<1>7. IsForkDB(fork)'
  BY <1>1, <1>6, ForkWithHead
<1> QED BY <1>1, <1>3, <1>4, <1>5, <1>7, WorkKeeps

LEMMA PopHeadKeeps ==
  ASSUME ChainInv, call.at \in {"pop", "unwind"}, PopHead
  PROVE  ChainInv'
<1> DEFINE h == Held
<1> HIDE DEF h
<1>1. /\ PopBlock(h) /\ fork' = PopFork(h)
      /\ call' = IF PopDone(h) THEN call ELSE Fails
      /\ UNCHANGED <<undo_max, pending, pending_session>>
  BY DEF PopHead, h
<1>2. call \in Call /\ CallInv
  BY DEF ChainInv, TypeOK
<1>3. /\ undo_max \in Nat \ {0} /\ undo_max > 1 /\ IsForkDB(fork)
      /\ log \in Seq(Entry) /\ popped \in Seq(Transactions)
  BY DEF ChainInv, TypeOK
<1>4. /\ db \in State /\ db.head \in Blocks \cup {NoBlock} /\ db.pending = <<>>
      /\ UndoOf(undo, db.head) /\ undo \in Seq(State) /\ Known(db) = InChain(db.head)
  BY AtWork
<1>5. /\ call' \in Call /\ call'.at # "idle" /\ call'.block = call.block
      /\ call'.known = call.known /\ call'.saved = call.saved
      /\ call'.at \in {"pop", "switch"} => call'.good # <<>>
  <2>1. CASE PopDone(h)
    BY <1>1, <1>2, <2>1 DEF CallInv
  <2>2. CASE ~PopDone(h)
    <3>1. Fails \in Call /\ Fails.at = "restore" /\ Fails.block = call.block
          /\ Fails.known = call.known /\ Fails.saved = call.saved
      BY <1>2 DEF Call, Fails
    <3> QED BY <1>1, <2>2, <3>1
  <2> QED BY <2>1, <2>2
<1>6. IsForkDB(fork)'
  <2>1. ForkPopped(h) => IsForkDB(Pop(fork))
    BY <1>3, PoppedFork DEF ForkPopped
  <2> QED BY <1>1, <1>3, <2>1 DEF PopFork
<1>7. log' \in Seq(Entry)
  <2>1. Unlogged(h) => db.head \in Blocks /\ HasEntry(log, db.head)
    BY <1>4 DEF Unlogged, ForkPopped
  <2> QED BY <1>1, <1>3, <2>1, ShortenedLog DEF PopBlock
<1>8. CASE PopDone(h)
  <2>1. db' = Last(undo) /\ undo' = Front(undo) /\ popped' = Cached(db.head)
    BY <1>1, <1>8 DEF PopBlock
  <2>2. undo # <<>> /\ db.head \in Blocks
    BY <1>4, <1>8 DEF PopDone, Unlogged, ForkPopped
  <2>3. db' \in State /\ db'.pending = <<>> /\ UndoOf(undo', db'.head)
    BY <1>4, <2>1, <2>2, PopKeeps
  <2>4. Txs[db.head] \in Seq(Transactions)
    BY <2>2, ChainAssumption
  <2>5. popped' \in Seq(Transactions) /\ ToSet(popped') = ToSet(Txs[db.head]) \cup ToSet(popped)
    BY <1>3, <2>1, <2>4, ConcatProperties, Elements DEF Cached
  <2>6. db'.head \in {db.head, Parent[db.head]}
    <3>1. Len(undo) \in Nat \ {0} /\ DOMAIN undo = 1 .. Len(undo) /\ Last(undo) = undo[Len(undo)]
      BY <1>4, <2>2, LastAndFront, LenProperties
    <3>2. Len(undo) \in DOMAIN undo
      BY <3>1
    <3> QED BY <1>4, <2>1, <3>1, <3>2 DEF UndoOf, LeadsBack
  <2>7. InChain(db.head) = InChain(Parent[db.head]) \cup ToSet(Txs[db.head])
    BY <2>2, ChainTransactions
  <2>8. InChain(db'.head) \subseteq Known(db')
    BY DEF Known
  <2>9. \A t \in Known(db) \cup ToSet(popped) : t \in Known(db') \cup ToSet(popped')
    BY <1>4, <2>5, <2>6, <2>7, <2>8
  <2> QED BY <1>1, <1>3, <1>5, <1>6, <1>7, <2>3, <2>5, <2>9, WorkKeeps
<1>9. CASE ~PopDone(h)
  <2>1. UNCHANGED <<db, undo, popped>>
    BY <1>1, <1>9 DEF PopBlock
  <2> QED BY <1>1, <1>3, <1>4, <1>5, <1>6, <1>7, <2>1, WorkKeeps
<1> QED BY <1>8, <1>9

(***************************************************************************)
(* A step that only changes where the push is.                             *)
(***************************************************************************)
LEMMA MovesOn ==
  ASSUME ChainInv, call.at \notin {"idle", "restore"},
         UNCHANGED <<db, undo, undo_max, fork, log, pending, pending_session, popped>>,
         NEW a \in {"switch", "rebuild", "restore"}, NEW todo \in Seq(Blocks), NEW f \in BOOLEAN,
         call' = [call EXCEPT !.at = a, !.todo = todo, !.failed = f],
         a = "switch" => call.good # <<>>
  PROVE  ChainInv'
<1>1. /\ call' \in Call /\ call'.at = a /\ call'.block = call.block
      /\ call'.known = call.known /\ call'.saved = call.saved /\ call'.good = call.good
  BY CallFields DEF Call
<1>2. /\ db \in State /\ undo_max \in Nat \ {0} /\ undo_max > 1 /\ IsForkDB(fork)
      /\ log \in Seq(Entry) /\ popped \in Seq(Transactions)
  BY DEF ChainInv, TypeOK
<1>3. IsForkDB(fork)'
  BY <1>2
<1>4. UndoOf(undo', db'.head) /\ db'.pending = <<>>
  BY AtWork
<1>5. call'.at # "idle" /\ (call'.at \in {"pop", "switch"} => call'.good # <<>>)
  BY <1>1
<1>6. \A t \in Known(db) \cup ToSet(popped) : t \in Known(db') \cup ToSet(popped')
  OBVIOUS
<1> QED BY <1>1, <1>2, <1>3, <1>4, <1>5, <1>6, WorkKeeps

LEMMA MovesKeep ==
  ASSUME ChainInv,
         \/ AtBase("pop", "switch", call.todo) \/ AtBase("unwind", "rebuild", call.good)
         \/ FinishSwitch \/ Rethrow
  PROVE  ChainInv'
<1>1. /\ call \in Call /\ call.todo \in Seq(Blocks) /\ call.good \in Seq(Blocks)
      /\ call.failed \in BOOLEAN /\ CallInv
  BY CallFields DEF Call, ChainInv
<1>2. CASE AtBase("pop", "switch", call.todo)
  <2>1. /\ call.at = "pop" /\ call' = [call EXCEPT !.at = "switch", !.todo = call.todo]
        /\ UNCHANGED <<db, undo, undo_max, fork, log, pending, pending_session, popped>>
    BY <1>2 DEF AtBase
  <2>2. call' = [call EXCEPT !.at = "switch", !.todo = call.todo, !.failed = call.failed]
    BY <1>1, <2>1 DEF Call
  <2> QED BY <1>1, <2>1, <2>2, MovesOn DEF CallInv
<1>3. CASE AtBase("unwind", "rebuild", call.good)
  <2>1. /\ call.at = "unwind" /\ call' = [call EXCEPT !.at = "rebuild", !.todo = call.good]
        /\ UNCHANGED <<db, undo, undo_max, fork, log, pending, pending_session, popped>>
    BY <1>3 DEF AtBase
  <2>2. call' = [call EXCEPT !.at = "rebuild", !.todo = call.good, !.failed = call.failed]
    BY <1>1, <2>1 DEF Call
  <2> QED BY <1>1, <2>1, <2>2, MovesOn
<1>4. CASE FinishSwitch
  <2>1. /\ call.at = "switch" /\ call' = [call EXCEPT !.at = "restore"]
        /\ UNCHANGED <<db, undo, undo_max, fork, log, pending, pending_session, popped>>
    BY <1>4 DEF FinishSwitch
  <2>2. call' = [call EXCEPT !.at = "restore", !.todo = call.todo, !.failed = call.failed]
    BY <1>1, <2>1 DEF Call
  <2> QED BY <1>1, <2>1, <2>2, MovesOn
<1>5. CASE Rethrow
  <2>1. /\ call.at = "rebuild" /\ call' = [call EXCEPT !.at = "restore", !.failed = TRUE]
        /\ UNCHANGED <<db, undo, undo_max, fork, log, pending, pending_session, popped>>
    BY <1>5 DEF Rethrow, Fails
  <2>2. call' = [call EXCEPT !.at = "restore", !.todo = call.todo, !.failed = TRUE]
    BY <1>1, <2>1 DEF Call
  <2> QED BY <1>1, <2>1, <2>2, MovesOn
<1> QED BY <1>2, <1>3, <1>4, <1>5

(***************************************************************************)
(* The restorer.                                                           *)
(***************************************************************************)
LEMMA RestoreKeeps ==
  ASSUME ChainInv, call.at = "restore", NEW t \in Transactions, Repush(t),
         UNCHANGED <<undo_max, fork, log>>,
         call' \in Call, call'.at = "restore", call'.block = call.block,
         call'.known = call.known, popped' \in Seq(Transactions),
         ToSet(popped) \cup ToSet(call.saved)
           \subseteq ToSet(popped') \cup ToSet(call'.saved) \cup {t}
  PROVE  ChainInv'
<1>1. /\ db' \in State /\ undo' \in Seq(State) /\ pending' \in Seq(Transactions)
      /\ pending_session' \in BOOLEAN
      /\ Undoable' /\ PendingInv'
      /\ Known(db) \subseteq Known(db') /\ ~Valid(Known(db'), t)
  BY TxRepushed
<1>2. /\ undo_max \in Nat \ {0} /\ undo_max > 1 /\ IsForkDB(fork) /\ log \in Seq(Entry)
      /\ call # Idle /\ call.block \in Blocks /\ KnownInv
  BY CallFields DEF ChainInv, TypeOK
<1>3. TypeOK'
  <2>1. IsForkDB(fork)'
    BY <1>2
  <2> QED BY <1>1, <1>2, <2>1 DEF TypeOK
<1>4. CallInv'
  BY <1>2 DEF CallInv
<1>5. KnownInv'
  <2> SUFFICES ASSUME NEW x \in call.known PROVE ~Valid(AtHand', x)
    BY DEF KnownInv
  <2>1. ~Valid(AtHand, x)
    BY <1>2 DEF KnownInv
  <2>2. PICK w \in Known(db') : Coin[w] = Coin[t]
    BY <1>1 DEF Valid
  <2>3. \A y \in AtHand : \E v \in AtHand' : Coin[v] = Coin[y]
    <3> SUFFICES ASSUME NEW y \in AtHand, y \notin AtHand'
                 PROVE  \E v \in AtHand' : Coin[v] = Coin[y]
      OBVIOUS
    <3>1. y = t
      BY <1>1 DEF AtHand
    <3>2. w \in AtHand'
      BY <2>2 DEF AtHand
    <3> QED BY <2>2, <3>1, <3>2
  <2> QED BY <2>1, <2>3, StaysExcluded
<1> QED BY <1>1, <1>2, <1>3, <1>4, <1>5 DEF ChainInv

LEMMA RestorePoppedKeeps ==
  ASSUME ChainInv, RestorePopped
  PROVE  ChainInv'
<1>1. /\ call.at = "restore" /\ popped # <<>> /\ Repush(Head(popped))
      /\ popped' = Tail(popped) /\ UNCHANGED <<undo_max, fork, log, call>>
  BY DEF RestorePopped
<1>2. popped \in Seq(Transactions) /\ call \in Call
  BY DEF ChainInv, TypeOK
<1>3. /\ Head(popped) \in Transactions /\ popped' \in Seq(Transactions)
      /\ ToSet(popped) = {Head(popped)} \cup ToSet(popped')
  BY <1>1, <1>2, HeadTailProperties, Elements
<1>4. ToSet(popped) \cup ToSet(call.saved)
        \subseteq ToSet(popped') \cup ToSet(call'.saved) \cup {Head(popped)}
  BY <1>1, <1>3
<1> QED BY <1>1, <1>2, <1>3, <1>4, RestoreKeeps

LEMMA RestorePendingKeeps ==
  ASSUME ChainInv, RestorePending
  PROVE  ChainInv'
<1>1. /\ call.at = "restore" /\ call.saved # <<>> /\ Repush(Head(call.saved))
      /\ call' = [call EXCEPT !.saved = Tail(@)] /\ UNCHANGED <<undo_max, fork, log, popped>>
  BY DEF RestorePending
<1>2. popped \in Seq(Transactions) /\ call \in Call /\ call.saved \in Seq(Transactions)
  BY CallFields DEF ChainInv, TypeOK
<1>3. /\ Head(call.saved) \in Transactions /\ Tail(call.saved) \in Seq(Transactions)
      /\ ToSet(call.saved) = {Head(call.saved)} \cup ToSet(Tail(call.saved))
  BY <1>1, <1>2, HeadTailProperties, Elements
<1>4. /\ call' \in Call /\ call'.at = "restore" /\ call'.block = call.block
      /\ call'.known = call.known /\ call'.saved = Tail(call.saved)
  BY <1>1, <1>2, <1>3 DEF Call
<1>5. ToSet(popped) \cup ToSet(call.saved)
        \subseteq ToSet(popped') \cup ToSet(call'.saved) \cup {Head(call.saved)}
  BY <1>1, <1>3, <1>4
<1> QED BY <1>1, <1>2, <1>3, <1>4, <1>5, RestoreKeeps

LEMMA ReturnKeeps ==
  ASSUME ChainInv, Return
  PROVE  ChainInv'
<1>1. /\ call' = Idle
      /\ UNCHANGED <<db, undo, undo_max, fork, log, pending, pending_session, popped>>
  BY DEF Return
<1>2. TypeOK /\ undo_max > 1 /\ Undoable /\ PendingInv
  BY DEF ChainInv
<1>3. Idle \in Call /\ Idle.at = "idle"
  BY EmptySeq DEF Idle, Call
<1>4. TypeOK'
  BY <1>1, <1>2, <1>3 DEF TypeOK
<1>5. Undoable' /\ PendingInv'
  BY <1>1, <1>2 DEF Undoable, PendingInv
<1>6. CallInv' /\ KnownInv'
  BY <1>1, <1>3 DEF CallInv, KnownInv
<1> QED BY <1>1, <1>2, <1>4, <1>5, <1>6 DEF ChainInv

----------------------------------------------------------------------------
(* What happens outside of a push, and how a push begins. *)

LEMMA PushTransactionKeeps ==
  ASSUME ChainInv, NEW t \in Transactions, PushTransaction(t)
  PROVE  ChainInv'
<1>1. call = Idle /\ PushTx(t) /\ UNCHANGED <<undo_max, fork, log, popped, call>>
  BY DEF PushTransaction
<1>2. TypeOK /\ undo_max > 1 /\ call.at = "idle"
  BY <1>1, CallFields DEF ChainInv
<1>3. /\ db' \in State /\ pending' \in Seq(Transactions) /\ pending_session' = TRUE
      /\ db'.head = db.head /\ Session(undo', db.head) /\ PendingInv'
  BY <1>1, TxPushed
<1>4. TypeOK'
  BY <1>1, <1>2, <1>3 DEF TypeOK, Session
<1>5. Undoable'
  BY <1>3 DEF Undoable
<1>6. CallInv' /\ KnownInv'
  BY <1>1, <1>2 DEF CallInv, KnownInv
<1> QED BY <1>1, <1>2, <1>3, <1>4, <1>5, <1>6 DEF ChainInv

LEMMA BeginPushKeeps ==
  ASSUME ChainInv, call = Idle, NEW b \in Blocks, NEW u, UndoOf(u, db.head), BeginPush(b, u)
  PROVE  ChainInv'
<1> DEFINE started == [Idle EXCEPT !.block = b, !.saved = pending, !.before = Cleared.head,
                                  !.known = Known(db)]
           tip     == fork'.head.block
           common  == Shared(tip, Cleared.head)
           switched == [started EXCEPT !.at = "pop", !.todo = Branch(common, tip),
                                       !.good = Branch(common, Cleared.head)]
<1>1. /\ db' = Cleared /\ undo' = u /\ pending' = <<>> /\ pending_session' = FALSE
      /\ fork' = IF Pushable(fork, b) THEN Push(fork, b) ELSE fork
      /\ UNCHANGED <<undo_max, log, popped>>
  BY DEF BeginPush
<1>2. \/ call' = [started EXCEPT !.at = "restore", !.failed = TRUE]
      \/ call' = [started EXCEPT !.at = "apply"]
      \/ call' = [started EXCEPT !.at = "restore"]
      \/ BranchFound(fork', tip, Cleared.head) /\ call' = switched
  BY DEF BeginPush
<1>3. /\ db.head \in Blocks \cup {NoBlock} /\ db.pending \in Seq(Transactions)
      /\ Cleared = [head |-> db.head, pending |-> <<>>] /\ Cleared \in State
  BY ClearedState
<1>4. /\ TypeOK /\ undo_max > 1 /\ pending \in Seq(Transactions) /\ PendingInv
      /\ IsForkDB(fork)
  BY DEF ChainInv, TypeOK
<1>5. Cleared.head = db.head /\ Cleared.pending = <<>>
  BY <1>3
<1>6. IsForkDB(fork)'
  <2>1. IsForkDB(Push(fork, b))
    BY <1>4, PushedFork
  <2> QED BY <1>1, <1>4, <2>1
<1>7. Known(db) \in SUBSET Transactions
  BY <1>3, ChainTransactions, Elements DEF Known
<1>8. /\ started \in Call /\ started.block = b /\ started.saved = pending
      /\ started.known = Known(db)
  BY <1>3, <1>4, <1>5, <1>7, EmptySeq DEF Call, Idle
<1> HIDE DEF started
<1>9. ASSUME BranchFound(fork', tip, Cleared.head)
      PROVE  /\ switched \in Call /\ switched.at = "pop" /\ switched.good # <<>>
             /\ switched.block = b /\ switched.saved = pending /\ switched.known = Known(db)
  <2>1. tip \in Blocks /\ Cleared.head \in Blocks
    BY <1>6, <1>9 DEF BranchFound, IsForkDB
  <2>2. /\ Branch(common, tip) \in Seq(Blocks) /\ Branch(common, Cleared.head) \in Seq(Blocks)
        /\ Branch(common, Cleared.head) # <<>>
    BY <2>1, BranchOfBlocks
  <2> HIDE DEF tip, common
  <2> QED BY <1>8, <2>2 DEF Call
<1>10. /\ call' \in Call /\ call'.at # "idle" /\ call'.block = b /\ call'.saved = pending
       /\ call'.known = Known(db) /\ (call'.at \in {"pop", "switch"} => call'.good # <<>>)
  <2>1. /\ [started EXCEPT !.at = "restore", !.failed = TRUE] \in Call
        /\ [started EXCEPT !.at = "apply"] \in Call
        /\ [started EXCEPT !.at = "restore"] \in Call
    BY <1>8 DEF Call
  <2> HIDE DEF switched
  <2>2. CASE call' = [started EXCEPT !.at = "restore", !.failed = TRUE]
    BY <1>8, <2>1, <2>2 DEF Call
  <2>3. CASE call' = [started EXCEPT !.at = "apply"]
    BY <1>8, <2>1, <2>3 DEF Call
  <2>4. CASE call' = [started EXCEPT !.at = "restore"]
    BY <1>8, <2>1, <2>4 DEF Call
  <2>5. CASE BranchFound(fork', tip, Cleared.head) /\ call' = switched
    BY <1>9, <2>5
  <2> QED BY <1>2, <2>2, <2>3, <2>4, <2>5
<1>11. TypeOK'
  BY <1>1, <1>3, <1>4, <1>6, <1>10, EmptySeq DEF TypeOK, UndoOf
<1>12. Undoable'
  BY <1>1, <1>5 DEF Undoable
<1>13. CallInv'
  BY <1>1, <1>10 DEF CallInv
<1>14. PendingInv'
  <2>1. ToSet(<<>>) = {}
    BY EmptySeq, Elements
  <2> QED BY <1>1, <1>5, <2>1 DEF PendingInv
<1>15. KnownInv'
  <2> SUFFICES ASSUME NEW t \in Known(db) PROVE ~Valid(AtHand', t)
    BY <1>10 DEF KnownInv
  <2>1. t \in InChain(db.head) \cup ToSet(pending)
    BY <1>4 DEF Known, PendingInv
  <2>2. t \in AtHand'
    BY <1>1, <1>5, <1>10, <2>1 DEF AtHand, Known
  <2> QED BY <2>2 DEF Valid
<1> QED BY <1>1, <1>4, <1>11, <1>12, <1>13, <1>14, <1>15 DEF ChainInv

(***************************************************************************)
(* The sessions in which a block is generated leave the undo states as     *)
(* they were, but for the limit.                                           *)
(***************************************************************************)
LEMMA RebuiltKeeps ==
  ASSUME ChainInv
  PROVE  UndoOf(RebuiltUndo, db.head)
<1> DEFINE u == Start(ClearedUndo, Cleared)
<1>1. /\ db.head \in Blocks \cup {NoBlock} /\ UndoOf(ClearedUndo, db.head)
      /\ Cleared = [head |-> db.head, pending |-> <<>>]
  BY ClearedState
<1>2. undo_max \in Nat \ {0} /\ undo_max > 1
  BY DEF ChainInv, TypeOK
<1>3. Session(Start(ClearedUndo, [head |-> db.head, pending |-> <<>>]), db.head)
  BY <1>1, <1>2, StartKeeps
<1>4. Session(u, db.head)
  BY <1>1, <1>3
<1> HIDE DEF u
<1>5. Session(Child(u), db.head) /\ Session(Grandchild(u), db.head)
  BY <1>2, <1>4, ChildKeeps, GrandchildKeeps
<1>6. RebuiltUndo \in {Discard(u), Discard(Child(u)), Discard(Grandchild(u))}
  BY Zenon DEF RebuiltUndo, u
<1> QED BY <1>4, <1>5, <1>6, SessionHasTop

LEMMA GenerateTooBigKeeps ==
  ASSUME ChainInv, GenerateTooBig
  PROVE  ChainInv'
<1>1. /\ call = Idle /\ SizeMayGrow /\ db' = Cleared /\ undo' = RebuiltUndo
      /\ pending_session' = FALSE /\ UNCHANGED <<undo_max, fork, log, pending, popped, call>>
  BY DEF GenerateTooBig
<1>2. /\ Cleared = [head |-> db.head, pending |-> <<>>] /\ Cleared \in State
      /\ UndoOf(RebuiltUndo, db.head)
  BY ClearedState, RebuiltKeeps
<1>3. TypeOK /\ undo_max > 1 /\ CallInv
  BY DEF ChainInv
<1>4. Undoable'
  BY <1>1, <1>2 DEF Undoable
<1>5. PendingInv'
  <2>1. ToSet(<<>>) = {}
    BY EmptySeq, Elements
  <2> QED BY <1>1, <1>2, <2>1 DEF PendingInv
<1>6. TypeOK'
  BY <1>1, <1>2, <1>3 DEF TypeOK, UndoOf
<1>7. CallInv' /\ KnownInv'
  BY <1>1, <1>3 DEF CallInv, KnownInv, Idle
<1> QED BY <1>1, <1>3, <1>4, <1>5, <1>6, <1>7 DEF ChainInv

----------------------------------------------------------------------------
(* The theorems. *)

LEMMA ChainInit ==
  ASSUME Init
  PROVE  ChainInv
<1>1. /\ db = [head |-> NoBlock, pending |-> <<>>] /\ undo = <<>> /\ undo_max = 10
      /\ fork = EmptyForkDB /\ log = <<>> /\ pending = <<>> /\ pending_session = FALSE
      /\ popped = <<>> /\ call = Idle
  BY DEF Init
<1>2. db \in State /\ Idle \in Call
  BY <1>1, EmptySeq DEF State, Idle, Call
<1>3. IsForkDB(fork)
  BY <1>1, BlocksAssumption DEF IsForkDB, EmptyForkDB, NoItem
<1>4. TypeOK
  <2>1. /\ undo \in Seq(State) /\ log \in Seq(Entry) /\ pending \in Seq(Transactions)
        /\ popped \in Seq(Transactions)
    BY <1>1, EmptySeq
  <2>2. undo_max \in Nat \ {0} /\ undo_max > 1
    BY <1>1
  <2>3. pending_session \in BOOLEAN
    BY <1>1, Zenon
  <2> QED BY <1>1, <1>2, <1>3, <2>1, <2>2, <2>3 DEF TypeOK
<1>5. LeadsBack(undo, db.head)
  <2>1. DOMAIN undo = {}
    BY <1>1
  <2> QED BY <2>1 DEF LeadsBack
<1>6. Undoable
  BY <1>1, <1>4, <1>5 DEF Undoable, UndoOf, TypeOK
<1>7. CallInv /\ KnownInv
  BY <1>1 DEF CallInv, KnownInv, Idle
<1>8. PendingInv
  BY <1>1 DEF PendingInv
<1> QED BY <1>1, <1>4, <1>6, <1>7, <1>8 DEF ChainInv

LEMMA ChainStep ==
  ASSUME ChainInv, Next
  PROVE  ChainInv'
<1>1. CASE \E t \in Transactions : PushTransaction(t)
  BY <1>1, PushTransactionKeeps
<1>2. ASSUME NEW b \in Blocks, PushBlock(b) PROVE ChainInv'
  <2>1. call = Idle /\ BeginPush(b, ClearedUndo)
    BY <1>2 DEF PushBlock
  <2> QED BY <2>1, ClearedState, BeginPushKeeps
<1>3. ASSUME NEW b \in Blocks, GenerateBlock(b) PROVE ChainInv'
  <2>1. call = Idle /\ BeginPush(b, RebuiltUndo)
    BY <1>3 DEF GenerateBlock
  <2> QED BY <2>1, RebuiltKeeps, BeginPushKeeps
<1>4. CASE GenerateTooBig
  BY <1>4, GenerateTooBigKeeps
<1>5. CASE ApplyBlock \/ RejectBlock \/ RejectForked
  BY <1>5, ApplyBlockKeeps, RejectBlockKeeps, RejectForkedKeeps
<1>6. CASE PopForSwitch \/ PopForked
  BY <1>6, PopHeadKeeps DEF PopForSwitch, PopForked
<1>7. CASE ApplyForked
  <2>1. call.at = "switch" /\ ApplyNext(Head(call.todo)) /\ call.todo # <<>>
    BY <1>7 DEF ApplyForked, ApplyNext
  <2>2. Head(call.todo) \in Blocks
    BY <2>1, CallFields, HeadTailProperties
  <2> QED BY <2>1, <2>2, ApplyNextKeeps
<1>8. CASE ApplyGood
  <2>1. call.at = "rebuild" /\ ApplyNext(call.block)
    BY <1>8 DEF ApplyGood
  <2>2. call.block \in Blocks
    BY <2>1, CallFields
  <2> QED BY <2>1, <2>2, ApplyNextKeeps
<1>9. CASE \/ AtBase("pop", "switch", call.todo) \/ AtBase("unwind", "rebuild", call.good)
           \/ FinishSwitch \/ Rethrow
  BY <1>9, MovesKeep
<1>10. CASE RestorePopped \/ RestorePending \/ Return
  BY <1>10, RestorePoppedKeeps, RestorePendingKeeps, ReturnKeeps
<1> QED BY <1>1, <1>2, <1>3, <1>4, <1>5, <1>6, <1>7, <1>8, <1>9, <1>10 DEF Next

(***************************************************************************)
(* The invariant.                                                          *)
(***************************************************************************)
THEOREM ChainInvariant == Spec => []ChainInv
<1>1. ASSUME ChainInv, UNCHANGED vars PROVE ChainInv'
  <2>1. UNCHANGED <<db, undo, undo_max, fork, log, pending, pending_session, popped, call>>
    BY <1>1 DEF vars
  <2>2. TypeOK' /\ undo_max' > 1
    BY <1>1, <2>1 DEF ChainInv, TypeOK
  <2>3. Undoable' /\ PendingInv'
    BY <1>1, <2>1 DEF ChainInv, Undoable, PendingInv
  <2>4. CallInv'
    BY <1>1, <2>1 DEF ChainInv, CallInv
  <2>5. KnownInv'
    <3>1. KnownInv
      BY <1>1 DEF ChainInv
    <3>2. AtHand' = AtHand
      BY <2>1 DEF AtHand, Known
    <3> QED BY <2>1, <3>1, <3>2 DEF KnownInv
  <2> QED BY <2>2, <2>3, <2>4, <2>5 DEF ChainInv
<1>2. ChainInv /\ [Next]_vars => ChainInv'
  BY <1>1, ChainStep
<1> QED BY <1>2, ChainInit, PTL DEF Spec

(***************************************************************************)
(* Whatever was pushed, switched, rejected and restored: each state that a *)
(* pop restores is that of the block before.                               *)
(***************************************************************************)
THEOREM UndoLeadsBack == Spec => []UndoFollowsChain
<1>1. ChainInv => UndoFollowsChain
  BY ClearedState DEF UndoFollowsChain, BlockUndo, UndoOf
<1> QED BY <1>1, ChainInvariant, PTL

(***************************************************************************)
(* When no block is thrown away for its size, the pending session is what  *)
(* _pending_tx says.                                                       *)
(***************************************************************************)
THEOREM PendingIsApplied == ~SizeMayGrow => (Spec => []PendingApplied)
<1>1. ASSUME ChainInv, ~SizeMayGrow PROVE PendingApplied
  <2>1. db.pending = pending /\ Undoable
    BY <1>1 DEF ChainInv, PendingInv
  <2>2. ~pending_session => db.pending = <<>>
    BY <2>1 DEF Undoable
  <2> QED BY <2>1, <2>2 DEF PendingApplied
<1> SUFFICES ASSUME ~SizeMayGrow PROVE Spec => []PendingApplied
  OBVIOUS
<1>2. ChainInv => PendingApplied
  BY <1>1
<1> QED BY <1>2, ChainInvariant, PTL

(***************************************************************************)
(* A push loses no transaction.                                            *)
(***************************************************************************)
LEMMA OnlyReturnEnds ==
  ASSUME ChainInv, Next, call # Idle, call' = Idle
  PROVE  Return
<1>1. call \in Call /\ call.at # "idle"
  BY DEF ChainInv, CallInv, TypeOK
<1>2. call'.at = "idle"
  BY DEF Idle
<1>3. Next => Return \/ \E a \in {"apply", "pop", "switch", "unwind", "rebuild", "restore"} :
                call'.at = a
  <2>1. \A a : /\ [call EXCEPT !.at = a].at = a
               /\ \A x : [call EXCEPT !.at = a, !.todo = x].at = a
               /\ \A x : [call EXCEPT !.at = a, !.failed = x].at = a
    BY <1>1 DEF Call
  <2> QED BY <1>1, <2>1
        DEF Next, PushTransaction, PushBlock, GenerateBlock, GenerateTooBig, ApplyBlock,
            RejectBlock, PopForSwitch, PopForked, PopHead, AtBase, ApplyForked, RejectForked,
            FinishSwitch, ApplyGood, ApplyNext, Rethrow, RestorePopped, RestorePending, Fails, Call
<1> QED BY <1>2, <1>3

THEOREM TransactionsSurvive == Spec => NothingLost
<1>1. ASSUME ChainInv, [Next]_vars, call # Idle, call' = Idle
      PROVE  \A t \in call.known : ~Valid(Known(db'), t)
  <2>1. Return
    <3>1. Next
      BY <1>1 DEF vars
    <3> QED BY <1>1, <3>1, OnlyReturnEnds
  <2>2. db' = db /\ popped = <<>> /\ call.saved = <<>>
    BY <2>1 DEF Return
  <2>3. ToSet(<<>>) = {}
    BY EmptySeq, Elements
  <2>4. AtHand = Known(db')
    BY <2>2, <2>3 DEF AtHand
  <2> QED BY <1>1, <2>4 DEF ChainInv, KnownInv
<1>2. ChainInv /\ [Next]_vars => [call # Idle /\ call' = Idle =>
                                      \A t \in call.known : ~Valid(Known(db'), t)]_vars
  BY <1>1
<1> QED BY <1>2, ChainInvariant, PTL DEF Spec, NothingLost

============================================================================
