--------------------------- MODULE NodeSyncProofs ---------------------------
(***************************************************************************)
(* For any peers, blocks, limits and faults: what is asked in              *)
(* synchronisation is asked of one peer, and that peer is connected; the   *)
(* blocks reach the chain in order; no peer is accused that follows the    *)
(* protocol.                                                               *)
(***************************************************************************)
EXTENDS NodeSync, FiniteSetTheorems, SequenceTheorems, WellFoundedInduction, TLAPS

----------------------------------------------------------------------------
(* Numbers, and the paths of the tree. *)

(***************************************************************************)
(* What holds at the start of a prefix of the numbers and from one to the  *)
(* next holds of all of it.                                                *)
(***************************************************************************)
LEMMA PrefixInduction ==
  ASSUME NEW L \in Nat, NEW Good, 0 \in Good,
         \A n \in 1 .. L : n - 1 \in Good => n \in Good
  PROVE  \A n \in 0 .. L : n \in Good
<1> DEFINE Except == {n \in 0 .. L : n \notin Good}
<1>1. ASSUME Except # {} PROVE FALSE
  <2>1. Except \subseteq Nat
    OBVIOUS
  <2>2. PICK n \in Except : \A m \in Except : ~(<<m, n>> \in OpToRel(<, Nat))
    <3> HIDE DEF Except
    <3> QED BY <1>1, <2>1, NatLessThanWellFounded, WFMin
  <2>3. n # 0 /\ n - 1 \in 0 .. L /\ n \in 1 .. L
    <3>1. n \in 0 .. L /\ n \notin Good
      BY ONLY n \in Except
    <3> QED BY ONLY <3>1, 0 \in Good, L \in Nat
  <2>4. n - 1 \in Except
    BY <2>2, <2>3
  <2>5. ~(n - 1 < n)
    <3> HIDE DEF Except
    <3>1. n - 1 \in Nat /\ n \in Nat
      BY <2>3
    <3> QED BY <2>2, <2>4, <3>1 DEF OpToRel
  <2> QED BY <2>3, <2>5
<1> QED BY <1>1

(***************************************************************************)
(* The greatest of some numbers up to a bound, which is the one Max        *)
(* chooses, is one of them.                                                *)
(***************************************************************************)
LEMMA MaxOfBounded ==
  ASSUME NEW N \in Nat, NEW S \in SUBSET (0 .. N), S # {}
  PROVE  Max(S) \in S
<1> DEFINE T == {N - k : k \in S}
<1>1. T \subseteq Nat /\ T # {}
  <2>1. PICK k \in S : TRUE
    OBVIOUS
  <2>2. N - k \in T
    BY <2>1
  <2> QED BY <2>2
<1>2. PICK t \in T : \A u \in T : ~(<<u, t>> \in OpToRel(<, Nat))
  BY <1>1, NatLessThanWellFounded, WFMin
<1>3. PICK x \in S : t = N - x
  BY <1>2
<1>4. ASSUME NEW y \in S PROVE x >= y
  <2>1. N - y \in T /\ ~(N - y < N - x)
    BY <1>1, <1>2, <1>3 DEF OpToRel
  <2> QED BY <2>1
<1> QED BY <1>4, Zenon DEF Max

\* The paths from a first block to b.
PathsTo(b) ==
  {s \in Seq(Blocks) :
     /\ s # <<>> /\ s[Len(s)] = b
     /\ Parent[s[1]] = NoBlock
     /\ \A i \in 2 .. Len(s) : Parent[s[i]] = s[i - 1]}

(***************************************************************************)
(* A path ends with a first block, or goes on from one to the parent.      *)
(***************************************************************************)
LEMMA PathsGoOn ==
  ASSUME NEW b \in Blocks
  PROVE  PathsTo(b) = IF Parent[b] = NoBlock THEN {<<b>>}
                      ELSE {Append(s, b) : s \in PathsTo(Parent[b])}
<1>1. CASE Parent[b] = NoBlock
  <2>1. <<b>> \in Seq(Blocks) /\ Len(<<b>>) = 1 /\ <<b>>[1] = b /\ <<b>> # <<>>
    OBVIOUS
  <2>2. <<b>> \in PathsTo(b)
    BY <1>1, <2>1 DEF PathsTo
  <2>3. ASSUME NEW s \in PathsTo(b) PROVE s = <<b>>
    <3>1. s \in Seq(Blocks) /\ s # <<>> /\ s[Len(s)] = b /\ Len(s) \in Nat \ {0}
      BY EmptySeq DEF PathsTo
    <3>2. Len(s) = 1
      <4>1. ASSUME Len(s) # 1 PROVE FALSE
        <5>1. Len(s) \in 2 .. Len(s) /\ Len(s) - 1 \in 1 .. Len(s)
          <6>1. \A n \in Nat \ {0} : n # 1 => n \in 2 .. n /\ n - 1 \in 1 .. n
            OBVIOUS
          <6> QED BY ONLY <3>1, <4>1, <6>1
        <5>2. Parent[b] = s[Len(s) - 1]
          BY <3>1, <5>1 DEF PathsTo
        <5>3. s[Len(s) - 1] \in Blocks
          BY <3>1, <5>1, ElementOfSeq
        <5> QED BY <1>1, <5>2, <5>3, BlocksAssumption
      <4> QED BY <4>1
    <3>3. \A i \in 1 .. Len(s) : s[i] = <<b>>[i]
      BY <2>1, <3>1, <3>2
    <3> QED BY <2>1, <3>1, <3>2, <3>3, SeqEqual
  <2> QED BY <1>1, <2>2, <2>3
<1>2. CASE Parent[b] # NoBlock
  <2>1. Parent[b] \in Blocks
    BY <1>2, BlocksAssumption
  <2>2. ASSUME NEW s \in PathsTo(Parent[b]) PROVE Append(s, b) \in PathsTo(b)
    <3> DEFINE a == Append(s, b)
    <3>1. s \in Seq(Blocks) /\ s # <<>> /\ s[Len(s)] = Parent[b] /\ Len(s) \in Nat \ {0}
      BY EmptySeq DEF PathsTo
    <3>2. /\ a \in Seq(Blocks) /\ a # <<>> /\ Len(a) = Len(s) + 1 /\ a[Len(s) + 1] = b
          /\ \A i \in 1 .. Len(s) : a[i] = s[i]
      BY <3>1, AppendProperties
    <3> HIDE DEF a
    <3>3. Parent[a[1]] = NoBlock
      <4>1. a[1] = s[1]
        BY <3>1, <3>2
      <4> QED BY <4>1 DEF PathsTo
    <3>4. ASSUME NEW i \in 2 .. Len(a) PROVE Parent[a[i]] = a[i - 1]
      <4>1. CASE i = Len(a)
        <5>1. i = Len(s) + 1 /\ i - 1 = Len(s) /\ i - 1 \in 1 .. Len(s)
          BY <3>1, <3>2, <4>1
        <5> QED BY <3>1, <3>2, <5>1
      <4>2. CASE i # Len(a)
        <5>1. i \in 2 .. Len(s) /\ i \in 1 .. Len(s) /\ i - 1 \in 1 .. Len(s)
          BY <3>1, <3>2, <4>2
        <5>2. Parent[s[i]] = s[i - 1]
          BY <5>1 DEF PathsTo
        <5> QED BY <3>2, <5>1, <5>2
      <4> QED BY <4>1, <4>2
    <3> QED BY <3>2, <3>3, <3>4 DEF PathsTo, a
  <2>3. ASSUME NEW s \in PathsTo(b)
        PROVE  \E t \in PathsTo(Parent[b]) : s = Append(t, b)
    <3>1. /\ s \in Seq(Blocks) /\ s # <<>> /\ s[Len(s)] = b /\ Parent[s[1]] = NoBlock
          /\ \A i \in 2 .. Len(s) : Parent[s[i]] = s[i - 1]
      BY DEF PathsTo
    <3>2. PICK t \in Seq(Blocks), e \in Blocks : s = Append(t, e)
      BY <3>1, SequenceEmptyOrAppend
    <3>3. /\ Len(s) = Len(t) + 1 /\ s[Len(t) + 1] = e /\ Len(t) \in Nat
          /\ \A i \in 1 .. Len(t) : s[i] = t[i]
      BY <3>2, AppendProperties, LenProperties
    <3>4. e = b
      BY <3>1, <3>3
    <3>5. Len(t) # 0
      <4>1. ASSUME Len(t) = 0 PROVE FALSE
        BY <1>2, <3>1, <3>3, <4>1
      <4> QED BY <4>1
    <3>6. t # <<>>
      BY <3>5, EmptySeq
    <3>7. t[Len(t)] = Parent[b]
      <4>1. Len(s) \in 2 .. Len(s) /\ Len(s) - 1 = Len(t) /\ Len(t) \in 1 .. Len(t)
        BY <3>3, <3>5
      <4>2. Parent[s[Len(s)]] = s[Len(s) - 1]
        BY <3>1, <4>1
      <4> QED BY <3>1, <3>3, <4>1, <4>2
    <3>8. Parent[t[1]] = NoBlock
      <4>1. 1 \in 1 .. Len(t)
        BY <3>3, <3>5
      <4> QED BY <3>1, <3>3, <4>1
    <3>9. ASSUME NEW i \in 2 .. Len(t) PROVE Parent[t[i]] = t[i - 1]
      <4>1. i \in 2 .. Len(s) /\ i \in 1 .. Len(t) /\ i - 1 \in 1 .. Len(t)
        BY <3>3
      <4> QED BY <3>1, <3>3, <4>1
    <3>10. t \in PathsTo(Parent[b])
      BY <3>6, <3>7, <3>8, <3>9 DEF PathsTo
    <3> QED BY <3>2, <3>4, <3>10
  <2> QED BY <1>2, <2>2, <2>3
<1> QED BY <1>1, <1>2

(***************************************************************************)
(* Each block has exactly one path, since there is no way round; Path is   *)
(* the function that the recursion describes.                              *)
(***************************************************************************)
LEMMA PathRecursion ==
  \A b \in Blocks :
    /\ Path[b] = IF Parent[b] = NoBlock THEN <<b>> ELSE Append(Path[Parent[b]], b)
    /\ Path[b] \in PathsTo(b) /\ Path[b] \in Seq(Blocks) /\ Path[b] # <<>>
<1> DEFINE Only == {b \in Blocks : \E s : PathsTo(b) = {s}}
<1>1. Only = Blocks
  <2> DEFINE Others == Blocks \ Only
  <2>1. ASSUME Others # {} PROVE FALSE
    <3>1. PICK b \in Others : Parent[b] \notin Others
      <4>1. Others \in SUBSET Blocks
        OBVIOUS
      <4> HIDE DEF Others
      <4> QED BY <2>1, <4>1, BlocksAssumption
    <3>2. CASE Parent[b] = NoBlock
      <4>1. PathsTo(b) = {<<b>>}
        BY <3>2, PathsGoOn
      <4> QED BY <4>1
    <3>3. CASE Parent[b] # NoBlock
      <4>1. Parent[b] \in Only
        BY <3>1, <3>3, BlocksAssumption
      <4>2. PICK s : PathsTo(Parent[b]) = {s}
        BY <4>1
      <4>3. PathsTo(b) = {Append(s, b)}
        BY <3>3, <4>2, PathsGoOn
      <4> QED BY <4>3
    <3> QED BY <3>2, <3>3
  <2> QED BY <2>1
<1> DEFINE f == [b \in Blocks |-> CHOOSE s : s \in PathsTo(b)]
           next(g, b) == IF Parent[b] = NoBlock THEN <<b>> ELSE Append(g[Parent[b]], b)
<1>2. ASSUME NEW b \in Blocks PROVE PathsTo(b) = {f[b]}
  <2>1. PICK s : PathsTo(b) = {s}
    BY <1>1
  <2>2. (CHOOSE t : t \in PathsTo(b)) \in PathsTo(b)
    BY <2>1
  <2> QED BY <2>1, <2>2
<1> HIDE DEF Only, f
<1>3. ASSUME NEW b \in Blocks PROVE f[b] = next(f, b)
  <2>1. CASE Parent[b] = NoBlock
    BY <1>2, <2>1, PathsGoOn
  <2>2. CASE Parent[b] # NoBlock
    <3>1. PathsTo(Parent[b]) = {f[Parent[b]]}
      BY <1>2, <2>2, BlocksAssumption
    <3>2. PathsTo(b) = {Append(f[Parent[b]], b)}
      BY <2>2, <3>1, PathsGoOn
    <3> QED BY <1>2, <2>2, <3>2
  <2> QED BY <2>1, <2>2
<1>4. f = [b \in Blocks |-> next(f, b)]
  <2>1. f = [b \in Blocks |-> f[b]]
    BY DEF f
  <2> HIDE DEF next
  <2> QED BY <1>3, <2>1
<1>5. Path = [b \in Blocks |-> next(Path, b)]
  BY <1>4, Zenon DEF Path
<1> DEFINE All == {b \in Blocks : Path[b] \in PathsTo(b)}
<1>6. All = Blocks
  <2> DEFINE Others == Blocks \ All
  <2>1. ASSUME Others # {} PROVE FALSE
    <3>1. PICK b \in Others : Parent[b] \notin Others
      <4>1. Others \in SUBSET Blocks
        OBVIOUS
      <4> HIDE DEF Others
      <4> QED BY <2>1, <4>1, BlocksAssumption
    <3>2. Path[b] = next(Path, b)
      <4> HIDE DEF next
      <4> QED BY <1>5
    <3>3. CASE Parent[b] = NoBlock
      BY <3>2, <3>3, PathsGoOn
    <3>4. CASE Parent[b] # NoBlock
      <4>1. Path[Parent[b]] \in PathsTo(Parent[b])
        BY <3>1, <3>4, BlocksAssumption
      <4> QED BY <3>2, <3>4, <4>1, PathsGoOn
    <3> QED BY <3>3, <3>4
  <2> QED BY <2>1
<1> SUFFICES ASSUME NEW b \in Blocks
             PROVE  /\ Path[b] = next(Path, b)
                    /\ Path[b] \in PathsTo(b) /\ Path[b] \in Seq(Blocks) /\ Path[b] # <<>>
  OBVIOUS
<1>7. Path[b] = next(Path, b)
  <2> HIDE DEF next
  <2> QED BY <1>5
<1>8. Path[b] \in PathsTo(b) /\ Path[b] \in Seq(Blocks) /\ Path[b] # <<>>
  BY <1>6 DEF PathsTo
<1> QED BY <1>7, <1>8

(***************************************************************************)
(* A block has the number after that of its parent.                        *)
(***************************************************************************)
LEMMA Numbers ==
  /\ Num(NoBlock) = 0
  /\ \A id \in Blocks \cup {NoBlock} : PathTo(id) \in Seq(Blocks) /\ Num(id) \in Nat
  /\ \A b \in Blocks : /\ PathTo(b) = Path[b] /\ Num(b) = Len(Path[b])
                       /\ Num(b) = Num(Parent[b]) + 1
                       /\ Parent[b] \in Blocks \cup {NoBlock}
<1>1. PathTo(NoBlock) = <<>> /\ Num(NoBlock) = 0
  BY EmptySeq DEF PathTo, Num
<1>2. ASSUME NEW b \in Blocks
      PROVE  PathTo(b) = Path[b] /\ Num(b) = Len(Path[b]) /\ Path[b] \in Seq(Blocks)
  BY PathRecursion, BlocksAssumption DEF PathTo, Num
<1>3. \A id \in Blocks \cup {NoBlock} : PathTo(id) \in Seq(Blocks) /\ Num(id) \in Nat
  <2>1. <<>> \in Seq(Blocks)
    BY EmptySeq
  <2> QED BY <1>1, <1>2, <2>1, LenProperties
<1>4. ASSUME NEW b \in Blocks PROVE Num(b) = Num(Parent[b]) + 1
  <2>1. CASE Parent[b] = NoBlock
    <3>1. Path[b] = <<b>> /\ Len(<<b>>) = 1
      BY <2>1, PathRecursion
    <3>2. Num(Parent[b]) = 0 /\ Num(b) = 1
      BY <1>1, <1>2, <2>1, <3>1, Zenon
    <3> QED BY <3>2
  <2>2. CASE Parent[b] # NoBlock
    <3>1. Parent[b] \in Blocks /\ Path[b] = Append(Path[Parent[b]], b)
      BY <2>2, PathRecursion, BlocksAssumption
    <3>2. Len(Append(Path[Parent[b]], b)) = Len(Path[Parent[b]]) + 1
      BY <1>2, <3>1, AppendProperties
    <3> QED BY <1>2, <3>1, <3>2
  <2> QED BY <2>1, <2>2
<1> QED BY <1>1, <1>2, <1>3, <1>4, BlocksAssumption

\* Blocks each of which is the parent of the next one.
Line(s) == s \in Seq(Blocks) /\ \A i \in 2 .. Len(s) : Parent[s[i]] = s[i - 1]

(***************************************************************************)
(* Along a line the numbers go up by one.                                  *)
(***************************************************************************)
LEMMA LineNumbers ==
  ASSUME NEW s, Line(s)
  PROVE  \A i \in 1 .. Len(s) : s[i] \in Blocks /\ Num(s[i]) = Num(s[1]) + i - 1
<1>1. Len(s) \in Nat /\ \A i \in 1 .. Len(s) : s[i] \in Blocks /\ Num(s[i]) \in Nat
  BY ElementOfSeq, LenProperties, Numbers DEF Line
<1> DEFINE Good == {n \in Nat : n = 0 \/ Num(s[n]) = Num(s[1]) + n - 1}
<1>2. 0 \in Good
  OBVIOUS
<1>3. ASSUME NEW n \in 1 .. Len(s), n - 1 \in Good PROVE n \in Good
  <2>1. CASE n = 1
    BY <1>1, <2>1
  <2>2. CASE n # 1
    <3>1. n \in 2 .. Len(s) /\ n - 1 \in 1 .. Len(s) /\ n \in Nat /\ n - 1 \in Nat /\ 1 \in 1 .. Len(s)
      BY <1>1, <2>2
    <3>2. Num(s[n]) = Num(s[n - 1]) + 1
      BY <1>1, <3>1, Numbers DEF Line
    <3>3. Num(s[n - 1]) = Num(s[1]) + (n - 1) - 1
      BY <1>3, <3>1
    <3> QED BY <1>1, <3>1, <3>2, <3>3
  <2> QED BY <2>1, <2>2
<1> HIDE DEF Good
<1>4. \A n \in 0 .. Len(s) : n \in Good
  BY <1>1, <1>2, <1>3, PrefixInduction
<1> QED BY <1>1, <1>4 DEF Good

(***************************************************************************)
(* The path to a block is a line from a first block, and the number of a   *)
(* block is its place.                                                     *)
(***************************************************************************)
LEMMA PathIsLine ==
  ASSUME NEW b \in Blocks
  PROVE  /\ Line(Path[b]) /\ Len(Path[b]) = Num(b) /\ Num(b) \in Nat \ {0}
         /\ Path[b][Num(b)] = b /\ Parent[Path[b][1]] = NoBlock
         /\ \A i \in 1 .. Num(b) : Path[b][i] \in Blocks /\ Num(Path[b][i]) = i
<1>1. /\ Path[b] \in Seq(Blocks) /\ Path[b] # <<>> /\ Path[b][Len(Path[b])] = b
      /\ Parent[Path[b][1]] = NoBlock
      /\ \A i \in 2 .. Len(Path[b]) : Parent[Path[b][i]] = Path[b][i - 1]
  BY PathRecursion DEF PathsTo
<1>2. Len(Path[b]) = Num(b) /\ Num(b) \in Nat \ {0}
  BY <1>1, Numbers, EmptySeq, LenProperties
<1>3. Line(Path[b])
  BY <1>1 DEF Line
<1>4. Num(Path[b][1]) = 1
  <2>1. Path[b][1] \in Blocks
    BY <1>1, <1>2, ElementOfSeq
  <2> QED BY <1>1, <2>1, Numbers
<1>5. \A i \in 1 .. Num(b) : Path[b][i] \in Blocks /\ Num(Path[b][i]) = i
  BY <1>2, <1>3, <1>4, LineNumbers
<1> QED BY <1>1, <1>2, <1>3, <1>5

(***************************************************************************)
(* A set that has with a block its parent has with a block its path.       *)
(***************************************************************************)
LEMMA PathInside ==
  ASSUME NEW S, \A x \in S \cap Blocks : Parent[x] \in S \cup {NoBlock}, NEW b \in S \cap Blocks
  PROVE  \A i \in 1 .. Num(b) : Path[b][i] \in S
<1>1. /\ Num(b) \in Nat \ {0} /\ Path[b][Num(b)] = b
      /\ \A i \in 1 .. Num(b) : Path[b][i] \in Blocks
      /\ \A i \in 2 .. Num(b) : Parent[Path[b][i]] = Path[b][i - 1]
  BY PathIsLine DEF Line
<1> DEFINE Good == {n \in Nat : n < Num(b) => Path[b][Num(b) - n] \in S}
<1>2. 0 \in Good
  BY <1>1
<1>3. ASSUME NEW n \in 1 .. Num(b), n - 1 \in Good PROVE n \in Good
  <2> SUFFICES ASSUME n < Num(b) PROVE Path[b][Num(b) - n] \in S
    BY <1>1
  <2>1. n - 1 \in Nat /\ n - 1 < Num(b) /\ Num(b) - (n - 1) \in 2 .. Num(b)
        /\ Num(b) - (n - 1) - 1 = Num(b) - n /\ Num(b) - n \in 1 .. Num(b)
        /\ Num(b) - (n - 1) \in 1 .. Num(b)
    BY <1>1
  <2>2. Path[b][Num(b) - (n - 1)] \in S
    BY <1>3, <2>1
  <2>3. Parent[Path[b][Num(b) - (n - 1)]] = Path[b][Num(b) - n]
    BY <1>1, <2>1
  <2> QED BY <1>1, <2>1, <2>2, <2>3, BlocksAssumption
<1> HIDE DEF Good
<1>4. \A n \in 0 .. Num(b) : n \in Good
  BY <1>1, <1>2, <1>3, PrefixInduction
<1>5. ASSUME NEW i \in 1 .. Num(b) PROVE Path[b][i] \in S
  <2>1. Num(b) - i \in 0 .. Num(b) /\ Num(b) - i < Num(b) /\ Num(b) - (Num(b) - i) = i
    BY <1>1
  <2>2. Num(b) - i \in Good
    BY <1>4, <2>1
  <2> QED BY <2>1, <2>2 DEF Good
<1> QED BY <1>5

(***************************************************************************)
(* Parts of a line are lines, and a line may go on with another.           *)
(***************************************************************************)
LEMMA LineParts ==
  ASSUME NEW s, Line(s)
  PROVE  /\ \A m \in 1 .. Len(s) + 1, n \in 0 .. Len(s) :
              /\ Line(SubSeq(s, m, n))
              /\ Len(SubSeq(s, m, n)) = IF m <= n THEN n - m + 1 ELSE 0
              /\ m <= n => SubSeq(s, m, n)[1] = s[m]
              /\ \A i \in 1 .. Len(SubSeq(s, m, n)) : SubSeq(s, m, n)[i] = s[m + i - 1]
         /\ s # <<>> => /\ Line(Tail(s)) /\ Len(Tail(s)) = Len(s) - 1
                        /\ \A i \in 1 .. Len(s) - 1 : Tail(s)[i] = s[i + 1]
<1>1. s \in Seq(Blocks) /\ Len(s) \in Nat /\ \A i \in 1 .. Len(s) : s[i] \in Blocks
  BY ElementOfSeq, LenProperties DEF Line
<1>2. ASSUME NEW m \in 1 .. Len(s) + 1, NEW n \in 0 .. Len(s)
      PROVE  /\ Line(SubSeq(s, m, n))
             /\ Len(SubSeq(s, m, n)) = IF m <= n THEN n - m + 1 ELSE 0
             /\ m <= n => SubSeq(s, m, n)[1] = s[m]
             /\ \A i \in 1 .. Len(SubSeq(s, m, n)) : SubSeq(s, m, n)[i] = s[m + i - 1]
  <2> DEFINE u == SubSeq(s, m, n)
  <2>1. \A i \in m .. n : s[i] \in Blocks
    BY <1>1
  <2>2. /\ u \in Seq(Blocks)
        /\ Len(u) = IF m <= n THEN n - m + 1 ELSE 0
        /\ \A i \in 1 .. n - m + 1 : u[i] = s[m + i - 1]
    BY <1>1, <2>1, SubSeqProperties
  <2> HIDE DEF u
  <2>3. \A i \in 1 .. Len(u) : i \in 1 .. n - m + 1
    BY <1>1, <2>2
  <2>4. ASSUME NEW i \in 2 .. Len(u) PROVE Parent[u[i]] = u[i - 1]
    <3>1. /\ i \in 1 .. n - m + 1 /\ i - 1 \in 1 .. n - m + 1
          /\ m + i - 1 \in 2 .. Len(s) /\ m + (i - 1) - 1 = m + i - 1 - 1
      BY <1>1, <2>2
    <3>2. u[i] = s[m + i - 1] /\ u[i - 1] = s[m + i - 1 - 1]
      BY <2>2, <3>1
    <3>3. \A j \in 2 .. Len(s) : Parent[s[j]] = s[j - 1]
      BY DEF Line
    <3>4. Parent[s[m + i - 1]] = s[m + i - 1 - 1]
      BY <3>1, <3>3
    <3> QED BY <3>2, <3>4
  <2>5. m <= n => u[1] = s[m]
    <3>1. m <= n => 1 \in 1 .. n - m + 1 /\ m + 1 - 1 = m
      BY <1>1
    <3> QED BY <2>2, <3>1
  <2> QED BY <2>2, <2>3, <2>4, <2>5 DEF Line, u
<1>3. ASSUME s # <<>>
      PROVE  /\ Line(Tail(s)) /\ Len(Tail(s)) = Len(s) - 1
             /\ \A i \in 1 .. Len(s) - 1 : Tail(s)[i] = s[i + 1]
  <2>1. /\ Tail(s) \in Seq(Blocks) /\ Len(Tail(s)) = Len(s) - 1
        /\ \A i \in 1 .. Len(Tail(s)) : Tail(s)[i] = s[i + 1]
    BY <1>1, <1>3, HeadTailProperties
  <2>2. ASSUME NEW i \in 2 .. Len(Tail(s)) PROVE Parent[Tail(s)[i]] = Tail(s)[i - 1]
    <3>1. i \in 1 .. Len(Tail(s)) /\ i - 1 \in 1 .. Len(Tail(s)) /\ i + 1 \in 2 .. Len(s) /\ i - 1 + 1 = i
      BY <1>1, <2>1
    <3>2. Tail(s)[i] = s[i + 1] /\ Tail(s)[i - 1] = s[i - 1 + 1] /\ i + 1 - 1 = i
      BY <2>1, <3>1
    <3> QED BY <3>1, <3>2 DEF Line
  <2> QED BY <2>1, <2>2 DEF Line
<1> QED BY <1>2, <1>3

(***************************************************************************)
(* Two lines make one, when the second goes on where the first ends.       *)
(***************************************************************************)
LEMMA LinesJoined ==
  ASSUME NEW s, NEW u, Line(s), Line(u),
         s # <<>> /\ u # <<>> => Parent[u[1]] = s[Len(s)]
  PROVE  Line(s \o u)
<1>1. s \in Seq(Blocks) /\ u \in Seq(Blocks) /\ Len(s) \in Nat /\ Len(u) \in Nat
  BY LenProperties DEF Line
<1>2. /\ s \o u \in Seq(Blocks) /\ Len(s \o u) = Len(s) + Len(u)
      /\ \A i \in 1 .. Len(s) + Len(u) :
            (s \o u)[i] = IF i <= Len(s) THEN s[i] ELSE u[i - Len(s)]
  BY <1>1, ConcatProperties
<1>3. ASSUME NEW i \in 2 .. Len(s \o u) PROVE Parent[(s \o u)[i]] = (s \o u)[i - 1]
  <2>1. i \in 1 .. Len(s) + Len(u) /\ i - 1 \in 1 .. Len(s) + Len(u)
    BY <1>1, <1>2
  <2>2. CASE i <= Len(s)
    <3>1. (s \o u)[i] = s[i] /\ (s \o u)[i - 1] = s[i - 1] /\ i \in 2 .. Len(s)
      BY <1>1, <1>2, <2>1, <2>2
    <3> QED BY <3>1 DEF Line
  <2>3. CASE i = Len(s) + 1
    <3>1. (s \o u)[i] = u[1] /\ (s \o u)[i - 1] = s[Len(s)] /\ Len(s) # 0 /\ Len(u) # 0
      <4>1. i - Len(s) = 1 /\ i - 1 = Len(s) /\ ~(i <= Len(s)) /\ Len(s) # 0 /\ Len(u) # 0
        BY <1>1, <1>2, <2>1, <2>3
      <4> QED BY <1>1, <1>2, <2>1, <4>1
    <3> QED BY <1>1, <3>1, EmptySeq
  <2>4. CASE i > Len(s) + 1
    <3>1. /\ i - Len(s) \in 2 .. Len(u) /\ i - 1 - Len(s) = i - Len(s) - 1
          /\ ~(i <= Len(s)) /\ ~(i - 1 <= Len(s))
      BY <1>1, <1>2, <2>1, <2>4
    <3>2. (s \o u)[i] = u[i - Len(s)] /\ (s \o u)[i - 1] = u[i - Len(s) - 1]
      BY <1>2, <2>1, <3>1
    <3> QED BY <3>1, <3>2 DEF Line
  <2> QED BY <1>1, <2>1, <2>2, <2>3, <2>4
<1> QED BY <1>2, <1>3 DEF Line

----------------------------------------------------------------------------
(* Synopses. *)

\* The recursion of Halving, and a solution of it.
HalvingStep(g, n, first, high, goal) ==
  IF n > high THEN <<>>
  ELSE (IF n < first THEN <<>> ELSE <<n>>) \o g[n + (goal - n + 2) \div 2]

IsHalving(g, first, high, goal) == g = [n \in Nat |-> HalvingStep(g, n, first, high, goal)]

(***************************************************************************)
(* Each step goes up, so the recursion has a solution, made from the top.  *)
(***************************************************************************)
LEMMA HalvingExists ==
  ASSUME NEW first \in Nat, NEW high \in Nat, NEW goal \in Nat, goal >= high
  PROVE  \E g : IsHalving(g, first, high, goal)
<1> DEFINE Solves(g, k) == \A n \in Nat : n + k > high => g[n] = HalvingStep(g, n, first, high, goal)
           Good == {k \in Nat : \E g \in [Nat -> Seq(Nat)] : Solves(g, k)}
<1>1. 0 \in Good
  <2>1. [n \in Nat |-> <<>>] \in [Nat -> Seq(Nat)]
    BY EmptySeq
  <2>2. Solves([n \in Nat |-> <<>>], 0)
    BY DEF HalvingStep
  <2> QED BY <2>1, <2>2
<1>2. ASSUME NEW k \in 1 .. high + 1, k - 1 \in Good PROVE k \in Good
  <2>1. PICK g \in [Nat -> Seq(Nat)] : Solves(g, k - 1)
    BY <1>2
  <2> DEFINE top == high + 1 - k
             h == [g EXCEPT ![top] = HalvingStep(g, top, first, high, goal)]
  <2>2. top \in Nat /\ top + (goal - top + 2) \div 2 \in Nat
    OBVIOUS
  <2>3. \A n \in Nat : n <= high => /\ n + (goal - n + 2) \div 2 \in Nat
                                    /\ n + (goal - n + 2) \div 2 > n
    OBVIOUS
  <2>4. HalvingStep(g, top, first, high, goal) \in Seq(Nat)
    <3>1. g[top + (goal - top + 2) \div 2] \in Seq(Nat)
      BY <2>2
    <3>2. <<top>> \in Seq(Nat) /\ <<>> \in Seq(Nat)
      BY <2>2, EmptySeq
    <3> HIDE DEF top
    <3> QED BY <3>1, <3>2, ConcatProperties DEF HalvingStep
  <2>5. h \in [Nat -> Seq(Nat)]
    <3> HIDE DEF top
    <3> QED BY <2>2, <2>4
  <2>6. ASSUME NEW n \in Nat, n + k > high PROVE h[n] = HalvingStep(h, n, first, high, goal)
    <3>1. n >= top
      BY <2>6
    <3>2. n <= high => h[n + (goal - n + 2) \div 2] = g[n + (goal - n + 2) \div 2]
      <4>1. n <= high => n + (goal - n + 2) \div 2 # top
        BY <2>3, <3>1, <2>2
      <4> HIDE DEF top
      <4> QED BY <4>1, <2>3
    <3>3. HalvingStep(h, n, first, high, goal) = HalvingStep(g, n, first, high, goal)
      <4> HIDE DEF h, top
      <4> QED BY <3>2 DEF HalvingStep
    <3>4. CASE n = top
      <4> HIDE DEF top
      <4> QED BY <2>2, <3>3, <3>4
    <3>5. CASE n # top
      <4>1. n + (k - 1) > high
        BY <3>1, <3>5
      <4>2. g[n] = HalvingStep(g, n, first, high, goal)
        BY <2>1, <4>1
      <4> HIDE DEF top
      <4> QED BY <3>3, <3>5, <4>2
    <3> QED BY <3>4, <3>5
  <2>7. Solves(h, k)
    BY <2>6
  <2> HIDE DEF h, Solves
  <2> QED BY <2>5, <2>7
<1>3. high + 1 \in Good
  <2> HIDE DEF Good
  <2> QED BY <1>1, <1>2, PrefixInduction
<1>4. PICK g \in [Nat -> Seq(Nat)] : Solves(g, high + 1)
  BY <1>3
<1>5. \A n \in Nat : g[n] = HalvingStep(g, n, first, high, goal)
  BY <1>4
<1>6. g = [n \in Nat |-> HalvingStep(g, n, first, high, goal)]
  <2>1. g = [n \in Nat |-> g[n]]
    BY <1>4
  <2> QED BY <1>5, <2>1
<1> QED BY <1>6 DEF IsHalving

(***************************************************************************)
(* The heights of a synopsis are between its bounds; where the goal is the *)
(* upper one there is at least one.                                        *)
(***************************************************************************)
LEMMA HalvingBounds ==
  ASSUME NEW low \in Nat, NEW first \in Nat, NEW high \in Nat, NEW goal \in Nat, goal >= high
  PROVE  LET h == Halving(low, first, high, goal)
         IN  /\ h \in Seq(Nat)
             /\ \A i \in 1 .. Len(h) : first <= h[i] /\ h[i] <= high
             /\ goal = high /\ low <= high /\ first <= high => h # <<>>
<1>1. \E g : g = [n \in Nat |-> IF n > high THEN <<>>
                                ELSE (IF n < first THEN <<>> ELSE <<n>>) \o g[n + (goal - n + 2) \div 2]]
  BY HalvingExists DEF IsHalving, HalvingStep
<1>2. PICK g : /\ IsHalving(g, first, high, goal)
               /\ Halving(low, first, high, goal) = g[low]
  BY <1>1 DEF Halving, IsHalving, HalvingStep
<1>3. \A n \in Nat : g[n] = HalvingStep(g, n, first, high, goal)
  <2>1. \A f : IsHalving(f, first, high, goal) => \A n \in Nat : f[n] = HalvingStep(f, n, first, high, goal)
    BY DEF IsHalving
  <2> QED BY <1>2, <2>1
<1> DEFINE Fits(s) == /\ s \in Seq(Nat)
                      /\ \A i \in 1 .. Len(s) : first <= s[i] /\ s[i] <= high
           Good == {k \in Nat : \A n \in Nat : n + k > high =>
                      /\ Fits(g[n])
                      /\ goal = high /\ n <= high /\ first <= high => g[n] # <<>>}
<1>4. Fits(<<>>)
  BY EmptySeq
<1>5. 0 \in Good
  <2>1. \A n \in Nat : n > high => g[n] = <<>>
    BY <1>3 DEF HalvingStep
  <2> HIDE DEF Fits
  <2> QED BY <1>4, <2>1
<1>6. ASSUME NEW k \in 1 .. high + 1, k - 1 \in Good PROVE k \in Good
  <2> SUFFICES ASSUME NEW n \in Nat, n + k > high
               PROVE  /\ Fits(g[n])
                      /\ goal = high /\ n <= high /\ first <= high => g[n] # <<>>
    OBVIOUS
  <2>1. CASE n > high
    <3>1. g[n] = <<>>
      BY <1>3, <2>1 DEF HalvingStep
    <3> HIDE DEF Fits
    <3> QED BY <1>4, <2>1, <3>1
  <2>2. CASE n <= high
    <3> DEFINE m == n + (goal - n + 2) \div 2
               a == IF n < first THEN <<>> ELSE <<n>>
    <3>1. m \in Nat /\ m > n /\ m + (k - 1) > high /\ (goal = high /\ n < high => m <= high)
      BY <2>2
    <3>2. Fits(g[m]) /\ (goal = high /\ m <= high /\ first <= high => g[m] # <<>>)
      BY <1>6, <3>1
    <3>3. g[n] = a \o g[m]
      <4>1. g[n] = HalvingStep(g, n, first, high, goal) /\ ~(n > high)
        BY <1>3, <2>2
      <4> QED BY <4>1, Zenon DEF HalvingStep
    <3>4. Fits(a) /\ (n >= first => Len(a) = 1)
      <4>1. <<n>> \in Seq(Nat) /\ Len(<<n>>) = 1 /\ <<n>>[1] = n
        OBVIOUS
      <4> QED BY <1>4, <2>2, <4>1
    <3> HIDE DEF a, m
    <3>5. /\ a \o g[m] \in Seq(Nat) /\ Len(a \o g[m]) = Len(a) + Len(g[m])
          /\ \A i \in 1 .. Len(a) + Len(g[m]) :
               (a \o g[m])[i] = IF i <= Len(a) THEN a[i] ELSE g[m][i - Len(a)]
          /\ Len(a) \in Nat /\ Len(g[m]) \in Nat
      BY <3>2, <3>4, ConcatProperties, LenProperties
    <3>6. ASSUME NEW i \in 1 .. Len(g[n]) PROVE first <= g[n][i] /\ g[n][i] <= high
      <4>1. CASE i <= Len(a)
        <5>1. i \in 1 .. Len(a) /\ g[n][i] = a[i]
          BY <3>3, <3>5, <4>1
        <5> QED BY <3>4, <5>1
      <4>2. CASE ~(i <= Len(a))
        <5>1. i - Len(a) \in 1 .. Len(g[m]) /\ g[n][i] = g[m][i - Len(a)]
          BY <3>3, <3>5, <4>2
        <5> QED BY <3>2, <5>1
      <4> QED BY <4>1, <4>2
    <3>7. ASSUME goal = high, first <= high PROVE g[n] # <<>>
      <4>1. Len(a) + Len(g[m]) # 0
        <5>1. CASE n = high
          <6>1. Len(a) = 1
            BY <3>4, <3>7, <5>1
          <6> QED BY <3>5, <6>1
        <5>2. CASE n # high
          <6>1. g[m] # <<>>
            BY <2>2, <3>1, <3>2, <3>7, <5>2
          <6>2. Len(g[m]) # 0
            BY <3>2, <6>1, EmptySeq
          <6> QED BY <3>5, <6>2
        <5> QED BY <5>1, <5>2
      <4> QED BY <3>3, <3>5, <4>1, EmptySeq
    <3> QED BY <3>3, <3>5, <3>6, <3>7
  <2> QED BY <2>1, <2>2
<1>7. high + 1 \in Good
  <2> HIDE DEF Good
  <2> QED BY <1>5, <1>6, PrefixInduction
<1>8. low + (high + 1) > high
  OBVIOUS
<1> HIDE DEF Fits
<1>9. Fits(g[low]) /\ (goal = high /\ low <= high /\ first <= high => g[low] # <<>>)
  BY <1>7, <1>8
<1> QED BY <1>2, <1>9 DEF Fits

\* The recursion of Among.
AmongStep(g, n, list, bs) ==
  IF n = 0 THEN <<>> ELSE IF list[n] \in bs THEN Append(g[n - 1], list[n]) ELSE g[n - 1]

(***************************************************************************)
(* A peer sends blocks that it was asked for, each of them once if its     *)
(* list names each of them once.                                           *)
(***************************************************************************)
LEMMA AmongIsPart ==
  ASSUME NEW S, NEW list \in Seq(S), NEW bs
  PROVE  LET u == Among(list, bs)
         IN  /\ u \in Seq(S)
             /\ \A i \in 1 .. Len(u) : u[i] \in bs
             /\ (\A i, j \in 1 .. Len(list) : i # j => list[i] # list[j])
                  => \A i, j \in 1 .. Len(u) : i # j => u[i] # u[j]
<1> DEFINE L == Len(list)
<1>1. L \in Nat /\ \A i \in 1 .. L : list[i] \in S
  BY ElementOfSeq, LenProperties
<1> HIDE DEF L
<1> DEFINE Solves(g, k) == \A n \in 0 .. k : g[n] = AmongStep(g, n, list, bs)
           Good == {k \in Nat : \E g \in [0 .. L -> Seq(S)] : Solves(g, k)}
<1>2. 0 \in Good
  <2>1. [n \in 0 .. L |-> <<>>] \in [0 .. L -> Seq(S)] /\ 0 \in 0 .. L
    BY <1>1, EmptySeq
  <2>2. Solves([n \in 0 .. L |-> <<>>], 0)
    BY <2>1 DEF AmongStep
  <2> HIDE DEF Solves
  <2> QED BY <2>1, <2>2
<1>3. ASSUME NEW k \in 1 .. L, k - 1 \in Good PROVE k \in Good
  <2>1. PICK g \in [0 .. L -> Seq(S)] : Solves(g, k - 1)
    BY <1>3
  <2> DEFINE h == [g EXCEPT ![k] = AmongStep(g, k, list, bs)]
  <2>2. AmongStep(g, k, list, bs) \in Seq(S)
    <3>1. k - 1 \in 0 .. L /\ k # 0
      BY <1>1
    <3>2. g[k - 1] \in Seq(S) /\ list[k] \in S
      BY <1>1, <3>1
    <3>3. Append(g[k - 1], list[k]) \in Seq(S)
      BY <3>2, AppendProperties
    <3> QED BY <3>1, <3>2, <3>3 DEF AmongStep
  <2>3. h \in [0 .. L -> Seq(S)]
    BY <2>2
  <2>4. ASSUME NEW n \in 0 .. k PROVE h[n] = AmongStep(h, n, list, bs)
    <3>1. n # 0 => h[n - 1] = g[n - 1]
      <4>1. n # 0 => n - 1 \in 0 .. L /\ n - 1 # k
        BY <1>1
      <4> QED BY <4>1
    <3>2. AmongStep(h, n, list, bs) = AmongStep(g, n, list, bs)
      <4> HIDE DEF h
      <4> QED BY <3>1 DEF AmongStep
    <3>3. n \in 0 .. L /\ k \in 0 .. L
      BY <1>1
    <3>4. CASE n = k
      BY <3>2, <3>3, <3>4
    <3>5. CASE n # k
      <4>1. n \in 0 .. k - 1
        BY <1>1, <3>5
      <4>2. g[n] = AmongStep(g, n, list, bs)
        BY <2>1, <4>1
      <4> QED BY <3>2, <3>3, <3>5, <4>2
    <3> QED BY <3>4, <3>5
  <2>5. Solves(h, k)
    BY <2>4
  <2> HIDE DEF h, Solves
  <2> QED BY <2>3, <2>5
<1>4. L \in Good
  <2> HIDE DEF Good
  <2>1. \A n \in 1 .. L : n - 1 \in Good => n \in Good
    BY <1>3
  <2>2. \A n \in 0 .. L : n \in Good
    BY <1>1, <1>2, <2>1, PrefixInduction
  <2> QED BY <1>1, <2>2
<1>5. PICK f \in [0 .. L -> Seq(S)] : Solves(f, L)
  BY <1>4
<1>6. f = [n \in 0 .. L |-> AmongStep(f, n, list, bs)]
  <2>1. f = [n \in 0 .. L |-> f[n]]
    BY <1>5
  <2> QED BY <1>5, <2>1
<1>7. PICK g : /\ g = [n \in 0 .. L |-> AmongStep(g, n, list, bs)]
               /\ Among(list, bs) = g[L]
  <2>1. \E g : g = [n \in 0 .. Len(list) |-> IF n = 0 THEN <<>> ELSE IF list[n] \in bs
                                   THEN Append(g[n - 1], list[n]) ELSE g[n - 1]]
    BY <1>6 DEF AmongStep, L
  <2> QED BY <2>1, Zenon DEF Among, AmongStep, L
<1>8. \A n \in 0 .. L : g[n] = AmongStep(g, n, list, bs)
  BY <1>7
<1> DEFINE Fits(s, n) == /\ s \in Seq(S)
                         /\ \A i \in 1 .. Len(s) : s[i] \in bs /\ \E j \in 1 .. n : s[i] = list[j]
                         /\ (\A i, j \in 1 .. L : i # j => list[i] # list[j])
                               => \A i, j \in 1 .. Len(s) : i # j => s[i] # s[j]
           Right == {n \in Nat : Fits(g[n], n)}
<1>9. 0 \in Right
  <2>1. g[0] = <<>>
    BY <1>1, <1>8 DEF AmongStep
  <2>2. Fits(<<>>, 0)
    BY EmptySeq
  <2> HIDE DEF Fits
  <2> QED BY <2>1, <2>2
<1>10. ASSUME NEW n \in 1 .. L, n - 1 \in Right PROVE n \in Right
  <2> DEFINE s == g[n - 1]
  <2>1. Fits(s, n - 1)
    BY <1>10
  <2>2. n \in Nat /\ n # 0 /\ g[n] = IF list[n] \in bs THEN Append(s, list[n]) ELSE s
    BY <1>1, <1>8 DEF AmongStep
  <2> HIDE DEF s
  <2>3. \A j \in 1 .. n - 1 : j \in 1 .. n
    BY <2>2
  <2>4. CASE list[n] \notin bs
    <3>1. Fits(s, n)
      BY <2>1, <2>3
    <3> HIDE DEF Fits
    <3> QED BY <2>2, <2>4, <3>1
  <2>5. CASE list[n] \in bs
    <3> DEFINE t == Append(s, list[n])
    <3>1. /\ t \in Seq(S) /\ Len(t) = Len(s) + 1 /\ t[Len(s) + 1] = list[n] /\ Len(s) \in Nat
          /\ \A i \in 1 .. Len(s) : t[i] = s[i]
      BY <1>1, <2>1, AppendProperties, LenProperties
    <3> HIDE DEF t
    <3>2. ASSUME NEW i \in 1 .. Len(t) PROVE t[i] \in bs /\ \E j \in 1 .. n : t[i] = list[j]
      <4>1. CASE i = Len(t)
        <5>1. t[i] = list[n] /\ n \in 1 .. n
          BY <2>2, <3>1, <4>1
        <5> QED BY <2>5, <5>1
      <4>2. CASE i # Len(t)
        <5>1. i \in 1 .. Len(s) /\ t[i] = s[i]
          BY <3>1, <4>2
        <5> QED BY <2>1, <2>3, <5>1
      <4> QED BY <4>1, <4>2
    <3>3. ASSUME \A i, j \in 1 .. L : i # j => list[i] # list[j],
                 NEW i \in 1 .. Len(t), NEW j \in 1 .. Len(t), i < j
          PROVE  t[i] # t[j]
      <4>1. i \in 1 .. Len(s) /\ t[i] = s[i]
        BY <3>1, <3>3
      <4>2. CASE j = Len(t)
        <5>1. PICK m \in 1 .. n - 1 : s[i] = list[m]
          BY <2>1, <4>1
        <5>2. m # n /\ m \in 1 .. L /\ n \in 1 .. L
          BY <1>1, <2>2
        <5>3. list[m] # list[n]
          BY <3>3, <5>2
        <5> QED BY <3>1, <4>1, <4>2, <5>1, <5>3
      <4>3. CASE j # Len(t)
        <5>1. j \in 1 .. Len(s) /\ t[j] = s[j] /\ i # j
          BY <3>1, <3>3, <4>3
        <5> QED BY <2>1, <3>3, <4>1, <5>1
      <4> QED BY <4>2, <4>3
    <3>4. ASSUME \A i, j \in 1 .. L : i # j => list[i] # list[j],
                 NEW i \in 1 .. Len(t), NEW j \in 1 .. Len(t), i # j
          PROVE  t[i] # t[j]
      <4>1. i < j \/ j < i
        BY <3>1, <3>4
      <4> QED BY <3>3, <3>4, <4>1
    <3>5. Fits(t, n)
      BY <3>1, <3>2, <3>4
    <3> HIDE DEF Fits
    <3> QED BY <2>2, <2>5, <3>5 DEF t
  <2> QED BY <2>4, <2>5
<1>11. L \in Right
  <2> HIDE DEF Right
  <2>1. \A n \in 1 .. L : n - 1 \in Right => n \in Right
    BY <1>10
  <2>2. \A n \in 0 .. L : n \in Right
    BY <1>1, <1>9, <2>1, PrefixInduction
  <2> QED BY <1>1, <2>2
<1>12. Fits(g[L], L)
  BY <1>11
<1> QED BY <1>7, <1>12 DEF L

----------------------------------------------------------------------------
(* Requests. *)

IsPeer(r) == DOMAIN r = DOMAIN Gone

\* The inductive invariant of the requests for blocks in synchronisation.
RequestsInv ==
  /\ DOMAIN peer = Peers
  /\ \A p \in Peers : IsPeer(peer[p])
  /\ \A p \in Peers : peer[p].sync_asked \subseteq active
  /\ \A p \in Peers : peer[p].conn = "none" => peer[p].sync_asked = {}
  /\ AskedOnce
  /\ \A b \in active \ missing : \E p \in Peers : b \in peer[p].sync_asked

\* What a handler leaves of a peer's record: what it was asked for.
SameRequests(r, s) ==
  /\ IsPeer(s)
  /\ s.sync_asked = r.sync_asked
  /\ s.conn = "none" => r.conn = "none"

(***************************************************************************)
(* A record is the same as itself.                                         *)
(***************************************************************************)
LEMMA SameAsBefore == ASSUME NEW r, IsPeer(r) PROVE SameRequests(r, r)
BY DEF SameRequests

(***************************************************************************)
(* To ask for ids or to start again is not to ask for blocks, to send or   *)
(* to disconnect is not either.                                            *)
(***************************************************************************)
LEMMA IdsKeepRequests ==
  ASSUME NEW r, NEW s, SameRequests(r, s)
  PROVE  /\ \A msgs : SameRequests(r, Sent(s, msgs))
         /\ \A h, t : SameRequests(r, FetchIds(h, t, s))
         /\ \A h, t : SameRequests(r, StartSync(h, t, s))
         /\ SameRequests(r, Closing(s))
<1>1. ASSUME NEW u, SameRequests(r, u) PROVE \A msgs : SameRequests(r, Sent(u, msgs))
  BY <1>1 DEF SameRequests, Sent, IsPeer, Gone
<1>2. ASSUME NEW u, SameRequests(r, u) PROVE \A h, t : SameRequests(r, FetchIds(h, t, u))
  <2> SUFFICES ASSUME NEW h, NEW t PROVE SameRequests(r, FetchIds(h, t, u))
    OBVIOUS
  <2> DEFINE v == [u EXCEPT !.asked_ids = <<Synopsis(h, u)>>, !.overtaken = @ \/ u.asked_ids # <<>>]
             m == <<AnswerIds(t, Synopsis(h, u))>>
  <2>1. SameRequests(r, v)
    BY <1>2 DEF SameRequests, IsPeer, Gone
  <2>2. SameRequests(r, Sent(v, m))
    <3> HIDE DEF v, m
    <3> QED BY <1>1, <2>1
  <2> DEFINE w == Sent(v, m)
  <2>3. \A x : SameRequests(r, [w EXCEPT !.behind = x])
    <3> HIDE DEF w
    <3>1. SameRequests(r, w)
      BY <2>2 DEF w
    <3> QED BY <3>1 DEF SameRequests, IsPeer, Gone
  <2>4. \E x : FetchIds(h, t, u) = [w EXCEPT !.behind = x]
    BY DEF FetchIds
  <2> HIDE DEF w
  <2> QED BY <2>3, <2>4
<1>3. \A h, t : SameRequests(r, StartSync(h, t, s))
  <2> DEFINE u == [s EXCEPT !.to_get = <<>>, !.unfetched = 0, !.need = TRUE,
                            !.last_seen = NoBlock, !.inhibit = FALSE]
  <2>1. SameRequests(r, u)
    BY DEF SameRequests, IsPeer, Gone
  <2>2. \A h, t : SameRequests(r, FetchIds(h, t, u))
    <3> HIDE DEF u
    <3> QED BY <1>2, <2>1
  <2> QED BY <2>2 DEF StartSync
<1>4. SameRequests(r, Closing(s))
  BY DEF SameRequests, IsPeer, Gone, Closing
<1> QED BY <1>1, <1>2, <1>3, <1>4

(***************************************************************************)
(* A step that changes nothing of what peers were asked for.               *)
(***************************************************************************)
LEMMA RequestsStay ==
  ASSUME RequestsInv, DOMAIN peer' = Peers,
         \A p \in Peers : SameRequests(peer[p], peer'[p]),
         active' = active, missing \subseteq missing'
  PROVE  RequestsInv'
<1>1. \A p \in Peers : /\ IsPeer(peer[p])' /\ peer'[p].sync_asked = peer[p].sync_asked
                       /\ peer'[p].conn = "none" => peer[p].conn = "none"
  BY DEF SameRequests, IsPeer, Gone
<1> QED BY <1>1 DEF RequestsInv, AskedOnce

(***************************************************************************)
(* The same, of one peer.                                                  *)
(***************************************************************************)
LEMMA OnePeerChanges ==
  ASSUME RequestsInv, NEW p \in Peers, NEW r, SameRequests(peer[p], r),
         peer' = [peer EXCEPT ![p] = r], active' = active, missing \subseteq missing'
  PROVE  RequestsInv'
<1>1. DOMAIN peer' = Peers /\ \A q \in Peers : peer'[q] = IF q = p THEN r ELSE peer[q]
  BY DEF RequestsInv
<1>2. \A q \in Peers : SameRequests(peer[q], peer'[q])
  BY <1>1, SameAsBefore DEF RequestsInv
<1> QED BY <1>1, <1>2, RequestsStay

(***************************************************************************)
(* Fields that have nothing to do with these requests.                     *)
(***************************************************************************)
LEMMA OtherFields ==
  ASSUME NEW r, NEW s, SameRequests(r, s), NEW x
  PROVE  /\ SameRequests(r, [s EXCEPT !.to_get = x])
         /\ SameRequests(r, [s EXCEPT !.processing = x])
         /\ SameRequests(r, [s EXCEPT !.unfetched = x])
         /\ SameRequests(r, [s EXCEPT !.asked_ids = x])
         /\ SameRequests(r, [s EXCEPT !.asked = x])
         /\ SameRequests(r, [s EXCEPT !.offered = x])
         /\ SameRequests(r, [s EXCEPT !.last_seen = x])
         /\ SameRequests(r, [s EXCEPT !.need = x])
         /\ SameRequests(r, [s EXCEPT !.they_need = x])
         /\ SameRequests(r, [s EXCEPT !.inbox = x])
         /\ SameRequests(r, [s EXCEPT !.silent = x])
         /\ SameRequests(r, [s EXCEPT !.behind = x])
         /\ SameRequests(r, [s EXCEPT !.inhibit = x])
BY DEF SameRequests, IsPeer, Gone

(***************************************************************************)
(* A new connection was asked for nothing yet.                             *)
(***************************************************************************)
LEMMA ConnectStep ==
  ASSUME RequestsInv, NEW p \in Peers, Connect(p)
  PROVE  RequestsInv'
<1> DEFINE r == [Gone EXCEPT !.conn = "active"]
<1>1. SameRequests(peer[p], r)
  BY DEF Connect, RequestsInv, SameRequests, IsPeer, Gone
<1>2. SameRequests(peer[p], StartSync(head, tip[p], r))
  <2> HIDE DEF r
  <2> QED BY <1>1, IdsKeepRequests
<1> QED BY <1>2, OnePeerChanges DEF Connect, history

(***************************************************************************)
(* When a connection closes, its requests are over, and no other peer has  *)
(* one of them.                                                            *)
(***************************************************************************)
LEMMA ClosedStep ==
  ASSUME RequestsInv, NEW p \in Peers, Closed(p)
  PROVE  RequestsInv'
<1>1. /\ DOMAIN peer' = Peers
      /\ \A q \in Peers : peer'[q] = IF q = p THEN Gone ELSE peer[q]
      /\ active' = active \ peer[p].sync_asked /\ missing' = missing
  BY DEF Closed, RequestsInv, Forgotten
<1>2. IsPeer(Gone) /\ Gone.sync_asked = {} /\ Gone.conn = "none"
  BY DEF IsPeer, Gone
<1>3. \A q \in Peers : q # p => peer[q].sync_asked \cap peer[p].sync_asked = {}
  BY DEF RequestsInv, AskedOnce
<1> QED BY <1>1, <1>2, <1>3 DEF RequestsInv, AskedOnce, IsPeer

(***************************************************************************)
(* The loop of the items asks peers for other items.                       *)
(***************************************************************************)
LEMMA FetchItemsStep == ASSUME RequestsInv, FetchItems PROVE RequestsInv'
<1>1. /\ active' = active /\ missing' = missing /\ DOMAIN peer' = Peers
      /\ \A p \in Peers : \E bs, msgs :
            peer'[p] = Sent([peer[p] EXCEPT !.asked = @ \cup bs], msgs)
  BY DEF FetchItems, history
<1>2. ASSUME NEW p \in Peers PROVE SameRequests(peer[p], peer'[p])
  <2>1. PICK bs, msgs : peer'[p] = Sent([peer[p] EXCEPT !.asked = @ \cup bs], msgs)
    BY <1>1
  <2> DEFINE r == [peer[p] EXCEPT !.asked = @ \cup bs]
  <2>2. SameRequests(peer[p], r)
    BY SameAsBefore, OtherFields DEF RequestsInv
  <2> HIDE DEF r
  <2>3. SameRequests(peer[p], Sent(r, msgs))
    BY <2>2, IdsKeepRequests
  <2> QED BY <2>1, <2>3 DEF r
<1> QED BY <1>1, <1>2, RequestsStay

(***************************************************************************)
(* Neither does what is handed to the chain, nor what the chain says.      *)
(***************************************************************************)
LEMMA BacklogStep == ASSUME RequestsInv, ProcessBacklog PROVE RequestsInv'
<1>1. active' = active /\ missing' = missing
  BY DEF ProcessBacklog, LeaveBacklog, ProcessBlock, EndBacklog, history
<1>2. peer' = peer \/ \E b : peer' = Taken(b)
  BY DEF ProcessBacklog, LeaveBacklog, ProcessBlock, EndBacklog
<1>3. CASE peer' = peer
  BY <1>1, <1>3, SameAsBefore, RequestsStay DEF RequestsInv
<1>4. ASSUME NEW b, peer' = Taken(b) PROVE RequestsInv'
  <2>1. ASSUME NEW p \in Peers PROVE SameRequests(peer[p], peer'[p])
    <3> DEFINE r == [peer[p] EXCEPT !.to_get = Tail(@), !.processing = @ \cup {b}]
    <3>1. SameRequests(peer[p], r)
      BY DEF RequestsInv, SameRequests, IsPeer, Gone
    <3>2. peer'[p] = r \/ peer'[p] = peer[p]
      BY <1>4 DEF Taken
    <3> HIDE DEF r
    <3> QED BY <3>1, <3>2, SameAsBefore DEF RequestsInv
  <2>2. DOMAIN peer' = Peers
    BY <1>4 DEF Taken
  <2> QED BY <1>1, <2>1, <2>2, RequestsStay
<1> QED BY <1>2, <1>3, <1>4

(***************************************************************************)
(* A peer is asked for more ids when its last block was accepted.          *)
(***************************************************************************)
LEMMA AcceptKeepsRequests ==
  ASSUME NEW r, NEW p, NEW b, NEW g, IsPeer(r)
  PROVE  SameRequests(r, AfterAccept(g, p, r, b))
<1>1. SameRequests(r, r)
  BY SameAsBefore
<1> DEFINE left == [r EXCEPT !.last_seen = b, !.processing = @ \ {b}]
<1>2. SameRequests(r, left)
  BY <1>1 DEF SameRequests, IsPeer, Gone
<1>3. AfterAccept(g, p, r, b) \in {r, left, StartSync(g, tip[p], r), FetchIds(g, tip[p], left)}
  BY DEF AfterAccept
<1> HIDE DEF left
<1> QED BY <1>1, <1>2, <1>3, IdsKeepRequests

(***************************************************************************)
(* So the answer of the chain asks no peer for blocks.                     *)
(***************************************************************************)
LEMMA HandleStep == ASSUME RequestsInv, HandleSyncBlock PROVE RequestsInv'
<1>1. active' = active /\ missing' = missing /\ DOMAIN peer' = Peers
  BY DEF HandleSyncBlock
<1>2. ASSUME NEW p \in Peers PROVE SameRequests(peer[p], peer'[p])
  <2>1. \E b, g : peer'[p] \in {peer[p], AfterAccept(g, p, peer[p], b), Closing(peer[p])}
    BY DEF HandleSyncBlock
  <2>2. IsPeer(peer[p])
    BY DEF RequestsInv
  <2> QED BY <2>1, <2>2, SameAsBefore, AcceptKeepsRequests, IdsKeepRequests
<1> QED BY <1>1, <1>2, RequestsStay

----------------------------------------------------------------------------
(* Messages. *)

(***************************************************************************)
(* What is read from the inbox.                                            *)
(***************************************************************************)
LEMMA ReceivedKeeps ==
  ASSUME NEW p \in Peers, IsPeer(peer[p])
  PROVE  SameRequests(peer[p], Received(p))
BY SameAsBefore, OtherFields DEF Received

(***************************************************************************)
(* A list of ids, taken, ignored or rejected.                              *)
(***************************************************************************)
LEMMA IdsStep ==
  ASSUME RequestsInv, NEW p \in Peers, IgnoreIds(p) \/ RejectIds(p) \/ ReceiveIds(p)
  PROVE  RequestsInv'
<1>1. SameRequests(peer[p], Received(p))
  BY ReceivedKeeps DEF RequestsInv
<1>2. CASE IgnoreIds(p)
  BY <1>1, <1>2, OnePeerChanges DEF IgnoreIds, history
<1>3. CASE RejectIds(p)
  <2>1. SameRequests(peer[p], Closing(Received(p)))
    BY <1>1, IdsKeepRequests
  <2> QED BY <1>3, <2>1, OnePeerChanges DEF RejectIds
<1>4. CASE ReceiveIds(p)
  <2> DEFINE m == peer[p].inbox[1]
             r == [Received(p) EXCEPT !.asked_ids = <<>>]
             e == Extended(p, r, m.list)
             x == [e EXCEPT !.unfetched = m.remaining]
  <2>1. SameRequests(peer[p], r)
    BY <1>1, OtherFields
  <2>2. SameRequests(peer[p], e)
    <3>1. \A list : \E g, l : Extended(p, r, list) \in
             {r, [r EXCEPT !.to_get = g], [[r EXCEPT !.to_get = g] EXCEPT !.last_seen = l]}
      <4> HIDE DEF r
      <4> QED BY DEF Extended
    <3>2. \A g : SameRequests(peer[p], [r EXCEPT !.to_get = g])
      <4> HIDE DEF r
      <4> QED BY <2>1, OtherFields
    <3>3. \A g, l : SameRequests(peer[p], [[r EXCEPT !.to_get = g] EXCEPT !.last_seen = l])
      <4> HIDE DEF r
      <4> QED BY <3>2, OtherFields
    <3> HIDE DEF r
    <3>4. ASSUME NEW list PROVE SameRequests(peer[p], Extended(p, r, list))
      <4>1. PICK g, l : Extended(p, r, list) \in
               {r, [r EXCEPT !.to_get = g], [[r EXCEPT !.to_get = g] EXCEPT !.last_seen = l]}
        BY <3>1
      <4>2. SameRequests(peer[p], [r EXCEPT !.to_get = g])
        BY <3>2, Zenon
      <4>3. SameRequests(peer[p], [[r EXCEPT !.to_get = g] EXCEPT !.last_seen = l])
        BY <3>3, Zenon
      <4>4. \A u \in {r, [r EXCEPT !.to_get = g], [[r EXCEPT !.to_get = g] EXCEPT !.last_seen = l]} :
              SameRequests(peer[p], u)
        BY ONLY <2>1, <4>2, <4>3, Zenon
      <4> QED BY ONLY <4>1, <4>4, Zenon
    <3> QED BY <3>4
  <2>3. SameRequests(peer[p], x)
    <3> HIDE DEF e
    <3> QED BY <2>2, OtherFields
  <2>4. SameRequests(peer[p], FetchIds(head, tip[p], x)) /\ SameRequests(peer[p], [r EXCEPT !.need = FALSE])
    <3>1. SameRequests(peer[p], FetchIds(head, tip[p], x))
      <4> HIDE DEF x
      <4> QED BY <2>3, IdsKeepRequests
    <3>2. SameRequests(peer[p], [r EXCEPT !.need = FALSE])
      <4> HIDE DEF r
      <4> QED BY <2>1, OtherFields
    <3> QED BY <3>1, <3>2
  <2>5. \E s \in {[r EXCEPT !.need = FALSE], x, FetchIds(head, tip[p], x)} : peer' = [peer EXCEPT ![p] = s]
    BY <1>4 DEF ReceiveIds
  <2>6. active' = active /\ missing' = missing
    BY <1>4 DEF ReceiveIds, history
  <2>7. PICK s : SameRequests(peer[p], s) /\ peer' = [peer EXCEPT ![p] = s]
    <3> HIDE DEF x, r
    <3> QED BY <2>3, <2>4, <2>5
  <2> QED BY <2>6, <2>7, OnePeerChanges
<1> QED BY <1>2, <1>3, <1>4

(***************************************************************************)
(* The block that was asked for arrives: no other peer was asked for it,   *)
(* so it leaves the active requests with the only one there is.            *)
(***************************************************************************)
LEMMA SyncBlockStep ==
  ASSUME RequestsInv, NEW p \in Peers, ReceiveSyncBlock(p)
  PROVE  RequestsInv'
<1> DEFINE b == peer[p].inbox[1].id
           r == [Received(p) EXCEPT !.sync_asked = @ \ {b}]
<1>1. b \in peer[p].sync_asked /\ active' = active \ {b} /\ missing' = missing
  BY DEF ReceiveSyncBlock, history
<1>2. IsPeer(r) /\ r.sync_asked = peer[p].sync_asked \ {b} /\ r.conn = peer[p].conn
  BY DEF RequestsInv, IsPeer, Gone, Received
<1>3. SameRequests(r, FetchIds(head, tip[p], r)) /\ SameRequests(r, r)
  <2> HIDE DEF r
  <2> QED BY <1>2, SameAsBefore, IdsKeepRequests
<1>4. \E s \in {r, FetchIds(head, tip[p], r)} : peer' = [peer EXCEPT ![p] = s]
  BY DEF ReceiveSyncBlock
<1> HIDE DEF r, b
<1>5. PICK s : SameRequests(r, s) /\ peer' = [peer EXCEPT ![p] = s]
  BY <1>3, <1>4
<1>6. /\ IsPeer(s) /\ s.sync_asked = peer[p].sync_asked \ {b}
      /\ s.conn = "none" => peer[p].conn = "none"
  BY <1>2, <1>5 DEF SameRequests
<1>7. DOMAIN peer' = Peers /\ \A q \in Peers : peer'[q] = IF q = p THEN s ELSE peer[q]
  BY <1>5 DEF RequestsInv
<1>8. \A q \in Peers : q # p => b \notin peer[q].sync_asked
  BY <1>1 DEF RequestsInv, AskedOnce
<1> QED BY <1>1, <1>6, <1>7, <1>8 DEF RequestsInv, AskedOnce, IsPeer

(***************************************************************************)
(* A block that a peer does not have stays among the active requests.      *)
(***************************************************************************)
LEMMA NotAvailableStep ==
  ASSUME RequestsInv, NEW p \in Peers, NotAvailable(p)
  PROVE  RequestsInv'
<1> DEFINE b == peer[p].inbox[1].id
           r == [Received(p) EXCEPT !.asked = @ \ {b},
                                    !.offered = IF b \in peer[p].asked THEN @ \ {b} ELSE @,
                                    !.sync_asked = IF b \in peer[p].asked THEN @ ELSE @ \ {b}]
<1>1. active' = active
  BY DEF NotAvailable
<1>2. /\ IsPeer(r) /\ r.conn = peer[p].conn
      /\ r.sync_asked = IF b \in peer[p].asked THEN peer[p].sync_asked ELSE peer[p].sync_asked \ {b}
  BY DEF RequestsInv, IsPeer, Gone, Received
<1>3. CASE b \in peer[p].asked
  <2>1. SameRequests(peer[p], r)
    <3> HIDE DEF r
    <3> QED BY <1>2, <1>3 DEF SameRequests
  <2>2. peer' = [peer EXCEPT ![p] = r] /\ missing' = missing
    BY <1>3 DEF NotAvailable
  <2> HIDE DEF r
  <2> QED BY <1>1, <2>1, <2>2, OnePeerChanges
<1>4. CASE b \notin peer[p].asked
  <2>1. /\ \E s \in {[r EXCEPT !.inhibit = TRUE], Closing(r)} : peer' = [peer EXCEPT ![p] = s]
        /\ missing' = missing \cup {b}
    BY <1>4 DEF NotAvailable
  <2> HIDE DEF r, b
  <2>2. SameRequests(r, [r EXCEPT !.inhibit = TRUE]) /\ SameRequests(r, Closing(r))
    BY <1>2, SameAsBefore, OtherFields, IdsKeepRequests
  <2>3. PICK s : SameRequests(r, s) /\ peer' = [peer EXCEPT ![p] = s]
    BY <2>1, <2>2
  <2>4. /\ IsPeer(s) /\ s.sync_asked = peer[p].sync_asked \ {b}
        /\ s.conn = "none" => peer[p].conn = "none"
    BY <1>2, <1>4, <2>3 DEF SameRequests
  <2>5. DOMAIN peer' = Peers /\ \A q \in Peers : peer'[q] = IF q = p THEN s ELSE peer[q]
    BY <2>3 DEF RequestsInv
  <2> QED BY <1>1, <2>1, <2>4, <2>5 DEF RequestsInv, AskedOnce, IsPeer
<1> QED BY <1>3, <1>4

(***************************************************************************)
(* What a peer says that has nothing to do with synchronisation.           *)
(***************************************************************************)
LEMMA OtherMessagesStep ==
  ASSUME RequestsInv, NEW p \in Peers,
         \/ ReceiveBlock(p) \/ RejectBlock(p) \/ ReceiveOffer(p) \/ PeerAsks(p) \/ PeerGrows(p)
         \/ PeerFetches(p) \/ FallSilent(p) \/ Misbehave(p)
  PROVE  RequestsInv'
<1>0. \A q \in Peers : IsPeer(peer[q]) /\ SameRequests(peer[q], peer[q])
  BY SameAsBefore DEF RequestsInv
<1>1. SameRequests(peer[p], Received(p))
  BY <1>0, ReceivedKeeps
<1>2. CASE ReceiveBlock(p)
  <2> DEFINE b == peer[p].inbox[1].id
             r == [Received(p) EXCEPT !.asked = @ \ {b}]
             mine(q) == IF q = p THEN r ELSE peer[q]
  <2>1. SameRequests(peer[p], r)
    BY <1>1, OtherFields
  <2>2. \A q \in Peers : SameRequests(peer[q], mine(q))
    <3> HIDE DEF r
    <3> QED BY <1>0, <2>1
  <2>3. /\ active' = active /\ missing' = missing /\ DOMAIN peer' = Peers
        /\ \A q \in Peers : peer'[q] \in {mine(q), [mine(q) EXCEPT !.last_seen = b],
                                          StartSync(head, tip[q], mine(q)), Closing(mine(q))}
    BY <1>2 DEF ReceiveBlock, history
  <2> HIDE DEF r, b, mine
  <2>4. ASSUME NEW q \in Peers PROVE SameRequests(peer[q], peer'[q])
    <3>1. /\ SameRequests(peer[q], [mine(q) EXCEPT !.last_seen = b])
          /\ SameRequests(peer[q], StartSync(head, tip[q], mine(q)))
          /\ SameRequests(peer[q], Closing(mine(q)))
      BY <2>2, OtherFields, IdsKeepRequests
    <3>2. \A u \in {mine(q), [mine(q) EXCEPT !.last_seen = b],
                    StartSync(head, tip[q], mine(q)), Closing(mine(q))} : SameRequests(peer[q], u)
      BY ONLY <2>2, <3>1, q \in Peers, Zenon
    <3> QED BY ONLY <2>3, <3>2, q \in Peers, Zenon
  <2> QED BY <2>3, <2>4, RequestsStay
<1>3. CASE RejectBlock(p)
  <2>1. SameRequests(peer[p], Closing(Received(p)))
    BY <1>1, IdsKeepRequests
  <2> QED BY <1>3, <2>1, OnePeerChanges DEF RejectBlock
<1>4. CASE ReceiveOffer(p)
  <2>1. \A x : SameRequests(peer[p], [Received(p) EXCEPT !.offered = x])
    BY <1>1, OtherFields
  <2>2. /\ active' = active /\ missing' = missing
        /\ \/ peer' = [peer EXCEPT ![p] = Received(p)]
           \/ \E x : peer' = [peer EXCEPT ![p] = [Received(p) EXCEPT !.offered = x]]
    BY <1>4 DEF ReceiveOffer, history
  <2>3. PICK s : SameRequests(peer[p], s) /\ peer' = [peer EXCEPT ![p] = s]
    BY <1>1, <2>1, <2>2
  <2> QED BY <2>2, <2>3, OnePeerChanges
<1>5. CASE PeerAsks(p)
  <2>1. PICK x : LET r == [peer[p] EXCEPT !.they_need = x]
                 IN  \E s \in {r, StartSync(head, tip[p], r), Closing(r),
                              Closing(StartSync(head, tip[p], r))} :
                       peer' = [peer EXCEPT ![p] = s]
    BY <1>5 DEF PeerAsks
  <2> DEFINE r == [peer[p] EXCEPT !.they_need = x]
  <2>2. SameRequests(peer[p], r)
    BY <1>0, OtherFields
  <2>3. \E s \in {r, StartSync(head, tip[p], r), Closing(r), Closing(StartSync(head, tip[p], r))} :
          peer' = [peer EXCEPT ![p] = s]
    BY <2>1
  <2> HIDE DEF r
  <2>4. PICK s : SameRequests(peer[p], s) /\ peer' = [peer EXCEPT ![p] = s]
    BY <2>2, <2>3, IdsKeepRequests
  <2>5. active' = active /\ missing' = missing
    BY <1>5 DEF PeerAsks, history
  <2> QED BY <2>4, <2>5, OnePeerChanges
<1>6. CASE PeerGrows(p)
  <2>1. \A msgs : SameRequests(peer[p], Sent(peer[p], msgs))
    BY <1>0, IdsKeepRequests
  <2>2. /\ active' = active /\ missing' = missing
        /\ peer' = peer \/ \E msgs : peer' = [peer EXCEPT ![p] = Sent(peer[p], msgs)]
    BY <1>6 DEF PeerGrows, history
  <2>3. CASE peer' = peer
    BY <1>0, <2>2, <2>3, RequestsStay DEF RequestsInv
  <2> QED BY <2>1, <2>2, <2>3, OnePeerChanges
<1>7. CASE FallSilent(p)
  <2>1. SameRequests(peer[p], [peer[p] EXCEPT !.silent = TRUE])
    BY <1>0, OtherFields
  <2> QED BY <1>7, <2>1, OnePeerChanges DEF FallSilent
<1>8. CASE Misbehave(p)
  <2>1. \A x : SameRequests(peer[p], [peer[p] EXCEPT !.inbox = x])
    BY <1>0, OtherFields
  <2>2. /\ active' = active /\ missing' = missing
        /\ \E x : peer' = [peer EXCEPT ![p] = [peer[p] EXCEPT !.inbox = x]]
    BY <1>8 DEF Misbehave
  <2> QED BY <2>1, <2>2, OnePeerChanges
<1>9. CASE PeerFetches(p)
  <2>1. \A x : SameRequests(peer[p], [peer[p] EXCEPT !.last_seen = x])
    BY <1>0, OtherFields
  <2>2. /\ active' = active /\ missing' = missing
        /\ \E x : peer' = [peer EXCEPT ![p] = [peer[p] EXCEPT !.last_seen = x]]
    BY <1>9 DEF PeerFetches, history
  <2> QED BY <2>1, <2>2, OnePeerChanges
<1> QED BY <1>2, <1>3, <1>4, <1>5, <1>6, <1>7, <1>8, <1>9

----------------------------------------------------------------------------
(* The loop that divides the blocks. *)

\* g gives what the first n peers of the order are asked for, up to N.
Shares(g, order, N) ==
  g = [n \in 0 .. N |->
         IF n = 0 THEN {} ELSE g[n - 1] \cup ToFetch(peer[order[n]], active \cup g[n - 1])]

(***************************************************************************)
(* The recursion has a solution, and Requested is one.                     *)
(***************************************************************************)
LEMMA SharesExist ==
  ASSUME NEW order, NEW L \in Nat
  PROVE  \E g : Shares(g, order, L)
<1> DEFINE Good == {N \in Nat : \E g : Shares(g, order, N)}
<1>1. 0 \in Good
  <2>1. Shares([n \in 0 .. 0 |-> {}], order, 0)
    BY DEF Shares
  <2> QED BY <2>1
<1>2. ASSUME NEW N \in 1 .. L, N - 1 \in Good PROVE N \in Good
  <2>1. PICK g : Shares(g, order, N - 1)
    BY <1>2
  <2> DEFINE step(n, f) == IF n = 0 THEN {} ELSE f[n - 1] \cup ToFetch(peer[order[n]], active \cup f[n - 1])
             h == [n \in 0 .. N |-> step(n, g)]
  <2>2. g = [n \in 0 .. N - 1 |-> step(n, g)]
    BY <2>1 DEF Shares
  <2>3. \A n \in 0 .. N - 1 : h[n] = g[n]
    <3> HIDE DEF step
    <3> QED BY <2>2
  <2>4. \A n \in 0 .. N : step(n, h) = step(n, g)
    <3> SUFFICES ASSUME NEW n \in 0 .. N, n # 0 PROVE h[n - 1] = g[n - 1]
      OBVIOUS
    <3> HIDE DEF h
    <3> QED BY <2>3
  <2>5. Shares(h, order, N)
    <3>1. h = [n \in 0 .. N |-> step(n, h)]
      <4> DEFINE k == [n \in 0 .. N |-> step(n, h)]
      <4>1. \A n \in 0 .. N : k[n] = h[n]
        <5> HIDE DEF step
        <5> QED BY <2>4
      <4> HIDE DEF step
      <4> QED BY <4>1
    <3> HIDE DEF h
    <3> QED BY <3>1 DEF Shares
  <2> QED BY <2>5
<1>3. \A N \in 0 .. L : N \in Good
  <2> HIDE DEF Good
  <2> QED BY <1>1, <1>2, PrefixInduction
<1> QED BY <1>3

\* What each of the L peers of the order is asked for.
SharesOf(share, order, u, L) ==
  \A n \in 1 .. L : share[n] = ToFetch(peer[order[n]], active \cup u[n - 1])

(***************************************************************************)
(* What the loop requests: each peer's share is new, and shares add up.    *)
(***************************************************************************)
LEMMA SharesAreNew ==
  ASSUME NEW order, NEW L \in Nat, Len(order) = L, NEW u, u = Requested(order),
         NEW share, SharesOf(share, order, u, L)
  PROVE  /\ \A n \in 1 .. L : share[n] \cap active = {} /\ share[n] \subseteq u[L]
         /\ \A m, n \in 1 .. L : m < n => share[m] \cap share[n] = {}
         /\ \A b \in u[L] : \E n \in 1 .. L : b \in share[n]
<1>1. Shares(u, order, L)
  <2>1. u = CHOOSE g : Shares(g, order, L)
    BY DEF Requested, Shares
  <2> QED BY <2>1, SharesExist
<1>2. u[0] = {} /\ \A n \in 1 .. L : u[n] = u[n - 1] \cup share[n]
  <2>1. \A n \in 0 .. L : u[n] = IF n = 0 THEN {} ELSE u[n - 1] \cup ToFetch(peer[order[n]], active \cup u[n - 1])
    BY <1>1 DEF Shares
  <2>2. ASSUME NEW n \in 1 .. L PROVE u[n] = u[n - 1] \cup share[n]
    BY <2>1, n \in 0 .. L, n # 0 DEF SharesOf
  <2>3. u[0] = {}
    <3>1. 0 \in 0 .. L
      OBVIOUS
    <3> QED BY <2>1, <3>1, Zenon
  <2> QED BY <2>2, <2>3
<1>3. \A n \in 1 .. L : share[n] \cap active = {} /\ share[n] \cap u[n - 1] = {}
  <2> SUFFICES ASSUME NEW n \in 1 .. L
               PROVE  ToFetch(peer[order[n]], active \cup u[n - 1]) \cap (active \cup u[n - 1]) = {}
    BY Zenon DEF SharesOf
  <2> DEFINE t == active \cup u[n - 1]
  <2> HIDE DEF t
  <2>1. ToFetch(peer[order[n]], t) \cap t = {}
    BY DEF ToFetch, FirstOf
  <2> QED BY <2>1 DEF t
<1> DEFINE Up == {n \in 0 .. L : \A m \in 1 .. n : share[m] \subseteq u[n]}
           From == {n \in 0 .. L : \A b \in u[n] : \E m \in 1 .. n : b \in share[m]}
<1>4. \A n \in 0 .. L : n \in Up
  <2>1. 0 \in Up
    OBVIOUS
  <2>2. ASSUME NEW n \in 1 .. L, n - 1 \in Up PROVE n \in Up
    <3>1. \A m \in 1 .. n - 1 : share[m] \subseteq u[n - 1]
      BY <2>2
    <3>2. u[n] = u[n - 1] \cup share[n]
      BY <1>2
    <3>3. \A m \in 1 .. n : m = n \/ m \in 1 .. n - 1
      OBVIOUS
    <3>4. \A m \in 1 .. n : share[m] \subseteq u[n]
      BY <3>1, <3>2, <3>3
    <3> QED BY <3>4
  <2> HIDE DEF Up
  <2> QED BY <2>1, <2>2, PrefixInduction
<1>5. \A n \in 0 .. L : n \in From
  <2>1. 0 \in From
    BY <1>2
  <2>2. ASSUME NEW n \in 1 .. L, n - 1 \in From PROVE n \in From
    <3> SUFFICES ASSUME NEW b \in u[n] PROVE \E m \in 1 .. n : b \in share[m]
      OBVIOUS
    <3>1. b \in share[n] \/ b \in u[n - 1]
      BY <1>2
    <3>2. CASE b \in share[n]
      BY <3>2
    <3>3. CASE b \in u[n - 1]
      <4>1. PICK m \in 1 .. n - 1 : b \in share[m]
        BY <2>2, <3>3
      <4>2. m \in 1 .. n
        OBVIOUS
      <4> QED BY <4>1, <4>2
    <3> QED BY <3>1, <3>2, <3>3
  <2> HIDE DEF From
  <2> QED BY <2>1, <2>2, PrefixInduction
<1>6. \A n \in 1 .. L : share[n] \subseteq u[L]
  BY <1>4, L \in 0 .. L
<1>7. ASSUME NEW m \in 1 .. L, NEW n \in 1 .. L, m < n PROVE share[m] \cap share[n] = {}
  <2>1. n - 1 \in 0 .. L /\ m \in 1 .. n - 1
    BY <1>7
  <2>2. share[m] \subseteq u[n - 1]
    BY <1>4, <2>1
  <2> QED BY <1>3, <2>2
<1>8. \A b \in u[L] : \E n \in 1 .. L : b \in share[n]
  BY <1>5, L \in 0 .. L
<1> QED BY <1>3, <1>6, <1>7, <1>8

\* The peers that the loop asks for blocks.
Ready == {p \in Peers : On(p) /\ peer[p].need /\ Idle(peer[p]) /\ ~peer[p].inhibit}

(***************************************************************************)
(* The loop asks the peers that are ready, in some order, each for its     *)
(* share.                                                                  *)
(***************************************************************************)
LEMMA FetchSyncOrder ==
  ASSUME FetchSyncItems, ~suspended
  PROVE  \E L, order, u, share :
           /\ L \in Nat
           /\ order \in [1 .. L -> Ready] /\ DOMAIN order = 1 .. L /\ Len(order) = L
           /\ \A i, j \in 1 .. L : i # j => order[i] # order[j]
           /\ u = Requested(order) /\ SharesOf(share, order, u, L)
           /\ active' = active \cup u[L] /\ DOMAIN peer' = Peers /\ peer' = [p \in Peers |-> peer'[p]]
           /\ \A p \in Peers :
                IF p \in ToSet(order)
                THEN \E n \in 1 .. L : order[n] = p /\ peer'[p] = Asked(peer[p], share[n])
                ELSE peer'[p] = peer[p]
<1>1. PICK order \in SetToSeqs(Ready) :
        LET upto == Requested(order)
            share(n) == ToFetch(peer[order[n]], active \cup upto[n - 1])
        IN  /\ active' = active \cup upto[Len(order)]
            /\ peer' = [p \in Peers |->
                 IF p \in ToSet(order)
                 THEN Asked(peer[p], share(CHOOSE n \in DOMAIN order : order[n] = p))
                 ELSE peer[p]]
  BY DEF FetchSyncItems, Ready
<1>2. PICK L \in Nat : L = Cardinality(Ready)
  <2>1. IsFiniteSet(Peers) /\ Ready \in SUBSET Peers
    BY SyncAssumption DEF SyncAssumption, Ready
  <2>2. IsFiniteSet(Ready)
    BY <2>1, FS_Subset
  <2> QED BY <2>2, FS_CardinalityType
<1>3. /\ order \in [1 .. L -> Ready] /\ DOMAIN order = 1 .. L /\ Len(order) = L
      /\ \A i, j \in 1 .. L : i # j => order[i] # order[j]
  <2>1. order \in {f \in [1 .. L -> Ready] : \A i, j \in 1 .. L : i # j => f[i] # f[j]}
    BY <1>2 DEF SetToSeqs
  <2>2. order \in Seq(Ready) /\ Len(order) = L
    BY <2>1
  <2> QED BY <2>1, <2>2
<1>4. PICK u : u = Requested(order)
  OBVIOUS
<1>5. PICK share : SharesOf(share, order, u, L)
  <2> DEFINE f == [n \in 1 .. L |-> ToFetch(peer[order[n]], active \cup u[n - 1])]
  <2>1. \A n \in 1 .. L : f[n] = ToFetch(peer[order[n]], active \cup u[n - 1])
    OBVIOUS
  <2> HIDE DEF f
  <2> QED BY <2>1 DEF SharesOf
<1>6. active' = active \cup u[L] /\ DOMAIN peer' = Peers /\ peer' = [p \in Peers |-> peer'[p]]
  BY <1>1, <1>3, <1>4
<1>7. ASSUME NEW p \in Peers, p \in ToSet(order)
      PROVE  \E n \in 1 .. L : order[n] = p /\ peer'[p] = Asked(peer[p], share[n])
  <2> DEFINE n == CHOOSE n \in 1 .. L : order[n] = p
  <2>1. n \in 1 .. L /\ order[n] = p
    BY <1>3, <1>7 DEF ToSet
  <2>2. peer'[p] = Asked(peer[p], ToFetch(peer[order[n]], active \cup u[n - 1]))
    BY <1>1, <1>3, <1>4, <1>7
  <2> HIDE DEF n
  <2>3. share[n] = ToFetch(peer[order[n]], active \cup u[n - 1])
    BY <1>5, <2>1 DEF SharesOf
  <2> QED BY <2>1, <2>2, <2>3
<1>8. \A p \in Peers : p \notin ToSet(order) => peer'[p] = peer[p]
  BY <1>1
<1> QED BY <1>2, <1>3, <1>4, <1>5, <1>6, <1>7, <1>8

(***************************************************************************)
(* Each peer is asked for its share, which nobody was asked for before     *)
(* nor is in the same round.                                               *)
(***************************************************************************)
LEMMA FetchSyncStep == ASSUME RequestsInv, FetchSyncItems PROVE RequestsInv'
<1>0. missing' = missing
  BY DEF FetchSyncItems, history
<1>1. CASE suspended
  <2>1. peer' = peer /\ active' = active
    BY <1>1 DEF FetchSyncItems
  <2> QED BY <1>0, <2>1, SameAsBefore, RequestsStay DEF RequestsInv
<1>2. CASE ~suspended
  <2>1. PICK L, order, u, share :
          /\ L \in Nat
          /\ order \in [1 .. L -> Ready] /\ DOMAIN order = 1 .. L /\ Len(order) = L
          /\ \A i, j \in 1 .. L : i # j => order[i] # order[j]
          /\ u = Requested(order) /\ SharesOf(share, order, u, L)
          /\ active' = active \cup u[L] /\ DOMAIN peer' = Peers /\ peer' = [p \in Peers |-> peer'[p]]
          /\ \A p \in Peers :
               IF p \in ToSet(order)
               THEN \E n \in 1 .. L : order[n] = p /\ peer'[p] = Asked(peer[p], share[n])
               ELSE peer'[p] = peer[p]
    BY <1>2, FetchSyncOrder
  <2>2. /\ \A n \in 1 .. L : share[n] \cap active = {} /\ share[n] \subseteq u[L]
        /\ \A m, n \in 1 .. L : m < n => share[m] \cap share[n] = {}
        /\ \A b \in u[L] : \E n \in 1 .. L : b \in share[n]
    BY ONLY <2>1, SharesAreNew
  <2>3. active' = active \cup u[L] /\ DOMAIN peer' = Peers
    BY <2>1
  <2> DEFINE place(p) == CHOOSE n \in 1 .. L : order[n] = p
             mine(p)  == IF p \in ToSet(order) THEN share[place(p)] ELSE {}
  <2>4. \A n \in 1 .. L : order[n] \in ToSet(order) /\ place(order[n]) = n
    BY <2>1 DEF ToSet
  <2>5. \A p \in ToSet(order) : place(p) \in 1 .. L /\ order[place(p)] = p /\ p \in Peers /\ On(p)
    BY <2>1 DEF ToSet, Ready
  <2>6. ASSUME NEW p \in Peers
         PROVE  /\ IsPeer(peer'[p]) /\ peer'[p].conn = peer[p].conn
                /\ peer'[p].sync_asked = peer[p].sync_asked \cup mine(p)
                /\ mine(p) # {} => peer[p].conn = "active"
    <3>1. IsPeer(peer[p])
      BY DEF RequestsInv
    <3>2. CASE p \notin ToSet(order)
      <4>1. peer'[p] = peer[p]
        BY <2>1, <3>2
      <4> QED BY <3>1, <3>2, <4>1
    <3>3. CASE p \in ToSet(order)
      <4>1. PICK n \in 1 .. L : order[n] = p /\ peer'[p] = Asked(peer[p], share[n])
        BY <2>1, <3>3
      <4>2. mine(p) = share[n]
        <5> HIDE DEF place
        <5>1. place(order[n]) = n
          BY <2>4
        <5>2. mine(p) = share[place(p)]
          BY <3>3
        <5> QED BY <4>1, <5>1, <5>2
      <4> HIDE DEF place, mine
      <4>3. peer'[p] = Asked(peer[p], mine(p))
        BY <4>1, <4>2
      <4> DEFINE r == [peer[p] EXCEPT !.sync_asked = @ \cup mine(p)]
                 msgs == Blocked(Among(peer[p].to_get, mine(p)))
      <4>4. IsPeer(r) /\ r.conn = peer[p].conn /\ r.sync_asked = peer[p].sync_asked \cup mine(p)
        BY <3>1 DEF IsPeer, Gone
      <4>5. peer'[p] = Sent(r, msgs)
        BY <4>3 DEF Asked
      <4> HIDE DEF r, msgs
      <4>6. SameRequests(r, Sent(r, msgs))
        BY <4>4, SameAsBefore, IdsKeepRequests
      <4>7. Sent(r, msgs).conn = r.conn
        BY <4>4 DEF Sent, IsPeer, Gone
      <4>8. peer[p].conn = "active"
        BY <2>5, <3>3 DEF On
      <4> QED BY <4>4, <4>5, <4>6, <4>7, <4>8 DEF SameRequests
    <3> QED BY <3>2, <3>3
  <2>7. ASSUME NEW p \in Peers PROVE mine(p) \cap active = {} /\ mine(p) \subseteq u[L]
    BY <2>2, <2>5
  <2>8. ASSUME NEW p \in Peers, NEW q \in Peers, p # q PROVE mine(p) \cap mine(q) = {}
    <3> SUFFICES ASSUME p \in ToSet(order), q \in ToSet(order)
                 PROVE  share[place(p)] \cap share[place(q)] = {}
      OBVIOUS
    <3>1. place(p) \in 1 .. L /\ place(q) \in 1 .. L /\ place(p) # place(q)
      BY <2>5, <2>8
    <3> HIDE DEF place
    <3>2. place(p) < place(q) \/ place(q) < place(p)
      BY <3>1
    <3> QED BY <2>2, <3>1, <3>2
  <2>9. ASSUME NEW b \in u[L] PROVE \E p \in Peers : b \in mine(p)
    <3>1. PICK n \in 1 .. L : b \in share[n]
      BY <2>2
    <3>2. order[n] \in Peers /\ mine(order[n]) = share[n]
      BY <2>1, <2>4 DEF Ready
    <3> HIDE DEF mine
    <3> QED BY <3>1, <3>2
  <2> HIDE DEF mine, place
  <2>10. \A p \in Peers : IsPeer(peer[p])'
    BY <2>6 DEF IsPeer
  <2>11. \A p \in Peers : peer'[p].sync_asked \subseteq active'
    BY <2>3, <2>6, <2>7 DEF RequestsInv
  <2>12. \A p \in Peers : peer'[p].conn = "none" => peer'[p].sync_asked = {}
    BY <2>6 DEF RequestsInv
  <2>13. AskedOnce'
    <3> SUFFICES ASSUME NEW p \in Peers, NEW q \in Peers, p # q
                 PROVE  peer'[p].sync_asked \cap peer'[q].sync_asked = {}
      BY DEF AskedOnce
    <3>1. /\ peer[p].sync_asked \cap peer[q].sync_asked = {}
          /\ peer[p].sync_asked \subseteq active /\ peer[q].sync_asked \subseteq active
      BY DEF RequestsInv, AskedOnce
    <3> QED BY <2>6, <2>7, <2>8, <3>1
  <2>14. \A b \in active' \ missing' : \E p \in Peers : b \in peer'[p].sync_asked
    <3> SUFFICES ASSUME NEW b \in active' \ missing'
                 PROVE  \E p \in Peers : b \in peer'[p].sync_asked
      OBVIOUS
    <3>1. CASE b \in active
      BY <1>0, <2>6, <3>1 DEF RequestsInv
    <3>2. CASE b \in u[L]
      BY <2>6, <2>9, <3>2
    <3> QED BY <2>3, <3>1, <3>2
  <2> QED BY <2>3, <2>10, <2>11, <2>12, <2>13, <2>14 DEF RequestsInv
<1> QED BY <1>1, <1>2

----------------------------------------------------------------------------
(* Theorems about the requests. *)

(***************************************************************************)
(* The invariant of the requests, for any number of peers, any blocks and  *)
(* any number of faults.                                                   *)
(***************************************************************************)
THEOREM RequestsInvariant == Spec => []RequestsInv
<1>1. Init => RequestsInv
  BY DEF Init, RequestsInv, AskedOnce, IsPeer, Gone
<1>2. RequestsInv /\ [Next]_vars => RequestsInv'
  <2> SUFFICES ASSUME RequestsInv, [Next]_vars PROVE RequestsInv'
    OBVIOUS
  <2>1. CASE FetchSyncItems
    BY <2>1, FetchSyncStep
  <2>2. CASE FetchItems
    BY <2>2, FetchItemsStep
  <2>3. CASE ProcessBacklog
    BY <2>3, BacklogStep
  <2>4. CASE HandleSyncBlock
    BY <2>4, HandleStep
  <2>5. ASSUME NEW p \in Peers, Connect(p) PROVE RequestsInv'
    BY <2>5, ConnectStep
  <2>6. ASSUME NEW p \in Peers, ConnectionClosed(p) \/ Timeout(p) PROVE RequestsInv'
    BY <2>6, ClosedStep DEF ConnectionClosed, Timeout
  <2>7. ASSUME NEW p \in Peers, FallSilent(p) \/ Misbehave(p) \/ PeerAsks(p) \/ PeerFetches(p) \/ PeerGrows(p)
        PROVE  RequestsInv'
    BY <2>7, OtherMessagesStep
  <2>8. ASSUME NEW p \in Peers, Receive(p) PROVE RequestsInv'
    BY <2>8, IdsStep, SyncBlockStep, OtherMessagesStep DEF Receive
  <2>9. ASSUME NEW p \in Peers, NotAvailable(p) PROVE RequestsInv'
    BY <2>9, NotAvailableStep
  <2>10. CASE UNCHANGED vars
    <3>1. peer' = peer /\ active' = active /\ missing' = missing
      BY <2>10 DEF vars, history
    <3> QED BY <3>1, SameAsBefore, RequestsStay DEF RequestsInv
  <2> QED BY <2>1, <2>2, <2>3, <2>4, <2>5, <2>6, <2>7, <2>8, <2>9, <2>10 DEF Next, Loops
<1> QED BY <1>1, <1>2, PTL DEF Spec

(***************************************************************************)
(* A block in _active_sync_requests is on its way from a connected peer,   *)
(* or some peer said it does not have it.                                  *)
(***************************************************************************)
THEOREM RequestsArePending == Spec => []RequestsPending
<1>1. RequestsInv => RequestsPending
  BY DEF RequestsInv, RequestsPending
<1> QED BY <1>1, RequestsInvariant, PTL

(***************************************************************************)
(* No block is asked of two peers at a time in synchronisation.            *)
(***************************************************************************)
THEOREM BlocksAreAskedOnce == Spec => []AskedOnce
<1>1. RequestsInv => AskedOnce
  BY DEF RequestsInv
<1> QED BY <1>1, RequestsInvariant, PTL

----------------------------------------------------------------------------
(* What the node knows of each peer. *)

\* The lists of blocks that a peer has named, in its record and on their way.
Lined(r) ==
  /\ r \in PeerRecord
  /\ Line(r.to_get)
  /\ \A i \in 1 .. Len(r.inbox) : r.inbox[i].kind = "ids" => Line(r.inbox[i].list)

\* The blocks that are known when k are, or processed on the peer's account.
Firm(r, k) == k \cup {NoBlock} \cup r.processing

\* What is left to get from a peer begins where what is known ends.
Based(r, k, h) ==
  /\ r.processing \subseteq k \cup h
  /\ \A b \in r.processing : Parent[b] \in Firm(r, k)
  /\ r.to_get # <<>> => Parent[r.to_get[1]] \in Firm(r, k)
  /\ r.last_seen \in Firm(r, k)

\* A synopsis names nothing else.
Covers(s, r, k) ==
  /\ \A i \in 1 .. Len(s) : s[i] \in Firm(r, k) \/ \E j \in 1 .. Len(r.to_get) : s[i] = r.to_get[j]
  /\ s = <<>> => r.to_get = <<>>

Rooted(r, k, h) ==
  /\ Based(r, k, h)
  /\ r.asked_ids # <<>> => Covers(r.asked_ids[1], r, k)

\* What is on its way from a peer that follows the protocol was asked for.
Honest(r) ==
  /\ r.asked = {} \/ r.sync_asked = {}
  /\ \A i \in 1 .. Len(r.inbox) :
       /\ r.inbox[i].kind = "block" => r.inbox[i].id \in r.asked \cup r.sync_asked
       /\ r.inbox[i].kind = "ids" /\ ~r.overtaken =>
            r.asked_ids # <<>> /\ ValidList(r, r.inbox[i].list)
       /\ \A j \in 1 .. Len(r.inbox) :
            /\ i # j /\ r.inbox[i].kind = r.inbox[j].kind
            /\ r.inbox[i].kind # "offer"
            => IF r.inbox[i].kind = "ids" THEN r.overtaken ELSE r.inbox[i].id # r.inbox[j].id

(***************************************************************************)
(* A record of a peer with another value in a field.                       *)
(***************************************************************************)
LEMMA FieldChanges ==
  ASSUME NEW r \in PeerRecord
  PROVE  /\ \A x \in {"none", "active", "closing"} : [r EXCEPT !.conn = x] \in PeerRecord
         /\ \A x \in BOOLEAN : /\ [r EXCEPT !.need = x] \in PeerRecord
                               /\ [r EXCEPT !.they_need = x] \in PeerRecord
                               /\ [r EXCEPT !.inhibit = x] \in PeerRecord
                               /\ [r EXCEPT !.silent = x] \in PeerRecord
                               /\ [r EXCEPT !.behind = x] \in PeerRecord
         /\ \A x \in Seq(Blocks) : [r EXCEPT !.to_get = x] \in PeerRecord
         /\ \A x \in SUBSET Blocks : /\ [r EXCEPT !.sync_asked = x] \in PeerRecord
                                     /\ [r EXCEPT !.asked = x] \in PeerRecord
                                     /\ [r EXCEPT !.offered = x] \in PeerRecord
         /\ \A x \in Blocks \cup {NoBlock} : [r EXCEPT !.last_seen = x] \in PeerRecord
         /\ \A x \in Seq(Message) : [r EXCEPT !.inbox = x] \in PeerRecord
         /\ \A x \in Nat : [r EXCEPT !.unfetched = x] \in PeerRecord
         /\ \A x \in Seq(Seq(Blocks)) : [r EXCEPT !.asked_ids = x] \in PeerRecord
BY DEF PeerRecord

(***************************************************************************)
(* What a sequence names.                                                  *)
(***************************************************************************)
LEMMA Named ==
  ASSUME NEW S, NEW s \in Seq(S)
  PROVE  \A x : x \in ToSet(s) <=> \E i \in 1 .. Len(s) : s[i] = x
BY LenProperties DEF ToSet

(***************************************************************************)
(* The smaller of two numbers.                                             *)
(***************************************************************************)
LEMMA MinOfTwo ==
  ASSUME NEW m \in Nat, NEW n \in Nat
  PROVE  Min({m, n}) = IF m <= n THEN m ELSE n
<1>1. Min({m, n}) \in {m, n} /\ \A y \in {m, n} : Min({m, n}) <= y
  <2>1. \E x \in {m, n} : \A y \in {m, n} : x <= y
    OBVIOUS
  <2> QED BY <2>1, Zenon DEF Min
<1> QED BY <1>1

(***************************************************************************)
(* A peer that follows the protocol names blocks each of which is the      *)
(* parent of the next one, from a block of the synopsis on, or from the    *)
(* first block when the synopsis is empty.                                 *)
(***************************************************************************)
LEMMA AnswerIsLine ==
  ASSUME NEW t \in Blocks \cup {NoBlock}, NEW s \in Seq(Blocks)
  PROVE  LET m == AnswerIds(t, s)
         IN  /\ m \in Answer /\ Line(m.list)
             /\ m.list # <<>> => IF s = <<>> THEN Num(m.list[1]) = 1 ELSE m.list[1] \in ToSet(s)
<1> DEFINE common == {i \in DOMAIN s : s[i] \in ToSet(PathTo(t))}
           start  == IF s = <<>> THEN 1 ELSE Num(s[Max(common)])
           end    == Min({Num(t), start + MaxIds - 1})
           none   == t = NoBlock \/ (s # <<>> /\ common = {})
           m      == AnswerIds(t, s)
<1>1. m = IF none THEN [kind |-> "ids", list |-> <<>>, remaining |-> 0]
          ELSE [kind |-> "ids", list |-> SubSeq(Path[t], start, end), remaining |-> Num(t) - end]
  BY Zenon DEF AnswerIds
<1>2. CASE none
  <2>1. m = [kind |-> "ids", list |-> <<>>, remaining |-> 0]
    <3> HIDE DEF none
    <3> QED BY <1>1, <1>2
  <2>2. m.list = <<>> /\ m \in Answer
    <3> HIDE DEF m
    <3> QED BY <2>1, EmptySeq DEF Answer
  <2>3. Line(<<>>)
    BY EmptySeq DEF Line
  <2> QED BY <2>2, <2>3
<1>3. CASE ~none
  <2>1. t \in Blocks /\ PathTo(t) = Path[t] /\ Path[t] \in Seq(Blocks)
    BY <1>3, Numbers, PathRecursion
  <2>2. /\ Line(Path[t]) /\ Len(Path[t]) = Num(t) /\ Num(t) \in Nat \ {0}
        /\ \A i \in 1 .. Num(t) : Path[t][i] \in Blocks /\ Num(Path[t][i]) = i
    BY <2>1, PathIsLine
  <2>3. s # <<>> => Max(common) \in common
    <3>1. common \in SUBSET (0 .. Len(s)) /\ Len(s) \in Nat
      BY LenProperties
    <3>2. s # <<>> => common # {}
      BY <1>3
    <3> HIDE DEF common
    <3> QED BY <3>1, <3>2, MaxOfBounded
  <2>4. start \in 1 .. Num(t) /\ (s # <<>> => s[Max(common)] = Path[t][start] /\ s[Max(common)] \in ToSet(s))
    <3>1. CASE s = <<>>
      BY <2>2, <3>1
    <3>2. CASE s # <<>>
      <4> DEFINE k == Max(common)
      <4>1. k \in DOMAIN s /\ s[k] \in ToSet(Path[t])
        BY <2>1, <2>3, <3>2
      <4> HIDE DEF k
      <4>2. PICK i \in 1 .. Num(t) : Path[t][i] = s[k]
        BY <2>1, <2>2, <4>1, Named
      <4>3. Num(s[k]) = i
        BY <2>2, <4>2
      <4>4. s[k] \in ToSet(s)
        BY <4>1 DEF ToSet
      <4>5. start = Num(s[k])
        BY <3>2 DEF k
      <4> HIDE DEF start, common
      <4>6. start = i
        BY <4>3, <4>5
      <4> QED BY <4>2, <4>4, <4>6 DEF k
    <3> QED BY <3>1, <3>2
  <2> HIDE DEF start, common
  <2>5. end \in start .. Num(t)
    <3>1. MaxIds \in Nat /\ MaxIds > 1
      BY SyncAssumption
    <3>2. Num(t) \in Nat /\ start + MaxIds - 1 \in Nat /\ start + MaxIds - 1 >= start
      BY <2>2, <2>4, <3>1
    <3>3. end = IF Num(t) <= start + MaxIds - 1 THEN Num(t) ELSE start + MaxIds - 1
      BY <3>2, MinOfTwo
    <3> HIDE DEF end
    <3> QED BY <2>2, <2>4, <3>1, <3>2, <3>3
  <2> HIDE DEF end, none
  <2>6. start \in 1 .. Len(Path[t]) + 1 /\ end \in 0 .. Len(Path[t]) /\ start <= end
    BY <2>2, <2>4, <2>5
  <2>7. Line(SubSeq(Path[t], start, end)) /\ SubSeq(Path[t], start, end)[1] = Path[t][start]
    BY <2>2, <2>6, LineParts
  <2>8. m.kind = "ids" /\ m.list = SubSeq(Path[t], start, end) /\ m \in Answer
    <3>1. Num(t) - end \in Nat
      BY <2>2, <2>4, <2>5
    <3>2. SubSeq(Path[t], start, end) \in Seq(Blocks)
      BY <2>7 DEF Line
    <3>3. m = [kind |-> "ids", list |-> SubSeq(Path[t], start, end), remaining |-> Num(t) - end]
      BY <1>1, <1>3
    <3> HIDE DEF m
    <3> QED BY <3>1, <3>2, <3>3 DEF Answer
  <2>9. s = <<>> => start = 1
    BY DEF start
  <2>10. s = <<>> => Num(Path[t][start]) = 1
    BY <2>2, <2>9
  <2>11. m.list # <<>> => IF s = <<>> THEN Num(m.list[1]) = 1 ELSE m.list[1] \in ToSet(s)
    <3> HIDE DEF m
    <3> QED BY <2>4, <2>7, <2>8, <2>10
  <2> HIDE DEF common
  <2> QED BY <2>7, <2>8, <2>11
<1> QED BY <1>2, <1>3

(***************************************************************************)
(* A synopsis of the chain names blocks of the path to its reference       *)
(* point.                                                                  *)
(***************************************************************************)
LEMMA ChainSynopsisNames ==
  ASSUME NEW h \in Blocks \cup {NoBlock}, NEW reference \in Blocks \cup {NoBlock}, NEW more \in Nat
  PROVE  LET s  == ChainSynopsis(h, reference, more)
             id == IF reference = NoBlock THEN h ELSE reference
         IN  /\ s \in Seq(Blocks)
             /\ \A i \in 1 .. Len(s) : id \in Blocks /\ \E j \in 1 .. Num(id) : s[i] = Path[id][j]
<1> DEFINE id == IF reference = NoBlock THEN h ELSE reference
           ns == Halving(1, 1, Num(id), Num(id) + more)
           s  == ChainSynopsis(h, reference, more)
<1>1. s = IF id = NoBlock THEN <<>> ELSE [i \in DOMAIN ns |-> Path[id][ns[i]]]
  BY DEF ChainSynopsis
<1>2. CASE id = NoBlock
  <2>1. s = <<>>
    BY <1>1, <1>2
  <2> HIDE DEF s
  <2>2. s \in Seq(Blocks) /\ Len(s) = 0
    BY <2>1, EmptySeq
  <2> QED BY <2>2 DEF s
<1>3. CASE id # NoBlock
  <2>1. id \in Blocks /\ Num(id) \in Nat /\ Num(id) + more \in Nat /\ Num(id) + more >= Num(id)
    BY <1>3, Numbers
  <2> HIDE DEF id
  <2>2. ns \in Seq(Nat) /\ \A i \in 1 .. Len(ns) : 1 <= ns[i] /\ ns[i] <= Num(id)
    BY <2>1, HalvingBounds
  <2> HIDE DEF ns
  <2>3. DOMAIN ns = 1 .. Len(ns) /\ Len(ns) \in Nat /\ \A i \in 1 .. Len(ns) : ns[i] \in 1 .. Num(id)
    BY <2>1, <2>2, LenProperties
  <2>4. \A i \in 1 .. Num(id) : Path[id][i] \in Blocks
    BY <2>1, PathIsLine
  <2>5. s = [i \in 1 .. Len(ns) |-> Path[id][ns[i]]]
    BY <1>1, <1>3, <2>3
  <2> DEFINE u == [i \in 1 .. Len(ns) |-> Path[id][ns[i]]]
  <2>6. /\ u \in Seq(Blocks) /\ Len(u) = Len(ns)
        /\ \A i \in 1 .. Len(u) : \E j \in 1 .. Num(id) : u[i] = Path[id][j]
    <3>1. \A i \in 1 .. Len(ns) : u[i] = Path[id][ns[i]] /\ u[i] \in Blocks
      BY <2>3, <2>4
    <3>2. u \in [1 .. Len(ns) -> Blocks]
      BY <3>1
    <3> HIDE DEF u
    <3>3. u \in Seq(Blocks) /\ Len(u) = Len(ns)
      BY <2>3, <3>2, IsASeq, LenProperties
    <3> QED BY <2>3, <3>1, <3>3
  <2> HIDE DEF u
  <2>7. s = u
    BY <2>5 DEF u
  <2> HIDE DEF s
  <2>8. s \in Seq(Blocks) /\ \A i \in 1 .. Len(s) : id \in Blocks /\ \E j \in 1 .. Num(id) : s[i] = Path[id][j]
    BY <2>1, <2>6, <2>7
  <2> QED BY <2>8 DEF s, id
<1> QED BY <1>2, <1>3

(***************************************************************************)
(* The synopsis for a peer: of the chain, or of what was processed for the *)
(* peer, and then of what is left to get from it.                          *)
(***************************************************************************)
LEMMA SynopsisNames ==
  ASSUME NEW r, Lined(r), NEW g \in Blocks \cup {NoBlock}
  PROVE  /\ Synopsis(g, r) \in Seq(Blocks)
         /\ \A k, h : Based(r, k, h) /\ g \in k \cup {NoBlock} /\ (\A b \in k : Parent[b] \in k \cup {NoBlock})
                        => Covers(Synopsis(g, r), r, k)
<1> DEFINE own   == ChainSynopsis(g, r.last_seen, Len(r.to_get))
           first == Num(r.to_get[1])
           high  == Num(Last(r.to_get))
           ns    == Halving(IF own = <<>> THEN 1 ELSE Num(own[1]), first, high, high)
           rest  == [i \in DOMAIN ns |-> r.to_get[ns[i] - first + 1]]
           s     == Synopsis(g, r)
           id    == IF r.last_seen = NoBlock THEN g ELSE r.last_seen
<1>1. /\ r.last_seen \in Blocks \cup {NoBlock} /\ r.to_get \in Seq(Blocks) /\ Line(r.to_get)
      /\ Len(r.to_get) \in Nat
  <2>1. r.last_seen \in Blocks \cup {NoBlock} /\ r.to_get \in Seq(Blocks) /\ Line(r.to_get)
    BY DEF Lined, PeerRecord
  <2> QED BY <2>1, LenProperties
<1>2. s = IF r.to_get = <<>> THEN own ELSE own \o rest
  BY DEF Synopsis
<1>3. /\ own \in Seq(Blocks)
      /\ \A i \in 1 .. Len(own) : id \in Blocks /\ \E j \in 1 .. Num(id) : own[i] = Path[id][j]
  BY <1>1, ChainSynopsisNames
<1> HIDE DEF own
<1>4. ASSUME NEW k, NEW h, Based(r, k, h), g \in k \cup {NoBlock},
             \A b \in k : Parent[b] \in k \cup {NoBlock}
      PROVE  \A i \in 1 .. Len(own) : own[i] \in Firm(r, k)
  <2> SUFFICES ASSUME NEW i \in 1 .. Len(own) PROVE own[i] \in Firm(r, k)
    OBVIOUS
  <2> DEFINE F == Firm(r, k)
  <2>1. \A x \in F \cap Blocks : Parent[x] \in F \cup {NoBlock}
    BY <1>4, BlocksAssumption DEF Based, Firm
  <2>2. id \in F \cap Blocks
    BY <1>3, <1>4 DEF Based, Firm
  <2> HIDE DEF F, id
  <2>3. \A j \in 1 .. Num(id) : Path[id][j] \in F
    BY <2>1, <2>2, PathInside
  <2>4. PICK j \in 1 .. Num(id) : own[i] = Path[id][j]
    BY <1>3 DEF id
  <2> QED BY <2>3, <2>4 DEF F
<1> HIDE DEF id
<1>5. CASE r.to_get = <<>>
  <2>1. s = own
    BY <1>2, <1>5
  <2> HIDE DEF s
  <2>2. \A k, h : Based(r, k, h) /\ g \in k \cup {NoBlock} /\ (\A b \in k : Parent[b] \in k \cup {NoBlock})
                     => Covers(s, r, k)
    BY <1>4, <1>5, <2>1 DEF Covers
  <2> QED BY <1>3, <2>1, <2>2 DEF s
<1>6. CASE r.to_get # <<>>
  <2> DEFINE L == Len(r.to_get)
  <2>1. L \in Nat \ {0} /\ Last(r.to_get) = r.to_get[L] /\ \A i \in 1 .. L : r.to_get[i] \in Blocks
    BY <1>1, <1>6, EmptySeq, ElementOfSeq DEF Last
  <2>2. \A i \in 1 .. L : Num(r.to_get[i]) = Num(r.to_get[1]) + i - 1
    BY <1>1, LineNumbers
  <2>3. first \in Nat \ {0} /\ high = first + L - 1
    <3>1. 1 \in 1 .. L /\ L \in 1 .. L
      BY <2>1
    <3>2. first \in Nat \ {0}
      BY <2>1, <3>1, PathIsLine
    <3> QED BY <2>1, <2>2, <3>1, <3>2
  <2>4. own # <<>> => own[1] \in Blocks /\ Num(own[1]) \in Nat
    <3>1. own # <<>> => 1 \in 1 .. Len(own)
      BY <1>3, EmptySeq
    <3>2. own # <<>> => own[1] \in Blocks
      BY <1>3, <3>1, ElementOfSeq
    <3> QED BY <3>2, Numbers
  <2> HIDE DEF first, high
  <2>5. /\ ns \in Seq(Nat) /\ \A i \in 1 .. Len(ns) : first <= ns[i] /\ ns[i] <= high
        /\ own = <<>> => ns # <<>>
    <3> DEFINE low == IF own = <<>> THEN 1 ELSE Num(own[1])
    <3>1. /\ low \in Nat /\ (own = <<>> => low <= high)
          /\ first \in Nat /\ high \in Nat /\ first <= high /\ high >= high
      BY <2>1, <2>3, <2>4
    <3> HIDE DEF low
    <3>2. LET w == Halving(low, first, high, high)
          IN  /\ w \in Seq(Nat)
              /\ \A i \in 1 .. Len(w) : first <= w[i] /\ w[i] <= high
              /\ high = high /\ low <= high /\ first <= high => w # <<>>
      BY <3>1, HalvingBounds
    <3>3. ns = Halving(low, first, high, high)
      BY DEF low
    <3> HIDE DEF ns
    <3> QED BY <3>1, <3>2, <3>3
  <2> HIDE DEF ns
  <2>6. DOMAIN ns = 1 .. Len(ns) /\ Len(ns) \in Nat /\ \A i \in 1 .. Len(ns) : ns[i] - first + 1 \in 1 .. L
    <3>1. DOMAIN ns = 1 .. Len(ns) /\ Len(ns) \in Nat /\ \A i \in 1 .. Len(ns) : ns[i] \in Nat
      BY <2>5, LenProperties, ElementOfSeq
    <3> QED BY <2>1, <2>3, <2>5, <3>1
  <2>7. /\ rest \in Seq(Blocks) /\ Len(rest) = Len(ns)
        /\ \A i \in 1 .. Len(rest) : \E j \in 1 .. L : rest[i] = r.to_get[j]
    <3>1. rest \in [1 .. Len(ns) -> Blocks]
      BY <2>1, <2>6
    <3>2. \A i \in 1 .. Len(ns) : \E j \in 1 .. L : rest[i] = r.to_get[j]
      BY <2>6
    <3> HIDE DEF rest
    <3>3. rest \in Seq(Blocks) /\ Len(rest) = Len(ns)
      BY <2>6, <3>1, IsASeq, LenProperties
    <3> QED BY <3>2, <3>3
  <2> HIDE DEF rest
  <2>8. s = own \o rest
    BY <1>2, <1>6
  <2> HIDE DEF s
  <2>9. /\ s \in Seq(Blocks) /\ Len(s) = Len(own) + Len(rest)
        /\ \A i \in 1 .. Len(own) + Len(rest) : s[i] = IF i <= Len(own) THEN own[i] ELSE rest[i - Len(own)]
    BY <1>3, <2>7, <2>8, ConcatProperties
  <2>10. Len(own) \in Nat /\ Len(rest) \in Nat /\ s # <<>>
    <3>1. Len(own) \in Nat /\ Len(rest) \in Nat
      BY <1>3, <2>7, LenProperties
    <3>2. own = <<>> => Len(rest) # 0
      BY <2>5, <2>7, EmptySeq
    <3>3. own # <<>> => Len(own) # 0
      BY <1>3, EmptySeq
    <3>4. Len(s) # 0
      BY <2>9, <3>1, <3>2, <3>3
    <3> QED BY <2>9, <3>1, <3>4, EmptySeq
  <2>11. ASSUME NEW k, NEW h, Based(r, k, h), g \in k \cup {NoBlock},
                \A b \in k : Parent[b] \in k \cup {NoBlock}
         PROVE  Covers(s, r, k)
    <3>1. ASSUME NEW i \in 1 .. Len(s)
          PROVE  s[i] \in Firm(r, k) \/ \E j \in 1 .. Len(r.to_get) : s[i] = r.to_get[j]
      <4>1. CASE i <= Len(own)
        <5>1. i \in 1 .. Len(own) /\ s[i] = own[i]
          BY <2>9, <2>10, <4>1
        <5>2. \A n \in 1 .. Len(own) : own[n] \in Firm(r, k)
          BY <1>4, <2>11
        <5> QED BY <5>1, <5>2
      <4>2. CASE ~(i <= Len(own))
        <5>1. i - Len(own) \in 1 .. Len(rest) /\ s[i] = rest[i - Len(own)]
          BY <2>9, <2>10, <4>2
        <5> QED BY <2>7, <5>1
      <4> QED BY <4>1, <4>2
    <3> QED BY <2>10, <3>1 DEF Covers
  <2> QED BY <2>9, <2>11 DEF s
<1> QED BY <1>5, <1>6

(***************************************************************************)
(* What a peer sends arrives, unless nothing does any more.                *)
(***************************************************************************)
LEMMA SentIs ==
  ASSUME NEW r \in PeerRecord, NEW msgs \in Seq(Message)
  PROVE  LET s == Sent(r, msgs)
         IN  /\ s \in PeerRecord
             /\ \/ s = r
                \/ /\ s = [r EXCEPT !.inbox = r.inbox \o msgs]
                   /\ s.inbox \in Seq(Message) /\ r.inbox \in Seq(Message)
                   /\ Len(s.inbox) = Len(r.inbox) + Len(msgs) /\ Len(r.inbox) \in Nat /\ Len(msgs) \in Nat
                   /\ \A i \in 1 .. Len(r.inbox) : s.inbox[i] = r.inbox[i]
                   /\ \A i \in 1 .. Len(msgs) : s.inbox[Len(r.inbox) + i] = msgs[i]
<1> DEFINE u == r.inbox \o msgs
           s == [r EXCEPT !.inbox = u]
<1>1. r.inbox \in Seq(Message)
  BY DEF PeerRecord
<1>2. /\ u \in Seq(Message) /\ Len(u) = Len(r.inbox) + Len(msgs)
      /\ \A i \in 1 .. Len(r.inbox) + Len(msgs) :
           u[i] = IF i <= Len(r.inbox) THEN r.inbox[i] ELSE msgs[i - Len(r.inbox)]
  BY <1>1, ConcatProperties
<1>3. Len(r.inbox) \in Nat /\ Len(msgs) \in Nat
  BY <1>1, LenProperties
<1> HIDE DEF u
<1>4. \A i \in 1 .. Len(r.inbox) : u[i] = r.inbox[i]
  <2>1. \A i \in 1 .. Len(r.inbox) : i \in 1 .. Len(r.inbox) + Len(msgs) /\ i <= Len(r.inbox)
    BY <1>3
  <2> QED BY <1>2, <2>1
<1>5. \A i \in 1 .. Len(msgs) : u[Len(r.inbox) + i] = msgs[i]
  <2>1. \A i \in 1 .. Len(msgs) : /\ Len(r.inbox) + i \in 1 .. Len(r.inbox) + Len(msgs)
                                  /\ ~(Len(r.inbox) + i <= Len(r.inbox)) /\ Len(r.inbox) + i - Len(r.inbox) = i
    BY <1>3
  <2> QED BY <1>2, <2>1
<1>6. s \in PeerRecord /\ s.inbox = u
  BY <1>2 DEF PeerRecord
<1>7. Sent(r, msgs) = r \/ Sent(r, msgs) = s
  BY DEF Sent, u
<1> HIDE DEF s
<1>8. CASE Sent(r, msgs) = s
  BY <1>1, <1>2, <1>3, <1>4, <1>5, <1>6, <1>8 DEF s, u
<1>9. CASE Sent(r, msgs) = r
  BY <1>9
<1> QED BY <1>7, <1>8, <1>9

\* The head is known, and what is known is a part of the tree with its root.
ChainOK(g, k) ==
  /\ k \subseteq Blocks /\ g \in k \cup {NoBlock}
  /\ \A b \in k : Parent[b] \in k \cup {NoBlock}

(***************************************************************************)
(* A peer that was asked for ids: its answer fits the synopsis, or will be *)
(* known as one that a later request overtook.                             *)
(***************************************************************************)
LEMMA FetchIdsIs ==
  ASSUME NEW r, Lined(r), NEW g \in Blocks \cup {NoBlock}, NEW t \in Blocks \cup {NoBlock}
  PROVE  LET x == FetchIds(g, t, r)
         IN  /\ Lined(x) /\ x.conn = r.conn /\ x.processing = r.processing
             /\ \A k, h : Based(r, k, h) /\ ChainOK(g, k) => Rooted(x, k, h)
             /\ Honest(r) => Honest(x)
<1> DEFINE s == Synopsis(g, r)
           m == AnswerIds(t, s)
           o == r.overtaken \/ r.asked_ids # <<>>
           q == <<s>>
           u == [r EXCEPT !.asked_ids = q, !.overtaken = o]
           v == Sent(u, <<m>>)
           x == FetchIds(g, t, r)
<1>1. /\ s \in Seq(Blocks)
      /\ \A k, h : Based(r, k, h) /\ ChainOK(g, k) => Covers(s, r, k)
  BY SynopsisNames DEF ChainOK
<1>2. /\ m \in Answer /\ Line(m.list) /\ m.kind = "ids"
      /\ m.list # <<>> => IF s = <<>> THEN Num(m.list[1]) = 1 ELSE m.list[1] \in ToSet(s)
  <2>1. /\ m \in Answer /\ Line(m.list)
        /\ m.list # <<>> => IF s = <<>> THEN Num(m.list[1]) = 1 ELSE m.list[1] \in ToSet(s)
    BY <1>1, AnswerIsLine
  <2> QED BY <2>1 DEF Answer
<1>0. q \in Seq(Seq(Blocks)) /\ o \in BOOLEAN /\ r \in PeerRecord /\ r.inbox \in Seq(Message)
  BY <1>1 DEF Lined, PeerRecord
<1>3. \E y \in BOOLEAN : x = [v EXCEPT !.behind = y]
  <2>1. v.behind \in BOOLEAN
    <3>1. u \in PeerRecord
      <4> HIDE DEF o, q
      <4> QED BY <1>0, <1>1 DEF PeerRecord
    <3>2. <<m>> \in Seq(Message)
      BY <1>2 DEF Message
    <3>3. v \in PeerRecord
      BY <3>1, <3>2, SentIs
    <3> QED BY <3>3 DEF PeerRecord
  <2>2. x = [v EXCEPT !.behind = IF r.silent THEN @ ELSE ~NothingNew(m.list, s)]
    BY DEF FetchIds
  <2> HIDE DEF v, s, m
  <2>3. NothingNew(m.list, s) \in BOOLEAN
    BY DEF NothingNew
  <2> QED BY <2>1, <2>2, <2>3
<1> HIDE DEF s, m, x
<1>4. /\ u \in PeerRecord /\ u.asked_ids = <<s>> /\ u.overtaken = o
      /\ u.conn = r.conn /\ u.processing = r.processing /\ u.to_get = r.to_get /\ u.last_seen = r.last_seen
      /\ u.asked = r.asked /\ u.sync_asked = r.sync_asked /\ u.inbox = r.inbox /\ u.inbox \in Seq(Message)
  <2>1. /\ u \in PeerRecord /\ u.asked_ids = q /\ u.overtaken = o
        /\ u.conn = r.conn /\ u.processing = r.processing /\ u.to_get = r.to_get /\ u.last_seen = r.last_seen
        /\ u.asked = r.asked /\ u.sync_asked = r.sync_asked /\ u.inbox = r.inbox
    <3> HIDE DEF o, q
    <3> QED BY <1>0, <1>1 DEF PeerRecord
  <2> HIDE DEF u
  <2> QED BY <1>0, <2>1
<1> HIDE DEF u, o
<1> DEFINE n == Len(r.inbox)
<1>5. /\ v \in PeerRecord /\ v.asked_ids = <<s>> /\ v.overtaken = o
      /\ v.conn = r.conn /\ v.processing = r.processing /\ v.to_get = r.to_get /\ v.last_seen = r.last_seen
      /\ v.asked = r.asked /\ v.sync_asked = r.sync_asked
      /\ n \in Nat /\ Len(v.inbox) \in {n, n + 1}
      /\ \A i \in 1 .. n : v.inbox[i] = r.inbox[i]
      /\ Len(v.inbox) = n + 1 => v.inbox[n + 1] = m
  <2>1. n \in Nat
    BY <1>4, LenProperties
  <2>2. <<m>> \in Seq(Message) /\ Len(<<m>>) = 1 /\ <<m>>[1] = m
    BY <1>2 DEF Message
  <2>3. /\ v \in PeerRecord
        /\ \/ v = u
           \/ /\ v = [u EXCEPT !.inbox = u.inbox \o <<m>>]
              /\ Len(v.inbox) = n + Len(<<m>>)
              /\ \A i \in 1 .. n : v.inbox[i] = u.inbox[i]
              /\ \A i \in 1 .. Len(<<m>>) : v.inbox[n + i] = <<m>>[i]
    <3>1. /\ v \in PeerRecord
          /\ \/ v = u
             \/ /\ v = [u EXCEPT !.inbox = u.inbox \o <<m>>]
                /\ Len(v.inbox) = Len(u.inbox) + Len(<<m>>)
                /\ \A i \in 1 .. Len(u.inbox) : v.inbox[i] = u.inbox[i]
                /\ \A i \in 1 .. Len(<<m>>) : v.inbox[Len(u.inbox) + i] = <<m>>[i]
      BY <1>4, <2>2, SentIs
    <3>2. u.inbox = r.inbox
      BY <1>4
    <3> HIDE DEF v
    <3> QED BY <3>1, <3>2
  <2> HIDE DEF v, n
  <2>4. CASE v = u
    BY <1>4, <2>1, <2>4 DEF n
  <2>5. CASE v # u
    <3>1. Len(v.inbox) = n + 1 /\ v.inbox[n + 1] = m /\ \A i \in 1 .. n : v.inbox[i] = r.inbox[i]
      <4>1. 1 \in 1 .. Len(<<m>>)
        BY <2>2
      <4> QED BY <1>4, <2>2, <2>3, <2>5, <4>1
    <3>2. /\ v.asked_ids = u.asked_ids /\ v.overtaken = u.overtaken
          /\ v.conn = u.conn /\ v.processing = u.processing /\ v.to_get = u.to_get /\ v.last_seen = u.last_seen
          /\ v.asked = u.asked /\ v.sync_asked = u.sync_asked
      BY <1>4, <2>3, <2>5 DEF PeerRecord
    <3> QED BY <1>4, <2>1, <2>3, <3>1, <3>2
  <2> QED BY <2>4, <2>5
<1> HIDE DEF v
<1>6. /\ x \in PeerRecord /\ x.asked_ids = <<s>> /\ x.overtaken = o
      /\ x.conn = r.conn /\ x.processing = r.processing /\ x.to_get = r.to_get /\ x.last_seen = r.last_seen
      /\ x.asked = r.asked /\ x.sync_asked = r.sync_asked /\ x.inbox = v.inbox
  <2>1. PICK y \in BOOLEAN : x = [v EXCEPT !.behind = y]
    BY <1>3
  <2>2. /\ x \in PeerRecord /\ x.asked_ids = v.asked_ids /\ x.overtaken = v.overtaken
        /\ x.conn = v.conn /\ x.processing = v.processing /\ x.to_get = v.to_get /\ x.last_seen = v.last_seen
        /\ x.asked = v.asked /\ x.sync_asked = v.sync_asked /\ x.inbox = v.inbox
    BY <1>5, <2>1 DEF PeerRecord
  <2> QED BY <1>5, <2>2
<1> HIDE DEF n
<1>7. /\ n \in Nat /\ Len(x.inbox) \in {n, n + 1}
      /\ \A i \in 1 .. Len(x.inbox) : IF i = n + 1 THEN x.inbox[i] = m ELSE i \in 1 .. n /\ x.inbox[i] = r.inbox[i]
  BY <1>5, <1>6
<1>8. Lined(x)
  BY <1>2, <1>6, <1>7 DEF Lined, n
<1>9. ASSUME NEW k, NEW h, Based(r, k, h), ChainOK(g, k) PROVE Rooted(x, k, h)
  <2>1. Based(x, k, h)
    BY <1>6, <1>9 DEF Based, Firm
  <2>2. Covers(s, r, k)
    BY <1>1, <1>9
  <2>3. Covers(s, x, k)
    BY <1>6, <2>2 DEF Covers, Firm
  <2>4. x.asked_ids[1] = s
    BY <1>6
  <2> QED BY <2>1, <2>3, <2>4 DEF Rooted
<1>10. ASSUME Honest(r) PROVE Honest(x)
  <2>1. \A i \in 1 .. n : r.inbox[i].kind = "ids" => x.overtaken
    BY <1>6, <1>10 DEF Honest, n, o
  <2>2. ValidList(x, m.list)
    BY <1>2, <1>6 DEF ValidList
  <2>3. ASSUME NEW i \in 1 .. Len(x.inbox)
        PROVE  /\ x.inbox[i].kind = "block" => x.inbox[i].id \in x.asked \cup x.sync_asked
               /\ x.inbox[i].kind = "ids" /\ ~x.overtaken => x.asked_ids # <<>> /\ ValidList(x, x.inbox[i].list)
    <3>1. CASE i = n + 1
      <4>1. x.inbox[i] = m
        BY <1>7, <3>1
      <4> QED BY <1>2, <1>6, <2>2, <4>1
    <3>2. CASE i # n + 1
      <4>1. i \in 1 .. n /\ x.inbox[i] = r.inbox[i]
        BY <1>7, <3>2
      <4>2. r.inbox[i].kind = "block" => r.inbox[i].id \in r.asked \cup r.sync_asked
        BY <1>10, <4>1 DEF Honest, n
      <4> QED BY <1>6, <2>1, <4>1, <4>2
    <3> QED BY <3>1, <3>2
  <2>4. ASSUME NEW i \in 1 .. Len(x.inbox), NEW j \in 1 .. Len(x.inbox),
               i # j, x.inbox[i].kind = x.inbox[j].kind, x.inbox[i].kind # "offer"
        PROVE  IF x.inbox[i].kind = "ids" THEN x.overtaken ELSE x.inbox[i].id # x.inbox[j].id
    <3>1. CASE x.inbox[i].kind = "ids"
      <4>1. \E l \in {i, j} : l # n + 1
        BY <1>7, <2>4
      <4>2. PICK l \in {i, j} : l # n + 1
        BY <4>1
      <4>3. l \in 1 .. n /\ x.inbox[l] = r.inbox[l] /\ x.inbox[l].kind = "ids"
        BY <1>7, <2>4, <3>1, <4>2
      <4> QED BY <2>1, <3>1, <4>3
    <3>2. CASE x.inbox[i].kind # "ids"
      <4>1. i # n + 1 /\ j # n + 1
        BY <1>2, <1>7, <2>4, <3>2
      <4>2. i \in 1 .. n /\ j \in 1 .. n /\ x.inbox[i] = r.inbox[i] /\ x.inbox[j] = r.inbox[j]
        BY <1>7, <4>1
      <4>3. IF r.inbox[i].kind = "ids" THEN r.overtaken ELSE r.inbox[i].id # r.inbox[j].id
        BY <1>10, <2>4, <4>2 DEF Honest, n
      <4> QED BY <3>2, <4>2, <4>3
    <3> QED BY <3>1, <3>2
  <2>5. x.asked = {} \/ x.sync_asked = {}
    BY <1>6, <1>10 DEF Honest
  <2> QED BY <2>3, <2>4, <2>5 DEF Honest
<1> QED BY <1>6, <1>8, <1>9, <1>10 DEF x

\* A record that has the same place in the tree, and one in the same talk with the peer.
SamePlace(r, x) ==
  /\ x.to_get = r.to_get /\ x.processing = r.processing
  /\ x.last_seen = r.last_seen /\ x.asked_ids = r.asked_ids

SameTalk(r, x) ==
  /\ x.inbox = r.inbox /\ x.asked_ids = r.asked_ids /\ x.overtaken = r.overtaken
  /\ x.asked = r.asked /\ x.sync_asked = r.sync_asked

(***************************************************************************)
(* What keeps a peer where it is, and what makes more of its blocks known. *)
(***************************************************************************)
LEMMA PlaceStays ==
  ASSUME NEW r, NEW x, SamePlace(r, x), NEW k, NEW h, Rooted(r, k, h)
  PROVE  Rooted(x, k, h)
BY DEF SamePlace, Rooted, Based, Covers, Firm

LEMMA MoreIsKnown ==
  ASSUME NEW r, NEW k, NEW h, Rooted(r, k, h), NEW n, k \subseteq n, NEW g, r.processing \subseteq n \cup g
  PROVE  Rooted(r, n, g)
BY DEF Rooted, Based, Covers, Firm

LEMMA TalkStays ==
  ASSUME NEW r, NEW x, SameTalk(r, x), Honest(r)
  PROVE  Honest(x)
BY DEF SameTalk, Honest, ValidList

(***************************************************************************)
(* A synchronisation that starts again, from nothing.                      *)
(***************************************************************************)
LEMMA StartSyncIs ==
  ASSUME NEW r, Lined(r), NEW g \in Blocks \cup {NoBlock}, NEW t \in Blocks \cup {NoBlock}
  PROVE  LET x == StartSync(g, t, r)
         IN  /\ Lined(x) /\ x.conn = r.conn
             /\ \A k, h : Based(r, k, h) /\ ChainOK(g, k) => Rooted(x, k, h)
             /\ Honest(r) => Honest(x)
<1> DEFINE e == <<>>
           u == [r EXCEPT !.to_get = e, !.unfetched = 0, !.need = TRUE,
                          !.last_seen = NoBlock, !.inhibit = FALSE]
<1>1. e \in Seq(Blocks) /\ Line(e)
  BY EmptySeq DEF Line
<1> HIDE DEF e
<1>2. /\ u \in PeerRecord /\ u.to_get = e /\ u.last_seen = NoBlock /\ u.processing = r.processing
      /\ u.conn = r.conn /\ SameTalk(r, u)
  BY <1>1 DEF Lined, PeerRecord, SameTalk
<1> HIDE DEF u
<1>3. Lined(u)
  BY <1>1, <1>2 DEF Lined, SameTalk
<1>4. ASSUME NEW k, NEW h, Based(r, k, h) PROVE Based(u, k, h)
  BY <1>2, <1>4 DEF Based, Firm, e
<1>5. Honest(r) => Honest(u)
  BY <1>2, TalkStays
<1>6. /\ Lined(FetchIds(g, t, u)) /\ FetchIds(g, t, u).conn = u.conn
      /\ \A k, h : Based(u, k, h) /\ ChainOK(g, k) => Rooted(FetchIds(g, t, u), k, h)
      /\ Honest(u) => Honest(FetchIds(g, t, u))
  BY <1>3, FetchIdsIs
<1>7. StartSync(g, t, r) = FetchIds(g, t, u)
  BY DEF StartSync, u, e
<1> DEFINE x == StartSync(g, t, r)
<1> HIDE DEF x
<1>8. x = FetchIds(g, t, u)
  BY <1>7 DEF x
<1>9. /\ Lined(x) /\ x.conn = r.conn
      /\ \A k, h : Based(r, k, h) /\ ChainOK(g, k) => Rooted(x, k, h)
      /\ Honest(r) => Honest(x)
  BY <1>2, <1>4, <1>5, <1>6, <1>8
<1> QED BY <1>9 DEF x

(***************************************************************************)
(* A peer without the message that was read, which is the only one for its *)
(* block, and the only list if no request overtook another.                *)
(***************************************************************************)
LEMMA ReceivedIs ==
  ASSUME NEW p, Lined(peer[p]), peer[p].inbox # <<>>
  PROVE  LET r == peer[p]
             x == Received(p)
             m == r.inbox[1]
         IN  /\ Lined(x) /\ SamePlace(r, x) /\ x.conn = r.conn
             /\ x.need = r.need /\ x.they_need = r.they_need /\ x.unfetched = r.unfetched
             /\ x.overtaken = r.overtaken /\ x.asked = r.asked /\ x.sync_asked = r.sync_asked
             /\ x.offered = r.offered
             /\ m \in Message /\ (m.kind = "ids" => Line(m.list))
             /\ Honest(r) =>
                  /\ Honest(x)
                  /\ \A i \in 1 .. Len(x.inbox) :
                       /\ m.kind = "block" /\ x.inbox[i].kind = "block" => x.inbox[i].id # m.id
                       /\ m.kind = "ids" /\ x.inbox[i].kind = "ids" => x.overtaken
<1> DEFINE r == peer[p]
           u == Tail(r.inbox)
           x == Received(p)
           m == r.inbox[1]
<1>1. r.inbox \in Seq(Message) /\ r \in PeerRecord
  BY DEF Lined, PeerRecord
<1>2. /\ u \in Seq(Message) /\ Len(u) = Len(r.inbox) - 1 /\ Len(r.inbox) \in Nat \ {0} /\ m \in Message
      /\ \A i \in 1 .. Len(u) : i + 1 \in 1 .. Len(r.inbox) /\ u[i] = r.inbox[i + 1]
  <2>1. Len(r.inbox) \in Nat \ {0}
    BY <1>1, EmptySeq
  <2>2. /\ u \in Seq(Message) /\ Len(u) = Len(r.inbox) - 1
        /\ \A i \in 1 .. Len(u) : u[i] = r.inbox[i + 1]
    BY <1>1, HeadTailProperties
  <2>3. 1 \in 1 .. Len(r.inbox)
    BY <2>1
  <2>4. m \in Message
    BY <1>1, <2>3, ElementOfSeq
  <2> HIDE DEF u
  <2> QED BY <2>1, <2>2, <2>4
<1> HIDE DEF u
<1>3. x = [r EXCEPT !.inbox = u]
  BY DEF Received, u
<1> HIDE DEF x, r
<1>4. /\ x \in PeerRecord /\ SamePlace(r, x) /\ x.conn = r.conn
      /\ x.need = r.need /\ x.they_need = r.they_need /\ x.unfetched = r.unfetched
      /\ x.overtaken = r.overtaken /\ x.asked = r.asked /\ x.sync_asked = r.sync_asked
      /\ x.offered = r.offered /\ x.inbox = u
  BY <1>1, <1>2, <1>3 DEF PeerRecord, SamePlace
<1>5. 1 \in 1 .. Len(r.inbox) /\ \A i \in 1 .. Len(x.inbox) : i + 1 \in 1 .. Len(r.inbox) /\ x.inbox[i] = r.inbox[i + 1] /\ i + 1 # 1
  BY <1>2, <1>4
<1>6. Lined(r)
  BY DEF r
<1>7. Lined(x) /\ (m.kind = "ids" => Line(m.list))
  BY <1>4, <1>5, <1>6 DEF Lined, SamePlace
<1>8. ASSUME Honest(r)
      PROVE  /\ Honest(x)
             /\ \A i \in 1 .. Len(x.inbox) :
                  /\ m.kind = "block" /\ x.inbox[i].kind = "block" => x.inbox[i].id # m.id
                  /\ m.kind = "ids" /\ x.inbox[i].kind = "ids" => x.overtaken
  <2>1. x.asked = {} \/ x.sync_asked = {}
    BY <1>4, <1>8 DEF Honest
  <2>2. ASSUME NEW i \in 1 .. Len(x.inbox)
        PROVE  /\ x.inbox[i].kind = "block" => x.inbox[i].id \in x.asked \cup x.sync_asked
               /\ x.inbox[i].kind = "ids" /\ ~x.overtaken => x.asked_ids # <<>> /\ ValidList(x, x.inbox[i].list)
    <3>1. i + 1 \in 1 .. Len(r.inbox) /\ x.inbox[i] = r.inbox[i + 1]
      BY <1>5
    <3>2. /\ r.inbox[i + 1].kind = "block" => r.inbox[i + 1].id \in r.asked \cup r.sync_asked
          /\ r.inbox[i + 1].kind = "ids" /\ ~r.overtaken => r.asked_ids # <<>> /\ ValidList(r, r.inbox[i + 1].list)
      BY <1>8, <3>1 DEF Honest
    <3> QED BY <1>4, <3>1, <3>2 DEF SamePlace, ValidList
  <2>3. ASSUME NEW i \in 1 .. Len(r.inbox), NEW j \in 1 .. Len(r.inbox), i # j,
               r.inbox[i].kind = r.inbox[j].kind, r.inbox[i].kind # "offer"
        PROVE  IF r.inbox[i].kind = "ids" THEN r.overtaken ELSE r.inbox[i].id # r.inbox[j].id
    BY <1>8, <2>3 DEF Honest
  <2>4. ASSUME NEW i \in 1 .. Len(x.inbox), NEW j \in 1 .. Len(x.inbox), i # j,
               x.inbox[i].kind = x.inbox[j].kind, x.inbox[i].kind # "offer"
        PROVE  IF x.inbox[i].kind = "ids" THEN x.overtaken ELSE x.inbox[i].id # x.inbox[j].id
    <3>1. /\ i + 1 \in 1 .. Len(r.inbox) /\ x.inbox[i] = r.inbox[i + 1]
          /\ j + 1 \in 1 .. Len(r.inbox) /\ x.inbox[j] = r.inbox[j + 1] /\ i + 1 # j + 1
      BY <1>5, <2>4
    <3>2. IF r.inbox[i + 1].kind = "ids" THEN r.overtaken ELSE r.inbox[i + 1].id # r.inbox[j + 1].id
      BY <2>3, <2>4, <3>1
    <3> QED BY <1>4, <3>1, <3>2
  <2>5. ASSUME NEW i \in 1 .. Len(x.inbox)
        PROVE  /\ m.kind = "block" /\ x.inbox[i].kind = "block" => x.inbox[i].id # m.id
               /\ m.kind = "ids" /\ x.inbox[i].kind = "ids" => x.overtaken
    <3>1. i + 1 \in 1 .. Len(r.inbox) /\ x.inbox[i] = r.inbox[i + 1] /\ i + 1 # 1 /\ 1 \in 1 .. Len(r.inbox)
      BY <1>5
    <3>2. x.inbox[i].kind = m.kind /\ x.inbox[i].kind # "offer"
             => IF x.inbox[i].kind = "ids" THEN r.overtaken ELSE x.inbox[i].id # m.id
      BY <2>3, <3>1
    <3>3. "ids" # "offer" /\ "block" # "offer" /\ "block" # "ids"
      OBVIOUS
    <3> QED BY <1>4, <3>2, <3>3
  <2> QED BY <2>1, <2>2, <2>4, <2>5 DEF Honest
<1> QED BY <1>2, <1>4, <1>7, <1>8 DEF x, r

(***************************************************************************)
(* How many blocks at the start of a list are known.                       *)
(***************************************************************************)
LEMMA KnownFirstIs ==
  ASSUME NEW list \in Seq(Blocks)
  PROVE  KnownFirst(list) \in 0 .. Len(list) /\ \A i \in 1 .. KnownFirst(list) : list[i] \in known
<1> DEFINE S == {n \in 0 .. Len(list) : ToSet(SubSeq(list, 1, n)) \subseteq known}
<1>1. Len(list) \in Nat /\ \A i \in 1 .. Len(list) : list[i] \in Blocks
  BY LenProperties, ElementOfSeq
<1>2. ASSUME NEW n \in 0 .. Len(list)
      PROVE  /\ SubSeq(list, 1, n) \in Seq(Blocks) /\ Len(SubSeq(list, 1, n)) = n
             /\ \A i \in 1 .. n : SubSeq(list, 1, n)[i] = list[i]
  <2> DEFINE u == SubSeq(list, 1, n)
  <2>1. \A i \in 1 .. n : list[i] \in Blocks
    BY <1>1
  <2>2. /\ u \in Seq(Blocks) /\ Len(u) = IF 1 <= n THEN n - 1 + 1 ELSE 0
        /\ \A i \in 1 .. n - 1 + 1 : u[i] = list[1 + i - 1]
    BY <1>1, <2>1, SubSeqProperties
  <2> HIDE DEF u
  <2>3. \A i \in 1 .. n : i \in 1 .. n - 1 + 1 /\ 1 + i - 1 = i
    BY <1>1
  <2> QED BY <1>1, <2>2, <2>3
<1>3. 0 \in S
  <2>1. 0 \in 0 .. Len(list)
    BY <1>1
  <2>2. SubSeq(list, 1, 0) \in Seq(Blocks) /\ Len(SubSeq(list, 1, 0)) = 0
    BY <1>2, <2>1
  <2>3. ToSet(SubSeq(list, 1, 0)) = {}
    <3> DEFINE u == SubSeq(list, 1, 0)
    <3> HIDE DEF u
    <3>1. u \in Seq(Blocks) /\ Len(u) = 0
      BY <2>2 DEF u
    <3>2. DOMAIN u = {}
      BY <3>1, LenProperties
    <3>3. ToSet(u) = {}
      BY <3>2 DEF ToSet
    <3> QED BY <3>3 DEF u
  <2> QED BY <2>1, <2>3
<1>4. Max(S) \in S
  <2>1. S \in SUBSET (0 .. Len(list)) /\ S # {}
    BY <1>3
  <2> HIDE DEF S
  <2> QED BY <1>1, <2>1, MaxOfBounded
<1>5. KnownFirst(list) = Max(S)
  BY DEF KnownFirst
<1> DEFINE n == KnownFirst(list)
<1> HIDE DEF n
<1>6. n \in 0 .. Len(list) /\ ToSet(SubSeq(list, 1, n)) \subseteq known
  BY <1>4, <1>5 DEF n
<1>7. \A i \in 1 .. n : list[i] \in known
  <2> SUFFICES ASSUME NEW i \in 1 .. n PROVE list[i] \in known
    OBVIOUS
  <2>1. /\ SubSeq(list, 1, n) \in Seq(Blocks) /\ Len(SubSeq(list, 1, n)) = n
        /\ SubSeq(list, 1, n)[i] = list[i]
    BY <1>2, <1>6
  <2>2. list[i] \in ToSet(SubSeq(list, 1, n))
    BY <2>1, Named
  <2> QED BY <1>6, <2>2
<1> QED BY <1>6, <1>7 DEF n

(***************************************************************************)
(* What is known, or processed for a peer, is a part of the tree with its  *)
(* root.                                                                   *)
(***************************************************************************)
LEMMA FirmIsClosed ==
  ASSUME NEW r, NEW k, NEW h, Based(r, k, h), ChainOK(head, k), NEW b \in Firm(r, k), b \in Blocks
  PROVE  Parent[b] \in Firm(r, k)
BY BlocksAssumption DEF Based, ChainOK, Firm

(***************************************************************************)
(* A list that builds on the synopsis extends what is left to get from a   *)
(* peer, which still begins where what is known ends.                      *)
(***************************************************************************)
LEMMA ExtendedIs ==
  ASSUME NEW p, NEW r, Lined(r), NEW list, Line(list), NEW s, ChainOK(head, known),
         list # <<>> => IF s = <<>> THEN Num(list[1]) = 1 ELSE list[1] \in ToSet(s),
         s \in Seq(Blocks)
  PROVE  LET x == Extended(p, r, list)
         IN  /\ Lined(x) /\ x.conn = r.conn /\ SameTalk(r, x)
             /\ \A h : Based(r, known, h) /\ Covers(s, r, known) => Based(x, known, h)
<1> DEFINE x    == Extended(p, r, list)
           skip == IF FirstOfAnother(p, list[1]) THEN 0 ELSE KnownFirst(list)
           at   == {i \in DOMAIN r.to_get : r.to_get[i] = list[1]}
<1>1. x = IF list = <<>> THEN r
          ELSE IF r.to_get = <<>>
          THEN [r EXCEPT !.to_get = SubSeq(list, skip + 1, Len(list)),
                         !.last_seen = IF skip = 0 THEN @ ELSE list[skip]]
          ELSE IF at = {} THEN [r EXCEPT !.to_get = Tail(list), !.last_seen = list[1]]
          ELSE [r EXCEPT !.to_get = SubSeq(@, 1, Max(at) - 1) \o list]
  BY DEF Extended
<1> HIDE DEF x
<1>2. /\ list \in Seq(Blocks) /\ Len(list) \in Nat /\ \A i \in 1 .. Len(list) : list[i] \in Blocks
      /\ list # <<>> => Len(list) # 0
  BY LenProperties, ElementOfSeq, EmptySeq DEF Line
<1>3. r \in PeerRecord /\ Line(r.to_get) /\ r.to_get \in Seq(Blocks) /\ r.last_seen \in Blocks \cup {NoBlock}
  BY DEF Lined, PeerRecord
<1>4. ASSUME NEW h, Based(r, known, h), Covers(s, r, known), list # <<>>,
             \A j \in 1 .. Len(r.to_get) : list[1] # r.to_get[j]
      PROVE  /\ Parent[list[1]] \in Firm(r, known)
             /\ r.to_get # <<>> => list[1] \in Firm(r, known)
  <2>1. list[1] \in Blocks
    <3>1. 1 \in 1 .. Len(list)
      BY <1>2, <1>4
    <3> QED BY <1>2, <3>1
  <2>2. CASE s = <<>>
    <3>1. Num(list[1]) = 1 /\ r.to_get = <<>>
      BY <1>4, <2>2 DEF Covers
    <3>2. Num(Parent[list[1]]) + 1 = 1 /\ Parent[list[1]] \in Blocks \cup {NoBlock}
      BY <2>1, <3>1, Numbers
    <3>3. Parent[list[1]] = NoBlock
      <4>1. Parent[list[1]] \in Blocks => Num(Parent[list[1]]) \in Nat \ {0}
        BY PathIsLine
      <4> QED BY <3>2, <4>1
    <3> QED BY <3>1, <3>3 DEF Firm
  <2>3. CASE s # <<>>
    <3>1. PICK i \in 1 .. Len(s) : s[i] = list[1]
      BY <1>4, <2>3, Named
    <3>2. list[1] \in Firm(r, known)
      BY <1>4, <3>1 DEF Covers
    <3> QED BY <1>4, <2>1, <3>2, FirmIsClosed
  <2> QED BY <2>2, <2>3
<1>5. ASSUME NEW u, NEW l, Line(u), l \in Blocks \cup {NoBlock},
             x = [r EXCEPT !.to_get = u, !.last_seen = l]
      PROVE  /\ Lined(x) /\ x.conn = r.conn /\ SameTalk(r, x)
             /\ x.to_get = u /\ x.last_seen = l /\ x.processing = r.processing
  <2>1. u \in Seq(Blocks)
    BY <1>5 DEF Line
  <2>2. x \in PeerRecord /\ x.conn = r.conn /\ SameTalk(r, x) /\ x.to_get = u /\ x.last_seen = l /\ x.processing = r.processing
    BY <1>3, <1>5, <2>1 DEF PeerRecord, SameTalk
  <2> QED BY <1>5, <2>2 DEF Lined, SameTalk
<1>6. CASE list = <<>>
  <2>1. x = r
    BY <1>1, <1>6
  <2> QED BY <2>1 DEF x, SameTalk
<1>7. CASE list # <<>> /\ r.to_get = <<>>
  <2> DEFINE u == SubSeq(list, skip + 1, Len(list))
             l == IF skip = 0 THEN r.last_seen ELSE list[skip]
  <2>1. skip \in 0 .. Len(list) /\ \A i \in 1 .. skip : list[i] \in known
    BY <1>2, KnownFirstIs
  <2>2. x = [r EXCEPT !.to_get = u, !.last_seen = l]
    BY <1>1, <1>7
  <2> HIDE DEF skip
  <2>3. skip + 1 \in 1 .. Len(list) + 1 /\ Len(list) \in 0 .. Len(list)
    BY <1>2, <2>1
  <2>4. /\ Line(u) /\ Len(u) = IF skip + 1 <= Len(list) THEN Len(list) - (skip + 1) + 1 ELSE 0
        /\ skip + 1 <= Len(list) => u[1] = list[skip + 1]
    BY <2>3, LineParts
  <2>5. skip # 0 => skip \in 1 .. Len(list) /\ list[skip] \in known /\ list[skip] \in Blocks
    BY <1>2, <2>1
  <2>6. l \in Blocks \cup {NoBlock}
    BY <1>3, <2>5
  <2> HIDE DEF u, l
  <2>7. /\ Lined(x) /\ x.conn = r.conn /\ SameTalk(r, x)
        /\ x.to_get = u /\ x.last_seen = l /\ x.processing = r.processing
    BY <1>5, <2>2, <2>4, <2>6
  <2>8. ASSUME NEW h, Based(r, known, h), Covers(s, r, known) PROVE Based(x, known, h)
    <3>1. l \in Firm(r, known)
      BY <2>5, <2>8 DEF Based, Firm, l
    <3>2. ASSUME u # <<>> PROVE Parent[u[1]] \in Firm(r, known)
      <4>1. skip + 1 <= Len(list)
        <5>1. u \in Seq(Blocks)
          BY <2>4 DEF Line
        <5>2. Len(u) # 0
          BY <3>2, <5>1, EmptySeq
        <5> QED BY <2>4, <5>2
      <4>2. CASE skip = 0
        <5>1. u[1] = list[1]
          BY <2>4, <4>1, <4>2
        <5>2. Len(r.to_get) = 0
          BY <1>7, EmptySeq
        <5>3. Parent[list[1]] \in Firm(r, known)
          BY <1>4, <1>7, <2>8, <5>2
        <5> QED BY <5>1, <5>3
      <4>3. CASE skip # 0
        <5>1. skip + 1 \in 2 .. Len(list) /\ skip + 1 - 1 = skip
          BY <1>2, <2>1, <4>1, <4>3
        <5>2. \A i \in 2 .. Len(list) : Parent[list[i]] = list[i - 1]
          BY DEF Line
        <5>3. PICK i \in 2 .. Len(list) : i = skip + 1 /\ i - 1 = skip
          BY <1>2, <2>1, <5>1
        <5>4. Parent[list[i]] = list[i - 1]
          BY <5>2
        <5>5. u[1] = list[i] /\ list[i - 1] \in known
          BY <2>4, <2>5, <4>1, <4>3, <5>3
        <5> QED BY <5>4, <5>5 DEF Firm
      <4> QED BY <4>2, <4>3
    <3> QED BY <2>7, <2>8, <3>1, <3>2 DEF Based, Firm
  <2> QED BY <2>7, <2>8 DEF x
<1>8. CASE list # <<>> /\ r.to_get # <<>> /\ at = {}
  <2> DEFINE u == Tail(list)
             l == list[1]
  <2>1. x = [r EXCEPT !.to_get = u, !.last_seen = l]
    BY <1>1, <1>8
  <2>2. 1 \in 1 .. Len(list) /\ l \in Blocks
    BY <1>2, <1>8
  <2>3. Line(u) /\ Len(u) = Len(list) - 1 /\ \A i \in 1 .. Len(list) - 1 : u[i] = list[i + 1]
    BY <1>8, LineParts
  <2> HIDE DEF u
  <2>4. /\ Lined(x) /\ x.conn = r.conn /\ SameTalk(r, x)
        /\ x.to_get = u /\ x.last_seen = l /\ x.processing = r.processing
    BY <1>5, <2>1, <2>2, <2>3
  <2>5. ASSUME NEW h, Based(r, known, h), Covers(s, r, known) PROVE Based(x, known, h)
    <3>1. \A j \in 1 .. Len(r.to_get) : list[1] # r.to_get[j]
      BY <1>3, <1>8, LenProperties
    <3>2. l \in Firm(r, known)
      BY <1>4, <1>8, <2>5, <3>1
    <3>3. ASSUME u # <<>> PROVE Parent[u[1]] = l
      <4>1. u \in Seq(Blocks) /\ Len(u) # 0
        BY <2>3, <3>3, EmptySeq DEF Line
      <4>2. 1 \in 1 .. Len(list) - 1 /\ 2 \in 2 .. Len(list) /\ 2 - 1 = 1 /\ 1 + 1 = 2
        BY <1>2, <2>3, <4>1
      <4>3. \A i \in 2 .. Len(list) : Parent[list[i]] = list[i - 1]
        BY DEF Line
      <4>4. u[1] = list[2] /\ Parent[list[2]] = list[1]
        BY <2>3, <4>2, <4>3
      <4> QED BY <4>4
    <3> HIDE DEF l
    <3> QED BY <2>4, <2>5, <3>2, <3>3 DEF Based, Firm
  <2> QED BY <2>4, <2>5 DEF x
<1>9. CASE list # <<>> /\ r.to_get # <<>> /\ at # {}
  <2> DEFINE n == Max(at)
             v == SubSeq(r.to_get, 1, n - 1)
             u == v \o list
             l == r.last_seen
  <2>1. x = [r EXCEPT !.to_get = u]
    BY <1>1, <1>9
  <2>2. x = [r EXCEPT !.to_get = u, !.last_seen = l]
    <3> HIDE DEF u
    <3> QED BY <1>3, <2>1 DEF PeerRecord
  <2>3. Len(r.to_get) \in Nat /\ DOMAIN r.to_get = 1 .. Len(r.to_get)
    BY <1>3, LenProperties
  <2>4. n \in 1 .. Len(r.to_get) /\ r.to_get[n] = list[1]
    <3>1. at \in SUBSET (0 .. Len(r.to_get))
      BY <2>3
    <3>2. n \in at
      <4> HIDE DEF at
      <4> QED BY <1>9, <2>3, <3>1, MaxOfBounded
    <3> HIDE DEF n
    <3> QED BY <2>3, <3>2
  <2> HIDE DEF n, at
  <2>5. 1 \in 1 .. Len(r.to_get) + 1 /\ n - 1 \in 0 .. Len(r.to_get)
    BY <2>3, <2>4
  <2>6. /\ Line(v) /\ Len(v) = IF 1 <= n - 1 THEN n - 1 - 1 + 1 ELSE 0
        /\ 1 <= n - 1 => v[1] = r.to_get[1]
        /\ \A i \in 1 .. Len(v) : v[i] = r.to_get[1 + i - 1]
    BY <1>3, <2>5, LineParts
  <2> HIDE DEF v
  <2>7. v \in Seq(Blocks) /\ Len(v) = n - 1
    BY <2>4, <2>6 DEF Line
  <2>8. ASSUME v # <<>> PROVE n - 1 >= 1 /\ v[1] = r.to_get[1] /\ Parent[list[1]] = v[Len(v)]
    <3>1. Len(v) # 0
      BY <2>7, <2>8, EmptySeq
    <3>2. n - 1 >= 1 /\ n \in 2 .. Len(r.to_get) /\ n - 1 \in 1 .. Len(v) /\ 1 + (n - 1) - 1 = n - 1
      BY <2>4, <2>7, <3>1
    <3>3. \A i \in 2 .. Len(r.to_get) : Parent[r.to_get[i]] = r.to_get[i - 1]
      BY <1>3 DEF Line
    <3>4. v[n - 1] = r.to_get[n - 1] /\ Parent[r.to_get[n]] = r.to_get[n - 1]
      BY <2>6, <3>2, <3>3
    <3> QED BY <2>4, <2>6, <2>7, <3>2, <3>4
  <2>9. Line(u)
    BY <2>6, <2>8, LinesJoined
  <2>10. u[1] = r.to_get[1]
    <3>1. /\ Len(u) = Len(v) + Len(list)
          /\ \A i \in 1 .. Len(v) + Len(list) : u[i] = IF i <= Len(v) THEN v[i] ELSE list[i - Len(v)]
      BY <1>2, <2>7, ConcatProperties
    <3> HIDE DEF u
    <3>2. 1 \in 1 .. Len(v) + Len(list) /\ (n = 1 => ~(1 <= Len(v)) /\ 1 - Len(v) = 1) /\ (n # 1 => 1 <= Len(v))
      BY <1>2, <1>9, <2>4, <2>7
    <3>3. u[1] = IF n = 1 THEN list[1] ELSE v[1]
      BY <3>1, <3>2
    <3>4. n # 1 => v # <<>>
      BY <2>4, <2>7, EmptySeq
    <3> QED BY <2>4, <2>8, <3>3, <3>4
  <2> HIDE DEF u
  <2>11. /\ Lined(x) /\ x.conn = r.conn /\ SameTalk(r, x)
         /\ x.to_get = u /\ x.last_seen = l /\ x.processing = r.processing
    BY <1>3, <1>5, <2>2, <2>9
  <2>12. ASSUME NEW h, Based(r, known, h) PROVE Based(x, known, h)
    BY <1>9, <2>10, <2>11, <2>12 DEF Based, Firm
  <2> QED BY <2>11, <2>12 DEF x
<1> QED BY <1>6, <1>7, <1>8, <1>9

(***************************************************************************)
(* Blocks that a peer was asked for are on their way.                      *)
(***************************************************************************)
LEMMA BlocksAreSent ==
  ASSUME NEW r, Lined(r), NEW u \in Seq(Blocks)
  PROVE  LET x == Sent(r, Blocked(u))
         IN  /\ Lined(x) /\ x.conn = r.conn /\ SamePlace(r, x)
             /\ Honest(r)
                /\ (\A i \in 1 .. Len(u) : u[i] \in r.asked \cup r.sync_asked)
                /\ (\A i, j \in 1 .. Len(u) : i # j => u[i] # u[j])
                /\ (\A i \in 1 .. Len(r.inbox) : r.inbox[i].kind # "block")
                => Honest(x)
<1> DEFINE msgs == Blocked(u)
           x == Sent(r, msgs)
           n == Len(r.inbox)
<1>1. Len(u) \in Nat /\ DOMAIN u = 1 .. Len(u) /\ \A i \in 1 .. Len(u) : u[i] \in Blocks
  BY LenProperties, ElementOfSeq
<1>2. /\ msgs \in Seq(Message) /\ Len(msgs) = Len(u)
      /\ \A i \in 1 .. Len(u) : msgs[i].kind = "block" /\ msgs[i].id = u[i]
  <2>1. msgs = [i \in 1 .. Len(u) |-> [kind |-> "block", id |-> u[i]]]
    BY <1>1 DEF Blocked
  <2> HIDE DEF msgs
  <2>2. \A i \in 1 .. Len(u) : [kind |-> "block", id |-> u[i]] \in Message
    BY <1>1 DEF Message
  <2>3. msgs \in [1 .. Len(u) -> Message]
    BY <2>1, <2>2
  <2>4. msgs \in Seq(Message) /\ Len(msgs) = Len(u)
    BY <1>1, <2>3, IsASeq, LenProperties
  <2> QED BY <2>1, <2>4
<1> HIDE DEF msgs
<1>3. r \in PeerRecord
  BY DEF Lined
<1>4. x \in PeerRecord /\ (x = r \/ (/\ x = [r EXCEPT !.inbox = r.inbox \o msgs]
                                     /\ n \in Nat /\ Len(x.inbox) = n + Len(u)
                                     /\ \A i \in 1 .. n : x.inbox[i] = r.inbox[i]
                                     /\ \A i \in 1 .. Len(u) : x.inbox[n + i] = msgs[i]))
  <2>1. x \in PeerRecord /\ (x = r \/ (/\ x = [r EXCEPT !.inbox = r.inbox \o msgs]
                                       /\ Len(x.inbox) = n + Len(msgs) /\ n \in Nat
                                       /\ \A i \in 1 .. n : x.inbox[i] = r.inbox[i]
                                       /\ \A i \in 1 .. Len(msgs) : x.inbox[n + i] = msgs[i]))
    BY <1>2, <1>3, SentIs
  <2>2. Len(msgs) = Len(u)
    BY <1>2
  <2> HIDE DEF x, n
  <2> QED BY <2>1, <2>2
<1>5. CASE x = r
  <2> HIDE DEF x
  <2>1. Lined(x) /\ x.conn = r.conn /\ SamePlace(r, x) /\ (Honest(r) => Honest(x))
    BY <1>5 DEF SamePlace
  <2> QED BY <2>1 DEF x, msgs
<1>6. CASE x # r
  <2>1. /\ x = [r EXCEPT !.inbox = r.inbox \o msgs]
        /\ n \in Nat /\ Len(x.inbox) = n + Len(u)
        /\ \A i \in 1 .. n : x.inbox[i] = r.inbox[i]
        /\ \A i \in 1 .. Len(u) : x.inbox[n + i] = msgs[i]
    BY <1>4, <1>6
  <2> HIDE DEF x, n
  <2>2. /\ x.conn = r.conn /\ SamePlace(r, x)
        /\ x.overtaken = r.overtaken /\ x.asked = r.asked /\ x.sync_asked = r.sync_asked
    BY <1>3, <2>1 DEF PeerRecord, SamePlace
  <2>3. \A i \in 1 .. Len(x.inbox) : \/ i \in 1 .. n /\ x.inbox[i] = r.inbox[i]
                                     \/ i - n \in 1 .. Len(u) /\ x.inbox[i] = msgs[i - n]
    <3>1. ASSUME NEW i \in 1 .. Len(x.inbox), i \notin 1 .. n
          PROVE  i - n \in 1 .. Len(u) /\ n + (i - n) = i
      BY <1>1, <2>1, <3>1
    <3> QED BY <2>1, <3>1
  <2>4. Lined(x)
    <3>1. \A i \in 1 .. Len(x.inbox) : x.inbox[i].kind = "ids" => Line(x.inbox[i].list)
      BY <1>2, <2>3 DEF Lined, n
    <3> QED BY <1>4, <2>2, <3>1 DEF Lined, SamePlace, x
  <2>5. ASSUME Honest(r),
               \A i \in 1 .. Len(u) : u[i] \in r.asked \cup r.sync_asked,
               \A i, j \in 1 .. Len(u) : i # j => u[i] # u[j],
               \A i \in 1 .. n : r.inbox[i].kind # "block"
        PROVE  Honest(x)
    <3>1. x.asked = {} \/ x.sync_asked = {}
      BY <2>2, <2>5 DEF Honest
    <3>2. ASSUME NEW i \in 1 .. Len(x.inbox)
          PROVE  /\ x.inbox[i].kind = "block" => x.inbox[i].id \in x.asked \cup x.sync_asked
                 /\ x.inbox[i].kind = "ids" /\ ~x.overtaken => x.asked_ids # <<>> /\ ValidList(x, x.inbox[i].list)
      <4>1. CASE i \in 1 .. n /\ x.inbox[i] = r.inbox[i]
        <5>1. r.inbox[i].kind = "ids" /\ ~r.overtaken => r.asked_ids # <<>> /\ ValidList(r, r.inbox[i].list)
          BY <2>5, <4>1 DEF Honest, n
        <5> QED BY <2>2, <2>5, <4>1, <5>1 DEF SamePlace, ValidList
      <4>2. CASE i - n \in 1 .. Len(u) /\ x.inbox[i] = msgs[i - n]
        BY <1>2, <2>2, <2>5, <4>2
      <4> QED BY <2>3, <4>1, <4>2
    <3>3. ASSUME NEW i \in 1 .. Len(x.inbox), NEW j \in 1 .. Len(x.inbox), i # j,
                 x.inbox[i].kind = x.inbox[j].kind, x.inbox[i].kind # "offer"
          PROVE  IF x.inbox[i].kind = "ids" THEN x.overtaken ELSE x.inbox[i].id # x.inbox[j].id
      <4>1. CASE i \in 1 .. n /\ x.inbox[i] = r.inbox[i]
        <5>1. j \in 1 .. n /\ x.inbox[j] = r.inbox[j]
          BY <1>2, <2>3, <2>5, <3>3, <4>1
        <5>2. IF r.inbox[i].kind = "ids" THEN r.overtaken ELSE r.inbox[i].id # r.inbox[j].id
          BY <2>5, <3>3, <4>1, <5>1 DEF Honest, n
        <5> QED BY <2>2, <4>1, <5>1, <5>2
      <4>2. CASE i - n \in 1 .. Len(u) /\ x.inbox[i] = msgs[i - n]
        <5>1. j - n \in 1 .. Len(u) /\ x.inbox[j] = msgs[j - n]
          BY <1>2, <2>3, <2>5, <3>3, <4>2
        <5>2. i - n # j - n
          BY <2>1, <3>3
        <5> QED BY <1>2, <2>5, <4>2, <5>1, <5>2
      <4> QED BY <2>3, <4>1, <4>2
    <3> QED BY <3>1, <3>2, <3>3 DEF Honest
  <2> QED BY <2>2, <2>4, <2>5 DEF x, n, msgs
<1> QED BY <1>5, <1>6

(***************************************************************************)
(* Nothing is sent for no blocks.                                          *)
(***************************************************************************)
LEMMA NothingIsSent ==
  ASSUME NEW r \in PeerRecord
  PROVE  Sent(r, <<>>) = r
<1>1. r.inbox \o <<>> = r.inbox
  <2>1. r.inbox \in Seq(Message)
    BY DEF PeerRecord
  <2> QED BY <2>1, ConcatEmptySeq
<1>2. [r EXCEPT !.inbox = r.inbox] = r
  BY DEF PeerRecord
<1>3. Sent(r, <<>>) = IF r.silent THEN r ELSE [r EXCEPT !.inbox = r.inbox \o <<>>]
  BY DEF Sent
<1> QED BY <1>1, <1>2, <1>3

(***************************************************************************)
(* Different places of a line have different blocks.                       *)
(***************************************************************************)
LEMMA LineIsDistinct ==
  ASSUME NEW s, Line(s)
  PROVE  \A i, j \in 1 .. Len(s) : i # j => s[i] # s[j]
<1> SUFFICES ASSUME NEW i \in 1 .. Len(s), NEW j \in 1 .. Len(s), i # j PROVE s[i] # s[j]
  OBVIOUS
<1>1. s[i] \in Blocks /\ Num(s[i]) = Num(s[1]) + i - 1 /\ Num(s[j]) = Num(s[1]) + j - 1
  BY LineNumbers
<1>2. Num(s[1]) \in Nat /\ Len(s) \in Nat
  <2>1. s \in Seq(Blocks) /\ Len(s) \in Nat
    BY LenProperties DEF Line
  <2>2. 1 \in 1 .. Len(s)
    BY <2>1
  <2>3. s[1] \in Blocks
    BY <2>1, <2>2, ElementOfSeq
  <2> QED BY <2>1, <2>3, Numbers
<1> QED BY <1>1, <1>2

(***************************************************************************)
(* What an idle peer is asked for in synchronisation is sent once.         *)
(***************************************************************************)
LEMMA AskedIs ==
  ASSUME NEW r, Lined(r), NEW bs \in SUBSET Blocks
  PROVE  LET x == Asked(r, bs)
         IN  /\ Lined(x) /\ x.conn = r.conn /\ SamePlace(r, x)
             /\ Honest(r) /\ Idle(r) => Honest(x)
<1> DEFINE v == [r EXCEPT !.sync_asked = @ \cup bs]
           u == Among(r.to_get, bs)
           x == Asked(r, bs)
<1>1. r \in PeerRecord /\ Line(r.to_get) /\ r.to_get \in Seq(Blocks)
  BY DEF Lined, PeerRecord
<1>2. /\ v \in PeerRecord /\ v.conn = r.conn /\ SamePlace(r, v) /\ v.inbox = r.inbox
      /\ v.asked = r.asked /\ v.sync_asked = r.sync_asked \cup bs /\ v.overtaken = r.overtaken
  BY <1>1 DEF PeerRecord, SamePlace
<1> HIDE DEF v
<1>3. /\ u \in Seq(Blocks) /\ \A i \in 1 .. Len(u) : u[i] \in bs
      /\ \A i, j \in 1 .. Len(u) : i # j => u[i] # u[j]
  <2>1. \A i, j \in 1 .. Len(r.to_get) : i # j => r.to_get[i] # r.to_get[j]
    BY <1>1, LineIsDistinct
  <2>2. /\ u \in Seq(Blocks)
        /\ \A i \in 1 .. Len(u) : u[i] \in bs
        /\ (\A i, j \in 1 .. Len(r.to_get) : i # j => r.to_get[i] # r.to_get[j])
                  => \A i, j \in 1 .. Len(u) : i # j => u[i] # u[j]
    BY <1>1, AmongIsPart
  <2> HIDE DEF u
  <2> QED BY <2>1, <2>2
<1>4. x = Sent(v, Blocked(u))
  BY DEF Asked, v
<1> HIDE DEF u, x
<1>5. Lined(v)
  BY <1>2 DEF Lined, SamePlace
<1>6. /\ Lined(x) /\ x.conn = v.conn /\ SamePlace(v, x)
      /\ Honest(v)
         /\ (\A i \in 1 .. Len(u) : u[i] \in v.asked \cup v.sync_asked)
         /\ (\A i, j \in 1 .. Len(u) : i # j => u[i] # u[j])
         /\ (\A i \in 1 .. Len(v.inbox) : v.inbox[i].kind # "block")
         => Honest(x)
  BY <1>3, <1>4, <1>5, BlocksAreSent
<1>7. ASSUME Honest(r), Idle(r) PROVE Honest(x)
  <2>1. \A i \in 1 .. Len(v.inbox) : v.inbox[i].kind # "block"
    BY <1>2, <1>7 DEF Honest, Idle
  <2>2. Honest(v)
    BY <1>2, <1>7, <2>1 DEF Honest, Idle, SamePlace, ValidList
  <2>3. \A i \in 1 .. Len(u) : u[i] \in v.asked \cup v.sync_asked
    BY <1>2, <1>3
  <2> QED BY <1>3, <1>6, <2>1, <2>2, <2>3
<1>8. SamePlace(r, x)
  BY <1>2, <1>6 DEF SamePlace
<1> QED BY <1>2, <1>6, <1>7, <1>8 DEF x

----------------------------------------------------------------------------
(* The inductive invariant of what the node is to get. *)

\* What holds of the record of a peer, when k is known, h is handled and l have lied.
Kept(p, r, k, h, l) ==
  /\ Lined(r)
  /\ r.conn = "active" => Rooted(r, k, h)
  /\ p \notin l => Honest(r)

\* A block waits behind its parent, if that is not known; or the chain to it is not valid.
InTurn ==
  \A i \in 1 .. Len(handling) :
    LET parent == Parent[handling[i]]
    IN  \/ parent \in known \cup {NoBlock}
        \/ parent \in Blocks /\ Invalid(parent)
        \/ \E j \in 1 .. i - 1 : handling[j] = parent

\* The types of the variables that play no part here.
OtherTypes ==
  /\ tip \in [Peers -> Blocks \cup {NoBlock}]
  /\ active \subseteq Blocks /\ wanted \subseteq Blocks /\ received \in Seq(Blocks)
  /\ suspended \in BOOLEAN /\ wake \subseteq {"sync", "items", "backlog"}

NodeInv ==
  /\ ChainOK(head, known)
  /\ handling \in Seq(Blocks) /\ Len(handling) <= MaxHandled
  /\ InTurn
  /\ DOMAIN peer = Peers
  /\ \A p \in Peers : Kept(p, peer[p], known, ToSet(handling), liars)
  /\ OnlyLiarsBlamed
  /\ OtherTypes
  /\ peer \in [Peers -> PeerRecord]

(***************************************************************************)
(* A step of the connections alone.                                        *)
(***************************************************************************)
LEMMA PeersAreKept ==
  ASSUME NodeInv, UNCHANGED <<head, known, handling>>, DOMAIN peer' = Peers,
         peer' = [p \in Peers |-> peer'[p]],
         \A p \in Peers : Kept(p, peer'[p], known, ToSet(handling), liars'),
         OnlyLiarsBlamed', OtherTypes'
  PROVE  NodeInv'
<1>1. \A p \in Peers : peer'[p] \in PeerRecord
  BY DEF Kept, Lined
<1>2. (peer \in [Peers -> PeerRecord])'
  BY <1>1
<1>3. ChainOK(head, known)' /\ InTurn'
  BY DEF NodeInv, ChainOK, InTurn, Invalid
<1> QED BY <1>2, <1>3 DEF NodeInv

(***************************************************************************)
(* A step of one connection.                                               *)
(***************************************************************************)
LEMMA OneIsKept ==
  ASSUME NodeInv, UNCHANGED <<head, known, handling>>, NEW p \in Peers, NEW x,
         peer' = [peer EXCEPT ![p] = x], Kept(p, x, known, ToSet(handling), liars'),
         liars \subseteq liars', OnlyLiarsBlamed', OtherTypes'
  PROVE  NodeInv'
<1>1. DOMAIN peer' = Peers /\ \A q \in Peers : peer'[q] = IF q = p THEN x ELSE peer[q]
  BY DEF NodeInv
<1>2. peer' = [q \in Peers |-> peer'[q]]
  BY <1>1 DEF NodeInv
<1>3. ASSUME NEW q \in Peers PROVE Kept(q, peer'[q], known, ToSet(handling), liars')
  <2>1. CASE q = p
    BY <1>1, <2>1
  <2>2. CASE q # p
    <3>1. Kept(q, peer[q], known, ToSet(handling), liars) /\ peer'[q] = peer[q]
      BY <1>1, <2>2 DEF NodeInv
    <3> QED BY <3>1 DEF Kept
  <2> QED BY <2>1, <2>2
<1> QED BY <1>1, <1>2, <1>3, PeersAreKept

(***************************************************************************)
(* A connection that is none, and one that was just established.           *)
(***************************************************************************)
LEMMA NewRecords ==
  ASSUME NEW c \in {"none", "active"}, NEW k, NEW h
  PROVE  LET r == [Gone EXCEPT !.conn = c]
         IN  Lined(r) /\ r.conn = c /\ Based(r, k, h) /\ Honest(r)
<1> DEFINE e == <<>>
           r == [Gone EXCEPT !.conn = c]
<1>1. /\ r.conn = c /\ r.to_get = e /\ r.processing = {} /\ r.last_seen = NoBlock
      /\ r.asked = {} /\ r.sync_asked = {} /\ r.inbox = e
  BY DEF Gone
<1>2. e \in Seq(Blocks) /\ e \in Seq(Message) /\ e \in Seq(Seq(Blocks)) /\ Len(e) = 0 /\ Line(e)
  BY EmptySeq DEF Line
<1>3. r \in PeerRecord
  <2>1. Gone = [conn |-> "none", need |-> TRUE, they_need |-> TRUE, to_get |-> e, processing |-> {},
                unfetched |-> 0, asked_ids |-> e, sync_asked |-> {}, asked |-> {}, offered |-> {},
                last_seen |-> NoBlock, inhibit |-> FALSE, inbox |-> e, silent |-> FALSE, behind |-> TRUE,
                overtaken |-> FALSE]
    BY DEF Gone
  <2> HIDE DEF e
  <2>2. Gone \in PeerRecord
    BY <1>2, <2>1 DEF PeerRecord
  <2> QED BY <2>2, FieldChanges
<1> HIDE DEF r
<1>4. Lined(r) /\ Honest(r)
  <2> HIDE DEF e
  <2> QED BY <1>1, <1>2, <1>3 DEF Lined, Honest
<1>5. Based(r, k, h)
  BY <1>1 DEF Based, Firm
<1> QED BY <1>1, <1>4, <1>5 DEF r

(***************************************************************************)
(* A connection is established, or closed.                                 *)
(***************************************************************************)
LEMMA ConnectKept == ASSUME NodeInv, NEW p \in Peers, Connect(p) PROVE NodeInv'
<1> DEFINE r == [Gone EXCEPT !.conn = "active"]
           x == StartSync(head, tip[p], r)
<1>1. peer' = [peer EXCEPT ![p] = x]
  BY DEF Connect
<1>2. UNCHANGED <<head, known, handling, tip, active, received, suspended, wanted, wake, blamed, liars>>
  BY DEF Connect, history, chain
<1>3. /\ Lined(r) /\ r.conn = "active" /\ Based(r, known, ToSet(handling)) /\ Honest(r)
      /\ tip[p] \in Blocks \cup {NoBlock} /\ head \in Blocks \cup {NoBlock}
  BY NewRecords DEF NodeInv, OtherTypes, ChainOK
<1> HIDE DEF r
<1>4. Lined(x) /\ x.conn = r.conn /\ Rooted(x, known, ToSet(handling)) /\ Honest(x)
  BY <1>3, StartSyncIs DEF NodeInv
<1> HIDE DEF x
<1>5. Kept(p, x, known, ToSet(handling), liars')
  BY <1>4 DEF Kept
<1>6. OnlyLiarsBlamed' /\ OtherTypes'
  BY <1>2 DEF NodeInv, OnlyLiarsBlamed, OtherTypes
<1> QED BY <1>1, <1>2, <1>5, <1>6, OneIsKept

LEMMA ClosedKept == ASSUME NodeInv, NEW p \in Peers, Closed(p) PROVE NodeInv'
<1>1. /\ peer' = [peer EXCEPT ![p] = Gone] /\ active' = active \ Forgotten(peer[p])
      /\ wanted' \subseteq wanted \cup peer[p].asked
      /\ wake' \subseteq wake \cup {"sync", "items"}
      /\ UNCHANGED <<head, known, handling, tip, received, suspended, blamed, liars>>
  BY DEF Closed, Wake, chain
<1>2. [Gone EXCEPT !.conn = "none"] = Gone
  <2>1. Gone.conn = "none" /\ Gone = [f \in DOMAIN Gone |-> Gone[f]]
    BY DEF Gone
  <2> QED BY <2>1
<1>3. Lined(Gone) /\ Gone.conn = "none" /\ Honest(Gone)
  BY <1>2, NewRecords
<1>4. Kept(p, Gone, known, ToSet(handling), liars')
  <2>1. "none" # "active"
    OBVIOUS
  <2> QED BY <1>3, <2>1 DEF Kept
<1>5. peer[p].asked \subseteq Blocks
  BY DEF NodeInv, PeerRecord
<1>6. OnlyLiarsBlamed' /\ OtherTypes'
  BY <1>1, <1>5 DEF NodeInv, OnlyLiarsBlamed, OtherTypes
<1> QED BY <1>1, <1>4, <1>6, OneIsKept

(***************************************************************************)
(* A peer falls silent, or sends what it was not asked for.                *)
(***************************************************************************)
LEMMA FaultKept ==
  ASSUME NodeInv, NEW p \in Peers, FallSilent(p) \/ Misbehave(p)
  PROVE  NodeInv'
<1>1. UNCHANGED <<head, known, handling, tip, active, received, suspended, wanted, wake, blamed>>
  BY DEF FallSilent, Misbehave, chain
<1>2. /\ Kept(p, peer[p], known, ToSet(handling), liars) /\ Lined(peer[p])
      /\ peer[p] \in PeerRecord /\ peer[p].inbox \in Seq(Message)
  BY DEF NodeInv, Kept, PeerRecord
<1>3. liars \subseteq liars' /\ OnlyLiarsBlamed' /\ OtherTypes'
  BY <1>1 DEF NodeInv, OnlyLiarsBlamed, OtherTypes, FallSilent, Misbehave
<1>4. CASE FallSilent(p)
  <2> DEFINE x == [peer[p] EXCEPT !.silent = TRUE]
  <2>1. peer' = [peer EXCEPT ![p] = x] /\ liars' = liars
    BY <1>4 DEF FallSilent
  <2>2. x \in PeerRecord /\ SamePlace(peer[p], x) /\ SameTalk(peer[p], x) /\ x.conn = peer[p].conn
    BY <1>2 DEF PeerRecord, SamePlace, SameTalk
  <2> HIDE DEF x
  <2>3. Lined(x)
    BY <1>2, <2>2 DEF Lined, SamePlace, SameTalk
  <2>4. Kept(p, x, known, ToSet(handling), liars')
    BY <1>2, <2>1, <2>2, <2>3, PlaceStays, TalkStays DEF Kept
  <2> QED BY <1>1, <1>3, <2>1, <2>4, OneIsKept
<1>5. CASE Misbehave(p)
  <2>1. PICK b \in Blocks :
          \E m \in {[kind |-> "block", id |-> b], [kind |-> "ids", list |-> <<b>>, remaining |-> 0]} :
            peer' = [peer EXCEPT ![p].inbox = <<m>> \o @]
    BY <1>5 DEF Misbehave
  <2>2. PICK m \in {[kind |-> "block", id |-> b], [kind |-> "ids", list |-> <<b>>, remaining |-> 0]} :
          peer' = [peer EXCEPT ![p].inbox = <<m>> \o @]
    BY <2>1
  <2>3. liars' = liars \cup {p}
    BY <1>5 DEF Misbehave
  <2>4. m \in Message /\ (m.kind = "ids" => Line(m.list))
    <3>1. CASE m = [kind |-> "block", id |-> b]
      BY <3>1 DEF Message
    <3>2. CASE m = [kind |-> "ids", list |-> <<b>>, remaining |-> 0]
      <4>1. <<b>> \in Seq(Blocks) /\ Len(<<b>>) = 1
        OBVIOUS
      <4>2. Line(<<b>>)
        BY <4>1 DEF Line
      <4> QED BY <3>2, <4>1, <4>2 DEF Message, Answer
    <3> QED BY <3>1, <3>2
  <2> DEFINE u == <<m>> \o peer[p].inbox
             x == [peer[p] EXCEPT !.inbox = u]
  <2>5. peer' = [peer EXCEPT ![p] = x]
    BY <2>2 DEF NodeInv
  <2>6. /\ u \in Seq(Message)
        /\ \A i \in 1 .. Len(u) : u[i] = m \/ \E j \in 1 .. Len(peer[p].inbox) : u[i] = peer[p].inbox[j]
    <3>1. <<m>> \in Seq(Message) /\ Len(<<m>>) = 1 /\ <<m>>[1] = m
      BY <2>4
    <3>2. /\ u \in Seq(Message) /\ Len(u) = 1 + Len(peer[p].inbox) /\ Len(peer[p].inbox) \in Nat
          /\ \A i \in 1 .. Len(<<m>>) + Len(peer[p].inbox) :
               u[i] = IF i <= Len(<<m>>) THEN <<m>>[i] ELSE peer[p].inbox[i - Len(<<m>>)]
      BY <1>2, <3>1, ConcatProperties, LenProperties
    <3> HIDE DEF u
    <3>3. ASSUME NEW i \in 1 .. Len(u) PROVE u[i] = m \/ \E j \in 1 .. Len(peer[p].inbox) : u[i] = peer[p].inbox[j]
      <4>1. i \in 1 .. 1 + Len(peer[p].inbox)
        BY <3>2
      <4>2. CASE i = 1
        BY <3>1, <3>2, <4>1, <4>2
      <4>3. CASE i # 1
        <5>1. i - 1 \in 1 .. Len(peer[p].inbox) /\ ~(i <= 1)
          BY <3>2, <4>1, <4>3
        <5> QED BY <3>1, <3>2, <4>1, <5>1
      <4> QED BY <4>2, <4>3
    <3> QED BY <3>2, <3>3
  <2> HIDE DEF u
  <2>7. x \in PeerRecord /\ SamePlace(peer[p], x) /\ x.conn = peer[p].conn /\ x.inbox = u
    BY <1>2, <2>6 DEF PeerRecord, SamePlace
  <2> HIDE DEF x
  <2>8. Lined(x)
    BY <1>2, <2>4, <2>6, <2>7 DEF Lined, SamePlace
  <2>9. Kept(p, x, known, ToSet(handling), liars')
    BY <1>2, <2>7, <2>8, <2>3, PlaceStays DEF Kept
  <2> QED BY <1>1, <1>3, <2>5, <2>9, OneIsKept
<1> QED BY <1>4, <1>5

(***************************************************************************)
(* What a peer is asked for is in its list.                                *)
(***************************************************************************)
LEMMA SharesAreListed ==
  ASSUME NodeInv, NEW p \in Peers, NEW taken
  PROVE  ToFetch(peer[p], taken) \in SUBSET Blocks
<1>1. peer[p].to_get \in Seq(Blocks)
  BY DEF NodeInv, PeerRecord
<1>2. \A i \in DOMAIN peer[p].to_get : peer[p].to_get[i] \in Blocks
  BY <1>1, LenProperties, ElementOfSeq
<1> QED BY <1>2 DEF ToFetch, FirstOf

(***************************************************************************)
(* The loop that divides the blocks.                                       *)
(***************************************************************************)
LEMMA FetchSyncKept == ASSUME NodeInv, FetchSyncItems PROVE NodeInv'
<1>1. /\ UNCHANGED <<head, known, handling, tip, received, suspended, wanted, blamed, liars>>
      /\ wake' \subseteq wake
  BY DEF FetchSyncItems, chain, history
<1>2. OnlyLiarsBlamed'
  BY <1>1 DEF NodeInv, OnlyLiarsBlamed
<1>3. CASE suspended
  <2>1. peer' = peer /\ active' = active
    BY <1>3 DEF FetchSyncItems
  <2>2. DOMAIN peer' = Peers /\ peer' = [p \in Peers |-> peer'[p]] /\ OtherTypes'
    BY <1>1, <2>1 DEF NodeInv, OtherTypes
  <2>3. \A p \in Peers : Kept(p, peer'[p], known, ToSet(handling), liars')
    BY <1>1, <2>1 DEF NodeInv
  <2> QED BY <1>1, <1>2, <2>2, <2>3, PeersAreKept
<1>4. CASE ~suspended
  <2>1. PICK L, order, u, share :
          /\ L \in Nat
          /\ order \in [1 .. L -> Ready] /\ DOMAIN order = 1 .. L /\ Len(order) = L
          /\ \A i, j \in 1 .. L : i # j => order[i] # order[j]
          /\ u = Requested(order) /\ SharesOf(share, order, u, L)
          /\ active' = active \cup u[L] /\ DOMAIN peer' = Peers /\ peer' = [p \in Peers |-> peer'[p]]
          /\ \A p \in Peers :
               IF p \in ToSet(order)
               THEN \E n \in 1 .. L : order[n] = p /\ peer'[p] = Asked(peer[p], share[n])
               ELSE peer'[p] = peer[p]
    BY <1>4, FetchSyncOrder
  <2>2. \A n \in 1 .. L : order[n] \in Ready /\ order[n] \in Peers /\ share[n] \in SUBSET Blocks
    <3> SUFFICES ASSUME NEW n \in 1 .. L
                 PROVE  order[n] \in Ready /\ order[n] \in Peers /\ share[n] \in SUBSET Blocks
      OBVIOUS
    <3>1. order[n] \in Ready /\ order[n] \in Peers
      BY <2>1 DEF Ready
    <3>2. share[n] = ToFetch(peer[order[n]], active \cup u[n - 1])
      BY <2>1 DEF SharesOf
    <3> QED BY <3>1, <3>2, SharesAreListed
  <2>3. u[L] \subseteq Blocks
    <3>1. \A b \in u[L] : \E n \in 1 .. L : b \in share[n]
      BY ONLY <2>1, SharesAreNew
    <3> QED BY <2>2, <3>1
  <2>4. ASSUME NEW p \in Peers PROVE Kept(p, peer'[p], known, ToSet(handling), liars')
    <3>1. Kept(p, peer[p], known, ToSet(handling), liars)
      BY DEF NodeInv
    <3>2. CASE p \notin ToSet(order)
      BY <1>1, <2>1, <3>1, <3>2
    <3>3. CASE p \in ToSet(order)
      <4>1. PICK n \in 1 .. L : order[n] = p /\ peer'[p] = Asked(peer[p], share[n])
        BY <2>1, <3>3
      <4>2. Idle(peer[p]) /\ share[n] \in SUBSET Blocks
        BY <2>2, <4>1 DEF Ready
      <4>3. /\ Lined(peer'[p]) /\ peer'[p].conn = peer[p].conn /\ SamePlace(peer[p], peer'[p])
            /\ Honest(peer[p]) => Honest(peer'[p])
        BY <3>1, <4>1, <4>2, AskedIs DEF Kept
      <4> QED BY <1>1, <3>1, <4>3, PlaceStays DEF Kept
    <3> QED BY <3>2, <3>3
  <2>5. OtherTypes'
    BY <1>1, <2>1, <2>3 DEF NodeInv, OtherTypes
  <2> QED BY <1>1, <1>2, <2>1, <2>4, <2>5, PeersAreKept
<1> QED BY <1>3, <1>4

(***************************************************************************)
(* A set of one element at most, as a sequence.                            *)
(***************************************************************************)
LEMMA OneAsSequence ==
  ASSUME NEW bs \in SUBSET Blocks, \A b, c \in bs : b = c
  PROVE  LET u == SetToSeq(bs)
         IN  /\ u \in Seq(Blocks) /\ \A i \in 1 .. Len(u) : u[i] \in bs
             /\ \A i, j \in 1 .. Len(u) : i = j
             /\ bs = {} => u = <<>>
<1> DEFINE n == Cardinality(bs)
           u == SetToSeq(bs)
<1>1. n \in {0, 1} /\ (n = 0 <=> bs = {})
  <2>1. CASE bs = {}
    BY <2>1, FS_EmptySet
  <2>2. CASE bs # {}
    <3>1. PICK b : bs = {b}
      BY <2>2
    <3> QED BY <2>2, <3>1, FS_Singleton
  <2> QED BY <2>1, <2>2
<1> HIDE DEF n
<1>2. u \in [1 .. n -> bs]
  <2>1. \E f \in [1 .. n -> bs] : IsInjective(f)
    <3>1. CASE bs = {}
      <4> DEFINE f == [i \in 1 .. n |-> i]
      <4>1. f \in [1 .. n -> bs] /\ IsInjective(f)
        BY <1>1, <3>1 DEF IsInjective
      <4> QED BY <4>1
    <3>2. CASE bs # {}
      <4>1. PICK b \in bs : TRUE
        BY <3>2
      <4> DEFINE f == [i \in 1 .. n |-> b]
      <4>2. f \in [1 .. n -> bs] /\ IsInjective(f)
        BY <1>1, <3>2 DEF IsInjective
      <4> QED BY <4>2
    <3> QED BY <3>1, <3>2
  <2>2. u = CHOOSE f \in [1 .. n -> bs] : IsInjective(f)
    BY DEF SetToSeq, n
  <2> HIDE DEF u
  <2> QED BY <2>1, <2>2
<1> HIDE DEF u
<1>3. u \in Seq(bs)
  BY <1>1, <1>2, IsASeq
<1>4. Len(u) = n
  BY <1>1, <1>2, <1>3, LenProperties
<1>5. u \in Seq(Blocks)
  <2>1. u \in [1 .. n -> Blocks]
    BY <1>2
  <2> QED BY <1>1, <2>1, IsASeq
<1>6. \A i \in 1 .. Len(u) : u[i] \in bs
  BY <1>2, <1>4
<1>7. \A i, j \in 1 .. Len(u) : i = j
  BY <1>1, <1>4
<1>8. bs = {} => u = <<>>
  BY <1>1, <1>3, <1>4, EmptySeq
<1> QED BY <1>5, <1>6, <1>7, <1>8 DEF u

(***************************************************************************)
(* The loop that fetches items: one of an idle peer at a time.             *)
(***************************************************************************)
LEMMA FetchItemsKept == ASSUME NodeInv, FetchItems PROVE NodeInv'
<1>1. PICK of \in [wanted -> {p \in Peers : On(p) /\ Idle(peer[p])} \cup {"nobody"}] :
        LET chosen == {b \in wanted : of[b] # "nobody"} IN
        /\ \A b, c \in chosen : of[b] = of[c] => b = c
        /\ peer' = [p \in Peers |->
                      LET bs == {b \in chosen : of[b] = p}
                      IN  Sent([peer[p] EXCEPT !.asked = @ \cup bs], Blocked(SetToSeq(bs)))]
        /\ wanted' = wanted \ chosen
  BY DEF FetchItems
<1> DEFINE chosen == {b \in wanted : of[b] # "nobody"}
           share(p) == {b \in chosen : of[b] = p}
<1>2. /\ UNCHANGED <<head, known, handling, tip, active, received, suspended, blamed, liars>>
      /\ wake' \subseteq wake /\ wanted' \subseteq wanted
      /\ DOMAIN peer' = Peers /\ peer' = [p \in Peers |-> peer'[p]]
  <2>1. /\ UNCHANGED <<head, known, handling, tip, active, received, suspended, blamed, liars>>
        /\ wake' \subseteq wake
    BY DEF FetchItems, chain, history
  <2>2. wanted' \subseteq wanted /\ DOMAIN peer' = Peers /\ peer' = [p \in Peers |-> peer'[p]]
    BY <1>1
  <2> QED BY <2>1, <2>2
<1>3. OnlyLiarsBlamed' /\ OtherTypes'
  BY <1>2 DEF NodeInv, OnlyLiarsBlamed, OtherTypes
<1>4. ASSUME NEW p \in Peers PROVE Kept(p, peer'[p], known, ToSet(handling), liars')
  <2> DEFINE bs == share(p)
             v  == [peer[p] EXCEPT !.asked = @ \cup bs]
             u  == SetToSeq(bs)
  <2>1. peer'[p] = Sent(v, Blocked(u))
    BY <1>1
  <2>2. Kept(p, peer[p], known, ToSet(handling), liars) /\ peer[p] \in PeerRecord /\ Lined(peer[p])
    BY DEF NodeInv, Kept
  <2>3. /\ bs \in SUBSET Blocks /\ \A b, c \in bs : b = c
        /\ bs # {} => Idle(peer[p])
    <3>1. wanted \subseteq Blocks
      BY DEF NodeInv, OtherTypes
    <3>2. ASSUME NEW b \in bs PROVE Idle(peer[p])
      <4>1. b \in wanted /\ of[b] # "nobody" /\ of[b] = p
        OBVIOUS
      <4>2. of[b] \in {q \in Peers : On(q) /\ Idle(peer[q])}
        BY <1>1, <4>1
      <4> QED BY <4>1, <4>2
    <3> QED BY <1>1, <3>1, <3>2
  <2> HIDE DEF bs
  <2>4. /\ v \in PeerRecord /\ v.conn = peer[p].conn /\ SamePlace(peer[p], v) /\ v.inbox = peer[p].inbox
        /\ v.asked = peer[p].asked \cup bs /\ v.sync_asked = peer[p].sync_asked /\ v.overtaken = peer[p].overtaken
    BY <2>2, <2>3 DEF PeerRecord, SamePlace
  <2> HIDE DEF v
  <2>5. Lined(v)
    BY <2>2, <2>4 DEF Lined, SamePlace
  <2>6. /\ u \in Seq(Blocks) /\ \A i \in 1 .. Len(u) : u[i] \in bs
        /\ \A i, j \in 1 .. Len(u) : i = j
        /\ bs = {} => u = <<>>
    BY <2>3, OneAsSequence
  <2> HIDE DEF u
  <2> DEFINE x == Sent(v, Blocked(u))
  <2>7. /\ Lined(x) /\ x.conn = v.conn /\ SamePlace(v, x)
        /\ Honest(v)
           /\ (\A i \in 1 .. Len(u) : u[i] \in v.asked \cup v.sync_asked)
           /\ (\A i, j \in 1 .. Len(u) : i # j => u[i] # u[j])
           /\ (\A i \in 1 .. Len(v.inbox) : v.inbox[i].kind # "block")
           => Honest(x)
    BY <2>5, <2>6, BlocksAreSent
  <2>8. ASSUME Honest(peer[p]) PROVE Honest(x)
    <3>1. CASE bs = {}
      <4>1. Honest(v)
        BY <2>4, <2>8, <3>1 DEF Honest, SamePlace, ValidList
      <4>2. Blocked(u) = <<>>
        <5>1. u = <<>>
          BY <2>6, <3>1
        <5>2. Blocked(<<>>) = <<>>
          BY DEF Blocked
        <5> QED BY <5>1, <5>2
      <4>3. x = v
        BY <2>4, <4>2, NothingIsSent
      <4> HIDE DEF x
      <4> QED BY <4>1, <4>3
    <3>2. CASE bs # {}
      <4>1. Idle(peer[p])
        BY <2>3, <3>2
      <4>2. \A i \in 1 .. Len(v.inbox) : v.inbox[i].kind # "block"
        BY <2>4, <2>8, <4>1 DEF Honest, Idle
      <4>3. Honest(v)
        BY <2>4, <2>8, <4>1, <4>2 DEF Honest, Idle, SamePlace, ValidList
      <4> QED BY <2>4, <2>6, <2>7, <4>2, <4>3
    <3> QED BY <3>1, <3>2
  <2> HIDE DEF x
  <2>9. SamePlace(peer[p], x) /\ x.conn = peer[p].conn
    BY <2>4, <2>7 DEF SamePlace
  <2>10. Kept(p, x, known, ToSet(handling), liars)
    BY <2>2, <2>7, <2>8, <2>9, PlaceStays DEF Kept
  <2> QED BY <1>2, <2>1, <2>10 DEF x
<1> QED BY <1>2, <1>3, <1>4, PeersAreKept

(***************************************************************************)
(* The smallest of some numbers is one of them.                            *)
(***************************************************************************)
LEMMA MinOfNumbers ==
  ASSUME NEW S \in SUBSET Nat, S # {}
  PROVE  Min(S) \in S
<1>1. PICK x \in S : \A y \in S : ~(<<y, x>> \in OpToRel(<, Nat))
  BY NatLessThanWellFounded, WFMin
<1>2. ASSUME NEW y \in S PROVE x <= y
  <2>1. ~(y < x)
    BY <1>1 DEF OpToRel
  <2> QED BY <2>1
<1> QED BY <1>2, Zenon DEF Min

(***************************************************************************)
(* A block moves from the lists of the peers to what is processed for      *)
(* them, when it is known or handled.                                      *)
(***************************************************************************)
LEMMA TakenIs ==
  ASSUME NodeInv, NEW b \in Blocks, NEW h, ToSet(handling) \subseteq h, b \in known \cup h,
         NEW p \in Peers
  PROVE  Kept(p, Taken(b)[p], known, h, liars)
<1> DEFINE r == peer[p]
           x == [r EXCEPT !.to_get = Tail(r.to_get), !.processing = r.processing \cup {b}]
<1>1. /\ Lined(r) /\ (r.conn = "active" => Rooted(r, known, ToSet(handling)))
      /\ p \notin liars => Honest(r)
  BY DEF NodeInv, Kept
<1>2. r.conn = "active" => Rooted(r, known, h)
  <2>1. ASSUME r.conn = "active" PROVE r.processing \subseteq known \cup h
    <3>1. r.processing \subseteq known \cup ToSet(handling)
      BY <1>1, <2>1 DEF Rooted, Based
    <3> QED BY <3>1
  <2> QED BY <1>1, <2>1, MoreIsKnown
<1>3. CASE p \notin Waiting(b)
  <2>1. Taken(b)[p] = r
    BY <1>3 DEF Taken
  <2> QED BY <1>1, <1>2, <2>1 DEF Kept
<1>4. CASE p \in Waiting(b)
  <2>1. Taken(b)[p] = x
    BY <1>4 DEF Taken
  <2>2. r.conn = "active" /\ r.to_get # <<>> /\ r.to_get[1] = b
    BY <1>4 DEF Waiting, On
  <2> DEFINE u == Tail(r.to_get)
             n == Len(r.to_get)
  <2>3. Line(r.to_get) /\ r \in PeerRecord /\ r.processing \subseteq Blocks
    BY <1>1 DEF Lined, PeerRecord
  <2>4. /\ Line(u) /\ Len(u) = n - 1 /\ n \in Nat /\ n # 0 /\ u \in Seq(Blocks)
        /\ \A i \in 1 .. n - 1 : u[i] = r.to_get[i + 1]
    BY <2>2, <2>3, LineParts, LenProperties, EmptySeq DEF Line
  <2> HIDE DEF u
  <2>5. /\ x \in PeerRecord /\ x.to_get = u /\ x.processing = r.processing \cup {b}
        /\ x.last_seen = r.last_seen /\ x.conn = r.conn /\ SameTalk(r, x)
    <3>1. x = [r EXCEPT !.to_get = u, !.processing = r.processing \cup {b}]
      BY DEF u
    <3> HIDE DEF x
    <3> QED BY <2>3, <2>4, <3>1 DEF PeerRecord, SameTalk
  <2> HIDE DEF x
  <2>6. Lined(x)
    BY <1>1, <2>4, <2>5 DEF Lined, SameTalk
  <2>7. Based(x, known, h)
    <3>1. u # <<>> => Parent[u[1]] = b
      <4> SUFFICES ASSUME u # <<>> PROVE Parent[u[1]] = b
        OBVIOUS
      <4>1. Len(u) # 0
        BY <2>4, EmptySeq
      <4>2. 1 \in 1 .. n - 1 /\ 2 \in 2 .. n /\ 1 + 1 = 2 /\ 2 - 1 = 1
        BY <2>4, <4>1
      <4>3. u[1] = r.to_get[2]
        BY <2>4, <4>2
      <4>4. Parent[r.to_get[2]] = r.to_get[1]
        BY <2>3, <4>2 DEF Line
      <4> QED BY <2>2, <4>3, <4>4
    <3>2. Based(r, known, h)
      BY <1>2, <2>2 DEF Rooted
    <3> QED BY <2>2, <2>5, <3>1, <3>2 DEF Based, Firm
  <2>8. x.asked_ids # <<>> => Covers(x.asked_ids[1], x, known)
    <3> SUFFICES ASSUME x.asked_ids # <<>> PROVE Covers(x.asked_ids[1], x, known)
      OBVIOUS
    <3> DEFINE s == r.asked_ids[1]
    <3>1. x.asked_ids[1] = s /\ Covers(s, r, known)
      BY <1>2, <2>2, <2>5 DEF Rooted, SameTalk
    <3> HIDE DEF s
    <3>2. s # <<>>
      BY <2>2, <3>1 DEF Covers
    <3>3. ASSUME NEW i \in 1 .. Len(s)
          PROVE  s[i] \in Firm(x, known) \/ \E j \in 1 .. Len(x.to_get) : s[i] = x.to_get[j]
      <4>1. CASE s[i] \in Firm(r, known)
        BY <2>5, <4>1 DEF Firm
      <4>2. CASE s[i] \notin Firm(r, known)
        <5>1. PICK j \in 1 .. n : s[i] = r.to_get[j]
          BY <3>1, <4>2 DEF Covers
        <5>2. CASE j = 1
          BY <2>2, <2>5, <5>1, <5>2 DEF Firm
        <5>3. CASE j # 1
          <6>1. j - 1 \in 1 .. n - 1 /\ j - 1 + 1 = j
            BY <2>4, <5>1, <5>3
          <6>2. u[j - 1] = r.to_get[j]
            BY <2>4, <6>1
          <6> QED BY <2>4, <2>5, <5>1, <6>1, <6>2
        <5> QED BY <5>2, <5>3
      <4> QED BY <4>1, <4>2
    <3> QED BY <3>1, <3>2, <3>3 DEF Covers
  <2>9. p \notin liars => Honest(x)
    BY <1>1, <2>5, TalkStays
  <2> QED BY <2>1, <2>6, <2>7, <2>8, <2>9 DEF Kept, Rooted
<1> QED BY <1>3, <1>4

(***************************************************************************)
(* The block that the backlog loop takes is one of those received, and its *)
(* parent is known or was handed over.                                     *)
(***************************************************************************)
LEMMA NextOfBacklog ==
  ASSUME NodeInv, FirstBlocks # {}
  PROVE  LET i == Min(FirstBlocks)
         IN  /\ i \in 1 .. Len(received) /\ received[i] \in Blocks /\ RemoveAt(received, i) \in Seq(Blocks)
             /\ Parent[received[i]] \in known \cup {NoBlock} \cup ToSet(handling)
<1> DEFINE i == Min(FirstBlocks)
<1>1. received \in Seq(Blocks) /\ Len(received) \in Nat /\ DOMAIN received = 1 .. Len(received)
  BY LenProperties DEF NodeInv, OtherTypes
<1>2. FirstBlocks \in SUBSET Nat
  BY <1>1 DEF FirstBlocks
<1>3. i \in FirstBlocks
  BY <1>2, MinOfNumbers
<1> HIDE DEF i
<1>4. i \in 1 .. Len(received) /\ Waiting(received[i]) # {}
  BY <1>1, <1>3 DEF FirstBlocks
<1>5. \A j \in 1 .. Len(received) : received[j] \in Blocks
  BY <1>1, ElementOfSeq
<1>6. RemoveAt(received, i) \in Seq(Blocks)
  <2>1. /\ 1 \in Int /\ i - 1 \in Int /\ i + 1 \in Int /\ Len(received) \in Int
        /\ \A j \in 1 .. i - 1 : received[j] \in Blocks
        /\ \A j \in i + 1 .. Len(received) : received[j] \in Blocks
    BY <1>1, <1>4, <1>5
  <2>2. SubSeq(received, 1, i - 1) \in Seq(Blocks) /\ SubSeq(received, i + 1, Len(received)) \in Seq(Blocks)
    BY <2>1, SubSeqProperties
  <2> QED BY <2>2, ConcatProperties DEF RemoveAt
<1> DEFINE b == received[i]
<1>7. Parent[b] \in known \cup {NoBlock} \cup ToSet(handling)
  <2>1. PICK p \in Peers : p \in Waiting(b)
    BY <1>4 DEF Waiting
  <2>2. peer[p].conn = "active" /\ peer[p].to_get # <<>> /\ peer[p].to_get[1] = b
    BY <2>1 DEF Waiting, On
  <2>3. Based(peer[p], known, ToSet(handling))
    BY <2>2 DEF NodeInv, Kept, Rooted
  <2> QED BY <2>2, <2>3 DEF Based, Firm
<1> QED BY <1>4, <1>5, <1>6, <1>7 DEF i

LEMMA BacklogKept == ASSUME NodeInv, ProcessBacklog PROVE NodeInv'
<1>1. /\ UNCHANGED <<head, known, tip, active, wanted, blamed, liars>> /\ wake' \subseteq wake \cup {"sync"}
      /\ suspended' \in BOOLEAN
  <2>1. /\ UNCHANGED <<head, known, tip, active, wanted, blamed, liars>>
        /\ wake' \subseteq wake \cup {"sync"}
    BY DEF ProcessBacklog, LeaveBacklog, ProcessBlock, EndBacklog, chain, history
  <2>2. ASSUME LeaveBacklog PROVE suspended' \in BOOLEAN
    BY <2>2 DEF NodeInv, OtherTypes, LeaveBacklog
  <2>3. ASSUME ProcessBlock PROVE suspended' \in BOOLEAN
    <3>1. suspended' = FALSE \/ suspended' = (Len(received') >= MaxReceived)
      BY <2>3 DEF ProcessBlock
    <3> DEFINE full == Len(received') >= MaxReceived
    <3>2. full \in BOOLEAN
      OBVIOUS
    <3> HIDE DEF full
    <3> QED BY <3>1, <3>2, Zenon DEF full
  <2>4. ASSUME EndBacklog PROVE suspended' \in BOOLEAN
    BY <2>4 DEF EndBacklog
  <2> QED BY <2>1, <2>2, <2>3, <2>4 DEF ProcessBacklog
<1>2. OnlyLiarsBlamed'
  BY <1>1 DEF NodeInv, OnlyLiarsBlamed
<1>3. CASE LeaveBacklog
  <2>1. UNCHANGED <<head, known, handling, received, peer>>
    BY <1>3 DEF LeaveBacklog, chain
  <2>2. DOMAIN peer' = Peers /\ peer' = [p \in Peers |-> peer'[p]] /\ OtherTypes'
    BY <1>1, <2>1 DEF NodeInv, OtherTypes
  <2>3. \A p \in Peers : Kept(p, peer'[p], known, ToSet(handling), liars')
    BY <1>1, <2>1 DEF NodeInv
  <2> QED BY <1>2, <2>1, <2>2, <2>3, PeersAreKept
<1>4. CASE EndBacklog
  <2>1. UNCHANGED <<head, known, handling, received>>
    BY <1>4 DEF EndBacklog, chain
  <2>2. OtherTypes'
    BY <1>1, <2>1 DEF NodeInv, OtherTypes
  <2>3. CASE FirstBlocks = {}
    <3>1. peer' = peer
      BY <1>4, <2>3 DEF EndBacklog
    <3>2. DOMAIN peer' = Peers /\ peer' = [p \in Peers |-> peer'[p]]
      BY <3>1 DEF NodeInv
    <3>3. \A p \in Peers : Kept(p, peer'[p], known, ToSet(handling), liars')
      BY <1>1, <3>1 DEF NodeInv
    <3> QED BY <1>2, <2>1, <2>2, <3>2, <3>3, PeersAreKept
  <2>4. CASE FirstBlocks # {}
    <3> DEFINE b == received[Min(FirstBlocks)]
    <3>1. b \in known /\ peer' = Taken(b)
      BY <1>4, <2>4 DEF EndBacklog
    <3>2. b \in Blocks
      BY <2>4, NextOfBacklog
    <3> HIDE DEF b
    <3>3. \A p \in Peers : Kept(p, peer'[p], known, ToSet(handling), liars')
      BY <1>1, <3>1, <3>2, TakenIs
    <3>4. DOMAIN peer' = Peers /\ peer' = [p \in Peers |-> peer'[p]]
      BY <3>1 DEF Taken
    <3> QED BY <1>2, <2>1, <2>2, <3>3, <3>4, PeersAreKept
  <2> QED BY <2>3, <2>4
<1>5. CASE ProcessBlock
  <2> DEFINE i == Min(FirstBlocks)
             b == received[i]
             n == Len(handling)
  <2>1. /\ n < MaxHandled /\ peer' = Taken(b) /\ received' = RemoveAt(received, i)
        /\ handling' = Append(handling, b) /\ FirstBlocks # {}
    BY <1>5 DEF ProcessBlock
  <2>2. /\ b \in Blocks /\ RemoveAt(received, i) \in Seq(Blocks)
        /\ Parent[b] \in known \cup {NoBlock} \cup ToSet(handling)
    BY <2>1, NextOfBacklog
  <2> HIDE DEF i, b
  <2>3. /\ handling \in Seq(Blocks) /\ n \in Nat /\ handling' \in Seq(Blocks) /\ Len(handling') = n + 1
        /\ \A j \in 1 .. n : handling'[j] = handling[j]
        /\ handling'[n + 1] = b
    BY <2>1, <2>2, AppendProperties, LenProperties DEF NodeInv
  <2>4. ToSet(handling') = ToSet(handling) \cup {b}
    <3>1. \A c : c \in ToSet(handling') <=> \E j \in 1 .. n + 1 : handling'[j] = c
      BY <2>3, Named
    <3>2. \A c : c \in ToSet(handling) <=> \E j \in 1 .. n : handling[j] = c
      BY <2>3, Named
    <3>3. \A j \in 1 .. n + 1 : j \in 1 .. n \/ j = n + 1
      BY <2>3
    <3>4. n + 1 \in 1 .. n + 1 /\ \A j \in 1 .. n : j \in 1 .. n + 1
      BY <2>3
    <3> QED BY <2>3, <3>1, <3>2, <3>3, <3>4
  <2>5. \A p \in Peers : Kept(p, peer'[p], known, ToSet(handling'), liars)
    <3> DEFINE h == ToSet(handling')
    <3>1. ToSet(handling) \subseteq h /\ b \in known \cup h
      BY <2>4
    <3> HIDE DEF h
    <3>2. \A p \in Peers : Kept(p, peer'[p], known, h, liars)
      BY <2>1, <2>2, <3>1, TakenIs
    <3> QED BY <3>2 DEF h
  <2>6. DOMAIN peer' = Peers /\ peer' = [p \in Peers |-> peer'[p]]
    BY <2>1 DEF Taken
  <2>7. peer' \in [Peers -> PeerRecord]
    BY <2>5, <2>6 DEF Kept, Lined
  <2>8. InTurn'
    <3> SUFFICES ASSUME NEW j \in 1 .. n + 1
                 PROVE  \/ Parent[handling'[j]] \in known \cup {NoBlock}
                        \/ Parent[handling'[j]] \in Blocks /\ Invalid(Parent[handling'[j]])
                        \/ \E k \in 1 .. j - 1 : handling'[k] = Parent[handling'[j]]
      BY <1>1, <2>3 DEF InTurn, Invalid
    <3>1. CASE j \in 1 .. n
      <4>1. \/ Parent[handling[j]] \in known \cup {NoBlock}
            \/ Parent[handling[j]] \in Blocks /\ Invalid(Parent[handling[j]])
            \/ \E k \in 1 .. j - 1 : handling[k] = Parent[handling[j]]
        BY <3>1 DEF NodeInv, InTurn
      <4>2. \A k \in 1 .. j - 1 : k \in 1 .. n
        BY <2>3, <3>1
      <4> QED BY <2>3, <3>1, <4>1, <4>2
    <3>2. CASE j = n + 1
      <4>1. ASSUME Parent[b] \in ToSet(handling) PROVE \E k \in 1 .. j - 1 : handling'[k] = Parent[b]
        <5>1. PICK k \in 1 .. n : handling[k] = Parent[b]
          BY <2>3, <4>1, Named
        <5>2. k \in 1 .. j - 1
          BY <2>3, <3>2
        <5> QED BY <2>3, <5>1, <5>2
      <4> QED BY <2>2, <2>3, <3>2, <4>1
    <3> QED BY <2>3, <3>1, <3>2
  <2>9. ChainOK(head, known)' /\ Len(handling') <= MaxHandled /\ OtherTypes'
    <3>1. ChainOK(head, known)' /\ OtherTypes'
      BY <1>1, <2>1, <2>2 DEF NodeInv, ChainOK, OtherTypes
    <3>2. MaxHandled \in Nat
      BY SyncAssumption
    <3> QED BY <2>1, <2>3, <3>1, <3>2
  <2> QED BY <1>1, <1>2, <2>3, <2>5, <2>6, <2>7, <2>8, <2>9 DEF NodeInv
<1> QED BY <1>3, <1>4, <1>5 DEF ProcessBacklog

(***************************************************************************)
(* A chain with an invalid block goes on as an invalid one.                *)
(***************************************************************************)
LEMMA InvalidGoesOn ==
  ASSUME NEW b \in Blocks
  PROVE  /\ b \in Bad => Invalid(b)
         /\ Parent[b] \in Blocks /\ Invalid(Parent[b]) => Invalid(b)
<1>1. /\ PathTo(b) = Path[b] /\ Path[b] \in Seq(Blocks) /\ Len(Path[b]) = Num(b)
      /\ Num(b) \in 1 .. Num(b) /\ Path[b][Num(b)] = b
  <2>1. PathTo(b) = Path[b] /\ Line(Path[b]) /\ Len(Path[b]) = Num(b) /\ Num(b) \in Nat \ {0} /\ Path[b][Num(b)] = b
    BY Numbers, PathIsLine
  <2> QED BY <2>1 DEF Line
<1>2. b \in ToSet(PathTo(b))
  BY <1>1, Named
<1>3. ASSUME Parent[b] \in Blocks, Invalid(Parent[b]) PROVE Invalid(b)
  <2> DEFINE c == Parent[b]
             u == Path[c]
  <2>1. /\ u \in Seq(Blocks) /\ PathTo(c) = u
        /\ Path[b] = Append(u, b) /\ Len(u) \in Nat
    <3>1. c # NoBlock
      BY <1>3, BlocksAssumption
    <3>2. PathTo(c) = u /\ Line(u)
      BY <1>3, Numbers, PathIsLine
    <3> QED BY <3>1, <3>2, PathRecursion, LenProperties DEF Line
  <2> HIDE DEF u
  <2>2. PICK x \in Bad : x \in ToSet(u)
    BY <1>3, <2>1 DEF Invalid
  <2>3. PICK i \in 1 .. Len(u) : u[i] = x
    BY <2>1, <2>2, Named
  <2>4. Path[b][i] = x /\ i \in 1 .. Len(Path[b])
    BY <2>1, <2>3, AppendProperties
  <2>5. x \in ToSet(PathTo(b))
    BY <1>1, <2>4, Named
  <2> QED BY <2>2, <2>5 DEF Invalid
<1> QED BY <1>2, <1>3 DEF Invalid

(***************************************************************************)
(* A block is accepted: what was processed for a peer is known.            *)
(***************************************************************************)
LEMMA AfterAcceptIs ==
  ASSUME NEW p, tip[p] \in Blocks \cup {NoBlock}, NEW r, Lined(r),
         NEW g, NEW k, NEW h, Rooted(r, k, h), ChainOK(g, k), NEW b \in k
  PROVE  LET x == AfterAccept(g, p, r, b)
         IN  /\ Lined(x) /\ x.conn = r.conn /\ Rooted(x, k, h)
             /\ Honest(r) => Honest(x)
<1> DEFINE left == [r EXCEPT !.last_seen = b, !.processing = @ \ {b}]
           x    == AfterAccept(g, p, r, b)
<1>1. r \in PeerRecord /\ g \in Blocks \cup {NoBlock} /\ b \in Blocks
  BY DEF Lined, ChainOK
<1>2. /\ left \in PeerRecord /\ left.conn = r.conn /\ left.to_get = r.to_get /\ left.last_seen = b
      /\ left.processing = r.processing \ {b} /\ SameTalk(r, left)
  BY <1>1 DEF PeerRecord, SameTalk
<1> HIDE DEF left
<1>3. x \in {r, left, StartSync(g, tip[p], r), FetchIds(g, tip[p], left)}
  BY DEF AfterAccept, left
<1>4. Lined(left)
  BY <1>2 DEF Lined, SameTalk
<1>5. Rooted(left, k, h)
  <2>1. Firm(left, k) = Firm(r, k)
    BY <1>2 DEF Firm
  <2>2. Based(left, k, h)
    <3>1. b \in Firm(r, k)
      BY DEF Firm
    <3> QED BY <1>2, <2>1, <3>1 DEF Rooted, Based
  <2>3. left.asked_ids = r.asked_ids
    BY <1>2 DEF SameTalk
  <2> QED BY <1>2, <2>1, <2>2, <2>3 DEF Rooted, Covers
<1>6. Honest(r) => Honest(left)
  BY <1>2, TalkStays
<1> HIDE DEF x
<1>7. CASE x = r
  BY <1>7 DEF x
<1>8. CASE x = left
  BY <1>2, <1>4, <1>5, <1>6, <1>8 DEF x
<1>9. CASE x = StartSync(g, tip[p], r)
  <2>1. /\ Lined(x) /\ x.conn = r.conn
        /\ Based(r, k, h) /\ ChainOK(g, k) => Rooted(x, k, h)
        /\ Honest(r) => Honest(x)
    BY <1>1, <1>9, StartSyncIs
  <2> QED BY <2>1 DEF Rooted, x
<1>10. CASE x = FetchIds(g, tip[p], left)
  <2>1. /\ Lined(x) /\ x.conn = left.conn
        /\ Based(left, k, h) /\ ChainOK(g, k) => Rooted(x, k, h)
        /\ Honest(left) => Honest(x)
    BY <1>1, <1>4, <1>10, FetchIdsIs
  <2> QED BY <1>2, <1>5, <1>6, <2>1 DEF Rooted, x
<1> QED BY <1>3, <1>7, <1>8, <1>9, <1>10

(***************************************************************************)
(* A peer that is told to disconnect.                                      *)
(***************************************************************************)
LEMMA ClosingIs ==
  ASSUME NEW r, Lined(r)
  PROVE  /\ Lined(Closing(r)) /\ Closing(r).conn = "closing" /\ SamePlace(r, Closing(r))
         /\ Honest(r) => Honest(Closing(r))
<1>1. /\ Closing(r) \in PeerRecord /\ Closing(r).conn = "closing" /\ SamePlace(r, Closing(r))
      /\ SameTalk(r, Closing(r))
  BY DEF Lined, PeerRecord, Closing, SamePlace, SameTalk
<1> QED BY <1>1, TalkStays DEF Lined, SamePlace, SameTalk

(***************************************************************************)
(* What becomes known when a block is accepted.                            *)
(***************************************************************************)
LEMMA AcceptIs ==
  ASSUME ChainOK(head, known), NEW b \in Blocks, Links(b), Accept(b)
  PROVE  known' = known \cup {b} /\ ChainOK(head', known \cup {b}) /\ ChainOK(head, known)'
<1>1. known' = known \cup {b} /\ head' \in {head, b}
  BY DEF Accept
<1>2. ChainOK(head', known \cup {b})
  BY <1>1 DEF ChainOK, Links
<1> QED BY <1>1, <1>2 DEF ChainOK

LEMMA HandleKept == ASSUME NodeInv, HandleSyncBlock PROVE NodeInv'
<1> DEFINE b  == Head(handling)
           n  == Len(handling)
           ok == Links(b) /\ b \notin Bad
           k  == IF ok THEN known \cup {b} ELSE known
           h  == ToSet(Tail(handling))
<1>1. /\ handling # <<>> /\ handling' = Tail(handling)
      /\ IF ok THEN Accept(b) ELSE UNCHANGED <<head, known>>
      /\ peer' = [p \in Peers |->
                    IF On(p) THEN IF ok THEN AfterAccept(head', p, peer[p], b)
                                  ELSE IF b \in peer[p].processing THEN Closing(peer[p]) ELSE peer[p]
                    ELSE peer[p]]
      /\ blamed' = blamed \cup {Accused(p, "block") : p \in {q \in Peers : /\ ~Links(b) /\ ~Invalid(b)
                                                                /\ On(q) /\ b \in peer[q].processing}}
      /\ wake' = wake \cup {"backlog"}
      /\ UNCHANGED <<tip, active, received, suspended, wanted, liars>>
  BY DEF HandleSyncBlock, Wake, chain
<1>2. /\ handling \in Seq(Blocks) /\ n \in Nat /\ n # 0 /\ b = handling[1] /\ b \in Blocks
      /\ handling' \in Seq(Blocks) /\ Len(handling') = n - 1
      /\ \A i \in 1 .. n - 1 : handling'[i] = handling[i + 1]
  <2>1. handling \in Seq(Blocks) /\ n \in Nat /\ n # 0
    BY <1>1, LenProperties, EmptySeq DEF NodeInv
  <2>2. 1 \in 1 .. n
    BY <2>1
  <2>3. handling[1] \in Blocks /\ b = handling[1]
    BY <2>1, <2>2, ElementOfSeq
  <2> QED BY <1>1, <2>1, <2>3, HeadTailProperties
<1> HIDE DEF b, ok
<1>3. /\ k = known' /\ ChainOK(head', k) /\ ChainOK(head, known)' /\ known \subseteq k
      /\ ok => b \in k
  <2>1. ChainOK(head, known)
    BY DEF NodeInv
  <2>2. CASE ok
    BY <1>1, <1>2, <2>1, <2>2, AcceptIs DEF ok
  <2>3. CASE ~ok
    BY <1>1, <2>1, <2>3 DEF ChainOK
  <2> QED BY <2>2, <2>3
<1> HIDE DEF k
<1>4. ToSet(handling) \subseteq h \cup {b} /\ h = ToSet(handling')
  <2>1. ASSUME NEW c \in ToSet(handling), c # b PROVE c \in ToSet(handling')
    <3>1. PICK i \in 1 .. n : handling[i] = c
      BY <1>2, <2>1, Named
    <3>2. i - 1 \in 1 .. n - 1 /\ i - 1 + 1 = i
      BY <1>2, <2>1, <3>1
    <3>3. handling'[i - 1] = c
      BY <1>2, <3>1, <3>2
    <3> QED BY <1>2, <3>2, <3>3, Named
  <2> QED BY <1>1, <2>1
<1> HIDE DEF h
<1>5. ~ok => Invalid(b)
  <2>1. CASE b \in Bad
    BY <1>2, <2>1, InvalidGoesOn
  <2>2. CASE ~Links(b)
    <3>1. 1 \in 1 .. n /\ \A j : j \notin 1 .. 1 - 1
      BY <1>2
    <3>2. \/ Parent[b] \in known \cup {NoBlock}
          \/ Parent[b] \in Blocks /\ Invalid(Parent[b])
          \/ \E j \in 1 .. 1 - 1 : handling[j] = Parent[b]
      BY <1>2, <3>1 DEF NodeInv, InTurn
    <3> QED BY <1>2, <2>2, <3>1, <3>2, InvalidGoesOn DEF Links
  <2> QED BY <2>1, <2>2 DEF ok
<1>6. OnlyLiarsBlamed' /\ OtherTypes'
  <2>1. blamed' = blamed
    BY <1>1, <1>5 DEF ok
  <2> QED BY <1>1, <2>1 DEF NodeInv, OnlyLiarsBlamed, OtherTypes
<1>7. InTurn'
  <2> SUFFICES ASSUME NEW i \in 1 .. n - 1
               PROVE  \/ Parent[handling'[i]] \in known' \cup {NoBlock}
                      \/ Parent[handling'[i]] \in Blocks /\ Invalid(Parent[handling'[i]])
                      \/ \E j \in 1 .. i - 1 : handling'[j] = Parent[handling'[i]]
    BY <1>2 DEF InTurn, Invalid
  <2>1. i + 1 \in 1 .. n /\ i + 1 - 1 = i
    BY <1>2
  <2> DEFINE q == Parent[handling[i + 1]]
  <2>2. \/ q \in known \cup {NoBlock}
        \/ q \in Blocks /\ Invalid(q)
        \/ \E j \in 1 .. i + 1 - 1 : handling[j] = q
    BY <2>1 DEF NodeInv, InTurn
  <2>3. ASSUME NEW j \in 1 .. i, handling[j] = q
        PROVE  \/ q \in k
               \/ q \in Blocks /\ Invalid(q)
               \/ \E l \in 1 .. i - 1 : handling'[l] = q
    <3>1. CASE j = 1
      BY <1>2, <1>3, <1>5, <2>3, <3>1
    <3>2. CASE j # 1
      <4>1. j - 1 \in 1 .. i - 1 /\ j - 1 \in 1 .. n - 1 /\ j - 1 + 1 = j
        BY <1>2, <3>2
      <4>2. handling'[j - 1] = q
        BY <1>2, <2>3, <4>1
      <4> QED BY <4>1, <4>2
    <3> QED BY <3>1, <3>2
  <2>4. handling'[i] = handling[i + 1]
    BY <1>2
  <2> QED BY <1>3, <2>1, <2>2, <2>3, <2>4
<1>8. ASSUME NEW p \in Peers PROVE Kept(p, peer'[p], k, h, liars)
  <2> DEFINE r == peer[p]
  <2>1. /\ Lined(r) /\ (On(p) => Rooted(r, known, ToSet(handling))) /\ (p \notin liars => Honest(r))
        /\ tip[p] \in Blocks \cup {NoBlock}
    BY DEF NodeInv, Kept, On, OtherTypes
  <2>2. ASSUME On(p), ok \/ b \notin r.processing PROVE Rooted(r, k, h)
    <3>1. r.processing \subseteq known \cup ToSet(handling)
      BY <2>1, <2>2 DEF Rooted, Based
    <3>2. r.processing \subseteq k \cup h
      BY <1>3, <1>4, <2>2, <3>1
    <3> QED BY <1>3, <2>1, <2>2, <3>2, MoreIsKnown
  <2>3. CASE ~On(p)
    <3>1. peer'[p] = r
      BY <1>1, <2>3
    <3> QED BY <2>1, <2>3, <3>1 DEF Kept, On
  <2>4. CASE On(p) /\ ok
    <3> DEFINE x == AfterAccept(head', p, r, b)
    <3>1. peer'[p] = x
      BY <1>1, <2>4
    <3>2. /\ Lined(x) /\ x.conn = r.conn /\ Rooted(x, k, h)
          /\ Honest(r) => Honest(x)
      BY <1>3, <2>1, <2>2, <2>4, AfterAcceptIs
    <3> HIDE DEF x
    <3> QED BY <2>1, <3>1, <3>2 DEF Kept
  <2>5. CASE On(p) /\ ~ok /\ b \in r.processing
    <3>1. peer'[p] = Closing(r)
      BY <1>1, <2>5
    <3> QED BY <2>1, <3>1, ClosingIs DEF Kept
  <2>6. CASE On(p) /\ ~ok /\ b \notin r.processing
    <3>1. peer'[p] = r
      BY <1>1, <2>6
    <3> QED BY <2>1, <2>2, <2>6, <3>1 DEF Kept
  <2> QED BY <2>3, <2>4, <2>5, <2>6
<1>9. DOMAIN peer' = Peers /\ peer' = [p \in Peers |-> peer'[p]]
  BY <1>1
<1>10. peer' \in [Peers -> PeerRecord]
  BY <1>8, <1>9 DEF Kept, Lined
<1>11. Len(handling') <= MaxHandled
  <2>1. n <= MaxHandled /\ MaxHandled \in Nat
    BY SyncAssumption DEF NodeInv
  <2> QED BY <1>2, <2>1
<1>12. \A p \in Peers : Kept(p, peer'[p], known', ToSet(handling'), liars')
  BY <1>1, <1>3, <1>4, <1>8
<1> QED BY <1>2, <1>3, <1>6, <1>7, <1>9, <1>10, <1>11, <1>12 DEF NodeInv

(***************************************************************************)
(* A message is read.                                                      *)
(***************************************************************************)
LEMMA ReadKept ==
  ASSUME NodeInv, NEW p \in Peers, peer[p].inbox # <<>>
  PROVE  LET r == peer[p]
             x == Received(p)
             m == r.inbox[1]
         IN  /\ Lined(r) /\ Lined(x) /\ SamePlace(r, x) /\ x.conn = r.conn
             /\ x.overtaken = r.overtaken /\ x.asked = r.asked /\ x.sync_asked = r.sync_asked
             /\ x.offered = r.offered
             /\ m \in Message /\ (m.kind = "ids" => Line(m.list) /\ m.remaining \in Nat)
             /\ m.kind # "ids" => m.id \in Blocks
             /\ Kept(p, x, known, ToSet(handling), liars)
             /\ p \notin liars => Honest(r)
             /\ p \notin liars =>
                  \A i \in 1 .. Len(x.inbox) :
                    /\ m.kind = "block" /\ x.inbox[i].kind = "block" => x.inbox[i].id # m.id
                    /\ m.kind = "ids" /\ x.inbox[i].kind = "ids" => x.overtaken
<1> DEFINE r == peer[p]
           x == Received(p)
           m == r.inbox[1]
<1>1. Kept(p, r, known, ToSet(handling), liars)
  BY DEF NodeInv
<1>2. Lined(r)
  BY <1>1 DEF Kept
<1>3. /\ Lined(x) /\ SamePlace(r, x) /\ x.conn = r.conn
      /\ x.overtaken = r.overtaken /\ x.asked = r.asked /\ x.sync_asked = r.sync_asked
      /\ x.offered = r.offered
      /\ m \in Message /\ (m.kind = "ids" => Line(m.list))
      /\ Honest(r) =>
           /\ Honest(x)
           /\ \A i \in 1 .. Len(x.inbox) :
                /\ m.kind = "block" /\ x.inbox[i].kind = "block" => x.inbox[i].id # m.id
                /\ m.kind = "ids" /\ x.inbox[i].kind = "ids" => x.overtaken
  BY <1>2, ReceivedIs
<1> HIDE DEF x, m
<1>4. (m.kind = "ids" => m.remaining \in Nat) /\ (m.kind # "ids" => m.id \in Blocks)
  BY <1>3 DEF Message, Answer
<1>5. Kept(p, x, known, ToSet(handling), liars)
  BY <1>1, <1>3, PlaceStays DEF Kept
<1>6. p \notin liars => Honest(r)
  BY <1>1 DEF Kept
<1> QED BY <1>2, <1>3, <1>4, <1>5, <1>6 DEF x, m

(***************************************************************************)
(* A list of ids that was not asked for, and one that is no answer.        *)
(***************************************************************************)
LEMMA IdsRefused ==
  ASSUME NodeInv, NEW p \in Peers, IgnoreIds(p) \/ RejectIds(p)
  PROVE  NodeInv'
<1>1. /\ Arrives(p, "ids") /\ peer[p].inbox # <<>>
      /\ UNCHANGED <<head, known, handling, tip, active, received, suspended, wanted, wake, liars>>
  BY DEF IgnoreIds, RejectIds, Arrives, chain, history
<1>2. /\ Lined(Received(p)) /\ Kept(p, Received(p), known, ToSet(handling), liars)
      /\ p \notin liars => Honest(peer[p])
  BY <1>1, ReadKept
<1>3. OtherTypes'
  BY <1>1 DEF NodeInv, OtherTypes
<1>4. CASE IgnoreIds(p)
  <2>1. peer' = [peer EXCEPT ![p] = Received(p)] /\ blamed' = blamed
    BY <1>4 DEF IgnoreIds, history
  <2>2. OnlyLiarsBlamed'
    BY <1>1, <2>1 DEF NodeInv, OnlyLiarsBlamed
  <2> QED BY <1>1, <1>2, <1>3, <2>1, <2>2, OneIsKept
<1>5. CASE RejectIds(p)
  <2>1. /\ peer' = [peer EXCEPT ![p] = Closing(Received(p))] /\ blamed' = blamed \cup {Accused(p, "ids")}
        /\ ~ValidList(peer[p], peer[p].inbox[1].list)
    BY <1>5 DEF RejectIds
  <2>2. ASSUME p \notin liars PROVE peer[p].overtaken
    <3>1. Honest(peer[p]) /\ 1 \in 1 .. Len(peer[p].inbox) /\ peer[p].inbox[1].kind = "ids"
      <4>1. peer[p].inbox \in Seq(Message)
        BY DEF NodeInv, PeerRecord
      <4> QED BY <1>1, <1>2, <2>2, <4>1, LenProperties, EmptySeq DEF Arrives
    <3> QED BY <2>1, <3>1 DEF Honest
  <2>3. OnlyLiarsBlamed'
    <3>1. Accused(p, "ids").peer = p /\ Accused(p, "ids").kind = "ids"
          /\ Accused(p, "ids").overtaken = peer[p].overtaken
      BY DEF Accused
    <3> QED BY <1>1, <2>1, <2>2, <3>1 DEF NodeInv, OnlyLiarsBlamed
  <2>4. Kept(p, Closing(Received(p)), known, ToSet(handling), liars)
    BY <1>2, ClosingIs DEF Kept
  <2> QED BY <1>1, <1>3, <2>1, <2>3, <2>4, OneIsKept
<1> QED BY <1>4, <1>5

(***************************************************************************)
(* A list of ids.                                                          *)
(***************************************************************************)
LEMMA IdsKept == ASSUME NodeInv, NEW p \in Peers, ReceiveIds(p) PROVE NodeInv'
<1> DEFINE e == <<>>
           m == peer[p].inbox[1]
           g == Received(p)
           r == [g EXCEPT !.asked_ids = e]
           w == Extended(p, r, m.list)
           x == [w EXCEPT !.unfetched = m.remaining]
           s == peer[p].asked_ids[1]
           h == ToSet(handling)
<1>1. /\ Arrives(p, "ids") /\ peer[p].inbox # <<>> /\ m.kind = "ids" /\ peer[p].asked_ids # <<>>
      /\ UNCHANGED <<head, known, handling, tip, active, received, suspended, wanted, blamed, liars>>
      /\ wake' \subseteq wake \cup {"sync"}
      /\ ValidList(peer[p], m.list)
      /\ \E y \in {[r EXCEPT !.need = FALSE], x, FetchIds(head, tip[p], x)} : peer' = [peer EXCEPT ![p] = y]
  BY DEF ReceiveIds, Arrives, chain, history
<1>2. /\ Lined(g) /\ SamePlace(peer[p], g) /\ g.overtaken = peer[p].overtaken
      /\ Line(m.list) /\ m.remaining \in Nat
      /\ Kept(p, g, known, h, liars)
      /\ p \notin liars =>
           \A i \in 1 .. Len(g.inbox) : g.inbox[i].kind = "ids" => g.overtaken
  BY <1>1, ReadKept
<1> HIDE DEF g, m
<1>3. /\ r \in PeerRecord /\ r.conn = g.conn /\ r.asked_ids = e /\ r.to_get = g.to_get
      /\ r.processing = g.processing /\ r.last_seen = g.last_seen /\ r.inbox = g.inbox
      /\ r.overtaken = g.overtaken /\ r.asked = g.asked /\ r.sync_asked = g.sync_asked
  <2>1. e \in Seq(Seq(Blocks)) /\ g \in PeerRecord
    BY <1>2, EmptySeq DEF Lined
  <2> HIDE DEF e
  <2> QED BY <2>1 DEF PeerRecord
<1> HIDE DEF r
<1>4. Lined(r) /\ (p \notin liars => Honest(r))
  <2>1. Lined(r)
    BY <1>2, <1>3 DEF Lined
  <2>2. ASSUME p \notin liars PROVE Honest(r)
    <3>1. Honest(g)
      BY <1>2, <2>2 DEF Kept
    <3> QED BY <1>2, <1>3, <2>2, <3>1 DEF Honest
  <2> QED BY <2>1, <2>2
<1>5. r.conn = "active" => Based(r, known, h) /\ Covers(s, r, known)
  <2> SUFFICES ASSUME r.conn = "active" PROVE Based(r, known, h) /\ Covers(s, r, known)
    OBVIOUS
  <2>1. Rooted(g, known, h) /\ g.asked_ids # <<>> /\ g.asked_ids[1] = s
    BY <1>1, <1>2, <1>3 DEF Kept, SamePlace
  <2> QED BY <1>3, <2>1 DEF Rooted, Based, Covers, Firm
<1>6. /\ s \in Seq(Blocks)
      /\ m.list # <<>> => IF s = <<>> THEN Num(m.list[1]) = 1 ELSE m.list[1] \in ToSet(s)
  <2>1. peer[p].asked_ids \in Seq(Seq(Blocks))
    BY DEF NodeInv, PeerRecord
  <2>2. 1 \in 1 .. Len(peer[p].asked_ids)
    BY <1>1, <2>1, EmptySeq, LenProperties
  <2> QED BY <1>1, <2>1, <2>2, ElementOfSeq DEF ValidList
<1> HIDE DEF s
<1>7. /\ Lined(w) /\ w.conn = r.conn /\ SameTalk(r, w)
      /\ Based(r, known, h) /\ Covers(s, r, known) => Based(w, known, h)
  BY <1>2, <1>4, <1>6, ExtendedIs DEF NodeInv
<1> HIDE DEF w
<1>8. /\ x \in PeerRecord /\ x.conn = w.conn /\ x.asked_ids = e /\ x.to_get = w.to_get
      /\ x.processing = w.processing /\ x.last_seen = w.last_seen /\ SameTalk(r, x)
  <2>1. w \in PeerRecord /\ m.remaining \in Nat
    BY <1>2, <1>7 DEF Lined
  <2>2. /\ x \in PeerRecord /\ x.conn = w.conn /\ x.asked_ids = w.asked_ids /\ x.to_get = w.to_get
        /\ x.processing = w.processing /\ x.last_seen = w.last_seen /\ SameTalk(w, x)
    BY <2>1 DEF PeerRecord, SameTalk
  <2> HIDE DEF x
  <2> QED BY <1>3, <1>7, <2>2 DEF SameTalk
<1> HIDE DEF x
<1>9. Lined(x) /\ (p \notin liars => Honest(x)) /\ (x.conn = "active" => Based(x, known, h))
  <2>1. Lined(x)
    BY <1>7, <1>8 DEF Lined, SameTalk
  <2>2. p \notin liars => Honest(x)
    BY <1>4, <1>8, TalkStays
  <2>3. x.conn = "active" => Based(x, known, h)
    BY <1>5, <1>7, <1>8 DEF Based, Firm
  <2> QED BY <2>1, <2>2, <2>3
<1>10. tip[p] \in Blocks \cup {NoBlock} /\ head \in Blocks \cup {NoBlock} /\ ChainOK(head, known)
  BY DEF NodeInv, OtherTypes, ChainOK
<1>11. ASSUME NEW y \in {[r EXCEPT !.need = FALSE], x, FetchIds(head, tip[p], x)}
       PROVE  Kept(p, y, known, h, liars)
  <2>1. CASE y = [r EXCEPT !.need = FALSE]
    <3>1. y \in PeerRecord /\ SamePlace(r, y) /\ SameTalk(r, y) /\ y.conn = r.conn
      BY <1>3, <2>1 DEF PeerRecord, SamePlace, SameTalk
    <3>2. Lined(y)
      BY <1>4, <3>1 DEF Lined, SamePlace, SameTalk
    <3>3. y.conn = "active" => Rooted(y, known, h)
      BY <1>3, <1>5, <3>1 DEF SamePlace, Rooted, Based, Firm
    <3> QED BY <1>4, <3>1, <3>2, <3>3, TalkStays DEF Kept
  <2>2. CASE y = x
    <3>1. y.conn = "active" => Rooted(y, known, h)
      BY <1>8, <1>9, <2>2 DEF Rooted
    <3> QED BY <1>9, <2>2, <3>1 DEF Kept
  <2>3. CASE y = FetchIds(head, tip[p], x)
    <3>1. /\ Lined(y) /\ y.conn = x.conn
          /\ Based(x, known, h) /\ ChainOK(head, known) => Rooted(y, known, h)
          /\ Honest(x) => Honest(y)
      BY <1>9, <1>10, <2>3, FetchIdsIs
    <3> QED BY <1>9, <1>10, <3>1 DEF Kept
  <2> QED BY <2>1, <2>2, <2>3
<1>12. OnlyLiarsBlamed' /\ OtherTypes'
  BY <1>1 DEF NodeInv, OnlyLiarsBlamed, OtherTypes
<1>13. PICK y \in {[r EXCEPT !.need = FALSE], x, FetchIds(head, tip[p], x)} : peer' = [peer EXCEPT ![p] = y]
  BY <1>1 DEF r, x, w, m, g
<1> QED BY <1>1, <1>11, <1>12, <1>13, OneIsKept DEF h

(***************************************************************************)
(* A block arrived, or is not there: it is no longer asked for.            *)
(***************************************************************************)
LEMMA NoLongerAsked ==
  ASSUME NodeInv, NEW p \in Peers, peer[p].inbox # <<>>, peer[p].inbox[1].kind = "block",
         NEW x \in PeerRecord, SamePlace(Received(p), x), x.conn = Received(p).conn,
         x.inbox = Received(p).inbox, x.overtaken = Received(p).overtaken,
         x.asked \subseteq Received(p).asked, x.sync_asked \subseteq Received(p).sync_asked,
         \A b \in Received(p).asked \cup Received(p).sync_asked :
           b # peer[p].inbox[1].id => b \in x.asked \cup x.sync_asked
  PROVE  Kept(p, x, known, ToSet(handling), liars)
<1> DEFINE g == Received(p)
           b == peer[p].inbox[1].id
<1>1. /\ Lined(g) /\ Kept(p, g, known, ToSet(handling), liars)
      /\ p \notin liars => \A i \in 1 .. Len(g.inbox) : g.inbox[i].kind = "block" => g.inbox[i].id # b
  BY ReadKept
<1> HIDE DEF g, b
<1>2. Lined(x)
  BY <1>1 DEF Lined, SamePlace, g
<1>3. ASSUME p \notin liars PROVE Honest(x)
  <2>1. Honest(g)
    BY <1>1, <1>3 DEF Kept
  <2>2. \A i \in 1 .. Len(x.inbox) : x.inbox[i].kind = "block" => x.inbox[i].id \in x.asked \cup x.sync_asked
    BY <1>1, <1>3, <2>1 DEF Honest, g, b
  <2>3. x.asked = {} \/ x.sync_asked = {}
    BY <2>1 DEF Honest, g
  <2> QED BY <2>1, <2>2, <2>3 DEF Honest, SamePlace, ValidList, g
<1>4. x.conn = "active" => Rooted(x, known, ToSet(handling))
  BY <1>1, PlaceStays DEF Kept, g
<1> QED BY <1>2, <1>3, <1>4 DEF Kept

(***************************************************************************)
(* A block that was asked for in synchronisation arrives.                  *)
(***************************************************************************)
LEMMA SyncBlockKept == ASSUME NodeInv, NEW p \in Peers, ReceiveSyncBlock(p) PROVE NodeInv'
<1> DEFINE b == peer[p].inbox[1].id
           g == Received(p)
           r == [g EXCEPT !.sync_asked = @ \ {b}]
           h == ToSet(handling)
<1>1. /\ peer[p].inbox # <<>> /\ peer[p].inbox[1].kind = "block"
      /\ active' = active \ {b} /\ received' = <<b>> \o received
      /\ UNCHANGED <<head, known, handling, tip, suspended, wanted, blamed, liars>>
      /\ wake' \subseteq wake \cup {"sync", "backlog"}
      /\ \E y \in {r, FetchIds(head, tip[p], r)} : peer' = [peer EXCEPT ![p] = y]
  BY DEF ReceiveSyncBlock, Arrives, Wake, chain, history
<1>2. Lined(g) /\ b \in Blocks
  BY <1>1, ReadKept
<1>3. Kept(p, r, known, h, liars)
  <2>1. r \in PeerRecord /\ SamePlace(g, r) /\ r.conn = g.conn /\ r.inbox = g.inbox
        /\ r.overtaken = g.overtaken /\ r.asked = g.asked /\ r.sync_asked = g.sync_asked \ {b}
    <3> HIDE DEF g, b
    <3> QED BY <1>2 DEF Lined, PeerRecord, SamePlace
  <2> HIDE DEF r
  <2> QED BY <1>1, <2>1, NoLongerAsked
<1>4. tip[p] \in Blocks \cup {NoBlock} /\ head \in Blocks \cup {NoBlock} /\ ChainOK(head, known)
  BY DEF NodeInv, OtherTypes, ChainOK
<1> HIDE DEF r
<1>5. ASSUME NEW y \in {r, FetchIds(head, tip[p], r)} PROVE Kept(p, y, known, h, liars)
  <2>1. CASE y = r
    BY <1>3, <2>1
  <2>2. CASE y = FetchIds(head, tip[p], r)
    <3>1. Lined(r)
      BY <1>3 DEF Kept
    <3>2. /\ Lined(y) /\ y.conn = r.conn
          /\ Based(r, known, h) /\ ChainOK(head, known) => Rooted(y, known, h)
          /\ Honest(r) => Honest(y)
      BY <1>4, <2>2, <3>1, FetchIdsIs
    <3> QED BY <1>3, <1>4, <3>2 DEF Kept, Rooted
  <2> QED BY <2>1, <2>2
<1>6. OnlyLiarsBlamed' /\ OtherTypes'
  <2>1. received' \in Seq(Blocks)
    <3>1. <<b>> \in Seq(Blocks) /\ received \in Seq(Blocks)
      BY <1>2 DEF NodeInv, OtherTypes
    <3> QED BY <1>1, <3>1, ConcatProperties
  <2> QED BY <1>1, <2>1 DEF NodeInv, OnlyLiarsBlamed, OtherTypes
<1>7. PICK y \in {r, FetchIds(head, tip[p], r)} : peer' = [peer EXCEPT ![p] = y]
  BY <1>1
<1> QED BY <1>1, <1>5, <1>6, <1>7, OneIsKept

(***************************************************************************)
(* A new block arrives.                                                    *)
(***************************************************************************)
LEMMA BlockKept == ASSUME NodeInv, NEW p \in Peers, ReceiveBlock(p) PROVE NodeInv'
<1> DEFINE b  == peer[p].inbox[1].id
           g  == Received(p)
           r  == [g EXCEPT !.asked = @ \ {b}]
           h  == ToSet(handling)
           ok == b \in known \/ (Links(b) /\ b \notin Bad)
           k  == IF ok THEN known \cup {b} ELSE known
           s(q) == IF q = p THEN r ELSE peer[q]
<1>1. /\ peer[p].inbox # <<>> /\ peer[p].inbox[1].kind = "block"
      /\ IF ok THEN Accept(b) ELSE UNCHANGED <<head, known>>
      /\ peer' = [q \in Peers |->
                    IF ok THEN (IF On(q) /\ b \in s(q).offered THEN [s(q) EXCEPT !.last_seen = b] ELSE s(q))
                    ELSE IF ~Links(b) THEN (IF q = p THEN StartSync(head, tip[q], s(q)) ELSE s(q))
                    ELSE IF q = p \/ (On(q) /\ s(q).to_get # <<>> /\ s(q).to_get[1] = b)
                    THEN Closing(s(q)) ELSE s(q)]
      /\ UNCHANGED <<handling, tip, active, received, suspended, wanted, blamed, liars>>
      /\ wake' \subseteq wake \cup {"items"}
  BY DEF ReceiveBlock, Arrives, Wake, chain, history
<1>2. Lined(g) /\ b \in Blocks
  BY <1>1, ReadKept
<1>3. Kept(p, r, known, h, liars)
  <2>1. r \in PeerRecord /\ SamePlace(g, r) /\ r.conn = g.conn /\ r.inbox = g.inbox
        /\ r.overtaken = g.overtaken /\ r.asked = g.asked \ {b} /\ r.sync_asked = g.sync_asked
    <3> HIDE DEF g, b
    <3> QED BY <1>2 DEF Lined, PeerRecord, SamePlace
  <2> HIDE DEF r
  <2> QED BY <1>1, <2>1, NoLongerAsked
<1> HIDE DEF b, r, ok
<1>4. \A q \in Peers : Kept(q, s(q), known, h, liars)
  BY <1>3 DEF NodeInv
<1>5. k = known' /\ ChainOK(head, k) /\ ChainOK(head, known)' /\ known \subseteq k /\ (ok => b \in k)
  <2>1. ChainOK(head, known)
    BY DEF NodeInv
  <2>2. CASE ok
    <3>1. Links(b)
      BY <2>1, <2>2 DEF ok, ChainOK, Links
    <3>2. k = known' /\ known' = known \cup {b} /\ ChainOK(head, known)'
      BY <1>1, <1>2, <2>1, <2>2, <3>1, AcceptIs
    <3>3. ChainOK(head, k)
      BY <1>2, <2>1, <3>1, <3>2 DEF ChainOK, Links
    <3> QED BY <2>2, <3>2, <3>3
  <2>3. CASE ~ok
    BY <1>1, <2>1, <2>3 DEF ChainOK
  <2> QED BY <2>2, <2>3
<1> HIDE DEF k
<1>6. ASSUME NEW q \in Peers PROVE Kept(q, peer'[q], k, h, liars)
  <2> DEFINE z == s(q)
             a == [z EXCEPT !.last_seen = b]
  <2>1. peer'[q] = IF ok THEN (IF On(q) /\ b \in z.offered THEN a ELSE z)
                   ELSE IF ~Links(b) THEN (IF q = p THEN StartSync(head, tip[q], z) ELSE z)
                   ELSE IF q = p \/ (On(q) /\ z.to_get # <<>> /\ z.to_get[1] = b) THEN Closing(z) ELSE z
    BY <1>1
  <2>2. Kept(q, z, known, h, liars)
    BY <1>4
  <2> HIDE DEF z
  <2>3. Lined(z) /\ z \in PeerRecord /\ (z.conn = "active" => Rooted(z, k, h)) /\ (q \notin liars => Honest(z))
    <3>1. Lined(z) /\ (q \notin liars => Honest(z)) /\ (z.conn = "active" => Rooted(z, known, h))
      BY <2>2 DEF Kept
    <3>2. Rooted(z, known, h) => z.processing \subseteq k \cup h
      BY <1>5 DEF Rooted, Based
    <3>3. Rooted(z, known, h) => Rooted(z, k, h)
      BY <1>5, <3>2, MoreIsKnown
    <3> QED BY <3>1, <3>3 DEF Lined
  <2>4. tip[q] \in Blocks \cup {NoBlock} /\ head \in Blocks \cup {NoBlock}
    BY DEF NodeInv, OtherTypes, ChainOK
  <2>5. CASE peer'[q] = z
    BY <2>3, <2>5 DEF Kept
  <2>6. CASE ok /\ peer'[q] = a
    <3>1. /\ a \in PeerRecord /\ a.last_seen = b /\ a.to_get = z.to_get /\ a.processing = z.processing
          /\ a.conn = z.conn /\ SameTalk(z, a)
      BY <1>2, <2>3 DEF PeerRecord, SameTalk
    <3>2. Lined(a) /\ (q \notin liars => Honest(a))
      BY <2>3, <3>1, TalkStays DEF Lined, SameTalk
    <3>3. Rooted(z, k, h) => Rooted(a, k, h)
      BY <1>5, <2>6, <3>1 DEF Rooted, Based, Covers, Firm, SameTalk
    <3> HIDE DEF a
    <3> QED BY <2>3, <2>6, <3>1, <3>2, <3>3 DEF Kept
  <2>7. CASE peer'[q] = StartSync(head, tip[q], z)
    <3> DEFINE y == StartSync(head, tip[q], z)
    <3>1. /\ Lined(y) /\ y.conn = z.conn
          /\ Based(z, k, h) /\ ChainOK(head, k) => Rooted(y, k, h)
          /\ Honest(z) => Honest(y)
      BY <2>3, <2>4, StartSyncIs
    <3> HIDE DEF y
    <3>2. Kept(q, y, k, h, liars)
      BY <1>5, <2>3, <3>1 DEF Kept, Rooted
    <3> QED BY <2>7, <3>2 DEF y
  <2>8. CASE peer'[q] = Closing(z)
    BY <2>3, <2>8, ClosingIs DEF Kept
  <2> QED BY <2>1, <2>5, <2>6, <2>7, <2>8
<1>7. DOMAIN peer' = Peers /\ peer' = [q \in Peers |-> peer'[q]]
  BY <1>1
<1>8. peer' \in [Peers -> PeerRecord]
  BY <1>6, <1>7 DEF Kept, Lined
<1>9. InTurn'
  BY <1>1, <1>5 DEF NodeInv, InTurn, Invalid
<1>10. OnlyLiarsBlamed' /\ OtherTypes'
  BY <1>1 DEF NodeInv, OnlyLiarsBlamed, OtherTypes
<1>11. \A q \in Peers : Kept(q, peer'[q], known', ToSet(handling'), liars')
  BY <1>1, <1>5, <1>6
<1> QED BY <1>1, <1>5, <1>7, <1>8, <1>9, <1>10, <1>11 DEF NodeInv

(***************************************************************************)
(* A block that was not asked for: only of a peer that breaks the protocol.*)
(***************************************************************************)
LEMMA BlockRefused == ASSUME NodeInv, NEW p \in Peers, RejectBlock(p) PROVE NodeInv'
<1>1. /\ peer[p].inbox # <<>> /\ peer[p].inbox[1].kind = "block"
      /\ peer[p].inbox[1].id \notin peer[p].asked \cup peer[p].sync_asked
      /\ peer' = [peer EXCEPT ![p] = Closing(Received(p))] /\ blamed' = blamed \cup {Accused(p, "block")}
      /\ UNCHANGED <<head, known, handling, tip, active, received, suspended, wanted, wake, liars>>
  BY DEF RejectBlock, Arrives, chain
<1>2. /\ Kept(p, Received(p), known, ToSet(handling), liars) /\ Lined(Received(p))
      /\ p \notin liars => Honest(peer[p])
  BY <1>1, ReadKept
<1>3. p \in liars
  <2>1. 1 \in 1 .. Len(peer[p].inbox)
    <3>1. peer[p].inbox \in Seq(Message)
      BY DEF NodeInv, PeerRecord
    <3> QED BY <1>1, <3>1, LenProperties, EmptySeq
  <2> QED BY <1>1, <1>2, <2>1 DEF Honest
<1>4. OnlyLiarsBlamed' /\ OtherTypes'
  <2>1. Accused(p, "block").peer = p
    BY DEF Accused
  <2> QED BY <1>1, <1>3, <2>1 DEF NodeInv, OnlyLiarsBlamed, OtherTypes
<1>5. Kept(p, Closing(Received(p)), known, ToSet(handling), liars)
  BY <1>2, ClosingIs DEF Kept
<1> QED BY <1>1, <1>4, <1>5, OneIsKept

(***************************************************************************)
(* A peer does not have a block, or advertises one.                        *)
(***************************************************************************)
LEMMA MissingKept == ASSUME NodeInv, NEW p \in Peers, NotAvailable(p) PROVE NodeInv'
<1> DEFINE b == peer[p].inbox[1].id
           g == Received(p)
           o == IF b \in peer[p].asked THEN g.offered \ {b} ELSE g.offered
           s == IF b \in peer[p].asked THEN g.sync_asked ELSE g.sync_asked \ {b}
           r == [g EXCEPT !.asked = @ \ {b}, !.offered = o, !.sync_asked = s]
           h == ToSet(handling)
<1>1. /\ peer[p].inbox # <<>> /\ peer[p].inbox[1].kind = "block"
      /\ UNCHANGED <<head, known, handling, tip, active, received, suspended, blamed, liars>>
      /\ wake' \subseteq wake \cup {"sync", "items"} /\ wanted' \subseteq wanted \cup {b}
      /\ \E y \in {r, [r EXCEPT !.inhibit = TRUE], Closing(r)} : peer' = [peer EXCEPT ![p] = y]
  <2>1. /\ peer[p].inbox # <<>> /\ peer[p].inbox[1].kind = "block"
        /\ UNCHANGED <<head, known, handling, tip, active, received, suspended, blamed, liars>>
    BY DEF NotAvailable, Arrives, chain
  <2>2. CASE b \in peer[p].asked
    <3>1. peer' = [peer EXCEPT ![p] = r]
      BY <2>2 DEF NotAvailable
    <3>2. wake' \subseteq wake \cup {"sync", "items"} /\ wanted' \subseteq wanted \cup {b}
      BY <2>2 DEF NotAvailable, Wake
    <3> QED BY <2>1, <3>1, <3>2
  <2>3. CASE b \notin peer[p].asked
    <3>1. peer' = [peer EXCEPT ![p] = IF r.they_need THEN [r EXCEPT !.inhibit = TRUE] ELSE Closing(r)]
      BY <2>3 DEF NotAvailable
    <3>2. wake' \subseteq wake \cup {"sync", "items"} /\ wanted' \subseteq wanted \cup {b}
      BY <2>3 DEF NotAvailable, Wake
    <3> QED BY <2>1, <3>1, <3>2
  <2> QED BY <2>2, <2>3
<1>2. /\ Lined(g) /\ b \in Blocks /\ g.asked = peer[p].asked /\ g.sync_asked = peer[p].sync_asked
      /\ (peer[p].asked = {} \/ peer[p].sync_asked = {} \/ p \in liars)
  BY <1>1, ReadKept DEF Honest
<1>3. Kept(p, r, known, h, liars)
  <2>1. r \in PeerRecord /\ SamePlace(g, r) /\ r.conn = g.conn /\ r.inbox = g.inbox
        /\ r.overtaken = g.overtaken /\ r.asked = g.asked \ {b} /\ r.sync_asked = s
    <3>1. g \in PeerRecord /\ o \in SUBSET Blocks /\ s \in SUBSET Blocks
      BY <1>2 DEF Lined, PeerRecord
    <3> HIDE DEF g, b, o, s
    <3> QED BY <3>1 DEF PeerRecord, SamePlace
  <2> HIDE DEF r
  <2> QED BY <1>1, <2>1, NoLongerAsked
<1> HIDE DEF r
<1>4. ASSUME NEW y \in {r, [r EXCEPT !.inhibit = TRUE], Closing(r)} PROVE Kept(p, y, known, h, liars)
  <2>1. CASE y = r
    BY <1>3, <2>1
  <2>2. CASE y = [r EXCEPT !.inhibit = TRUE]
    <3>1. y \in PeerRecord /\ SamePlace(r, y) /\ SameTalk(r, y) /\ y.conn = r.conn
      BY <1>3, <2>2 DEF Kept, Lined, PeerRecord, SamePlace, SameTalk
    <3>2. Lined(y)
      BY <1>3, <3>1 DEF Kept, Lined, SamePlace, SameTalk
    <3> QED BY <1>3, <3>1, <3>2, PlaceStays, TalkStays DEF Kept
  <2>3. CASE y = Closing(r)
    BY <1>3, <2>3, ClosingIs DEF Kept
  <2> QED BY <2>1, <2>2, <2>3
<1>5. OnlyLiarsBlamed' /\ OtherTypes'
  BY <1>1, <1>2 DEF NodeInv, OnlyLiarsBlamed, OtherTypes
<1>6. PICK y \in {r, [r EXCEPT !.inhibit = TRUE], Closing(r)} : peer' = [peer EXCEPT ![p] = y]
  BY <1>1
<1> QED BY <1>1, <1>4, <1>5, <1>6, OneIsKept

LEMMA OfferKept == ASSUME NodeInv, NEW p \in Peers, ReceiveOffer(p) PROVE NodeInv'
<1> DEFINE b == peer[p].inbox[1].id
           g == Received(p)
           x == [g EXCEPT !.offered = @ \cup {b}]
           h == ToSet(handling)
<1>1. /\ peer[p].inbox # <<>> /\ peer[p].inbox[1].kind = "offer"
      /\ UNCHANGED <<head, known, handling, tip, active, received, suspended, blamed, liars>>
      /\ wake' \subseteq wake \cup {"items"} /\ wanted' \subseteq wanted \cup {b}
      /\ peer' = [peer EXCEPT ![p] = g] \/ peer' = [peer EXCEPT ![p] = x]
  BY DEF ReceiveOffer, Arrives, Wake, chain, history
<1>2. Lined(g) /\ b \in Blocks /\ Kept(p, g, known, h, liars)
  BY <1>1, ReadKept
<1> HIDE DEF g, b
<1>3. x \in PeerRecord /\ SamePlace(g, x) /\ SameTalk(g, x) /\ x.conn = g.conn
  BY <1>2 DEF Lined, PeerRecord, SamePlace, SameTalk
<1> HIDE DEF x
<1>4. Lined(x)
  BY <1>2, <1>3 DEF Lined, SamePlace, SameTalk
<1>5. Kept(p, x, known, h, liars)
  BY <1>2, <1>3, <1>4, PlaceStays, TalkStays DEF Kept
<1>6. OnlyLiarsBlamed' /\ OtherTypes'
  BY <1>1, <1>2 DEF NodeInv, OnlyLiarsBlamed, OtherTypes
<1> QED BY <1>1, <1>2, <1>5, <1>6, OneIsKept

(***************************************************************************)
(* A peer asks for ids, fetches a block, or gets one from elsewhere.       *)
(***************************************************************************)
LEMMA AskingKept == ASSUME NodeInv, NEW p \in Peers, PeerAsks(p) PROVE NodeInv'
<1> DEFINE h == ToSet(handling)
<1>1. UNCHANGED <<head, known, handling, tip, active, received, suspended, wanted, wake, blamed, liars>>
  BY DEF PeerAsks, chain, history
<1>2. PICK n \in BOOLEAN :
        LET r == [peer[p] EXCEPT !.they_need = n]
        IN  \E y \in {r, StartSync(head, tip[p], r)} : \E z \in {y, Closing(y)} : peer' = [peer EXCEPT ![p] = z]
  <2>1. PICK reference \in {NoBlock} \cup (ToSet(PathTo(tip[p])) \cap known) :
          LET s == ChainSynopsis(tip[p], reference, 0)
              list == AnswerIds(head, s).list
              r == [peer[p] EXCEPT !.they_need = ~NothingNew(list, s)]
              unknown == s # <<>> /\ Last(s) \notin known
              told == IF ~r.need /\ unknown THEN StartSync(head, tip[p], r) ELSE r
          IN  peer' = [peer EXCEPT ![p] =
                IF ~r.they_need /\ list # <<>> /\ r.inhibit THEN Closing(told) ELSE told]
    BY DEF PeerAsks
  <2> DEFINE s == ChainSynopsis(tip[p], reference, 0)
             n == ~NothingNew(AnswerIds(head, s).list, s)
  <2>2. n \in BOOLEAN
    BY DEF NothingNew
  <2> QED BY <2>1, <2>2
<1> DEFINE r == [peer[p] EXCEPT !.they_need = n]
<1>3. Kept(p, peer[p], known, h, liars) /\ peer[p] \in PeerRecord
  BY DEF NodeInv
<1>4. r \in PeerRecord /\ SamePlace(peer[p], r) /\ SameTalk(peer[p], r) /\ r.conn = peer[p].conn
  BY <1>3 DEF PeerRecord, SamePlace, SameTalk
<1>5. PICK y \in {r, StartSync(head, tip[p], r)} : \E z \in {y, Closing(y)} : peer' = [peer EXCEPT ![p] = z]
  BY <1>2
<1> HIDE DEF r
<1>6. Kept(p, r, known, h, liars)
  <2>1. Lined(r)
    BY <1>3, <1>4 DEF Kept, Lined, SamePlace, SameTalk
  <2> QED BY <1>3, <1>4, <2>1, PlaceStays, TalkStays DEF Kept
<1>7. tip[p] \in Blocks \cup {NoBlock} /\ head \in Blocks \cup {NoBlock} /\ ChainOK(head, known)
  BY DEF NodeInv, OtherTypes, ChainOK
<1>8. Kept(p, y, known, h, liars)
  <2>1. CASE y = r
    BY <1>6, <2>1
  <2>2. CASE y = StartSync(head, tip[p], r)
    <3>1. Lined(r)
      BY <1>6 DEF Kept
    <3>2. /\ Lined(y) /\ y.conn = r.conn
          /\ Based(r, known, h) /\ ChainOK(head, known) => Rooted(y, known, h)
          /\ Honest(r) => Honest(y)
      BY <1>7, <2>2, <3>1, StartSyncIs
    <3> QED BY <1>6, <1>7, <3>2 DEF Kept, Rooted
  <2> QED BY <1>5, <2>1, <2>2
<1>9. ASSUME NEW z \in {y, Closing(y)} PROVE Kept(p, z, known, h, liars)
  BY <1>8, ClosingIs DEF Kept
<1>10. OnlyLiarsBlamed' /\ OtherTypes'
  BY <1>1 DEF NodeInv, OnlyLiarsBlamed, OtherTypes
<1> QED BY <1>1, <1>5, <1>9, <1>10, OneIsKept

LEMMA FetchingKept == ASSUME NodeInv, NEW p \in Peers, PeerFetches(p) PROVE NodeInv'
<1> DEFINE h == ToSet(handling)
<1>1. /\ UNCHANGED <<head, known, handling, tip, active, received, suspended, wanted, wake>>
      /\ UNCHANGED <<blamed, liars>>
  BY DEF PeerFetches, chain, history
<1>2. PICK b \in known : peer' = [peer EXCEPT ![p].last_seen = b]
  BY DEF PeerFetches
<1> DEFINE r == peer[p]
           x == [peer[p] EXCEPT !.last_seen = b]
<1>3. Kept(p, r, known, h, liars) /\ r \in PeerRecord /\ b \in Blocks
  BY DEF NodeInv, ChainOK
<1>4. /\ x \in PeerRecord /\ x.last_seen = b /\ x.to_get = r.to_get /\ x.processing = r.processing
      /\ x.conn = r.conn /\ SameTalk(r, x)
  BY <1>3 DEF PeerRecord, SameTalk
<1>5. peer' = [peer EXCEPT ![p] = x]
  BY <1>2
<1> HIDE DEF x
<1>6. Lined(x) /\ (Honest(r) => Honest(x))
  BY <1>3, <1>4, TalkStays DEF Kept, Lined, SameTalk
<1>7. Rooted(r, known, h) => Rooted(x, known, h)
  BY <1>4 DEF Rooted, Based, Covers, Firm, SameTalk
<1>8. Kept(p, x, known, h, liars)
  BY <1>3, <1>4, <1>6, <1>7 DEF Kept
<1>9. OnlyLiarsBlamed' /\ OtherTypes'
  BY <1>1 DEF NodeInv, OnlyLiarsBlamed, OtherTypes
<1> QED BY <1>1, <1>5, <1>8, <1>9, OneIsKept

LEMMA GrowthKept == ASSUME NodeInv, NEW p \in Peers, PeerGrows(p) PROVE NodeInv'
<1> DEFINE h == ToSet(handling)
<1>1. UNCHANGED <<head, known, handling, active, received, suspended, wanted, wake, blamed, liars>>
  BY DEF PeerGrows, chain, history
<1>2. PICK b \in Blocks :
        /\ tip' = [tip EXCEPT ![p] = b]
        /\ \/ peer' = [peer EXCEPT ![p] = Sent(@, <<[kind |-> "offer", id |-> b]>>)]
           \/ peer' = peer
  BY DEF PeerGrows
<1>3. OnlyLiarsBlamed' /\ OtherTypes'
  BY <1>1, <1>2 DEF NodeInv, OnlyLiarsBlamed, OtherTypes
<1>4. Kept(p, peer[p], known, h, liars) /\ peer[p] \in PeerRecord /\ DOMAIN peer = Peers
  BY DEF NodeInv
<1>5. CASE peer' = peer
  <2>1. peer' = [peer EXCEPT ![p] = peer[p]]
    BY <1>4, <1>5 DEF NodeInv
  <2> QED BY <1>1, <1>3, <1>4, <2>1, OneIsKept
<1>6. CASE peer' = [peer EXCEPT ![p] = Sent(@, <<[kind |-> "offer", id |-> b]>>)]
  <2> DEFINE m == [kind |-> "offer", id |-> b]
             q == <<m>>
             r == peer[p]
             x == Sent(r, q)
             n == Len(r.inbox)
  <2>1. peer' = [peer EXCEPT ![p] = x]
    BY <1>4, <1>6
  <2>2. q \in Seq(Message) /\ Len(q) = 1 /\ q[1] = m
    <3>1. m \in Message
      BY DEF Message
    <3> HIDE DEF m
    <3> QED BY <3>1
  <2> HIDE DEF q
  <2>3. /\ x \in PeerRecord
        /\ \/ x = r
           \/ /\ x = [r EXCEPT !.inbox = r.inbox \o q]
              /\ n \in Nat /\ Len(x.inbox) = n + Len(q)
              /\ \A i \in 1 .. n : x.inbox[i] = r.inbox[i]
              /\ \A i \in 1 .. Len(q) : x.inbox[n + i] = q[i]
    BY <1>4, <2>2, SentIs
  <2> HIDE DEF x
  <2>4. CASE x = r
    BY <1>1, <1>3, <1>4, <2>1, <2>4, OneIsKept
  <2>5. CASE x # r
    <3>1. x.conn = r.conn /\ SamePlace(r, x) /\ x.overtaken = r.overtaken /\ x.asked = r.asked
          /\ x.sync_asked = r.sync_asked
      BY <1>4, <2>3, <2>5 DEF PeerRecord, SamePlace
    <3>2. /\ n \in Nat /\ \A i \in 1 .. Len(x.inbox) :
               x.inbox[i].kind = "offer" \/ (i \in 1 .. n /\ x.inbox[i] = r.inbox[i])
      <4>1. n \in Nat /\ Len(x.inbox) = n + 1 /\ (\A i \in 1 .. n : x.inbox[i] = r.inbox[i])
            /\ x.inbox[n + 1].kind = "offer"
        <5>1. 1 \in 1 .. Len(q) /\ m.kind = "offer"
          BY <2>2
        <5> HIDE DEF m
        <5> QED BY <2>2, <2>3, <2>5, <5>1
      <4>2. \A i \in 1 .. n + 1 : i \in 1 .. n \/ i = n + 1
        BY <4>1
      <4> QED BY <4>1, <4>2
    <3>3. Lined(x)
      BY <1>4, <2>3, <3>1, <3>2 DEF Kept, Lined, SamePlace
    <3>4. ASSUME Honest(r) PROVE Honest(x)
      <4>1. x.asked_ids = r.asked_ids /\ \A l : ValidList(x, l) <=> ValidList(r, l)
        BY <3>1 DEF SamePlace, ValidList
      <4>2. ASSUME NEW i \in 1 .. Len(x.inbox)
            PROVE  /\ x.inbox[i].kind = "block" => x.inbox[i].id \in x.asked \cup x.sync_asked
                   /\ x.inbox[i].kind = "ids" /\ ~x.overtaken =>
                        x.asked_ids # <<>> /\ ValidList(x, x.inbox[i].list)
        BY <3>1, <3>2, <3>4, <4>1 DEF Honest
      <4>3. ASSUME NEW i \in 1 .. Len(x.inbox), NEW j \in 1 .. Len(x.inbox),
                   i # j, x.inbox[i].kind = x.inbox[j].kind, x.inbox[i].kind # "offer"
            PROVE  IF x.inbox[i].kind = "ids" THEN x.overtaken ELSE x.inbox[i].id # x.inbox[j].id
        <5>1. i \in 1 .. n /\ x.inbox[i] = r.inbox[i] /\ j \in 1 .. n /\ x.inbox[j] = r.inbox[j]
          BY <3>2, <4>3
        <5>2. IF r.inbox[i].kind = "ids" THEN r.overtaken ELSE r.inbox[i].id # r.inbox[j].id
          BY <3>4, <4>3, <5>1 DEF Honest
        <5> QED BY <3>1, <5>1, <5>2
      <4> QED BY <3>1, <3>4, <4>2, <4>3 DEF Honest
    <3>5. Kept(p, x, known, h, liars)
      BY <1>4, <3>1, <3>3, <3>4, PlaceStays DEF Kept
    <3> QED BY <1>1, <1>3, <2>1, <3>5, OneIsKept
  <2> QED BY <2>4, <2>5
<1> QED BY <1>2, <1>5, <1>6

----------------------------------------------------------------------------
(* Theorems about the order, and about who is blamed. *)

(***************************************************************************)
(* What the node is to get from a peer begins where what it knows ends;    *)
(* the lists of ids build on one another; what is on its way from a peer   *)
(* that follows the protocol was asked for.                                *)
(***************************************************************************)
THEOREM NodeInvariant == Spec => []NodeInv
<1>1. Init => NodeInv
  <2> SUFFICES ASSUME Init PROVE NodeInv
    OBVIOUS
  <2> DEFINE e == <<>>
  <2>1. /\ head = NoBlock /\ known = {} /\ handling = e /\ received = e /\ peer = [p \in Peers |-> Gone]
        /\ tip \in [Peers -> Blocks \cup {NoBlock}] /\ active = {} /\ wanted = {} /\ wake = {}
        /\ suspended = FALSE /\ blamed = {} /\ liars = {}
    BY DEF Init
  <2>2. e \in Seq(Blocks) /\ Len(e) = 0
    BY EmptySeq
  <2> HIDE DEF e
  <2>3. Lined(Gone) /\ Gone.conn # "active" /\ Honest(Gone)
    <3>1. [Gone EXCEPT !.conn = "none"] = Gone
      <4>1. Gone.conn = "none" /\ Gone = [f \in DOMAIN Gone |-> Gone[f]]
        BY DEF Gone
      <4> QED BY <4>1
    <3>2. "none" # "active"
      OBVIOUS
    <3> QED BY <3>1, <3>2, NewRecords
  <2>4. \A p \in Peers : Kept(p, peer[p], known, ToSet(handling), liars)
    BY <2>1, <2>3 DEF Kept
  <2>5. peer \in [Peers -> PeerRecord] /\ DOMAIN peer = Peers
    BY <2>1, <2>3 DEF Lined
  <2>6. ChainOK(head, known) /\ InTurn /\ OnlyLiarsBlamed /\ OtherTypes
    <3>1. ChainOK(head, known) /\ OnlyLiarsBlamed
      BY <2>1 DEF ChainOK, OnlyLiarsBlamed
    <3>2. InTurn
      BY <2>1, <2>2 DEF InTurn
    <3>3. OtherTypes
      BY <2>1, <2>2 DEF OtherTypes
    <3> QED BY <3>1, <3>2, <3>3
  <2>7. handling \in Seq(Blocks) /\ Len(handling) <= MaxHandled
    BY <2>1, <2>2, SyncAssumption
  <2> QED BY <2>4, <2>5, <2>6, <2>7 DEF NodeInv
<1>2. NodeInv /\ [Next]_vars => NodeInv'
  <2> SUFFICES ASSUME NodeInv, [Next]_vars PROVE NodeInv'
    OBVIOUS
  <2>1. CASE FetchSyncItems
    BY <2>1, FetchSyncKept
  <2>2. CASE FetchItems
    BY <2>2, FetchItemsKept
  <2>3. CASE ProcessBacklog
    BY <2>3, BacklogKept
  <2>4. CASE HandleSyncBlock
    BY <2>4, HandleKept
  <2>5. ASSUME NEW p \in Peers, Connect(p) PROVE NodeInv'
    BY <2>5, ConnectKept
  <2>6. ASSUME NEW p \in Peers, ConnectionClosed(p) \/ Timeout(p) PROVE NodeInv'
    BY <2>6, ClosedKept DEF ConnectionClosed, Timeout
  <2>7. ASSUME NEW p \in Peers, FallSilent(p) \/ Misbehave(p) PROVE NodeInv'
    BY <2>7, FaultKept
  <2>8. ASSUME NEW p \in Peers, PeerAsks(p) \/ PeerFetches(p) \/ PeerGrows(p) PROVE NodeInv'
    BY <2>8, AskingKept, FetchingKept, GrowthKept
  <2>9. ASSUME NEW p \in Peers, Receive(p) PROVE NodeInv'
    BY <2>9, IdsRefused, IdsKept, SyncBlockKept, BlockKept, BlockRefused, OfferKept DEF Receive
  <2>10. ASSUME NEW p \in Peers, NotAvailable(p) PROVE NodeInv'
    BY <2>10, MissingKept
  <2>11. CASE UNCHANGED vars
    <3>1. /\ UNCHANGED <<head, known, handling, peer, tip, active, received, suspended, wanted, wake>>
          /\ UNCHANGED <<blamed, liars>>
      BY <2>11 DEF vars, chain, history
    <3>2. OnlyLiarsBlamed' /\ OtherTypes'
      BY <3>1 DEF NodeInv, OnlyLiarsBlamed, OtherTypes
    <3>3. DOMAIN peer' = Peers /\ peer' = [p \in Peers |-> peer'[p]]
      BY <3>1 DEF NodeInv
    <3>4. \A p \in Peers : Kept(p, peer'[p], known, ToSet(handling), liars')
      BY <3>1 DEF NodeInv
    <3> QED BY <3>1, <3>2, <3>3, <3>4, PeersAreKept
  <2> QED BY <2>1, <2>2, <2>3, <2>4, <2>5, <2>6, <2>7, <2>8, <2>9, <2>10, <2>11 DEF Next, Loops
<1> QED BY <1>1, <1>2, PTL DEF Spec

(***************************************************************************)
(* The types of the variables; the chain never has more than MaxHandled    *)
(* blocks to handle.                                                       *)
(***************************************************************************)
THEOREM SyncTypes == Spec => []TypeOK
<1>1. NodeInv => TypeOK
  BY DEF NodeInv, ChainOK, OtherTypes, TypeOK
<1> QED BY <1>1, NodeInvariant, PTL

(***************************************************************************)
(* Only a peer that broke the protocol is accused of an invalid block, and *)
(* of an invalid list only one that broke it or was asked twice.           *)
(***************************************************************************)
THEOREM HonestAreNotBlamed == Spec => []OnlyLiarsBlamed
<1>1. NodeInv => OnlyLiarsBlamed
  BY DEF NodeInv
<1> QED BY <1>1, NodeInvariant, PTL

(***************************************************************************)
(* A block grows what is handed to the chain only in the backlog loop.     *)
(***************************************************************************)
LEMMA OnlyBacklogAppends ==
  ASSUME NodeInv, Next, NEW b \in Blocks, handling' = Append(handling, b)
  PROVE  ProcessBlock
<1>1. handling \in Seq(Blocks) /\ Len(handling) \in Nat /\ Len(handling') = Len(handling) + 1
  BY AppendProperties, LenProperties DEF NodeInv
<1>2. handling' # handling
  BY <1>1
<1>3. ~HandleSyncBlock
  <2>1. ASSUME HandleSyncBlock PROVE FALSE
    <3>1. handling # <<>> /\ handling' = Tail(handling)
      BY <2>1 DEF HandleSyncBlock
    <3>2. Len(handling') = Len(handling) - 1
      BY <1>1, <3>1, HeadTailProperties
    <3> QED BY <1>1, <3>2
  <2> QED BY <2>1
<1>4. ProcessBacklog => ProcessBlock
  BY <1>2 DEF ProcessBacklog, LeaveBacklog, EndBacklog
<1>5. ~FetchSyncItems /\ ~FetchItems
  BY <1>2 DEF FetchSyncItems, FetchItems
<1>6. \A p \in Peers : /\ ~Connect(p) /\ ~ConnectionClosed(p) /\ ~FallSilent(p) /\ ~Misbehave(p)
                       /\ ~Timeout(p) /\ ~NotAvailable(p) /\ ~PeerAsks(p) /\ ~PeerFetches(p) /\ ~PeerGrows(p)
  BY <1>2 DEF Connect, ConnectionClosed, Closed, FallSilent, Misbehave, Timeout, NotAvailable, PeerAsks,
             PeerFetches, PeerGrows
<1>7. \A p \in Peers : ~Receive(p)
  BY <1>2 DEF Receive, IgnoreIds, RejectIds, ReceiveIds, ReceiveSyncBlock, ReceiveBlock, RejectBlock, ReceiveOffer
<1> QED BY <1>3, <1>4, <1>5, <1>6, <1>7 DEF Next, Loops

(***************************************************************************)
(* A block is handed to the chain after its parent, whatever the order in  *)
(* which the peers send them, also when the parent is rejected.            *)
(***************************************************************************)
THEOREM BlocksInOrder == Spec => InOrder
<1>1. ASSUME NodeInv, [Next]_vars, NEW b \in Blocks, handling' = Append(handling, b)
      PROVE  Parent[b] \in known \cup {NoBlock} \cup ToSet(handling)
  <2>1. handling \in Seq(Blocks) /\ Len(handling) \in Nat
        /\ Len(handling') = Len(handling) + 1 /\ handling'[Len(handling) + 1] = b
    BY <1>1, AppendProperties, LenProperties DEF NodeInv
  <2>2. Next
    BY <1>1, <2>1 DEF vars
  <2>3. ProcessBlock
    BY <1>1, <2>2, OnlyBacklogAppends
  <2> DEFINE c == received[Min(FirstBlocks)]
  <2>4. FirstBlocks # {} /\ handling' = Append(handling, c)
    BY <2>3 DEF ProcessBlock
  <2>5. c \in Blocks /\ Parent[c] \in known \cup {NoBlock} \cup ToSet(handling)
    BY <1>1, <2>4, NextOfBacklog
  <2> HIDE DEF c
  <2>6. handling'[Len(handling) + 1] = c
    BY <2>1, <2>4, <2>5, AppendProperties
  <2> QED BY <2>1, <2>5, <2>6
<1>2. NodeInv /\ [Next]_vars =>
        [liars = {} =>
           \A b \in Blocks :
              handling' = Append(handling, b) =>
                Parent[b] \in known \cup {NoBlock} \cup ToSet(handling)]_vars
  BY <1>1
<1> QED BY <1>2, NodeInvariant, PTL DEF Spec, InOrder
=============================================================================
