------------------------- MODULE UndoDatabaseProofs -------------------------
(***************************************************************************)
(* The undo database restores what it promises, for any number of objects, *)
(* sessions and undo states.                                               *)
(***************************************************************************)
EXTENDS UndoDatabase, SequenceTheorems, TLAPS

----------------------------------------------------------------------------
(* The undo state: what each hook and merge() preserve, and what rolling   *)
(* back restores.                                                          *)

(* Two databases with the same objects and the same next ids are equal. *)
LEMMA SameDB ==
  ASSUME NEW d, IsDB(d), NEW e, IsDB(e),
         DOMAIN d.obj = DOMAIN e.obj,
         \A id \in DOMAIN d.obj : d.obj[id] = e.obj[id],
         \A t \in Types : d.next[t] = e.next[t]
  PROVE  d = e
<1>1. d.obj = e.obj
  BY DEF IsDB, PartialFun
<1>2. d.next = e.next
  BY DEF IsDB
<1> QED
  BY <1>1, <1>2 DEF IsDB

(* A new state records that nothing has changed yet. *)
LEMMA EmptyRecords ==
  ASSUME NEW d, IsDB(d)
  PROVE  IsUndoState(EmptyState) /\ Records(EmptyState, d, d)
  BY DEF IsUndoState, EmptyState, Empty, PartialFun, Records, RecordsObjects, RecordsNextIds, FreshIds, IsDB

(* The database stays well formed when an index creates an object.         *)
LEMMA CreateIsDB ==
  ASSUME NEW d, IsDB(d), NEW t \in Types, NEW v \in Values
  PROVE  IsDB(CreateIn(d, t, v))
  BY DEF IsDB, CreateIn, Put, PartialFun, NextId, Ids

(* ... and when an object is modified,                                     *)
LEMMA ModifyIsDB ==
  ASSUME NEW d, IsDB(d), NEW id \in DOMAIN d.obj, NEW v \in Values
  PROVE  IsDB(ModifyIn(d, id, v))
  BY DEF IsDB, ModifyIn, PartialFun, Ids

(* ... and when an object is removed.                                      *)
LEMMA RemoveIsDB ==
  ASSUME NEW d, IsDB(d), NEW id \in DOMAIN d.obj
  PROVE  IsDB(RemoveIn(d, id))
  BY DEF IsDB, RemoveIn, Restrict, PartialFun, Ids
(* The hooks return undo states. *)
LEMMA OnCreateIsUndoState ==
  ASSUME NEW s, IsUndoState(s), NEW d, IsDB(d), NEW t \in Types
  PROVE  IsUndoState(OnCreate(s, NextId(d, t)))
<1> DEFINE id == NextId(d, t)
<1>1. id \in Ids /\ id[1] \in Types /\ id[2] \in Nat
  BY DEF IsDB, Ids, NextId
<1> HIDE DEF id
<1>2. PartialFun(Put(s.old_index_next_ids, id[1], id[2]), Types, Nat)
  BY <1>1 DEF IsUndoState, PartialFun, Put
<1> QED
  BY <1>1, <1>2 DEF IsUndoState, OnCreate, id

(* on_modify keeps an undo state well formed,                              *)
LEMMA OnModifyIsUndoState ==
  ASSUME NEW s, IsUndoState(s), NEW d, IsDB(d), NEW id \in DOMAIN d.obj
  PROVE  IsUndoState(OnModify(s, id, d.obj[id]))
BY DEF IsDB, IsUndoState, PartialFun, OnModify, Put

(* ... and on_remove,                                                      *)
LEMMA OnRemoveIsUndoState ==
  ASSUME NEW s, IsUndoState(s), NEW d, IsDB(d), NEW id \in DOMAIN d.obj
  PROVE  IsUndoState(OnRemove(s, id, d.obj[id]))
BY DEF IsDB, IsUndoState, PartialFun, OnRemove, Put, Restrict

(* on_create keeps the record exact. *)
LEMMA CreateRecords ==
  ASSUME NEW s, IsUndoState(s), NEW b, IsDB(b), NEW d, IsDB(d), Records(s, b, d),
         NEW t \in Types, NEW v \in Values
  PROVE  Records(OnCreate(s, NextId(d, t)), b, CreateIn(d, t, v))
<1> DEFINE id == NextId(d, t)
           n  == OnCreate(s, id)
           e  == CreateIn(d, t, v)
<1>1. /\ id \in Ids /\ id[1] = t /\ id[2] = d.next[t] /\ id[2] \in Nat
      /\ id \notin DOMAIN d.obj
      /\ id \notin DOMAIN b.obj
  BY DEF IsDB, PartialFun, Ids, NextId, Records, RecordsNextIds
<1>2. RecordsObjects(n, b, e)
  BY <1>1 DEF IsDB, IsUndoState, PartialFun, OnCreate, CreateIn, Put, Records, RecordsObjects
<1>3. RecordsNextIds(n, b, e)
  BY <1>1 DEF IsDB, IsUndoState, PartialFun, OnCreate, CreateIn, Put, Records, RecordsNextIds
<1>4. FreshIds(b, e)
  BY <1>1 DEF IsDB, PartialFun, CreateIn, Put, Records, RecordsNextIds, FreshIds
<1> QED
  BY <1>2, <1>3, <1>4 DEF Records

(* on_modify keeps the record exact. *)
LEMMA ModifyRecords ==
  ASSUME NEW s, IsUndoState(s), NEW b, IsDB(b), NEW d, IsDB(d), Records(s, b, d),
         NEW id \in DOMAIN d.obj, NEW v \in Values
  PROVE  Records(OnModify(s, id, d.obj[id]), b, ModifyIn(d, id, v))
<1> DEFINE n == OnModify(s, id, d.obj[id])
           e == ModifyIn(d, id, v)
<1>1. RecordsObjects(n, b, e)
  BY DEF IsDB, IsUndoState, PartialFun, OnModify, ModifyIn, Put, Records, RecordsObjects
<1>2. RecordsNextIds(n, b, e) /\ FreshIds(b, e)
  BY DEF IsDB, IsUndoState, PartialFun, OnModify, ModifyIn, Put, Records, RecordsNextIds, FreshIds
<1> QED
  BY <1>1, <1>2 DEF Records

(* on_remove keeps the record exact. *)
LEMMA RemoveRecords ==
  ASSUME NEW s, IsUndoState(s), NEW b, IsDB(b), NEW d, IsDB(d), Records(s, b, d),
         NEW id \in DOMAIN d.obj
  PROVE  Records(OnRemove(s, id, d.obj[id]), b, RemoveIn(d, id))
<1> DEFINE n == OnRemove(s, id, d.obj[id])
           e == RemoveIn(d, id)
<1>1. RecordsObjects(n, b, e)
  BY DEF IsDB, IsUndoState, PartialFun, OnRemove, RemoveIn, Put, Restrict, Records, RecordsObjects
<1>2. RecordsNextIds(n, b, e) /\ FreshIds(b, e)
  BY DEF IsDB, IsUndoState, PartialFun, OnRemove, RemoveIn, Put, Restrict, Records, RecordsNextIds, FreshIds
<1> QED
  BY <1>1, <1>2 DEF Records

(* ... and merge().                                                        *)
LEMMA MergeIsUndoState ==
  ASSUME NEW a, IsUndoState(a), NEW b, IsUndoState(b)
  PROVE  IsUndoState(MergeStates(a, b))
BY DEF IsUndoState, PartialFun, MergeStates, MergedNewIds, RemovedValue, Restrict

(* merge() composes two records that follow one another. *)
LEMMA MergeRecords ==
  ASSUME NEW a, IsUndoState(a), NEW b, IsUndoState(b),
         NEW d, IsDB(d), NEW e, IsDB(e), NEW f, IsDB(f),
         Records(a, d, e), Records(b, e, f)
  PROVE  IsUndoState(MergeStates(a, b)) /\ Records(MergeStates(a, b), d, f)
<1>1. IsUndoState(MergeStates(a, b))
  BY MergeIsUndoState
<1>2. RecordsObjects(MergeStates(a, b), d, f)
  BY DEF IsDB, IsUndoState, PartialFun, MergeStates, MergedNewIds, RemovedValue, Restrict, Records, RecordsObjects, RecordsNextIds, FreshIds, Ids
<1>3. RecordsNextIds(MergeStates(a, b), d, f)
  BY DEF IsDB, IsUndoState, PartialFun, MergeStates, MergedNewIds, RemovedValue, Restrict, Records, RecordsNextIds
<1>4. FreshIds(d, f)
  BY DEF IsDB, PartialFun, Records, RecordsNextIds, FreshIds, Ids
<1> QED
  BY <1>1, <1>2, <1>3, <1>4 DEF Records

(* Rolling back an exact record meets no missing or colliding object and   *)
(* restores the database the record starts from.                           *)
LEMMA RestoreRecords ==
  ASSUME NEW s, IsUndoState(s), NEW d, IsDB(d), NEW e, IsDB(e), Records(s, d, e)
  PROVE  Restorable(s, e) /\ Restore(s, e) = d
<1>1. Restorable(s, e)
  BY DEF Restorable, Records, RecordsObjects
<1>2. IsDB(Restore(s, e))
  BY DEF Restore, IsDB, IsUndoState, PartialFun, Records, RecordsObjects, RecordsNextIds, Ids
<1>3. /\ DOMAIN Restore(s, e).obj = DOMAIN d.obj
      /\ \A id \in DOMAIN d.obj : Restore(s, e).obj[id] = d.obj[id]
  BY DEF Restore, Records, RecordsObjects
<1>4. \A t \in Types : Restore(s, e).next[t] = d.next[t]
  BY DEF Restore, Records, RecordsNextIds
<1> QED
  BY <1>1, <1>2, <1>3, <1>4, SameDB
----------------------------------------------------------------------------
(* Sequences whose elements have no common set. *)

(* A sequence of states is one over any set that holds its elements.       *)
LEMMA SeqElements ==
  ASSUME NEW s, IsSeq(s), NEW S, \A i \in 1 .. Len(s) : s[i] \in S
  PROVE  s \in Seq(S)
BY SeqDef DEF IsSeq

(* ... and the sequences of the library are sequences in this sense.       *)
LEMMA SeqIsSeq ==
  ASSUME NEW S, NEW s \in Seq(S)
  PROVE  IsSeq(s)
BY LenProperties, SeqDef DEF IsSeq

(* An empty stack is the only one of length zero.                          *)
LEMMA EmptyIsSeq ==
  /\ IsSeq(<<>>) /\ Len(<<>>) = 0
  /\ \A s : IsSeq(s) => (s = <<>> <=> Len(s) = 0)
<1>1. <<>> \in Seq({}) /\ Len(<<>>) = 0
  BY EmptySeq
<1>2. IsSeq(<<>>)
  BY <1>1, SeqIsSeq
<1>3. ASSUME NEW s, IsSeq(s), Len(s) = 0
      PROVE  s = <<>>
  <2> DEFINE S == {s[i] : i \in 1 .. Len(s)}
  <2>1. s \in Seq(S)
    BY <1>3, SeqElements
  <2> HIDE DEF S
  <2> QED
    BY <1>3, <2>1, EmptySeq
<1> QED
  BY <1>1, <1>2, <1>3

(* What emplace_back leaves of a stack.                                    *)
LEMMA AppendSeq ==
  ASSUME NEW s, IsSeq(s), NEW e
  PROVE  /\ IsSeq(Append(s, e))
         /\ Len(Append(s, e)) = Len(s) + 1
         /\ \A i \in 1 .. Len(s) : Append(s, e)[i] = s[i]
         /\ Append(s, e)[Len(s) + 1] = e
<1> DEFINE S == {s[i] : i \in 1 .. Len(s)} \cup {e}
<1>1. s \in Seq(S) /\ e \in S
  BY SeqElements
<1> HIDE DEF S
<1>2. IsSeq(Append(s, e))
  BY <1>1, AppendProperties, SeqIsSeq
<1> QED
  BY <1>1, <1>2, AppendProperties

(* What is left of a stack that is cut at either end.                      *)
LEMMA SubSeqSeq ==
  ASSUME NEW s, IsSeq(s), NEW m \in 1 .. Len(s) + 1, NEW n \in m - 1 .. Len(s)
  PROVE  /\ IsSeq(SubSeq(s, m, n))
         /\ Len(SubSeq(s, m, n)) = n - m + 1
         /\ \A i \in 1 .. n - m + 1 : SubSeq(s, m, n)[i] = s[m + i - 1]
<1> DEFINE S == {s[i] : i \in 1 .. Len(s)}
<1>1. \A i \in m .. n : s[i] \in S
  BY DEF IsSeq
<1>2. m \in Int /\ n \in Int /\ (m <= n \/ n - m + 1 = 0)
  BY DEF IsSeq
<1> HIDE DEF S
<1>3. SubSeq(s, m, n) \in Seq(S)
  BY <1>1, <1>2, SubSeqProperties
<1>4. IsSeq(SubSeq(s, m, n))
  BY <1>3, SeqIsSeq
<1>5. Len(SubSeq(s, m, n)) = n - m + 1
  BY <1>1, <1>2, SubSeqProperties
<1>6. \A i \in 1 .. n - m + 1 : SubSeq(s, m, n)[i] = s[m + i - 1]
  BY <1>1, <1>2, SubSeqProperties
<1> QED
  BY <1>4, <1>5, <1>6

(* What pop_back leaves of a stack.                                        *)
LEMMA FrontSeq ==
  ASSUME NEW s, IsSeq(s), s # <<>>
  PROVE  /\ IsSeq(Front(s)) /\ Len(Front(s)) = Len(s) - 1 /\ Len(s) - 1 \in Nat
         /\ \A i \in 1 .. Len(s) - 1 : Front(s)[i] = s[i]
<1> DEFINE n == Len(s) - 1
<1>1. Len(s) \in Nat /\ Len(s) # 0
  BY EmptyIsSeq DEF IsSeq
<1>2. 1 \in 1 .. Len(s) + 1 /\ n \in 1 - 1 .. Len(s) /\ n \in Nat
  BY <1>1
<1> HIDE DEF n
<1>3. /\ IsSeq(SubSeq(s, 1, n))
      /\ Len(SubSeq(s, 1, n)) = n - 1 + 1
      /\ \A i \in 1 .. n - 1 + 1 : SubSeq(s, 1, n)[i] = s[1 + i - 1]
  BY <1>2, SubSeqSeq
<1>4. n - 1 + 1 = n /\ \A i \in 1 .. n : 1 + i - 1 = i
  BY <1>2
<1>5. \A i \in 1 .. n : SubSeq(s, 1, n)[i] = s[i]
  BY <1>3, <1>4
<1> QED
  BY <1>2, <1>3, <1>4, <1>5 DEF Front, n

(* What a hook that updates the newest state leaves of a stack.            *)
LEMMA ReplaceNewest ==
  ASSUME NEW s, IsSeq(s), s # <<>>, NEW e
  PROVE  /\ IsSeq(Append(Front(s), e)) /\ Len(Append(Front(s), e)) = Len(s)
         /\ \A i \in 1 .. Len(s) : Append(Front(s), e)[i] = IF i = Len(s) THEN e ELSE s[i]
<1> DEFINE f == Front(s)
<1>1. /\ IsSeq(f) /\ Len(f) = Len(s) - 1 /\ Len(s) \in Nat
      /\ \A i \in 1 .. Len(s) - 1 : f[i] = s[i]
  BY FrontSeq DEF IsSeq
<1> HIDE DEF f
<1>2. /\ IsSeq(Append(f, e)) /\ Len(Append(f, e)) = Len(f) + 1
      /\ \A i \in 1 .. Len(f) : Append(f, e)[i] = f[i]
      /\ Append(f, e)[Len(f) + 1] = e
  BY <1>1, AppendSeq
<1>3. Len(f) + 1 = Len(s)
  BY <1>1
<1>4. ASSUME NEW i \in 1 .. Len(s)
      PROVE  Append(f, e)[i] = IF i = Len(s) THEN e ELSE s[i]
  BY <1>1, <1>2, <1>3
<1> QED
  BY <1>2, <1>3, <1>4 DEF f

----------------------------------------------------------------------------
(* The invariant holds initially. *)
LEMMA InitIInv == Init => IInv
<1> SUFFICES ASSUME Init PROVE IInv
  OBVIOUS
<1>1. IsDB(db)
  BY DEF Init, IsDB, EmptyDB, PartialFun, Ids
<1>2. stack = <<>> /\ snaps = <<>> /\ Len(stack) = 0 /\ Len(snaps) = 0
  BY EmptyIsSeq DEF Init
<1>3. IsSeq(stack) /\ IsSeq(snaps)
  BY <1>2, EmptyIsSeq
<1>4. 1 .. Len(stack) = {} /\ active \in 0 .. MaxSessions
  BY <1>2, UndoSizesAssumption DEF Init
<1>5. TypeOK
  <2> HIDE DEF Init
  <2>1. disabled \in BOOLEAN /\ disable_on_exit \in BOOLEAN /\ max_size \in UndoSizes
    BY DEF Init
  <2> QED
    BY <1>1, <1>2, <1>3, <1>4, <2>1, Zenon DEF TypeOK
<1> QED
  BY <1>2, <1>5 DEF Init, IInv, RecordingOn, SessionsBacked, LostBelow, StatesRecordChanges

(* A change of the objects, recorded by an update of the newest state that *)
(* keeps it exact, preserves the invariant, whether recording is on or off.*)
LEMMA RecordStep ==
  ASSUME IInv, NEW top, IsUndoState(top), IsDB(db'),
         \A d : IsDB(d) /\ Records(Top, d, db) => Records(top, d, db'),
         RecordIn(top), UNCHANGED <<disabled, active, disable_on_exit, max_size>>
  PROVE  IInv'
<1> DEFINE n == Len(stack)
<1>0. n \in Nat /\ Len(stack) = n /\ IsSeq(stack) /\ IsSeq(snaps) /\ Len(snaps) = n
  BY DEF IInv, TypeOK, IsSeq
<1>1. CASE disabled
  <2>1. stack' = stack /\ snaps' = [i \in 1 .. n |-> {}]
    BY <1>0, <1>1 DEF RecordIn, IsSeq
  <2>2. IsSeq(snaps') /\ Len(snaps') = n
    BY <1>0, <2>1 DEF IsSeq
  <2>3. TypeOK'
    BY <1>0, <2>1, <2>2 DEF IInv, TypeOK
  <2> QED
    BY <1>0, <1>1, <2>1, <2>2, <2>3 DEF IInv, RecordingOn, SessionsBacked, LostBelow, StatesRecordChanges, After
<1>2. CASE ~disabled /\ stack = <<>>
  <2>1. n = 0 /\ snaps = <<>> /\ active = 0
    BY <1>0, <1>2, EmptyIsSeq DEF IInv, SessionsBacked, TypeOK
  <2>2. stack' = <<top>> /\ snaps' = <<{db}>>
    BY <1>2, <2>1 DEF RecordIn
  <2>3. IsSeq(stack') /\ IsSeq(snaps') /\ Len(stack') = 1 /\ Len(snaps') = 1
    BY <2>2 DEF IsSeq
  <2>4. TypeOK'
    BY <2>2, <2>3 DEF IInv, TypeOK
  <2>5. Records(top, db, db')
    BY <1>2, EmptyRecords DEF IInv, TypeOK, Top
  <2> QED
    BY <1>2, <2>1, <2>2, <2>3, <2>4, <2>5 DEF IInv, RecordingOn, SessionsBacked, LostBelow, StatesRecordChanges, After
<1>3. CASE ~disabled /\ stack # <<>>
  <2>1. n \in 1 .. n /\ snaps # <<>>
    BY <1>0, <1>3, EmptyIsSeq
  <2>2. stack' = Append(Front(stack), top) /\ snaps' = snaps
    BY <1>3, <2>1 DEF RecordIn
  <2>3. /\ IsSeq(stack') /\ Len(stack') = n
        /\ \A i \in 1 .. n : stack'[i] = IF i = n THEN top ELSE stack[i]
    BY <1>0, <1>3, <2>1, <2>2, ReplaceNewest
  <2>4. TypeOK'
    BY <1>0, <2>2, <2>3 DEF IInv, TypeOK
  <2>5. StatesRecordChanges'
    <3> SUFFICES ASSUME NEW i \in 1 .. n, NEW d \in snaps[i], NEW e \in After(i)'
                 PROVE  Records(stack'[i], d, e)
      BY <2>2, <2>3 DEF StatesRecordChanges
    <3>1. CASE i = n
      BY <1>3, <2>1, <2>2, <2>3, <3>1 DEF IInv, TypeOK, StatesRecordChanges, After, Top
    <3>2. CASE i # n
      BY <2>2, <2>3, <3>2 DEF IInv, StatesRecordChanges, After
    <3> QED
      BY <3>1, <3>2
  <2> QED
    BY <2>2, <2>3, <2>4, <2>5 DEF IInv, RecordingOn, SessionsBacked, LostBelow
<1> QED
  BY <1>1, <1>2, <1>3

(* The hooks of the undo database always update a well-formed state.       *)
LEMMA TopIsUndoState ==
  ASSUME IInv
  PROVE  IsUndoState(Top)
BY EmptyRecords, EmptyIsSeq DEF IInv, TypeOK, Top, IsSeq

(* Creating an object preserves the invariant,                             *)
LEMMA CreateStep ==
  ASSUME IInv, NEW t \in Types, NEW v \in Values, Create(t, v)
  PROVE  IInv'
<1> DEFINE top == OnCreate(Top, NextId(db, t))
<1>1. IsDB(db) /\ IsUndoState(Top)
  BY TopIsUndoState DEF IInv, TypeOK
<1>2. db' = CreateIn(db, t, v) /\ IsDB(db')
  BY <1>1, CreateIsDB DEF Create
<1>3. \A d : IsDB(d) /\ Records(Top, d, db) => Records(top, d, db')
  BY <1>1, <1>2, CreateRecords
<1>4. IsUndoState(top)
  BY <1>1, OnCreateIsUndoState
<1> QED
  BY <1>2, <1>3, <1>4, RecordStep DEF Create

(* ... and modifying one,                                                  *)
LEMMA ModifyStep ==
  ASSUME IInv, NEW id \in DOMAIN db.obj, NEW v \in Values, Modify(id, v)
  PROVE  IInv'
<1> DEFINE top == OnModify(Top, id, db.obj[id])
<1>1. IsDB(db) /\ IsUndoState(Top)
  BY TopIsUndoState DEF IInv, TypeOK
<1>2. db' = ModifyIn(db, id, v) /\ IsDB(db')
  BY <1>1, ModifyIsDB DEF Modify
<1>3. \A d : IsDB(d) /\ Records(Top, d, db) => Records(top, d, db')
  BY <1>1, <1>2, ModifyRecords
<1>4. IsUndoState(top)
  BY <1>1, OnModifyIsUndoState
<1> QED
  BY <1>2, <1>3, <1>4, RecordStep DEF Modify

(* ... and removing one.                                                   *)
LEMMA RemoveStep ==
  ASSUME IInv, NEW id \in DOMAIN db.obj, Remove(id)
  PROVE  IInv'
<1> DEFINE top == OnRemove(Top, id, db.obj[id])
<1>1. IsDB(db) /\ IsUndoState(Top)
  BY TopIsUndoState DEF IInv, TypeOK
<1>2. db' = RemoveIn(db, id) /\ IsDB(db')
  BY <1>1, RemoveIsDB DEF Remove
<1>3. \A d : IsDB(d) /\ Records(Top, d, db) => Records(top, d, db')
  BY <1>1, <1>2, RemoveRecords
<1>4. IsUndoState(top)
  BY <1>1, OnRemoveIsUndoState
<1> QED
  BY <1>2, <1>3, <1>4, RecordStep DEF Remove

----------------------------------------------------------------------------
(* Sessions. *)

(* Trimming cuts `c` states at the bottom, and never one that an active    *)
(* session needs.                                                          *)
LEMMA TrimCuts ==
  ASSUME IInv, active < MaxSessions
  PROVE  \E c \in 0 .. (Len(stack) - active) :
           \A s : IsSeq(s) /\ Len(s) = Len(stack) =>
             /\ Trim(s) = SubSeq(s, c + 1, Len(s))
             /\ IsSeq(Trim(s)) /\ Len(Trim(s)) = Len(s) - c
             /\ \A i \in 1 .. Len(s) - c : Trim(s)[i] = s[i + c]
<1> DEFINE n == Len(stack)
           c == IF n > max_size THEN n - max_size ELSE 0
<1>1. /\ n \in Nat /\ active \in Nat /\ active <= n
      /\ max_size \in Nat /\ active <= max_size
  BY UndoSizesAssumption DEF IInv, TypeOK, SessionsBacked, IsSeq
<1>2. c \in 0 .. (n - active)
  BY <1>1
<1>3. ASSUME NEW s, IsSeq(s), Len(s) = n
      PROVE  /\ Trim(s) = SubSeq(s, c + 1, Len(s))
             /\ IsSeq(Trim(s)) /\ Len(Trim(s)) = Len(s) - c
             /\ \A i \in 1 .. Len(s) - c : Trim(s)[i] = s[i + c]
  <2>0. Trim(s) = SubSeq(s, c + 1, n)
    <3>1. CASE n > max_size
      BY <1>1, <1>3, <3>1 DEF Trim
    <3>2. CASE ~(n > max_size)
      <4> DEFINE S == {s[i] : i \in 1 .. Len(s)}
      <4>1. s \in Seq(S)
        BY <1>3, SeqElements
      <4> HIDE DEF S
      <4> QED
        BY <1>1, <1>3, <3>2, <4>1, SubSeqFull DEF Trim
    <3> QED
      BY <3>1, <3>2
  <2>1. c + 1 \in 1 .. n + 1 /\ n \in c + 1 - 1 .. n /\ c \in Nat
    BY <1>1, <1>2
  <2> HIDE DEF c, n
  <2>2. /\ IsSeq(SubSeq(s, c + 1, n)) /\ Len(SubSeq(s, c + 1, n)) = n - (c + 1) + 1
        /\ \A i \in 1 .. n - (c + 1) + 1 : SubSeq(s, c + 1, n)[i] = s[c + 1 + i - 1]
    BY <1>3, <2>1, SubSeqSeq
  <2>3. n - (c + 1) + 1 = n - c /\ \A i \in 1 .. n - c : c + 1 + i - 1 = i + c
    BY <1>1, <2>1
  <2> QED
    BY <1>3, <2>0, <2>2, <2>3
<1> QED
  BY <1>2, <1>3

(* start_undo_session preserves the invariant.                             *)
LEMMA StartStep ==
  ASSUME IInv, NEW force_enable \in BOOLEAN, StartSession(force_enable)
  PROVE  IInv'
<1> DEFINE n == Len(stack)
<1>0. n \in Nat /\ Len(stack) = n /\ IsSeq(stack) /\ IsSeq(snaps) /\ Len(snaps) = n
  BY DEF IInv, TypeOK, IsSeq
<1>1. PICK c \in 0 .. (n - active) :
         \A s : IsSeq(s) /\ Len(s) = n =>
             /\ Trim(s) = SubSeq(s, c + 1, Len(s))
             /\ IsSeq(Trim(s)) /\ Len(Trim(s)) = Len(s) - c
             /\ \A i \in 1 .. Len(s) - c : Trim(s)[i] = s[i + c]
  BY TrimCuts DEF StartSession
<1> DEFINE k == n - c
<1>2. k \in Nat /\ c \in Nat /\ active \in Nat /\ active <= k /\ k + c = n
  BY <1>0, <1>1 DEF IInv, TypeOK
<1>3. /\ IsSeq(Trim(stack)) /\ Len(Trim(stack)) = k
      /\ \A i \in 1 .. k : Trim(stack)[i] = stack[i + c]
      /\ IsSeq(Trim(snaps)) /\ Len(Trim(snaps)) = k
      /\ \A i \in 1 .. k : Trim(snaps)[i] = snaps[i + c]
  BY <1>0, <1>1
<1> HIDE DEF n, k
<1>4. /\ IsSeq(stack') /\ Len(stack') = k + 1 /\ stack'[k + 1] = EmptyState
      /\ \A i \in 1 .. k : stack'[i] = stack[i + c]
      /\ IsSeq(snaps') /\ Len(snaps') = k + 1 /\ snaps'[k + 1] = {db}
      /\ \A i \in 1 .. k : snaps'[i] = snaps[i + c]
  BY <1>3, AppendSeq DEF StartSession
<1>5. \A i \in 1 .. k : i + c \in 1 .. n
  BY <1>2
<1>6. db' = db /\ disabled' = FALSE /\ max_size' = max_size /\ active' = active + 1
      /\ disable_on_exit' \in BOOLEAN /\ active < MaxSessions
  BY DEF StartSession, IInv, TypeOK
<1>7. TypeOK'
  <2>1. active' \in 0 .. MaxSessions
    BY <1>2, <1>6, UndoSizesAssumption
  <2>2. \A i \in 1 .. k + 1 : IsUndoState(stack'[i])
    BY <1>0, <1>2, <1>4, <1>5, EmptyRecords DEF IInv, TypeOK
  <2>3. \A i \in 1 .. k + 1 : \A d \in snaps'[i] : IsDB(d) /\ snaps'[i] = {d}
    BY <1>0, <1>2, <1>4, <1>5, SMTT(20) DEF IInv, TypeOK
  <2> QED
    BY <1>4, <1>6, <2>1, <2>2, <2>3 DEF IInv, TypeOK
<1>8. RecordingOn'
  BY <1>2, <1>6 DEF RecordingOn
<1>9. SessionsBacked'
  <2>1. active' <= Len(stack')
    BY <1>2, <1>4, <1>6
  <2>2. ASSUME NEW i \in 1 .. k + 1, i > k + 1 - active'
        PROVE  snaps'[i] # {}
    <3>1. CASE i = k + 1
      <4>1. {db} # {}
        OBVIOUS
      <4> QED
        BY <1>4, <3>1, <4>1
    <3>2. CASE i # k + 1
      <4>1. i \in 1 .. k /\ i + c \in 1 .. n /\ i + c > n - active
        BY <1>2, <1>6, <2>2, <3>2
      <4> QED
        BY <1>0, <1>4, <4>1 DEF IInv, SessionsBacked
    <3> QED
      BY <3>1, <3>2
  <2> QED
    BY <1>2, <1>4, <1>6, <2>1, <2>2, SMTT(20) DEF SessionsBacked
<1>10. LostBelow'
  <2> SUFFICES ASSUME NEW i \in 1 .. k + 1, NEW j \in 1 .. i, snaps'[i] = {}
               PROVE  snaps'[j] = {}
    BY <1>4 DEF LostBelow
  <2>0. {db} # {} /\ i # k + 1
    BY <1>4
  <2>1. i \in 1 .. k /\ j \in 1 .. k
    BY <1>2, <2>0
  <2>2. i + c \in 1 .. n /\ j + c \in 1 .. i + c
    BY <1>2, <2>1
  <2> QED
    BY <1>0, <1>4, <2>1, <2>2 DEF IInv, LostBelow
<1>11. StatesRecordChanges'
  <2> SUFFICES ASSUME NEW i \in 1 .. k + 1, NEW d \in snaps'[i], NEW e \in After(i)'
               PROVE  Records(stack'[i], d, e)
    BY <1>4 DEF StatesRecordChanges
  <2>1. CASE i = k + 1
    BY <1>4, <1>6, <2>1, EmptyRecords DEF IInv, TypeOK, After
  <2>2. CASE i # k + 1
    <3>1. i \in 1 .. k /\ i + c \in 1 .. n
      BY <1>2, <2>2
    <3>2. After(i)' = After(i + c)
      <4>1. CASE i = k
        BY <1>0, <1>2, <1>4, <1>6, <3>1, <4>1 DEF After
      <4>2. CASE i # k
        <5>1. i + 1 \in 1 .. k /\ i + c # n /\ (i + 1) + c = (i + c) + 1
          BY <1>2, <3>1, <4>2
        <5> QED
          BY <1>0, <1>4, <2>2, <5>1 DEF After
      <4> QED
        BY <4>1, <4>2
    <3> QED
      BY <1>0, <1>4, <3>1, <3>2 DEF IInv, StatesRecordChanges
  <2> QED
    BY <2>1, <2>2
<1> QED
  BY <1>7, <1>8, <1>9, <1>10, <1>11 DEF IInv

(* The table of merge(), for two states that record consecutive changes.   *)
LEMMA MergeTable ==
  ASSUME NEW a, IsUndoState(a), NEW b, IsUndoState(b),
         NEW d, IsDB(d), NEW e, IsDB(e), NEW f, IsDB(f),
         Records(a, d, e), Records(b, e, f),
         NEW id \in UNION {DOMAIN a.old_values, DOMAIN a.removed, a.new_ids,
                           DOMAIN b.old_values, DOMAIN b.removed, b.new_ids}
  PROVE  Relation(MergeStates(a, b), id) = Table(Relation(a, id), Relation(b, id))
<1> DEFINE m == MergeStates(a, b)
<1>1. /\ (id \in a.new_ids <=> id \in DOMAIN e.obj /\ id \notin DOMAIN d.obj)
      /\ (id \in b.new_ids <=> id \in DOMAIN f.obj /\ id \notin DOMAIN e.obj)
      /\ (id \in DOMAIN a.removed <=> id \in DOMAIN d.obj /\ id \notin DOMAIN e.obj)
      /\ (id \in DOMAIN b.removed <=> id \in DOMAIN e.obj /\ id \notin DOMAIN f.obj)
      /\ (id \in DOMAIN a.old_values => id \in DOMAIN d.obj /\ id \in DOMAIN e.obj)
      /\ (id \in DOMAIN b.old_values => id \in DOMAIN e.obj /\ id \in DOMAIN f.obj)
  BY DEF Records, RecordsObjects
<1>2. ~(id \in DOMAIN a.removed /\ id \in b.new_ids)
  BY DEF Records, RecordsObjects, RecordsNextIds, FreshIds, IsDB, IsUndoState, PartialFun, Ids
<1>3. /\ (id \in m.new_ids <=> (id \in a.new_ids \/ id \in b.new_ids) /\ id \notin DOMAIN b.removed)
      /\ (id \in DOMAIN m.old_values <=>
            /\ id \in DOMAIN a.old_values \/ (id \in DOMAIN b.old_values /\ id \notin a.new_ids)
            /\ ~(id \in DOMAIN b.removed /\ id \notin a.new_ids /\ id \notin b.new_ids))
      /\ (id \in DOMAIN m.removed <=>
            \/ id \in DOMAIN a.removed
            \/ (id \in DOMAIN b.removed /\ id \notin a.new_ids /\ id \notin b.new_ids))
  BY DEF MergeStates, MergedNewIds, RemovedValue, Restrict
<1>4. id \in DOMAIN m.old_values =>
        m.old_values[id] = IF id \in DOMAIN a.old_values THEN a.old_values[id] ELSE b.old_values[id]
  BY DEF MergeStates, MergedNewIds, RemovedValue, Restrict
<1>5. id \in DOMAIN m.removed =>
        m.removed[id] = IF ~(id \in DOMAIN b.removed /\ id \notin a.new_ids /\ id \notin b.new_ids)
                        THEN a.removed[id]
                        ELSE IF id \in DOMAIN a.old_values THEN a.old_values[id]
                        ELSE IF id \in DOMAIN b.old_values THEN b.old_values[id] ELSE b.removed[id]
  BY <1>1 DEF MergeStates, MergedNewIds, RemovedValue, Restrict
<1> HIDE DEF m
<1>6. CASE id \in a.new_ids
  BY <1>1, <1>2, <1>3, <1>4, <1>5, <1>6 DEF Relation, Table, m
<1>7. CASE id \in DOMAIN a.old_values
  BY <1>1, <1>2, <1>3, <1>4, <1>5, <1>7 DEF Relation, Table, m
<1>8. CASE id \in DOMAIN a.removed
  BY <1>1, <1>2, <1>3, <1>4, <1>5, <1>8 DEF Relation, Table, m
<1>9. CASE id \notin a.new_ids \cup DOMAIN a.old_values \cup DOMAIN a.removed
  BY <1>1, <1>2, <1>3, <1>4, <1>5, <1>9 DEF Relation, Table, m
<1> QED
  BY <1>6, <1>7, <1>8, <1>9

(* Restoring the newest state leads to the copy made when it was pushed.   *)
LEMMA RestoresNewest ==
  ASSUME IInv, stack # <<>>, snaps[Len(stack)] # {}
  PROVE  Restore(Top, db) \in snaps[Len(stack)]
<1> DEFINE n == Len(stack)
<1>1. n \in 1 .. n /\ Top = stack[n]
  BY EmptyIsSeq DEF IInv, TypeOK, IsSeq, Top
<1>2. PICK d \in snaps[n] : TRUE
  OBVIOUS
<1>3. IsDB(d) /\ IsUndoState(stack[n]) /\ Records(stack[n], d, db) /\ IsDB(db)
  BY <1>1, <1>2 DEF IInv, TypeOK, StatesRecordChanges, After
<1> QED
  BY <1>1, <1>2, <1>3, RestoreRecords

(* Dropping the newest state keeps the invariant when the database is the  *)
(* one that was copied for it.                                             *)
LEMMA DropNewest ==
  ASSUME IInv, NEW n \in Nat, n = Len(stack), n > 0, snaps[n] = {db'}, IsDB(db'),
         IsSeq(stack'), Len(stack') = n - 1, \A i \in 1 .. n - 1 : stack'[i] = stack[i],
         IsSeq(snaps'), Len(snaps') = n - 1, \A i \in 1 .. n - 1 : snaps'[i] = snaps[i],
         active' \in Nat, active' <= active, active' <= n - 1, n - 1 - active' >= n - active \/ active' = 0,
         max_size' = max_size, disabled' \in BOOLEAN, disable_on_exit' \in BOOLEAN,
         disabled' => active' = 0, disable_on_exit' => active' > 0
  PROVE  IInv'
<1>0. IsSeq(stack) /\ IsSeq(snaps) /\ Len(snaps) = n /\ active \in Nat /\ active <= MaxSessions
  BY UndoSizesAssumption DEF IInv, TypeOK
<1>1. TypeOK'
  <2>1. active' \in 0 .. MaxSessions
    BY <1>0, UndoSizesAssumption
  <2>2. \A i \in 1 .. n - 1 : i \in 1 .. n
    OBVIOUS
  <2>3. \A i \in 1 .. Len(stack') : IsUndoState(stack'[i])
    BY <2>2 DEF IInv, TypeOK
  <2>4. \A i \in 1 .. Len(stack') : \A d \in snaps'[i] : IsDB(d) /\ snaps'[i] = {d}
    BY <2>2 DEF IInv, TypeOK
  <2>5. Len(snaps') = Len(stack') /\ max_size' \in UndoSizes
    BY DEF IInv, TypeOK
  <2> QED
    BY <2>1, <2>3, <2>4, <2>5 DEF TypeOK
<1>2. RecordingOn'
  BY DEF RecordingOn
<1>3. SessionsBacked'
  BY <1>0 DEF IInv, SessionsBacked
<1>4. LostBelow'
  <2> SUFFICES ASSUME NEW i \in 1 .. n - 1, NEW j \in 1 .. i, snaps'[i] = {}
               PROVE  snaps'[j] = {}
    BY DEF LostBelow
  <2>1. i \in 1 .. n /\ j \in 1 .. n - 1
    OBVIOUS
  <2> QED
    BY <2>1 DEF IInv, LostBelow
<1>5. StatesRecordChanges'
  <2> SUFFICES ASSUME NEW i \in 1 .. n - 1, NEW d \in snaps'[i], NEW e \in After(i)'
               PROVE  Records(stack'[i], d, e)
    BY DEF StatesRecordChanges
  <2>1. i \in 1 .. n /\ i # n /\ (i # n - 1 => i + 1 \in 1 .. n - 1) /\ (i = n - 1 => i + 1 = n)
    OBVIOUS
  <2>2. After(i)' = After(i)
    <3>1. CASE i = n - 1
      BY <2>1, <3>1 DEF After
    <3>2. CASE i # n - 1
      BY <2>1, <3>2 DEF After
    <3> QED
      BY <3>1, <3>2
  <2> QED
    BY <2>1, <2>2 DEF IInv, StatesRecordChanges
<1> QED
  BY <1>1, <1>2, <1>3, <1>4, <1>5 DEF IInv

(* undo: with one state only, the other active sessions have none, so the  *)
(* empty state that replaces it stands for the database just restored.     *)
LEMMA UndoStep ==
  ASSUME IInv, UndoSession
  PROVE  IInv'
<1> DEFINE n == Len(stack)
<1>0. n \in Nat /\ Len(stack) = n /\ IsSeq(stack) /\ IsSeq(snaps) /\ Len(snaps) = n
  BY DEF IInv, TypeOK, IsSeq
<1>1. /\ active \in Nat /\ active > 0 /\ active <= n /\ active <= MaxSessions /\ active' = active - 1
      /\ n \in 1 .. n /\ max_size' = max_size
  BY <1>0, UndoSizesAssumption DEF IInv, TypeOK, SessionsBacked, UndoSession, ExitSession
<1>2. /\ disabled' \in BOOLEAN /\ disable_on_exit' \in BOOLEAN
      /\ (disabled' => active = 1) /\ (disable_on_exit' => active > 1)
  BY DEF UndoSession, ExitSession
<1>3. stack # <<>> /\ snaps # <<>> /\ Top = stack[n]
  BY <1>0, <1>1, EmptyIsSeq DEF Top
<1>4. PICK d \in snaps[n] : TRUE
  BY <1>0, <1>1 DEF IInv, SessionsBacked
<1>5. IsDB(d) /\ snaps[n] = {d} /\ IsUndoState(stack[n]) /\ Records(stack[n], d, db) /\ IsDB(db)
  BY <1>0, <1>1 DEF IInv, TypeOK, StatesRecordChanges, After
<1>6. db' = d
  BY <1>3, <1>5, RestoreRecords DEF UndoSession
<1> HIDE DEF n
<1>7. CASE n = 1
  <2>1. stack' = <<EmptyState>> /\ snaps' = <<{d}>> /\ active' = 0
    BY <1>0, <1>1, <1>6, <1>7 DEF UndoSession
  <2>2. IsSeq(stack') /\ IsSeq(snaps') /\ Len(stack') = 1 /\ Len(snaps') = 1
    BY <2>1 DEF IsSeq
  <2>3. IsUndoState(EmptyState) /\ Records(EmptyState, d, d)
    BY <1>5, EmptyRecords
  <2>4. TypeOK'
    <3>1. active' \in 0 .. MaxSessions
      BY <2>1, UndoSizesAssumption
    <3> QED
      BY <1>1, <1>2, <1>5, <1>6, <2>1, <2>2, <2>3, <3>1 DEF IInv, TypeOK
  <2>5. RecordingOn'
    BY <1>2, <2>1, <1>1, <1>7 DEF RecordingOn
  <2>6. SessionsBacked' /\ LostBelow'
    BY <2>1, <2>2 DEF SessionsBacked, LostBelow
  <2>7. StatesRecordChanges'
    BY <1>6, <2>1, <2>2, <2>3 DEF StatesRecordChanges, After
  <2> QED
    BY <2>4, <2>5, <2>6, <2>7 DEF IInv
<1>8. CASE n # 1
  <2>1. /\ IsSeq(stack') /\ Len(stack') = n - 1 /\ n - 1 \in Nat
        /\ \A i \in 1 .. n - 1 : stack'[i] = stack[i]
        /\ IsSeq(snaps') /\ Len(snaps') = n - 1
        /\ \A i \in 1 .. n - 1 : snaps'[i] = snaps[i]
    BY <1>0, <1>3, <1>8, FrontSeq DEF UndoSession
  <2> QED
    BY <1>0, <1>1, <1>2, <1>5, <1>6, <2>1, DropNewest
<1> QED
  BY <1>7, <1>8

(* commit() preserves the invariant.                                       *)
LEMMA CommitStep ==
  ASSUME IInv, CommitSession
  PROVE  IInv'
<1>0. /\ active \in Nat /\ active > 0 /\ active <= MaxSessions /\ active' = active - 1
      /\ UNCHANGED <<db, stack, snaps, max_size>>
  BY UndoSizesAssumption DEF IInv, TypeOK, CommitSession, ExitSession
<1>1. /\ active \in Nat /\ active > 0 /\ active <= MaxSessions /\ active' = active - 1
      /\ UNCHANGED <<db, stack, snaps, max_size>>
      /\ disabled' \in BOOLEAN /\ disable_on_exit' \in BOOLEAN
      /\ (disabled' => active = 1) /\ (disable_on_exit' => active > 1)
  BY <1>0 DEF CommitSession, ExitSession
<1>2. active' \in 0 .. MaxSessions /\ Len(stack) \in Nat
  BY <1>1, UndoSizesAssumption DEF IInv, TypeOK, IsSeq
<1>3. TypeOK'
  BY <1>1, <1>2 DEF IInv, TypeOK
<1>4. RecordingOn'
  BY <1>1 DEF RecordingOn
<1>5. SessionsBacked'
  BY <1>1, <1>2 DEF IInv, SessionsBacked
<1> QED
  BY <1>1, <1>3, <1>4, <1>5 DEF IInv, LostBelow, StatesRecordChanges, After

(* merge() preserves the invariant.                                        *)
LEMMA MergeStep ==
  ASSUME IInv, MergeSession
  PROVE  IInv'
<1> DEFINE n == Len(stack)
           m == MergeStates(stack[n - 1], stack[n])
<1>0. n \in Nat /\ Len(stack) = n /\ IsSeq(stack) /\ IsSeq(snaps) /\ Len(snaps) = n /\ n >= 2
  BY DEF IInv, TypeOK, IsSeq, MergeSession
<1>1. /\ active \in Nat /\ active > 0 /\ active <= MaxSessions /\ active' = active - 1
      /\ db' = db /\ max_size' = max_size
  BY UndoSizesAssumption DEF IInv, TypeOK, MergeSession, ExitSession
<1>20. /\ disabled' = FALSE /\ disable_on_exit' \in BOOLEAN
      /\ (disable_on_exit' => active > 1)
  BY DEF MergeSession, ExitSession
<1>2. stack # <<>> /\ snaps # <<>> /\ Top = stack[n]
  BY <1>0, EmptyIsSeq DEF Top
<1>3. stack' = Append(Front(Front(stack)), m) /\ snaps' = Front(snaps)
  BY <1>2 DEF MergeSession
<1>4. n - 1 \in 1 .. n /\ n \in 1 .. n /\ n - 1 \in Nat /\ (n - 1) + 1 = n /\ n - 1 # n
  BY <1>0
<1>5. IsUndoState(m)
  BY <1>0, <1>4, MergeIsUndoState DEF IInv, TypeOK
<1> HIDE DEF n, m
<1>6. /\ IsSeq(stack') /\ Len(stack') = n - 1
      /\ \A i \in 1 .. n - 1 : stack'[i] = IF i = n - 1 THEN m ELSE stack[i]
  <2>1. /\ IsSeq(Front(stack)) /\ Len(Front(stack)) = n - 1
        /\ \A i \in 1 .. n - 1 : Front(stack)[i] = stack[i]
    BY <1>0, <1>2, FrontSeq
  <2>2. Front(stack) # <<>>
    BY <1>0, <2>1, EmptyIsSeq
  <2> HIDE DEF Front
  <2>3. /\ IsSeq(stack') /\ Len(stack') = n - 1
        /\ \A i \in 1 .. n - 1 : stack'[i] = IF i = n - 1 THEN m ELSE Front(stack)[i]
    BY <1>3, <2>1, <2>2, ReplaceNewest
  <2> QED
    BY <2>1, <2>3
<1>7. /\ IsSeq(snaps') /\ Len(snaps') = n - 1
      /\ \A i \in 1 .. n - 1 : snaps'[i] = snaps[i]
  BY <1>0, <1>2, <1>3, FrontSeq
<1>8. \A i \in 1 .. n - 1 : i \in 1 .. n
  BY <1>0
<1>9. TypeOK'
  <2>1. active' \in 0 .. MaxSessions
    BY <1>1, UndoSizesAssumption
  <2>2. \A i \in 1 .. Len(stack') : IsUndoState(stack'[i])
    BY <1>0, <1>5, <1>6, <1>8 DEF IInv, TypeOK
  <2>3. \A i \in 1 .. Len(stack') : \A d \in snaps'[i] : IsDB(d) /\ snaps'[i] = {d}
    BY <1>0, <1>6, <1>7, <1>8 DEF IInv, TypeOK
  <2> QED
    BY <1>1, <1>20, <1>6, <1>7, <2>1, <2>2, <2>3 DEF IInv, TypeOK
<1>10. RecordingOn'
  BY <1>1, <1>20 DEF RecordingOn
<1>11. SessionsBacked'
  BY <1>0, <1>1, <1>6, <1>7 DEF IInv, SessionsBacked
<1>12. LostBelow'
  <2> SUFFICES ASSUME NEW i \in 1 .. n - 1, NEW j \in 1 .. i, snaps'[i] = {}
               PROVE  snaps'[j] = {}
    BY <1>6 DEF LostBelow
  <2>1. i \in 1 .. n /\ j \in 1 .. n - 1
    BY <1>0
  <2> QED
    BY <1>0, <1>7, <2>1 DEF IInv, LostBelow
<1>13. StatesRecordChanges'
  <2> SUFFICES ASSUME NEW i \in 1 .. n - 1, NEW d \in snaps'[i], NEW e \in After(i)'
               PROVE  Records(stack'[i], d, e)
    BY <1>6 DEF StatesRecordChanges
  <2>1. CASE i = n - 1
    <3>1. d \in snaps[n - 1] /\ e = db /\ stack'[i] = m
      BY <1>1, <1>4, <1>6, <1>7, <2>1 DEF After
    <3>2. PICK f \in snaps[n] : TRUE
      BY <1>0, <1>1, <1>4 DEF IInv, SessionsBacked
    <3>3. f \in After(n - 1) /\ db \in After(n)
      BY <1>0, <1>4 DEF After
    <3>4. Records(stack[n - 1], d, f) /\ Records(stack[n], f, db)
      BY <1>0, <1>4, <3>1, <3>2, <3>3 DEF IInv, StatesRecordChanges
    <3>5. IsDB(d) /\ IsDB(f) /\ IsDB(db) /\ IsUndoState(stack[n - 1]) /\ IsUndoState(stack[n])
      BY <1>0, <1>4, <3>1, <3>2 DEF IInv, TypeOK
    <3> QED
      BY <3>1, <3>4, <3>5, MergeRecords DEF m
  <2>2. CASE i # n - 1
    <3>1. i \in 1 .. n /\ i # n /\ i + 1 \in 1 .. n - 1
      BY <1>0, <2>2
    <3>2. After(i)' = After(i) /\ stack'[i] = stack[i] /\ snaps'[i] = snaps[i]
      BY <1>0, <1>6, <1>7, <2>2, <3>1 DEF After
    <3> QED
      BY <1>0, <3>1, <3>2 DEF IInv, StatesRecordChanges
  <2> QED
    BY <2>1, <2>2
<1> QED
  BY <1>9, <1>10, <1>11, <1>12, <1>13 DEF IInv

----------------------------------------------------------------------------
(* The other operations. *)

(* pop_commit() preserves the invariant.                                   *)
LEMMA PopStep ==
  ASSUME IInv, PopCommit
  PROVE  IInv'
<1> DEFINE n == Len(stack)
<1>0. n \in Nat /\ Len(stack) = n /\ IsSeq(stack) /\ IsSeq(snaps) /\ Len(snaps) = n
  BY DEF IInv, TypeOK, IsSeq
<1>1. stack # <<>> /\ n > 0 /\ snaps # <<>> /\ n \in 1 .. n /\ Top = stack[n]
  BY <1>0, EmptyIsSeq DEF PopCommit, Top
<1>2. PICK d \in snaps[n] : TRUE
  BY DEF PopCommit
<1>3. IsDB(d) /\ snaps[n] = {d} /\ IsUndoState(stack[n]) /\ Records(stack[n], d, db) /\ IsDB(db)
  BY <1>0, <1>1 DEF IInv, TypeOK, StatesRecordChanges, After
<1>4. db' = d
  BY <1>1, <1>3, RestoreRecords DEF PopCommit
<1> HIDE DEF n
<1>5. /\ IsSeq(stack') /\ Len(stack') = n - 1 /\ n - 1 \in Nat
      /\ \A i \in 1 .. n - 1 : stack'[i] = stack[i]
      /\ IsSeq(snaps') /\ Len(snaps') = n - 1
      /\ \A i \in 1 .. n - 1 : snaps'[i] = snaps[i]
  BY <1>0, <1>1, FrontSeq DEF PopCommit
<1>6. /\ active = 0 /\ active' = 0 /\ max_size' = max_size
      /\ disabled' = FALSE /\ disable_on_exit' = disable_on_exit
  BY DEF PopCommit
<1>7. disable_on_exit \in BOOLEAN /\ ~disable_on_exit
  <2>1. disable_on_exit => active > 0
    BY DEF IInv, RecordingOn
  <2>2. disable_on_exit \in BOOLEAN
    BY DEF IInv, TypeOK
  <2>3. ~(active > 0)
    BY <1>6
  <2> QED
    BY <2>1, <2>2, <2>3
<1>8. /\ disabled' \in BOOLEAN /\ disable_on_exit' \in BOOLEAN
      /\ (disabled' => active' = 0) /\ (disable_on_exit' => active' > 0)
  BY <1>6, <1>7
<1>9. active' \in Nat /\ active' <= active /\ active' <= n - 1
  BY <1>5, <1>6
<1>10. snaps[n] = {db'} /\ IsDB(db')
  BY <1>3, <1>4
<1> QED
  BY <1>0, <1>1, <1>5, <1>6, <1>8, <1>9, <1>10, DropNewest

(* disable(), enable() and set_max_size() preserve the invariant.          *)
LEMMA SwitchStep ==
  ASSUME IInv, Disable \/ Enable \/ \E n \in UndoSizes : SetMaxSize(n)
  PROVE  IInv'
<1>0. /\ disabled \in BOOLEAN /\ max_size \in UndoSizes
      /\ (disabled => active = 0)
  BY DEF IInv, TypeOK, RecordingOn
<1>1. /\ UNCHANGED <<db, active, disable_on_exit, stack, snaps>>
      /\ disabled' \in BOOLEAN /\ max_size' \in UndoSizes
      /\ (disabled' => active = 0)
  <2>1. CASE Disable
    BY <1>0, <2>1 DEF Disable
  <2>2. CASE Enable
    BY <1>0, <2>2 DEF Enable
  <2>3. CASE \E n \in UndoSizes : SetMaxSize(n)
    BY <1>0, <2>3 DEF SetMaxSize
  <2> QED
    BY <2>1, <2>2, <2>3
<1>2. TypeOK'
  BY <1>1 DEF IInv, TypeOK
<1> QED
  BY <1>1, <1>2 DEF IInv, RecordingOn, SessionsBacked, LostBelow, StatesRecordChanges, After

(* Every step of the undo database preserves the invariant.                *)
LEMMA NextIInv == IInv /\ [Next]_vars => IInv'
<1> SUFFICES ASSUME IInv, [Next]_vars PROVE IInv'
  OBVIOUS
<1>1. CASE ChangeObjects
  BY <1>1, CreateStep, ModifyStep, RemoveStep DEF ChangeObjects
<1>2. CASE \E force_enable \in BOOLEAN : StartSession(force_enable)
  BY <1>2, StartStep
<1>3. CASE UndoSession
  BY <1>3, UndoStep
<1>4. CASE CommitSession
  BY <1>4, CommitStep
<1>5. CASE MergeSession
  BY <1>5, MergeStep
<1>6. CASE PopCommit
  BY <1>6, PopStep
<1>7. CASE Disable \/ Enable \/ \E n \in UndoSizes : SetMaxSize(n)
  BY <1>7, SwitchStep
<1>8. CASE UNCHANGED vars
  BY <1>8 DEF vars, IInv, TypeOK, RecordingOn, SessionsBacked, LostBelow, StatesRecordChanges, After
<1> QED
  BY <1>1, <1>2, <1>3, <1>4, <1>5, <1>6, <1>7, <1>8 DEF Next

----------------------------------------------------------------------------
(* The theorems. *)

(* IInv is an invariant of undo_database: the sessions, the stack of undo  *)
(* states and the recording switch fit together after every operation.     *)
THEOREM Invariant == Spec => []IInv
<1>1. Init => IInv
  BY InitIInv
<1>2. IInv /\ [Next]_vars => IInv'
  BY NextIInv
<1> QED
  BY <1>1, <1>2, PTL DEF Spec

(* The variables of undo_database keep their types. *)
THEOREM TypeCorrect == Spec => []TypeOK
<1>1. IInv => TypeOK
  BY DEF IInv
<1> QED
  BY <1>1, Invariant, PTL

(* start_undo_session trims the stack, undo and pop_commit shorten it: an  *)
(* active session never loses the state that its undo() needs.             *)
THEOREM SessionsKeepTheirState == Spec => []SessionsBacked
<1>1. IInv => SessionsBacked
  BY DEF IInv
<1> QED
  BY <1>1, Invariant, PTL

(* undo() and pop_commit() run through without a failing assertion and     *)
(* restore the database exactly, whatever was created, modified, removed   *)
(* and merged since.                                                       *)
THEOREM UndoIsExact == Spec => []UndoRestores
<1>1. IInv => UndoRestores
  <2> SUFFICES ASSUME IInv, NEW i \in 1 .. Len(stack), NEW d \in snaps[i], NEW e \in After(i)
               PROVE  Restorable(stack[i], e) /\ Restore(stack[i], e) = d
    BY DEF UndoRestores
  <2>1. Records(stack[i], d, e)
    BY DEF IInv, StatesRecordChanges
  <2>2. IsUndoState(stack[i]) /\ IsDB(d)
    BY DEF IInv, TypeOK
  <2>3. IsDB(e)
    <3>1. CASE i = Len(stack)
      BY <3>1 DEF IInv, TypeOK, After
    <3>2. CASE i # Len(stack)
      <4>1. Len(stack) \in Nat /\ i + 1 \in 1 .. Len(stack)
        BY <3>2 DEF IInv, TypeOK, IsSeq
      <4> QED
        BY <3>2, <4>1 DEF IInv, TypeOK, After
    <3> QED
      BY <3>1, <3>2
  <2> QED
    BY <2>1, <2>2, <2>3, RestoreRecords
<1> QED
  BY <1>1, Invariant, PTL

(* merge() computes the 4x4 table of its comment and meets none of the     *)
(* entries marked N/A, so its two assertions never fail.                   *)
THEOREM MergeIsTable == Spec => []MergeFollowsTable
<1>1. IInv => MergeFollowsTable
  <2> DEFINE n == Len(stack)
             a == stack[n - 1]
             b == stack[n]
             m == MergeStates(a, b)
  <2>1. IInv => n \in Nat
    BY DEF IInv, TypeOK, IsSeq
  <2>2. IInv /\ n >= 2 => Top = b
    BY EmptyIsSeq DEF Top, IInv, TypeOK
  <2> SUFFICES ASSUME IInv, active > 0, n >= 2, snaps[n - 1] # {},
                      NEW id \in UNION {DOMAIN a.old_values, DOMAIN a.removed, a.new_ids,
                                        DOMAIN b.old_values, DOMAIN b.removed, b.new_ids}
               PROVE  Relation(m, id) = Table(Relation(a, id), Relation(b, id))
    BY <2>2, Zenon DEF MergeFollowsTable
  <2>3. n - 1 \in 1 .. n /\ n \in 1 .. n /\ (n - 1) + 1 = n /\ n - 1 # n
    BY <2>1
  <2>4. PICK d \in snaps[n - 1] : TRUE
    OBVIOUS
  <2>5. PICK e \in snaps[n] : TRUE
    BY <2>3 DEF IInv, TypeOK, SessionsBacked
  <2>6. IsUndoState(a) /\ IsUndoState(b) /\ IsDB(d) /\ IsDB(e) /\ IsDB(db)
    BY <2>3, <2>4, <2>5 DEF IInv, TypeOK
  <2>7. Records(a, d, e) /\ Records(b, e, db)
    BY <2>3, <2>4, <2>5 DEF IInv, StatesRecordChanges, After
  <2> HIDE DEF n, a, b
  <2> QED
    BY <2>6, <2>7, MergeTable
<1> QED
  BY <1>1, Invariant, PTL

(* The undo states stand for complete copies of the database: every        *)
(* operation of undo_database is one of SnapshotUndo, or changes nothing   *)
(* there.                                                                  *)
THEOREM ImplementsSnapshotUndo == Spec => ImplementsSnapshots
<1>1. Init => Snapshots!Init
  BY DEF Init, Snapshots!Init
<1>2. ASSUME IInv, [Next]_vars
      PROVE  [Snapshots!Next]_(Snapshots!vars)
  <2>0. IsSeq(snaps) /\ Len(snaps) = Len(stack) /\ (stack = <<>> <=> snaps = <<>>)
    BY <1>2, EmptyIsSeq DEF IInv, TypeOK
  <2>2. CASE ChangeObjects
    <3>1. (\E top : RecordIn(top)) /\ UNCHANGED active
      BY <2>2, Zenon DEF ChangeObjects, Create, Modify, Remove
    <3>2. (snaps' = IF snaps = <<>> THEN <<{db}>> ELSE snaps) \/ (active = 0 /\ snaps' = [i \in DOMAIN snaps |-> {}])
      BY <1>2, <3>1 DEF RecordIn, IInv, RecordingOn
    <3> QED
      BY <3>1, <3>2 DEF Snapshots!Next, Snapshots!Change, Snapshots!Forget
  <2>3. ASSUME NEW force_enable \in BOOLEAN, StartSession(force_enable)
        PROVE  Snapshots!Start
    <3>1. active < MaxSessions
      BY <2>3 DEF StartSession
    <3>2. PICK c \in 0 .. (Len(stack) - active) : Trim(snaps) = SubSeq(snaps, c + 1, Len(snaps))
      BY <1>2, <2>0, <3>1, TrimCuts
    <3> QED
      BY <2>0, <2>3, <3>2 DEF StartSession, Snapshots!Start
  <2>4. ASSUME UndoSession
        PROVE  Snapshots!Undo
    <3>1. active > 0 /\ active' = active - 1
      BY <2>4 DEF UndoSession, ExitSession
    <3>2. stack # <<>> /\ snaps[Len(stack)] # {}
      BY <1>2, <3>1, EmptyIsSeq DEF IInv, TypeOK, SessionsBacked, IsSeq
    <3>3. db' \in snaps[Len(stack)]
      BY <1>2, <2>4, <3>2, RestoresNewest DEF UndoSession
    <3> QED
      BY <2>0, <2>4, <3>1, <3>3 DEF UndoSession, Front, Snapshots!Undo, Snapshots!Newest, Snapshots!Older
  <2>5. ASSUME MergeSession
        PROVE  Snapshots!Merge
    BY <2>0, <2>5 DEF MergeSession, ExitSession, Front, Snapshots!Merge, Snapshots!Older
  <2>6. ASSUME CommitSession
        PROVE  Snapshots!Commit
    BY <2>6 DEF CommitSession, ExitSession, Snapshots!Commit
  <2>7. ASSUME PopCommit
        PROVE  Snapshots!Pop
    <3>1. stack # <<>> /\ snaps[Len(stack)] # {}
      BY <2>7 DEF PopCommit
    <3>2. db' \in snaps[Len(stack)]
      BY <1>2, <2>7, <3>1, RestoresNewest DEF PopCommit
    <3> QED
      BY <2>0, <2>7, <3>2 DEF PopCommit, Front, Snapshots!Pop, Snapshots!Newest, Snapshots!Older
  <2>8. CASE Disable \/ Enable \/ (\E n \in UndoSizes : SetMaxSize(n)) \/ UNCHANGED vars
    BY <2>8 DEF Disable, Enable, SetMaxSize, vars, Snapshots!vars
  <2> QED
    BY <1>2, <2>2, <2>3, <2>4, <2>5, <2>6, <2>7, <2>8 DEF Next, Snapshots!Next
<1> QED
  BY <1>1, <1>2, Invariant, PTL DEF Spec, ImplementsSnapshots, Snapshots!Spec
============================================================================
