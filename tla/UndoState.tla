----------------------------- MODULE UndoState -----------------------------
(***************************************************************************)
(* The undo_state record of libraries/db/undo_database.hpp and the         *)
(* functions that update it, merge two of them and roll the object         *)
(* database back with one.  A state of the object database is the record   *)
(*    obj   the live objects: a function from their ids to their contents  *)
(*    next  for every index (object type), the instance number the next    *)
(*          object created in it will get                                  *)
(* and an object id is a pair <<type, instance>>.                          *)
(***************************************************************************)
EXTENDS Naturals, Functions

CONSTANTS
  Types,    \* the object types; each has an index of its own
  Values    \* what an object may contain, its id apart

Ids == Types \X Nat

----------------------------------------------------------------------------
(* The object database. *)

PartialFun(f, S, T) == DOMAIN f \subseteq S /\ f \in [DOMAIN f -> T]

IsDB(d) ==
  /\ d = [obj |-> d.obj, next |-> d.next]
  /\ PartialFun(d.obj, Ids, Values)
  /\ d.next \in [Types -> Nat]
  /\ \A id \in DOMAIN d.obj : id[2] < d.next[id[1]]

EmptyDB == [obj |-> [id \in {} |-> {}], next |-> [t \in Types |-> 0]]

Put(f, x, v) == [y \in DOMAIN f \cup {x} |-> IF y = x THEN v ELSE f[y]]

(* The id the index of type t gives to the next object. *)
NextId(d, t) == <<t, d.next[t]>>

CreateIn(d, t, v) ==
  [obj |-> Put(d.obj, NextId(d, t), v), next |-> [d.next EXCEPT ![t] = @ + 1]]

ModifyIn(d, id, v) == [obj |-> [d.obj EXCEPT ![id] = v], next |-> d.next]

RemoveIn(d, id) == [obj |-> Restrict(d.obj, DOMAIN d.obj \ {id}), next |-> d.next]

----------------------------------------------------------------------------
(* The undo state. *)

IsUndoState(s) ==
  /\ s = [old_values |-> s.old_values, old_index_next_ids |-> s.old_index_next_ids,
          new_ids |-> s.new_ids, removed |-> s.removed]
  /\ PartialFun(s.old_values, Ids, Values)
  /\ PartialFun(s.old_index_next_ids, Types, Nat)
  /\ s.new_ids \subseteq Ids
  /\ PartialFun(s.removed, Ids, Values)

Empty == [x \in {} |-> {}]

EmptyState == [old_values |-> Empty, old_index_next_ids |-> Empty,
               new_ids |-> {}, removed |-> Empty]

(* on_create(obj): called just after an object is created. *)
OnCreate(s, id) ==
  [old_values |-> s.old_values,
   old_index_next_ids |-> IF id[1] \in DOMAIN s.old_index_next_ids
                          THEN s.old_index_next_ids
                          ELSE Put(s.old_index_next_ids, id[1], id[2]),
   new_ids |-> s.new_ids \cup {id},
   removed |-> s.removed]

(* on_modify(obj): called just before an object of content v is modified. *)
OnModify(s, id, v) ==
  IF id \in s.new_ids \cup DOMAIN s.old_values
  THEN s
  ELSE [s EXCEPT !.old_values = Put(@, id, v)]

(* Seeded fault: a modified object is put back as it was when removed. *)
OnRemoveAsIs(s, id, v) ==
  IF id \in s.new_ids THEN [s EXCEPT !.new_ids = @ \ {id}]
  ELSE [s EXCEPT !.removed = Put(@, id, v), !.old_values = Restrict(@, DOMAIN @ \ {id})]

(* on_remove(obj): called just before an object of content v is removed. *)
OnRemove(s, id, v) ==
  IF id \in s.new_ids
  THEN [s EXCEPT !.new_ids = @ \ {id}]
  ELSE IF id \in DOMAIN s.old_values
  THEN [s EXCEPT !.removed = Put(@, id, s.old_values[id]),
                 !.old_values = Restrict(@, DOMAIN @ \ {id})]
  ELSE IF id \in DOMAIN s.removed
  THEN s
  ELSE [s EXCEPT !.removed = Put(@, id, v)]

(* Seeded fault: an object that the lower session created and the upper    *)
(* one removed stays new.                                                  *)
MergedNewIdsAll(a, b) == a.new_ids \cup b.new_ids

MergedNewIds(a, b) == (a.new_ids \cup b.new_ids) \ DOMAIN b.removed

(* Seeded fault: an object that the lower session modified and the upper   *)
(* one removed comes back as it was between the two.                       *)
RemovedValueBetween(upd, b, id) == b.removed[id]

RemovedValue(upd, b, id) == IF id \in DOMAIN upd THEN upd[id] ELSE b.removed[id]

(* merge(): b is the state of the session that ends, a the state below it. *)
(* First b's modified objects and new ids go into a, then its next ids,    *)
(* then its removed objects, which leave a's new ids or old values.        *)
MergeStates(a, b) ==
  LET upd  == [id \in DOMAIN a.old_values \cup (DOMAIN b.old_values \ a.new_ids) |->
                 IF id \in DOMAIN a.old_values THEN a.old_values[id] ELSE b.old_values[id]]
      gone == DOMAIN b.removed \ (a.new_ids \cup b.new_ids)
  IN  [old_values |-> Restrict(upd, DOMAIN upd \ gone),
       old_index_next_ids |->
         [t \in DOMAIN a.old_index_next_ids \cup DOMAIN b.old_index_next_ids |->
            IF t \in DOMAIN a.old_index_next_ids
            THEN a.old_index_next_ids[t] ELSE b.old_index_next_ids[t]],
       new_ids |-> MergedNewIds(a, b),
       removed |-> [id \in DOMAIN a.removed \cup gone |->
                      IF id \in gone THEN RemovedValue(upd, b, id) ELSE a.removed[id]]]

(* The common body of undo() and pop_commit(): restore the old values,     *)
(* remove the new objects, reset the next ids, insert the removed objects. *)
Restore(s, d) ==
  [obj  |-> [id \in (DOMAIN d.obj \ s.new_ids) \cup DOMAIN s.removed |->
               IF id \in DOMAIN s.removed THEN s.removed[id]
               ELSE IF id \in DOMAIN s.old_values THEN s.old_values[id]
               ELSE d.obj[id]],
   next |-> [t \in Types |-> IF t \in DOMAIN s.old_index_next_ids
                             THEN s.old_index_next_ids[t] ELSE d.next[t]]]

(* Restore runs to its end: get_object finds every object to modify or     *)
(* remove, and no insert meets an object with the same id.                 *)
Restorable(s, d) ==
  /\ DOMAIN s.old_values \subseteq DOMAIN d.obj
  /\ s.new_ids \subseteq DOMAIN d.obj
  /\ DOMAIN s.removed \cap (DOMAIN d.obj \ s.new_ids) = {}

----------------------------------------------------------------------------
(* What an undo state means: s records exactly the change from the         *)
(* database `before` to the database `after`.                              *)

RecordsObjects(s, before, after) ==
  /\ s.new_ids = DOMAIN after.obj \ DOMAIN before.obj
  /\ DOMAIN s.removed = DOMAIN before.obj \ DOMAIN after.obj
  /\ DOMAIN s.old_values \subseteq DOMAIN before.obj \cap DOMAIN after.obj
  /\ \A id \in DOMAIN s.removed : s.removed[id] = before.obj[id]
  /\ \A id \in DOMAIN s.old_values : s.old_values[id] = before.obj[id]
  /\ \A id \in (DOMAIN before.obj \cap DOMAIN after.obj) \ DOMAIN s.old_values :
        before.obj[id] = after.obj[id]

RecordsNextIds(s, before, after) ==
  \A t \in Types :
    /\ before.next[t] <= after.next[t]
    /\ IF t \in DOMAIN s.old_index_next_ids
       THEN s.old_index_next_ids[t] = before.next[t]
       ELSE before.next[t] = after.next[t]

(* Ids are never given twice: what is live after and was not before was    *)
(* created in between.                                                     *)
FreshIds(before, after) ==
  \A id \in DOMAIN after.obj \ DOMAIN before.obj : before.next[id[1]] <= id[2]

Records(s, before, after) ==
  /\ RecordsObjects(s, before, after)
  /\ RecordsNextIds(s, before, after)
  /\ FreshIds(before, after)
============================================================================
