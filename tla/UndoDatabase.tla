---------------------------- MODULE UndoDatabase ----------------------------
(***************************************************************************)
(* undo_database (libraries/db/undo_database.cpp) together with the object *)
(* database whose changes it records (object_database, index.hpp): the     *)
(* stack of undo states, the sessions, and the four ways a state leaves    *)
(* the stack (undo, merge, pop_commit, trimming at the bottom).            *)
(*                                                                         *)
(* Sessions are C++ objects on the stack of their users and end in the     *)
(* reverse order of their starts, so a count of them is enough; only the   *)
(* outermost can carry _disable_on_exit.                                   *)
(***************************************************************************)
EXTENDS UndoState, Sequences

CONSTANTS
  MaxInstance,   \* bound: objects created in one index
  MaxSessions,   \* bound: sessions active at the same time
  UndoSizes      \* the values set_max_size is called with

(* Every nested session finds room: start_undo_session may cut the stack   *)
(* to max_size states, which must still hold those of the active sessions. *)
ASSUME UndoSizesAssumption ==
  /\ MaxInstance \in Nat
  /\ MaxSessions \in Nat \ {0}
  /\ UndoSizes # {}
  /\ UndoSizes \subseteq Nat
  /\ \A n \in UndoSizes : MaxSessions <= n + 1

VARIABLES
  db,               \* the object database
  disabled,         \* _disabled
  active,           \* _active_sessions
  disable_on_exit,  \* _disable_on_exit of the outermost session
  stack,            \* _stack
  max_size,         \* _max_size
  snaps             \* history: for each state, the set holding the database
                    \* when it was pushed, empty if there is no way back to it

vars == <<db, disabled, active, disable_on_exit, stack, max_size, snaps>>

Front(s) == SubSeq(s, 1, Len(s) - 1)

(* The newest state; without one, what emplace_back would push. *)
Top == IF stack = <<>> THEN EmptyState ELSE stack[Len(stack)]

Init ==
  /\ db = EmptyDB
  /\ disabled = FALSE
  /\ active = 0
  /\ disable_on_exit = FALSE
  /\ stack = <<>>
  /\ max_size \in UndoSizes
  /\ snaps = <<>>

----------------------------------------------------------------------------
(* Changes of the object database. *)

(* The hooks do nothing when recording is off; otherwise they update the   *)
(* newest state, pushing one if there is none.                             *)
RecordIn(top) ==
  IF disabled
  THEN /\ UNCHANGED stack
       /\ snaps' = [i \in DOMAIN snaps |-> {}]
  ELSE /\ stack' = IF stack = <<>> THEN <<top>> ELSE Append(Front(stack), top)
       /\ snaps' = IF snaps = <<>> THEN <<{db}>> ELSE snaps

Create(t, v) ==
  /\ db.next[t] < MaxInstance
  /\ db' = CreateIn(db, t, v)
  /\ RecordIn(OnCreate(Top, NextId(db, t)))
  /\ UNCHANGED <<disabled, active, disable_on_exit, max_size>>

Modify(id, v) ==
  /\ id \in DOMAIN db.obj
  /\ db' = ModifyIn(db, id, v)
  /\ RecordIn(OnModify(Top, id, db.obj[id]))
  /\ UNCHANGED <<disabled, active, disable_on_exit, max_size>>

Remove(id) ==
  /\ id \in DOMAIN db.obj
  /\ db' = RemoveIn(db, id)
  /\ RecordIn(OnRemove(Top, id, db.obj[id]))
  /\ UNCHANGED <<disabled, active, disable_on_exit, max_size>>

----------------------------------------------------------------------------
(* Sessions. *)

(* Seeded fault: the stack is cut one state too short. *)
TrimBelow(s) == IF Len(s) >= max_size THEN SubSeq(s, Len(s) - max_size + 2, Len(s)) ELSE s

Trim(s) == IF Len(s) > max_size THEN SubSeq(s, Len(s) - max_size + 1, Len(s)) ELSE s

(* Without force_enable and with recording off, no state is pushed and     *)
(* every operation of the returned session throws: nothing changes.        *)
StartSession(force_enable) ==
  /\ active < MaxSessions
  /\ ~disabled \/ force_enable
  /\ disable_on_exit' = IF active = 0 THEN disabled ELSE disable_on_exit
  /\ disabled' = FALSE
  /\ stack' = Append(Trim(stack), EmptyState)
  /\ snaps' = Append(Trim(snaps), {db})
  /\ active' = active + 1
  /\ UNCHANGED <<db, max_size>>

(* What the destructor does last, once the outermost session has ended. *)
ExitSession ==
  /\ active' = active - 1
  /\ disabled' = (active = 1 /\ disable_on_exit)
  /\ disable_on_exit' = (active > 1 /\ disable_on_exit)

(* session::undo, or the destructor of a session that has not ended. *)
UndoSession ==
  /\ active > 0
  /\ db' = Restore(Top, db)
  /\ stack' = IF Len(stack) = 1 THEN <<EmptyState>> ELSE Front(stack)
  /\ snaps' = IF Len(stack) = 1 THEN <<{db'}>> ELSE Front(snaps)
  /\ ExitSession
  /\ UNCHANGED max_size

(* session::commit, and session::merge of the session that turned          *)
(* recording on: the state stays on the stack.                             *)
CommitSession ==
  /\ active > 0
  /\ ExitSession
  /\ UNCHANGED <<db, stack, snaps, max_size>>

(* session::merge of any other session. *)
MergeSession ==
  /\ active > 0
  /\ ~(active = 1 /\ disable_on_exit)
  /\ Len(stack) >= 2
  /\ stack' = Append(Front(Front(stack)), MergeStates(stack[Len(stack) - 1], Top))
  /\ snaps' = Front(snaps)
  /\ ExitSession
  /\ UNCHANGED <<db, max_size>>

----------------------------------------------------------------------------
(* Operations of the owner of the database. *)

(* pop_commit().  The fork database refuses to pop the block it started    *)
(* from, so a state with no way back (reindex leaves some) is never popped.*)
PopCommit ==
  /\ active = 0
  /\ stack # <<>>
  /\ snaps[Len(stack)] # {}
  /\ db' = Restore(Top, db)
  /\ stack' = Front(stack)
  /\ snaps' = Front(snaps)
  /\ disabled' = FALSE
  /\ UNCHANGED <<active, disable_on_exit, max_size>>

(* disable() and enable(), around init_genesis and the replay of reindex,  *)
(* when no session is active.                                              *)
Disable ==
  /\ active = 0
  /\ disabled' = TRUE
  /\ UNCHANGED <<db, active, disable_on_exit, stack, max_size, snaps>>

Enable ==
  /\ active = 0
  /\ disabled' = FALSE
  /\ UNCHANGED <<db, active, disable_on_exit, stack, max_size, snaps>>

SetMaxSize(n) ==
  /\ max_size' = n
  /\ UNCHANGED <<db, disabled, active, disable_on_exit, stack, snaps>>

----------------------------------------------------------------------------
ChangeObjects ==
  \/ \E t \in Types, v \in Values : Create(t, v)
  \/ \E id \in DOMAIN db.obj, v \in Values : Modify(id, v)
  \/ \E id \in DOMAIN db.obj : Remove(id)

Next ==
  \/ ChangeObjects
  \/ \E force_enable \in BOOLEAN : StartSession(force_enable)
  \/ UndoSession
  \/ CommitSession
  \/ MergeSession
  \/ PopCommit
  \/ Disable
  \/ Enable
  \/ \E n \in UndoSizes : SetMaxSize(n)

Spec == Init /\ [][Next]_vars

----------------------------------------------------------------------------
(* Properties. *)

(* The database just after the changes that state i records. *)
After(i) == IF i = Len(stack) THEN {db} ELSE snaps[i + 1]

IsSeq(s) == Len(s) \in Nat /\ s = [i \in 1 .. Len(s) |-> s[i]]

(* Types of the variables; a copy of the database for every undo state. *)
TypeOK ==
  /\ IsDB(db)
  /\ disabled \in BOOLEAN
  /\ active \in 0 .. MaxSessions
  /\ disable_on_exit \in BOOLEAN
  /\ IsSeq(stack)
  /\ IsSeq(snaps) /\ Len(snaps) = Len(stack)
  /\ \A i \in 1 .. Len(stack) : IsUndoState(stack[i])
  /\ \A i \in 1 .. Len(stack) : \A d \in snaps[i] : IsDB(d) /\ snaps[i] = {d}
  /\ max_size \in UndoSizes

(* Recording is on as long as a session is active, so a session misses no  *)
(* change; only the outermost may switch it off again.                     *)
RecordingOn ==
  /\ disabled => active = 0
  /\ disable_on_exit => active > 0

(* However the states are trimmed, popped and pushed, each active session  *)
(* still has its state: what `undo` rolls back is what the session did.    *)
SessionsBacked ==
  /\ active <= Len(stack)
  /\ \A i \in 1 .. Len(stack) : i > Len(stack) - active => snaps[i] # {}

(* What is lost is lost for all older states as well. *)
LostBelow ==
  \A i \in 1 .. Len(stack) : \A j \in 1 .. i : snaps[i] = {} => snaps[j] = {}

(* Every undo state records exactly the change from the database at its    *)
(* push to the database at the push of the next one.                       *)
StatesRecordChanges ==
  \A i \in 1 .. Len(stack) : \A d \in snaps[i], e \in After(i) : Records(stack[i], d, e)

(* Rolling the states back one after the other, no get_object fails, no    *)
(* insert collides, and each step leads to the database that was copied    *)
(* when the state was pushed.                                              *)
UndoRestores ==
  \A i \in 1 .. Len(stack) : \A d \in snaps[i], e \in After(i) :
    /\ Restorable(stack[i], e)
    /\ Restore(stack[i], e) = d

IInv == TypeOK /\ RecordingOn /\ SessionsBacked /\ LostBelow /\ StatesRecordChanges

(* The 4x4 table of the comment in merge(): the relation of an object to a *)
(* state, and what the relation to the merged state has to be.             *)
Relation(s, id) ==
  IF id \in s.new_ids THEN [is |-> "new"]
  ELSE IF id \in DOMAIN s.old_values THEN [is |-> "upd", was |-> s.old_values[id]]
  ELSE IF id \in DOMAIN s.removed THEN [is |-> "del", was |-> s.removed[id]]
  ELSE [is |-> "nop"]

Table(a, b) ==
  CASE b.is = "nop" -> a
    [] a.is = "nop" -> b
    [] a.is \in {"new", "upd"} /\ b.is = "upd" -> a
    [] a.is = "new" /\ b.is = "del" -> [is |-> "nop"]
    [] a.is = "upd" /\ b.is = "del" -> [is |-> "del", was |-> a.was]
    [] OTHER -> [is |-> "N/A"]

(* merge() computes that table, and never meets an entry that the comment  *)
(* marks N/A (its two assertions hold).                                    *)
MergeFollowsTable ==
  LET a == stack[Len(stack) - 1]
      b == Top
  IN  (active > 0 /\ Len(stack) >= 2 /\ snaps[Len(stack) - 1] # {}) =>
        \A id \in UNION {DOMAIN a.old_values, DOMAIN a.removed, a.new_ids,
                         DOMAIN b.old_values, DOMAIN b.removed, b.new_ids} :
          Relation(MergeStates(a, b), id) = Table(Relation(a, id), Relation(b, id))

(* The undo states stand for complete copies of the database. *)
Snapshots == INSTANCE SnapshotUndo WITH db <- db, snaps <- snaps, active <- active
ImplementsSnapshots == Snapshots!Spec
============================================================================
