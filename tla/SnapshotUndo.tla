---------------------------- MODULE SnapshotUndo ----------------------------
(***************************************************************************)
(* What undo_database promises its users: a stack of complete copies of    *)
(* the object database, one for each session that may still be undone or   *)
(* popped.  Undoing a session puts the newest copy back.  A change made    *)
(* while nothing is recorded makes the copies useless: a copy is held in a *)
(* set, which is empty once there is no way back to it.                    *)
(***************************************************************************)
EXTENDS Naturals, Sequences

VARIABLES
  db,       \* the object database
  snaps,    \* the copies, the newest last
  active    \* the number of sessions that have not ended

vars == <<db, snaps, active>>

Newest == snaps[Len(snaps)]
Older  == SubSeq(snaps, 1, Len(snaps) - 1)

Init == snaps = <<>> /\ active = 0

(* A change of the database, whatever it is, leaves the copies alone; the  *)
(* first change ever, outside any session, makes a copy of its own.        *)
Change ==
  /\ snaps' = IF snaps = <<>> THEN <<{db}>> ELSE snaps
  /\ UNCHANGED active

(* A change made while recording is off; no session is active then.        *)
Forget ==
  /\ active = 0
  /\ snaps' = [i \in DOMAIN snaps |-> {}]
  /\ UNCHANGED active

(* A session starts with a copy of the database.  Old copies may be        *)
(* dropped, but none that an active session needs.                         *)
Start ==
  /\ \E k \in 0 .. (Len(snaps) - active) :
        snaps' = Append(SubSeq(snaps, k + 1, Len(snaps)), {db})
  /\ active' = active + 1
  /\ UNCHANGED db

(* A session is abandoned: the database is what it was at its start.       *)
Undo ==
  /\ active > 0
  /\ db' \in Newest
  /\ snaps' = IF Len(snaps) = 1 THEN <<{db'}>> ELSE Older
  /\ active' = active - 1

(* A session's changes become part of the session below it.                *)
Merge ==
  /\ active > 0
  /\ Len(snaps) >= 2
  /\ snaps' = Older
  /\ active' = active - 1
  /\ UNCHANGED db

(* A session ends and keeps its copy for a later Pop.                      *)
Commit ==
  /\ active > 0
  /\ active' = active - 1
  /\ UNCHANGED <<db, snaps>>

(* The last committed session is taken back.                               *)
Pop ==
  /\ active = 0
  /\ snaps # <<>>
  /\ db' \in Newest
  /\ snaps' = Older
  /\ UNCHANGED active

Next == Change \/ Forget \/ Start \/ Undo \/ Merge \/ Commit \/ Pop

Spec == Init /\ [][Next]_vars
============================================================================
