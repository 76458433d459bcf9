---------------------------- MODULE ChainRestart ----------------------------
(***************************************************************************)
(* The chain database across shutdowns and crashes of the process          *)
(* (libraries/chain/db_management.cpp, libraries/app/application.cpp,      *)
(* programs/cyvad/main.cpp, libraries/db/object_database.cpp).             *)
(*                                                                         *)
(* On disk are the log, which is written as blocks are applied, the object *)
(* database, which only close() saves, the marker "dblock", which is there *)
(* from startup to the destructor of the application, and the version.     *)
(* close() runs twice in a shutdown; the second saves the same once more.  *)
(***************************************************************************)
EXTENDS ChainDatabase

CONSTANTS
  NoFiles,      \* no object database on disk
  Mixed,        \* files of an object database of which only some are saved
  Tearing,      \* whether a crash may lose the data of a block and not its entry
  Losing        \* whether a crash may lose an entry in the middle of the log

ASSUME RestartAssumption ==
  /\ {NoFiles, Mixed} \cap (Blocks \cup {NoBlock}) = {}
  /\ Tearing \in BOOLEAN /\ Losing \in BOOLEAN

VARIABLES
  files,     \* the saved object database, as its head block
  marker,    \* blockchain/dblock exists
  version,   \* db_version exists
  at,        \* what the process does: off, replay, on, closing, saving
  first,     \* the startup writes db_version when it is done
  failed,    \* the startup threw an exception
  cutoff,    \* the number down to which close() pops blocks
  synced,    \* the log as far as it is certain to be on disk
  settled,   \* history: the highest block that was irreversible
  damaged    \* history: a crash lost more than the last write

disk == <<files, marker, version, at, first, failed, cutoff, synced, settled, damaged>>
allVars == <<vars, disk>>

DefaultUndoMax == 256

\* The object database and everything else in memory.
Memory == <<db, undo, undo_max, fork, pending, pending_session, popped, call>>

Load(head, max, f) ==
  /\ db' = [head |-> head, pending |-> <<>>]
  /\ undo' = <<>>
  /\ undo_max' = max
  /\ fork' = f
  /\ pending' = <<>> /\ pending_session' = FALSE
  /\ popped' = <<>> /\ call' = Idle

(* Seeded fault: the fork database starts empty. *)
StartedEmpty(l) == EmptyForkDB

(* fork_database::start_block, by open() with the last block of the log *)
Started(l) ==
  IF LastBlock(l) = NoBlock THEN EmptyForkDB
  ELSE [EmptyForkDB EXCEPT !.index = {LastBlock(l)},
                           !.head = [block |-> LastBlock(l), linked |-> FALSE]]

----------------------------------------------------------------------------
(* The running node. *)

Higher(id) == LET n == LastIrreversible(id) IN IF n > Num(settled) THEN Path[id][n] ELSE settled

\* What a write to the log leaves certain: everything that came before it.
Write == synced' = IF log' = log THEN synced ELSE log

(* is_known_block: a peer is not asked for a block that is known.          *)
IsKnown(b) == b \in fork.index \/ LogContains(log, b)

Run ==
  /\ at = "on"
  /\ Next
  /\ call = Idle /\ call' # Idle => ~IsKnown(call'.block)
  /\ Write
  /\ settled' = Higher(db'.head)
  /\ UNCHANGED <<files, marker, version, at, first, failed, cutoff, damaged>>

----------------------------------------------------------------------------
(* A shutdown: close(). *)

BeginClose ==
  /\ at = "on" /\ call = Idle
  /\ at' = "closing"
  /\ cutoff' = LastIrreversible(Cleared.head)
  /\ db' = Cleared /\ undo' = ClearedUndo
  /\ pending' = <<>> /\ pending_session' = FALSE
  /\ UNCHANGED <<undo_max, fork, log, popped, call>>
  /\ UNCHANGED <<files, marker, version, first, failed, synced, settled, damaged>>

(* Seeded fault: the last irreversible block is popped as well. *)
ReversibleOrLast == Num(db.head) >= cutoff

Reversible == Num(db.head) > cutoff

(* One round of the loop: pop_block, then the block leaves the tree too. *)
PopReversible ==
  /\ at = "closing"
  /\ Reversible
  /\ PopBlock({})
  /\ fork' = IF PopDone({}) THEN RemoveItem(Pop(fork), db.head) ELSE PopFork({})
  /\ at' = IF PopDone({}) THEN at ELSE "saving"
  /\ files' = IF PopDone({}) THEN files ELSE Mixed
  /\ Write
  /\ UNCHANGED <<undo_max, pending, pending_session, call>>
  /\ UNCHANGED <<marker, version, first, failed, cutoff, settled, damaged>>

(* object_database::flush overwrites one file after another. *)
BeginSave ==
  /\ at = "closing"
  /\ ~Reversible
  /\ at' = "saving"
  /\ files' = Mixed
  /\ UNCHANGED <<Memory, log, marker, version, first, failed, cutoff, synced, settled, damaged>>

(* The destructor removes the marker when everything is saved. *)
EndSave ==
  /\ at = "saving"
  /\ at' = "off"
  /\ files' = db.head
  /\ marker' = FALSE
  /\ synced' = log
  /\ failed' = FALSE
  /\ Load(NoBlock, DefaultUndoMax, EmptyForkDB)
  /\ cutoff' = 0
  /\ UNCHANGED <<log, version, first, settled, damaged>>

----------------------------------------------------------------------------
(* A crash.  The last write may not have reached the disk, and the data of *)
(* the last block that was stored may be missing although its entry is     *)
(* there.                                                                  *)

Tear ==
  {IF log[n].live THEN [log EXCEPT ![n].data = NoBlock] ELSE log :
     n \in {k \in DOMAIN log : k \notin DOMAIN synced \/ synced[k] # log[k]}}

Crash ==
  /\ at # "off"
  /\ at' = "off"
  /\ \/ log' \in {log, synced} /\ UNCHANGED damaged
     \/ Tearing /\ ~damaged /\ log' \in Tear \ {log} /\ damaged' = TRUE
  /\ synced' = log'
  /\ failed' = FALSE
  /\ Load(NoBlock, DefaultUndoMax, EmptyForkDB)
  /\ cutoff' = 0
  /\ UNCHANGED <<files, marker, version, first, settled>>

(* The file system lost an entry in the crash. *)
LoseEntry ==
  /\ at = "off" /\ marker
  /\ Losing /\ ~damaged                        \* bound: one loss
  /\ \E n \in DOMAIN log : log' = [log EXCEPT ![n] = Zeros]
  /\ synced' = log'
  /\ damaged' = TRUE
  /\ UNCHANGED <<Memory, files, marker, version, at, first, failed, cutoff, settled>>

----------------------------------------------------------------------------
(* A start: application_impl::startup. *)

MustReplay(asked) == asked \/ marker \/ ~version

(* reindex in a new process: the saved objects are deleted, and the state  *)
(* is that of genesis until the blocks are replayed.                       *)
StartReindex(asked) ==
  /\ at = "off"
  /\ MustReplay(asked)
  /\ files' = NoFiles
  /\ Load(NoBlock, 10, Started(log))
  /\ first' = (~asked /\ ~marker)
  /\ IF LastBlock(log) = NoBlock
     THEN at' = "on" /\ version' = (version \/ first')
     ELSE at' = "replay" /\ UNCHANGED version
  /\ marker' = TRUE
  /\ UNCHANGED <<log, failed, cutoff, synced, settled, damaged>>

(* open() without a replay.  When the log does not end with the head block *)
(* it throws, and the reindex that should help finds the objects still in  *)
(* memory and throws as well.                                              *)
StartOpen ==
  /\ at = "off"
  /\ ~MustReplay(FALSE)
  /\ marker' = TRUE
  /\ LET head == IF files = NoFiles THEN NoBlock ELSE files
         last == LastBlock(log)
         ok   == last = NoBlock \/ last = head \/ head = NoBlock
     IN  /\ Load(head, IF files = NoFiles THEN 10 ELSE DefaultUndoMax, Started(log))
         /\ at' = IF ok THEN "on" ELSE "closing"
         /\ failed' = ~ok
         /\ cutoff' = IF ok THEN 0 ELSE LastIrreversible(head)
         /\ files' = IF ok THEN files ELSE NoFiles
  /\ UNCHANGED <<log, version, first, synced, settled, damaged>>

NextToReplay == FetchByNumber(log, Num(db.head) + 1)

ReplayFinished ==
  /\ at' = "on"
  /\ version' = (version \/ first)

(* One block is applied again, without a session of the undo database. *)
ReplayBlock ==
  /\ at = "replay"
  /\ NextToReplay # NoBlock
  /\ IF Applies(db, NextToReplay)
     THEN /\ db' = [db EXCEPT !.head = NextToReplay]
          /\ undo_max' = HistorySize(NextToReplay)
          /\ fork' = SetMaxSize(fork, undo_max')
          /\ settled' = Higher(db'.head)
          /\ IF Num(db'.head) = Num(LastBlock(log))
             THEN ReplayFinished ELSE UNCHANGED <<at, version>>
          /\ UNCHANGED <<failed, cutoff>>
     ELSE /\ at' = "closing" /\ failed' = TRUE /\ cutoff' = LastIrreversible(db.head)
          /\ UNCHANGED <<db, undo_max, fork, settled, version>>
  /\ UNCHANGED <<undo, log, pending, pending_session, popped, call>>
  /\ UNCHANGED <<files, marker, first, synced, damaged>>

(* A block is missing: what comes after it is dropped from the log. *)
ReplayGap ==
  /\ at = "replay"
  /\ NextToReplay = NoBlock
  /\ log' = [n \in DOMAIN log |-> IF n <= Num(db.head) + 1 THEN log[n]
                                  ELSE [log[n] EXCEPT !.live = FALSE]]
  /\ ReplayFinished
  /\ Write
  /\ UNCHANGED <<Memory, files, marker, first, failed, cutoff, settled, damaged>>

(* --resync-blockchain: everything is deleted first. *)
StartResync ==
  /\ at = "off"
  /\ log' = <<>> /\ synced' = <<>>
  /\ files' = NoFiles
  /\ Load(NoBlock, 10, EmptyForkDB)
  /\ at' = "on"
  /\ version' = (version \/ ~marker)
  /\ marker' = TRUE
  /\ settled' = NoBlock /\ damaged' = FALSE
  /\ UNCHANGED <<first, failed, cutoff>>

----------------------------------------------------------------------------
RestartInit ==
  /\ Init
  /\ files = NoFiles /\ marker = FALSE /\ version = FALSE
  /\ at = "off" /\ first = FALSE /\ failed = FALSE /\ cutoff = 0
  /\ synced = <<>>
  /\ settled = NoBlock /\ damaged = FALSE

RestartNext ==
  \/ Run
  \/ BeginClose \/ PopReversible \/ BeginSave \/ EndSave
  \/ Crash \/ LoseEntry
  \/ \E asked \in BOOLEAN : StartReindex(asked)
  \/ StartOpen \/ StartResync
  \/ ReplayBlock \/ ReplayGap

RestartSpec == RestartInit /\ [][RestartNext]_allVars

----------------------------------------------------------------------------
(* Properties. *)

(***************************************************************************)
(* Types of the variables.  No object database is ever in memory that was  *)
(* loaded from files of two different saves: the marker is removed after   *)
(* the last file is written, and a start that finds it deletes the files.  *)
(***************************************************************************)
RestartTypeOK ==
  /\ TypeOK
  /\ files \in Blocks \cup {NoBlock, NoFiles, Mixed}
  /\ marker \in BOOLEAN /\ version \in BOOLEAN /\ first \in BOOLEAN /\ failed \in BOOLEAN
  /\ at \in {"off", "replay", "on", "closing", "saving"}
  /\ cutoff \in Nat
  /\ synced \in Seq(Entry)
  /\ settled \in Blocks \cup {NoBlock} /\ damaged \in BOOLEAN

Running == at = "on" /\ call = Idle

(***************************************************************************)
(* Every startup succeeds: however the process ended, in the middle of a   *)
(* switch of forks, of a replay or of close(), the log and the object      *)
(* database on disk go together, or the objects are replayed from the log. *)
(***************************************************************************)
StartSucceeds == failed => damaged

(***************************************************************************)
(* A block that was irreversible is in the chain again after a restart,    *)
(* before anything is fetched from the network.                            *)
(***************************************************************************)
KeepsSettled == settled \in ToSet(PathTo(db.head)) \cup {NoBlock}

IrreversibleSurvives == Running /\ ~damaged => KeepsSettled

(***************************************************************************)
(* After every start, and after every push that follows, the log is the    *)
(* chain, and the next block can link to the head in the fork database.    *)
(***************************************************************************)
RestartConsistent == Running /\ ~damaged => LogMatchesChain /\ HeadLinkable
============================================================================
