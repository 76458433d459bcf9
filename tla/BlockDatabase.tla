--------------------------- MODULE BlockDatabase ---------------------------
(***************************************************************************)
(* block_database (libraries/chain/block_database.cpp): the log of blocks  *)
(* on disk, as operators on its value.  The index file has one entry for   *)
(* every block number; an entry names an id and the place of the data of a *)
(* block, and a size of zero marks it as removed.  Seeking beyond the end  *)
(* of the file and writing there leaves entries of zeros in between.       *)
(*                                                                         *)
(* An entry is torn when the data it names were never written (a crash).   *)
(* Reading it sets the fail bit of the stream of the data, which nothing   *)
(* clears: from then on no data are read, and what is stored has no data.  *)
(* open() reads the last entry of the log, so it finds it torn at once.    *)
(***************************************************************************)
EXTENDS ForkDatabase

Zeros == [id |-> NoBlock, data |-> NoBlock, live |-> FALSE]

Entry == [id : Blocks, data : Blocks \cup {NoBlock}, live : BOOLEAN] \cup {Zeros}

(* last() does not check the id; last_id() reads the same entry. *)
LastEntry(log) ==
  LET live == {n \in DOMAIN log : log[n].live}
  IN  IF live = {} THEN Zeros ELSE log[Max(live)]

Torn(log) == LastEntry(log).live /\ LastEntry(log).data = NoBlock

LastBlock(log) == LastEntry(log).data

Stored(log, id, b) ==
  [id |-> id, data |-> IF Torn(log) THEN NoBlock ELSE b, live |-> TRUE]

(* Seeded fault: the entry goes to the end of the file. *)
StoreAtEnd(log, id, b) == Append(log, Stored(log, id, b))

(* store(id, b): the number is that of the id, not that of b. *)
Store(log, id, b) ==
  [n \in 1 .. Max({Num(id), Len(log)}) |->
     IF n = Num(id) THEN Stored(log, id, b)
     ELSE IF n <= Len(log) THEN log[n] ELSE Zeros]

(* remove throws when the entry is beyond the end of the file. *)
HasEntry(log, id) == Num(id) <= Len(log)

(* Seeded fault: the entry stays as it is. *)
KeepEntry(log, id) == log

RemoveEntry(log, id) ==
  IF log[Num(id)].id = id THEN [log EXCEPT ![Num(id)].live = FALSE] ELSE log

(* fetch_by_number and fetch_optional check that the data has the id. *)
FetchByNumber(log, n) ==
  IF /\ n \in DOMAIN log /\ log[n].live /\ log[n].data = log[n].id
     /\ ~Torn(log)
  THEN log[n].data ELSE NoBlock

LogContains(log, id) == HasEntry(log, id) /\ log[Num(id)].id = id /\ log[Num(id)].live

FetchById(log, id) ==
  IF LogContains(log, id) THEN FetchByNumber(log, Num(id)) ELSE NoBlock
============================================================================
