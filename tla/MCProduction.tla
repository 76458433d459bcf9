---------------------------- MODULE MCProduction ----------------------------
(***************************************************************************)
(* Three nodes with a miner each: na starts on a stale chain, nc may be    *)
(* late.  A behaviour of MCSpec stays within one of three parts, which     *)
(* bound what happens in it, and is one of Spec.  A chain needs a block of *)
(* each miner, six slots for two chains, before two nodes can disagree     *)
(* about what is irreversible.                                             *)
(***************************************************************************)
EXTENDS Production

CONSTANTS na, nb, nc, ma, mb, mc

MCNodes == {na, nb, nc}
MCOrder == <<ma, mb, mc>>
MCMinersOf == (na :> {ma}) @@ (nb :> {mb}) @@ (nc :> {mc})
MCStale == {na}
MCLate == {nc}

VARIABLE part

\* nc is late, and a node is started again.
MCLateStart == [time |-> 10, restarts |-> 1, late |-> {nc}]

\* Two rounds of the miners: a node is started again, or nc is late.
MCTwoRounds == [time |-> 14, restarts |-> 1, late |-> {}]
MCTwoLate   == [time |-> 14, restarts |-> 0, late |-> {nc}]

MCInit == Init /\ part \in {MCLateStart, MCTwoRounds, MCTwoLate}

MCTick ==
  /\ clock < part.time
  /\ \A n \in Nodes \ part.late : wakeup[n] > clock
  /\ Tick

MCNext ==
  /\ UNCHANGED part
  /\ \/ MCTick
     \/ \E n \in Nodes, now \in GenesisTime .. MaxTime + 1 :
           (n \in part.late \/ now = clock) /\ Wake(n, now)
     \/ \E n \in Nodes, b \in signed : Receive(n, b)
     \/ restarts < part.restarts /\ \E n \in Nodes : Restart(n)

MCSpec == MCInit /\ [][MCNext]_<<vars, part>>
=============================================================================
