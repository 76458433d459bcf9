---------------------------- MODULE MCProposals ----------------------------
(***************************************************************************)
(* An account x that needs two approvals, by y or z or a key, y having     *)
(* that key; a proposal can change x so that y is enough.                  *)
(***************************************************************************)
EXTENDS Proposals, TLC

CONSTANTS x, y, z, k, transfer, account_update

MCAccounts == {x, y, z}

MCRequired == (transfer :> <<x>>) @@ (account_update :> <<x>>)

MCChanges ==
  (transfer :> <<>>)
    @@ (account_update :> (x :> [threshold |-> 1, keys |-> <<>>, accounts |-> <<y>>]))

MCTerms == {[lifetime |-> 2, review |-> 0], [lifetime |-> 3, review |-> 1]}

MCGenesisAuthority ==
  (x :> [threshold |-> 2, keys |-> <<k>>, accounts |-> <<y, z>>])
    @@ (y :> [threshold |-> 1, keys |-> <<k>>, accounts |-> <<>>])
    @@ (z :> [threshold |-> 1, keys |-> <<>>, accounts |-> <<y>>])
=============================================================================
