---------------------------- MODULE MCMessageStore ----------------------------
(***************************************************************************)
(* For TLC: the symmetry of MessageStore, and the instance about keys, in  *)
(* which every send has one.                                               *)
(***************************************************************************)
EXTENDS MessageStore, TLC

Symmetry == Permutations(Handler) \cup Permutations(Message)
              \cup Permutations(ClaimId) \cup Permutations(RequestKey)

\* A bound on what clients ask.
Keyed == \A h \in Handler : call'[h].op = "create" => call'[h].key # NoKey
=============================================================================
