--------------------------- MODULE MCRealtimeBroker ---------------------------
(***************************************************************************)
(* For TLC: a client that stalls does so from the start, its connection    *)
(* stays open, and its queue fills up.                                     *)
(***************************************************************************)
EXTENDS RealtimeBroker

\* A bound on what the clients of Stalled do.
NeverReads == \A s \in Stalled : at[s] = "greet" => at'[s] = "greet"
=============================================================================
