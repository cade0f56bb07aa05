------------------------------- MODULE MCArchive -------------------------------
(***************************************************************************)
(* The functions among the constants of Archive, for small instances:      *)
(* messages go back and forth between agents 1 and 2, and the agents from  *)
(* 3 on, which only publish summaries, are in a group of their own.        *)
(***************************************************************************)
EXTENDS Archive

MCParties == [m \in Message |-> IF 2 \notin Agent THEN <<1, 1>> ELSE IF m % 2 = 1 THEN <<1, 2>> ELSE <<2, 1>>]
MCGroupOf == [a \in Agent |-> IF a < 3 THEN 1 ELSE 2]
MCSummaryId == [s \in Summary |-> 10 * s[1] + s[2]]
=============================================================================
