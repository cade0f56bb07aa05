------------------------------- MODULE MCWatcher -------------------------------
(***************************************************************************)
(* Who sends what, for small instances of Watcher: the urgent messages     *)
(* come from another sender than the others.                               *)
(***************************************************************************)
EXTENDS Watcher

MCSenderOf == [m \in Message |-> IF m \in Urgent THEN "b" ELSE "a"]
=============================================================================
