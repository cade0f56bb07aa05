------------------------------- MODULE Mailbox -------------------------------
(***************************************************************************)
(* What the delivery half of server-local promises to those who send and   *)
(* read direct messages, with no clock, threads, tables or request keys.   *)
(*                                                                         *)
(* A message is posted once and waits for its recipient.  A grant leases   *)
(* any number of waiting messages under one claim that was never granted   *)
(* before.  A leased message is settled (ACKed) or given back by its       *)
(* holder only, or its lease lapses; it can be withdrawn (canceled) only   *)
(* while it waits.  Settled and withdrawn are final.  Leases may lapse in  *)
(* the same step as any operation that looks at the mailbox.               *)
(***************************************************************************)
CONSTANTS Message,   \* the messages that may ever be posted
          ClaimId,   \* the claims that may ever be granted
          NoClaim    \* the holder of a message that is not leased

VARIABLES status,    \* where each message stands
          holder,    \* the claim a leased message is leased to
          spent      \* the claims granted so far

mailboxVars == <<status, holder, spent>>

Final == {"settled", "withdrawn"}
Leased == {m \in Message : status[m] = "leased"}

Init == /\ status = [m \in Message |-> "unsent"]
        /\ holder = [m \in Message |-> NoClaim]
        /\ spent = {}

\* The mailbox once the leases on the messages of S have lapsed.
StatusAfter(S) == [m \in Message |-> IF m \in S THEN "waiting" ELSE status[m]]
HolderAfter(S) == [m \in Message |-> IF m \in S THEN NoClaim ELSE holder[m]]

Post(m) ==
  /\ status[m] = "unsent"
  /\ status' = [status EXCEPT ![m] = "waiting"]
  /\ UNCHANGED <<holder, spent>>

Lapse(S) ==
  /\ status' = StatusAfter(S)
  /\ holder' = HolderAfter(S)
  /\ UNCHANGED spent

Grant(S, G, c) ==
  /\ c \notin spent
  /\ \A m \in G : StatusAfter(S)[m] = "waiting"
  /\ status' = [m \in Message |-> IF m \in G THEN "leased" ELSE StatusAfter(S)[m]]
  /\ holder' = [m \in Message |-> IF m \in G THEN c ELSE HolderAfter(S)[m]]
  /\ spent' = spent \cup {c}

\* Settled by the holder, or by the recipient without a claim while nobody
\* holds the message.
Settle(S, m, c) ==
  /\ \/ StatusAfter(S)[m] = "leased" /\ holder[m] = c
     \/ StatusAfter(S)[m] = "waiting" /\ c = NoClaim
  /\ status' = [StatusAfter(S) EXCEPT ![m] = "settled"]
  /\ holder' = [HolderAfter(S) EXCEPT ![m] = NoClaim]
  /\ UNCHANGED spent

GiveBack(S, m, c) ==
  /\ StatusAfter(S)[m] = "leased" /\ holder[m] = c
  /\ status' = [StatusAfter(S) EXCEPT ![m] = "waiting"]
  /\ holder' = [HolderAfter(S) EXCEPT ![m] = NoClaim]
  /\ UNCHANGED spent

Withdraw(S, m) ==
  /\ StatusAfter(S)[m] = "waiting"
  /\ status' = [StatusAfter(S) EXCEPT ![m] = "withdrawn"]
  /\ holder' = HolderAfter(S)
  /\ UNCHANGED spent

Next ==
  \/ \E m \in Message : Post(m)
  \/ \E S \in SUBSET Leased :
       \/ Lapse(S)
       \/ \E G \in SUBSET Message, c \in ClaimId : Grant(S, G, c)
       \/ \E m \in Message, c \in ClaimId \cup {NoClaim} :
            \/ Settle(S, m, c)
            \/ GiveBack(S, m, c)
       \/ \E m \in Message : Withdraw(S, m)

Spec == Init /\ [][Next]_mailboxVars
=============================================================================
