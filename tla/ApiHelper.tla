------------------------------- MODULE ApiHelper -------------------------------
(***************************************************************************)
(* The helper of API agents (src/mcodex/api_agent.py; the fuller           *)
(* scripts/mcodex_api_agent.py shares this code): commands that claim the  *)
(* inbox, ACK or release what was claimed by short handles, and keep the   *)
(* handles with the agent's identity in one state file.                    *)
(*                                                                         *)
(* Every command reads the file at its start and writes what it has made   *)
(* of it at the end, the commands included that have no business with      *)
(* claims (send, issue, status, feed, tail, and wait for up to 300 s).     *)
(* The file is replaced in one step but not locked: commands that overlap  *)
(* overwrite each other.  The server is the Mailbox of MessageStore; it    *)
(* remembers the claim that settled a message and takes the same ACK       *)
(* again.  Not in this module: the fallback to another state directory,    *)
(* feed cursors, clients that share the agent's inbox.                     *)
(***************************************************************************)
EXTENDS Integers, FiniteSets

CONSTANTS
  Message,    \* messages to the agent, numbers in the order of their claim
  Command,    \* command processes that may run at once
  Other,      \* another agent id that is used with the same state file
  Me,         \* the agent
  ClaimLimit, \* --limit of inbox
  MaxMishaps  \* bound: overlaps, identity changes, lost answers, kills, leases that end
              \* before the agent is done, releases and cancellations, together

ASSUME ApiHelperAssumption ==
  /\ Message \subseteq Nat /\ IsFiniteSet(Message)
  /\ Me # Other
  /\ ClaimLimit \in Nat \ {0} /\ MaxMishaps \in Nat

VARIABLES
  status, holder, spent,  \* the server's mailbox
  by,        \* the claim that settled each message
  file,      \* the state file: an agent id and claims
  running,   \* what each command does, and its copy of the claims
  mishaps,   \* so far
  disturbed  \* history: commands overlapped, the identity changed, or an inbox failed

mailbox == <<status, holder, spent, by>>
vars == <<mailbox, file, running, mishaps, disturbed>>

NoClaim == 0
ClaimId == Nat \ {0}
Mail == INSTANCE Mailbox

Acking == {"ack", "ack all"}
Releasing == {"release", "release all"}
All == {"ack all", "release all"}
Rewriting == {"send"}   \* register, send, issue, status, feed, tail, wait alike
Kind == {"inbox"} \cup Rewriting \cup Acking \cup Releasing
Idle == [pc |-> "idle"]

Oldest(S) == CHOOSE m \in S : \A n \in S : m <= n
FirstOf(S, k) == {m \in S : Cardinality({n \in S : n < m}) < k}
Waiting == {m \in Message : status[m] = "waiting"}
NewClaim == CHOOSE c \in 1..(Cardinality(spent) + 1) : c \notin spent

Handles(claims) == {x.handle : x \in claims}

Init ==
  /\ Mail!Init /\ by = [m \in Message |-> NoClaim]
  /\ file = [agent |-> Me, claims |-> {}]
  /\ running = [c \in Command |-> Idle]
  /\ mishaps = 0 /\ disturbed = FALSE

Mishap == mishaps < MaxMishaps /\ mishaps' = mishaps + 1
NoMishap == UNCHANGED mishaps
Set(c, local) == running' = [running EXCEPT ![c] = local]
End(c) == Set(c, Idle)

-----------------------------------------------------------------------------
(* The server's other clients and its clock.                               *)

Post(m) ==
  /\ Mail!Post(m)
  /\ UNCHANGED <<by, file, running, mishaps, disturbed>>

Cancel(m) ==
  /\ Mail!Withdraw({}, m) /\ Mishap
  /\ UNCHANGED <<by, file, running, disturbed>>

Copies == {file.claims} \cup {running[c].claims : c \in {d \in Command : running[d] # Idle}}
Known(m) == \E claims \in Copies : \E x \in claims : x.message = m /\ x.claim = holder[m]

\* A lease whose claim nobody knows ends in time; others may end early.
Lapse(m) ==
  /\ status[m] = "leased" /\ Mail!Lapse({m})
  /\ IF Known(m) THEN Mishap ELSE NoMishap
  /\ UNCHANGED <<by, file, running, disturbed>>

-----------------------------------------------------------------------------
(* A command starts.                                                       *)

\* resolve_identity: claims belong to the identity they were made with.
ClaimsOf(agent) == IF agent = file.agent THEN file.claims ELSE {}

Alone(c) == \A d \in Command \ {c} : running[d] = Idle

\* Handles are selected from the copy, all of them or one.
Start(c, kind, agent) ==
  /\ running[c] = Idle
  /\ IF Alone(c) /\ agent = Me /\ kind \notin Releasing THEN NoMishap ELSE Mishap
  /\ disturbed' = (disturbed \/ ~Alone(c) \/ agent # file.agent)
  /\ \E todo \in SUBSET Handles(ClaimsOf(agent)) :
       /\ kind \notin Acking \cup Releasing => todo = {}
       /\ kind \in All => todo = Handles(ClaimsOf(agent))
       /\ kind \in {"ack", "release"} => Cardinality(todo) = 1
       /\ Set(c, [pc |-> IF kind \in Rewriting THEN "save" ELSE "call", kind |-> kind,
                  agent |-> agent, claims |-> ClaimsOf(agent), todo |-> todo])
  /\ UNCHANGED <<mailbox, file>>

-----------------------------------------------------------------------------
(* inbox.                                                                  *)

\* Slip: handles are counted.
NextHandleCounted(claims) == Cardinality(claims) + 1

\* next_handle
NextHandle(claims) ==
  IF claims = {} THEN 1 ELSE (CHOOSE h \in Handles(claims) : \A i \in Handles(claims) : i <= h) + 1

\* One after the other, each message gets the next handle, in place of its old one.
WithMessages(claims, S, claim) ==
  LET first == NextHandle({x \in claims : x.message # Oldest(S)})
      place(m) == Cardinality({n \in S : n < m})
  IN  {x \in claims : x.message \notin S}
      \cup {[handle |-> first + place(m), message |-> m, claim |-> claim] : m \in S}

\* command_inbox up to the answer.  Without it, the handles are never made.
ClaimInbox(c) ==
  LET r == running[c]
      granted == IF r.agent = Me THEN FirstOf(Waiting, ClaimLimit) ELSE {}
  IN
  /\ r.pc = "call" /\ r.kind = "inbox"
  /\ IF granted = {} THEN UNCHANGED mailbox
     ELSE Mail!Grant({}, granted, NewClaim) /\ UNCHANGED by
  /\ \/ /\ NoMishap /\ UNCHANGED disturbed
        /\ Set(c, [r EXCEPT !.pc = "save", !.claims = WithMessages(@, granted, NewClaim)])
     \/ Mishap /\ End(c) /\ disturbed' = TRUE
  /\ UNCHANGED file

-----------------------------------------------------------------------------
(* ack and release, one handle or --all.                                   *)

Item(c) ==
  CHOOSE x \in running[c].claims : x.handle = Oldest(running[c].todo)

\* What the server makes of an ACK or a release under a claim.
Settles(x) ==
  \/ /\ holder[x.message] = x.claim
     /\ Mail!Settle({}, x.message, x.claim)
     /\ by' = [by EXCEPT ![x.message] = x.claim]
  \/ by[x.message] = x.claim /\ UNCHANGED mailbox

GivesBack(x) == Mail!GiveBack({}, x.message, x.claim) /\ UNCHANGED by

Stale(x, kind) ==
  /\ holder[x.message] # x.claim
  /\ kind \in Releasing \/ by[x.message] # x.claim

Applies(x, kind) == IF kind \in Releasing THEN GivesBack(x) ELSE Settles(x)

\* Slip: the loop runs over the claims it shortens.
WithoutCounting(r, x) == [r EXCEPT !.pc = "save", !.claims = @ \ {x}]

Without(r, x) ==
  [r EXCEPT !.pc = "save", !.claims = @ \ {x}, !.todo = @ \ {x.handle}]

\* Done: the handle goes.
ActOnClaim(c) ==
  LET r == running[c] IN
  /\ r.pc = "call" /\ r.kind # "inbox" /\ r.todo # {}
  /\ Applies(Item(c), r.kind)
  /\ \/ Set(c, Without(r, Item(c))) /\ NoMishap
     \/ End(c) /\ Mishap
  /\ UNCHANGED <<file, disturbed>>

\* Slip: any refusal ends the command.
RefuseAlways(c) ==
  LET r == running[c] IN
  /\ r.pc = "call" /\ r.kind # "inbox" /\ r.todo # {}
  /\ Stale(Item(c), r.kind)
  /\ End(c)
  /\ UNCHANGED <<mailbox, file, mishaps, disturbed>>

\* 404 or 409: with --all the handle goes, too.
Refuse(c) ==
  LET r == running[c] IN
  /\ r.pc = "call" /\ r.kind # "inbox" /\ r.todo # {}
  /\ Stale(Item(c), r.kind)
  /\ IF r.kind \in All THEN Set(c, Without(r, Item(c))) ELSE End(c)
  /\ UNCHANGED <<mailbox, file, mishaps, disturbed>>

\* Slip: with --all the handle goes whatever the failure.
FailWithout(c) ==
  LET r == running[c] IN
  /\ r.pc = "call" /\ r.kind # "inbox" /\ r.todo # {} /\ Mishap
  /\ IF r.kind \in All THEN Set(c, Without(r, Item(c))) ELSE End(c)
  /\ UNCHANGED <<mailbox, file, disturbed>>

\* Any other failure, with nothing done: the handle stays.
Fail(c) ==
  LET r == running[c] IN
  /\ r.pc = "call" /\ r.kind # "inbox" /\ r.todo # {} /\ Mishap
  /\ End(c)
  /\ UNCHANGED <<mailbox, file, disturbed>>

Finish(c) ==
  /\ running[c].pc = "call" /\ running[c].kind # "inbox" /\ running[c].todo = {}
  /\ End(c)
  /\ UNCHANGED <<mailbox, file, mishaps, disturbed>>

-----------------------------------------------------------------------------
(* The state file is written, or the command dies before it is.            *)

Save(c) ==
  LET r == running[c] IN
  /\ r.pc = "save"
  /\ file' = [agent |-> r.agent, claims |-> r.claims]
  /\ IF r.kind \in {"inbox"} \cup Rewriting THEN End(c) ELSE Set(c, [r EXCEPT !.pc = "call"])
  /\ UNCHANGED <<mailbox, mishaps, disturbed>>

Kill(c) ==
  /\ running[c] # Idle /\ Mishap /\ End(c)
  /\ disturbed' = (disturbed \/ running[c].kind = "inbox")
  /\ UNCHANGED <<mailbox, file>>

-----------------------------------------------------------------------------

Step(c) == ClaimInbox(c) \/ ActOnClaim(c) \/ Refuse(c) \/ Finish(c) \/ Save(c)

Next ==
  \/ \E m \in Message : Post(m) \/ Cancel(m) \/ Lapse(m)
  \/ \E c \in Command :
       Step(c) \/ Fail(c) \/ Kill(c) \/ \E kind \in Kind, agent \in {Me, Other} : Start(c, kind, agent)

Spec == Init /\ [][Next]_vars

\* Commands go on, orphaned leases end, and the agent reads its inbox and ACKs
\* what it holds again and again.
Reads(c) == Alone(c) /\ Start(c, "inbox", Me)
Acks(c) == Alone(c) /\ Start(c, "ack all", Me)
FairSpec ==
  /\ Spec
  /\ \A c \in Command : WF_vars(Step(c))
  /\ \A m \in Message : WF_vars(~Known(m) /\ Lapse(m))
  /\ SF_vars(\E c \in Command : Reads(c))
  /\ SF_vars(\E c \in Command : Acks(c))

-----------------------------------------------------------------------------
(* Properties.                                                             *)

\* The mailbox, the file and the copies are well formed.
Claims == [handle : Nat \ {0}, message : Message, claim : ClaimId]
TypeOK ==
  /\ status \in [Message -> {"unsent", "waiting", "leased", "settled", "withdrawn"}]
  /\ holder \in [Message -> ClaimId \cup {NoClaim}] /\ spent \subseteq ClaimId
  /\ by \in [Message -> ClaimId \cup {NoClaim}]
  /\ \A m \in Message : by[m] # NoClaim => status[m] = "settled"
  /\ file.agent \in {Me, Other}
  /\ \A claims \in Copies : \A x \in claims : x \in Claims /\ x.claim \in spent
  /\ \A c \in Command : running[c] # Idle =>
       running[c].todo \subseteq Handles(running[c].claims)
  /\ mishaps \in 0..MaxMishaps /\ disturbed \in BOOLEAN

\* In the file, a handle stands for one message and a message has one handle, and
\* all are of the agent whose file it is, however commands overlap, claims come
\* again and handles are given anew: `ack 1` cannot be about two messages.
HandlesClear ==
  /\ \A x, y \in file.claims :
       x.handle = y.handle \/ x.message = y.message => x = y
  /\ file.agent # Me => file.claims = {}

\* While the commands of one agent follow one another and every inbox gets
\* through, no claim on the server is without a handle on file, also when an
\* ACK or release is lost, or is killed half way through --all.
HeldAreOnFile ==
  ~disturbed /\ (\A c \in Command : running[c] = Idle) =>
    \A m \in Message : status[m] = "leased" =>
      \E x \in file.claims : x.message = m /\ x.claim = holder[m]

\* An agent that keeps reading its inbox and ACKing all gets done with every
\* message: claims that overlapping commands or a crash have lost come back when
\* their leases end, and handles that have gone stale do not stand in the way.
AllSettled ==
  \A m \in Message : status[m] = "waiting" ~> status[m] \in {"settled", "withdrawn"}

=============================================================================
