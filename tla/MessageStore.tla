----------------------------- MODULE MessageStore -----------------------------
(***************************************************************************)
(* The direct-message tables of server-local (LocalStateStore in           *)
(* server_local.py): messages, message_deliveries, message_request_keys,   *)
(* and the pending/claimed gauges derived from them.                       *)
(*                                                                         *)
(* Every operation runs on a thread of the HTTP server, or on the          *)
(* maintenance worker, in three steps that other threads interleave with:  *)
(*   - Begin*  validates the arguments and reads `now`, WITHOUT the lock;  *)
(*   - the transaction (PostMessage, Claim, Ack, Release, Cancel,          *)
(*     ExpireClaims, Refuse) runs under _write_lock and commits or rolls   *)
(*     back as a whole, using that possibly old `now`;                     *)
(*   - Reply   updates the gauges and answers, again without the lock.     *)
(*                                                                         *)
(* Not in this module: the agents, groups and sessions tables (whether a   *)
(* send is refused because of them is left open here), conversations and   *)
(* the event log, which no operation below reads.                          *)
(***************************************************************************)
EXTENDS Integers, FiniteSets

CONSTANTS
  Agent,        \* agents that messages are addressed to
  Message,      \* message ids (uuid4) that may be generated
  ClaimId,      \* claim ids (uuid4) that may be generated
  RequestKey,   \* (group, sender, client_request_id) triples clients use
  Body,         \* SHA-256 digests of message bodies
  Handler,      \* HTTP server threads
  Janitor,      \* the maintenance worker's thread
  LeaseSeconds, \* lease lengths that clients ask for
  Limit,        \* batch limits that clients ask for
  ArchiveAge,   \* age from which a message may be archived
  NoClaim,      \* NULL in message_deliveries.claim_id
  NoKey,        \* a send without client_request_id
  MaxClock,     \* bound: the last instant of the clock
  MaxRestarts   \* bound: restarts of the server process

ASSUME MessageStoreAssumption ==
  /\ IsFiniteSet(Message)
  /\ Janitor \notin Handler
  /\ NoClaim \notin ClaimId
  /\ NoKey \notin RequestKey
  /\ LeaseSeconds \subseteq Nat \ {0}
  /\ Limit \subseteq Nat
  /\ ArchiveAge \in Nat
  /\ MaxClock \in Nat
  /\ MaxRestarts \in Nat

VARIABLES
  clock,      \* the wall clock, assumed not to step back
  letter,     \* messages: who it is for, what it says, its key, when sent
  delivery,   \* message_deliveries: the row of each message (its last content,
              \* once archived)
  archived,   \* messages whose rows finalize_archive has deleted
  requestKey, \* message_request_keys
  issued,     \* claim ids a committed claim has handed out
  call,       \* what each thread is doing
  gauge,      \* mcodex_messages_pending and mcodex_messages_claimed
  restarts,   \* restarts so far
  settled,    \* history: <<message, claim>> of each accepted ACK
  answered    \* history: <<key, message>> of each accepted keyed send

tables == <<letter, delivery, archived, requestKey, issued>>
history == <<settled, answered>>
vars == <<clock, tables, call, gauge, restarts, history>>

Thread == Handler \cup {Janitor}
Time == 0..MaxClock
State == {"unsent", "pending", "claimed", "acked", "canceled"}
Terminal == {"acked", "canceled"}

Letter == [recipient : Agent, body : Body, key : RequestKey \cup {NoKey}, sentAt : Time]
Delivery == [state : State, claim : ClaimId \cup {NoClaim}, expires : Nat]
KeyRow == [state : {"live", "archived"}, message : Message, recipient : Agent, body : Body]

NoLetter == [key |-> NoKey, sentAt |-> 0]
NoKeyRow == [state |-> "unused"]
Unsent == [state |-> "unsent", claim |-> NoClaim, expires |-> 0]
Waiting == [state |-> "pending", claim |-> NoClaim, expires |-> 0]
Idle == [op |-> "idle"]

Sent == {m \in Message : delivery[m].state # "unsent"}
Stored == Sent \ archived
KeyUsed(k) == requestKey[k].state # "unused"

Request ==
  [op : {"create"}, now : Time, id : Message, key : RequestKey \cup {NoKey},
   recipient : Agent, body : Body]
  \cup [op : {"claim"}, now : Time, id : ClaimId, agent : Agent, limit : Limit,
        lease : LeaseSeconds, only : SUBSET Message]
  \cup [op : {"ack", "release"}, now : Time, message : Message,
        claim : ClaimId \cup {NoClaim}]
  \cup [op : {"cancel"}, now : Time, message : Message]
  \cup [op : {"expire"}, now : Time]
Answer == [op : {"reply"}, pending : Int, claimed : Int]

Init ==
  /\ clock = 0
  /\ letter = [m \in Message |-> NoLetter]
  /\ delivery = [m \in Message |-> Unsent]
  /\ archived = {}
  /\ requestKey = [k \in RequestKey |-> NoKeyRow]
  /\ issued = {}
  /\ call = [t \in Thread |-> Idle]
  /\ gauge = [pending |-> 0, claimed |-> 0]
  /\ restarts = 0
  /\ settled = {}
  /\ answered = {}

Tick == /\ clock < MaxClock
        /\ clock' = clock + 1
        /\ UNCHANGED <<tables, call, gauge, restarts, history>>

-----------------------------------------------------------------------------
(* Before the lock: arguments are checked and `now` is read.               *)

Begin(t, request) ==
  /\ call[t] = Idle
  /\ call' = [call EXCEPT ![t] = request]
  /\ UNCHANGED <<clock, tables, gauge, restarts, history>>

\* Ids that a call generates are new: no row and no other call has them.
Generated == {call[t].id : t \in {u \in Thread : call[u].op \in {"create", "claim"}}}

BeginCreate(h) ==
  \E m \in Message \ (Sent \cup Generated), k \in RequestKey \cup {NoKey},
     a \in Agent, b \in Body :
    Begin(h, [op |-> "create", now |-> clock, id |-> m, key |-> k,
              recipient |-> a, body |-> b])

\* A lease is asked for only while the bounded clock can still outlive it.
BeginClaim(h) ==
  \E c \in ClaimId \ (issued \cup Generated), a \in Agent, n \in Limit,
     s \in LeaseSeconds, only \in SUBSET Sent :
    /\ clock + s < MaxClock
    /\ Begin(h, [op |-> "claim", now |-> clock, id |-> c, agent |-> a,
                 limit |-> n, lease |-> s, only |-> only])

\* Clients name messages that were sent and claims that were handed out.
BeginAck(h) ==
  \E m \in Sent, c \in issued \cup {NoClaim} :
    Begin(h, [op |-> "ack", now |-> clock, message |-> m, claim |-> c])

BeginRelease(h) ==
  \E m \in Sent, c \in issued :
    Begin(h, [op |-> "release", now |-> clock, message |-> m, claim |-> c])

BeginCancel(h) ==
  \E m \in Sent :
    Begin(h, [op |-> "cancel", now |-> clock, message |-> m])

\* The claim_expiry task of the maintenance worker.
BeginExpire == Begin(Janitor, [op |-> "expire", now |-> clock])

-----------------------------------------------------------------------------
(* Under the lock: one transaction.                                        *)

\* Slip: a lease ends at its last instant.
LapsedOnTheDot(t) ==
  {m \in Stored : delivery[m].state = "claimed" /\ delivery[m].expires <= t}

\* _expire_claims_locked: leases that ran out before t go back to pending.
Lapsed(t) == {m \in Stored : delivery[m].state = "claimed" /\ delivery[m].expires < t}
Collected(t) == [m \in Message |-> IF m \in Lapsed(t) THEN Waiting ELSE delivery[m]]

\* Slip: leases collected on the way are not counted.
ChangesOwnOnly(t, pending, claimed) ==
  [op |-> "reply", pending |-> pending, claimed |-> claimed]

\* What the thread has yet to add to the gauges: its own transition, and one
\* claimed -> pending for every lease it collected.
Changes(t, pending, claimed) ==
  LET lapsed == Cardinality(Lapsed(call[t].now))
  IN  [op |-> "reply", pending |-> pending + lapsed, claimed |-> claimed - lapsed]

Commit(t, answer) ==
  /\ call' = [call EXCEPT ![t] = answer]
  /\ UNCHANGED <<clock, archived, gauge, restarts>>

\* A key that was used answers for the message it was used for, archived or
\* not, if recipient and body are the same.
KeyMatches(c) ==
  /\ requestKey[c.key].recipient = c.recipient
  /\ requestKey[c.key].body = c.body

KeyAnswered(c) == c.key # NoKey /\ KeyUsed(c.key)

Repeat(h) ==
  LET c == call[h] IN
  /\ c.op = "create" /\ KeyAnswered(c) /\ KeyMatches(c)
  /\ requestKey[c.key].state = "archived" \/ requestKey[c.key].message \in Stored
  /\ answered' = answered \cup {<<c.key, requestKey[c.key].message>>}
  /\ Commit(h, [op |-> "reply", pending |-> 0, claimed |-> 0])
  /\ UNCHANGED <<letter, delivery, requestKey, issued, settled>>

PostMessage(h) ==
  LET c == call[h] IN
  /\ c.op = "create" /\ ~KeyAnswered(c)
  /\ letter' = [letter EXCEPT ![c.id] =
       [recipient |-> c.recipient, body |-> c.body, key |-> c.key, sentAt |-> c.now]]
  /\ requestKey' = [k \in RequestKey |->
       IF k = c.key
       THEN [state |-> "live", message |-> c.id, recipient |-> c.recipient, body |-> c.body]
       ELSE requestKey[k]]
  /\ delivery' = [delivery EXCEPT ![c.id] = Waiting]
  /\ answered' = IF c.key = NoKey THEN answered ELSE answered \cup {<<c.key, c.id>>}
  /\ Commit(h, [op |-> "reply", pending |-> 1, claimed |-> 0])
  /\ UNCHANGED <<issued, settled>>

\* The rows a claim may take, after expiry, and the batches of the oldest of
\* them (messages sent at the same instant are ordered by their random ids).
Claimable(c) ==
  {m \in Stored : /\ letter[m].recipient = c.agent
                  /\ Collected(c.now)[m].state = "pending"
                  /\ c.only = {} \/ m \in c.only}

OldestOf(S, n) ==
  {B \in SUBSET S :
     /\ Cardinality(B) = IF Cardinality(S) < n THEN Cardinality(S) ELSE n
     /\ \A m \in B, r \in S \ B : letter[m].sentAt <= letter[r].sentAt}

Claim(h) ==
  LET c == call[h] IN
  /\ c.op = "claim"
  /\ \E B \in OldestOf(Claimable(c), c.limit) :
       /\ delivery' = [m \in Message |->
            IF m \in B
            THEN [state |-> "claimed", claim |-> c.id, expires |-> c.now + c.lease]
            ELSE Collected(c.now)[m]]
       /\ issued' = IF B = {} THEN issued ELSE issued \cup {c.id}
       /\ Commit(h, Changes(h, -Cardinality(B), Cardinality(B)))
  /\ UNCHANGED <<letter, requestKey, history>>

\* Slip: any claim will do once there is one.
AckAcceptedAnyClaim(c) ==
  LET row == Collected(c.now)[c.message] IN
  /\ c.message \in Stored
  /\ row.state # "canceled"
  /\ row.claim = NoClaim <=> c.claim = NoClaim

\* An ACK must name the row's claim exactly, NULL included, and an acked row
\* keeps its claim so that the same ACK may be repeated.
AckAccepted(c) ==
  LET row == Collected(c.now)[c.message] IN
  /\ c.message \in Stored
  /\ row.state # "canceled"
  /\ row.claim = c.claim

Ack(h) ==
  LET c == call[h]
      row == Collected(c.now)[c.message]
  IN
  /\ c.op = "ack" /\ AckAccepted(c)
  /\ delivery' = [Collected(c.now) EXCEPT ![c.message] =
                    [state |-> "acked", claim |-> row.claim, expires |-> 0]]
  /\ settled' = settled \cup {<<c.message, c.claim>>}
  /\ Commit(h, CASE row.state = "pending" -> Changes(h, -1, 0)
                 [] row.state = "claimed" -> Changes(h, 0, -1)
                 [] row.state = "acked"   -> Changes(h, 0, 0))
  /\ UNCHANGED <<letter, requestKey, issued, answered>>

\* Slip: the claim id alone decides, and an acked row has kept its own.
ReleaseAcceptedByClaim(c) ==
  /\ c.message \in Stored
  /\ Collected(c.now)[c.message].claim = c.claim

ReleaseAccepted(c) ==
  LET row == Collected(c.now)[c.message] IN
  /\ c.message \in Stored
  /\ row.state = "claimed"
  /\ row.claim = c.claim

Release(h) ==
  LET c == call[h] IN
  /\ c.op = "release" /\ ReleaseAccepted(c)
  /\ delivery' = [Collected(c.now) EXCEPT ![c.message] = Waiting]
  /\ Commit(h, Changes(h, 1, -1))
  /\ UNCHANGED <<letter, requestKey, issued, history>>

CancelAccepted(c) ==
  /\ c.message \in Stored
  /\ Collected(c.now)[c.message].state = "pending"

Cancel(h) ==
  LET c == call[h] IN
  /\ c.op = "cancel" /\ CancelAccepted(c)
  /\ delivery' = [Collected(c.now) EXCEPT ![c.message] =
                    [state |-> "canceled", claim |-> NoClaim, expires |-> 0]]
  /\ Commit(h, Changes(h, -1, 0))
  /\ UNCHANGED <<letter, requestKey, issued, history>>

\* Slip: the maintenance transaction is never committed.
ExpireClaimsUncommitted ==
  /\ call[Janitor].op = "expire"
  /\ Commit(Janitor, [op |-> "reply", pending |-> 0, claimed |-> 0])
  /\ UNCHANGED <<letter, delivery, requestKey, issued, history>>

ExpireClaims ==
  /\ call[Janitor].op = "expire"
  /\ delivery' = Collected(call[Janitor].now)
  /\ Commit(Janitor, Changes(Janitor, 0, 0))
  /\ UNCHANGED <<letter, requestKey, issued, history>>

\* The errors raised inside a transaction roll all of it back, the expiry it
\* began with included.  A send is also refused by the state of its group.
Refuse(h) ==
  LET c == call[h] IN
  /\ \/ c.op = "create" /\ (KeyAnswered(c) => ~KeyMatches(c))
     \/ c.op = "ack" /\ ~AckAccepted(c)
     \/ c.op = "release" /\ ~ReleaseAccepted(c)
     \/ c.op = "cancel" /\ ~CancelAccepted(c)
  /\ call' = [call EXCEPT ![h] = Idle]
  /\ UNCHANGED <<clock, tables, gauge, restarts, history>>

-----------------------------------------------------------------------------
(* After the lock.                                                         *)

\* The gauges are brought up to date, then the row is read again and returned
\* (an error if the archiver has deleted it meanwhile; nothing changes).
Reply(t) ==
  /\ call[t].op = "reply"
  /\ gauge' = [pending |-> gauge.pending + call[t].pending,
               claimed |-> gauge.claimed + call[t].claimed]
  /\ call' = [call EXCEPT ![t] = Idle]
  /\ UNCHANGED <<clock, tables, restarts, history>>

\* Slip: the request keys are deleted with the messages.
ArchiveKeysToo(S) ==
  /\ S # {}
  /\ \A m \in S : /\ delivery[m].state \in Terminal
                  /\ letter[m].sentAt + ArchiveAge < clock
  /\ archived' = archived \cup S
  /\ requestKey' = [k \in RequestKey |->
       IF KeyUsed(k) /\ requestKey[k].message \in S THEN NoKeyRow ELSE requestKey[k]]
  /\ UNCHANGED <<clock, letter, delivery, issued, call, gauge, restarts, history>>

\* finalize_archive, for the batches it accepts: rows of old messages whose
\* deliveries are terminal leave the tables, their request keys stay.
Archive(S) ==
  /\ S # {}
  /\ \A m \in S : /\ delivery[m].state \in Terminal
                  /\ letter[m].sentAt + ArchiveAge < clock
  /\ archived' = archived \cup S
  /\ requestKey' = [k \in RequestKey |->
       IF KeyUsed(k) /\ requestKey[k].message \in S
       THEN [requestKey[k] EXCEPT !.state = "archived"]
       ELSE requestKey[k]]
  /\ UNCHANGED <<clock, letter, delivery, issued, call, gauge, restarts, history>>

\* Slip: the gauges start from zero.
RestartUncounted ==
  /\ restarts < MaxRestarts
  /\ restarts' = restarts + 1
  /\ call' = [t \in Thread |-> Idle]
  /\ gauge' = [pending |-> 0, claimed |-> 0]
  /\ UNCHANGED <<clock, tables, history>>

\* The process dies and starts again: open transactions are rolled back and
\* initialize_metric_state counts the rows before the server listens.
Restart ==
  /\ restarts < MaxRestarts
  /\ restarts' = restarts + 1
  /\ call' = [t \in Thread |-> Idle]
  /\ gauge' = [pending |-> Cardinality({m \in Stored : delivery[m].state = "pending"}),
               claimed |-> Cardinality({m \in Stored : delivery[m].state = "claimed"})]
  /\ UNCHANGED <<clock, tables, history>>

-----------------------------------------------------------------------------
BeginSome(h) == \/ BeginCreate(h) \/ BeginClaim(h) \/ BeginAck(h)
                \/ BeginRelease(h) \/ BeginCancel(h)

Transact(h) == \/ Repeat(h) \/ PostMessage(h) \/ Claim(h) \/ Ack(h)
               \/ Release(h) \/ Cancel(h) \/ Refuse(h)

Next ==
  \/ Tick
  \/ \E h \in Handler : BeginSome(h) \/ Transact(h)
  \/ BeginExpire \/ ExpireClaims
  \/ \E t \in Thread : Reply(t)
  \/ \E S \in SUBSET Stored : Archive(S)
  \/ Restart

Spec == Init /\ [][Next]_vars

-----------------------------------------------------------------------------
TypeOK ==
  /\ clock \in Time
  /\ letter \in [Message -> Letter \cup {NoLetter}]
  /\ delivery \in [Message -> Delivery]
  /\ archived \subseteq Message
  /\ requestKey \in [RequestKey -> KeyRow \cup {NoKeyRow}]
  /\ issued \subseteq ClaimId
  /\ call \in [Thread -> Request \cup Answer \cup {Idle}]
  /\ gauge \in [pending : Int, claimed : Int]
  /\ restarts \in 0..MaxRestarts
  /\ settled \subseteq Message \X (ClaimId \cup {NoClaim})
  /\ answered \subseteq RequestKey \X Message

\* What the threads have yet to add to a gauge, and the sum of it, unit by unit.
Unrecorded(state) ==
  [t \in Thread |-> IF call[t].op # "reply" THEN 0
                    ELSE IF state = "pending" THEN call[t].pending ELSE call[t].claimed]
Units(f) == UNION {{t} \X (1..f[t]) : t \in Thread}
Total(f) == Cardinality(Units(f)) - Cardinality(Units([t \in Thread |-> -f[t]]))

(* The gauges are updated after the lock is released, in any order, yet    *)
(* they never drift: with what the running calls have still to add, they   *)
(* count the rows, also when one transaction both collects leases and      *)
(* changes a row, and after a restart (_record_expired_delivery_metrics,   *)
(* delivery_state_changed, initialize_metric_state).                       *)
GaugesCount ==
  /\ gauge.pending + Total(Unrecorded("pending"))
       = Cardinality({m \in Stored : delivery[m].state = "pending"})
  /\ gauge.claimed + Total(Unrecorded("claimed"))
       = Cardinality({m \in Stored : delivery[m].state = "claimed"})

(* An ACK is accepted from one claim only: whoever had a message leased    *)
(* before, and let the lease run out, never gets "acked" for it once       *)
(* another holder did, however late the calls reach the lock; and what was *)
(* once answered "acked" stays acked by that claim (ack_message).          *)
SettledOnce ==
  \A p \in settled : /\ delivery[p[1]].state = "acked"
                      /\ delivery[p[1]].claim = p[2]

(* While a lease runs, only a call carrying its claim id changes the row:  *)
(* no expiry with an older `now`, no other claim, cancel or ACK does       *)
(* (_expire_claims_locked, claim_messages, cancel_message).                *)
LeaseExclusive ==
  [][\A m \in Message :
       /\ delivery[m].state = "claimed"
       /\ clock <= delivery[m].expires
       /\ delivery'[m] # delivery[m]
       => \E h \in Handler :
            /\ call[h].op \in {"ack", "release"}
            /\ call[h].message = m
            /\ call[h].claim = delivery[m].claim
            /\ call'[h] # call[h]]_vars

(* Every message sent with a key is the message its key row names, with    *)
(* the recipient and body of that row, and the row says "archived" exactly *)
(* when the message is gone: so a key never makes two messages, and the    *)
(* "request key references a missing active message" error cannot happen.  *)
KeysAgree ==
  /\ \A m \in Sent : letter[m].key # NoKey =>
       requestKey[letter[m].key] =
         [state |-> IF m \in archived THEN "archived" ELSE "live", message |-> m,
          recipient |-> letter[m].recipient, body |-> letter[m].body]
  /\ \A k \in RequestKey : KeyUsed(k) =>
       /\ requestKey[k].message \in Sent
       /\ letter[requestKey[k].message].key = k

(* Retries of a keyed send, concurrent, after a restart or after the       *)
(* message was archived, are all answered with the same message id.        *)
AnsweredOnce ==
  \A p, q \in answered : p[1] = q[1] => p[2] = q[2]

(* The store implements the mailbox: claims are exclusive and never reused,*)
(* terminal deliveries are final and survive archiving, whatever the       *)
(* interleaving of transactions, crashes and old values of `now`.          *)
Standing == [unsent |-> "unsent", pending |-> "waiting", claimed |-> "leased",
             acked |-> "settled", canceled |-> "withdrawn"]

mailbox == INSTANCE Mailbox WITH
  status <- [m \in Message |-> Standing[delivery[m].state]],
  holder <- [m \in Message |->
               IF delivery[m].state = "claimed" THEN delivery[m].claim ELSE NoClaim],
  spent <- issued

ImplementsMailbox == mailbox!Spec

-----------------------------------------------------------------------------
(* Time passes, threads that have begun get the lock and answer, and the   *)
(* maintenance worker runs claim_expiry again and again.                   *)
Fairness ==
  /\ WF_vars(Tick)
  /\ WF_vars(BeginExpire) /\ WF_vars(ExpireClaims)
  /\ \A h \in Handler : WF_vars(Transact(h))
  /\ \A t \in Thread : WF_vars(Reply(t))

FairSpec == Spec /\ Fairness

(* A lease does not outlive its holder: a claim whose answer was lost or   *)
(* whose holder died gives its messages back without anyone asking         *)
(* (expire_message_claims).                                                *)
LeasesEnd ==
  \A m \in Message, c \in ClaimId :
    (delivery[m].state = "claimed" /\ delivery[m].claim = c)
      ~> ~(delivery[m].state = "claimed" /\ delivery[m].claim = c)

=============================================================================
