-------------------------- MODULE MessageStoreProofs --------------------------
(***************************************************************************)
(* What MessageStore guarantees for any number of agents, messages,        *)
(* claims, keys, threads, restarts and any length of the clock.            *)
(***************************************************************************)
EXTENDS MessageStore, FiniteSetTheorems, TLAPS

USE MessageStoreAssumption

-----------------------------------------------------------------------------
(* Counts of rows are integers, so gauges and their changes are.           *)
LEMMA CountType ==
  ASSUME NEW S, S \subseteq Message
  PROVE  Cardinality(S) \in Int
<1>1. IsFiniteSet(S)
  BY FS_Subset
<1> QED
  BY <1>1, FS_CardinalityType

LEMMA CollectedType ==
  ASSUME TypeOK, NEW t
  PROVE  Collected(t) \in [Message -> Delivery]
<1>1. Waiting \in Delivery
  BY DEF Waiting, Delivery, State
<1> QED
  BY <1>1 DEF TypeOK, Collected

LEMMA ChangesType ==
  ASSUME NEW t, NEW p \in Int, NEW c \in Int
  PROVE  Changes(t, p, c) \in Answer
<1>1. Cardinality(Lapsed(call[t].now)) \in Int
  BY CountType DEF Lapsed, Stored, Sent
<1> QED
  BY <1>1 DEF Changes, Answer

\* What every transaction but a refusal leaves alone.
LEMMA CommitType ==
  ASSUME TypeOK, NEW t \in Thread, NEW a \in Answer, Commit(t, a)
  PROVE  /\ call' \in [Thread -> Request \cup Answer \cup {Idle}]
         /\ clock' \in Time /\ archived' \subseteq Message
         /\ gauge' \in [pending : Int, claimed : Int]
         /\ restarts' \in 0..MaxRestarts
BY DEF TypeOK, Commit

LEMMA BeginType ==
  ASSUME TypeOK, NEW t \in Thread, NEW r \in Request, Begin(t, r)
  PROVE  TypeOK'
BY DEF TypeOK, Begin, tables, history

LEMMA InitType == Init => TypeOK
BY DEF Init, TypeOK, Time, Unsent, Delivery, State

LEMMA BeginSomeType ==
  ASSUME TypeOK, NEW h \in Handler, BeginSome(h)
  PROVE  TypeOK'
<1> h \in Thread /\ clock \in Time
  BY DEF Thread, TypeOK
<1>1. CASE BeginCreate(h)
  BY <1>1, BeginType DEF BeginCreate, Request
<1>2. CASE BeginClaim(h)
  <2>1. PICK c \in ClaimId, a \in Agent, n \in Limit, s \in LeaseSeconds, only \in SUBSET Sent :
          Begin(h, [op |-> "claim", now |-> clock, id |-> c, agent |-> a,
                    limit |-> n, lease |-> s, only |-> only])
    BY <1>2 DEF BeginClaim
  <2>2. only \subseteq Message
    BY DEF Sent
  <2> QED
    BY <2>1, <2>2, BeginType DEF Request
<1>3. CASE BeginAck(h)
  <2>1. PICK m \in Sent, c \in issued \cup {NoClaim} :
          Begin(h, [op |-> "ack", now |-> clock, message |-> m, claim |-> c])
    BY <1>3 DEF BeginAck
  <2> QED
    BY <2>1, BeginType DEF Request, Sent, TypeOK
<1>4. CASE BeginRelease(h)
  <2>1. PICK m \in Sent, c \in issued :
          Begin(h, [op |-> "release", now |-> clock, message |-> m, claim |-> c])
    BY <1>4 DEF BeginRelease
  <2> QED
    BY <2>1, BeginType DEF Request, Sent, TypeOK
<1>5. CASE BeginCancel(h)
  BY <1>5, BeginType DEF BeginCancel, Request, Sent
<1> QED
  BY <1>1, <1>2, <1>3, <1>4, <1>5 DEF BeginSome

\* The arguments of a call in progress are what its operation expects.
LEMMA CallTypes ==
  ASSUME TypeOK, NEW t \in Thread
  PROVE  /\ call[t].op = "create" => call[t] \in
              [op : {"create"}, now : Time, id : Message, key : RequestKey \cup {NoKey},
               recipient : Agent, body : Body]
         /\ call[t].op = "claim" => call[t] \in
              [op : {"claim"}, now : Time, id : ClaimId, agent : Agent, limit : Limit,
               lease : LeaseSeconds, only : SUBSET Message]
         /\ call[t].op \in {"ack", "release"} => call[t] \in
              [op : {"ack", "release"}, now : Time, message : Message,
               claim : ClaimId \cup {NoClaim}]
         /\ call[t].op = "cancel" => call[t] \in [op : {"cancel"}, now : Time, message : Message]
         /\ call[t].op = "reply" => call[t] \in Answer
BY DEF TypeOK, Request, Answer, Idle

LEMMA TransactType ==
  ASSUME TypeOK, NEW h \in Handler, Transact(h)
  PROVE  TypeOK'
<1> DEFINE c == call[h]
<1>0. h \in Thread /\ Collected(c.now) \in [Message -> Delivery]
  BY CollectedType DEF Thread
<1>1. CASE Repeat(h)
  <2>1. c.op = "create" /\ c.key \in RequestKey /\ requestKey[c.key] \in KeyRow
    BY <1>0, <1>1, CallTypes DEF Repeat, KeyAnswered, KeyUsed, TypeOK, NoKeyRow
  <2>2. Commit(h, [op |-> "reply", pending |-> 0, claimed |-> 0])
    BY <1>1 DEF Repeat
  <2>3. answered' \subseteq RequestKey \X Message
    BY <1>1, <2>1 DEF Repeat, TypeOK, KeyRow
  <2>4. [op |-> "reply", pending |-> 0, claimed |-> 0] \in Answer
    BY DEF Answer
  <2> QED
    BY <1>0, <1>1, <2>2, <2>3, <2>4, CommitType DEF Repeat, TypeOK
<1>2. CASE PostMessage(h)
  <2>1. c \in [op : {"create"}, now : Time, id : Message, key : RequestKey \cup {NoKey},
                recipient : Agent, body : Body]
    BY <1>0, <1>2, CallTypes DEF PostMessage
  <2>2. letter' \in [Message -> Letter \cup {NoLetter}]
    BY <1>2, <2>1 DEF PostMessage, TypeOK, Letter
  <2>3. requestKey' \in [RequestKey -> KeyRow \cup {NoKeyRow}]
    BY <1>2, <2>1 DEF PostMessage, TypeOK, KeyRow
  <2>4. delivery' \in [Message -> Delivery]
    BY <1>2, <2>1 DEF PostMessage, TypeOK, Delivery, Waiting, State
  <2>5. answered' \subseteq RequestKey \X Message
    BY <1>2, <2>1 DEF PostMessage, TypeOK
  <2>6. [op |-> "reply", pending |-> 1, claimed |-> 0] \in Answer
    BY DEF Answer
  <2>7. /\ Commit(h, [op |-> "reply", pending |-> 1, claimed |-> 0])
        /\ UNCHANGED <<issued, settled>>
    BY <1>2 DEF PostMessage
  <2>8. issued' \subseteq ClaimId /\ settled' \subseteq Message \X (ClaimId \cup {NoClaim})
    BY <2>7 DEF TypeOK
  <2> QED
    BY <1>0, <2>2, <2>3, <2>4, <2>5, <2>6, <2>7, <2>8, CommitType DEF TypeOK
<1>3. CASE Claim(h)
  <2>1. c \in [op : {"claim"}, now : Time, id : ClaimId, agent : Agent, limit : Limit,
                lease : LeaseSeconds, only : SUBSET Message]
    BY <1>0, <1>3, CallTypes DEF Claim
  <2>2. PICK B \in OldestOf(Claimable(c), c.limit) :
          /\ delivery' = [m \in Message |->
               IF m \in B
               THEN [state |-> "claimed", claim |-> c.id, expires |-> c.now + c.lease]
               ELSE Collected(c.now)[m]]
          /\ issued' = IF B = {} THEN issued ELSE issued \cup {c.id}
          /\ Commit(h, Changes(h, -Cardinality(B), Cardinality(B)))
    BY <1>3 DEF Claim
  <2>3. B \subseteq Message
    BY <2>2 DEF OldestOf, Claimable, Stored, Sent
  <2>4. -Cardinality(B) \in Int /\ Cardinality(B) \in Int
    BY <2>3, CountType
  <2>5. [state |-> "claimed", claim |-> c.id, expires |-> c.now + c.lease] \in Delivery
    <3>1. c.id \in ClaimId /\ c.now \in Nat /\ c.lease \in Nat
      <4>1. c.id \in ClaimId /\ c.now \in Time /\ c.lease \in LeaseSeconds
        BY <2>1
      <4>2. LeaseSeconds \subseteq Nat /\ Time \subseteq Nat
        BY DEF Time
      <4> QED
        BY <4>1, <4>2
    <3> HIDE DEF c
    <3> QED
      BY <3>1 DEF Delivery, State
  <2>6. delivery' \in [Message -> Delivery]
    BY <1>0, <2>2, <2>5
  <2>7. issued' \subseteq ClaimId
    BY <2>1, <2>2 DEF TypeOK
  <2>8. Changes(h, -Cardinality(B), Cardinality(B)) \in Answer
    BY <2>4, ChangesType
  <2>9. UNCHANGED <<letter, requestKey, settled, answered>>
    BY <1>3 DEF Claim, history
  <2> HIDE DEF c
  <2> QED
    BY <1>0, <2>2, <2>6, <2>7, <2>8, <2>9, CommitType DEF TypeOK
<1>4. CASE Ack(h)
  <2>1. c.message \in Message /\ c.claim \in ClaimId \cup {NoClaim}
    BY <1>0, <1>4, CallTypes DEF Ack
  <2>2. PICK p \in Int, q \in Int : Commit(h, Changes(h, p, q))
    <3>1. Collected(c.now)[c.message].state \in {"pending", "claimed", "acked"}
      BY <1>0, <1>4, <2>1 DEF Ack, AckAccepted, Delivery, State, Stored, Sent, Collected, Waiting
    <3> QED
      BY <1>4, <3>1 DEF Ack
  <2>3. Changes(h, p, q) \in Answer
    BY ChangesType
  <2>4. delivery' \in [Message -> Delivery]
    BY <1>0, <1>4, <2>1 DEF Ack, Delivery, State
  <2>5. settled' \subseteq Message \X (ClaimId \cup {NoClaim})
    BY <1>4, <2>1 DEF Ack, TypeOK
  <2>6. UNCHANGED <<letter, requestKey, issued, answered>>
    BY <1>4 DEF Ack
  <2> QED
    BY <1>0, <2>2, <2>3, <2>4, <2>5, <2>6, CommitType DEF TypeOK
<1>5. CASE Release(h)
  <2>1. delivery' \in [Message -> Delivery]
    BY <1>0, <1>5 DEF Release, Delivery, State, Waiting
  <2>2. /\ Commit(h, Changes(h, 1, -1))
        /\ UNCHANGED <<letter, requestKey, issued, settled, answered>>
    BY <1>5 DEF Release, history
  <2>3. Changes(h, 1, -1) \in Answer
    BY ChangesType
  <2> QED
    BY <1>0, <2>1, <2>2, <2>3, CommitType DEF TypeOK
<1>6. CASE Cancel(h)
  <2>1. delivery' \in [Message -> Delivery]
    BY <1>0, <1>6 DEF Cancel, Delivery, State
  <2>2. /\ Commit(h, Changes(h, -1, 0))
        /\ UNCHANGED <<letter, requestKey, issued, settled, answered>>
    BY <1>6 DEF Cancel, history
  <2>3. Changes(h, -1, 0) \in Answer
    BY ChangesType
  <2> QED
    BY <1>0, <2>1, <2>2, <2>3, CommitType DEF TypeOK
<1>7. CASE Refuse(h)
  BY <1>0, <1>7 DEF Refuse, TypeOK, tables, history
<1> QED
  BY <1>1, <1>2, <1>3, <1>4, <1>5, <1>6, <1>7 DEF Transact

LEMMA NextType ==
  ASSUME TypeOK, [Next]_vars
  PROVE  TypeOK'
<1> Janitor \in Thread
  BY DEF Thread
<1>1. CASE Tick
  BY <1>1 DEF Tick, TypeOK, Time, tables, history
<1>2. ASSUME NEW h \in Handler, BeginSome(h) \/ Transact(h)
      PROVE  TypeOK'
  BY <1>2, BeginSomeType, TransactType
<1>3. CASE BeginExpire
  BY <1>3, BeginType DEF BeginExpire, Request, TypeOK
<1>4. CASE ExpireClaims
  <2>1. delivery' \in [Message -> Delivery]
    BY <1>4, CollectedType DEF ExpireClaims
  <2>2. /\ Commit(Janitor, Changes(Janitor, 0, 0))
        /\ UNCHANGED <<letter, requestKey, issued, settled, answered>>
    BY <1>4 DEF ExpireClaims, history
  <2>3. Changes(Janitor, 0, 0) \in Answer
    BY ChangesType
  <2> QED
    BY <2>1, <2>2, <2>3, CommitType DEF TypeOK
<1>5. ASSUME NEW t \in Thread, Reply(t)
      PROVE  TypeOK'
  <2>1. call[t] \in Answer
    BY <1>5, CallTypes DEF Reply
  <2> QED
    BY <1>5, <2>1 DEF Reply, TypeOK, Answer, tables, history
<1>6. ASSUME NEW S \in SUBSET Stored, Archive(S)
      PROVE  TypeOK'
  <2>1. requestKey' \in [RequestKey -> KeyRow \cup {NoKeyRow}]
    BY <1>6 DEF Archive, TypeOK, KeyUsed, KeyRow, NoKeyRow
  <2>2. archived' \subseteq Message
    BY <1>6 DEF Archive, TypeOK, Stored, Sent
  <2> QED
    BY <1>6, <2>1, <2>2 DEF Archive, TypeOK, history
<1>7. CASE Restart
  <2>1. gauge' \in [pending : Int, claimed : Int]
    BY <1>7, CountType DEF Restart, Stored, Sent
  <2> QED
    BY <1>7, <2>1 DEF Restart, TypeOK, tables, history
<1>8. CASE UNCHANGED vars
  BY <1>8 DEF TypeOK, vars, tables, history
<1> QED
  BY <1>1, <1>2, <1>3, <1>4, <1>5, <1>6, <1>7, <1>8 DEF Next

(* The variables of the store keep their types.                            *)
THEOREM TypeCorrect == Spec => []TypeOK
BY InitType, NextType, PTL DEF Spec

-----------------------------------------------------------------------------
(* The inductive invariant.                                                *)

\* An id that a call has generated is in no row, and in no other call.
IdsFresh ==
  /\ \A t \in Thread : call[t].op = "create" => call[t].id \notin Sent
  /\ \A t \in Thread : call[t].op = "claim" => call[t].id \notin issued
  /\ \A t, u \in Thread :
       t # u /\ call[t].op = call[u].op /\ call[t].op \in {"create", "claim"}
       => call[t].id # call[u].id

\* `now` is old, never early.
NowIsPast ==
  \A t \in Thread : call[t].op \notin {"idle", "reply"} => call[t].now <= clock

\* Only claimed and acked rows name a claim, and a claimed row names a claim
\* that was handed out; only terminal rows are archived.
RowsWellFormed ==
  \A m \in Message :
    /\ delivery[m].state \in {"unsent", "pending", "canceled"} => delivery[m].claim = NoClaim
    /\ delivery[m].state = "claimed" => delivery[m].claim \in issued
    /\ m \in archived => delivery[m].state \in Terminal

\* What was answered for a key is what its row still says.
AnswersStand ==
  \A p \in answered : KeyUsed(p[1]) /\ requestKey[p[1]].message = p[2]

IInv == /\ TypeOK
        /\ IdsFresh
        /\ NowIsPast
        /\ RowsWellFormed
        /\ SettledOnce
        /\ KeysAgree
        /\ AnswersStand

-----------------------------------------------------------------------------
(* Lemmas about the steps of a call.                                       *)

\* After a transaction, a refusal or an answer, a thread holds no arguments.
Done == {"idle", "reply"}

LEMMA TransactCall ==
  ASSUME TypeOK, NEW h \in Handler, Transact(h)
  PROVE  /\ clock' = clock
         /\ call[h].op \notin Done
         /\ call'[h].op \in Done
         /\ \A u \in Thread \ {h} : call'[u] = call[u]
<1> DEFINE c == call[h]
<1> h \in Thread
  BY DEF Thread
<1>1. ASSUME NEW a, a.op = "reply", Commit(h, a)
      PROVE  /\ clock' = clock
             /\ call'[h].op \in Done
             /\ \A u \in Thread \ {h} : call'[u] = call[u]
  <2>1. clock' = clock /\ call' = [call EXCEPT ![h] = a]
    BY <1>1 DEF Commit
  <2> QED
    BY <1>1, <2>1 DEF TypeOK, Done
<1>2. CASE Repeat(h)
  BY <1>1, <1>2 DEF Repeat, Done
<1>3. CASE PostMessage(h)
  BY <1>1, <1>3 DEF PostMessage, Done
<1>4. CASE Claim(h)
  <2>1. PICK B : Commit(h, Changes(h, -Cardinality(B), Cardinality(B)))
    BY <1>4 DEF Claim
  <2> QED
    BY <1>1, <1>4, <2>1 DEF Changes, Claim, Done
<1>5. CASE Ack(h)
  <2>1. PICK p, q : Commit(h, Changes(h, p, q))
    <3>1. c.message \in Message /\ h \in Thread
      BY <1>5, CallTypes DEF Ack, Thread
    <3>2. Collected(c.now)[c.message].state \in {"pending", "claimed", "acked"}
      <4>1. /\ delivery[c.message].state # "unsent"
            /\ Collected(c.now)[c.message].state # "canceled"
        BY <1>5, <3>1 DEF Ack, AckAccepted, Stored, Sent
      <4>2. Collected(c.now)[c.message].state = "pending"
              \/ Collected(c.now)[c.message] = delivery[c.message]
        BY <3>1 DEF Collected, Waiting
      <4>3. Collected(c.now)[c.message].state \in State
        BY <3>1, CollectedType DEF Delivery
      <4> QED
        BY <4>1, <4>2, <4>3 DEF State
    <3>3. CASE Collected(c.now)[c.message].state = "pending"
      BY <1>5, <3>3 DEF Ack
    <3>4. CASE Collected(c.now)[c.message].state = "claimed"
      BY <1>5, <3>4 DEF Ack
    <3>5. CASE Collected(c.now)[c.message].state = "acked"
      BY <1>5, <3>5 DEF Ack
    <3> QED
      BY <3>2, <3>3, <3>4, <3>5
  <2> QED
    BY <1>1, <1>5, <2>1 DEF Changes, Ack, Done
<1>6. CASE Release(h)
  BY <1>1, <1>6 DEF Release, Changes, Done
<1>7. CASE Cancel(h)
  BY <1>1, <1>7 DEF Cancel, Changes, Done
<1>8. CASE Refuse(h)
  BY <1>8 DEF Refuse, Idle, Done, TypeOK
<1> QED
  BY <1>2, <1>3, <1>4, <1>5, <1>6, <1>7, <1>8 DEF Transact

\* A call begins on an idle thread with `now` at the present.
LEMMA BeginSomeCall ==
  ASSUME TypeOK, NEW h \in Handler, BeginSome(h)
  PROVE  /\ UNCHANGED <<clock, letter, delivery, archived, requestKey, issued,
                        gauge, restarts, settled, answered>>
         /\ call'[h].now = clock
         /\ \A u \in Thread \ {h} : call'[u] = call[u]
<1> h \in Thread
  BY DEF Thread
<1>1. ASSUME NEW r, r.now = clock, Begin(h, r)
      PROVE  /\ UNCHANGED <<clock, letter, delivery, archived, requestKey, issued,
                            gauge, restarts, settled, answered>>
             /\ call'[h].now = clock
             /\ \A u \in Thread \ {h} : call'[u] = call[u]
  BY <1>1 DEF Begin, TypeOK, tables, history
<1>2. CASE BeginCreate(h)
  BY <1>1, <1>2 DEF BeginCreate
<1>3. CASE BeginClaim(h)
  BY <1>1, <1>3 DEF BeginClaim
<1>4. CASE BeginAck(h)
  BY <1>1, <1>4 DEF BeginAck
<1>5. CASE BeginRelease(h)
  BY <1>1, <1>5 DEF BeginRelease
<1>6. CASE BeginCancel(h)
  BY <1>1, <1>6 DEF BeginCancel
<1> QED
  BY <1>2, <1>3, <1>4, <1>5, <1>6 DEF BeginSome

LEMMA NowStep ==
  ASSUME TypeOK, NowIsPast, [Next]_vars
  PROVE  NowIsPast'
<1> USE DEF NowIsPast, Done
<1> Janitor \in Thread /\ Handler \subseteq Thread
  BY DEF Thread
<1>1. CASE Tick
  <2>1. \A t \in Thread : call[t].op \notin {"idle", "reply"} => call[t].now \in Nat
    BY CallTypes DEF TypeOK, Request, Answer, Idle, Time
  <2> QED
    BY <1>1, <2>1 DEF Tick, TypeOK, Time
<1>2. ASSUME NEW h \in Handler, BeginSome(h)
      PROVE  NowIsPast'
  BY <1>2, BeginSomeCall DEF TypeOK, Time
<1>3. ASSUME NEW h \in Handler, Transact(h)
      PROVE  NowIsPast'
  BY <1>3, TransactCall DEF TypeOK
<1>4. CASE BeginExpire
  BY <1>4 DEF BeginExpire, Begin, TypeOK, Time
<1>5. CASE ExpireClaims
  BY <1>5 DEF ExpireClaims, Commit, Changes, TypeOK
<1>6. ASSUME NEW t \in Thread, Reply(t)
      PROVE  NowIsPast'
  BY <1>6 DEF Reply, Idle, TypeOK
<1>7. ASSUME NEW S \in SUBSET Stored, Archive(S)
      PROVE  NowIsPast'
  BY <1>7 DEF Archive
<1>8. CASE Restart
  BY <1>8 DEF Restart, Idle
<1>9. CASE UNCHANGED vars
  BY <1>9 DEF vars
<1> QED
  BY <1>1, <1>2, <1>3, <1>4, <1>5, <1>6, <1>7, <1>8, <1>9 DEF Next

-----------------------------------------------------------------------------
(* Lemmas about the rows.                                                  *)

\* Expiry touches claimed rows whose lease is over, and nothing else.
LEMMA CollectedRows ==
  ASSUME NEW t, NEW m \in Message
  PROVE  \/ Collected(t)[m] = delivery[m]
         \/ /\ Collected(t)[m] = Waiting
            /\ m \in Stored
            /\ delivery[m].state = "claimed"
            /\ delivery[m].expires < t
BY DEF Collected, Lapsed

\* No transaction but a claim hands out a claim; none but a send adds a row.
LEMMA TransactIssued ==
  ASSUME TypeOK, NEW h \in Handler, Transact(h)
  PROVE  \/ issued' = issued
         \/ call[h].op = "claim" /\ issued' = issued \cup {call[h].id}
BY DEF Transact, Repeat, PostMessage, Claim, Ack, Release, Cancel, Refuse, tables

LEMMA TransactSent ==
  ASSUME TypeOK, NEW h \in Handler, Transact(h)
  PROVE  \/ Sent' = Sent
         \/ call[h].op = "create" /\ Sent' = Sent \cup {call[h].id}
<1> DEFINE c == call[h]
<1> h \in Thread
  BY DEF Thread
<1>0. \A t : {m \in Message : Collected(t)[m].state # "unsent"} = Sent
  BY CollectedRows DEF Sent, Waiting
<1>1. CASE Repeat(h)
  BY <1>1 DEF Repeat, Sent
<1>2. CASE PostMessage(h)
  <2>1. c.id \in Message /\ c.op = "create"
    BY <1>2, CallTypes DEF PostMessage
  <2> QED
    BY <1>2, <2>1 DEF PostMessage, Sent, TypeOK, Waiting
<1>3. CASE Claim(h)
  <2>1. PICK B \in OldestOf(Claimable(c), c.limit) :
          delivery' = [m \in Message |->
            IF m \in B
            THEN [state |-> "claimed", claim |-> c.id, expires |-> c.now + c.lease]
            ELSE Collected(c.now)[m]]
    BY <1>3 DEF Claim
  <2>2. B \subseteq Sent
    BY <2>1 DEF OldestOf, Claimable, Stored
  <2>3. \A m \in Message : delivery'[m].state # "unsent" <=> m \in Sent
    BY <1>0, <2>1, <2>2
  <2> QED
    BY <2>3 DEF Sent
<1>4. ASSUME NEW m \in Stored, NEW row, row.state # "unsent",
             delivery' = [Collected(c.now) EXCEPT ![m] = row]
      PROVE  Sent' = Sent
  <2>1. \A n \in Message : delivery'[n].state # "unsent" <=> n \in Sent
    BY <1>0, <1>4, CollectedType DEF Stored
  <2> QED
    BY <2>1 DEF Sent
<1>5. CASE Ack(h)
  BY <1>4, <1>5 DEF Ack, AckAccepted
<1>6. CASE Release(h)
  BY <1>4, <1>6 DEF Release, ReleaseAccepted, Waiting
<1>7. CASE Cancel(h)
  BY <1>4, <1>7 DEF Cancel, CancelAccepted
<1>8. CASE Refuse(h)
  BY <1>8 DEF Refuse, tables, Sent
<1> QED
  BY <1>1, <1>2, <1>3, <1>5, <1>6, <1>7, <1>8 DEF Transact

LEMMA FreshStep ==
  ASSUME TypeOK, IdsFresh, [Next]_vars
  PROVE  IdsFresh'
<1> USE DEF IdsFresh, Done
<1> Janitor \in Thread /\ Handler \subseteq Thread
  BY DEF Thread
<1>1. CASE Tick
  BY <1>1 DEF Tick, tables, Sent
<1>2. ASSUME NEW h \in Handler, BeginSome(h)
      PROVE  IdsFresh'
  <2> DEFINE new == call'[h]
  <2>1. /\ Sent' = Sent /\ issued' = issued
        /\ \A u \in Thread \ {h} : call'[u] = call[u]
    BY <1>2, BeginSomeCall DEF Sent
  <2>2. \/ new.op \notin {"create", "claim"}
        \/ new.op = "create" /\ new.id \notin Sent /\ new.id \notin Generated
        \/ new.op = "claim" /\ new.id \notin issued /\ new.id \notin Generated
    BY <1>2 DEF BeginSome, BeginCreate, BeginClaim, BeginAck, BeginRelease, BeginCancel,
                Begin, TypeOK
  <2>3. \A u \in Thread : call[u].op \in {"create", "claim"} => call[u].id \in Generated
    BY DEF Generated
  <2> HIDE DEF new
  <2>4. \A u \in Thread \ {h} :
          call[u].op \in {"create", "claim"} /\ new.op \in {"create", "claim"}
          => call[u].id # new.id
    BY <2>2, <2>3
  <2>5. \A t \in Thread : /\ call'[t].op = "create" => call'[t].id \notin Sent
                          /\ call'[t].op = "claim" => call'[t].id \notin issued
    BY <2>1, <2>2 DEF new
  <2> QED
    BY <2>1, <2>4, <2>5 DEF new
<1>3. ASSUME NEW h \in Handler, Transact(h)
      PROVE  IdsFresh'
  BY <1>3, TransactCall, TransactSent, TransactIssued
<1>4. CASE BeginExpire
  BY <1>4 DEF BeginExpire, Begin, TypeOK, tables, Sent
<1>5. CASE ExpireClaims
  <2>1. Sent' = Sent
    BY <1>5, CollectedRows DEF ExpireClaims, Sent, Waiting
  <2> QED
    BY <1>5, <2>1 DEF ExpireClaims, Commit, Changes, TypeOK
<1>6. ASSUME NEW t \in Thread, Reply(t)
      PROVE  IdsFresh'
  BY <1>6 DEF Reply, Idle, TypeOK, tables, Sent
<1>7. ASSUME NEW S \in SUBSET Stored, Archive(S)
      PROVE  IdsFresh'
  BY <1>7 DEF Archive, Sent
<1>8. CASE Restart
  BY <1>8 DEF Restart, Idle, tables, Sent
<1>9. CASE UNCHANGED vars
  BY <1>9 DEF vars, tables, Sent
<1> QED
  BY <1>1, <1>2, <1>3, <1>4, <1>5, <1>6, <1>7, <1>8, <1>9 DEF Next

-----------------------------------------------------------------------------
(* Rows and ACKs.                                                          *)

LEMMA TransactRows ==
  ASSUME TypeOK, IdsFresh, RowsWellFormed, SettledOnce, NEW h \in Handler, Transact(h)
  PROVE  RowsWellFormed' /\ SettledOnce'
<1> DEFINE c == call[h]
<1> USE DEF RowsWellFormed, SettledOnce
<1>0. h \in Thread /\ Collected(c.now) \in [Message -> Delivery]
  BY CollectedType DEF Thread
<1>a. \A m \in Message :
        /\ Collected(c.now)[m].state \in {"unsent", "pending", "canceled"}
             => Collected(c.now)[m].claim = NoClaim
        /\ Collected(c.now)[m].state = "claimed" => Collected(c.now)[m].claim \in issued
        /\ m \in archived => Collected(c.now)[m] = delivery[m]
        /\ Collected(c.now)[m] # delivery[m] => delivery[m].state = "claimed"
  BY CollectedRows DEF Waiting, Stored
<1>b. \A p \in settled : p[1] \in Message /\ Collected(c.now)[p[1]] = delivery[p[1]]
  BY <1>a DEF TypeOK
<1>1. CASE Repeat(h)
  BY <1>1 DEF Repeat, Commit
<1>2. CASE PostMessage(h)
  <2>1. c.id \in Message /\ c.id \notin Sent
    BY <1>0, <1>2, CallTypes DEF PostMessage, IdsFresh
  <2>2. delivery[c.id].state = "unsent" /\ c.id \notin archived
    BY <2>1 DEF Sent, Terminal
  <2>3. \A p \in settled : p[1] # c.id
    BY <2>2
  <2>4. /\ delivery' = [delivery EXCEPT ![c.id] = Waiting]
        /\ UNCHANGED <<archived, issued, settled>>
    BY <1>2 DEF PostMessage, Commit
  <2> QED
    BY <2>1, <2>2, <2>3, <2>4 DEF TypeOK, Waiting
<1>3. CASE Claim(h)
  <2>1. PICK B \in OldestOf(Claimable(c), c.limit) :
          /\ delivery' = [m \in Message |->
               IF m \in B
               THEN [state |-> "claimed", claim |-> c.id, expires |-> c.now + c.lease]
               ELSE Collected(c.now)[m]]
          /\ issued' = IF B = {} THEN issued ELSE issued \cup {c.id}
    BY <1>3 DEF Claim
  <2>2. \A m \in B : /\ m \in Message /\ m \notin archived
                     /\ Collected(c.now)[m].state = "pending"
    BY <2>1 DEF OldestOf, Claimable, Stored, Sent
  <2>3. UNCHANGED <<archived, settled>>
    BY <1>3 DEF Claim, Commit, history
  <2>4. \A p \in settled : p[1] \notin B
    BY <1>b, <2>2
  <2> HIDE DEF c
  <2>5. RowsWellFormed'
    BY <1>a, <2>1, <2>2, <2>3
  <2>6. SettledOnce'
    BY <1>b, <2>1, <2>3, <2>4
  <2> QED
    BY <2>5, <2>6
<1>4. CASE Ack(h)
  <2> DEFINE row == Collected(c.now)[c.message]
  <2>1. /\ c.message \in Message /\ c.message \notin archived
        /\ row.claim = c.claim /\ row.state # "canceled"
        /\ delivery' = [Collected(c.now) EXCEPT ![c.message] =
                          [state |-> "acked", claim |-> row.claim, expires |-> 0]]
        /\ settled' = settled \cup {<<c.message, c.claim>>}
        /\ UNCHANGED <<archived, issued>>
    BY <1>4 DEF Ack, AckAccepted, Commit, Stored, Sent
  <2>2. RowsWellFormed'
    BY <1>0, <1>a, <2>1 DEF Terminal
  <2>3. \A p \in settled' : /\ delivery'[p[1]].state = "acked"
                            /\ delivery'[p[1]].claim = p[2]
    BY <1>0, <1>b, <2>1
  <2> QED
    BY <2>2, <2>3
<1>5. CASE Release(h)
  <2>1. /\ c.message \in Message /\ c.message \notin archived
        /\ Collected(c.now)[c.message].state = "claimed"
        /\ delivery' = [Collected(c.now) EXCEPT ![c.message] = Waiting]
        /\ UNCHANGED <<archived, issued, settled>>
    BY <1>5 DEF Release, ReleaseAccepted, Commit, Stored, Sent, history
  <2>2. RowsWellFormed'
    BY <1>0, <1>a, <2>1 DEF Waiting
  <2>3. SettledOnce'
    BY <1>0, <1>b, <2>1
  <2> QED
    BY <2>2, <2>3
<1>6. CASE Cancel(h)
  <2>1. /\ c.message \in Message /\ c.message \notin archived
        /\ Collected(c.now)[c.message].state = "pending"
        /\ delivery' = [Collected(c.now) EXCEPT ![c.message] =
                          [state |-> "canceled", claim |-> NoClaim, expires |-> 0]]
        /\ UNCHANGED <<archived, issued, settled>>
    BY <1>6 DEF Cancel, CancelAccepted, Commit, Stored, Sent, history
  <2>2. RowsWellFormed'
    BY <1>0, <1>a, <2>1
  <2>3. SettledOnce'
    BY <1>0, <1>b, <2>1
  <2> QED
    BY <2>2, <2>3
<1>7. CASE Refuse(h)
  BY <1>7 DEF Refuse, tables, history
<1> QED
  BY <1>1, <1>2, <1>3, <1>4, <1>5, <1>6, <1>7 DEF Transact

LEMMA RowStep ==
  ASSUME TypeOK, IdsFresh, RowsWellFormed, SettledOnce, [Next]_vars
  PROVE  RowsWellFormed' /\ SettledOnce'
<1> USE DEF RowsWellFormed, SettledOnce
<1>1. CASE Tick
  BY <1>1 DEF Tick, tables, history
<1>2. ASSUME NEW h \in Handler, BeginSome(h)
      PROVE  RowsWellFormed' /\ SettledOnce'
  BY <1>2, BeginSomeCall
<1>3. ASSUME NEW h \in Handler, Transact(h)
      PROVE  RowsWellFormed' /\ SettledOnce'
  BY <1>3, TransactRows
<1>4. CASE BeginExpire
  BY <1>4 DEF BeginExpire, Begin, tables, history
<1>5. CASE ExpireClaims
  <2> DEFINE t == call[Janitor].now
  <2>1. \A m \in Message :
          \/ Collected(t)[m] = delivery[m]
          \/ delivery[m].state = "claimed" /\ m \notin archived /\ Collected(t)[m] = Waiting
    BY CollectedRows DEF Stored
  <2>2. delivery' = Collected(t) /\ UNCHANGED <<archived, issued, settled>>
    BY <1>5 DEF ExpireClaims, Commit, history
  <2> HIDE DEF t
  <2>3. RowsWellFormed'
    BY <2>1, <2>2 DEF Waiting
  <2>4. SettledOnce'
    BY <2>1, <2>2 DEF TypeOK
  <2> QED
    BY <2>3, <2>4
<1>6. ASSUME NEW t \in Thread, Reply(t)
      PROVE  RowsWellFormed' /\ SettledOnce'
  BY <1>6 DEF Reply, tables, history
<1>7. ASSUME NEW S \in SUBSET Stored, Archive(S)
      PROVE  RowsWellFormed' /\ SettledOnce'
  BY <1>7 DEF Archive, history
<1>8. CASE Restart
  BY <1>8 DEF Restart, tables, history
<1>9. CASE UNCHANGED vars
  BY <1>9 DEF vars, tables, history
<1> QED
  BY <1>1, <1>2, <1>3, <1>4, <1>5, <1>6, <1>7, <1>8, <1>9 DEF Next

-----------------------------------------------------------------------------
(* Request keys and the answers given for them.                            *)

\* Most steps leave what keys are about alone.
LEMMA KeysUntouched ==
  ASSUME KeysAgree, AnswersStand, Sent' = Sent,
         UNCHANGED <<letter, archived, requestKey, answered>>
  PROVE  KeysAgree' /\ AnswersStand'
BY DEF KeysAgree, AnswersStand, KeyUsed

LEMMA KeyType ==
  ASSUME TypeOK, NEW m \in Message
  PROVE  letter[m].key \in RequestKey \cup {NoKey}
<1>1. letter[m] \in Letter \/ letter[m] = NoLetter
  BY DEF TypeOK
<1> QED
  BY <1>1 DEF Letter, NoLetter

\* A key that some message was sent with is in use.
LEMMA SentKeyUsed ==
  ASSUME KeysAgree, NEW m \in Sent, letter[m].key # NoKey
  PROVE  KeyUsed(letter[m].key)
<1> DEFINE k == letter[m].key
<1>1. requestKey[k] = [state |-> IF m \in archived THEN "archived" ELSE "live", message |-> m,
                       recipient |-> letter[m].recipient, body |-> letter[m].body]
  BY DEF KeysAgree
<1> HIDE DEF k
<1>2. requestKey[k].state # "unused"
  BY <1>1
<1> QED
  BY <1>2 DEF KeyUsed, k

LEMMA TransactKeys ==
  ASSUME TypeOK, IdsFresh, RowsWellFormed, KeysAgree, AnswersStand,
         NEW h \in Handler, Transact(h)
  PROVE  KeysAgree' /\ AnswersStand'
<1> DEFINE c == call[h]
<1> h \in Thread
  BY DEF Thread
<1>1. CASE Repeat(h)
  <2>1. UNCHANGED <<letter, delivery, archived, requestKey>>
    BY <1>1 DEF Repeat, Commit
  <2>2. KeysAgree'
    BY <2>1 DEF KeysAgree, Sent, KeyUsed
  <2>3. AnswersStand'
    BY <1>1, <2>1 DEF Repeat, AnswersStand, KeyAnswered, KeyUsed
  <2> QED
    BY <2>2, <2>3
<1>2. CASE PostMessage(h)
  <2>1. /\ c.op = "create" /\ c.id \in Message /\ c.key \in RequestKey \cup {NoKey}
        /\ c.id \notin Sent
    BY <1>2, CallTypes DEF PostMessage, IdsFresh
  <2>2. Sent' = Sent \cup {c.id} /\ c.id \notin archived
    BY <1>2, <2>1, TransactSent, TransactCall DEF RowsWellFormed, Sent, PostMessage, TypeOK,
       Waiting, Terminal
  <2>3. c.key \in RequestKey => ~KeyUsed(c.key)
    BY <1>2 DEF PostMessage, KeyAnswered
  <2>4. /\ letter' = [letter EXCEPT ![c.id] =
             [recipient |-> c.recipient, body |-> c.body, key |-> c.key, sentAt |-> c.now]]
        /\ requestKey' = [k \in RequestKey |->
             IF k = c.key
             THEN [state |-> "live", message |-> c.id, recipient |-> c.recipient, body |-> c.body]
             ELSE requestKey[k]]
        /\ answered' = IF c.key = NoKey THEN answered ELSE answered \cup {<<c.key, c.id>>}
        /\ archived' = archived
    BY <1>2 DEF PostMessage, Commit
  <2>5. \A m \in Sent : /\ letter'[m] = letter[m]
                        /\ letter[m].key # NoKey => letter[m].key # c.key
    <3>1. \A m \in Sent : letter'[m] = letter[m]
      BY <2>1, <2>4 DEF TypeOK, Sent
    <3>2. \A m \in Sent : letter[m].key # NoKey => letter[m].key \in RequestKey /\ KeyUsed(letter[m].key)
      BY KeyType, SentKeyUsed DEF Sent
    <3> QED
      BY <2>3, <3>1, <3>2
  <2>6. letter'[c.id] = [recipient |-> c.recipient, body |-> c.body, key |-> c.key,
                         sentAt |-> c.now]
    BY <2>1, <2>4 DEF TypeOK
  <2>7. \A m \in Sent : letter[m].key # NoKey => letter[m].key \in RequestKey
    BY KeyType DEF Sent
  <2> HIDE DEF c
  <2>8. \A m \in Sent' : letter'[m].key # NoKey =>
          requestKey'[letter'[m].key] =
            [state |-> IF m \in archived' THEN "archived" ELSE "live", message |-> m,
             recipient |-> letter'[m].recipient, body |-> letter'[m].body]
    <3>1. ASSUME NEW m \in Sent, letter[m].key # NoKey
          PROVE  requestKey'[letter[m].key] = requestKey[letter[m].key]
      BY <2>4, <2>5, <2>7, <3>1
    <3> QED
      BY <2>1, <2>2, <2>4, <2>5, <2>6, <3>1 DEF KeysAgree
  <2>9. \A k \in RequestKey : KeyUsed(k)' =>
          /\ requestKey'[k].message \in Sent'
          /\ letter'[requestKey'[k].message].key = k
    BY <2>1, <2>2, <2>4, <2>5, <2>6 DEF KeysAgree, KeyUsed
  <2>10. KeysAgree'
    BY <2>8, <2>9 DEF KeysAgree
  <2>11. AnswersStand'
    BY <2>1, <2>3, <2>4 DEF AnswersStand, KeyUsed, TypeOK
  <2> QED
    BY <2>10, <2>11
<1>3. CASE ~Repeat(h) /\ ~PostMessage(h)
  <2>1. UNCHANGED <<letter, archived, requestKey, answered>>
    BY <1>3 DEF Transact, Claim, Ack, Release, Cancel, Refuse, Commit, tables, history
  <2>2. Sent' = Sent
    <3>1. CASE call[h].op # "create"
      BY <3>1, TransactSent
    <3>2. CASE call[h].op = "create"
      BY <1>3, <3>2 DEF Transact, Claim, Ack, Release, Cancel, Refuse, tables, Sent
    <3> QED
      BY <3>1, <3>2
  <2> QED
    BY <2>1, <2>2, KeysUntouched
<1> QED
  BY <1>1, <1>2, <1>3

LEMMA KeyStep ==
  ASSUME TypeOK, IdsFresh, RowsWellFormed, KeysAgree, AnswersStand, [Next]_vars
  PROVE  KeysAgree' /\ AnswersStand'
<1>1. CASE Tick
  BY <1>1, KeysUntouched DEF Tick, tables, history, Sent
<1>2. ASSUME NEW h \in Handler, BeginSome(h)
      PROVE  KeysAgree' /\ AnswersStand'
  BY <1>2, BeginSomeCall, KeysUntouched DEF Sent
<1>3. ASSUME NEW h \in Handler, Transact(h)
      PROVE  KeysAgree' /\ AnswersStand'
  BY <1>3, TransactKeys
<1>4. CASE BeginExpire
  BY <1>4, KeysUntouched DEF BeginExpire, Begin, tables, history, Sent
<1>5. CASE ExpireClaims
  <2>1. Sent' = Sent
    BY <1>5, CollectedRows DEF ExpireClaims, Sent, Waiting
  <2> QED
    BY <1>5, <2>1, KeysUntouched DEF ExpireClaims, Commit, history
<1>6. ASSUME NEW t \in Thread, Reply(t)
      PROVE  KeysAgree' /\ AnswersStand'
  BY <1>6, KeysUntouched DEF Reply, tables, history, Sent
<1>7. ASSUME NEW S \in SUBSET Stored, Archive(S)
      PROVE  KeysAgree' /\ AnswersStand'
  <2>1. /\ archived' = archived \cup S
        /\ requestKey' = [k \in RequestKey |->
             IF KeyUsed(k) /\ requestKey[k].message \in S
             THEN [requestKey[k] EXCEPT !.state = "archived"]
             ELSE requestKey[k]]
        /\ UNCHANGED <<letter, delivery, answered>>
    BY <1>7 DEF Archive, history
  <2>2. Sent' = Sent
    BY <2>1 DEF Sent
  <2>3. \A k \in RequestKey :
          /\ KeyUsed(k)' <=> KeyUsed(k)
          /\ KeyUsed(k) => /\ requestKey[k] \in KeyRow
                           /\ requestKey'[k] \in KeyRow
                           /\ requestKey'[k].message = requestKey[k].message
                           /\ requestKey'[k].recipient = requestKey[k].recipient
                           /\ requestKey'[k].body = requestKey[k].body
                           /\ requestKey'[k].state =
                                IF requestKey[k].message \in S THEN "archived"
                                ELSE requestKey[k].state
    BY <2>1 DEF TypeOK, KeyUsed, KeyRow, NoKeyRow
  <2>4. \A m \in Sent : letter[m].key # NoKey => letter[m].key \in RequestKey
    BY KeyType DEF Sent
  <2>5. ASSUME NEW m \in Sent, letter[m].key # NoKey
        PROVE  requestKey'[letter[m].key] =
                 [state |-> IF m \in archived' THEN "archived" ELSE "live", message |-> m,
                  recipient |-> letter[m].recipient, body |-> letter[m].body]
    <3> DEFINE k == letter[m].key
    <3>1. /\ k \in RequestKey
          /\ requestKey[k] = [state |-> IF m \in archived THEN "archived" ELSE "live",
                              message |-> m, recipient |-> letter[m].recipient,
                              body |-> letter[m].body]
      BY <2>4, <2>5 DEF KeysAgree
    <3>2. KeyUsed(k)
      BY <3>1 DEF KeyUsed
    <3> QED
      BY <2>1, <3>1, <3>2
  <2>6. KeysAgree'
    <3>1. \A m \in Sent' : letter'[m].key # NoKey =>
            requestKey'[letter'[m].key] =
              [state |-> IF m \in archived' THEN "archived" ELSE "live", message |-> m,
               recipient |-> letter'[m].recipient, body |-> letter'[m].body]
      BY <2>1, <2>2, <2>5
    <3>2. \A k \in RequestKey : KeyUsed(k)' =>
            /\ requestKey'[k].message \in Sent'
            /\ letter'[requestKey'[k].message].key = k
      <4>1. \A k \in RequestKey : KeyUsed(k) => /\ requestKey[k].message \in Sent
                                                /\ letter[requestKey[k].message].key = k
        BY DEF KeysAgree
      <4>2. letter' = letter
        BY <2>1
      <4> QED
        BY <2>2, <2>3, <4>1, <4>2
    <3> QED
      BY <3>1, <3>2 DEF KeysAgree
  <2>7. AnswersStand'
    BY <2>1, <2>3 DEF AnswersStand, TypeOK
  <2> QED
    BY <2>6, <2>7
<1>8. CASE Restart
  BY <1>8, KeysUntouched DEF Restart, tables, history, Sent
<1>9. CASE UNCHANGED vars
  BY <1>9, KeysUntouched DEF vars, tables, history, Sent
<1> QED
  BY <1>1, <1>2, <1>3, <1>4, <1>5, <1>6, <1>7, <1>8, <1>9 DEF Next

-----------------------------------------------------------------------------
LEMMA InitIInv == Init => IInv
<1> SUFFICES ASSUME Init PROVE IInv
  OBVIOUS
<1>1. TypeOK
  BY InitType
<1>2. IdsFresh /\ NowIsPast
  BY DEF Init, IdsFresh, NowIsPast, Idle
<1>3. RowsWellFormed /\ SettledOnce
  BY DEF Init, RowsWellFormed, SettledOnce, Unsent
<1>4. KeysAgree /\ AnswersStand
  BY DEF Init, KeysAgree, AnswersStand, Sent, Unsent, KeyUsed, NoKeyRow
<1> QED
  BY <1>1, <1>2, <1>3, <1>4 DEF IInv

LEMMA NextIInv == IInv /\ [Next]_vars => IInv'
BY NextType, FreshStep, NowStep, RowStep, KeyStep DEF IInv

(* The inductive invariant holds in every reachable state.                 *)
THEOREM Invariance == Spec => []IInv
BY InitIInv, NextIInv, PTL DEF Spec

(* A message is acknowledged under one claim only, for good: the property  *)
(* SettledOnce of the runs, for any number of holders and late calls.      *)
THEOREM SettledOnceHolds == Spec => []SettledOnce
<1>1. IInv => SettledOnce
  BY DEF IInv
<1> QED
  BY <1>1, Invariance, PTL

(* A request key and the message it made agree as long as the message      *)
(* exists, and the key outlives it: no key makes two messages.             *)
THEOREM KeysAgreeHolds == Spec => []KeysAgree
<1>1. IInv => KeysAgree
  BY DEF IInv
<1> QED
  BY <1>1, Invariance, PTL

(* All accepted sends with one key are answered with one message id.       *)
THEOREM AnsweredOnceHolds == Spec => []AnsweredOnce
<1>1. IInv => AnsweredOnce
  BY DEF IInv, AnswersStand, AnsweredOnce
<1> QED
  BY <1>1, Invariance, PTL

-----------------------------------------------------------------------------
(* A running lease belongs to its claim.                                   *)

LEMMA LeaseStep ==
  ASSUME IInv, [Next]_vars, NEW m \in Message,
         delivery[m].state = "claimed",
         clock <= delivery[m].expires,
         delivery'[m] # delivery[m]
  PROVE  \E h \in Handler : /\ call[h].op \in {"ack", "release"}
                            /\ call[h].message = m
                            /\ call[h].claim = delivery[m].claim
                            /\ call'[h] # call[h]
<1> USE DEF IInv
<1> Janitor \in Thread /\ Handler \subseteq Thread
  BY DEF Thread
<1>0. clock \in Nat /\ delivery[m].expires \in Nat
  BY DEF TypeOK, Delivery, Time
<1>a. ASSUME NEW t \in Nat, t <= clock
      PROVE  Collected(t)[m] = delivery[m]
  BY <1>0, <1>a, CollectedRows
<1>1. ASSUME NEW h \in Handler, Transact(h)
      PROVE  \E u \in Handler : /\ call[u].op \in {"ack", "release"}
                                /\ call[u].message = m
                                /\ call[u].claim = delivery[m].claim
                                /\ call'[u] # call[u]
  <2> DEFINE c == call[h]
  <2>1. c.op \notin {"idle", "reply"} /\ call'[h].op \in {"idle", "reply"}
    BY <1>1, TransactCall DEF Done
  <2>2. c.now \in Nat /\ c.now <= clock
    BY <2>1, CallTypes DEF NowIsPast, TypeOK, Request, Answer, Idle, Time
  <2>3. Collected(c.now)[m] = delivery[m] /\ Collected(c.now) \in [Message -> Delivery]
    BY <1>a, <2>2, CollectedType
  <2>4. call'[h] # call[h]
    BY <2>1
  <2>5. CASE Repeat(h) \/ Refuse(h)
    BY <2>5 DEF Repeat, Refuse, tables
  <2>6. CASE PostMessage(h)
    <3>1. c.id \notin Sent /\ delivery' = [delivery EXCEPT ![c.id] = Waiting]
      BY <2>6 DEF PostMessage, IdsFresh
    <3>2. c.id # m
      BY <3>1 DEF Sent
    <3> QED
      BY <3>1, <3>2 DEF TypeOK
  <2>7. CASE Claim(h)
    <3>1. PICK B \in OldestOf(Claimable(c), c.limit) :
            delivery' = [n \in Message |->
               IF n \in B
               THEN [state |-> "claimed", claim |-> c.id, expires |-> c.now + c.lease]
               ELSE Collected(c.now)[n]]
      BY <2>7 DEF Claim
    <3>2. m \notin B
      BY <2>3, <3>1 DEF OldestOf, Claimable
    <3> QED
      BY <2>3, <3>1, <3>2
  <2>8. CASE Ack(h)
    <3>1. c.message = m
      BY <2>3, <2>8 DEF Ack
    <3>2. c.claim = delivery[m].claim
      BY <2>3, <2>8, <3>1 DEF Ack, AckAccepted
    <3> QED
      BY <2>4, <2>8, <3>1, <3>2 DEF Ack
  <2>9. CASE Release(h)
    <3>1. c.message = m
      BY <2>3, <2>9 DEF Release
    <3>2. c.claim = delivery[m].claim
      BY <2>3, <2>9, <3>1 DEF Release, ReleaseAccepted
    <3> QED
      BY <2>4, <2>9, <3>1, <3>2 DEF Release
  <2>10. CASE Cancel(h)
    <3>1. c.message # m
      BY <2>3, <2>10 DEF Cancel, CancelAccepted
    <3> QED
      BY <2>3, <2>10, <3>1 DEF Cancel
  <2> QED
    BY <1>1, <2>5, <2>6, <2>7, <2>8, <2>9, <2>10 DEF Transact
<1>2. ~ExpireClaims
  <2>1. call[Janitor].op = "expire" => call[Janitor].now \in Nat /\ call[Janitor].now <= clock
    BY DEF NowIsPast, TypeOK, Request, Answer, Idle, Time
  <2> QED
    BY <1>a, <2>1 DEF ExpireClaims
<1>3. \A h \in Handler : ~BeginSome(h)
  BY BeginSomeCall
<1>4. /\ ~Tick /\ ~BeginExpire /\ ~Restart /\ ~UNCHANGED vars
      /\ \A t \in Thread : ~Reply(t)
      /\ \A S \in SUBSET Stored : ~Archive(S)
  BY DEF Tick, BeginExpire, Begin, Restart, Reply, Archive, vars, tables
<1> QED
  BY <1>1, <1>2, <1>3, <1>4 DEF Next

(* While a lease runs only its own claim changes the row, however old the  *)
(* `now` of the other calls: the action property of the runs.              *)
THEOREM LeaseExclusiveHolds == Spec => LeaseExclusive
<1> DEFINE Step == \A m \in Message :
       /\ delivery[m].state = "claimed"
       /\ clock <= delivery[m].expires
       /\ delivery'[m] # delivery[m]
       => \E h \in Handler :
            /\ call[h].op \in {"ack", "release"}
            /\ call[h].message = m
            /\ call[h].claim = delivery[m].claim
            /\ call'[h] # call[h]
<1>1. IInv /\ [Next]_vars => [Step]_vars
  BY LeaseStep
<1> QED
  BY <1>1, Invariance, PTL DEF Spec, LeaseExclusive

-----------------------------------------------------------------------------
(* The store implements the mailbox.                                       *)

\* The mailbox's view of a table of rows.
StatusOf(rows) == [m \in Message |-> Standing[rows[m].state]]
HolderOf(rows) ==
  [m \in Message |-> IF rows[m].state = "claimed" THEN rows[m].claim ELSE NoClaim]

\* Expiry is the lapse of the leases it finds.
LEMMA LapsedView ==
  ASSUME TypeOK, NEW t
  PROVE  /\ Lapsed(t) \in SUBSET mailbox!Leased
         /\ mailbox!StatusAfter(Lapsed(t)) = StatusOf(Collected(t))
         /\ mailbox!HolderAfter(Lapsed(t)) = HolderOf(Collected(t))
<1>1. Lapsed(t) \in SUBSET mailbox!Leased
  BY DEF Lapsed, Stored, Sent, mailbox!Leased, Standing
<1>2. mailbox!StatusAfter(Lapsed(t)) = StatusOf(Collected(t))
  BY DEF mailbox!StatusAfter, StatusOf, Collected, Waiting, Standing
<1>3. mailbox!HolderAfter(Lapsed(t)) = HolderOf(Collected(t))
  BY DEF mailbox!HolderAfter, HolderOf, Collected, Waiting
<1> QED
  BY <1>1, <1>2, <1>3

LEMMA MailboxStutter ==
  ASSUME UNCHANGED <<delivery, issued>>
  PROVE  UNCHANGED mailbox!mailboxVars
BY DEF mailbox!mailboxVars

\* Each kind of step of the mailbox.
LEMMA MailboxActions ==
  /\ \A m \in Message : mailbox!Post(m) => mailbox!Next
  /\ \A S \in SUBSET mailbox!Leased :
       /\ mailbox!Lapse(S) => mailbox!Next
       /\ \A G \in SUBSET Message, c \in ClaimId : mailbox!Grant(S, G, c) => mailbox!Next
       /\ \A m \in Message, c \in ClaimId \cup {NoClaim} :
            mailbox!Settle(S, m, c) \/ mailbox!GiveBack(S, m, c) => mailbox!Next
       /\ \A m \in Message : mailbox!Withdraw(S, m) => mailbox!Next
BY Zenon DEF mailbox!Next

LEMMA TransactMailbox ==
  ASSUME IInv, NEW h \in Handler, Transact(h)
  PROVE  mailbox!Next \/ UNCHANGED <<delivery, issued>>
<1> DEFINE c == call[h]
           L == Lapsed(c.now)
           rows == Collected(c.now)
<1> USE DEF IInv
<1> h \in Thread
  BY DEF Thread
<1>s. PICK S \in SUBSET mailbox!Leased : S = L
  BY LapsedView
<1>0. /\ mailbox!StatusAfter(S) = StatusOf(rows)
      /\ mailbox!HolderAfter(S) = HolderOf(rows)
  BY <1>s, LapsedView
<1>a. rows \in [Message -> Delivery] /\ delivery \in [Message -> Delivery]
  BY CollectedType DEF TypeOK
<1>b. \A m \in Message : rows[m].state = "pending" => rows[m].claim = NoClaim
  BY CollectedRows DEF RowsWellFormed, Waiting
<1>1. CASE Repeat(h) \/ Refuse(h)
  BY <1>1 DEF Repeat, Refuse, tables
<1>2. CASE PostMessage(h)
  <2>1. /\ c.id \in Message /\ c.id \notin Sent
        /\ delivery' = [delivery EXCEPT ![c.id] = Waiting]
        /\ issued' = issued
    BY <1>2, CallTypes DEF PostMessage, IdsFresh
  <2> PICK m \in Message : m = c.id
    BY <2>1
  <2>2. mailbox!Post(m)
    BY <1>a, <2>1 DEF mailbox!Post, Sent, Standing, Waiting
  <2> QED
    BY <2>2, MailboxActions
<1>3. CASE Claim(h)
  <2>1. PICK B \in OldestOf(Claimable(c), c.limit) :
          /\ delivery' = [m \in Message |->
               IF m \in B
               THEN [state |-> "claimed", claim |-> c.id, expires |-> c.now + c.lease]
               ELSE rows[m]]
          /\ issued' = IF B = {} THEN issued ELSE issued \cup {c.id}
    BY <1>3 DEF Claim
  <2>2. /\ B \subseteq Message
        /\ \A m \in B : rows[m].state = "pending"
    BY <2>1 DEF OldestOf, Claimable, Stored, Sent
  <2>3. c.id \in ClaimId /\ c.id \notin issued
    BY <1>3, CallTypes DEF Claim, IdsFresh
  <2>4. CASE B = {}
    <3>1. delivery' = [m \in Message |-> rows[m]] /\ issued' = issued
      BY <2>1, <2>4
    <3>2. mailbox!Lapse(S)
      BY <1>0, <1>a, <3>1 DEF mailbox!Lapse, StatusOf, HolderOf
    <3> QED
      BY <3>2, MailboxActions
  <2>5. CASE B # {}
    <3> PICK G \in SUBSET Message, k \in ClaimId : G = B /\ k = c.id
      BY <2>2, <2>3
    <3> HIDE DEF rows, L
    <3>1. mailbox!Grant(S, G, k)
      BY <1>0, <1>a, <2>1, <2>2, <2>3, <2>5
         DEF mailbox!Grant, StatusOf, HolderOf, Standing
    <3> QED
      BY <3>1, MailboxActions
  <2> QED
    BY <2>4, <2>5
<1>4. CASE Ack(h)
  <2> DEFINE row == rows[c.message]
  <2>1. /\ c.message \in Message /\ c.message \in Sent
        /\ c.claim \in ClaimId \cup {NoClaim}
        /\ row.claim = c.claim
        /\ row.state # "canceled"
        /\ delivery' = [rows EXCEPT ![c.message] =
                          [state |-> "acked", claim |-> row.claim, expires |-> 0]]
        /\ issued' = issued
    BY <1>4, CallTypes DEF Ack, AckAccepted, Stored, Sent
  <2>2. row.state \in {"pending", "claimed", "acked"}
    <3>1. row.state # "unsent"
      BY <2>1, CollectedRows DEF Sent, Waiting
    <3> QED
      BY <1>a, <2>1, <3>1 DEF Delivery, State
  <2>3. CASE row.state = "acked"
    <3> HIDE DEF rows, L
    <3>1. StatusOf(delivery') = StatusOf(rows) /\ HolderOf(delivery') = HolderOf(rows)
      BY <1>a, <2>1, <2>3 DEF StatusOf, HolderOf
    <3>2. mailbox!Lapse(S)
      BY <1>0, <2>1, <3>1 DEF mailbox!Lapse, StatusOf, HolderOf
    <3> QED
      BY <3>2, MailboxActions
  <2>4. CASE row.state \in {"pending", "claimed"}
    <3>1. row.state = "claimed" => c.message \notin L
      BY <2>1 DEF Collected, Waiting
    <3>2. row.state = "claimed" => /\ delivery[c.message].state = "claimed"
                                  /\ delivery[c.message].claim = c.claim
      BY <2>1, <3>1 DEF Collected
    <3> PICK m \in Message, k \in ClaimId \cup {NoClaim} : m = c.message /\ k = c.claim
      BY <2>1
    <3> HIDE DEF rows, L
    <3>a. \/ StatusOf(rows)[m] = "leased" /\ HolderOf(delivery)[m] = k
          \/ StatusOf(rows)[m] = "waiting" /\ k = NoClaim
      BY <1>b, <2>1, <2>4, <3>2 DEF StatusOf, HolderOf, Standing
    <3>b. StatusOf(delivery') = [StatusOf(rows) EXCEPT ![m] = "settled"]
      BY <1>a, <2>1 DEF StatusOf, Standing
    <3>c. HolderOf(delivery') = [HolderOf(rows) EXCEPT ![m] = NoClaim]
      BY <1>a, <2>1 DEF HolderOf
    <3>3. mailbox!Settle(S, m, k)
      BY <1>0, <2>1, <3>a, <3>b, <3>c DEF mailbox!Settle, StatusOf, HolderOf
    <3> QED
      BY <3>3, MailboxActions
  <2> QED
    BY <2>2, <2>3, <2>4
<1>5. CASE Release(h)
  <2>1. /\ c.message \in Message /\ c.claim \in ClaimId \cup {NoClaim}
        /\ rows[c.message].state = "claimed"
        /\ rows[c.message].claim = c.claim
        /\ delivery' = [rows EXCEPT ![c.message] = Waiting]
        /\ issued' = issued
    BY <1>5, CallTypes DEF Release, ReleaseAccepted, Stored, Sent
  <2>2. delivery[c.message] = rows[c.message] /\ c.message \notin L
    <3>1. delivery[c.message] = rows[c.message]
      BY <2>1, CollectedRows DEF Waiting
    <3>2. c.message \notin L
      BY <2>1 DEF Collected, Waiting
    <3> QED
      BY <3>1, <3>2
  <2> PICK m \in Message, k \in ClaimId \cup {NoClaim} : m = c.message /\ k = c.claim
    BY <2>1
  <2> HIDE DEF rows, L
  <2>a. StatusOf(rows)[m] = "leased" /\ HolderOf(delivery)[m] = k
    BY <2>1, <2>2 DEF StatusOf, HolderOf, Standing
  <2>b. StatusOf(delivery') = [StatusOf(rows) EXCEPT ![m] = "waiting"]
    BY <1>a, <2>1 DEF StatusOf, Standing, Waiting
  <2>c. HolderOf(delivery') = [HolderOf(rows) EXCEPT ![m] = NoClaim]
    BY <1>a, <2>1 DEF HolderOf, Waiting
  <2>3. mailbox!GiveBack(S, m, k)
    BY <1>0, <2>1, <2>a, <2>b, <2>c DEF mailbox!GiveBack, StatusOf, HolderOf
  <2> QED
    BY <2>3, MailboxActions
<1>6. CASE Cancel(h)
  <2>1. /\ c.message \in Message
        /\ rows[c.message].state = "pending"
        /\ delivery' = [rows EXCEPT ![c.message] =
                          [state |-> "canceled", claim |-> NoClaim, expires |-> 0]]
        /\ issued' = issued
    BY <1>6 DEF Cancel, CancelAccepted, Stored, Sent
  <2> PICK m \in Message : m = c.message
    BY <2>1
  <2> HIDE DEF rows, L
  <2>2. mailbox!Withdraw(S, m)
    BY <1>0, <1>a, <2>1 DEF mailbox!Withdraw, StatusOf, HolderOf, Standing
  <2> QED
    BY <2>2, MailboxActions
<1> QED
  BY <1>1, <1>2, <1>3, <1>4, <1>5, <1>6 DEF Transact

LEMMA MailboxStep ==
  ASSUME IInv, [Next]_vars
  PROVE  mailbox!Next \/ UNCHANGED <<delivery, issued>>
<1>1. CASE ExpireClaims
  <2> DEFINE t == call[Janitor].now
  <2>1. delivery' = Collected(t) /\ issued' = issued
    BY <1>1 DEF ExpireClaims
  <2> PICK S \in SUBSET mailbox!Leased : S = Lapsed(t)
    BY LapsedView DEF IInv
  <2>2. mailbox!Lapse(S)
    BY <2>1, LapsedView DEF IInv, mailbox!Lapse, StatusOf, HolderOf
  <2> QED
    BY <2>2, MailboxActions
<1>2. ASSUME NEW h \in Handler, BeginSome(h)
      PROVE  UNCHANGED <<delivery, issued>>
  BY <1>2, BeginSomeCall DEF IInv
<1>3. ASSUME NEW h \in Handler, Transact(h)
      PROVE  mailbox!Next \/ UNCHANGED <<delivery, issued>>
  BY <1>3, TransactMailbox
<1>4. CASE \/ Tick \/ BeginExpire \/ Restart \/ UNCHANGED vars
           \/ \E t \in Thread : Reply(t)
           \/ \E S \in SUBSET Stored : Archive(S)
  BY <1>4 DEF Tick, BeginExpire, Begin, Restart, Reply, Archive, vars, tables
<1> QED
  BY <1>1, <1>2, <1>3, <1>4 DEF Next

(* The tables, with their threads, old clock readings, archiving and       *)
(* restarts, are a mailbox: claims are exclusive and never granted twice,  *)
(* and settled or withdrawn messages stay so.                              *)
THEOREM MailboxImplemented == Spec => ImplementsMailbox
<1>1. Init => mailbox!Init
  BY DEF Init, mailbox!Init, Unsent, Standing
<1>2. IInv /\ [Next]_vars => [mailbox!Next]_(mailbox!mailboxVars)
  BY MailboxStep, MailboxStutter
<1> QED
  BY <1>1, <1>2, Invariance, PTL DEF Spec, ImplementsMailbox, mailbox!Spec

-----------------------------------------------------------------------------
(* The gauges.                                                             *)

Positive(i) == IF i > 0 THEN i ELSE 0
Negated(f) == [t \in Thread |-> -f[t]]
Finite(f) == IsFiniteSet(Units(f)) /\ IsFiniteSet(Units(Negated(f)))

\* One addend of a sum changes.
LEMMA UnitsChange ==
  ASSUME NEW f \in [Thread -> Int], NEW g \in [Thread -> Int], NEW t \in Thread,
         \A u \in Thread \ {t} : g[u] = f[u],
         IsFiniteSet(Units(f))
  PROVE  /\ IsFiniteSet(Units(g))
         /\ Cardinality(Units(g)) = Cardinality(Units(f)) - Positive(f[t]) + Positive(g[t])
<1>1. ASSUME NEW i \in Int
      PROVE  IsFiniteSet({t} \X (1..i)) /\ Cardinality({t} \X (1..i)) = Positive(i)
  <2>1. IsFiniteSet({t}) /\ Cardinality({t}) = 1
    BY FS_Singleton
  <2>2. IsFiniteSet(1..i) /\ Cardinality(1..i) = Positive(i)
    BY FS_Interval DEF Positive
  <2>3. IsFiniteSet({t} \X (1..i)) /\ Cardinality({t} \X (1..i)) = Cardinality({t}) * Cardinality(1..i)
    BY <2>1, <2>2, FS_Product
  <2>4. Positive(i) \in Nat
    BY DEF Positive
  <2> QED BY <2>1, <2>2, <2>3, <2>4
<1>2. PICK U, V, A, B : /\ U = Units(f) /\ V = Units(g)
                        /\ A = {t} \X (1..f[t]) /\ B = {t} \X (1..g[t])
  OBVIOUS
<1>3. /\ IsFiniteSet(A) /\ Cardinality(A) = Positive(f[t])
      /\ IsFiniteSet(B) /\ Cardinality(B) = Positive(g[t])
  BY <1>1, <1>2
<1>4. V = (U \ A) \cup B /\ U \cap A = A /\ (U \ A) \cap B = {}
  BY <1>2 DEF Units
<1>5. IsFiniteSet(U \ A) /\ Cardinality(U \ A) = Cardinality(U) - Cardinality(U \cap A)
  BY <1>2, FS_Difference
<1>6. /\ IsFiniteSet((U \ A) \cup B)
      /\ Cardinality((U \ A) \cup B)
           = Cardinality(U \ A) + Cardinality(B) - Cardinality((U \ A) \cap B)
  BY <1>3, <1>5, FS_Union
<1>7. Cardinality((U \ A) \cap B) = 0
  BY <1>4, FS_EmptySet
<1>8. Cardinality(U) \in Nat /\ Cardinality(A) \in Nat /\ Cardinality(B) \in Nat
  BY <1>2, <1>3, FS_CardinalityType
<1>9. /\ Cardinality(U \cap A) = Cardinality(A)
      /\ Cardinality(V) = Cardinality((U \ A) \cup B) /\ IsFiniteSet(V)
  BY <1>4, <1>6
<1>10. Cardinality(V) = Cardinality(U) - Cardinality(A) + Cardinality(B)
  BY <1>5, <1>6, <1>7, <1>8, <1>9
<1> QED BY <1>2, <1>3, <1>9, <1>10

LEMMA TotalChange ==
  ASSUME NEW f \in [Thread -> Int], NEW g \in [Thread -> Int], NEW t \in Thread,
         \A u \in Thread \ {t} : g[u] = f[u],
         Finite(f)
  PROVE  Finite(g) /\ Total(g) = Total(f) - f[t] + g[t] /\ Total(f) \in Int
<1>1. PICK m, n : m = Negated(f) /\ n = Negated(g)
  OBVIOUS
<1>2. /\ m \in [Thread -> Int] /\ n \in [Thread -> Int] /\ m[t] = -f[t] /\ n[t] = -g[t]
      /\ \A u \in Thread \ {t} : n[u] = m[u]
  BY <1>1 DEF Negated
<1>3. /\ IsFiniteSet(Units(g))
      /\ Cardinality(Units(g)) = Cardinality(Units(f)) - Positive(f[t]) + Positive(g[t])
  BY UnitsChange DEF Finite
<1>4. /\ IsFiniteSet(Units(n))
      /\ Cardinality(Units(n)) = Cardinality(Units(m)) - Positive(m[t]) + Positive(n[t])
  BY <1>1, <1>2, UnitsChange DEF Finite
<1>5. Cardinality(Units(f)) \in Nat /\ Cardinality(Units(m)) \in Nat
  BY <1>1, FS_CardinalityType DEF Finite
<1>6. /\ Total(f) = Cardinality(Units(f)) - Cardinality(Units(m))
      /\ Total(g) = Cardinality(Units(g)) - Cardinality(Units(n))
  BY <1>1 DEF Total, Negated
<1>7. /\ Positive(f[t]) - Positive(m[t]) = f[t] /\ Positive(g[t]) - Positive(n[t]) = g[t]
      /\ Positive(f[t]) \in Nat /\ Positive(m[t]) \in Nat
      /\ Positive(g[t]) \in Nat /\ Positive(n[t]) \in Nat
  BY <1>2 DEF Positive
<1>8. f[t] \in Int /\ g[t] \in Int
  OBVIOUS
<1> QED BY <1>1, <1>3, <1>4, <1>5, <1>6, <1>7, <1>8 DEF Finite

LEMMA TotalOfZeros ==
  ASSUME NEW f \in [Thread -> Int], \A t \in Thread : f[t] = 0
  PROVE  Finite(f) /\ Total(f) = 0
<1>1. Negated(f) \in [Thread -> Int] /\ \A t \in Thread : Negated(f)[t] = 0
  BY DEF Negated
<1>2. Units(f) = {} /\ Units(Negated(f)) = {}
  BY <1>1 DEF Units
<1> QED BY <1>2, FS_EmptySet DEF Finite, Total, Negated

LEMMA UnrecordedType ==
  ASSUME TypeOK
  PROVE  \A q : Unrecorded(q) \in [Thread -> Int]
<1>1. ASSUME NEW t \in Thread, call[t].op = "reply"
      PROVE  call[t].pending \in Int /\ call[t].claimed \in Int
  BY <1>1, CallTypes DEF Answer
<1> QED BY <1>1 DEF Unrecorded

\* The rows in a state; those that are not archived are in the tables.
In(d, q) == {m \in Message \ archived : d[m].state = q}
Count(q) == Cardinality(In(delivery, q))

GaugesFine ==
  /\ Finite(Unrecorded("pending")) /\ Finite(Unrecorded("claimed"))
  /\ gauge.pending + Total(Unrecorded("pending")) = Count("pending")
  /\ gauge.claimed + Total(Unrecorded("claimed")) = Count("claimed")

LEMMA StoredIn ==
  ASSUME NEW q, q # "unsent"
  PROVE  {m \in Stored : delivery[m].state = q} = In(delivery, q)
BY DEF Stored, Sent, In

LEMMA CountInt ==
  ASSUME NEW d, NEW q
  PROVE  IsFiniteSet(In(d, q)) /\ Cardinality(In(d, q)) \in Nat
<1>1. In(d, q) \subseteq Message
  BY DEF In
<1> QED BY <1>1, FS_Subset, FS_CardinalityType

\* Some rows go from one state to another.
Move(d, e, B, s, r) ==
  /\ B \subseteq Message \ archived /\ s # r
  /\ \A m \in B : d[m].state = s /\ e[m].state = r
  /\ \A m \in (Message \ archived) \ B : e[m].state = d[m].state

LEMMA RowsMove ==
  ASSUME NEW d, NEW e, NEW B, NEW s, NEW r, Move(d, e, B, s, r)
  PROVE  /\ Cardinality(In(e, s)) = Cardinality(In(d, s)) - Cardinality(B)
         /\ Cardinality(In(e, r)) = Cardinality(In(d, r)) + Cardinality(B)
         /\ \A q : q \notin {s, r} => In(e, q) = In(d, q)
         /\ Cardinality(B) \in Nat
<1>1. In(e, s) = In(d, s) \ B /\ In(d, s) \cap B = B
  BY DEF In, Move
<1>2. In(e, r) = In(d, r) \cup B /\ In(d, r) \cap B = {}
  BY DEF In, Move
<1>3. \A q : q \notin {s, r} => In(e, q) = In(d, q)
  BY DEF In, Move
<1>4. IsFiniteSet(B) /\ Cardinality(B) \in Nat
  BY FS_Subset, FS_CardinalityType DEF Move
<1>5. Cardinality(In(d, s) \ B) = Cardinality(In(d, s)) - Cardinality(In(d, s) \cap B)
  BY CountInt, FS_Difference
<1>6. Cardinality(In(d, r) \cup B)
        = Cardinality(In(d, r)) + Cardinality(B) - Cardinality(In(d, r) \cap B)
  BY <1>4, CountInt, FS_Union
<1>7. Cardinality(In(d, r) \cap B) = 0
  BY <1>2, FS_EmptySet
<1>8. Cardinality(In(d, r)) \in Nat /\ Cardinality(In(d, s)) \in Nat
  BY CountInt
<1>9. Cardinality(In(e, s)) = Cardinality(In(d, s)) - Cardinality(B)
  BY <1>1, <1>5
<1>10. Cardinality(In(e, r)) = Cardinality(In(d, r)) + Cardinality(B)
  BY <1>2, <1>4, <1>6, <1>7, <1>8
<1> QED BY <1>3, <1>4, <1>9, <1>10

\* A collected lease is one claimed row less and one pending row more.
LEMMA CollectedCounts ==
  ASSUME TypeOK, NEW now
  PROVE  /\ Cardinality(In(Collected(now), "pending")) = Count("pending") + Cardinality(Lapsed(now))
         /\ Cardinality(In(Collected(now), "claimed")) = Count("claimed") - Cardinality(Lapsed(now))
         /\ Cardinality(Lapsed(now)) \in Nat
<1>1. Move(delivery, Collected(now), Lapsed(now), "claimed", "pending")
  BY DEF Move, Lapsed, Stored, Sent, Collected, Waiting
<1> QED BY <1>1, RowsMove DEF Count

\* A transaction owes the gauges what it did to the rows.
LEMMA AnswerCounts ==
  ASSUME TypeOK, TypeOK', GaugesFine, NEW t \in Thread, NEW a \in Answer,
         call[t].op # "reply", Commit(t, a),
         Cardinality(In(delivery', "pending")) = Count("pending") + a.pending,
         Cardinality(In(delivery', "claimed")) = Count("claimed") + a.claimed
  PROVE  GaugesFine'
<1>1. /\ call' = [call EXCEPT ![t] = a] /\ a.op = "reply" /\ a.pending \in Int /\ a.claimed \in Int
      /\ UNCHANGED <<archived, gauge>> /\ gauge \in [pending : Int, claimed : Int]
  BY DEF Commit, Answer, TypeOK
<1>2. ASSUME NEW q
      PROVE  /\ Unrecorded(q) \in [Thread -> Int] /\ Unrecorded(q)' \in [Thread -> Int]
             /\ Unrecorded(q)[t] = 0
             /\ Unrecorded(q)'[t] = IF q = "pending" THEN a.pending ELSE a.claimed
             /\ \A u \in Thread \ {t} : Unrecorded(q)'[u] = Unrecorded(q)[u]
  <2>1. Unrecorded(q) \in [Thread -> Int]
    BY UnrecordedType
  <2>2. call'[t] = a /\ \A u \in Thread \ {t} : call'[u] = call[u]
    BY <1>1 DEF TypeOK
  <2>3. /\ Unrecorded(q)[t] = 0 /\ Unrecorded(q)'[t] = IF q = "pending" THEN a.pending ELSE a.claimed
        /\ \A u \in Thread \ {t} : Unrecorded(q)'[u] = Unrecorded(q)[u]
    BY <1>1, <2>2 DEF Unrecorded
  <2>4. Unrecorded(q)' \in [Thread -> Int]
    <3>1. \A u \in Thread : Unrecorded(q)'[u] \in Int
      BY <1>1, <2>1, <2>3
    <3> QED BY <3>1 DEF Unrecorded
  <2> QED BY <2>1, <2>3, <2>4
<1>3. ASSUME NEW q, Finite(Unrecorded(q))
      PROVE  /\ Finite(Unrecorded(q))' /\ Total(Unrecorded(q)) \in Int
             /\ Total(Unrecorded(q))'
                  = Total(Unrecorded(q)) + (IF q = "pending" THEN a.pending ELSE a.claimed)
  <2>1. PICK f, g : f = Unrecorded(q) /\ g = Unrecorded(q)'
    OBVIOUS
  <2>2. /\ f \in [Thread -> Int] /\ g \in [Thread -> Int] /\ f[t] = 0
        /\ g[t] = IF q = "pending" THEN a.pending ELSE a.claimed
        /\ \A u \in Thread \ {t} : g[u] = f[u]
    BY <1>2, <2>1
  <2>3. Finite(f)
    BY <1>3, <2>1
  <2>4. Finite(g) /\ Total(g) = Total(f) - f[t] + g[t] /\ Total(f) \in Int
    BY <2>2, <2>3, TotalChange
  <2>5. Finite(g) = Finite(Unrecorded(q))' /\ Total(g) = Total(Unrecorded(q))'
    BY <2>1 DEF Finite, Total, Units, Negated
  <2> QED BY <1>1, <2>1, <2>2, <2>4, <2>5
<1>4. \A q : Count(q)' = Cardinality(In(delivery', q))
  BY <1>1 DEF Count, In
<1>5. gauge.pending \in Int /\ gauge.claimed \in Int /\ gauge' = gauge
  BY <1>1
<1>6. /\ Finite(Unrecorded("pending"))'
      /\ Total(Unrecorded("pending"))' = Total(Unrecorded("pending")) + a.pending
      /\ Total(Unrecorded("pending")) \in Int
  BY <1>3 DEF GaugesFine
<1>7. /\ Finite(Unrecorded("claimed"))'
      /\ Total(Unrecorded("claimed"))' = Total(Unrecorded("claimed")) + a.claimed
      /\ Total(Unrecorded("claimed")) \in Int
  BY <1>3 DEF GaugesFine
<1>8. (gauge.pending + Total(Unrecorded("pending")) = Count("pending"))'
  BY <1>1, <1>4, <1>5, <1>6 DEF GaugesFine
<1>9. (gauge.claimed + Total(Unrecorded("claimed")) = Count("claimed"))'
  BY <1>1, <1>4, <1>5, <1>7 DEF GaugesFine
<1> QED BY <1>6, <1>7, <1>8, <1>9 DEF GaugesFine

\* The same, of a transaction that began with collecting leases.
LEMMA ChangesCount ==
  ASSUME TypeOK, TypeOK', GaugesFine, NEW t \in Thread, NEW p \in Int, NEW c \in Int,
         call[t].op # "reply", Commit(t, Changes(t, p, c)),
         Cardinality(In(delivery', "pending"))
           = Cardinality(In(Collected(call[t].now), "pending")) + p,
         Cardinality(In(delivery', "claimed"))
           = Cardinality(In(Collected(call[t].now), "claimed")) + c
  PROVE  GaugesFine'
<1>1. PICK a : a = Changes(t, p, c)
  OBVIOUS
<1>2. PICK n \in Nat : n = Cardinality(Lapsed(call[t].now))
  BY CollectedCounts
<1>3. a \in Answer /\ a.pending = p + n /\ a.claimed = c - n
  BY <1>1, <1>2, ChangesType DEF Changes
<1>4. Count("pending") \in Nat /\ Count("claimed") \in Nat
  BY CountInt DEF Count
<1>5. /\ Cardinality(In(Collected(call[t].now), "pending")) = Count("pending") + n
      /\ Cardinality(In(Collected(call[t].now), "claimed")) = Count("claimed") - n
  BY <1>2, CollectedCounts
<1>6. /\ Cardinality(In(delivery', "pending")) = Count("pending") + a.pending
      /\ Cardinality(In(delivery', "claimed")) = Count("claimed") + a.claimed
  BY <1>3, <1>4, <1>5
<1> QED BY <1>1, <1>3, <1>6, AnswerCounts

\* No answer is added or taken, and no row changes its state.
LEMMA NothingCounted ==
  ASSUME GaugesFine, UNCHANGED gauge,
         \A q : Unrecorded(q)' = Unrecorded(q),
         In(delivery, "pending")' = In(delivery, "pending"),
         In(delivery, "claimed")' = In(delivery, "claimed")
  PROVE  GaugesFine'
<1>1. \A q : Finite(Unrecorded(q))' = Finite(Unrecorded(q)) /\ Total(Unrecorded(q))' = Total(Unrecorded(q))
  BY DEF Finite, Total, Units, Negated
<1>2. Count("pending")' = Count("pending") /\ Count("claimed")' = Count("claimed")
  BY DEF Count
<1> QED BY <1>1, <1>2 DEF GaugesFine

\* Calls begin and end, and rows stay what they are.
LEMMA OtherCall ==
  ASSUME TypeOK, GaugesFine, NEW t \in Thread, NEW c, c.op # "reply", call[t].op # "reply",
         call' = [call EXCEPT ![t] = c], UNCHANGED <<delivery, archived, gauge>>
  PROVE  GaugesFine'
<1>1. \A q : Unrecorded(q)' = Unrecorded(q)
  BY DEF Unrecorded, TypeOK
<1> QED BY <1>1, NothingCounted DEF In

LEMMA BeginSomeGauges ==
  ASSUME TypeOK, GaugesFine, NEW h \in Handler, BeginSome(h)
  PROVE  GaugesFine'
<1>1. h \in Thread
  BY DEF Thread
<1>2. \E c : c.op # "reply" /\ Begin(h, c)
  BY DEF BeginSome, BeginCreate, BeginClaim, BeginAck, BeginRelease, BeginCancel
<1>3. PICK c : c.op # "reply" /\ Begin(h, c)
  BY <1>2
<1>4. /\ call[h].op # "reply" /\ call' = [call EXCEPT ![h] = c]
      /\ UNCHANGED <<delivery, archived, gauge>>
  BY <1>3 DEF Begin, Idle, tables
<1> QED BY <1>1, <1>3, <1>4, OtherCall

LEMMA TransactGauges ==
  ASSUME IInv, TypeOK', GaugesFine, NEW h \in Handler, Transact(h)
  PROVE  GaugesFine'
<1>1. TypeOK /\ h \in Thread /\ call[h].op # "reply"
  BY TransactCall DEF IInv, Thread, Done
<1>2. PICK c, rows : c = call[h] /\ rows = Collected(c.now)
  OBVIOUS
<1>3. rows \in [Message -> Delivery] /\ 0 \in Int /\ 1 \in Int /\ -1 \in Int
  BY <1>1, <1>2, CollectedType
<1>4. CASE Repeat(h)
  <2>1. PICK a : a = [op |-> "reply", pending |-> 0, claimed |-> 0]
    OBVIOUS
  <2>2. a \in Answer /\ Commit(h, a) /\ a.pending = 0 /\ a.claimed = 0 /\ UNCHANGED delivery
    BY <1>4, <2>1 DEF Answer, Repeat
  <2>3. /\ Cardinality(In(delivery', "pending")) = Count("pending") + a.pending
        /\ Cardinality(In(delivery', "claimed")) = Count("claimed") + a.claimed
    BY <2>2, CountInt DEF Count
  <2> QED BY <1>1, <2>2, <2>3, AnswerCounts
<1>5. CASE PostMessage(h)
  <2>1. PICK a, m, d : /\ a = [op |-> "reply", pending |-> 1, claimed |-> 0]
                       /\ m = c.id /\ d = delivery'
    OBVIOUS
  <2>2. /\ a \in Answer /\ Commit(h, a) /\ a.pending = 1 /\ a.claimed = 0
        /\ d = [delivery EXCEPT ![m] = Waiting] /\ c.op = "create"
    BY <1>2, <1>5, <2>1 DEF Answer, PostMessage
  <2>3. m \in Message /\ m \notin Sent
    BY <1>1, <1>2, <2>1, <2>2, CallTypes DEF IInv, IdsFresh
  <2>4. m \notin archived /\ delivery[m].state = "unsent"
    BY <2>3 DEF IInv, RowsWellFormed, Sent, Terminal
  <2>5. Move(delivery, d, {m}, "unsent", "pending")
    BY <1>1, <2>2, <2>3, <2>4 DEF Move, Waiting, TypeOK
  <2>6. /\ Cardinality(In(d, "pending")) = Cardinality(In(delivery, "pending")) + Cardinality({m})
        /\ In(d, "claimed") = In(delivery, "claimed")
    BY <2>5, RowsMove
  <2>7. Cardinality({m}) = 1
    BY FS_Singleton
  <2>8. /\ Cardinality(In(delivery', "pending")) = Count("pending") + a.pending
        /\ Cardinality(In(delivery', "claimed")) = Count("claimed") + a.claimed
    BY <2>1, <2>2, <2>6, <2>7, CountInt DEF Count
  <2> QED BY <1>1, <2>2, <2>8, AnswerCounts
<1>6. CASE Claim(h)
  <2>1. PICK B \in OldestOf(Claimable(c), c.limit) :
          /\ delivery' = [m \in Message |->
               IF m \in B
               THEN [state |-> "claimed", claim |-> c.id, expires |-> c.now + c.lease]
               ELSE rows[m]]
          /\ Commit(h, Changes(h, -Cardinality(B), Cardinality(B)))
    BY <1>2, <1>6 DEF Claim
  <2>2. PICK d : d = delivery'
    OBVIOUS
  <2>3. B \subseteq Message \ archived /\ \A m \in B : rows[m].state = "pending"
    BY <1>2, <2>1 DEF OldestOf, Claimable, Stored, Sent
  <2>4. Move(rows, d, B, "pending", "claimed")
    BY <1>3, <2>1, <2>2, <2>3 DEF Move
  <2>5. /\ Cardinality(In(d, "pending")) = Cardinality(In(rows, "pending")) - Cardinality(B)
        /\ Cardinality(In(d, "claimed")) = Cardinality(In(rows, "claimed")) + Cardinality(B)
        /\ Cardinality(B) \in Nat
    BY <2>4, RowsMove
  <2>6. PICK n \in Int : n = Cardinality(B)
    BY <2>5
  <2>7. /\ Cardinality(In(delivery', "pending"))
             = Cardinality(In(Collected(call[h].now), "pending")) + (-n)
        /\ Cardinality(In(delivery', "claimed"))
             = Cardinality(In(Collected(call[h].now), "claimed")) + n
        /\ -n \in Int
    BY <1>2, <2>2, <2>5, <2>6, CountInt
  <2> QED BY <1>1, <2>1, <2>6, <2>7, ChangesCount
<1>7. CASE Ack(h)
  <2>1. PICK m, d : m = c.message /\ d = delivery'
    OBVIOUS
  <2>2. /\ m \in Message \ archived /\ rows[m].state \in {"pending", "claimed", "acked"}
        /\ d = [rows EXCEPT ![m] = [state |-> "acked", claim |-> rows[m].claim, expires |-> 0]]
    <3>1. m \in Stored /\ rows[m].state # "canceled"
      BY <1>2, <1>7, <2>1 DEF Ack, AckAccepted
    <3>2. rows[m].state \in State /\ rows[m].state # "unsent"
      BY <1>2, <1>3, <3>1 DEF Stored, Sent, Delivery, Collected, Waiting
    <3> QED BY <1>2, <1>7, <2>1, <3>1, <3>2 DEF Ack, Stored, Sent, State
  <2>3. /\ d[m].state = "acked" /\ \A n \in Message : n # m => d[n] = rows[n]
        /\ Cardinality({m}) = 1
    BY <1>3, <2>2, FS_Singleton
  <2>4. \E p, q \in Int : /\ Commit(h, Changes(h, p, q))
                          /\ Cardinality(In(d, "pending")) = Cardinality(In(rows, "pending")) + p
                          /\ Cardinality(In(d, "claimed")) = Cardinality(In(rows, "claimed")) + q
    <3>1. CASE rows[m].state = "pending"
      <4>1. Move(rows, d, {m}, "pending", "acked")
        BY <2>2, <2>3, <3>1 DEF Move
      <4>2. /\ Cardinality(In(d, "pending")) = Cardinality(In(rows, "pending")) - Cardinality({m})
            /\ In(d, "claimed") = In(rows, "claimed")
        BY <4>1, RowsMove
      <4>3. /\ Cardinality(In(d, "pending")) = Cardinality(In(rows, "pending")) + (-1)
            /\ Cardinality(In(d, "claimed")) = Cardinality(In(rows, "claimed")) + 0
        BY <2>3, <4>2, CountInt
      <4>4. Commit(h, Changes(h, -1, 0))
        BY <1>2, <1>7, <2>1, <3>1 DEF Ack
      <4> QED BY <1>3, <4>3, <4>4
    <3>2. CASE rows[m].state = "claimed"
      <4>1. Move(rows, d, {m}, "claimed", "acked")
        BY <2>2, <2>3, <3>2 DEF Move
      <4>2. /\ Cardinality(In(d, "claimed")) = Cardinality(In(rows, "claimed")) - Cardinality({m})
            /\ In(d, "pending") = In(rows, "pending")
        BY <4>1, RowsMove
      <4>3. /\ Cardinality(In(d, "pending")) = Cardinality(In(rows, "pending")) + 0
            /\ Cardinality(In(d, "claimed")) = Cardinality(In(rows, "claimed")) + (-1)
        BY <2>3, <4>2, CountInt
      <4>4. Commit(h, Changes(h, 0, -1))
        BY <1>2, <1>7, <2>1, <3>2 DEF Ack
      <4> QED BY <1>3, <4>3, <4>4
    <3>3. CASE rows[m].state = "acked"
      <4>1. In(d, "claimed") = In(rows, "claimed") /\ In(d, "pending") = In(rows, "pending")
        BY <2>3, <3>3 DEF In
      <4>2. /\ Cardinality(In(d, "pending")) = Cardinality(In(rows, "pending")) + 0
            /\ Cardinality(In(d, "claimed")) = Cardinality(In(rows, "claimed")) + 0
        BY <4>1, CountInt
      <4>3. Commit(h, Changes(h, 0, 0))
        BY <1>2, <1>7, <2>1, <3>3 DEF Ack
      <4> QED BY <1>3, <4>2, <4>3
    <3> QED BY <2>2, <3>1, <3>2, <3>3
  <2> QED BY <1>1, <1>2, <2>1, <2>4, ChangesCount
<1>8. CASE Release(h)
  <2>1. PICK m, d : m = c.message /\ d = delivery'
    OBVIOUS
  <2>2. /\ m \in Message \ archived /\ rows[m].state = "claimed"
        /\ d = [rows EXCEPT ![m] = Waiting] /\ Commit(h, Changes(h, 1, -1))
    BY <1>2, <1>8, <2>1 DEF Release, ReleaseAccepted, Stored, Sent
  <2>3. Move(rows, d, {m}, "claimed", "pending")
    BY <1>3, <2>2 DEF Move, Waiting
  <2>4. /\ Cardinality(In(d, "claimed")) = Cardinality(In(rows, "claimed")) - Cardinality({m})
        /\ Cardinality(In(d, "pending")) = Cardinality(In(rows, "pending")) + Cardinality({m})
    BY <2>3, RowsMove
  <2>5. /\ Cardinality(In(delivery', "pending"))
             = Cardinality(In(Collected(call[h].now), "pending")) + 1
        /\ Cardinality(In(delivery', "claimed"))
             = Cardinality(In(Collected(call[h].now), "claimed")) + (-1)
    BY <1>2, <2>1, <2>4, CountInt, FS_Singleton
  <2> QED BY <1>1, <1>3, <2>2, <2>5, ChangesCount
<1>9. CASE Cancel(h)
  <2>1. PICK m, d : m = c.message /\ d = delivery'
    OBVIOUS
  <2>2. /\ m \in Message \ archived /\ rows[m].state = "pending"
        /\ d = [rows EXCEPT ![m] = [state |-> "canceled", claim |-> NoClaim, expires |-> 0]]
        /\ Commit(h, Changes(h, -1, 0))
    BY <1>2, <1>9, <2>1 DEF Cancel, CancelAccepted, Stored, Sent
  <2>3. Move(rows, d, {m}, "pending", "canceled")
    BY <1>3, <2>2 DEF Move
  <2>4. /\ Cardinality(In(d, "pending")) = Cardinality(In(rows, "pending")) - Cardinality({m})
        /\ In(d, "claimed") = In(rows, "claimed")
    BY <2>3, RowsMove
  <2>5. /\ Cardinality(In(delivery', "pending"))
             = Cardinality(In(Collected(call[h].now), "pending")) + (-1)
        /\ Cardinality(In(delivery', "claimed"))
             = Cardinality(In(Collected(call[h].now), "claimed")) + 0
    <3>1. Cardinality({m}) = 1
      BY FS_Singleton
    <3>2. /\ Cardinality(In(rows, "pending")) \in Int
          /\ Cardinality(In(rows, "claimed")) \in Int
      BY <1>2, CountInt
    <3> QED BY <1>2, <2>1, <2>4, <3>1, <3>2
  <2> QED BY <1>1, <1>3, <2>2, <2>5, ChangesCount
<1>10. CASE Refuse(h)
  <2>1. /\ Idle.op # "reply" /\ call' = [call EXCEPT ![h] = Idle]
        /\ UNCHANGED <<delivery, archived, gauge>>
    BY <1>10 DEF Refuse, Idle, tables
  <2> QED BY <1>1, <2>1, OtherCall
<1> QED BY <1>4, <1>5, <1>6, <1>7, <1>8, <1>9, <1>10 DEF Transact

LEMMA ReplyGauges ==
  ASSUME TypeOK, GaugesFine, NEW t \in Thread, Reply(t)
  PROVE  GaugesFine'
<1>1. /\ call[t].op = "reply" /\ call' = [call EXCEPT ![t] = Idle]
      /\ gauge' = [pending |-> gauge.pending + call[t].pending,
                   claimed |-> gauge.claimed + call[t].claimed]
      /\ UNCHANGED <<delivery, archived>> /\ gauge \in [pending : Int, claimed : Int]
  BY DEF Reply, tables, TypeOK
<1>2. PICK p \in Int, c \in Int : p = call[t].pending /\ c = call[t].claimed
  BY <1>1, CallTypes DEF Answer
<1>3. ASSUME NEW q, Finite(Unrecorded(q))
      PROVE  /\ Finite(Unrecorded(q))' /\ Total(Unrecorded(q)) \in Int
             /\ Total(Unrecorded(q))' = Total(Unrecorded(q)) - (IF q = "pending" THEN p ELSE c)
  <2>1. PICK f, g : f = Unrecorded(q) /\ g = Unrecorded(q)'
    OBVIOUS
  <2>2. /\ f \in [Thread -> Int] /\ f[t] = IF q = "pending" THEN p ELSE c
        /\ g[t] = 0 /\ \A u \in Thread \ {t} : g[u] = f[u]
    <3>1. f \in [Thread -> Int]
      BY <2>1, UnrecordedType
    <3>2. call'[t].op # "reply" /\ \A u \in Thread \ {t} : call'[u] = call[u]
      BY <1>1 DEF TypeOK, Idle
    <3> QED BY <1>1, <1>2, <2>1, <3>1, <3>2 DEF Unrecorded
  <2>3. g \in [Thread -> Int]
    <3>1. \A u \in Thread : g[u] \in Int
      BY <2>2
    <3> QED BY <2>1, <3>1 DEF Unrecorded
  <2>4. Finite(f)
    BY <1>3, <2>1
  <2>5. Finite(g) /\ Total(g) = Total(f) - f[t] + g[t] /\ Total(f) \in Int
    BY <2>2, <2>3, <2>4, TotalChange
  <2>6. Finite(g) = Finite(Unrecorded(q))' /\ Total(g) = Total(Unrecorded(q))'
    BY <2>1 DEF Finite, Total, Units, Negated
  <2> QED BY <2>1, <2>2, <2>5, <2>6
<1>4. Count("pending")' = Count("pending") /\ Count("claimed")' = Count("claimed")
  BY <1>1 DEF Count, In
<1>5. /\ Finite(Unrecorded("pending"))'
      /\ Total(Unrecorded("pending"))' = Total(Unrecorded("pending")) - p
      /\ Total(Unrecorded("pending")) \in Int
  BY <1>3 DEF GaugesFine
<1>6. /\ Finite(Unrecorded("claimed"))'
      /\ Total(Unrecorded("claimed"))' = Total(Unrecorded("claimed")) - c
      /\ Total(Unrecorded("claimed")) \in Int
  BY <1>3 DEF GaugesFine
<1>7. /\ gauge'.pending = gauge.pending + p /\ gauge'.claimed = gauge.claimed + c
      /\ gauge.pending \in Int /\ gauge.claimed \in Int
  BY <1>1, <1>2
<1> QED BY <1>4, <1>5, <1>6, <1>7 DEF GaugesFine

\* No call is left, and the rows are counted.
LEMMA RestartGauges ==
  ASSUME TypeOK, Restart
  PROVE  GaugesFine'
<1>1. /\ call' = [t \in Thread |-> Idle] /\ UNCHANGED <<delivery, archived>>
      /\ gauge' = [pending |-> Count("pending"), claimed |-> Count("claimed")]
  BY StoredIn DEF Restart, tables, Count
<1>2. ASSUME NEW q
      PROVE  Finite(Unrecorded(q))' /\ Total(Unrecorded(q))' = 0
  <2>1. PICK g : g = Unrecorded(q)'
    OBVIOUS
  <2>2. g \in [Thread -> Int] /\ \A t \in Thread : g[t] = 0
    BY <1>1, <2>1 DEF Unrecorded, Idle
  <2>3. Finite(g) /\ Total(g) = 0
    BY <2>2, TotalOfZeros
  <2>4. Finite(g) = Finite(Unrecorded(q))' /\ Total(g) = Total(Unrecorded(q))'
    BY <2>1 DEF Finite, Total, Units, Negated
  <2> QED BY <2>3, <2>4
<1>3. Count("pending")' = Count("pending") /\ Count("claimed")' = Count("claimed")
  BY <1>1 DEF Count, In
<1>4. Count("pending") \in Nat /\ Count("claimed") \in Nat
  BY CountInt DEF Count
<1> QED BY <1>1, <1>2, <1>3, <1>4 DEF GaugesFine

LEMMA InitGauges == Init => GaugesFine
<1> SUFFICES ASSUME Init PROVE GaugesFine
  OBVIOUS
<1>1. ASSUME NEW q PROVE Finite(Unrecorded(q)) /\ Total(Unrecorded(q)) = 0
  <2>1. Unrecorded(q) \in [Thread -> Int] /\ \A t \in Thread : Unrecorded(q)[t] = 0
    BY DEF Init, Unrecorded, Idle
  <2> QED BY <2>1, TotalOfZeros
<1>2. In(delivery, "pending") = {} /\ In(delivery, "claimed") = {}
  BY DEF Init, In, Unsent
<1>3. Count("pending") = 0 /\ Count("claimed") = 0
  BY <1>2, FS_EmptySet DEF Count
<1> QED BY <1>1, <1>3 DEF Init, GaugesFine

LEMMA NextGauges ==
  ASSUME IInv, IInv', GaugesFine, [Next]_vars
  PROVE  GaugesFine'
<1>t. TypeOK /\ TypeOK' /\ Janitor \in Thread
  BY DEF IInv, Thread
<1>1. ASSUME NEW h \in Handler, BeginSome(h) \/ Transact(h)
      PROVE  GaugesFine'
  BY <1>1, <1>t, BeginSomeGauges, TransactGauges
<1>2. CASE BeginExpire
  <2>1. PICK c : c.op # "reply" /\ Begin(Janitor, c)
    BY <1>2 DEF BeginExpire
  <2>2. /\ call[Janitor].op # "reply" /\ call' = [call EXCEPT ![Janitor] = c]
        /\ UNCHANGED <<delivery, archived, gauge>>
    BY <2>1 DEF Begin, Idle, tables
  <2> QED BY <1>t, <2>1, <2>2, OtherCall
<1>3. CASE ExpireClaims
  <2>1. /\ call[Janitor].op # "reply" /\ delivery' = Collected(call[Janitor].now)
        /\ Commit(Janitor, Changes(Janitor, 0, 0)) /\ 0 \in Int
    BY <1>3 DEF ExpireClaims
  <2>2. /\ Cardinality(In(delivery', "pending"))
             = Cardinality(In(Collected(call[Janitor].now), "pending")) + 0
        /\ Cardinality(In(delivery', "claimed"))
             = Cardinality(In(Collected(call[Janitor].now), "claimed")) + 0
    BY <2>1, CountInt
  <2> QED BY <1>t, <2>1, <2>2, ChangesCount
<1>4. ASSUME NEW t \in Thread, Reply(t)
      PROVE  GaugesFine'
  BY <1>4, <1>t, ReplyGauges
<1>5. ASSUME NEW S \in SUBSET Stored, Archive(S)
      PROVE  GaugesFine'
  <2>1. /\ archived' = archived \cup S /\ UNCHANGED <<delivery, call, gauge>>
        /\ \A m \in S : delivery[m].state \in Terminal
    BY <1>5 DEF Archive
  <2>2. In(delivery, "pending")' = In(delivery, "pending")
        /\ In(delivery, "claimed")' = In(delivery, "claimed")
    BY <2>1 DEF In, Terminal
  <2>3. \A q : Unrecorded(q)' = Unrecorded(q)
    BY <2>1 DEF Unrecorded
  <2> QED BY <2>1, <2>2, <2>3, NothingCounted
<1>6. CASE Restart
  BY <1>6, <1>t, RestartGauges
<1>7. CASE Tick \/ UNCHANGED vars
  <2>1. UNCHANGED <<delivery, archived, call, gauge>>
    BY <1>7 DEF Tick, vars, tables
  <2> QED BY <2>1, NothingCounted DEF In, Unrecorded
<1> QED BY <1>1, <1>2, <1>3, <1>4, <1>5, <1>6, <1>7 DEF Next

(* With what the calls have still to add, the gauges count the rows that   *)
(* are pending and claimed, in whatever order threads commit and record,   *)
(* lose their transactions, collect leases on the way, or die.             *)
THEOREM GaugesCountHolds == Spec => []GaugesCount
<1>1. IInv /\ GaugesFine /\ [Next]_vars => (IInv /\ GaugesFine)'
  BY NextIInv, NextGauges
<1>2. GaugesFine => GaugesCount
  BY StoredIn DEF GaugesFine, GaugesCount, Count
<1> QED
  BY InitIInv, InitGauges, <1>1, <1>2, PTL DEF Spec

=============================================================================
