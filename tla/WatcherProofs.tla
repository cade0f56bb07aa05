----------------------------- MODULE WatcherProofs -----------------------------
(***************************************************************************)
(* Proofs about Watcher, for any number of messages, senders and mishaps:  *)
(* types, that nothing is acknowledged unseen, that a message is consumed  *)
(* once, that none overtakes another, and that the server's side is a      *)
(* Mailbox.                                                                *)
(***************************************************************************)
EXTENDS Watcher, FiniteSetTheorems, WellFoundedInduction, TLAPS

USE WatcherAssumption

-----------------------------------------------------------------------------
(* The inductive invariant.                                                *)

Final == {"settled", "withdrawn"}
Status == {"unsent", "waiting", "leased"} \cup Final

\* The server's side: leases have claims, and one sender's messages come in order.
Earlier(n, m) == n < m /\ SenderOf[n] = SenderOf[m]
MailFine ==
  /\ status \in [Message -> Status] /\ holder \in [Message -> ClaimId \cup {NoClaim}]
  /\ spent \subseteq ClaimId /\ IsFiniteSet(spent) /\ theirs \subseteq spent
  /\ granted \subseteq Message
  /\ \A m \in Message : /\ status[m] = "leased" <=> holder[m] # NoClaim
                        /\ holder[m] \in spent \cup {NoClaim}
                        /\ status[m] = "leased" => m \in granted
  /\ \A m, n \in Message : Earlier(n, m) /\ status[m] # "unsent" => status[n] # "unsent"

\* The watcher's own: it has a claim, and messages of it, while it works on them.
Handling == {"paste", "submit", "release", "ack"}
LocalFine ==
  /\ pc \in {"look", "deliver", "save", "write", "down"} \cup Handling
  /\ queue \subseteq Message /\ file \in [torn : BOOLEAN, messages : SUBSET Message]
  /\ state \in Watch /\ held \in BOOLEAN /\ attempt \in Attempt
  /\ attempt.left # {} <=> pc \in Handling
  /\ attempt.claim # NoClaim <=> attempt.left # {}

CountsFine ==
  /\ composer \in [Message -> Nat] /\ reached \in [Message -> Nat]
  /\ excused \in [Message -> Nat] /\ mishaps \in 0..MaxMishaps

\* The local queue, the file and what an attempt leaves over skip no message that
\* has not been taken out of the server's inbox.
SameKind(n, m) == Earlier(n, m) /\ (n \in Urgent <=> m \in Urgent)
Provided(n) == n \in granted \/ status[n] \in Final
Closed(S) ==
  \A m \in S : /\ status[m] # "unsent"
               /\ \A n \in Message : SameKind(n, m) => n \in S \/ Provided(n)
ListsFine ==
  /\ Closed(queue) /\ Closed(file.messages) /\ Closed(attempt.rest)
  /\ \A m \in attempt.left : status[m] # "unsent"

\* Nor is a message that is about to reach Codex, or has.
Touched(m) == reached[m] > 0 \/ composer[m] > 0 \/ m \in attempt.left
OrderFine == \A m, n \in Message : SameKind(n, m) /\ Touched(m) => Provided(n)

\* What is pasted is in the composer until it is submitted, and then it has reached Codex.
AckFine ==
  /\ acked \subseteq Message
  /\ \A m \in acked : status[m] = "settled" /\ reached[m] > 0
  /\ \A m \in attempt.left : /\ pc = "submit" => composer[m] > 0
                             /\ pc = "ack" => reached[m] > 0

\* How often a message has been, or is about to be, put before Codex: never without an
\* excuse, but for the time that the watcher has, or has had, a lease that did not end.
Spent(m) == m \in acked \/ (status[m] = "leased" /\ holder[m] \notin theirs)
Uses(m) == reached[m] + composer[m] + (IF pc = "paste" /\ m \in attempt.left THEN 1 ELSE 0)
Budget ==
  /\ \A m \in Message : Uses(m) <= excused[m] + (IF Spent(m) THEN 1 ELSE 0)
  /\ pc = "release" => \A m \in attempt.left : Uses(m) <= excused[m]

IInv == MailFine /\ LocalFine /\ CountsFine /\ ListsFine /\ OrderFine /\ AckFine /\ Budget

-----------------------------------------------------------------------------
(* Lemmas about the operators.                                             *)

\* The first of some messages is one of them, and none is before it.
LEMMA FirstIn ==
  ASSUME NEW S \in SUBSET Message, S # {}
  PROVE  First(S) \in S /\ \A n \in S : First(S) <= n
<1>1. S \in SUBSET Nat
  OBVIOUS
<1>2. \E m \in S : \A n \in S : ~(<<n, m>> \in OpToRel(<, Nat))
  BY <1>1, NatLessThanWellFounded, WFMin
<1>3. \E m \in S : \A n \in S : m <= n
  <2>1. PICK m \in S : \A n \in S : ~(<<n, m>> \in OpToRel(<, Nat))
    BY <1>2
  <2>2. m \in Nat /\ \A n \in S : n \in Nat
    BY <1>1
  <2>3. \A n \in S : ~(n < m)
    BY <2>1, <2>2 DEF OpToRel
  <2> QED BY <2>2, <2>3
<1> QED BY <1>3 DEF First

\* There is always another claim.
LEMMA NewClaimFresh ==
  ASSUME MailFine
  PROVE  NewClaim \in ClaimId /\ NewClaim \notin spent
<1> DEFINE k == Cardinality(spent)
<1>1. k \in Nat
  BY FS_CardinalityType DEF MailFine
<1>2. Cardinality(1..(k + 1)) = k + 1
  BY <1>1, FS_Interval
<1>3. ~(1..(k + 1) \subseteq spent)
  BY <1>1, <1>2, FS_Subset DEF MailFine
<1>4. \E c \in 1..(k + 1) : c \notin spent
  BY <1>3
<1> QED BY <1>1, <1>4 DEF NewClaim, ClaimId

\* What is before one of the oldest is one of the oldest.
LEMMA OldestDown ==
  ASSUME NEW S \in SUBSET Message, NEW k \in Nat, NEW m \in Oldest(S, k), NEW n \in S, n < m
  PROVE  n \in Oldest(S, k)
<1> DEFINE below(i) == {j \in S : j < i}
<1>1. IsFiniteSet(S) /\ \A j \in S : j \in Nat
  BY FS_Subset
<1>2. m \in S /\ Cardinality(below(m)) < k
  BY DEF Oldest
<1>3. m \in Nat /\ n \in Nat
  BY <1>1, <1>2
<1>4. below(n) \subseteq below(m)
  <2>1. ASSUME NEW j \in S, j < n PROVE j < m
    <3>1. j \in Nat
      BY <1>1
    <3> QED BY <1>3, <2>1, <3>1
  <2> QED BY <2>1
<1>5. IsFiniteSet(below(m)) /\ Cardinality(below(m)) \in Nat
  BY <1>1, FS_Subset, FS_CardinalityType
<1>6. Cardinality(below(n)) <= Cardinality(below(m)) /\ Cardinality(below(n)) \in Nat
  <2> HIDE DEF below
  <2> QED BY <1>4, <1>5, FS_Subset, FS_CardinalityType
<1>7. Cardinality(below(n)) < k
  <2> HIDE DEF below
  <2> QED BY <1>2, <1>5, <1>6
<1> QED BY <1>7 DEF Oldest

\* And there is one unless there is nothing.
LEMMA OldestSome ==
  ASSUME NEW S \in SUBSET Message, S # {}, NEW k \in Nat \ {0}
  PROVE  Oldest(S, k) # {}
<1>1. First(S) \in S /\ \A n \in S : First(S) <= n
  BY FirstIn
<1>2. {n \in S : n < First(S)} = {}
  <2>1. ASSUME NEW n \in S, n < First(S) PROVE FALSE
    <3>1. n \in Nat /\ First(S) \in Nat /\ First(S) <= n
      BY <1>1
    <3> QED BY <2>1, <3>1
  <2> QED BY <2>1
<1>3. Cardinality({n \in S : n < First(S)}) = 0
  BY <1>2, FS_EmptySet
<1> QED BY <1>1, <1>3 DEF Oldest

LEMMA RaisedCounts ==
  ASSUME NEW f \in [Message -> Nat], NEW S \in SUBSET Message
  PROVE  /\ Raised(f, S) \in [Message -> Nat]
         /\ \A m \in Message : /\ m \in S => Raised(f, S)[m] = f[m] + 1
                               /\ m \notin S => Raised(f, S)[m] = f[m]
BY DEF Raised

-----------------------------------------------------------------------------
(* The server's side.                                                      *)

\* Messages are posted, granted and over for good.
Onwards ==
  \A m \in Message : /\ status[m] # "unsent" => status'[m] # "unsent"
                     /\ status[m] \in Final => status'[m] = status[m]
                     /\ m \in granted => m \in granted'

LEMMA PlainMail ==
  ASSUME MailFine
  PROVE  Mail!StatusAfter({}) = status /\ Mail!HolderAfter({}) = holder
BY DEF MailFine, Mail!StatusAfter, Mail!HolderAfter

\* One message leaves its place, and nobody has it then.
LEMMA OneMoves ==
  ASSUME MailFine, NEW m \in Message, status[m] \notin Final, NEW s \in {"waiting"} \cup Final,
         status[m] = "unsent" => \A n \in Message : Earlier(n, m) => status[n] # "unsent",
         status' = [status EXCEPT ![m] = s], holder' = [holder EXCEPT ![m] = NoClaim],
         UNCHANGED <<spent, theirs, granted>>
  PROVE  /\ MailFine' /\ Onwards /\ status'[m] = s
         /\ \A n \in Message : n # m => status'[n] = status[n] /\ holder'[n] = holder[n]
<1>1. /\ status' \in [Message -> Status] /\ holder' \in [Message -> ClaimId \cup {NoClaim}]
      /\ status'[m] = s /\ holder'[m] = NoClaim
      /\ \A n \in Message : n # m => status'[n] = status[n] /\ holder'[n] = holder[n]
  BY DEF MailFine, Status
<1>2. Onwards
  BY <1>1 DEF Onwards, MailFine, Final
<1>3. ASSUME NEW k \in Message, NEW n \in Message, Earlier(n, k), status'[k] # "unsent"
      PROVE  status'[n] # "unsent"
  <2>1. status[n] # "unsent"
    BY <1>1, <1>3 DEF MailFine
  <2> QED BY <1>2, <2>1 DEF Onwards
<1> QED BY <1>1, <1>2, <1>3 DEF MailFine, Final

\* Messages are granted.
LEMMA SomeGranted ==
  ASSUME MailFine, NEW G \in SUBSET Message, Mail!Grant({}, G, NewClaim),
         theirs' \in {theirs, theirs \cup {NewClaim}}, granted' = granted \cup G
  PROVE  /\ MailFine' /\ Onwards /\ spent' = spent \cup {NewClaim} /\ NewClaim \notin spent
         /\ NewClaim \in ClaimId
         /\ \A m \in G : status[m] = "waiting" /\ status'[m] = "leased" /\ holder'[m] = NewClaim
         /\ \A m \in Message : m \notin G => status'[m] = status[m] /\ holder'[m] = holder[m]
<1>1. PICK c : c = NewClaim
  OBVIOUS
<1>2. c \in ClaimId /\ c \notin spent /\ c # NoClaim
  BY <1>1, NewClaimFresh DEF ClaimId, NoClaim
<1>3. /\ \A m \in G : status[m] = "waiting"
      /\ status' = [m \in Message |-> IF m \in G THEN "leased" ELSE status[m]]
      /\ holder' = [m \in Message |-> IF m \in G THEN c ELSE holder[m]]
      /\ spent' = spent \cup {c}
  BY <1>1, PlainMail DEF Mail!Grant
<1>4. spent' \subseteq ClaimId /\ IsFiniteSet(spent') /\ theirs' \subseteq spent'
  BY <1>1, <1>2, <1>3, FS_AddElement DEF MailFine
<1>5. status' \in [Message -> Status] /\ holder' \in [Message -> ClaimId \cup {NoClaim}]
  BY <1>2, <1>3 DEF MailFine, Status
<1>6. MailFine'
  BY <1>2, <1>3, <1>4, <1>5 DEF MailFine
<1>7. Onwards
  BY <1>3 DEF Onwards, Final
<1> QED BY <1>1, <1>2, <1>3, <1>6, <1>7

LEMMA SameMail ==
  ASSUME MailFine, UNCHANGED <<mailbox, granted>>
  PROVE  MailFine' /\ Onwards
BY DEF MailFine, Onwards, mailbox

-----------------------------------------------------------------------------
(* What steps do to the other parts of the invariant.                      *)

\* A list of messages that is closed once the step is done.
ClosedNow(S) ==
  \A m \in S : /\ status'[m] # "unsent"
               /\ \A n \in Message : SameKind(n, m) => n \in S \/ Provided(n)'

LEMMA ProvidedStays ==
  ASSUME Onwards, NEW n \in Message, Provided(n)
  PROVE  Provided(n)'
BY DEF Onwards, Provided

LEMMA ClosedStays ==
  ASSUME Onwards, NEW S \in SUBSET Message, Closed(S)
  PROVE  ClosedNow(S)
<1>1. \A n \in Message : Provided(n) => Provided(n)'
  BY ProvidedStays
<1> QED BY <1>1 DEF Onwards, Closed, ClosedNow

LEMMA ListsStay ==
  ASSUME Onwards, LocalFine, ListsFine,
         UNCHANGED queue \/ ClosedNow(queue'),
         UNCHANGED file \/ ClosedNow((file.messages)'),
         attempt'.rest \in {attempt.rest, {}} \/ ClosedNow((attempt.rest)'),
         \A m \in attempt'.left : m \in attempt.left \/ status'[m] # "unsent"
  PROVE  ListsFine'
<1>1. queue \in SUBSET Message /\ file.messages \in SUBSET Message /\ attempt.rest \in SUBSET Message
  BY DEF LocalFine, Attempt
<1>2. ClosedNow(queue) /\ ClosedNow(file.messages) /\ ClosedNow(attempt.rest)
  BY <1>1, ClosedStays DEF ListsFine
<1>3. ClosedNow(queue')
  BY <1>2
<1>4. ClosedNow((file.messages)')
  BY <1>2
<1>5. ClosedNow((attempt.rest)')
  BY <1>2 DEF ClosedNow
<1>6. \A m \in attempt'.left : status'[m] # "unsent"
  BY DEF ListsFine, Onwards, LocalFine, Attempt
<1> QED BY <1>3, <1>4, <1>5, <1>6 DEF ListsFine, Closed, ClosedNow

LEMMA OrderStays ==
  ASSUME Onwards, OrderFine, \A m \in Message : Touched(m)' => Touched(m)
  PROVE  OrderFine'
<1>1. \A n \in Message : Provided(n) => Provided(n)'
  BY ProvidedStays
<1> QED BY <1>1 DEF OrderFine, SameKind, Earlier

LEMMA UsesCount ==
  ASSUME CountsFine
  PROVE  \A m \in Message : Uses(m) \in Nat /\ excused[m] \in Nat
BY DEF CountsFine, Uses

\* The watcher is not affected: others act on the mailbox, or time does.
LEMMA OutsideStep ==
  ASSUME IInv, MailFine', Onwards, UNCHANGED <<local, composer, reached, acked>>,
         mishaps' \in 0..MaxMishaps, excused' \in [Message -> Nat],
         \A m \in Message : excused[m] <= excused'[m],
         \A m \in Message : Spent(m) => Spent(m)' \/ excused'[m] = excused[m] + 1
  PROVE  IInv'
<1>1. /\ UNCHANGED <<pc, queue, file, state, held, attempt>>
      /\ LocalFine /\ CountsFine /\ ListsFine /\ OrderFine /\ AckFine /\ Budget
  BY DEF IInv, local
<1>2. LocalFine' /\ CountsFine'
  BY <1>1 DEF LocalFine, CountsFine
<1>3. ListsFine' /\ OrderFine'
  BY <1>1, ListsStay, OrderStays DEF Touched
<1>4. AckFine'
  BY <1>1 DEF AckFine, Onwards, Final
<1>5. Budget'
  <2>1. \A m \in Message : Uses(m)' = Uses(m) /\ Uses(m) \in Nat /\ excused[m] \in Nat /\ excused'[m] \in Nat
    BY <1>1, UsesCount DEF Uses
  <2>2. ASSUME NEW m \in Message
        PROVE  Uses(m)' <= excused'[m] + (IF Spent(m)' THEN 1 ELSE 0)
    BY <1>1, <2>1 DEF Budget
  <2>3. ASSUME NEW m \in attempt.left, pc = "release"
        PROVE  Uses(m)' <= excused'[m]
    <3>1. m \in Message
      BY <1>1 DEF LocalFine, Attempt
    <3> QED BY <1>1, <2>1, <2>3, <3>1 DEF Budget
  <2> QED BY <1>1, <2>2, <2>3 DEF Budget
<1> QED BY <1>2, <1>3, <1>4, <1>5 DEF IInv

\* The watcher goes to where it handles no messages.
LEMMA IdleStep ==
  ASSUME IInv, MailFine', Onwards, UNCHANGED <<reached, excused, acked>>,
         pc' \in {"look", "deliver", "save", "write", "down"},
         attempt' \in {attempt, NoAttempt}, attempt'.left = {},
         UNCHANGED composer \/ composer' = [m \in Message |-> 0],
         mishaps' \in 0..MaxMishaps,
         queue' \subseteq Message, file' \in [torn : BOOLEAN, messages : SUBSET Message],
         state' \in Watch, held' \in BOOLEAN,
         UNCHANGED queue \/ ClosedNow(queue'),
         UNCHANGED file \/ ClosedNow((file.messages)'),
         \A m \in Message : Spent(m) => Spent(m)'
  PROVE  IInv'
<1>1. LocalFine /\ CountsFine /\ ListsFine /\ OrderFine /\ AckFine /\ Budget
  BY DEF IInv
<1>2. NoAttempt \in Attempt /\ NoAttempt.left = {} /\ NoAttempt.rest = {} /\ NoAttempt.claim = NoClaim
  <2>1. FALSE \in BOOLEAN /\ TRUE \in BOOLEAN
    BY Zenon
  <2>2. NewState \in Watch
    BY <2>1 DEF NewState, Watch
  <2> QED BY <2>1, <2>2 DEF NoAttempt, Attempt
<1>3. pc' \notin Handling
  BY DEF Handling
<1>4. attempt' \in Attempt /\ attempt'.claim = NoClaim /\ attempt'.rest \in {attempt.rest, {}}
  BY <1>1, <1>2 DEF LocalFine
<1>5. LocalFine'
  BY <1>3, <1>4 DEF LocalFine
<1>6. CountsFine' /\ \A m \in Message : composer'[m] \in Nat /\ composer'[m] <= composer[m]
                                        /\ (composer'[m] > 0 => composer[m] > 0)
  BY <1>1 DEF CountsFine
<1>7. ListsFine'
  BY <1>1, <1>4, ListsStay
<1>8. OrderFine'
  <2>1. \A m \in Message : Touched(m)' => Touched(m)
    BY <1>6 DEF Touched
  <2> QED BY <1>1, <2>1, OrderStays
<1>9. AckFine'
  BY <1>1 DEF AckFine, Onwards, Final
<1>10. Budget'
  <2>1. ASSUME NEW m \in Message
        PROVE  Uses(m)' <= excused'[m] + (IF Spent(m)' THEN 1 ELSE 0)
    <3>1. Uses(m)' = reached[m] + composer'[m] /\ Uses(m) >= reached[m] + composer[m]
      BY <1>1, <1>3 DEF Uses, Handling, CountsFine
    <3>2. Uses(m) \in Nat /\ excused[m] \in Nat /\ reached[m] \in Nat /\ composer[m] \in Nat
          /\ composer'[m] \in Nat /\ composer'[m] <= composer[m]
      BY <1>1, <1>6, UsesCount DEF CountsFine
    <3>3. Uses(m) <= excused[m] + (IF Spent(m) THEN 1 ELSE 0)
      BY <1>1 DEF Budget
    <3> QED BY <3>1, <3>2, <3>3
  <2> QED BY <2>1, <1>3 DEF Budget, Handling
<1> QED BY <1>5, <1>6, <1>7, <1>8, <1>9, <1>10 DEF IInv

-----------------------------------------------------------------------------
(* The server's other clients and its clock.                               *)

LEMMA MishapCount ==
  ASSUME IInv, Mishap \/ NoMishap
  PROVE  mishaps' \in 0..MaxMishaps
BY DEF IInv, CountsFine, Mishap, NoMishap

\* What a call does that ends a lease, or settles what nobody has.
LEMMA EndedMail ==
  ASSUME MailFine, NEW m \in Message, NEW c, Mail!Settle({}, m, c) \/ Mail!GiveBack({}, m, c)
  PROVE  /\ holder[m] = c /\ status[m] \in {"waiting", "leased"} /\ UNCHANGED spent
         /\ holder' = [holder EXCEPT ![m] = NoClaim]
         /\ status' = [status EXCEPT ![m] = IF Mail!Settle({}, m, c) THEN "settled" ELSE "waiting"]
         /\ Mail!GiveBack({}, m, c) => status[m] = "leased"
<1>1. CASE Mail!Settle({}, m, c)
  <2>1. /\ (status[m] = "leased" /\ holder[m] = c) \/ (status[m] = "waiting" /\ c = NoClaim)
        /\ status' = [status EXCEPT ![m] = "settled"]
        /\ holder' = [holder EXCEPT ![m] = NoClaim] /\ UNCHANGED spent
    BY <1>1, PlainMail DEF Mail!Settle
  <2>2. status'[m] = "settled"
    BY <2>1 DEF MailFine
  <2>3. ~Mail!GiveBack({}, m, c)
    <3> SUFFICES ASSUME Mail!GiveBack({}, m, c) PROVE FALSE
      OBVIOUS
    <3>1. status' = [status EXCEPT ![m] = "waiting"]
      BY PlainMail DEF Mail!GiveBack
    <3> QED BY <2>2, <3>1 DEF MailFine
  <2> QED BY <1>1, <2>1, <2>3 DEF MailFine
<1>2. CASE Mail!GiveBack({}, m, c) /\ ~Mail!Settle({}, m, c)
  <2>1. /\ status[m] = "leased" /\ holder[m] = c
        /\ status' = [status EXCEPT ![m] = "waiting"]
        /\ holder' = [holder EXCEPT ![m] = NoClaim] /\ UNCHANGED spent
    BY <1>2, PlainMail DEF Mail!GiveBack
  <2> QED BY <1>2, <2>1
<1> QED BY <1>1, <1>2

LEMMA PostKeeps ==
  ASSUME IInv, NEW m \in Message, Post(m)
  PROVE  IInv'
<1>1. /\ \A n \in Message : Earlier(n, m) => status[n] # "unsent"
      /\ status[m] = "unsent" /\ status' = [status EXCEPT ![m] = "waiting"]
      /\ UNCHANGED <<holder, spent, theirs, local, composer, mishaps, history>>
  BY DEF Post, Earlier, Mail!Post
<1>2. holder' = [holder EXCEPT ![m] = NoClaim]
  BY <1>1 DEF IInv, MailFine
<1>3. /\ MailFine' /\ Onwards
      /\ \A n \in Message : n # m => status'[n] = status[n] /\ holder'[n] = holder[n]
  BY <1>1, <1>2, OneMoves DEF IInv, Final, history
<1>4. \A n \in Message : Spent(n) => Spent(n)'
  BY <1>1, <1>3 DEF Spent, history
<1> QED BY <1>1, <1>3, <1>4, OutsideStep DEF IInv, CountsFine, history

LEMMA CancelQueuedKeeps ==
  ASSUME IInv, NEW m \in Message, CancelQueued(m)
  PROVE  IInv'
<1>1. /\ status[m] = "waiting" /\ status' = [status EXCEPT ![m] = "withdrawn"]
      /\ UNCHANGED <<holder, spent, theirs, local, composer, mishaps, history>>
  BY PlainMail DEF CancelQueued, Mail!Withdraw, IInv
<1>2. holder' = [holder EXCEPT ![m] = NoClaim]
  BY <1>1 DEF IInv, MailFine
<1>3. /\ MailFine' /\ Onwards
      /\ \A n \in Message : n # m => status'[n] = status[n] /\ holder'[n] = holder[n]
  BY <1>1, <1>2, OneMoves DEF IInv, Final, history
<1>4. \A n \in Message : Spent(n) => Spent(n)'
  BY <1>1, <1>3 DEF Spent, history
<1> QED BY <1>1, <1>3, <1>4, OutsideStep DEF IInv, CountsFine, history

LEMMA OtherClaimsKeeps ==
  ASSUME IInv, NEW m \in Message, OtherClaims(m)
  PROVE  IInv'
<1>1. /\ Mishap /\ Mail!Grant({}, {m}, NewClaim) /\ theirs' = theirs \cup {NewClaim}
      /\ granted' = granted \cup {m}
      /\ UNCHANGED <<local, composer, reached, excused, acked>>
  BY DEF OtherClaims
<1>2. /\ MailFine' /\ Onwards /\ NewClaim \notin spent /\ status[m] = "waiting"
      /\ \A n \in Message : n # m => status'[n] = status[n] /\ holder'[n] = holder[n]
  <2>1. PICK G \in SUBSET Message : G = {m}
    OBVIOUS
  <2>2. /\ MailFine /\ Mail!Grant({}, G, NewClaim) /\ granted' = granted \cup G
        /\ theirs' \in {theirs, theirs \cup {NewClaim}}
    BY <1>1, <2>1 DEF IInv
  <2>3. /\ MailFine' /\ Onwards /\ NewClaim \notin spent
        /\ \A n \in G : status[n] = "waiting"
        /\ \A n \in Message : n \notin G => status'[n] = status[n] /\ holder'[n] = holder[n]
    BY <2>2, SomeGranted
  <2> QED BY <2>1, <2>3
<1>3. ASSUME NEW n \in Message, Spent(n) PROVE Spent(n)'
  <2>1. CASE n \in acked
    BY <1>1, <2>1 DEF Spent
  <2>2. CASE status[n] = "leased" /\ holder[n] \notin theirs
    <3>1. n # m /\ holder[n] \in spent
      BY <1>2, <2>2 DEF IInv, MailFine
    <3>2. holder'[n] \notin theirs' /\ status'[n] = "leased"
      BY <1>1, <1>2, <2>2, <3>1
    <3> QED BY <3>2 DEF Spent
  <2> QED BY <1>3, <2>1, <2>2 DEF Spent
<1> QED BY <1>1, <1>2, <1>3, OutsideStep, MishapCount DEF IInv, CountsFine

LEMMA OtherEndsKeeps ==
  ASSUME IInv, NEW m \in Message, OtherEnds(m)
  PROVE  IInv'
<1>1. PICK c \in theirs \cup {NoClaim} : Mail!Settle({}, m, c) \/ Mail!GiveBack({}, m, c)
  BY DEF OtherEnds
<1>2. UNCHANGED <<theirs, local, composer, mishaps, history>>
  BY DEF OtherEnds
<1>3. PICK s \in {"waiting", "settled"} : s = IF Mail!Settle({}, m, c) THEN "settled" ELSE "waiting"
  OBVIOUS
<1>4. /\ holder[m] = c /\ status[m] \in {"waiting", "leased"} /\ UNCHANGED spent
      /\ holder' = [holder EXCEPT ![m] = NoClaim] /\ status' = [status EXCEPT ![m] = s]
  BY <1>1, <1>3, EndedMail DEF IInv
<1>5. /\ MailFine' /\ Onwards
      /\ \A n \in Message : n # m => status'[n] = status[n] /\ holder'[n] = holder[n]
  BY <1>2, <1>4, OneMoves DEF IInv, Final, history
<1>6. \A n \in Message : Spent(n) => Spent(n)'
  <2>1. Spent(m) => m \in acked
    BY <1>4 DEF Spent, IInv, MailFine
  <2> QED BY <1>2, <1>5, <2>1 DEF Spent, history
<1> QED BY <1>2, <1>5, <1>6, OutsideStep DEF IInv, CountsFine, history

LEMMA LapseKeeps ==
  ASSUME IInv, NEW m \in Message, Lapse(m)
  PROVE  IInv'
<1>1. /\ status[m] = "leased" /\ Mail!Lapse({m}) /\ (Mishap \/ NoMishap)
      /\ excused' = IF holder[m] \in theirs THEN excused ELSE Raised(excused, {m})
      /\ UNCHANGED <<theirs, local, composer, reached, acked, granted>>
  BY DEF Lapse
<1>2. /\ status' = [status EXCEPT ![m] = "waiting"] /\ holder' = [holder EXCEPT ![m] = NoClaim]
      /\ UNCHANGED spent
  BY <1>1 DEF Mail!Lapse, Mail!StatusAfter, Mail!HolderAfter, IInv, MailFine
<1>3. /\ MailFine' /\ Onwards
      /\ \A n \in Message : n # m => status'[n] = status[n] /\ holder'[n] = holder[n]
  BY <1>1, <1>2, OneMoves DEF IInv, Final
<1>4. /\ excused \in [Message -> Nat] /\ excused' \in [Message -> Nat]
      /\ \A n \in Message : /\ n # m => excused'[n] = excused[n]
                            /\ holder[m] \in theirs => excused'[n] = excused[n]
      /\ holder[m] \notin theirs => excused'[m] = excused[m] + 1
  BY <1>1, RaisedCounts DEF IInv, CountsFine
<1>5. \A n \in Message : excused[n] <= excused'[n]
  <2>1. \A n \in Message : excused[n] \in Nat
    BY <1>4
  <2> QED BY <1>4, <2>1
<1>6. \A n \in Message : Spent(n) => Spent(n)' \/ excused'[n] = excused[n] + 1
  BY <1>1, <1>3, <1>4 DEF Spent
<1>7. mishaps' \in 0..MaxMishaps
  BY <1>1, MishapCount
<1> QED BY <1>1, <1>3, <1>4, <1>5, <1>6, <1>7, OutsideStep

-----------------------------------------------------------------------------
(* Looks at the pane and at the server, and the choice of a sender.        *)

LEMMA SelectedFine ==
  ASSUME LocalFine
  PROVE  Selected \in Watch /\ (held \/ Adopts) \in BOOLEAN
<1>1. state \in Watch /\ queue \subseteq Message
  BY DEF LocalFine
<1>2. FALSE \in BOOLEAN /\ 0 \in 0..IdleLooks /\ \A x : (held \/ x) \in BOOLEAN
  BY Zenon, SMT
<1>3. Steady \in Watch
  BY <1>1, <1>2 DEF Steady, Watch
<1>4. Adopts => Chosen \in Sender
  <2> SUFFICES ASSUME Adopts PROVE Chosen \in Sender
    OBVIOUS
  <2>1. queue # {} /\ (Pressing # {} \/ Chosen # NoSender) /\ (Pressing = {} => Chosen # state.sender)
    BY DEF Adopts, Selects
  <2>2. CASE Pressing # {}
    <3>1. Pressing \in SUBSET Message
      BY <1>1 DEF Pressing
    <3> QED BY <2>2, <3>1, FirstIn DEF Chosen
  <2>3. CASE Pressing = {}
    <3>1. First(queue) \in Message
      BY <1>1, <2>1, FirstIn
    <3> QED BY <2>1, <2>3, <3>1 DEF Chosen
  <2> QED BY <2>2, <2>3
<1>5. Selected \in Watch
  BY <1>3, <1>4 DEF Selected, Watch
<1> QED BY <1>2, <1>5

\* What is left of the queue skips nothing: what goes is all there is of its kind.
LEMMA RestClosed ==
  ASSUME LocalFine, ListsFine
  PROVE  queue \ Candidates \subseteq Message /\ Closed(queue \ Candidates)
<1>1. \A n, m \in queue : SameKind(n, m) /\ n \in Candidates => m \in Candidates
  BY DEF SameKind, Earlier, Candidates, From
<1> QED BY <1>1 DEF Closed, ListsFine, LocalFine

\* All that waits is in a list without gaps.
LEMMA WaitingClosed ==
  ASSUME MailFine
  PROVE  Waiting \subseteq Message /\ Closed(Waiting)
<1>1. ASSUME NEW m \in Waiting, NEW n \in Message, SameKind(n, m)
      PROVE  n \in Waiting \/ Provided(n)
  BY <1>1 DEF Waiting, SameKind, MailFine, Provided, Status
<1> QED BY <1>1 DEF Closed, Waiting

LEMMA LookKeeps ==
  ASSUME IInv, LookSame \/ LookMoved
  PROVE  IInv'
<1>1. /\ pc = "look" /\ pc' = "deliver" /\ Fetch
      /\ UNCHANGED <<mailbox, file, attempt, composer, history>>
  BY DEF LookSame, LookMoved
<1>2. MailFine /\ LocalFine /\ ListsFine /\ attempt.left = {}
  BY <1>1 DEF IInv, LocalFine, Handling
<1>3. MailFine' /\ Onwards
  BY <1>1, <1>2, SameMail DEF history
<1>4. /\ queue' \subseteq Message /\ (UNCHANGED queue \/ ClosedNow(queue'))
      /\ held' \in BOOLEAN /\ (Mishap \/ NoMishap)
  <2>1. CASE /\ NoMishap /\ queue' = Waiting
             /\ held' = (held \/ \E m \in Waiting \ queue : SenderOf[m] = state.sender)
    <3>1. Waiting \subseteq Message /\ ClosedNow(Waiting)
      BY <1>2, <1>3, WaitingClosed, ClosedStays
    <3>2. held' \in BOOLEAN
      BY <2>1, Zenon
    <3>3. ClosedNow(queue')
      BY <2>1, <3>1
    <3> QED BY <2>1, <3>1, <3>2, <3>3
  <2>2. CASE Mishap /\ UNCHANGED <<queue, held>>
    BY <1>2, <2>2 DEF LocalFine
  <2> QED BY <1>1, <2>1, <2>2 DEF Fetch
<1>5. state' \in Watch
  <2>1. state \in Watch /\ TRUE \in BOOLEAN
    BY <1>2, Zenon DEF LocalFine
  <2>2. CASE LookSame
    BY <2>1, <2>2 DEF LookSame, Watch
  <2>3. CASE LookMoved
    BY <2>1, <2>3 DEF LookMoved, Watch
  <2> QED BY <2>2, <2>3
<1>6. \A m \in Message : Spent(m) => Spent(m)'
  BY <1>1 DEF Spent, mailbox, history
<1>7. mishaps' \in 0..MaxMishaps
  BY <1>4, MishapCount
<1> QED BY <1>1, <1>2, <1>3, <1>4, <1>5, <1>6, <1>7, IdleStep DEF history, LocalFine

LEMMA KeepQueuedKeeps ==
  ASSUME IInv, KeepQueued
  PROVE  IInv'
<1>1. /\ pc = "deliver" /\ pc' = "save" /\ state' = Selected /\ held' = (held \/ Adopts)
      /\ UNCHANGED <<mailbox, queue, file, attempt, composer, mishaps, history>>
  BY DEF KeepQueued
<1>2. MailFine /\ LocalFine /\ attempt.left = {} /\ mishaps \in 0..MaxMishaps
  BY <1>1 DEF IInv, LocalFine, Handling, CountsFine
<1>3. MailFine' /\ Onwards
  BY <1>1, <1>2, SameMail DEF history
<1>4. state' \in Watch /\ held' \in BOOLEAN
  BY <1>1, <1>2, SelectedFine
<1>5. \A m \in Message : Spent(m) => Spent(m)'
  BY <1>1 DEF Spent, mailbox, history
<1> QED BY <1>1, <1>2, <1>3, <1>4, <1>5, IdleStep DEF history, LocalFine

LEMMA HoldEndsKeeps ==
  ASSUME IInv, HoldEnds
  PROVE  IInv'
<1>1. /\ pc = "look" /\ held' = FALSE
      /\ UNCHANGED <<mailbox, pc, queue, file, state, attempt, composer, mishaps, history>>
  BY DEF HoldEnds
<1>2. MailFine /\ LocalFine /\ attempt.left = {} /\ mishaps \in 0..MaxMishaps
  BY <1>1 DEF IInv, LocalFine, Handling, CountsFine
<1>3. MailFine' /\ Onwards
  BY <1>1, <1>2, SameMail DEF history
<1>4. held' \in BOOLEAN
  BY <1>1, Zenon
<1>5. \A m \in Message : Spent(m) => Spent(m)'
  BY <1>1 DEF Spent, mailbox, history
<1> QED BY <1>1, <1>2, <1>3, <1>4, <1>5, IdleStep DEF history, LocalFine

-----------------------------------------------------------------------------
(* The claim.                                                              *)

LEMMA GrantableIn ==
  ASSUME LocalFine
  PROVE  /\ Grantable \in SUBSET Message /\ Grantable \subseteq Candidates \cap Waiting
         /\ Candidates \subseteq queue
         /\ Grantable = {} => Candidates \cap Waiting = {}
<1>1. Candidates \subseteq queue /\ Candidates \cap Waiting \in SUBSET Message
  BY DEF Candidates, From, Waiting
<1>2. Grantable = {} => Candidates \cap Waiting = {}
  BY <1>1, OldestSome DEF Grantable
<1>3. Grantable \subseteq Candidates \cap Waiting
  BY DEF Grantable, Oldest
<1> QED BY <1>1, <1>2, <1>3

LEMMA GrantFacts ==
  ASSUME MailFine, LocalFine, Grant
  PROVE  /\ MailFine' /\ Onwards /\ NewClaim \in ClaimId
         /\ \A m \in Grantable : status[m] = "waiting" /\ status'[m] = "leased"
                                 /\ holder'[m] = NewClaim /\ m \in granted'
         /\ \A m \in Message : Spent(m) => Spent(m)'
         /\ \A m \in Grantable : Spent(m)'
         /\ UNCHANGED <<theirs, reached, excused, acked>>
<1>1. /\ Mail!Grant({}, Grantable, NewClaim) /\ granted' = granted \cup Grantable
      /\ UNCHANGED <<theirs, reached, excused, acked>>
  BY DEF Grant
<1>2. Grantable \in SUBSET Message
  BY GrantableIn
<1>3. /\ MailFine' /\ Onwards /\ spent' = spent \cup {NewClaim} /\ NewClaim \notin spent
      /\ NewClaim \in ClaimId
      /\ \A m \in Grantable : status[m] = "waiting" /\ status'[m] = "leased" /\ holder'[m] = NewClaim
      /\ \A m \in Message : m \notin Grantable => status'[m] = status[m] /\ holder'[m] = holder[m]
  BY <1>1, <1>2, SomeGranted
<1>4. NewClaim \notin theirs
  BY <1>3 DEF MailFine
<1>5. \A m \in Grantable : Spent(m)'
  BY <1>1, <1>3, <1>4 DEF Spent
<1>6. \A m \in Message : Spent(m) => Spent(m)'
  BY <1>1, <1>3, <1>5 DEF Spent
<1> QED BY <1>1, <1>3, <1>5, <1>6

LEMMA ClaimNothingKeeps ==
  ASSUME IInv, ClaimNothing
  PROVE  IInv'
<1>1. /\ pc = "deliver" /\ Grantable = {} /\ pc' = "save" /\ queue' = queue \ Candidates
      /\ state' = Selected /\ held' = (held \/ Adopts)
      /\ UNCHANGED <<mailbox, file, attempt, composer, mishaps, history>>
  BY DEF ClaimNothing
<1>2. MailFine /\ LocalFine /\ ListsFine /\ attempt.left = {} /\ mishaps \in 0..MaxMishaps
  BY <1>1 DEF IInv, LocalFine, Handling, CountsFine
<1>3. MailFine' /\ Onwards
  BY <1>1, <1>2, SameMail DEF history
<1>4. state' \in Watch /\ held' \in BOOLEAN
  BY <1>1, <1>2, SelectedFine
<1>5. queue' \subseteq Message /\ ClosedNow(queue')
  <2>1. PICK q : q = queue \ Candidates
    OBVIOUS
  <2>2. q \subseteq Message /\ Closed(q)
    BY <1>2, <2>1, RestClosed
  <2>3. ClosedNow(q)
    BY <1>3, <2>2, ClosedStays
  <2>4. queue' = q
    BY <1>1, <2>1
  <2> QED BY <2>2, <2>3, <2>4
<1>6. \A m \in Message : Spent(m) => Spent(m)'
  BY <1>1 DEF Spent, mailbox, history
<1> QED BY <1>1, <1>2, <1>3, <1>4, <1>5, <1>6, IdleStep DEF history, LocalFine

LEMMA ClaimFailsKeeps ==
  ASSUME IInv, ClaimFails
  PROVE  IInv'
<1>1. /\ pc = "deliver" /\ pc' = "save" /\ Mishap
      /\ Grant \/ UNCHANGED <<mailbox, history>>
      /\ UNCHANGED <<queue, file, state, held, attempt, composer>>
  BY DEF ClaimFails
<1>2. MailFine /\ LocalFine /\ attempt.left = {} /\ mishaps' \in 0..MaxMishaps
  BY <1>1, MishapCount DEF IInv, LocalFine, Handling
<1>3. /\ MailFine' /\ Onwards /\ UNCHANGED <<reached, excused, acked>>
      /\ \A m \in Message : Spent(m) => Spent(m)'
  <2>1. CASE Grant
    BY <1>2, <2>1, GrantFacts
  <2>2. CASE UNCHANGED <<mailbox, history>>
    BY <1>2, <2>2, SameMail DEF Spent, mailbox, history
  <2> QED BY <1>1, <2>1, <2>2
<1> QED BY <1>1, <1>2, <1>3, IdleStep DEF LocalFine

-----------------------------------------------------------------------------
(* The file, and the process.                                              *)

LEMMA FileKeeps ==
  ASSUME IInv, OpenQueueFile \/ WriteQueueFile
  PROVE  IInv'
<1>1. /\ pc \in {"save", "write"} /\ pc' \in {"write", "look"}
      /\ UNCHANGED <<mailbox, queue, state, held, attempt, composer, mishaps, history>>
  BY DEF OpenQueueFile, WriteQueueFile
<1>2. MailFine /\ LocalFine /\ ListsFine /\ attempt.left = {} /\ mishaps \in 0..MaxMishaps
  BY <1>1 DEF IInv, LocalFine, Handling, CountsFine
<1>3. MailFine' /\ Onwards
  BY <1>1, <1>2, SameMail DEF history
<1>4. PICK S \in {queue, {}}, b \in BOOLEAN : file' = [torn |-> b, messages |-> S]
  <2>1. FALSE \in BOOLEAN /\ TRUE \in BOOLEAN
    BY Zenon
  <2> QED BY <2>1 DEF OpenQueueFile, WriteQueueFile
<1>5. S \subseteq Message /\ ClosedNow(S)
  BY <1>2, <1>3, ClosedStays DEF LocalFine, ListsFine, ClosedNow
<1>6. file' \in [torn : BOOLEAN, messages : SUBSET Message] /\ (file.messages)' = S
  BY <1>4, <1>5
<1>7. ClosedNow((file.messages)')
  BY <1>5, <1>6
<1>8. \A m \in Message : Spent(m) => Spent(m)'
  BY <1>1 DEF Spent, mailbox, history
<1> QED BY <1>1, <1>2, <1>3, <1>6, <1>7, <1>8, IdleStep DEF history, LocalFine

LEMMA GoneKeeps ==
  ASSUME IInv, Gone, UNCHANGED composer \/ composer' = [m \in Message |-> 0]
  PROVE  IInv'
<1>1. /\ Mishap /\ pc' = "down" /\ queue' = {} /\ state' = NewState /\ held' = FALSE
      /\ attempt' = NoAttempt /\ UNCHANGED <<mailbox, file, history>>
  BY DEF Gone
<1>2. MailFine /\ LocalFine /\ mishaps' \in 0..MaxMishaps
  BY <1>1, MishapCount DEF IInv
<1>3. MailFine' /\ Onwards
  BY <1>1, <1>2, SameMail DEF history
<1>4. held' \in BOOLEAN /\ TRUE \in BOOLEAN
  BY <1>1, Zenon
<1>5. state' \in Watch
  BY <1>1, <1>4 DEF NewState, Watch
<1>6. ClosedNow(queue') /\ attempt'.left = {}
  BY <1>1 DEF ClosedNow, NoAttempt
<1>7. \A m \in Message : Spent(m) => Spent(m)'
  BY <1>1 DEF Spent, mailbox, history
<1> QED BY <1>1, <1>2, <1>3, <1>4, <1>5, <1>6, <1>7, IdleStep DEF history, LocalFine

LEMMA StartKeeps ==
  ASSUME IInv, Start
  PROVE  IInv'
<1>1. /\ pc = "down" /\ pc' = "look" /\ queue' = file.messages
      /\ UNCHANGED <<mailbox, file, state, held, attempt, composer, mishaps, history>>
  BY DEF Start
<1>2. MailFine /\ LocalFine /\ ListsFine /\ attempt.left = {} /\ mishaps \in 0..MaxMishaps
  BY <1>1 DEF IInv, LocalFine, Handling, CountsFine
<1>3. MailFine' /\ Onwards
  BY <1>1, <1>2, SameMail DEF history
<1>4. PICK S \in SUBSET Message : S = file.messages
  BY <1>2 DEF LocalFine
<1>5. ClosedNow(S) /\ queue' = S
  BY <1>1, <1>2, <1>3, <1>4, ClosedStays DEF ListsFine
<1>6. ClosedNow(queue')
  BY <1>5
<1>7. \A m \in Message : Spent(m) => Spent(m)'
  BY <1>1 DEF Spent, mailbox, history
<1> QED BY <1>1, <1>2, <1>3, <1>4, <1>5, <1>6, <1>7, IdleStep DEF history, LocalFine

-----------------------------------------------------------------------------
(* A delivery.                                                             *)

\* Of one sender's messages of a kind, the oldest are claimed.
LEMMA ClaimSomeKeeps ==
  ASSUME IInv, ClaimSome
  PROVE  IInv'
<1>1. PICK a : a = [claim |-> NewClaim, left |-> Grantable, rest |-> queue \ Candidates,
                    next |-> Selected, adopts |-> Adopts]
  OBVIOUS
<1>2. /\ pc = "deliver" /\ Grantable # {} /\ pc' = "paste" /\ Grant /\ attempt' = a
      /\ UNCHANGED <<queue, file, state, held, composer, mishaps>>
  BY <1>1 DEF ClaimSome
<1>3. MailFine /\ LocalFine /\ CountsFine /\ ListsFine /\ OrderFine /\ AckFine /\ Budget
  BY DEF IInv
<1>4. /\ MailFine' /\ Onwards /\ NewClaim \in ClaimId
      /\ \A m \in Grantable : status[m] = "waiting" /\ status'[m] = "leased"
                              /\ holder'[m] = NewClaim /\ m \in granted'
      /\ \A m \in Message : Spent(m) => Spent(m)'
      /\ \A m \in Grantable : Spent(m)'
      /\ UNCHANGED <<theirs, reached, excused, acked>>
  BY <1>2, <1>3, GrantFacts
<1>5. /\ Grantable \in SUBSET Message /\ Grantable \subseteq Candidates \cap Waiting
      /\ Candidates \subseteq queue /\ queue \subseteq Message
  BY <1>3, GrantableIn DEF LocalFine
<1>6. /\ a \in Attempt /\ a.left = Grantable /\ a.rest = queue \ Candidates /\ a.claim # NoClaim
  <2>1. Selected \in Watch /\ queue \ Candidates \subseteq Message
    BY <1>3, SelectedFine, RestClosed
  <2>2. Adopts \in BOOLEAN
    BY Zenon DEF Adopts
  <2> QED BY <1>1, <1>4, <1>5, <2>1, <2>2 DEF Attempt, ClaimId, NoClaim
<1>7. LocalFine'
  BY <1>2, <1>3, <1>6 DEF LocalFine, Handling
<1>8. CountsFine'
  BY <1>2, <1>3, <1>4 DEF CountsFine
<1>9. ListsFine'
  <2>1. PICK S : S = queue \ Candidates
    OBVIOUS
  <2>2. S \in SUBSET Message /\ Closed(S)
    BY <1>3, <2>1, RestClosed
  <2>3. ClosedNow(S) /\ (attempt.rest)' = S
    BY <1>2, <1>4, <1>6, <2>1, <2>2, ClosedStays
  <2>4. ClosedNow((attempt.rest)')
    BY <2>3
  <2>5. \A m \in attempt'.left : status'[m] # "unsent"
    BY <1>2, <1>4, <1>6
  <2> QED BY <1>2, <1>3, <1>4, <2>4, <2>5, ListsStay
<1>10. OrderFine'
  <2>1. \A n \in Message : Provided(n) => Provided(n)'
    BY <1>4, ProvidedStays
  <2>2. ASSUME NEW m \in Grantable, NEW n \in Message, SameKind(n, m)
        PROVE  Provided(n)'
    <3>1. m \in Candidates /\ m \in queue /\ n < m
      BY <1>5, <2>2 DEF SameKind, Earlier
    <3>2. n \in queue \/ Provided(n)
      BY <1>3, <2>2, <3>1 DEF ListsFine, Closed
    <3>3. CASE n \in queue /\ ~Provided(n)
      <4>1. n \in Candidates
        BY <2>2, <3>1, <3>3 DEF SameKind, Earlier, Candidates, From
      <4>2. status[n] # "unsent"
        BY <1>3, <3>3 DEF ListsFine, Closed
      <4>3. n \in Waiting
        BY <1>3, <3>3, <4>2 DEF Waiting, MailFine, Provided, Status
      <4>4. n \in Grantable
        <5>1. Candidates \cap Waiting \in SUBSET Message /\ n \in Candidates \cap Waiting
          BY <1>5, <4>1, <4>3
        <5> QED BY <2>2, <3>1, <5>1, OldestDown DEF Grantable
      <4> QED BY <1>4, <4>4 DEF Provided
    <3> QED BY <2>1, <3>2, <3>3
  <2>3. \A m \in Message : Touched(m)' => Touched(m) \/ m \in Grantable
    BY <1>2, <1>4, <1>6 DEF Touched
  <2> QED BY <1>3, <2>1, <2>2, <2>3 DEF OrderFine, SameKind, Earlier
<1>11. AckFine'
  BY <1>2, <1>3, <1>4 DEF AckFine, Onwards, Final
<1>12. Budget'
  <2>1. \A m \in Message : Uses(m) \in Nat /\ excused[m] \in Nat
    BY <1>3, UsesCount
  <2>2. \A m \in Message : Uses(m)' = Uses(m) + (IF m \in Grantable THEN 1 ELSE 0)
    <3>1. \A m \in Message : reached[m] \in Nat /\ composer[m] \in Nat
      BY <1>3 DEF CountsFine
    <3> QED BY <1>2, <1>4, <1>6, <3>1 DEF Uses
  <2>3. \A m \in Grantable : ~Spent(m)
    BY <1>3, <1>4 DEF Spent, AckFine
  <2>4. ASSUME NEW m \in Message
        PROVE  Uses(m)' <= excused'[m] + (IF Spent(m)' THEN 1 ELSE 0)
    <3>1. Uses(m) <= excused[m] + (IF Spent(m) THEN 1 ELSE 0)
      BY <1>3 DEF Budget
    <3> QED BY <1>4, <2>1, <2>2, <2>3, <3>1
  <2> QED BY <1>2, <2>4 DEF Budget
<1> QED BY <1>4, <1>7, <1>8, <1>9, <1>10, <1>11, <1>12 DEF IInv

\* The claimed messages are pasted, submitted, or put back.
LEMMA InjectionStep ==
  ASSUME IInv, pc \in Handling, pc' \in Handling \ {"paste"},
         UNCHANGED <<mailbox, file, attempt, acked, granted>>,
         CountsFine', queue' \in {queue, attempt.rest}, state' \in Watch, held' \in BOOLEAN,
         \A m \in Message : Touched(m)' => Touched(m),
         \A m \in Message : reached[m] <= reached'[m],
         \A m \in attempt.left : /\ pc' = "submit" => composer'[m] > 0
                                 /\ pc' = "ack" => reached'[m] > 0,
         \A m \in Message : Uses(m)' <= excused'[m] + (IF Spent(m) THEN 1 ELSE 0),
         pc' = "release" => \A m \in attempt.left : Uses(m)' <= excused'[m]
  PROVE  IInv'
<1>1. MailFine /\ LocalFine /\ CountsFine /\ ListsFine /\ OrderFine /\ AckFine /\ Budget
  BY DEF IInv
<1>2. MailFine' /\ Onwards
  BY <1>1, SameMail
<1>3. LocalFine'
  BY <1>1 DEF LocalFine, Attempt
<1>4. ListsFine'
  <2>1. CASE queue' = queue
    BY <1>1, <1>2, <2>1, ListsStay
  <2>2. CASE queue' = attempt.rest
    <3>1. PICK S : S = attempt.rest
      OBVIOUS
    <3>2. S \in SUBSET Message /\ Closed(S)
      BY <1>1, <3>1 DEF LocalFine, Attempt, ListsFine
    <3>3. ClosedNow(S) /\ queue' = S
      BY <1>2, <2>2, <3>1, <3>2, ClosedStays
    <3>4. ClosedNow(queue')
      BY <3>3
    <3> QED BY <1>1, <1>2, <3>4, ListsStay
  <2> QED BY <2>1, <2>2
<1>5. OrderFine'
  BY <1>1, <1>2, OrderStays
<1>6. AckFine'
  <2>1. \A m \in acked : m \in Message /\ status'[m] = "settled" /\ reached'[m] > 0
    <3>1. \A m \in Message : reached[m] \in Nat /\ reached'[m] \in Nat
      BY <1>1 DEF CountsFine
    <3> QED BY <1>1, <3>1 DEF AckFine, mailbox
  <2> QED BY <1>1, <2>1 DEF AckFine
<1>7. \A m \in Message : Spent(m)' <=> Spent(m)
  BY DEF Spent, mailbox
<1>8. Budget'
  BY <1>7 DEF Budget
<1> QED BY <1>2, <1>3, <1>4, <1>5, <1>6, <1>8 DEF IInv

LEMMA AttemptIn ==
  ASSUME LocalFine, pc \in Handling
  PROVE  /\ attempt.left \in SUBSET Message /\ attempt.left # {} /\ attempt.claim # NoClaim
         /\ First(attempt.left) \in attempt.left /\ First(attempt.left) \in Message
BY FirstIn DEF LocalFine, Attempt

LEMMA PasteKeeps ==
  ASSUME IInv, Paste
  PROVE  IInv'
<1>1. /\ pc = "paste" /\ UNCHANGED <<mailbox, queue, file, held, attempt, history>>
  BY DEF Paste
<1>2. LocalFine /\ CountsFine /\ Budget /\ pc \in Handling
  BY <1>1 DEF IInv, Handling
<1>3. attempt.left \in SUBSET Message
  BY <1>2, AttemptIn
<1>4. /\ UNCHANGED <<reached, excused, acked, granted>>
      /\ \A m \in Message : reached[m] \in Nat /\ composer[m] \in Nat /\ excused[m] \in Nat
  BY <1>1, <1>2 DEF history, CountsFine
<1>5. CASE /\ NoMishap /\ pc' = "submit"
           /\ state' = [state EXCEPT !.differs = TRUE]
           /\ composer' = Raised(composer, attempt.left)
  <2>1. /\ composer' \in [Message -> Nat]
        /\ \A m \in Message : composer'[m] = composer[m] + (IF m \in attempt.left THEN 1 ELSE 0)
    BY <1>2, <1>3, <1>5, RaisedCounts DEF CountsFine
  <2>2. CountsFine' /\ mishaps' = mishaps
    BY <1>2, <1>4, <1>5, <2>1 DEF CountsFine, NoMishap
  <2>3. TRUE \in BOOLEAN
    BY Zenon
  <2>4. state' \in Watch
    BY <1>2, <1>5, <2>3 DEF LocalFine, Watch
  <2>5. \A m \in Message : Touched(m)' => Touched(m)
    BY <1>1, <1>4, <2>1 DEF Touched
  <2>6. ASSUME NEW m \in attempt.left PROVE composer'[m] > 0
    <3>1. m \in Message /\ composer[m] \in Nat /\ composer'[m] = composer[m] + 1
      BY <1>3, <1>4, <2>1
    <3> QED BY <3>1
  <2>7. \A m \in Message : Uses(m)' = Uses(m)
    BY <1>1, <1>4, <1>5, <2>1 DEF Uses
  <2> QED BY <1>1, <1>2, <1>4, <1>5, <2>2, <2>4, <2>5, <2>6, <2>7, InjectionStep
          DEF Handling, LocalFine, Budget
<1>6. CASE Mishap /\ pc' = "release" /\ UNCHANGED <<state, composer>>
  <2>1. CountsFine'
    BY <1>2, <1>4, <1>6, MishapCount DEF CountsFine
  <2>2. \A m \in Message : Touched(m)' => Touched(m)
    BY <1>1, <1>4, <1>6 DEF Touched
  <2>3. ASSUME NEW m \in Message
        PROVE  /\ Uses(m)' = reached[m] + composer[m]
               /\ Uses(m) = reached[m] + composer[m] + (IF m \in attempt.left THEN 1 ELSE 0)
               /\ Uses(m) <= excused[m] + (IF Spent(m) THEN 1 ELSE 0)
               /\ excused'[m] = excused[m]
    <3>1. reached[m] \in Nat /\ composer[m] \in Nat
      BY <1>4
    <3>2. Uses(m)' = reached[m] + composer[m]
      BY <1>1, <1>4, <1>6, <3>1 DEF Uses
    <3> QED BY <1>1, <1>2, <1>4, <3>1, <3>2 DEF Uses, Budget
  <2>5. ASSUME NEW m \in Message
        PROVE  /\ Uses(m)' <= excused'[m] + (IF Spent(m) THEN 1 ELSE 0)
               /\ m \in attempt.left => Uses(m)' <= excused'[m]
    <3>1. PICK r \in Nat, c \in Nat, e \in Nat : r = reached[m] /\ c = composer[m] /\ e = excused[m]
      BY <1>4
    <3>2. Uses(m)' = r + c /\ excused'[m] = e
      BY <2>3, <3>1
    <3>3. r + c + (IF m \in attempt.left THEN 1 ELSE 0) <= e + (IF Spent(m) THEN 1 ELSE 0)
      BY <2>3, <3>1
    <3> QED BY <3>2, <3>3
  <2>6. \A m \in attempt.left : Uses(m)' <= excused'[m]
    BY <1>3, <2>5
  <2> QED BY <1>1, <1>2, <1>4, <1>6, <2>1, <2>2, <2>5, <2>6, InjectionStep
          DEF Handling, LocalFine
<1> QED BY <1>5, <1>6 DEF Paste

LEMMA SubmitKeeps ==
  ASSUME IInv, Submit
  PROVE  IInv'
<1>1. /\ pc = "submit" /\ pc' = "ack"
      /\ reached' = [m \in Message |-> reached[m] + composer[m]]
      /\ composer' = [m \in Message |-> 0] /\ queue' = attempt.rest
      /\ state' = [attempt.next EXCEPT !.differs = TRUE] /\ held' = (held \/ attempt.adopts)
      /\ UNCHANGED <<mailbox, file, attempt, mishaps, excused, acked, granted>>
  BY DEF Submit
<1>2. LocalFine /\ CountsFine /\ AckFine /\ Budget /\ pc \in Handling
  BY <1>1 DEF IInv, Handling
<1>3. attempt.left \in SUBSET Message
  BY <1>2, AttemptIn
<1>4. /\ \A m \in Message : reached[m] \in Nat /\ composer[m] \in Nat /\ excused[m] \in Nat
      /\ \A m \in Message : reached'[m] = reached[m] + composer[m] /\ composer'[m] = 0
  BY <1>1, <1>2 DEF CountsFine
<1>5. CountsFine'
  BY <1>1, <1>2, <1>4 DEF CountsFine
<1>6. TRUE \in BOOLEAN /\ held' \in BOOLEAN
  BY <1>1, Zenon
<1>7. state' \in Watch
  <2>1. attempt.next \in Watch
    BY <1>2 DEF LocalFine, Attempt
  <2> QED BY <1>1, <1>6, <2>1 DEF Watch
<1>8. \A m \in Message : Touched(m)' => Touched(m)
  BY <1>1, <1>4 DEF Touched
<1>9. \A m \in attempt.left : reached'[m] > 0
  BY <1>1, <1>2, <1>3, <1>4 DEF AckFine
<1>10. \A m \in Message : Uses(m)' = Uses(m) /\ reached[m] <= reached'[m]
  BY <1>1, <1>4 DEF Uses
<1> QED BY <1>1, <1>2, <1>5, <1>6, <1>7, <1>8, <1>9, <1>10, InjectionStep DEF Handling, Budget

LEMMA SubmitFailsKeeps ==
  ASSUME IInv, SubmitFails
  PROVE  IInv'
<1>1. /\ pc = "submit" /\ pc' = "release" /\ Mishap
      /\ excused' = Raised(excused, attempt.left)
      /\ UNCHANGED <<mailbox, queue, file, state, held, attempt, composer, reached, acked, granted>>
  BY DEF SubmitFails
<1>2. LocalFine /\ CountsFine /\ Budget /\ pc \in Handling
  BY <1>1 DEF IInv, Handling
<1>3. attempt.left \in SUBSET Message
  BY <1>2, AttemptIn
<1>4. /\ excused' \in [Message -> Nat]
      /\ \A m \in Message : excused'[m] = excused[m] + (IF m \in attempt.left THEN 1 ELSE 0)
      /\ \A m \in Message : excused[m] \in Nat /\ Uses(m) \in Nat /\ reached[m] \in Nat
  <2>1. excused \in [Message -> Nat] /\ reached \in [Message -> Nat]
    BY <1>2 DEF CountsFine
  <2>2. /\ excused' \in [Message -> Nat]
        /\ \A m \in Message : excused'[m] = excused[m] + (IF m \in attempt.left THEN 1 ELSE 0)
    BY <1>1, <1>3, <2>1, RaisedCounts
  <2> QED BY <1>2, <2>1, <2>2, UsesCount
<1>5. CountsFine'
  BY <1>1, <1>2, <1>4, MishapCount DEF CountsFine
<1>6. \A m \in Message : Touched(m)' => Touched(m)
  BY <1>1 DEF Touched
<1>7. \A m \in Message : Uses(m)' = Uses(m)
  BY <1>1 DEF Uses
<1>8. \A m \in Message : Uses(m)' <= excused'[m] + (IF Spent(m) THEN 1 ELSE 0)
  BY <1>2, <1>4, <1>7 DEF Budget
<1>9. \A m \in attempt.left : Uses(m)' <= excused'[m]
  <2> SUFFICES ASSUME NEW m \in attempt.left PROVE Uses(m)' <= excused'[m]
    OBVIOUS
  <2>1. m \in Message
    BY <1>3
  <2>2. Uses(m) <= excused[m] + (IF Spent(m) THEN 1 ELSE 0)
    BY <1>2, <2>1 DEF Budget
  <2>3. excused'[m] = excused[m] + 1 /\ excused[m] \in Nat /\ Uses(m) \in Nat /\ Uses(m)' = Uses(m)
    BY <1>4, <1>7, <2>1
  <2> QED BY <2>2, <2>3
<1>10. state' \in Watch /\ held' \in BOOLEAN /\ queue' \in {queue, attempt.rest}
  BY <1>1, <1>2 DEF LocalFine
<1>11. pc' \in Handling \ {"paste"} /\ pc' # "submit" /\ pc' # "ack"
  BY <1>1 DEF Handling
<1>12. \A m \in Message : reached[m] <= reached'[m]
  BY <1>1, <1>4
<1>13. UNCHANGED <<mailbox, file, attempt, acked, granted>>
  BY <1>1
<1> QED BY <1>2, <1>5, <1>6, <1>8, <1>9, <1>10, <1>11, <1>12, <1>13, InjectionStep

-----------------------------------------------------------------------------
(* What becomes of the claimed messages.                                   *)

LEMMA Advanced ==
  ASSUME LocalFine, NEW next \in {"release", "ack"}, pc = next, Advance(next)
  PROVE  /\ attempt' \in Attempt /\ pc' \in {"save", next}
         /\ attempt'.left = attempt.left \ {First(attempt.left)}
         /\ attempt'.left # {} <=> pc' \in Handling
         /\ attempt'.claim # NoClaim <=> attempt'.left # {}
         /\ attempt'.rest \in {attempt.rest, {}}
<1>1. PICK left : left = attempt.left \ {First(attempt.left)}
  OBVIOUS
<1>2. attempt \in Attempt /\ left \in SUBSET Message /\ attempt.claim # NoClaim /\ pc \in Handling
  BY <1>1, AttemptIn DEF LocalFine, Attempt, Handling
<1>3. CASE left = {}
  <2>1. pc' = "save" /\ attempt' = NoAttempt
    BY <1>1, <1>3 DEF Advance
  <2>2. NoAttempt \in Attempt
    <3>1. FALSE \in BOOLEAN /\ TRUE \in BOOLEAN
      BY Zenon
    <3> QED BY <3>1 DEF NoAttempt, Attempt, NewState, Watch
  <2> QED BY <1>1, <1>3, <2>1, <2>2 DEF NoAttempt, Handling
<1>4. CASE left # {}
  <2>1. pc' = next /\ attempt' = [attempt EXCEPT !.left = left]
    BY <1>1, <1>4 DEF Advance
  <2> QED BY <1>1, <1>2, <1>4, <2>1 DEF Attempt, Handling
<1> QED BY <1>3, <1>4

\* One of the claimed messages is done with; it may go back to the local queue.
LEMMA DoneStep ==
  ASSUME IInv, NEW next \in {"release", "ack"}, pc = next, Advance(next), MailFine', Onwards,
         NEW m \in Message, m = First(attempt.left),
         UNCHANGED <<file, state, held, composer, reached, excused>>, Mishap \/ NoMishap,
         queue' \in {queue, queue \cup {m}},
         \/ UNCHANGED acked
         \/ pc = "ack" /\ acked' = acked \cup {m} /\ status'[m] = "settled",
         \A n \in Message : Spent(n) => Spent(n)' \/ (n = m /\ pc = "release")
  PROVE  IInv'
<1>1. MailFine /\ LocalFine /\ CountsFine /\ ListsFine /\ OrderFine /\ AckFine /\ Budget
      /\ pc \in Handling
  BY DEF IInv, Handling
<1>2. /\ attempt' \in Attempt /\ pc' \in {"save", next}
      /\ attempt'.left = attempt.left \ {m}
      /\ attempt'.left # {} <=> pc' \in Handling
      /\ attempt'.claim # NoClaim <=> attempt'.left # {}
      /\ attempt'.rest \in {attempt.rest, {}}
  BY <1>1, Advanced
<1>3. attempt.left \in SUBSET Message /\ m \in attempt.left
  BY <1>1, AttemptIn
<1>4. LocalFine'
  BY <1>1, <1>2 DEF LocalFine, Handling
<1>5. CountsFine'
  BY <1>1, MishapCount DEF CountsFine
<1>6. ListsFine'
  <2>1. ClosedNow(queue \cup {m})
    <3>1. ClosedNow(queue)
      BY <1>1, ClosedStays DEF LocalFine, ListsFine
    <3>2. status'[m] # "unsent"
      BY <1>1, <1>3 DEF ListsFine, Onwards
    <3>3. \A n \in Message : SameKind(n, m) => Provided(n)'
      BY <1>1, <1>3, ProvidedStays DEF OrderFine, Touched
    <3> QED BY <3>1, <3>2, <3>3 DEF ClosedNow
  <2>2. PICK S \in {queue, queue \cup {m}} : queue' = S
    OBVIOUS
  <2>3. UNCHANGED queue \/ ClosedNow(queue')
    BY <2>1, <2>2
  <2> QED BY <1>1, <1>2, <2>3, ListsStay
<1>7. OrderFine'
  <2>1. \A n \in Message : Touched(n)' => Touched(n)
    BY <1>2 DEF Touched
  <2> QED BY <1>1, <2>1, OrderStays
<1>8. AckFine'
  <2>1. acked' \subseteq Message
    BY <1>1 DEF AckFine
  <2>2. \A n \in acked : status'[n] = "settled" /\ reached'[n] > 0
    BY <1>1 DEF AckFine, Onwards, Final
  <2>3. pc = "ack" => \A n \in attempt.left : reached'[n] > 0
    BY <1>1 DEF AckFine
  <2>4. \A n \in acked' : status'[n] = "settled" /\ reached'[n] > 0
    BY <1>3, <2>2, <2>3
  <2>5. \A n \in attempt'.left : (pc' = "submit" => composer'[n] > 0) /\ (pc' = "ack" => reached'[n] > 0)
    BY <1>2, <2>3
  <2> QED BY <2>1, <2>4, <2>5 DEF AckFine
<1>9. Budget'
  <2>1. \A n \in Message : Uses(n)' = Uses(n) /\ Uses(n) \in Nat /\ excused[n] \in Nat
    BY <1>1, <1>2, UsesCount DEF Uses
  <2>2. ASSUME NEW n \in Message
        PROVE  Uses(n)' <= excused'[n] + (IF Spent(n)' THEN 1 ELSE 0)
    <3>1. Uses(n) <= excused[n] + (IF Spent(n) THEN 1 ELSE 0)
      BY <1>1 DEF Budget
    <3>2. CASE n = m /\ pc = "release"
      <4>1. Uses(n) <= excused[n]
        BY <1>1, <1>3, <3>2 DEF Budget
      <4> QED BY <2>1, <4>1
    <3>3. CASE Spent(n) => Spent(n)'
      BY <2>1, <3>1, <3>3
    <3> QED BY <3>2, <3>3
  <2>3. pc' = "release" => \A n \in attempt'.left : Uses(n)' <= excused'[n]
    BY <1>1, <1>2, <1>3, <2>1 DEF Budget
  <2> QED BY <2>2, <2>3 DEF Budget
<1> QED BY <1>4, <1>5, <1>6, <1>7, <1>8, <1>9 DEF IInv

LEMMA ReleaseKeeps ==
  ASSUME IInv, Release
  PROVE  IInv'
<1>1. PICK m : m = First(attempt.left)
  OBVIOUS
<1>2. /\ pc = "release" /\ Advance("release") /\ (Mishap \/ NoMishap)
      /\ UNCHANGED <<theirs, queue, file, state, held, composer, history>>
      /\ Mail!GiveBack({}, m, attempt.claim) \/ UNCHANGED <<status, holder, spent>>
  BY <1>1 DEF Release
<1>3. MailFine /\ LocalFine /\ AckFine /\ m \in Message
  BY <1>1, <1>2, AttemptIn DEF IInv, Handling
<1>4. CASE UNCHANGED <<status, holder, spent>>
  <2>1. MailFine' /\ Onwards
    BY <1>2, <1>3, <1>4, SameMail DEF mailbox, history
  <2>2. \A n \in Message : Spent(n) => Spent(n)'
    BY <1>2, <1>4 DEF Spent, history
  <2> QED BY <1>1, <1>2, <1>3, <2>1, <2>2, DoneStep DEF history
<1>5. CASE Mail!GiveBack({}, m, attempt.claim)
  <2>1. /\ status[m] = "leased" /\ status' = [status EXCEPT ![m] = "waiting"]
        /\ holder' = [holder EXCEPT ![m] = NoClaim] /\ UNCHANGED spent
    BY <1>3, <1>5, PlainMail DEF Mail!GiveBack
  <2>2. /\ MailFine' /\ Onwards
        /\ \A n \in Message : n # m => status'[n] = status[n] /\ holder'[n] = holder[n]
    BY <1>2, <1>3, <2>1, OneMoves DEF Final, history
  <2>3. \A n \in Message : Spent(n) => Spent(n)' \/ n = m
    BY <1>2, <2>2 DEF Spent, history
  <2> QED BY <1>1, <1>2, <1>3, <2>2, <2>3, DoneStep DEF history
<1> QED BY <1>2, <1>4, <1>5

LEMMA AckLandsKeeps ==
  ASSUME IInv, AckLands
  PROVE  IInv'
<1>1. PICK m : m = First(attempt.left)
  OBVIOUS
<1>2. /\ pc = "ack" /\ Advance("ack") /\ Mail!Settle({}, m, attempt.claim)
      /\ acked' = acked \cup {m} /\ queue' \in {queue, queue \cup {m}}
      /\ Mishap \/ NoMishap
      /\ UNCHANGED <<theirs, file, state, held, composer, reached, excused, granted>>
  BY <1>1 DEF AckLands
<1>3. MailFine /\ LocalFine /\ AckFine /\ m \in Message
  BY <1>1, <1>2, AttemptIn DEF IInv, Handling
<1>4. /\ status[m] \in {"waiting", "leased"} /\ UNCHANGED spent
      /\ status' = [status EXCEPT ![m] = "settled"] /\ holder' = [holder EXCEPT ![m] = NoClaim]
  BY <1>2, <1>3, EndedMail
<1>5. /\ MailFine' /\ Onwards /\ status'[m] = "settled"
      /\ \A n \in Message : n # m => status'[n] = status[n] /\ holder'[n] = holder[n]
  BY <1>2, <1>3, <1>4, OneMoves DEF Final
<1>6. \A n \in Message : Spent(n) => Spent(n)'
  BY <1>2, <1>5 DEF Spent
<1> QED BY <1>1, <1>2, <1>3, <1>5, <1>6, DoneStep

LEMMA AckFailsKeeps ==
  ASSUME IInv, AckFails
  PROVE  IInv'
<1>1. PICK m : m = First(attempt.left)
  OBVIOUS
<1>2. /\ pc = "ack" /\ Advance("ack") /\ queue' = queue \cup {m} /\ (Mishap \/ NoMishap)
      /\ UNCHANGED <<mailbox, file, state, held, composer, history>>
  BY <1>1 DEF AckFails
<1>3. MailFine /\ LocalFine /\ m \in Message
  BY <1>1, <1>2, AttemptIn DEF IInv, Handling
<1>4. MailFine' /\ Onwards
  BY <1>2, <1>3, SameMail DEF history
<1>5. \A n \in Message : Spent(n) => Spent(n)'
  BY <1>2 DEF Spent, mailbox, history
<1> QED BY <1>1, <1>2, <1>3, <1>4, <1>5, DoneStep DEF history

-----------------------------------------------------------------------------
(* The invariant.                                                          *)

LEMMA InitIInv == Init => IInv
<1> SUFFICES ASSUME Init PROVE IInv
  OBVIOUS
<1>1. TRUE \in BOOLEAN /\ FALSE \in BOOLEAN
  BY Zenon
<1>2. NewState \in Watch
  BY <1>1 DEF NewState, Watch
<1>3. NoAttempt \in Attempt /\ NoAttempt.left = {} /\ NoAttempt.rest = {} /\ NoAttempt.claim = NoClaim
  BY <1>1, <1>2 DEF NoAttempt, Attempt
<1>4. /\ status = [m \in Message |-> "unsent"] /\ holder = [m \in Message |-> NoClaim]
      /\ spent = {} /\ theirs = {} /\ pc = "look" /\ queue = {}
      /\ file = [torn |-> FALSE, messages |-> {}] /\ state = NewState /\ held = FALSE
      /\ attempt = NoAttempt /\ composer = [m \in Message |-> 0] /\ mishaps = 0
      /\ reached = [m \in Message |-> 0] /\ excused = [m \in Message |-> 0]
      /\ acked = {} /\ granted = {}
  BY DEF Init, Mail!Init
<1>5. MailFine
  BY <1>4, FS_EmptySet DEF MailFine, Status
<1>6. LocalFine
  <2>1. held \in BOOLEAN
    BY <1>1, <1>4
  <2>2. file \in [torn : BOOLEAN, messages : SUBSET Message]
    BY <1>1, <1>4
  <2> QED BY <1>2, <1>3, <1>4, <2>1, <2>2 DEF LocalFine, Handling
<1>7. CountsFine
  BY <1>4 DEF CountsFine
<1>8. ListsFine
  BY <1>3, <1>4 DEF ListsFine, Closed
<1>9. OrderFine
  BY <1>3, <1>4 DEF OrderFine, Touched
<1>10. AckFine
  BY <1>3, <1>4 DEF AckFine
<1>11. Budget
  BY <1>4 DEF Budget, Uses, Spent
<1> QED BY <1>5, <1>6, <1>7, <1>8, <1>9, <1>10, <1>11 DEF IInv

LEMMA StutterKeeps ==
  ASSUME IInv, UNCHANGED vars
  PROVE  IInv'
<1>1. UNCHANGED <<mailbox, local, composer, mishaps, reached, excused, acked, granted>>
  BY DEF vars, history
<1>2. MailFine' /\ Onwards
  BY <1>1, SameMail DEF IInv
<1>3. /\ \A m \in Message : Spent(m) => Spent(m)'
      /\ mishaps' \in 0..MaxMishaps /\ excused' \in [Message -> Nat]
  BY <1>1 DEF Spent, mailbox, IInv, CountsFine
<1>4. \A m \in Message : excused[m] <= excused'[m]
  BY <1>1 DEF IInv, CountsFine
<1> QED BY <1>1, <1>2, <1>3, <1>4, OutsideStep

LEMMA NextKeeps ==
  ASSUME IInv, [Next]_vars
  PROVE  IInv'
<1>1. ASSUME NEW m \in Message,
             Post(m) \/ CancelQueued(m) \/ OtherClaims(m) \/ OtherEnds(m) \/ Lapse(m)
      PROVE  IInv'
  BY <1>1, PostKeeps, CancelQueuedKeeps, OtherClaimsKeeps, OtherEndsKeeps, LapseKeeps
<1>2. CASE LoopStep
  BY <1>2, LookKeeps, KeepQueuedKeeps, ClaimNothingKeeps, ClaimSomeKeeps, ClaimFailsKeeps,
     PasteKeeps, SubmitKeeps, SubmitFailsKeeps, ReleaseKeeps, AckLandsKeeps, AckFailsKeeps,
     FileKeeps DEF LoopStep
<1>3. CASE Kill \/ SessionEnds
  BY <1>3, GoneKeeps DEF Kill, SessionEnds
<1>4. CASE HoldEnds \/ Start
  BY <1>4, HoldEndsKeeps, StartKeeps
<1> QED BY <1>1, <1>2, <1>3, <1>4, StutterKeeps DEF Next

LEMMA AlwaysIInv == Spec => []IInv
<1>1. IInv /\ [Next]_vars => IInv'
  BY NextKeeps
<1> QED BY InitIInv, <1>1, PTL DEF Spec

-----------------------------------------------------------------------------
(* What follows from it.                                                   *)

LEMMA IInvTypeOK == IInv => TypeOK
BY DEF IInv, MailFine, LocalFine, CountsFine, AckFine, TypeOK, Handling, Status, Final

LEMMA IInvAcked == IInv => AckedWereSubmitted
BY DEF IInv, AckFine, AckedWereSubmitted

LEMMA IInvConsumedOnce == IInv => ConsumedOnce
<1> SUFFICES ASSUME IInv, NEW m \in Message
             PROVE  reached[m] + composer[m] + TakenByOthers(m) <= 1 + excused[m]
  BY DEF ConsumedOnce
<1>1. /\ reached[m] \in Nat /\ composer[m] \in Nat /\ excused[m] \in Nat
      /\ Uses(m) <= excused[m] + (IF Spent(m) THEN 1 ELSE 0)
  BY DEF IInv, CountsFine, Budget
<1>2. Uses(m) >= reached[m] + composer[m]
  BY <1>1 DEF Uses
<1>3. Uses(m) \in Nat
  BY UsesCount DEF IInv
<1>4. CASE status[m] \in Mail!Final /\ m \notin acked
  <2>1. ~Spent(m) /\ TakenByOthers(m) = 1
    BY <1>4 DEF Spent, TakenByOthers, Mail!Final
  <2> QED BY <1>1, <1>2, <1>3, <2>1
<1>5. CASE ~(status[m] \in Mail!Final /\ m \notin acked)
  <2>1. TakenByOthers(m) = 0
    BY <1>5 DEF TakenByOthers
  <2> QED BY <1>1, <1>2, <1>3, <2>1
<1> QED BY <1>4, <1>5

LEMMA IInvNoOvertaking == IInv => NoOvertaking
BY DEF IInv, OrderFine, SameKind, Earlier, Touched, Provided, Final, NoOvertaking

(***************************************************************************)
(* Wherever calls and tmux commands fail and the watcher dies, its queue,  *)
(* file and attempt are well formed, and it holds a claim exactly while it *)
(* works on messages of it.                                                *)
(***************************************************************************)
THEOREM TypeCorrect == Spec => []TypeOK
<1> QED BY AlwaysIInv, IInvTypeOK, PTL

(***************************************************************************)
(* Nothing is acknowledged unseen: what deliver_queued_messages ACKs had   *)
(* been submitted to Codex, and stays settled.                             *)
(***************************************************************************)
THEOREM AckedWereSubmittedHolds == Spec => []AckedWereSubmitted
<1> QED BY AlwaysIInv, IInvAcked, PTL

(***************************************************************************)
(* A message is consumed once, by Codex, the other client or a cancel, and *)
(* once more only for a lease that ran out or a submission that failed:    *)
(* kills, lost answers and an old queue.json alone repeat nothing.         *)
(***************************************************************************)
THEOREM ConsumedOnceHolds == Spec => []ConsumedOnce
<1> QED BY AlwaysIInv, IInvConsumedOnce, PTL

(***************************************************************************)
(* The messages of one sender and one urgency reach Codex in their order,  *)
(* whatever is in the local queue, in queue.json or back on the server.    *)
(***************************************************************************)
THEOREM NoOvertakingHolds == Spec => []NoOvertaking
<1> QED BY AlwaysIInv, IInvNoOvertaking, PTL

-----------------------------------------------------------------------------
(* The server's side.                                                      *)

LEMMA MailNext ==
  ASSUME IInv, [Next]_vars
  PROVE  [Mail!Next]_(Mail!mailboxVars)
<1>0. {} \in SUBSET Mail!Leased /\ MailFine /\ LocalFine
  BY DEF IInv
<1>1. NewClaim \in ClaimId
  BY <1>0, NewClaimFresh
<1>2. ASSUME NEW m \in Message,
             Post(m) \/ CancelQueued(m) \/ OtherClaims(m) \/ OtherEnds(m) \/ Lapse(m)
      PROVE  Mail!Next
  <2>1. CASE Post(m) \/ CancelQueued(m)
    BY <1>0, <2>1 DEF Post, CancelQueued, Mail!Next
  <2>2. CASE OtherClaims(m)
    <3>1. PICK G \in SUBSET Message : G = {m}
      OBVIOUS
    <3>2. Mail!Grant({}, G, NewClaim)
      BY <2>2, <3>1 DEF OtherClaims
    <3> QED BY <1>0, <1>1, <3>2 DEF Mail!Next
  <2>3. CASE OtherEnds(m)
    <3>1. theirs \cup {NoClaim} \subseteq ClaimId \cup {NoClaim}
      BY <1>0 DEF MailFine
    <3> QED BY <1>0, <2>3, <3>1 DEF OtherEnds, Mail!Next
  <2>4. CASE Lapse(m)
    <3>1. {m} \in SUBSET Mail!Leased /\ Mail!Lapse({m})
      BY <2>4 DEF Lapse, Mail!Leased
    <3> QED BY <3>1 DEF Mail!Next
  <2> QED BY <1>2, <2>1, <2>2, <2>3, <2>4
<1>3. Grant => Mail!Next
  <2> SUFFICES ASSUME Mail!Grant({}, Grantable, NewClaim) PROVE Mail!Next
    BY DEF Grant
  <2>1. Grantable \in SUBSET Message
    BY <1>0, GrantableIn
  <2> QED BY <1>0, <1>1, <2>1 DEF Mail!Next
<1>4. ASSUME NEW m, m = First(attempt.left), pc \in Handling,
             Mail!Settle({}, m, attempt.claim) \/ Mail!GiveBack({}, m, attempt.claim)
      PROVE  Mail!Next
  <2>1. m \in Message /\ attempt.claim \in ClaimId \cup {NoClaim}
    BY <1>0, <1>4, AttemptIn DEF LocalFine, Attempt
  <2> QED BY <1>0, <1>4, <2>1 DEF Mail!Next
<1>5. CASE ClaimSome \/ ClaimFails
  <2>1. Grant \/ UNCHANGED mailbox
    BY <1>5 DEF ClaimSome, ClaimFails
  <2> QED BY <1>3, <2>1 DEF mailbox, Mail!mailboxVars
<1>6. CASE Release \/ AckLands
  <2>1. PICK m : m = First(attempt.left)
    OBVIOUS
  <2>2. /\ pc \in Handling
        /\ \/ Mail!Settle({}, m, attempt.claim) \/ Mail!GiveBack({}, m, attempt.claim)
           \/ UNCHANGED <<status, holder, spent>>
    BY <1>6, <2>1 DEF Release, AckLands, Handling
  <2> QED BY <1>4, <2>1, <2>2 DEF Mail!mailboxVars
<1>7. CASE \/ LookSame \/ LookMoved \/ KeepQueued \/ ClaimNothing \/ Paste \/ Submit \/ SubmitFails
           \/ AckFails \/ OpenQueueFile \/ WriteQueueFile
           \/ HoldEnds \/ Kill \/ SessionEnds \/ Start \/ UNCHANGED vars
  <2>1. UNCHANGED mailbox
    BY <1>7 DEF LookSame, LookMoved, KeepQueued, ClaimNothing, Paste, Submit, SubmitFails,
       AckFails, OpenQueueFile, WriteQueueFile, HoldEnds, Kill, SessionEnds, Gone, Start, vars
  <2> QED BY <2>1 DEF mailbox, Mail!mailboxVars
<1> QED BY <1>2, <1>5, <1>6, <1>7 DEF Next, LoopStep

(***************************************************************************)
(* All that the watcher, the senders and the other client do to the server *)
(* a Mailbox allows: this model assumes what MessageStore promises of one, *)
(* and no more.                                                            *)
(***************************************************************************)
THEOREM MailboxRespected == Spec => Mail!Spec
<1>1. Init => Mail!Init
  BY DEF Init
<1>2. IInv /\ [Next]_vars => [Mail!Next]_(Mail!mailboxVars)
  BY MailNext
<1> QED BY AlwaysIInv, <1>1, <1>2, PTL DEF Spec, Mail!Spec

================================================================================
