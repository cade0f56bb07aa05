---------------------------- MODULE ApiHelperProofs ----------------------------
(***************************************************************************)
(* Proofs about ApiHelper, for any number of messages, commands that       *)
(* overlap, and mishaps: types, that handles stay clear, that no claim     *)
(* is without a handle on file, and that the server's side is a Mailbox.   *)
(***************************************************************************)
EXTENDS ApiHelper, FiniteSetTheorems, WellFoundedInduction, TLAPS

USE ApiHelperAssumption

-----------------------------------------------------------------------------
(* The inductive invariant.                                                *)

Clear(claims) ==
  \A x, y \in claims : x.handle = y.handle \/ x.message = y.message => x = y

\* Claims in the file or in a command's copy of it: what HandlesClear asks of the
\* file has to hold of every copy, since any of them may become the file.
Fine(agent, claims) ==
  /\ claims \subseteq Claims /\ IsFiniteSet(claims)
  /\ \A x \in claims : x.claim \in spent
  /\ Clear(claims)
  /\ agent # Me => claims = {}

MailFine ==
  /\ status \in [Message -> {"unsent", "waiting", "leased", "settled", "withdrawn"}]
  /\ holder \in [Message -> ClaimId \cup {NoClaim}]
  /\ spent \subseteq ClaimId /\ IsFiniteSet(spent)
  /\ by \in [Message -> ClaimId \cup {NoClaim}]
  /\ \A m \in Message : by[m] # NoClaim => status[m] = "settled"

FileFine ==
  /\ file \in [agent : {Me, Other}, claims : SUBSET Claims]
  /\ Fine(file.agent, file.claims)

Work == [pc : {"call", "save"}, kind : Kind, agent : {Me, Other},
         claims : SUBSET Claims, todo : SUBSET Nat]

AtWork(r) ==
  /\ r \in Work /\ Fine(r.agent, r.claims)
  /\ r.todo \subseteq Handles(r.claims) /\ (r.kind = "inbox" => r.todo = {})

\* Every claim on the server has its row.
Covers(claims) ==
  \A m \in Message : status[m] = "leased" =>
    \E x \in claims : x.message = m /\ x.claim = holder[m]

\* Undisturbed, one command at a time has the claims in its copy; the file has
\* them as well, but for those an inbox has just made.
Undisturbed ==
  /\ file.agent = Me
  /\ \A c \in Command : running[c] # Idle =>
       /\ running[c].agent = Me
       /\ Covers(running[c].claims)
       /\ \A d \in Command : running[d] # Idle => c = d
  /\ (\A c \in Command : ~(running[c] # Idle /\ running[c].kind = "inbox" /\ running[c].pc = "save"))
       => Covers(file.claims)

IInv ==
  /\ MailFine
  /\ FileFine
  /\ running \in [Command -> Work \cup {Idle}]
  /\ \A c \in Command : running[c] # Idle => AtWork(running[c])
  /\ mishaps \in 0..MaxMishaps /\ disturbed \in BOOLEAN
  /\ ~disturbed => Undisturbed

-----------------------------------------------------------------------------
(* Lemmas about the operators.                                             *)

(***************************************************************************)
(* Some numbers, finitely many, have a highest.                            *)
(***************************************************************************)
LEMMA HighestIn ==
  ASSUME NEW S \in SUBSET Nat, IsFiniteSet(S), S # {}
  PROVE  \E h \in S : \A i \in S : i <= h
<1> DEFINE above(x) == {y \in S : y > x}
           T == {Cardinality(above(x)) : x \in S}
<1>1. ASSUME NEW x \in S PROVE IsFiniteSet(above(x)) /\ Cardinality(above(x)) \in Nat
  BY FS_Subset, FS_CardinalityType
<1>2. T \subseteq Nat /\ T # {}
  BY <1>1
<1>3. \E n \in T : \A k \in T : ~(<<k, n>> \in OpToRel(<, Nat))
  <2> HIDE DEF T
  <2> QED BY <1>2, NatLessThanWellFounded, WFMin
<1>4. PICK n \in T : \A k \in T : ~(k < n)
  BY <1>2, <1>3 DEF OpToRel
<1>5. PICK h \in S : n = Cardinality(above(h))
  OBVIOUS
<1>6. ASSUME NEW i \in S, ~(i <= h) PROVE FALSE
  <2>1. above(i) \subseteq above(h) /\ i \in above(h) /\ i \notin above(i)
    <3>1. i \in Nat /\ h \in Nat /\ \A y \in S : y \in Nat
      OBVIOUS
    <3>2. h < i
      BY <1>6, <3>1
    <3>3. ASSUME NEW y \in S, y > i PROVE y > h
      <4>1. y \in Nat
        OBVIOUS
      <4> QED BY <3>1, <3>2, <3>3, <4>1
    <3>4. above(i) \subseteq above(h)
      BY <3>3
    <3>5. i \in above(h) /\ i \notin above(i)
      BY <3>1, <3>2
    <3> QED BY <3>4, <3>5
  <2>2. Cardinality(above(i)) <= Cardinality(above(h)) /\ Cardinality(above(i)) # Cardinality(above(h))
    <3> HIDE DEF above
    <3> QED BY <2>1, <1>1, FS_Subset
  <2>3. Cardinality(above(i)) < n
    <3> HIDE DEF above
    <3> QED BY <2>2, <1>1, <1>5
  <2> QED BY <2>3, <1>4
<1> QED BY <1>6

(***************************************************************************)
(* The oldest of some messages is one of them, and none is older.          *)
(***************************************************************************)
LEMMA OldestIn ==
  ASSUME NEW S \in SUBSET Nat, S # {}
  PROVE  Oldest(S) \in S /\ \A n \in S : Oldest(S) <= n
<1>1. \E m \in S : \A n \in S : ~(<<n, m>> \in OpToRel(<, Nat))
  BY NatLessThanWellFounded, WFMin
<1>2. \E m \in S : \A n \in S : m <= n
  <2>1. PICK m \in S : \A n \in S : ~(<<n, m>> \in OpToRel(<, Nat))
    BY <1>1
  <2>2. m \in Nat /\ \A n \in S : n \in Nat
    OBVIOUS
  <2>3. \A n \in S : ~(n < m)
    BY <2>1, <2>2 DEF OpToRel
  <2> QED BY <2>2, <2>3
<1> QED BY <1>2 DEF Oldest

(***************************************************************************)
(* The next handle is above all there are.                                 *)
(***************************************************************************)
LEMMA NextHandleAbove ==
  ASSUME NEW claims \in SUBSET Claims, IsFiniteSet(claims)
  PROVE  NextHandle(claims) \in Nat \ {0} /\ \A x \in claims : x.handle < NextHandle(claims)
<1>1. CASE claims = {}
  BY <1>1 DEF NextHandle
<1>2. CASE claims # {}
  <2>1. Handles(claims) \in SUBSET Nat /\ Handles(claims) # {}
    BY <1>2 DEF Handles, Claims
  <2>2. IsFiniteSet(Handles(claims))
    <3>1. [x \in claims |-> x.handle] \in Surjection(claims, Handles(claims))
      BY DEF Surjection, Handles
    <3> QED BY <3>1, FS_Surjection
  <2>3. \E h \in Handles(claims) : \A i \in Handles(claims) : i <= h
    BY <2>1, <2>2, HighestIn
  <2>4. PICK h \in Handles(claims) :
          (\A i \in Handles(claims) : i <= h) /\ NextHandle(claims) = h + 1
    BY <1>2, <2>3 DEF NextHandle
  <2> QED BY <2>1, <2>4 DEF Handles
<1> QED BY <1>1, <1>2

(***************************************************************************)
(* There is always another claim.                                          *)
(***************************************************************************)
LEMMA NewClaimFresh ==
  ASSUME MailFine
  PROVE  NewClaim \in ClaimId /\ NewClaim \notin spent
<1> DEFINE k == Cardinality(spent)
<1>1. k \in Nat
  BY FS_CardinalityType DEF MailFine
<1>2. Cardinality(1..(k + 1)) = k + 1
  BY <1>1, FS_Interval
<1>3. ~(1..(k + 1) \subseteq spent)
  BY <1>1, <1>2, FS_Subset DEF MailFine
<1>4. \E c \in 1..(k + 1) : c \notin spent
  BY <1>3
<1> QED BY <1>1, <1>4 DEF NewClaim, ClaimId

(***************************************************************************)
(* Messages that are claimed together have their places in an order.       *)
(***************************************************************************)
LEMMA Places ==
  ASSUME NEW S \in SUBSET Nat, IsFiniteSet(S)
  PROVE  /\ \A m \in S : Cardinality({n \in S : n < m}) \in Nat
         /\ \A m, l \in S : Cardinality({n \in S : n < m}) = Cardinality({n \in S : n < l}) => m = l
<1> DEFINE below(m) == {n \in S : n < m}
<1>1. ASSUME NEW m \in S PROVE IsFiniteSet(below(m)) /\ Cardinality(below(m)) \in Nat
  BY FS_Subset, FS_CardinalityType
<1>2. ASSUME NEW m \in S, NEW l \in S, m < l
      PROVE  Cardinality(below(m)) # Cardinality(below(l))
  <2>1. below(m) \subseteq below(l) /\ m \in below(l) /\ m \notin below(m)
    <3>1. m \in Nat /\ l \in Nat /\ \A n \in S : n \in Nat
      OBVIOUS
    <3>2. ASSUME NEW n \in S, n < m PROVE n < l
      <4>1. n \in Nat
        OBVIOUS
      <4> QED BY <1>2, <3>1, <3>2, <4>1
    <3>3. below(m) \subseteq below(l)
      BY <3>2
    <3>4. m \in below(l) /\ m \notin below(m)
      BY <1>2, <3>1
    <3> QED BY <3>3, <3>4
  <2> HIDE DEF below
  <2> QED BY <2>1, <1>1, FS_Subset
<1>3. ASSUME NEW m \in S, NEW l \in S, Cardinality(below(m)) = Cardinality(below(l))
      PROVE  m = l
  <2>1. m \in Nat /\ l \in Nat
    OBVIOUS
  <2>2. ~(m < l) /\ ~(l < m)
    <3> HIDE DEF below
    <3> QED BY <1>2, <1>3
  <2> QED BY <2>1, <2>2
<1> QED BY <1>1, <1>3

(***************************************************************************)
(* New handles keep claims clear, and every message that was claimed has a *)
(* row with the claim.                                                     *)
(***************************************************************************)
LEMMA WithMessagesFine ==
  ASSUME NEW claims \in SUBSET Claims, IsFiniteSet(claims), Clear(claims),
         NEW S \in SUBSET Message, NEW claim \in ClaimId
  PROVE  /\ WithMessages(claims, S, claim) \in SUBSET Claims
         /\ IsFiniteSet(WithMessages(claims, S, claim))
         /\ Clear(WithMessages(claims, S, claim))
         /\ \A x \in WithMessages(claims, S, claim) : x \in claims \/ x.claim = claim
         /\ \A x \in claims : x.message \notin S => x \in WithMessages(claims, S, claim)
         /\ \A m \in S : \E x \in WithMessages(claims, S, claim) : x.message = m /\ x.claim = claim
<1> DEFINE first == NextHandle({x \in claims : x.message # Oldest(S)})
           row(m) == [handle |-> first + Cardinality({n \in S : n < m}), message |-> m, claim |-> claim]
           kept == {x \in claims : x.message \notin S}
           made == {row(m) : m \in S}
<1>1. WithMessages(claims, S, claim) = kept \cup made
  BY DEF WithMessages
<1>2. S \in SUBSET Nat /\ IsFiniteSet(S)
  BY FS_Subset
<1>3. IsFiniteSet(kept) /\ kept \in SUBSET Claims
  BY FS_Subset
<1>4. CASE S = {}
  <2>1. made = {}
    BY <1>4
  <2> QED BY <1>1, <1>3, <1>4, <2>1 DEF Clear
<1>5. CASE S # {}
  <2> DEFINE others == {x \in claims : x.message # Oldest(S)}
  <2>1. others \in SUBSET Claims /\ IsFiniteSet(others)
    BY FS_Subset
  <2>2. first \in Nat \ {0} /\ \A x \in others : x.handle < first
    <3> HIDE DEF others
    <3> QED BY <2>1, NextHandleAbove DEF others
  <2>3. kept \subseteq others
    BY <1>2, <1>5, OldestIn
  <2>4. \A x \in kept : x.handle < first
    BY <2>2, <2>3
  <2> HIDE DEF first
  <2>5. ASSUME NEW m \in S
        PROVE  /\ row(m) \in Claims /\ row(m).handle >= first
               /\ row(m).message = m /\ row(m).claim = claim
    <3>1. Cardinality({n \in S : n < m}) \in Nat
      BY <1>2, Places
    <3> QED BY <2>2, <3>1 DEF Claims
  <2>6. ASSUME NEW m \in S, NEW l \in S, row(m).handle = row(l).handle
        PROVE  m = l
    <3> DEFINE place(i) == Cardinality({n \in S : n < i})
    <3>1. place(m) \in Nat /\ place(l) \in Nat
      BY <1>2, Places
    <3>2. first + place(m) = first + place(l)
      BY <2>6
    <3>3. place(m) = place(l)
      <4> HIDE DEF place
      <4> QED BY <2>2, <3>1, <3>2
    <3> QED BY <1>2, <3>3, Places
  <2>7. IsFiniteSet(made)
    <3>1. [m \in S |-> row(m)] \in Surjection(S, made)
      BY DEF Surjection
    <3> QED BY <1>2, <3>1, FS_Surjection
  <2>8. made \in SUBSET Claims /\ \A x \in made : x.handle >= first /\ x.message \in S /\ x.claim = claim
    BY <2>5
  <2>9. Clear(made)
    <3>1. ASSUME NEW x \in made, NEW y \in made, x.handle = y.handle \/ x.message = y.message
          PROVE  x = y
      <4>1. PICK m \in S : x = row(m)
        OBVIOUS
      <4>2. PICK l \in S : y = row(l)
        OBVIOUS
      <4>3. CASE row(m).handle = row(l).handle
        <5>1. m = l
          BY <2>6, <4>3
        <5> QED BY <4>1, <4>2, <5>1
      <4>4. CASE row(m).message = row(l).message
        <5>1. m = l
          BY <4>4
        <5> QED BY <4>1, <4>2, <5>1
      <4> QED BY <3>1, <4>1, <4>2, <4>3, <4>4
    <3> HIDE DEF made
    <3> QED BY <3>1 DEF Clear
  <2>10. \A m \in S : \E x \in made : x.message = m /\ x.claim = claim
    BY <2>5
  <2>11. Clear(kept)
    BY DEF Clear
  <2>12. \A x \in kept : x.message \notin S /\ x \in claims
    OBVIOUS
  <2>13. \A x \in kept, y \in made : x.handle # y.handle /\ x.message # y.message
    <3> HIDE DEF kept, made
    <3> QED BY <2>2, <2>4, <2>8, <2>12, <1>3 DEF Claims
  <2>14. \A x \in claims : x.message \notin S => x \in kept
    OBVIOUS
  <2>15. IsFiniteSet(kept \cup made)
    <3> HIDE DEF kept, made
    <3> QED BY <1>3, <2>7, FS_Union
  <2>16. Clear(kept \cup made)
    <3> HIDE DEF kept, made
    <3> QED BY <2>9, <2>11, <2>13 DEF Clear
  <2> HIDE DEF kept, made
  <2> QED BY <1>1, <1>3, <2>8, <2>10, <2>12, <2>14, <2>15, <2>16
<1> QED BY <1>4, <1>5

-----------------------------------------------------------------------------
(* The mailbox.                                                            *)

\* No message is leased that was not, and none to another claim.
Shrinks ==
  \A m \in Message : status'[m] = "leased" => status[m] = "leased" /\ holder'[m] = holder[m]

LEMMA PostMail ==
  ASSUME MailFine, NEW m \in Message, Mail!Post(m), UNCHANGED by
  PROVE  MailFine' /\ Shrinks /\ UNCHANGED spent
BY DEF MailFine, Shrinks, Mail!Post

LEMMA WithdrawMail ==
  ASSUME MailFine, NEW m \in Message, Mail!Withdraw({}, m), UNCHANGED by
  PROVE  MailFine' /\ Shrinks /\ UNCHANGED spent
BY DEF MailFine, Shrinks, Mail!Withdraw, Mail!StatusAfter, Mail!HolderAfter

LEMMA LapseMail ==
  ASSUME MailFine, NEW m \in Message, status[m] = "leased", Mail!Lapse({m}), UNCHANGED by
  PROVE  MailFine' /\ Shrinks /\ UNCHANGED spent
BY DEF MailFine, Shrinks, Mail!Lapse, Mail!StatusAfter, Mail!HolderAfter, NoClaim

LEMMA GrantMail ==
  ASSUME MailFine, NEW S \in SUBSET Waiting, NEW claim \in ClaimId,
         Mail!Grant({}, S, claim), UNCHANGED by
  PROVE  /\ MailFine' /\ spent' = spent \cup {claim}
         /\ \A m \in Message : status'[m] = "leased" =>
              IF m \in S THEN holder'[m] = claim
              ELSE status[m] = "leased" /\ holder'[m] = holder[m]
<1>1. IsFiniteSet(spent \cup {claim})
  BY FS_AddElement DEF MailFine
<1>2. S \subseteq Message /\ \A m \in S : status[m] = "waiting"
  BY DEF Waiting
<1> QED BY <1>1, <1>2 DEF MailFine, Mail!Grant, Mail!StatusAfter, Mail!HolderAfter

LEMMA SettlesMail ==
  ASSUME MailFine, NEW x \in Claims, Settles(x)
  PROVE  MailFine' /\ Shrinks /\ UNCHANGED spent /\ status'[x.message] # "leased"
<1>1. x.message \in Message /\ x.claim \in ClaimId /\ x.claim # NoClaim
  BY DEF Claims, ClaimId, NoClaim
<1>2. CASE Mail!Settle({}, x.message, x.claim) /\ by' = [by EXCEPT ![x.message] = x.claim]
  BY <1>1, <1>2 DEF MailFine, Shrinks, Mail!Settle, Mail!StatusAfter, Mail!HolderAfter
<1>3. CASE by[x.message] = x.claim /\ UNCHANGED mailbox
  BY <1>1, <1>3 DEF MailFine, Shrinks, mailbox
<1> QED BY <1>2, <1>3 DEF Settles

LEMMA GivesBackMail ==
  ASSUME MailFine, NEW x \in Claims, GivesBack(x)
  PROVE  MailFine' /\ Shrinks /\ UNCHANGED spent /\ status'[x.message] # "leased"
<1>1. x.message \in Message /\ x.claim \in ClaimId /\ x.claim # NoClaim
  BY DEF Claims, ClaimId, NoClaim
<1> QED BY <1>1 DEF GivesBack, MailFine, Shrinks, Mail!GiveBack, Mail!StatusAfter, Mail!HolderAfter

LEMMA SameMail ==
  ASSUME MailFine, UNCHANGED mailbox
  PROVE  MailFine' /\ Shrinks /\ UNCHANGED spent
BY DEF MailFine, Shrinks, mailbox

-----------------------------------------------------------------------------
(* What keeps the invariant.                                               *)

LEMMA FineStays ==
  ASSUME NEW agent, NEW claims, Fine(agent, claims), spent \subseteq spent'
  PROVE  Fine(agent, claims)'
BY DEF Fine, Clear

LEMMA CoversStays ==
  ASSUME NEW claims, Covers(claims), Shrinks
  PROVE  Covers(claims)'
BY DEF Covers, Shrinks

LEMMA MailStep ==
  ASSUME IInv, MailFine', Shrinks, UNCHANGED <<spent, file, running, disturbed>>,
         mishaps' \in 0..MaxMishaps
  PROVE  IInv'
<1>1. FileFine'
  BY FineStays DEF IInv, FileFine
<1>2. \A c \in Command : running'[c] # Idle => AtWork(running[c])'
  BY FineStays DEF IInv, AtWork
<1>3. ~disturbed' => Undisturbed'
  BY CoversStays DEF IInv, Undisturbed
<1> QED BY <1>1, <1>2, <1>3 DEF IInv

\* A step of one command that leaves the file alone.
LEMMA LocalStep ==
  ASSUME IInv, NEW c \in Command, running[c] # Idle,
         NEW local \in Work \cup {Idle}, Set(c, local), UNCHANGED file,
         MailFine', spent \subseteq spent',
         local # Idle => AtWork(local)',
         mishaps' \in 0..MaxMishaps, disturbed' \in BOOLEAN,
         ~disturbed' =>
           /\ ~disturbed
           /\ local # Idle => local.agent = running[c].agent /\ Covers(local.claims)'
           /\ (local # Idle /\ local.kind = "inbox" /\ local.pc = "save") \/ Covers(file.claims)'
  PROVE  IInv'
<1>1. FileFine'
  BY FineStays DEF IInv, FileFine
<1>2. /\ running' \in [Command -> Work \cup {Idle}]
      /\ running'[c] = local
      /\ \A d \in Command : d # c => running'[d] = running[d]
  BY DEF IInv, Set
<1>3. ASSUME NEW d \in Command, running'[d] # Idle PROVE AtWork(running[d])'
  <2>1. CASE d = c
    BY <1>2, <1>3, <2>1 DEF AtWork
  <2>2. CASE d # c
    BY <1>2, <1>3, <2>2, FineStays DEF IInv, AtWork
  <2> QED BY <2>1, <2>2
<1>4. ASSUME ~disturbed' PROVE Undisturbed'
  <2>1. Undisturbed /\ \A d \in Command : d # c => running[d] = Idle
    BY <1>4 DEF IInv, Undisturbed
  <2>2. \A d \in Command : d # c => running'[d] = Idle
    BY <1>2, <2>1
  <2>3. file' = file /\ file.agent = Me /\ running[c].agent = Me
    BY <2>1 DEF Undisturbed
  <2>4. ASSUME NEW d \in Command, running'[d] # Idle
        PROVE  /\ running'[d].agent = Me
               /\ Covers(running[d].claims)'
               /\ \A e \in Command : running'[e] # Idle => d = e
    BY <1>2, <1>4, <2>2, <2>3, <2>4 DEF Covers
  <2>5. (\A d \in Command : ~(running'[d] # Idle /\ running'[d].kind = "inbox" /\ running'[d].pc = "save"))
           => Covers(file.claims)'
    BY <1>2, <1>4
  <2> QED BY <2>3, <2>4, <2>5 DEF Undisturbed
<1> QED BY <1>1, <1>2, <1>3, <1>4 DEF IInv

-----------------------------------------------------------------------------
(* The steps.                                                              *)

LEMMA InitIInv == Init => IInv
<1> SUFFICES ASSUME Init PROVE IInv
  OBVIOUS
<1>1. MailFine
  BY FS_EmptySet DEF Init, Mail!Init, MailFine
<1>2. FileFine
  BY FS_EmptySet DEF Init, FileFine, Fine, Clear
<1>3. running \in [Command -> Work \cup {Idle}] /\ \A c \in Command : running[c] = Idle
  BY DEF Init
<1>4. \A m \in Message : status[m] # "leased"
  BY DEF Init, Mail!Init
<1>5. Undisturbed
  <2>1. Covers(file.claims)
    BY <1>4 DEF Covers
  <2>2. file.agent = Me
    BY DEF Init
  <2> QED BY <1>3, <2>1, <2>2 DEF Undisturbed
<1>6. mishaps \in 0..MaxMishaps /\ disturbed \in BOOLEAN
  <2>1. mishaps \in 0..MaxMishaps
    BY DEF Init
  <2>2. disturbed \in BOOLEAN
    BY Zenon DEF Init
  <2> QED BY <2>1, <2>2
<1> QED BY <1>1, <1>2, <1>3, <1>5, <1>6 DEF IInv

LEMMA MishapType ==
  ASSUME IInv, Mishap \/ NoMishap
  PROVE  mishaps' \in 0..MaxMishaps
BY DEF IInv, Mishap, NoMishap

LEMMA OutsideSteps ==
  ASSUME IInv, NEW m \in Message, Post(m) \/ Cancel(m) \/ Lapse(m)
  PROVE  IInv'
<1>0. MailFine
  BY DEF IInv
<1>1. CASE Post(m)
  BY <1>0, <1>1, PostMail, MailStep DEF Post, IInv
<1>2. CASE Cancel(m)
  BY <1>0, <1>2, WithdrawMail, MailStep, MishapType DEF Cancel
<1>3. CASE Lapse(m)
  BY <1>0, <1>3, LapseMail, MailStep, MishapType DEF Lapse
<1> QED BY <1>1, <1>2, <1>3

LEMMA StartKeeps ==
  ASSUME IInv, NEW c \in Command, NEW kind \in Kind, NEW agent \in {Me, Other},
         Start(c, kind, agent)
  PROVE  IInv'
<1>1. PICK todo \in SUBSET Handles(ClaimsOf(agent)) :
        /\ kind \notin Acking \cup Releasing => todo = {}
        /\ Set(c, [pc |-> IF kind \in Rewriting THEN "save" ELSE "call", kind |-> kind,
                   agent |-> agent, claims |-> ClaimsOf(agent), todo |-> todo])
  BY DEF Start
<1>2. PICK local : local = [pc |-> IF kind \in Rewriting THEN "save" ELSE "call", kind |-> kind,
                            agent |-> agent, claims |-> ClaimsOf(agent), todo |-> todo]
  OBVIOUS
<1>3. UNCHANGED <<mailbox, file>> /\ MailFine' /\ Shrinks /\ UNCHANGED spent
  BY SameMail DEF IInv, Start
<1>4. FileFine'
  BY <1>3, FineStays DEF IInv, FileFine
<1>5. ClaimsOf(agent) \in SUBSET Claims /\ Fine(agent, ClaimsOf(agent))
  <2>1. CASE agent = file.agent
    BY <2>1 DEF ClaimsOf, IInv, FileFine
  <2>2. CASE agent # file.agent
    BY <2>2, FS_EmptySet DEF ClaimsOf, Fine, Clear
  <2> QED BY <2>1, <2>2
<1>6. todo \in SUBSET Nat
  BY <1>5 DEF Handles, Claims
<1>7. local \in Work /\ local # Idle
  BY <1>2, <1>5, <1>6 DEF Work, Idle
<1>8. AtWork(local)'
  <2>1. Fine(local.agent, local.claims) /\ local.todo \subseteq Handles(local.claims)
    BY <1>2, <1>5
  <2>2. local.kind = "inbox" => local.todo = {}
    BY <1>1, <1>2 DEF Acking, Releasing
  <2> QED BY <1>3, <1>7, <2>1, <2>2, FineStays DEF AtWork
<1>9. /\ running' \in [Command -> Work \cup {Idle}] /\ running'[c] = local
      /\ \A d \in Command : d # c => running'[d] = running[d]
  BY <1>1, <1>2, <1>7 DEF IInv, Set
<1>10. ASSUME NEW d \in Command, running'[d] # Idle PROVE AtWork(running[d])'
  <2>1. CASE d = c
    BY <1>8, <1>9, <2>1 DEF AtWork
  <2>2. CASE d # c
    BY <1>3, <1>9, <1>10, <2>2, FineStays DEF IInv, AtWork
  <2> QED BY <2>1, <2>2
<1>11. mishaps' \in 0..MaxMishaps /\ disturbed' \in BOOLEAN
  BY MishapType DEF Start, IInv
<1>12. ASSUME ~disturbed' PROVE Undisturbed'
  <2>1. ~disturbed /\ Alone(c) /\ agent = file.agent
    BY <1>12 DEF Start, IInv
  <2>2. Undisturbed /\ running[c] = Idle
    BY <2>1 DEF IInv, Start
  <2>3. \A d \in Command : running[d] = Idle
    BY <2>1, <2>2 DEF Alone
  <2>4. Covers(file.claims) /\ file.agent = Me
    BY <2>2, <2>3 DEF Undisturbed
  <2>5. file' = file
    BY <1>3
  <2>6. Covers(file.claims)' /\ file'.agent = Me
    <3>1. PICK claims : claims = file.claims
      OBVIOUS
    <3>2. Covers(claims)'
      BY <1>3, <2>4, <3>1, CoversStays
    <3> QED BY <2>4, <2>5, <3>1, <3>2 DEF Covers
  <2>7. local.agent = Me /\ local.claims = file'.claims
    BY <1>2, <2>1, <2>4, <2>5 DEF ClaimsOf
  <2>8. \A d \in Command : running'[d] # Idle => d = c
    BY <1>9, <2>3
  <2>9. Covers(running[c].claims)'
    BY <1>9, <2>6, <2>7 DEF Covers
  <2> QED BY <1>9, <2>6, <2>7, <2>8, <2>9 DEF Undisturbed
<1> QED BY <1>3, <1>4, <1>9, <1>10, <1>11, <1>12 DEF IInv

LEMMA ClaimInboxKeeps ==
  ASSUME IInv, NEW c \in Command, running[c] # Idle, ClaimInbox(c)
  PROVE  IInv'
<1> DEFINE granted == IF running[c].agent = Me THEN FirstOf(Waiting, ClaimLimit) ELSE {}
<1>0. running[c] \in Work /\ AtWork(running[c]) /\ MailFine
  BY DEF IInv, AtWork
<1>1. PICK r : r = running[c]
  OBVIOUS
<1>2. PICK S : S = granted
  OBVIOUS
<1>3. PICK claim : claim = NewClaim
  OBVIOUS
<1>4. S \in SUBSET Waiting /\ S \in SUBSET Message /\ (S # {} => r.agent = Me)
  BY <1>1, <1>2 DEF FirstOf, Waiting
<1>5. claim \in ClaimId /\ claim \notin spent
  BY <1>0, <1>3, NewClaimFresh
<1>6. /\ IF S = {} THEN UNCHANGED mailbox ELSE Mail!Grant({}, S, claim) /\ UNCHANGED by
      /\ \/ /\ NoMishap /\ UNCHANGED disturbed
            /\ Set(c, [r EXCEPT !.pc = "save", !.claims = WithMessages(r.claims, S, claim)])
         \/ Mishap /\ End(c) /\ disturbed' = TRUE
      /\ UNCHANGED file
  BY <1>1, <1>2, <1>3, Zenon DEF ClaimInbox
<1>7. /\ MailFine' /\ spent \subseteq spent' /\ (S # {} => claim \in spent')
      /\ \A m \in Message : status'[m] = "leased" =>
           IF m \in S THEN holder'[m] = claim ELSE status[m] = "leased" /\ holder'[m] = holder[m]
  <2>1. CASE S = {}
    BY <1>0, <1>6, <2>1, SameMail DEF Shrinks
  <2>2. CASE S # {}
    BY <1>0, <1>4, <1>5, <1>6, <2>2, GrantMail
  <2> QED BY <2>1, <2>2
<1>8. mishaps' \in 0..MaxMishaps
  BY <1>6, MishapType
<1>9. CASE Mishap /\ End(c) /\ disturbed' = TRUE
  BY <1>6, <1>7, <1>8, <1>9, LocalStep DEF End
<1>10. CASE /\ NoMishap /\ UNCHANGED disturbed
            /\ Set(c, [r EXCEPT !.pc = "save", !.claims = WithMessages(r.claims, S, claim)])
  <2>1. PICK new : new = WithMessages(r.claims, S, claim)
    OBVIOUS
  <2>2. /\ r \in Work /\ r.claims \in SUBSET Claims /\ IsFiniteSet(r.claims) /\ Clear(r.claims)
        /\ \A x \in r.claims : x.claim \in spent
        /\ r.agent # Me => r.claims = {}
        /\ r.kind = "inbox" /\ r.todo = {}
    BY <1>0, <1>1 DEF AtWork, Fine, Work, ClaimInbox
  <2>3. /\ new \in SUBSET Claims /\ IsFiniteSet(new) /\ Clear(new)
        /\ \A x \in new : x \in r.claims \/ x.claim = claim
        /\ \A x \in r.claims : x.message \notin S => x \in new
        /\ \A m \in S : \E x \in new : x.message = m /\ x.claim = claim
    BY <1>4, <1>5, <2>1, <2>2, WithMessagesFine
  <2>4. PICK local : local = [r EXCEPT !.pc = "save", !.claims = new]
    OBVIOUS
  <2>5. /\ local \in Work /\ local.claims = new /\ local.agent = r.agent /\ local.pc = "save"
        /\ local.kind = "inbox" /\ local.todo = {} /\ local # Idle
    BY <2>2, <2>3, <2>4 DEF Work, Idle
  <2>6. S = {} => new = r.claims
    BY <2>1 DEF WithMessages
  <2>7. Fine(local.agent, local.claims)'
    BY <1>4, <1>7, <2>2, <2>3, <2>5, <2>6 DEF Fine, Clear
  <2>8. AtWork(local)'
    BY <2>5, <2>7 DEF AtWork
  <2>9. ASSUME ~disturbed' PROVE ~disturbed /\ Covers(local.claims)'
    <3>1. ~disturbed /\ Covers(r.claims)
      BY <1>1, <1>10, <2>9 DEF IInv, Undisturbed
    <3>2. ASSUME NEW m \in Message, status'[m] = "leased"
          PROVE  \E x \in new : x.message = m /\ x.claim = holder'[m]
      <4>1. CASE m \in S
        <5>1. holder'[m] = claim
          BY <1>7, <3>2, <4>1
        <5> QED BY <2>3, <4>1, <5>1
      <4>2. CASE m \notin S
        <5>1. status[m] = "leased" /\ holder'[m] = holder[m]
          BY <1>7, <3>2, <4>2
        <5>2. PICK x \in r.claims : x.message = m /\ x.claim = holder[m]
          BY <3>1, <5>1 DEF Covers
        <5>3. x \in new
          BY <2>3, <4>2, <5>2
        <5> QED BY <5>1, <5>2, <5>3
      <4> QED BY <4>1, <4>2
    <3> QED BY <2>5, <3>1, <3>2 DEF Covers
  <2>10. Set(c, local) /\ disturbed' \in BOOLEAN
    BY <1>10, <2>1, <2>4 DEF IInv
  <2> QED BY <1>1, <1>6, <1>7, <1>8, <2>5, <2>8, <2>9, <2>10, LocalStep
<1> QED BY <1>6, <1>9, <1>10

\* The next claim to be worked on is one in the copy.
LEMMA ItemIn ==
  ASSUME IInv, NEW c \in Command, running[c] # Idle, running[c].todo # {}
  PROVE  Item(c) \in running[c].claims /\ Item(c).handle \in running[c].todo
<1>1. running[c] \in Work /\ running[c].todo \in SUBSET Nat
      /\ running[c].todo \subseteq Handles(running[c].claims)
  BY DEF IInv, AtWork, Work
<1>2. Oldest(running[c].todo) \in running[c].todo
  BY <1>1, OldestIn
<1>3. \E x \in running[c].claims : x.handle = Oldest(running[c].todo)
  BY <1>1, <1>2 DEF Handles
<1> QED BY <1>2, <1>3 DEF Item

\* A copy without a claim that is done with.
LEMMA WithoutFine ==
  ASSUME IInv, NEW c \in Command, running[c] # Idle, running[c].kind # "inbox",
         NEW x \in running[c].claims, spent \subseteq spent'
  PROVE  /\ Without(running[c], x) \in Work
         /\ AtWork(running[c])
         /\ \A local : local = Without(running[c], x) =>
              /\ AtWork(local)' /\ local # Idle /\ local.kind # "inbox"
              /\ local.agent = running[c].agent /\ local.claims = running[c].claims \ {x}
<1>1. PICK r : r = running[c]
  OBVIOUS
<1>2. r \in Work /\ AtWork(r)
  BY <1>1 DEF IInv, AtWork
<1>3. /\ r.claims \in SUBSET Claims /\ IsFiniteSet(r.claims) /\ Clear(r.claims)
      /\ (\A y \in r.claims : y.claim \in spent) /\ (r.agent # Me => r.claims = {})
      /\ r.todo \in SUBSET Nat /\ r.todo \subseteq Handles(r.claims)
  BY <1>2 DEF AtWork, Fine, Work
<1>4. PICK local : local = Without(r, x)
  OBVIOUS
<1>5. /\ local \in Work /\ local.agent = r.agent /\ local.kind = r.kind
      /\ local.claims = r.claims \ {x} /\ local.todo = r.todo \ {x.handle} /\ local.pc = "save"
  BY <1>2, <1>3, <1>4 DEF Without, Work
<1>6. local.todo \subseteq Handles(local.claims)
  BY <1>3, <1>5 DEF Handles
<1>7. IsFiniteSet(r.claims \ {x})
  BY <1>3, FS_RemoveElement
<1>8. Fine(local.agent, local.claims)'
  BY <1>3, <1>5, <1>7 DEF Fine, Clear
<1>9. AtWork(local)' /\ local # Idle /\ local.kind # "inbox"
  BY <1>1, <1>5, <1>6, <1>8 DEF AtWork, Idle
<1> QED BY <1>1, <1>2, <1>4, <1>5, <1>9

\* Once the mailbox has no lease for x, the other claims cover what they did.
LEMMA CoversWithout ==
  ASSUME NEW claims, NEW x \in claims, Covers(claims), Shrinks,
         status'[x.message] # "leased" \/ holder[x.message] # x.claim
  PROVE  Covers(claims \ {x})'
<1>1. ASSUME NEW m \in Message, status'[m] = "leased"
      PROVE  \E y \in claims \ {x} : y.message = m /\ y.claim = holder'[m]
  <2>1. status[m] = "leased" /\ holder'[m] = holder[m]
    BY <1>1 DEF Shrinks
  <2>2. PICK y \in claims : y.message = m /\ y.claim = holder[m]
    BY <2>1 DEF Covers
  <2>3. y # x
    BY <1>1, <2>1, <2>2
  <2> QED BY <2>1, <2>2, <2>3
<1> QED BY <1>1 DEF Covers

\* A step that ends a command, or drops one of its claims, when no lease is lost.
LEMMA ClaimStep ==
  ASSUME IInv, NEW c \in Command, running[c] # Idle, running[c].kind # "inbox",
         NEW x \in running[c].claims,
         Set(c, Without(running[c], x)) \/ End(c),
         status'[x.message] # "leased" \/ holder[x.message] # x.claim,
         MailFine', Shrinks, UNCHANGED <<spent, file, disturbed>>,
         mishaps' \in 0..MaxMishaps
  PROVE  IInv'
<1>1. PICK copy : copy = running[c].claims
  OBVIOUS
<1>2. PICK claims : claims = file.claims
  OBVIOUS
<1>3. ASSUME ~disturbed' PROVE ~disturbed /\ Covers(copy \ {x})' /\ Covers(file.claims)'
  <2>1. ~disturbed /\ Covers(copy) /\ Covers(claims)
    BY <1>1, <1>2, <1>3 DEF IInv, Undisturbed
  <2>2. Covers(claims)'
    BY <2>1, CoversStays
  <2>3. x \in copy
    BY <1>1
  <2>4. Covers(copy \ {x})'
    BY <2>1, <2>3, CoversWithout
  <2> QED BY <1>2, <2>1, <2>2, <2>4 DEF Covers
<1>4. disturbed' \in BOOLEAN /\ spent \subseteq spent'
  BY DEF IInv
<1>5. CASE Set(c, Without(running[c], x))
  <2>1. PICK local : local = Without(running[c], x)
    OBVIOUS
  <2>2. /\ local \in Work /\ AtWork(local)' /\ local # Idle /\ local.kind # "inbox"
        /\ local.agent = running[c].agent /\ local.claims = copy \ {x}
    BY <1>1, <1>4, <2>1, WithoutFine
  <2>3. ~disturbed' => Covers(local.claims)'
    BY <1>3, <2>2 DEF Covers
  <2>4. Set(c, local)
    BY <1>5, <2>1
  <2> QED BY <1>3, <1>4, <2>2, <2>3, <2>4, LocalStep
<1>6. CASE End(c)
  BY <1>3, <1>4, <1>6, LocalStep DEF End
<1> QED BY <1>5, <1>6

LEMMA ActOnClaimKeeps ==
  ASSUME IInv, NEW c \in Command, running[c] # Idle, ActOnClaim(c)
  PROVE  IInv'
<1>1. PICK x : x = Item(c)
  OBVIOUS
<1>2. /\ running[c].kind # "inbox" /\ running[c].todo # {}
      /\ Applies(x, running[c].kind)
      /\ \/ Set(c, Without(running[c], x)) /\ NoMishap
         \/ End(c) /\ Mishap
      /\ UNCHANGED <<file, disturbed>>
  BY <1>1, Zenon DEF ActOnClaim
<1>3. x \in running[c].claims /\ x \in Claims
  BY <1>1, <1>2, ItemIn DEF IInv, AtWork, Work
<1>4. MailFine' /\ Shrinks /\ UNCHANGED spent /\ status'[x.message] # "leased"
  BY <1>2, <1>3, SettlesMail, GivesBackMail DEF Applies, IInv
<1> QED BY <1>2, <1>3, <1>4, MishapType, ClaimStep

LEMMA RefuseKeeps ==
  ASSUME IInv, NEW c \in Command, running[c] # Idle, Refuse(c)
  PROVE  IInv'
<1>1. PICK x : x = Item(c)
  OBVIOUS
<1>2. /\ running[c].kind # "inbox" /\ running[c].todo # {}
      /\ Stale(x, running[c].kind)
      /\ Set(c, Without(running[c], x)) \/ End(c)
      /\ UNCHANGED <<mailbox, file, mishaps, disturbed>>
  BY <1>1, Zenon DEF Refuse
<1>3. x \in running[c].claims
  BY <1>1, <1>2, ItemIn
<1>4. MailFine' /\ Shrinks /\ UNCHANGED spent
  BY <1>2, SameMail DEF IInv
<1>5. mishaps' \in 0..MaxMishaps
  BY <1>2 DEF IInv
<1> QED BY <1>2, <1>3, <1>4, <1>5, ClaimStep DEF Stale

\* A step that only ends a command.
LEMMA EndKeeps ==
  ASSUME IInv, NEW c \in Command, running[c] # Idle, End(c),
         UNCHANGED <<mailbox, file>>, mishaps' \in 0..MaxMishaps, disturbed' \in BOOLEAN,
         ~disturbed' => ~disturbed /\ running[c].kind # "inbox"
  PROVE  IInv'
<1>1. MailFine' /\ Shrinks /\ UNCHANGED spent
  BY SameMail DEF IInv
<1>2. PICK claims : claims = file.claims
  OBVIOUS
<1>3. ASSUME ~disturbed' PROVE ~disturbed /\ Covers(file.claims)'
  <2>1. ~disturbed /\ Covers(claims)
    BY <1>2, <1>3 DEF IInv, Undisturbed
  <2>2. Covers(claims)'
    BY <1>1, <2>1, CoversStays
  <2> QED BY <1>2, <2>1, <2>2 DEF Covers
<1> QED BY <1>1, <1>3, LocalStep DEF End

LEMMA EndsKeep ==
  ASSUME IInv, NEW c \in Command, running[c] # Idle, Fail(c) \/ Finish(c) \/ Kill(c)
  PROVE  IInv'
<1>1. CASE Fail(c)
  <2>1. End(c) /\ Mishap /\ running[c].kind # "inbox" /\ UNCHANGED <<mailbox, file, disturbed>>
    BY <1>1, Zenon DEF Fail
  <2>2. mishaps' \in 0..MaxMishaps /\ disturbed' \in BOOLEAN
    BY <2>1, MishapType DEF IInv
  <2> QED BY <2>1, <2>2, EndKeeps
<1>2. CASE Finish(c)
  BY <1>2, EndKeeps DEF Finish, IInv
<1>3. CASE Kill(c)
  <2>1. mishaps' \in 0..MaxMishaps /\ disturbed' \in BOOLEAN
    BY <1>3, MishapType DEF IInv, Kill
  <2> QED BY <1>3, <2>1, EndKeeps DEF Kill
<1> QED BY <1>1, <1>2, <1>3

LEMMA SaveKeeps ==
  ASSUME IInv, NEW c \in Command, running[c] # Idle, Save(c)
  PROVE  IInv'
<1>1. PICK r : r = running[c]
  OBVIOUS
<1>2. /\ r.pc = "save" /\ file' = [agent |-> r.agent, claims |-> r.claims]
      /\ UNCHANGED <<mailbox, mishaps, disturbed>>
      /\ \/ End(c)
         \/ r.kind # "inbox" /\ Set(c, [r EXCEPT !.pc = "call"])
  BY <1>1, Zenon DEF Save
<1>3. r \in Work /\ AtWork(r)
  BY <1>1 DEF IInv, AtWork
<1>4. MailFine' /\ Shrinks /\ UNCHANGED spent
  BY <1>2, SameMail DEF IInv
<1>5. PICK local \in Work \cup {Idle} :
        /\ Set(c, local)
        /\ local # Idle => r.kind # "inbox" /\ local = [r EXCEPT !.pc = "call"]
  BY <1>2, <1>3 DEF End, Work, Idle
<1>6. local # Idle => /\ local.agent = r.agent /\ local.claims = r.claims /\ local.todo = r.todo
                      /\ local.kind = r.kind /\ local.pc = "call"
  BY <1>3, <1>5 DEF Work
<1>7. file'.agent = r.agent /\ file'.claims = r.claims
  BY <1>2
<1>8. FileFine'
  <2>1. Fine(r.agent, r.claims)'
    BY <1>3, <1>4, FineStays DEF AtWork
  <2> QED BY <1>2, <1>3, <1>7, <2>1 DEF FileFine, Work, Fine, Clear
<1>9. /\ running' \in [Command -> Work \cup {Idle}] /\ running'[c] = local
      /\ \A d \in Command : d # c => running'[d] = running[d]
  BY <1>5 DEF IInv, Set
<1>10. ASSUME NEW d \in Command, running'[d] # Idle PROVE AtWork(running[d])'
  <2>1. CASE d = c
    <3>1. Fine(local.agent, local.claims)'
      BY <1>3, <1>4, <1>6, <1>9, <1>10, <2>1, FineStays DEF AtWork
    <3> QED BY <1>3, <1>5, <1>6, <1>9, <1>10, <2>1, <3>1 DEF AtWork, Fine, Clear
  <2>2. CASE d # c
    BY <1>4, <1>9, <1>10, <2>2, FineStays DEF IInv, AtWork
  <2> QED BY <2>1, <2>2
<1>11. ASSUME ~disturbed' PROVE Undisturbed'
  <2>1. Undisturbed /\ Covers(r.claims) /\ r.agent = Me
    BY <1>1, <1>2, <1>11 DEF IInv, Undisturbed
  <2>2. Covers(r.claims)'
    BY <1>4, <2>1, CoversStays
  <2>3. Covers(file.claims)' /\ file'.agent = Me
    BY <1>7, <2>1, <2>2 DEF Covers
  <2>4. \A d \in Command : running'[d] # Idle => d = c
    BY <1>1, <1>9, <2>1 DEF Undisturbed
  <2>5. running'[c] # Idle => running'[c].agent = Me /\ Covers(running[c].claims)'
    BY <1>6, <1>9, <2>1, <2>2 DEF Covers
  <2> QED BY <2>3, <2>4, <2>5 DEF Undisturbed
<1> QED BY <1>2, <1>4, <1>8, <1>9, <1>10, <1>11 DEF IInv

-----------------------------------------------------------------------------
(* The theorems.                                                           *)

LEMMA NextKeeps ==
  ASSUME IInv, [Next]_vars
  PROVE  IInv'
<1>1. ASSUME NEW m \in Message, Post(m) \/ Cancel(m) \/ Lapse(m) PROVE IInv'
  BY <1>1, OutsideSteps
<1>2. ASSUME NEW c \in Command, Step(c) \/ Fail(c) \/ Kill(c) PROVE IInv'
  <2>1. running[c] # Idle
    BY <1>2
       DEF Step, ClaimInbox, ActOnClaim, Refuse, Finish, Save, Fail, Kill, Idle
  <2> QED BY <1>2, <2>1, ClaimInboxKeeps, ActOnClaimKeeps, RefuseKeeps, EndsKeep, SaveKeeps DEF Step
<1>3. ASSUME NEW c \in Command, NEW kind \in Kind, NEW agent \in {Me, Other}, Start(c, kind, agent)
      PROVE  IInv'
  BY <1>3, StartKeeps
<1>4. CASE UNCHANGED vars
  <2>1. UNCHANGED <<mailbox, spent, file, running, disturbed, mishaps>>
    BY <1>4 DEF vars, mailbox
  <2> QED BY <2>1, SameMail, MailStep DEF IInv
<1> QED BY <1>1, <1>2, <1>3, <1>4 DEF Next

LEMMA IInvTypeOK == IInv => TypeOK
<1> SUFFICES ASSUME IInv PROVE TypeOK
  OBVIOUS
<1>1. \A claims \in Copies : \A x \in claims : x \in Claims /\ x.claim \in spent
  BY DEF Copies, IInv, FileFine, AtWork, Fine
<1> QED BY <1>1 DEF IInv, MailFine, FileFine, AtWork, TypeOK

LEMMA IInvHandlesClear == IInv => HandlesClear
BY DEF IInv, FileFine, Fine, Clear, HandlesClear

LEMMA IInvHeldAreOnFile == IInv => HeldAreOnFile
BY DEF IInv, Undisturbed, Covers, HeldAreOnFile

(***************************************************************************)
(* The mailbox, the file and every command's copy of it are well formed,   *)
(* whatever commands overlap: in particular every handle a command still   *)
(* has to work through stands for a claim in its copy, so that no lookup   *)
(* of command_claim_action fails.                                          *)
(***************************************************************************)
THEOREM TypeCorrect == Spec => []TypeOK
<1> QED BY InitIInv, NextKeeps, IInvTypeOK, PTL DEF Spec

(***************************************************************************)
(* next_handle never gives a handle that the file has, and one message     *)
(* never has two: what `ack 1` is about is clear, also after copies of the *)
(* file have overwritten each other.                                       *)
(***************************************************************************)
THEOREM HandlesClearHolds == Spec => []HandlesClear
<1> QED BY InitIInv, NextKeeps, IInvHandlesClear, PTL DEF Spec

(***************************************************************************)
(* As long as one agent's commands follow one another and no inbox is lost *)
(* half way, every lease of the agent has its handle in the file whenever  *)
(* no command runs.                                                        *)
(***************************************************************************)
THEOREM HeldAreOnFileHolds == Spec => []HeldAreOnFile
<1> QED BY InitIInv, NextKeeps, IInvHeldAreOnFile, PTL DEF Spec

-----------------------------------------------------------------------------
(* The server's side.                                                      *)

LEMMA MailNext ==
  ASSUME IInv, [Next]_vars
  PROVE  [Mail!Next]_mailbox
<1>0. {} \in SUBSET Mail!Leased /\ MailFine
  BY DEF IInv
<1>1. ASSUME NEW m \in Message, Post(m) \/ Cancel(m) \/ Lapse(m) PROVE [Mail!Next]_mailbox
  <2>1. CASE Post(m)
    BY <2>1 DEF Post, Mail!Next
  <2>2. CASE Cancel(m)
    BY <1>0, <2>2 DEF Cancel, Mail!Next
  <2>3. CASE Lapse(m)
    <3>1. {m} \in SUBSET Mail!Leased /\ Mail!Lapse({m})
      BY <2>3 DEF Lapse, Mail!Leased
    <3> QED BY <3>1 DEF Mail!Next
  <2> QED BY <1>1, <2>1, <2>2, <2>3
<1>2. ASSUME NEW c \in Command, ClaimInbox(c) PROVE [Mail!Next]_mailbox
  <2>1. PICK S \in SUBSET Message : IF S = {} THEN UNCHANGED mailbox
                                    ELSE Mail!Grant({}, S, NewClaim) /\ UNCHANGED by
    <3>1. PICK S : /\ S = IF running[c].agent = Me THEN FirstOf(Waiting, ClaimLimit) ELSE {}
                   /\ IF S = {} THEN UNCHANGED mailbox
                      ELSE Mail!Grant({}, S, NewClaim) /\ UNCHANGED by
      BY <1>2, Zenon DEF ClaimInbox
    <3>2. S \in SUBSET Message
      BY <3>1 DEF FirstOf, Waiting
    <3> QED BY <3>1, <3>2
  <2>2. NewClaim \in ClaimId
    BY <1>0, NewClaimFresh
  <2> QED BY <1>0, <2>1, <2>2 DEF Mail!Next
<1>3. ASSUME NEW c \in Command, ActOnClaim(c) PROVE [Mail!Next]_mailbox
  <2>1. running[c] # Idle /\ running[c].todo # {}
    BY <1>3 DEF ActOnClaim, Idle
  <2>2. PICK x : x = Item(c)
    OBVIOUS
  <2>3. x \in Claims /\ Applies(x, running[c].kind)
    BY <1>3, <2>1, <2>2, ItemIn DEF ActOnClaim, IInv, AtWork, Work
  <2>4. x.message \in Message /\ x.claim \in ClaimId
    BY <2>3 DEF Claims
  <2> QED BY <1>0, <2>3, <2>4 DEF Applies, Settles, GivesBack, Mail!Next
<1>4. ASSUME NEW c \in Command, Refuse(c) \/ Finish(c) \/ Save(c) \/ Fail(c) \/ Kill(c)
      PROVE  UNCHANGED mailbox
  BY <1>4 DEF Refuse, Finish, Save, Fail, Kill
<1>5. ASSUME NEW c \in Command, NEW kind \in Kind, NEW agent \in {Me, Other}, Start(c, kind, agent)
      PROVE  UNCHANGED mailbox
  BY <1>5 DEF Start
<1>6. UNCHANGED vars => UNCHANGED mailbox
  BY DEF vars
<1> QED BY <1>1, <1>2, <1>3, <1>4, <1>5, <1>6 DEF Next, Step

(***************************************************************************)
(* All that the helper's commands do to the server, their retries, lost    *)
(* answers and stale handles included, a Mailbox allows: what MessageStore *)
(* promises of one is what this model assumes, and no more.                *)
(***************************************************************************)
THEOREM MailboxRespected == Spec => Mail!Spec
<1>1. Init => Mail!Init
  BY DEF Init
<1>2. [Mail!Next]_mailbox => [Mail!Next]_(Mail!mailboxVars)
  BY DEF mailbox, Mail!mailboxVars
<1> QED BY InitIInv, NextKeeps, MailNext, <1>1, <1>2, PTL DEF Spec, Mail!Spec

=============================================================================
