------------------------------- MODULE Watcher -------------------------------
(***************************************************************************)
(* The watcher's loop (_run_watch and deliver_queued_messages in cli.py),  *)
(* which brings the direct messages of one agent into its Codex pane:      *)
(* fetch what is pending, choose a sender, claim, paste, submit, ACK, and  *)
(* keep the rest in queue.json.                                            *)
(*                                                                         *)
(* The server is the Mailbox that MessageStore implements.  Around the     *)
(* watcher, senders post and cancel messages, another client reads the     *)
(* same inbox, leases lapse, the pane moves on its own, calls and tmux     *)
(* commands fail, and the watcher is killed at any point and started again *)
(* (restart-watch sends SIGTERM, for which it has no handler).             *)
(*                                                                         *)
(* Messages are numbered in the order of created_at and message_id.  Not   *)
(* in this module: registration, heartbeat and disconnect (Presence),      *)
(* startup prompts and pane summaries, which only delay a look at the pane.*)
(***************************************************************************)
EXTENDS Integers, FiniteSets

CONSTANTS
  Message,    \* messages to the agent, numbers
  Urgent,     \* those whose first line starts with STOP:, URGENT: ...
  Stop,       \* those whose first line starts with STOP:
  Sender,     \* who may have sent them
  SenderOf,   \* the sender of each message
  NoSender,   \* no active sender
  IdleLooks,  \* unchanged looks at the pane that make up idle_seconds
  ClaimLimit, \* messages the server grants a claim at most (20)
  MaxMishaps  \* bound: failed calls and tmux commands, early lapses, deaths of the
              \* watcher, claims of the other client, together

ASSUME WatcherAssumption ==
  /\ Message \subseteq Nat /\ IsFiniteSet(Message)
  /\ Stop \subseteq Urgent /\ Urgent \subseteq Message
  /\ SenderOf \in [Message -> Sender]
  /\ NoSender \notin Sender
  /\ IdleLooks \in Nat \ {0} /\ ClaimLimit \in Nat \ {0}
  /\ MaxMishaps \in Nat

VARIABLES
  status, holder, spent,  \* the server's mailbox
  theirs,    \* the claims of the other client
  pc,        \* where the watcher is in its loop
  queue,     \* its local queue
  file,      \* queue.json
  state,     \* WatchState: whether the screen is another than last_hash, for how
             \* many looks it was not, and the active sender
  held,      \* WatchState: the active sender's contact hold has not run out
  attempt,   \* the delivery under way
  composer,  \* how often each message stands in the pane, not submitted
  mishaps,   \* so far
  reached,   \* history: how often each message was submitted to Codex
  excused,   \* history: lapsed leases and failed submissions of each message
  acked,     \* history: the messages that an ACK of the watcher settled
  granted    \* history: the messages that were ever leased

mailbox == <<status, holder, spent, theirs>>
local == <<pc, queue, file, state, held, attempt>>
history == <<reached, excused, acked, granted>>
vars == <<mailbox, local, composer, mishaps, history>>

NoClaim == 0
ClaimId == Nat \ {0}

Mail == INSTANCE Mailbox

Waiting == {m \in Message : status[m] = "waiting"}
NewClaim == CHOOSE c \in 1..(Cardinality(spent) + 1) : c \notin spent
Oldest(S, k) == {m \in S : Cardinality({n \in S : n < m}) < k}
First(S) == CHOOSE m \in S : \A n \in S : m <= n
Raised(f, S) == [m \in Message |-> IF m \in S THEN f[m] + 1 ELSE f[m]]

NewState == [differs |-> TRUE, looks |-> 0, sender |-> NoSender]
NoAttempt == [claim |-> NoClaim, left |-> {}, rest |-> {}, next |-> NewState,
              adopts |-> FALSE]

Init ==
  /\ Mail!Init /\ theirs = {}
  /\ pc = "look"
  /\ queue = {} /\ file = [torn |-> FALSE, messages |-> {}]
  /\ state = NewState /\ held = FALSE
  /\ attempt = NoAttempt
  /\ composer = [m \in Message |-> 0]
  /\ mishaps = 0
  /\ reached = [m \in Message |-> 0] /\ excused = [m \in Message |-> 0]
  /\ acked = {} /\ granted = {}

Mishap == mishaps < MaxMishaps /\ mishaps' = mishaps + 1
NoMishap == UNCHANGED mishaps

-----------------------------------------------------------------------------
(* The server's other clients, its clock, the contact hold and the pane.   *)

\* The calls of one sender follow one another.
Post(m) ==
  /\ \A n \in Message : n < m /\ SenderOf[n] = SenderOf[m] => status[n] # "unsent"
  /\ Mail!Post(m)
  /\ UNCHANGED <<theirs, local, composer, mishaps, history>>

CancelQueued(m) ==
  /\ Mail!Withdraw({}, m)
  /\ UNCHANGED <<theirs, local, composer, mishaps, history>>

OtherClaims(m) ==
  /\ Mishap
  /\ Mail!Grant({}, {m}, NewClaim)
  /\ theirs' = theirs \cup {NewClaim}
  /\ granted' = granted \cup {m}
  /\ UNCHANGED <<local, composer, reached, excused, acked>>

\* By its claim; or with none, while nobody holds the message.
OtherEnds(m) ==
  /\ \E c \in theirs \cup {NoClaim} : Mail!Settle({}, m, c) \/ Mail!GiveBack({}, m, c)
  /\ UNCHANGED <<theirs, local, composer, mishaps, history>>

\* A lease lasts as long as its holder's work on it, but for MaxMishaps times.
Lapse(m) ==
  /\ status[m] = "leased"
  /\ Mail!Lapse({m})
  /\ IF holder[m] = attempt.claim
     THEN Mishap
     ELSE NoMishap
  /\ excused' = IF holder[m] \in theirs THEN excused ELSE Raised(excused, {m})
  /\ UNCHANGED <<theirs, local, composer, reached, acked, granted>>

\* A time, read only after a look.
HoldEnds ==
  /\ pc = "look" /\ held /\ held' = FALSE
  /\ UNCHANGED <<mailbox, pc, queue, file, state, attempt, composer, mishaps, history>>

-----------------------------------------------------------------------------
(* A look at the pane and at the server.                                   *)

\* A successful fetch leaves in the queue what is pending; a new message of the
\* active sender prolongs the hold.
Fetch ==
  \/ /\ NoMishap
     /\ queue' = Waiting
     /\ held' = (held \/ \E m \in Waiting \ queue : SenderOf[m] = state.sender)
  \/ Mishap /\ UNCHANGED <<queue, held>>

\* The screen is what the last look, or the watcher's own input, has left.
LookSame ==
  /\ pc = "look" /\ pc' = "deliver" /\ Fetch
  /\ state' = IF state.differs \/ state.looks = IdleLooks THEN state
              ELSE [state EXCEPT !.looks = @ + 1]
  /\ UNCHANGED <<mailbox, file, attempt, composer, history>>

\* Codex, or its user, has changed the screen.
LookMoved ==
  /\ pc = "look" /\ pc' = "deliver" /\ Fetch
  /\ state' = [state EXCEPT !.differs = TRUE]
  /\ UNCHANGED <<mailbox, file, attempt, composer, history>>

-----------------------------------------------------------------------------
(* The choice of a sender.                                                 *)

Steady == IF state.differs THEN [state EXCEPT !.differs = FALSE, !.looks = 0] ELSE state
Pressing == IF queue \cap Stop # {} THEN queue \cap Stop ELSE queue \cap Urgent
From(s) == {m \in queue : SenderOf[m] = s}

Chosen ==
  IF Pressing # {} THEN SenderOf[First(Pressing)]
  ELSE IF From(state.sender) # {} THEN state.sender
  ELSE IF state.sender # NoSender /\ held THEN NoSender
  ELSE SenderOf[First(queue)]

\* Slip: urgent messages wait for an idle pane, too.
DeliverableIdleOnly ==
  /\ queue # {} /\ Chosen # NoSender
  /\ ~state.differs /\ state.looks = IdleLooks

\* A screen that has just changed, or not been the same for idle_seconds, and
\* the contact hold keep back what is not urgent.
Deliverable ==
  /\ queue # {} /\ Chosen # NoSender
  /\ Pressing # {} \/ (~state.differs /\ state.looks = IdleLooks)

\* Slip: the newest message goes alone.
CandidatesNewest ==
  LET all == IF Pressing # {} THEN From(Chosen) \cap Urgent ELSE From(Chosen)
  IN  {m \in all : \A n \in all : n <= m}

Candidates == IF Pressing # {} THEN From(Chosen) \cap Urgent ELSE From(Chosen)

\* select_delivery_sender is reached; it takes a sender up, or stays with one.
Selects == queue # {} /\ (state.differs => Pressing # {})
Adopts == Selects /\ (Pressing # {} \/ Chosen \notin {state.sender, NoSender})
Selected == IF Adopts THEN [Steady EXCEPT !.sender = Chosen] ELSE Steady

\* Slip: the new hash is not kept unless something is delivered.
KeepQueuedForgetful ==
  /\ pc = "deliver" /\ ~Deliverable /\ pc' = "save"
  /\ UNCHANGED <<mailbox, queue, file, state, held, attempt, composer, mishaps, history>>

KeepQueued ==
  /\ pc = "deliver" /\ ~Deliverable /\ pc' = "save"
  /\ state' = Selected /\ held' = (held \/ Adopts)
  /\ UNCHANGED <<mailbox, queue, file, attempt, composer, mishaps, history>>

-----------------------------------------------------------------------------
(* The claim.                                                              *)

Grantable == Oldest(Candidates \cap Waiting, ClaimLimit)

\* Somebody else was faster: the stale copies are dropped.
ClaimNothing ==
  /\ pc = "deliver" /\ Deliverable /\ Grantable = {} /\ pc' = "save"
  /\ queue' = queue \ Candidates
  /\ state' = Selected /\ held' = (held \/ Adopts)
  /\ UNCHANGED <<mailbox, file, attempt, composer, mishaps, history>>

Grant ==
  /\ Mail!Grant({}, Grantable, NewClaim)
  /\ granted' = granted \cup Grantable
  /\ UNCHANGED <<theirs, reached, excused, acked>>

\* Slip: what is injected need not have been granted.
ClaimSomeInjectAll ==
  /\ pc = "deliver" /\ Deliverable /\ Grantable # {} /\ pc' = "paste"
  /\ Grant
  /\ attempt' = [claim |-> NewClaim, left |-> Candidates, rest |-> queue \ Candidates,
                 next |-> Selected, adopts |-> Adopts]
  /\ UNCHANGED <<queue, file, state, held, composer, mishaps>>

\* Slip: an empty grant is injected, too.
ClaimSomeOrNone ==
  /\ pc = "deliver" /\ Deliverable /\ pc' = "paste"
  /\ Grant
  /\ attempt' = [claim |-> NewClaim, left |-> Grantable, rest |-> queue \ Candidates,
                 next |-> Selected, adopts |-> Adopts]
  /\ UNCHANGED <<queue, file, state, held, composer, mishaps>>

ClaimSome ==
  /\ pc = "deliver" /\ Deliverable /\ Grantable # {} /\ pc' = "paste"
  /\ Grant
  /\ attempt' = [claim |-> NewClaim, left |-> Grantable, rest |-> queue \ Candidates,
                 next |-> Selected, adopts |-> Adopts]
  /\ UNCHANGED <<queue, file, state, held, composer, mishaps>>

\* MessageClaimError: the call, or its answer, was lost.  The queue and the
\* state are those from before the delivery.
ClaimFails ==
  /\ pc = "deliver" /\ Deliverable /\ pc' = "save"
  /\ Mishap
  /\ (Grantable # {} /\ Grant) \/ UNCHANGED <<mailbox, history>>
  /\ UNCHANGED <<queue, file, state, held, attempt, composer>>

-----------------------------------------------------------------------------
(* The injection: a STOP's interrupt, the paste, and the submitting key.   *)

Paste ==
  /\ pc = "paste"
  /\ \/ /\ NoMishap /\ pc' = "submit"
        /\ state' = [state EXCEPT !.differs = TRUE]
        /\ composer' = Raised(composer, attempt.left)
     \/ Mishap /\ pc' = "release" /\ UNCHANGED <<state, composer>>
  /\ UNCHANGED <<mailbox, queue, file, held, attempt, history>>

\* All that stands in the composer is submitted.
Submit ==
  /\ pc = "submit" /\ pc' = "ack"
  /\ reached' = [m \in Message |-> reached[m] + composer[m]]
  /\ composer' = [m \in Message |-> 0]
  /\ queue' = attempt.rest
  /\ state' = [attempt.next EXCEPT !.differs = TRUE] /\ held' = (held \/ attempt.adopts)
  /\ UNCHANGED <<mailbox, file, attempt, mishaps, excused, acked, granted>>

\* Slip: a failed submission is taken for a delivery.
SubmitFailsAcks ==
  /\ pc = "submit" /\ pc' = "ack"
  /\ Mishap
  /\ excused' = Raised(excused, attempt.left)
  /\ UNCHANGED <<mailbox, queue, file, state, held, attempt, composer, reached, acked, granted>>

\* The pasted text stays where it is.
SubmitFails ==
  /\ pc = "submit" /\ pc' = "release"
  /\ Mishap
  /\ excused' = Raised(excused, attempt.left)
  /\ UNCHANGED <<mailbox, queue, file, state, held, attempt, composer, reached, acked,
                 granted>>

-----------------------------------------------------------------------------
(* What becomes of the claimed messages, one call each.                    *)

\* The next message of the attempt, or the end of it.
Advance(next) ==
  LET left == attempt.left \ {First(attempt.left)}
  IN  IF left = {} THEN pc' = "save" /\ attempt' = NoAttempt
                   ELSE pc' = next /\ attempt' = [attempt EXCEPT !.left = left]

\* A release that fails or is refused is only logged.
Release ==
  LET m == First(attempt.left) IN
  /\ pc = "release" /\ Advance("release")
  /\ \/ NoMishap /\ Mail!GiveBack({}, m, attempt.claim)
     \/ NoMishap /\ holder[m] # attempt.claim /\ UNCHANGED <<status, holder, spent>>
     \/ Mishap /\ UNCHANGED <<status, holder, spent>>
  /\ UNCHANGED <<theirs, queue, file, state, held, composer, history>>

AckLands ==
  LET m == First(attempt.left) IN
  /\ pc = "ack" /\ Advance("ack")
  /\ Mail!Settle({}, m, attempt.claim)
  /\ acked' = acked \cup {m}
  /\ \/ NoMishap /\ UNCHANGED queue
     \/ Mishap /\ queue' = queue \cup {m}
  /\ UNCHANGED <<theirs, file, state, held, composer, reached, excused, granted>>

\* Lost, or refused as the lease is over: the message is queued again.
AckFails ==
  LET m == First(attempt.left) IN
  /\ pc = "ack" /\ Advance("ack")
  /\ \/ NoMishap /\ holder[m] # attempt.claim
     \/ Mishap
  /\ queue' = queue \cup {m}
  /\ UNCHANGED <<mailbox, file, state, held, composer, history>>

-----------------------------------------------------------------------------
(* queue.json is emptied when it is opened, and then written.              *)

OpenQueueFile ==
  /\ pc = "save" /\ pc' = "write"
  /\ file' = [torn |-> TRUE, messages |-> {}]
  /\ UNCHANGED <<mailbox, queue, state, held, attempt, composer, mishaps, history>>

WriteQueueFile ==
  /\ pc = "write" /\ pc' = "look"
  /\ file' = [torn |-> FALSE, messages |-> queue]
  /\ UNCHANGED <<mailbox, queue, state, held, attempt, composer, mishaps, history>>

-----------------------------------------------------------------------------
(* The process.                                                            *)

Gone ==
  /\ Mishap
  /\ pc' = "down" /\ queue' = {} /\ state' = NewState /\ held' = FALSE
  /\ attempt' = NoAttempt
  /\ UNCHANGED <<mailbox, file, history>>

Kill == pc # "down" /\ Gone /\ UNCHANGED composer

\* The tmux session ends, and with it what stood in the composer.
SessionEnds ==
  /\ pc = "look" /\ Gone
  /\ composer' = [m \in Message |-> 0]

\* load_queue raises when the file is no JSON.
Start ==
  /\ pc = "down" /\ ~file.torn /\ pc' = "look"
  /\ queue' = file.messages
  /\ UNCHANGED <<mailbox, file, state, held, attempt, composer, mishaps, history>>

LoopStep ==
  \/ LookSame \/ LookMoved \/ KeepQueued
  \/ ClaimNothing \/ ClaimSome \/ ClaimFails
  \/ Paste \/ Submit \/ SubmitFails
  \/ Release \/ AckLands \/ AckFails
  \/ OpenQueueFile \/ WriteQueueFile

Next ==
  \/ \E m \in Message :
       Post(m) \/ CancelQueued(m) \/ OtherClaims(m) \/ OtherEnds(m) \/ Lapse(m)
  \/ HoldEnds
  \/ LoopStep
  \/ Kill \/ SessionEnds \/ Start

Spec == Init /\ [][Next]_vars

\* The watcher runs, leases and the contact hold run out, and somebody starts
\* the watcher again.
Fairness ==
  /\ WF_vars(LoopStep) /\ WF_vars(Start) /\ SF_vars(HoldEnds)
  /\ \A m \in Message : WF_vars(Lapse(m))

FairSpec == Spec /\ Fairness

-----------------------------------------------------------------------------
(* Properties.                                                             *)

Watch == [differs : BOOLEAN, looks : 0..IdleLooks, sender : Sender \cup {NoSender}]
Attempt ==
  [claim : ClaimId \cup {NoClaim}, left : SUBSET Message, rest : SUBSET Message,
   next : Watch, adopts : BOOLEAN]

\* The type invariant; the watcher has a claim exactly while it works on one.
TypeOK ==
  /\ status \in [Message -> {"unsent", "waiting", "leased", "settled", "withdrawn"}]
  /\ holder \in [Message -> ClaimId \cup {NoClaim}]
  /\ spent \subseteq ClaimId /\ theirs \subseteq spent
  /\ pc \in {"look", "deliver", "paste", "submit", "release", "ack", "save", "write", "down"}
  /\ queue \subseteq Message
  /\ file \in [torn : BOOLEAN, messages : SUBSET Message]
  /\ state \in Watch /\ held \in BOOLEAN
  /\ attempt \in Attempt
  /\ attempt.left # {} <=> pc \in {"paste", "submit", "release", "ack"}
  /\ attempt.claim # NoClaim <=> attempt.left # {}
  /\ composer \in [Message -> Nat]
  /\ mishaps \in 0..MaxMishaps
  /\ reached \in [Message -> Nat] /\ excused \in [Message -> Nat]
  /\ acked \subseteq Message /\ granted \subseteq Message

(* Nothing is acknowledged unseen: what the watcher's ACK settled had been *)
(* submitted to Codex, whatever failed on the way.                         *)
AckedWereSubmitted == \A m \in acked : status[m] = "settled" /\ reached[m] > 0

(* A message is consumed once: submitted to Codex, settled by the other    *)
(* client, or canceled.  Only a lease that ran out, or a text left in the  *)
(* composer by a failed submission, lets it be consumed once more.         *)
TakenByOthers(m) == IF status[m] \in Mail!Final /\ m \notin acked THEN 1 ELSE 0
ConsumedOnce ==
  \A m \in Message :
    reached[m] + composer[m] + TakenByOthers(m) <= 1 + excused[m]

(* A sender's messages of one urgency reach Codex in the order they were   *)
(* sent: one that was never leased, canceled or settled is not overtaken.  *)
NoOvertaking ==
  \A m, n \in Message :
    /\ n < m /\ SenderOf[n] = SenderOf[m] /\ (n \in Urgent <=> m \in Urgent)
    /\ reached[m] > 0
    => status[n] # "waiting" \/ n \in granted

(* An urgent message leaves the server's inbox even if the pane never      *)
(* settles; any message does when the pane settles.  The exception is a    *)
(* watcher killed while it wrote queue.json, which cannot start again.     *)
Leaves(m) == status[m] = "waiting" ~> (status[m] \in Mail!Final \/ (file.torn /\ pc = "down"))
UrgentLeave == \A m \in Urgent : Leaves(m)
Unsettles == LookMoved /\ ~state.differs
AllLeave == <>[][~Unsettles]_vars => \A m \in Message : Leaves(m)
=============================================================================
