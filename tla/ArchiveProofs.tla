----------------------------- MODULE ArchiveProofs -----------------------------
(***************************************************************************)
(* The safety of Archive, for any messages, agents, ages, segment sizes    *)
(* and bounds.  The invariants are inductive together with what a pass     *)
(* knows of its batch (BatchHeld) and with ListedOnDisk.                   *)
(***************************************************************************)
EXTENDS Archive, FiniteSetTheorems, TLAPS

USE ArchiveAssumption

\* A batch is older than the cutoff of its pass, the cutoff is ArchiveAge ago,
\* and from its publication to the end of the attempt its file is there.
BatchHeld ==
  /\ IsFiniteSet(job.batch)
  /\ \A r \in job.batch : r.created < job.cutoff
  /\ job.cutoff = 0 \/ job.cutoff + ArchiveAge <= clock
  /\ job.at \in {"unlink", "finalize"} => job.batch \in files
  /\ job.at # "end" => job.attempt <= SegmentsPerPass

ListedOnDisk == listed \subseteq files

Safe == /\ ListedOnDisk
        /\ NothingLost
        /\ KeptLongEnough
        /\ MessagesListedOnce
        /\ ConversationsHold

IInv == /\ TypeOK
        /\ BatchHeld
        /\ Safe

-----------------------------------------------------------------------------
(* Lemmas about rows and batches.                                          *)

LEMMA BatchFromRows == \A rows : Batch(rows) \subseteq rows
BY DEF Batch

LEMMA OlderOfTwo == \A x, y : Older(x, y) \in {x, y}
BY DEF Older

LEMMA RowsTyped ==
  ASSUME TypeOK
  PROVE  /\ MessageRows \subseteq Row
         /\ SummaryRows \subseteq Row
<1>1. ASSUME NEW m \in Message, message[m].state \in Terminal
      PROVE  MessageRow(m) \in Row
  <2>1. /\ Parties[m][1] \in Agent /\ Parties[m][2] \in Agent
        /\ message[m].created \in Time
    BY DEF TypeOK
  <2> QED
    BY <1>1, <2>1 DEF TypeOK, MessageRow, Row
<1>2. ASSUME NEW s \in Kept
      PROVE  SummaryRow(s) \in Row
  <2>1. s \in Summary /\ s[1] \in Agent /\ pane[s] \in Time
    BY DEF TypeOK, Kept, Summary
  <2> QED
    BY <2>1 DEF TypeOK, SummaryRow, Row
<1> QED
  BY <1>1, <1>2 DEF MessageRows, SummaryRows

LEMMA ImageFinite ==
  ASSUME NEW S, IsFiniteSet(S), NEW f, DOMAIN f = S
  PROVE  IsFiniteSet({f[x] : x \in S})
<1> DEFINE T == {f[x] : x \in S}
           g == [x \in S |-> f[x]]
<1>1. g \in [S -> T] /\ \A t \in T : \E x \in S : g[x] = t
  OBVIOUS
<1> HIDE DEF g, T
<1>2. g \in Surjection(S, T)
  BY <1>1 DEF Surjection
<1>3. IsFiniteSet(T)
  BY <1>2, FS_Surjection
<1> QED
  BY <1>3 DEF T

LEMMA RowsFinite == IsFiniteSet(MessageRows) /\ IsFiniteSet(SummaryRows)
<1> DEFINE settled == {n \in Message : message[n].state \in Terminal}
           f == [n \in settled |-> MessageRow(n)]
           g == [s \in Kept |-> SummaryRow(s)]
<1>0. settled \in SUBSET Message /\ Kept \in SUBSET Summary
  BY DEF Kept
<1>1. /\ DOMAIN f = settled /\ \A n \in settled : f[n] = MessageRow(n)
      /\ DOMAIN g = Kept /\ \A s \in Kept : g[s] = SummaryRow(s)
  OBVIOUS
<1> HIDE DEF f, g
<1>2. MessageRows = {f[n] : n \in settled}
  BY <1>1 DEF MessageRows
<1>3. SummaryRows = {g[s] : s \in Kept}
  BY <1>1 DEF SummaryRows
<1> HIDE DEF settled
<1>4. IsFiniteSet(settled) /\ IsFiniteSet(Kept)
  BY <1>0, FS_Subset
<1> QED
  BY <1>1, <1>2, <1>3, <1>4, ImageFinite

\* A selected row that is still what it was is the row of its id.
LEMMA MessageInBatch ==
  ASSUME NEW batch, Unchanged(batch), NEW m \in MessagesIn(batch)
  PROVE  /\ MessageRow(m) \in batch
         /\ m \in Message
         /\ message[m].state \in Terminal
<1>1. PICK r \in batch : r.kind = "messages" /\ r.id = m
  BY DEF MessagesIn
<1>2. r \in MessageRows
  <2>1. \A s \in Kept : SummaryRow(s).kind = "pane_summaries"
    BY DEF SummaryRow
  <2> QED
    BY <1>1, <2>1 DEF Unchanged, Rows, SummaryRows
<1>3. PICK n \in Message : r = MessageRow(n) /\ message[n].state \in Terminal
  BY <1>2 DEF MessageRows
<1>4. n = m
  BY <1>1, <1>3 DEF MessageRow
<1> QED
  BY <1>3, <1>4

LEMMA SummaryInBatch ==
  ASSUME NEW batch, Unchanged(batch), NEW s \in SummariesIn(batch)
  PROVE  /\ SummaryRow(s) \in batch
         /\ s \in Kept
<1>1. PICK r \in batch : r.kind = "pane_summaries" /\ r.id = SummaryId[s]
  BY DEF SummariesIn
<1>2. r \in SummaryRows
  <2>1. \A m \in Message : MessageRow(m).kind = "messages"
    BY DEF MessageRow
  <2> QED
    BY <1>1, <2>1 DEF Unchanged, Rows, MessageRows
<1>3. PICK t \in Kept : r = SummaryRow(t)
  BY <1>2 DEF SummaryRows
<1>4. SummaryId[t] = SummaryId[s]
  BY <1>1, <1>3 DEF SummaryRow
<1>5. t = s
  BY <1>4 DEF Kept, SummariesIn
<1> QED
  BY <1>3, <1>5

-----------------------------------------------------------------------------
(* The types.                                                              *)

JobRecord == [at : Stage, cutoff : Time, attempt : 0..SegmentsPerPass + 1,
              records : Nat, batch : SUBSET Row, temp : Time]

LEMMA RestTyped == Asleep \in JobRecord /\ Down \in JobRecord
BY DEF Asleep, Down, JobRecord, Stage, Time

LEMMA InitType == Init => TypeOK
BY RestTyped DEF Init, TypeOK, Time, Terminal, Absent, JobRecord

LEMMA TickType == TypeOK /\ Tick => TypeOK'
BY DEF TypeOK, Tick, Time, store, disk

LEMMA StateChanged ==
  ASSUME NEW T, NEW C, NEW x \in [state : T, created : C], NEW t \in T
  PROVE  [x EXCEPT !.state = t] \in [state : T, created : C]
OBVIOUS

LEMMA ServeType ==
  ASSUME TypeOK, Serve
  PROVE  TypeOK'
<1> USE DEF disk
<1>0. clock \in Time /\ 0 \in Time
  BY DEF TypeOK, Time
<1>1. ASSUME NEW m \in Message, CreateMessage(m)
      PROVE  TypeOK'
  <2>1. message' \in [Message -> [state : {"unsent", "open", "archived"} \cup Terminal,
                                  created : Time]]
    BY <1>1, <1>0 DEF TypeOK, CreateMessage
  <2>2. conversations' \subseteq SUBSET Agent
    BY <1>1 DEF TypeOK, CreateMessage, Conversation
  <2> QED
    BY <1>1, <2>1, <2>2 DEF TypeOK, CreateMessage
<1>2. ASSUME NEW m \in Message, Settle(m)
      PROVE  TypeOK'
  <2>1. PICK t \in Terminal : message' = [message EXCEPT ![m].state = t]
    BY <1>2 DEF Settle
  <2>2. message' \in [Message -> [state : {"unsent", "open", "archived"} \cup Terminal,
                                  created : Time]]
    <3> DEFINE T == {"unsent", "open", "archived"} \cup Terminal
    <3>1. message \in [Message -> [state : T, created : Time]] /\ t \in T
      BY DEF TypeOK
    <3> HIDE DEF T
    <3>2. [message[m] EXCEPT !.state = t] \in [state : T, created : Time]
      BY <3>1, StateChanged
    <3>3. message' \in [Message -> [state : T, created : Time]]
      BY <2>1, <3>1, <3>2
    <3> QED
      BY <3>3 DEF T
  <2> QED
    BY <1>2, <2>2 DEF TypeOK, Settle
<1>3. ASSUME NEW a \in Agent, HeartbeatAgent(a)
      PROVE  TypeOK'
  <2>1. PICK b \in Body \cup {NoBody} :
          /\ shown' = [shown EXCEPT ![a] =
               [body |-> b, updated |-> IF b = NoBody THEN 0 ELSE clock]]
          /\ pane' = [s \in Summary |->
               IF s = <<a, b>> /\ pane[s] = Absent THEN clock ELSE pane[s]]
    BY <1>3 DEF HeartbeatAgent
  <2>2. shown' \in [Agent -> [body : Body \cup {NoBody}, updated : Time]]
    BY <2>1, <1>0 DEF TypeOK
  <2>3. pane' \in [Summary -> Time]
    BY <2>1, <1>0 DEF TypeOK
  <2> QED
    BY <1>3, <2>2, <2>3 DEF TypeOK, HeartbeatAgent
<1>4. ASSUME NEW a \in Agent, RegisterAgent(a)
      PROVE  TypeOK'
  BY <1>4 DEF TypeOK, RegisterAgent
<1> QED
  BY <1>1, <1>2, <1>3, <1>4 DEF Serve

\* A step of the pass that only moves job along.
LEMMA JobMoves ==
  ASSUME TypeOK, job' \in JobRecord, files' \subseteq SUBSET Row, temps' \subseteq Time,
         UNCHANGED <<clock, store, listed, mishaps, gone>>
  PROVE  TypeOK'
BY DEF TypeOK, store, JobRecord

LEMMA AttemptTyped ==
  ASSUME TypeOK, BatchHeld, job.at # "end", NEW records \in Nat, NextAttempt(records)
  PROVE  job' \in JobRecord
<1> DEFINE at == IF job.attempt < SegmentsPerPass THEN "messages" ELSE "end"
<1>1. job' = [job EXCEPT !.at = at, !.attempt = job.attempt + 1, !.records = records,
                         !.batch = {}]
  BY DEF NextAttempt
<1>2. at \in Stage
  BY DEF Stage
<1> HIDE DEF at
<1>3. job \in JobRecord
  BY DEF TypeOK, JobRecord
<1>4. job.attempt + 1 \in 0..SegmentsPerPass + 1
  BY <1>3 DEF BatchHeld, JobRecord
<1> QED
  BY <1>1, <1>2, <1>3, <1>4 DEF JobRecord

LEMMA PassType ==
  ASSUME TypeOK, BatchHeld, StartPass \/ PassStep
  PROVE  TypeOK'
<1> USE DEF disk
<1>0. clock \in Time /\ 0 \in Time /\ job \in JobRecord /\ 1 \in 0..SegmentsPerPass + 1
  BY DEF TypeOK, Time, JobRecord
<1>a. files \subseteq SUBSET Row /\ temps \subseteq Time
  BY DEF TypeOK
<1>1. CASE StartPass
  <2>1. Cutoff \in Time
    BY <1>0 DEF Cutoff, Time
  <2>2. job' \in JobRecord
    BY <1>1, <1>0, <2>1, RestTyped DEF StartPass, JobRecord, Stage
  <2> QED
    BY <1>1, <2>2, <1>a, JobMoves DEF StartPass
<1>2. CASE SelectMessages
  <2>1. Batch(OldMessages(job.cutoff)) \subseteq Row
    BY RowsTyped, BatchFromRows DEF OldMessages
  <2>2. job' \in JobRecord
    BY <1>2, <1>0, <2>1 DEF SelectMessages, JobRecord, Stage
  <2> QED
    BY <1>2, <2>2, <1>a, JobMoves DEF SelectMessages
<1>3. CASE SelectSummaries
  <2> DEFINE batch == Older(job.batch, Batch(OldSummaries(job.cutoff)))
  <2>1. Batch(OldSummaries(job.cutoff)) \subseteq Row
    BY RowsTyped, BatchFromRows DEF OldSummaries
  <2>2. batch \subseteq Row
    BY <1>0, <2>1, OlderOfTwo DEF JobRecord
  <2>3. job' = [job EXCEPT !.at = IF batch = {} THEN "end" ELSE "write", !.batch = batch]
    BY <1>3 DEF SelectSummaries
  <2> HIDE DEF batch
  <2>4. job' \in JobRecord
    BY <1>0, <2>2, <2>3 DEF JobRecord, Stage
  <2> QED
    BY <1>3, <2>4, <1>a, JobMoves DEF SelectSummaries
<1>4. CASE WriteTemp
  <2>1. job' \in JobRecord
    BY <1>4, <1>0 DEF WriteTemp, JobRecord, Stage
  <2> QED
    BY <1>4, <2>1, <1>a, JobMoves DEF WriteTemp
<1>5. CASE Publish
  <2>1. job' \in JobRecord
    BY <1>5, <1>0 DEF Publish, JobRecord, Stage
  <2>2. files' \subseteq SUBSET Row
    BY <1>5, <1>0, <1>a DEF Publish, JobRecord
  <2> QED
    BY <1>5, <2>1, <2>2, <1>a, JobMoves DEF Publish
<1>6. CASE Unlink
  <2>1. job' \in JobRecord
    BY <1>6, <1>0 DEF Unlink, JobRecord, Stage
  <2> QED
    BY <1>6, <2>1, <1>a, JobMoves DEF Unlink
<1>7. job.records + Cardinality(job.batch) \in Nat
  BY <1>0, FS_CardinalityType DEF BatchHeld, JobRecord
<1>8. CASE FindListed
  <2>1. job' \in JobRecord
    BY <1>8, <1>7, AttemptTyped DEF FindListed
  <2> QED
    BY <1>8, <2>1, <1>a, JobMoves DEF FindListed
<1>9. CASE ListAndDelete
  <2>1. job' \in JobRecord
    BY <1>9, <1>7, AttemptTyped DEF ListAndDelete
  <2>2. message' \in [Message -> [state : {"unsent", "open", "archived"} \cup Terminal,
                                  created : Time]]
    <3> DEFINE T == {"unsent", "open", "archived"} \cup Terminal
    <3>0. message \in [Message -> [state : T, created : Time]] /\ "archived" \in T
      BY DEF TypeOK
    <3> HIDE DEF T
    <3>1. \A m \in Message : [message[m] EXCEPT !.state = "archived"] \in [state : T, created : Time]
      BY <3>0, StateChanged
    <3>2. message' = [m \in Message |->
            IF m \in MessagesIn(job.batch) THEN [message[m] EXCEPT !.state = "archived"]
            ELSE message[m]]
      BY <1>9 DEF ListAndDelete
    <3>3. message' \in [Message -> [state : T, created : Time]]
      BY <3>0, <3>1, <3>2
    <3> QED
      BY <3>3 DEF T
  <2>3. pane' \in [Summary -> Time]
    BY <1>9, <1>0 DEF ListAndDelete, TypeOK, Absent
  <2>4. conversations' \subseteq SUBSET Agent
    BY <1>9 DEF ListAndDelete, TypeOK
  <2>5. listed' \subseteq SUBSET Row
    BY <1>9, <1>0 DEF ListAndDelete, TypeOK, JobRecord
  <2>6. gone' \subseteq Row
    <3>1. \A m \in MessagesIn(job.batch) : MessageRow(m) \in job.batch
      BY <1>9, MessageInBatch DEF ListAndDelete
    <3>2. \A s \in SummariesIn(job.batch) : SummaryRow(s) \in job.batch
      BY <1>9, SummaryInBatch DEF ListAndDelete
    <3> QED
      BY <1>9, <1>0, <3>1, <3>2 DEF ListAndDelete, TypeOK, JobRecord
  <2> QED
    BY <1>9, <2>1, <2>2, <2>3, <2>4, <2>5, <2>6 DEF ListAndDelete, TypeOK, JobRecord
<1>10. CASE FindChanged
  <2>1. job.records \in Nat
    BY <1>0 DEF JobRecord
  <2>2. job' \in JobRecord
    BY <1>10, <2>1, AttemptTyped, RestTyped DEF FindChanged
  <2> QED
    BY <1>10, <2>2, <1>a, JobMoves DEF FindChanged
<1>11. CASE EndPass
  BY <1>11, <1>a, RestTyped, JobMoves DEF EndPass
<1> QED
  BY <1>1, <1>2, <1>3, <1>4, <1>5, <1>6, <1>8, <1>9, <1>10, <1>11 DEF PassStep

LEMMA ProcessType ==
  ASSUME TypeOK, Fail \/ Crash \/ InitSchema
  PROVE  TypeOK'
<1> USE DEF disk, store
<1>1. CASE Fail
  BY <1>1, RestTyped DEF TypeOK, Fail, JobRecord
<1>2. CASE Crash
  BY <1>2, RestTyped DEF TypeOK, Crash, JobRecord
<1>3. CASE InitSchema
  <2>1. pane' \in [Summary -> Time]
    BY <1>3 DEF InitSchema, Backfilled, TypeOK, Summary
  <2> QED
    BY <1>3, <2>1, RestTyped DEF TypeOK, InitSchema, JobRecord
<1> QED
  BY <1>1, <1>2, <1>3

LEMMA StutterType == TypeOK /\ UNCHANGED vars => TypeOK'
BY DEF TypeOK, vars, store, disk

LEMMA TypeStep ==
  ASSUME TypeOK, BatchHeld, [Next]_vars
  PROVE  TypeOK'
BY TickType, ServeType, PassType, ProcessType, StutterType DEF Next

-----------------------------------------------------------------------------
(* What a pass knows of its batch.                                         *)

LEMMA HeldByRest ==
  ASSUME job' = Asleep \/ job' = Down
  PROVE  BatchHeld'
<1>1. /\ job'.at \in {"asleep", "down"} /\ job'.batch = {}
      /\ job'.cutoff = 0 /\ job'.attempt = 0
  BY DEF Asleep, Down
<1> QED
  BY <1>1, FS_EmptySet DEF BatchHeld

LEMMA HeldByAttempt ==
  ASSUME TypeOK, BatchHeld, NEW records, NextAttempt(records), clock' = clock
  PROVE  BatchHeld'
<1>1. /\ job'.at = IF job.attempt < SegmentsPerPass THEN "messages" ELSE "end"
      /\ job'.attempt = job.attempt + 1
      /\ job'.batch = {}
      /\ job'.cutoff = job.cutoff
  BY DEF NextAttempt, TypeOK
<1>2. job.attempt \in Nat
  BY DEF TypeOK
<1> QED
  BY <1>1, <1>2, FS_EmptySet DEF BatchHeld

LEMMA HeldByOthers ==
  ASSUME TypeOK, BatchHeld, job' = job, files' = files, clock' \in {clock, clock + 1}
  PROVE  BatchHeld'
BY DEF BatchHeld, TypeOK, Time

LEMMA SelectedHeld ==
  ASSUME TypeOK, BatchHeld
  PROVE  \A rows \in {OldMessages(job.cutoff), OldSummaries(job.cutoff)} :
           IsFiniteSet(Batch(rows)) /\ \A r \in Batch(rows) : r.created < job.cutoff
<1>1. /\ OldMessages(job.cutoff) \in SUBSET MessageRows
      /\ OldSummaries(job.cutoff) \in SUBSET SummaryRows
  BY DEF OldMessages, OldSummaries
<1>2. IsFiniteSet(OldMessages(job.cutoff)) /\ IsFiniteSet(OldSummaries(job.cutoff))
  BY <1>1, RowsFinite, FS_Subset
<1>3. ASSUME NEW rows \in {OldMessages(job.cutoff), OldSummaries(job.cutoff)}
      PROVE  IsFiniteSet(Batch(rows)) /\ \A r \in Batch(rows) : r.created < job.cutoff
  <2>1. Batch(rows) \in SUBSET rows
    BY BatchFromRows
  <2>2. IsFiniteSet(Batch(rows))
    BY <1>2, <2>1, FS_Subset
  <2>3. \A r \in rows : r.created < job.cutoff
    BY DEF OldMessages, OldSummaries
  <2> QED
    BY <2>1, <2>2, <2>3
<1> QED
  BY <1>3

LEMMA HeldStep ==
  ASSUME TypeOK, BatchHeld, [Next]_vars
  PROVE  BatchHeld'
<1> USE DEF disk
<1>1. CASE Tick \/ Serve \/ UNCHANGED vars
  <2>1. job' = job /\ files' = files /\ clock' \in {clock, clock + 1}
    BY <1>1 DEF Tick, Serve, CreateMessage, Settle, HeartbeatAgent, RegisterAgent, vars
  <2> QED
    BY <2>1, HeldByOthers
<1>2. CASE StartPass
  <2>1. /\ job'.at = "messages" /\ job'.cutoff = Cutoff /\ job'.attempt = 1
        /\ job'.batch = {} /\ clock' = clock
    BY <1>2 DEF StartPass, Asleep
  <2>2. Cutoff = 0 \/ Cutoff + ArchiveAge <= clock
    BY DEF Cutoff, TypeOK, Time
  <2> QED
    BY <2>1, <2>2, FS_EmptySet DEF BatchHeld
<1>3. CASE SelectMessages
  <2>1. /\ job'.at = "summaries" /\ job'.cutoff = job.cutoff /\ job'.attempt = job.attempt
        /\ job'.batch = Batch(OldMessages(job.cutoff)) /\ clock' = clock
    BY <1>3 DEF SelectMessages, TypeOK
  <2> QED
    BY <1>3, <2>1, SelectedHeld DEF BatchHeld, SelectMessages
<1>4. CASE SelectSummaries
  <2>1. /\ job'.at \in {"end", "write"} /\ job'.cutoff = job.cutoff
        /\ job'.attempt = job.attempt /\ clock' = clock
        /\ job'.batch = Older(job.batch, Batch(OldSummaries(job.cutoff)))
    BY <1>4 DEF SelectSummaries, TypeOK
  <2>2. job'.batch \in {job.batch, Batch(OldSummaries(job.cutoff))}
    BY <2>1, OlderOfTwo
  <2>3. IsFiniteSet(job'.batch) /\ \A r \in job'.batch : r.created < job.cutoff
    BY <2>2, SelectedHeld DEF BatchHeld
  <2> QED
    BY <1>4, <2>1, <2>3 DEF BatchHeld, SelectSummaries
<1>5. CASE WriteTemp \/ Publish \/ Unlink
  <2>1. /\ job'.cutoff = job.cutoff /\ job'.attempt = job.attempt
        /\ job'.batch = job.batch /\ clock' = clock
    BY <1>5 DEF WriteTemp, Publish, Unlink, TypeOK
  <2>2. job.at # "end"
    BY <1>5 DEF WriteTemp, Publish, Unlink
  <2>3. job'.at \in {"unlink", "finalize"} => job'.batch \in files'
    <3>1. CASE WriteTemp
      BY <3>1 DEF WriteTemp, TypeOK
    <3>2. CASE Publish
      BY <3>2, <2>1 DEF Publish
    <3>3. CASE Unlink
      BY <3>3, <2>1 DEF Unlink, BatchHeld
    <3> QED
      BY <1>5, <3>1, <3>2, <3>3
  <2> QED
    BY <2>1, <2>2, <2>3 DEF BatchHeld
<1>6. CASE FindListed \/ ListAndDelete
  BY <1>6, HeldByAttempt DEF FindListed, ListAndDelete
<1>7. CASE FindChanged
  BY <1>7, HeldByAttempt, HeldByRest DEF FindChanged
<1>8. CASE EndPass \/ Fail \/ Crash \/ InitSchema
  BY <1>8, HeldByRest DEF EndPass, Fail, Crash, InitSchema
<1> QED
  BY <1>1, <1>2, <1>3, <1>4, <1>5, <1>6, <1>7, <1>8 DEF Next, PassStep

-----------------------------------------------------------------------------
(* The safety invariants.                                                  *)

LEMMA SafeByOthers ==
  ASSUME TypeOK, Safe, UNCHANGED <<message, conversations, listed, gone>>,
         files \subseteq files', clock' \in {clock, clock + 1}
  PROVE  Safe'
<1>1. ListedOnDisk' /\ NothingLost'
  BY DEF Safe, ListedOnDisk, NothingLost
<1>2. KeptLongEnough'
  BY DEF Safe, KeptLongEnough, TypeOK, Row, Time
<1>3. MessagesListedOnce'
  BY DEF Safe, MessagesListedOnce
<1>4. ConversationsHold'
  BY DEF Safe, ConversationsHold, Stored
<1> QED
  BY <1>1, <1>2, <1>3, <1>4 DEF Safe

\* A message changes without being archived, and conversations with it.
LEMMA SafeByMessage ==
  ASSUME Safe, UNCHANGED <<clock, listed, files, gone>>, ConversationsHold',
         \A n \in Message : message'[n].state = "archived" <=> message[n].state = "archived"
  PROVE  Safe'
<1>1. ListedOnDisk' /\ NothingLost' /\ KeptLongEnough'
  BY DEF Safe, ListedOnDisk, NothingLost, KeptLongEnough
<1>2. MessagesListedOnce'
  BY DEF Safe, MessagesListedOnce
<1> QED
  BY <1>1, <1>2 DEF Safe

LEMMA CreateMessageSafe ==
  ASSUME TypeOK, Safe, NEW m \in Message, CreateMessage(m)
  PROVE  Safe'
<1>1. message' = [message EXCEPT ![m] = [state |-> "open", created |-> clock]]
  BY DEF CreateMessage
<1>2. \A n \in Message : message'[n].state = "archived" <=> message[n].state = "archived"
  BY <1>1 DEF CreateMessage, TypeOK
<1>3. Stored' = Stored \cup {m}
  BY <1>1 DEF Stored, TypeOK, CreateMessage
<1>4. conversations' = conversations \cup {Conversation(m)}
  BY DEF CreateMessage
<1>5. ConversationsHold'
  BY <1>3, <1>4 DEF Safe, ConversationsHold
<1> QED
  BY <1>2, <1>5, SafeByMessage DEF CreateMessage, disk

LEMMA SettleSafe ==
  ASSUME TypeOK, Safe, NEW m \in Message, Settle(m)
  PROVE  Safe'
<1>1. PICK t \in Terminal : message' = [message EXCEPT ![m].state = t]
  BY DEF Settle
<1>2. \A n \in Message : /\ message'[n].state = "archived" <=> message[n].state = "archived"
                         /\ message'[n].state = "unsent" <=> message[n].state = "unsent"
  BY <1>1 DEF Settle, TypeOK, Terminal
<1>3. Stored' = Stored
  BY <1>2 DEF Stored
<1>4. ConversationsHold'
  BY <1>3 DEF Safe, ConversationsHold, Settle
<1> QED
  BY <1>2, <1>4, SafeByMessage DEF Settle, disk

LEMMA ListAndDeleteSafe ==
  ASSUME TypeOK, BatchHeld, Safe, ListAndDelete
  PROVE  Safe'
<1> DEFINE batch == job.batch
           gonePart == {MessageRow(m) : m \in MessagesIn(batch)}
                         \cup {SummaryRow(s) : s \in SummariesIn(batch)}
<1>1. /\ job.at = "finalize" /\ batch \notin listed /\ Unchanged(batch)
      /\ listed' = listed \cup {batch}
      /\ files' = files /\ clock' = clock
      /\ conversations' = conversations \ Emptied(batch)
  BY DEF ListAndDelete, disk
<1>a. gone' = gone \cup gonePart
  BY DEF ListAndDelete
<1>b. message' = [m \in Message |->
        IF m \in MessagesIn(batch) THEN [message[m] EXCEPT !.state = "archived"] ELSE message[m]]
  BY DEF ListAndDelete
<1>2. batch \in files
  BY <1>1 DEF BatchHeld
<1>3. \A m \in MessagesIn(batch) : MessageRow(m) \in batch /\ m \in Message
                                     /\ message[m].state \in Terminal
  BY <1>1, MessageInBatch
<1>4. \A s \in SummariesIn(batch) : SummaryRow(s) \in batch /\ s \in Kept
  BY <1>1, SummaryInBatch
<1>5. gonePart \subseteq batch
  BY <1>3, <1>4
<1>6. ListedOnDisk'
  BY <1>1, <1>2 DEF Safe, ListedOnDisk
<1>7. NothingLost'
  BY <1>1, <1>2, <1>5, <1>a DEF Safe, NothingLost
<1>8. KeptLongEnough'
  <2>1. ASSUME NEW r \in gonePart
        PROVE  /\ r.created + ArchiveAge < clock
               /\ r.kind = "messages" => r.state \in Terminal
    <3>1. r \in batch /\ r \in Row
      BY <1>5 DEF TypeOK
    <3>2. r.created < job.cutoff /\ r.created \in Nat /\ job.cutoff \in Nat /\ clock \in Nat
      BY <3>1 DEF BatchHeld, TypeOK, Row, Time
    <3>3. r.created + ArchiveAge < clock
      BY <3>2 DEF BatchHeld
    <3>4. ASSUME r.kind = "messages"
          PROVE  r.state \in Terminal
      <4>1. \A s \in SummariesIn(batch) : SummaryRow(s).kind = "pane_summaries"
        BY DEF SummaryRow
      <4>2. PICK m \in MessagesIn(batch) : r = MessageRow(m)
        BY <3>4, <4>1
      <4> QED
        BY <4>2, <1>3 DEF MessageRow
    <3> QED
      BY <3>3, <3>4
  <2> HIDE DEF gonePart
  <2> QED
    BY <1>1, <1>a, <2>1 DEF Safe, KeptLongEnough
<1>9. MessagesListedOnce'
  <2> SUFFICES ASSUME NEW m \in Message
               PROVE  /\ (\E x \in listed' : m \in MessagesIn(x)) <=> message'[m].state = "archived"
                      /\ \A x, y \in listed' : m \in MessagesIn(x) /\ m \in MessagesIn(y) => x = y
    BY DEF MessagesListedOnce
  <2>1. /\ (\E x \in listed : m \in MessagesIn(x)) <=> message[m].state = "archived"
        /\ \A x, y \in listed : m \in MessagesIn(x) /\ m \in MessagesIn(y) => x = y
    BY DEF Safe, MessagesListedOnce
  <2> HIDE DEF batch
  <2>2. CASE m \in MessagesIn(batch)
    <3>1. message[m].state # "archived"
      BY <2>2, <1>3 DEF Terminal
    <3>2. message'[m].state = "archived"
      BY <2>2, <1>b DEF TypeOK
    <3> QED
      BY <2>1, <2>2, <3>1, <3>2, <1>1
  <2>3. CASE m \notin MessagesIn(batch)
    <3>1. message'[m] = message[m]
      BY <2>3, <1>b
    <3> QED
      BY <2>1, <2>3, <3>1, <1>1
  <2> QED
    BY <2>2, <2>3
<1>10. ConversationsHold'
  <2>1. Stored' = Stored \ MessagesIn(batch)
    BY <1>b, <1>3 DEF Stored, Terminal, TypeOK
  <2>2. MessagesIn(batch) \subseteq Stored
    BY <1>3 DEF Stored, Terminal
  <2> HIDE DEF batch
  <2> QED
    BY <1>1, <2>1, <2>2 DEF Safe, ConversationsHold, Emptied
<1> QED
  BY <1>6, <1>7, <1>8, <1>9, <1>10 DEF Safe

LEMMA SafeStep ==
  ASSUME TypeOK, BatchHeld, Safe, [Next]_vars
  PROVE  Safe'
<1>1. CASE ListAndDelete
  BY <1>1, ListAndDeleteSafe
<1>2. ASSUME NEW m \in Message, CreateMessage(m) \/ Settle(m)
      PROVE  Safe'
  BY <1>2, CreateMessageSafe, SettleSafe
<1>3. CASE \/ Tick \/ UNCHANGED vars
           \/ \E a \in Agent : HeartbeatAgent(a) \/ RegisterAgent(a)
  <2>1. /\ UNCHANGED <<message, conversations, listed, gone>>
        /\ files \subseteq files' /\ clock' \in {clock, clock + 1}
    BY <1>3 DEF Tick, HeartbeatAgent, RegisterAgent, vars, store, disk
  <2> QED
    BY <2>1, SafeByOthers
<1>4. CASE \/ StartPass \/ SelectMessages \/ SelectSummaries \/ WriteTemp \/ Publish \/ Unlink
           \/ FindListed \/ FindChanged \/ EndPass \/ Fail \/ Crash \/ InitSchema
  <2>1. /\ UNCHANGED <<message, conversations, listed, gone>>
        /\ files \subseteq files' /\ clock' = clock
    BY <1>4 DEF StartPass, SelectMessages, SelectSummaries, WriteTemp, Publish, Unlink,
                FindListed, FindChanged, EndPass, Fail, Crash, InitSchema, store, disk
  <2> QED
    BY <2>1, SafeByOthers
<1> QED
  BY <1>1, <1>2, <1>3, <1>4 DEF Next, Serve, PassStep

-----------------------------------------------------------------------------
(* The theorems.                                                           *)

LEMMA InitHolds == Init => IInv
<1> SUFFICES ASSUME Init PROVE BatchHeld /\ Safe
  BY InitType DEF IInv
<1>1. BatchHeld
  BY FS_EmptySet DEF Init, BatchHeld, Asleep
<1>2. ListedOnDisk /\ NothingLost /\ KeptLongEnough
  BY DEF Init, ListedOnDisk, NothingLost, KeptLongEnough
<1>3. MessagesListedOnce
  BY DEF Init, MessagesListedOnce
<1>4. ConversationsHold
  <2>1. Stored = {}
    BY DEF Init, Stored
  <2> QED
    BY <2>1 DEF Init, ConversationsHold
<1> QED
  BY <1>1, <1>2, <1>3, <1>4 DEF Safe

(* The inductive invariant: the rows, the list, the files and the pass     *)
(* agree at every step, failure, crash and restart.                        *)
THEOREM Invariance == Spec => []IInv
<1>1. Init => IInv
  BY InitHolds
<1>2. IInv /\ [Next]_vars => IInv'
  BY TypeStep, HeldStep, SafeStep DEF IInv
<1> QED
  BY <1>1, <1>2, PTL DEF Spec

(* Tables, files and the state of the pass keep their form.                *)
THEOREM TypeCorrect == Spec => []TypeOK
<1>1. IInv => TypeOK
  BY DEF IInv
<1> QED
  BY <1>1, Invariance, PTL

(* Every row finalize_archive deleted is, as it was, in a listed segment   *)
(* whose file is on the disk.                                              *)
THEOREM NothingLostHolds == Spec => []NothingLost
<1>1. IInv => NothingLost
  BY DEF IInv, Safe
<1> QED
  BY <1>1, Invariance, PTL

(* No row is deleted before it is ArchiveAge old, and no message before it *)
(* is acked or canceled.                                                   *)
THEOREM KeptLongEnoughHolds == Spec => []KeptLongEnough
<1>1. IInv => KeptLongEnough
  BY DEF IInv, Safe
<1> QED
  BY <1>1, Invariance, PTL

(* A message whose rows are deleted is in exactly one listed segment, and  *)
(* one whose rows are there is in none.                                    *)
THEOREM MessagesListedOnceHolds == Spec => []MessagesListedOnce
<1>1. IInv => MessagesListedOnce
  BY DEF IInv, Safe
<1> QED
  BY <1>1, Invariance, PTL

(* The conversations are those of the stored messages.                     *)
THEOREM ConversationsHoldHolds == Spec => []ConversationsHold
<1>1. IInv => ConversationsHold
  BY DEF IInv, Safe
<1> QED
  BY <1>1, Invariance, PTL
=============================================================================
