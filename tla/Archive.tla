-------------------------------- MODULE Archive --------------------------------
(***************************************************************************)
(* Old rows leave the database: MessageArchiver.run_once with ArchiveWriter *)
(* (archive.py) and the archive part of LocalStateStore (server_local.py).  *)
(*                                                                         *)
(* A pass selects the oldest batch of old rows, writes it to a file of its *)
(* own, and in one transaction checks that the rows have not changed, lists *)
(* the file in message_archives and deletes the rows.  Meanwhile agents    *)
(* post, settle and publish summaries, and are renamed; a pass may fail at *)
(* any step, and the server may crash and start again at any step.         *)
(*                                                                         *)
(* A row is a record of what an archive keeps of it; a segment is a set of *)
(* rows, and stands for its file, whose name and archive_id are digests of *)
(* those rows.  Bodies are left to the ids.  The request keys that outlive *)
(* a message are modelled in MessageStore.                                 *)
(***************************************************************************)
EXTENDS Integers, FiniteSets

CONSTANTS
  Message,         \* message ids, numbers for ORDER BY message_id
  Agent,           \* agent ids
  Reporter,        \* agents whose heartbeats carry pane summaries
  Group,           \* group ids
  Body,            \* what a pane may show
  NoBody,          \* no pane_summary
  Parties,         \* sender and recipient of each message
  GroupOf,         \* the group of each agent
  SummaryId,       \* pane_summary_message_id(agent, body)
  ArchiveAge,      \* ARCHIVE_AFTER_DAYS
  PeriodLength,    \* a month
  TempAge,         \* age from which a temporary file is stale
  SegmentSize,     \* MAX_RECORDS_PER_SEGMENT
  SegmentsPerPass, \* MAX_SEGMENTS_PER_RUN
  MaxClock,        \* bound: the last instant
  Renamed,         \* bound: the agents that take other display names
  MaxNames,        \* bound: display names each of them takes
  MaxMishaps       \* bound: failed passes and crashes of the server together

Summary == Reporter \X Body

ASSUME ArchiveAssumption ==
  /\ Message \subseteq Nat
  /\ IsFiniteSet(Message) /\ IsFiniteSet(Summary)
  /\ Reporter \subseteq Agent /\ Renamed \subseteq Agent
  /\ NoBody \notin Body
  /\ Parties \in [Message -> Agent \X Agent]
  /\ GroupOf \in [Agent -> Group]
  /\ \A m \in Message : GroupOf[Parties[m][1]] = GroupOf[Parties[m][2]]
  /\ SummaryId \in [Summary -> Nat]
  /\ \A s, t \in Summary : SummaryId[s] = SummaryId[t] => s = t
  /\ ArchiveAge \in Nat /\ TempAge \in Nat
  /\ PeriodLength \in Nat \ {0} /\ SegmentSize \in Nat \ {0}
  /\ SegmentsPerPass \in Nat \ {0}
  /\ MaxClock \in Nat \ {0} /\ MaxNames \in Nat \ {0}
  /\ MaxMishaps \in Nat

VARIABLES
  clock,
  message,   \* messages with their delivery
  pane,      \* pane_summary_messages: created_at of each stored summary
  shown,     \* pane_summary and pane_summary_updated_at of each agent
  name,      \* display_name of each agent
  conversations,  \* conversations, each the set of its participants
  listed,    \* message_archives
  files,     \* segments under their final names
  temps,     \* temporary files, by the time they were made
  job,       \* run_once in the maintenance thread
  mishaps,   \* failed passes and crashes so far
  gone       \* history: rows as they were when they were deleted

store == <<message, pane, shown, name, conversations>>
disk == <<files, temps>>
vars == <<clock, store, listed, disk, job, mishaps, gone>>

Terminal == {"acked", "canceled"}
Absent == 0

MessageRow(m) ==
  [kind |-> "messages", id |-> m, group |-> GroupOf[Parties[m][1]],
   created |-> message[m].created, state |-> message[m].state,
   names |-> <<name[Parties[m][1]], name[Parties[m][2]]>>]

SummaryRow(s) ==
  [kind |-> "pane_summaries", id |-> SummaryId[s], group |-> GroupOf[s[1]],
   created |-> pane[s], state |-> "none", names |-> <<name[s[1]], name[s[1]]>>]

Stored == {m \in Message : message[m].state \notin {"unsent", "archived"}}
Kept == {s \in Summary : pane[s] # Absent}
Conversation(m) == {Parties[m][1], Parties[m][2]}

\* The rows that may be archived once they are old.
MessageRows == {MessageRow(m) : m \in {n \in Message : message[n].state \in Terminal}}
SummaryRows == {SummaryRow(s) : s \in Kept}
Rows == MessageRows \cup SummaryRows

Asleep == [at |-> "asleep", cutoff |-> 0, attempt |-> 0, records |-> 0,
           batch |-> {}, temp |-> 0]
Down == [Asleep EXCEPT !.at = "down"]

Init ==
  /\ clock = 1
  /\ message = [m \in Message |-> [state |-> "unsent", created |-> 0]]
  /\ pane = [s \in Summary |-> Absent]
  /\ shown = [a \in Agent |-> [body |-> NoBody, updated |-> 0]]
  /\ name = [a \in Agent |-> 1]
  /\ conversations = {}
  /\ listed = {}
  /\ files = {}
  /\ temps = {}
  /\ job = Asleep
  /\ mishaps = 0
  /\ gone = {}

Tick ==
  /\ clock < MaxClock
  /\ clock' = clock + 1
  /\ UNCHANGED <<store, listed, disk, job, mishaps, gone>>

-----------------------------------------------------------------------------
(* What the server's other threads do to the rows.                         *)

CreateMessage(m) ==
  /\ message[m].state = "unsent"
  /\ message' = [message EXCEPT ![m] = [state |-> "open", created |-> clock]]
  /\ conversations' = conversations \cup {Conversation(m)}
  /\ UNCHANGED <<clock, pane, shown, name, listed, disk, job, mishaps, gone>>

\* The delivery is acked or canceled; leases are MessageStore's.
Settle(m) ==
  /\ message[m].state = "open"
  /\ \E t \in Terminal : message' = [message EXCEPT ![m].state = t]
  /\ UNCHANGED <<clock, pane, shown, name, conversations, listed, disk, job, mishaps, gone>>

\* A summary the table has already keeps its row.
HeartbeatAgent(a) ==
  \E b \in Body \cup {NoBody} :
    /\ a \in Reporter
    /\ shown' = [shown EXCEPT ![a] =
         [body |-> b, updated |-> IF b = NoBody THEN 0 ELSE clock]]
    /\ pane' = [s \in Summary |-> IF s = <<a, b>> /\ pane[s] = Absent THEN clock ELSE pane[s]]
    /\ UNCHANGED <<clock, message, name, conversations, listed, disk, job, mishaps, gone>>

\* An agent registers again under another display name.
RegisterAgent(a) ==
  /\ a \in Renamed /\ name[a] < MaxNames
  /\ name' = [name EXCEPT ![a] = @ + 1]
  /\ UNCHANGED <<clock, message, pane, shown, conversations, listed, disk, job, mishaps, gone>>

Serve ==
  /\ job # Down
  /\ \/ \E m \in Message : CreateMessage(m) \/ Settle(m)
     \/ \E a \in Agent : HeartbeatAgent(a) \/ RegisterAgent(a)

-----------------------------------------------------------------------------
(* Selection.                                                              *)

\* ORDER BY created_at, id
Before(r, q) == r.created < q.created \/ (r.created = q.created /\ r.id < q.id)
First(rows) == CHOOSE r \in rows : \A q \in rows : q = r \/ Before(r, q)
Bucket(r) == <<r.group, r.created \div PeriodLength>>

\* The first rows of the group and month of the oldest one.
Batch(rows) ==
  LET near == {r \in rows : Bucket(r) = Bucket(First(rows))}
  IN  {r \in near : Cardinality({q \in near : Before(q, r)}) < SegmentSize}

OldMessages(cutoff) == {r \in MessageRows : r.created < cutoff}
OldSummaries(cutoff) == {r \in SummaryRows : r.created < cutoff}

\* The batch that begins with the older row; messages win a tie.
Older(messages, summaries) ==
  IF summaries = {} \/ (messages # {} /\ First(messages).created <= First(summaries).created)
  THEN messages ELSE summaries

-----------------------------------------------------------------------------
(* A pass.                                                                 *)

\* Slip: the cutoff is the one of the server's start.
CutoffAtStart == 0

Cutoff == IF clock > ArchiveAge THEN clock - ArchiveAge ELSE 0

\* Slip: what a crashed pass left behind is never removed.
StartPassUntidy ==
  /\ job.at = "asleep"
  /\ job' = [Asleep EXCEPT !.at = "messages", !.cutoff = Cutoff, !.attempt = 1]
  /\ UNCHANGED <<clock, store, listed, disk, mishaps, gone>>

StartPass ==
  /\ job.at = "asleep"
  /\ job' = [Asleep EXCEPT !.at = "messages", !.cutoff = Cutoff, !.attempt = 1]
  /\ temps' = {t \in temps : clock - t < TempAge}
  /\ UNCHANGED <<clock, store, listed, files, mishaps, gone>>

\* The two kinds are read one after the other.
SelectMessages ==
  /\ job.at = "messages"
  /\ job' = [job EXCEPT !.at = "summaries", !.batch = Batch(OldMessages(job.cutoff))]
  /\ UNCHANGED <<clock, store, listed, disk, mishaps, gone>>

SelectSummaries ==
  /\ job.at = "summaries"
  /\ LET batch == Older(job.batch, Batch(OldSummaries(job.cutoff)))
     IN  job' = [job EXCEPT !.at = IF batch = {} THEN "end" ELSE "write", !.batch = batch]
  /\ UNCHANGED <<clock, store, listed, disk, mishaps, gone>>

\* Compressed and synced under a name of its own.
WriteTemp ==
  /\ job.at = "write"
  /\ job' = [job EXCEPT !.at = "publish", !.temp = clock]
  /\ UNCHANGED <<clock, store, listed, disk, mishaps, gone>>

\* os.link never replaces: a file of that name holds the same rows.
Publish ==
  /\ job.at = "publish"
  /\ files' = files \cup {job.batch}
  /\ job' = [job EXCEPT !.at = "unlink"]
  /\ UNCHANGED <<clock, store, listed, temps, mishaps, gone>>

\* The temporary name goes, the directory is synced, the file is verified.
Unlink ==
  /\ job.at = "unlink"
  /\ job' = [job EXCEPT !.at = "finalize"]
  /\ UNCHANGED <<clock, store, listed, disk, mishaps, gone>>

\* The pass goes on with the next segment, unless this was the last it may write.
NextAttempt(records) ==
  job' = [job EXCEPT !.at = IF job.attempt < SegmentsPerPass THEN "messages" ELSE "end",
                     !.attempt = job.attempt + 1, !.records = records,
                     !.batch = {}]

\* The archive_id is known: nothing is deleted, and the segment is counted.
FindListed ==
  /\ job.at = "finalize" /\ job.batch \in listed
  /\ NextAttempt(job.records + Cardinality(job.batch))
  /\ UNCHANGED <<clock, store, listed, disk, mishaps, gone>>

\* Slip: the rows need only still be there.
UnchangedIds(batch) ==
  \A r \in batch : \E q \in Rows : q.kind = r.kind /\ q.id = r.id

\* _reload_archive_batch_locked gives the batch again.
Unchanged(batch) == batch \subseteq Rows

MessagesIn(batch) == {m \in Message : \E r \in batch : r.kind = "messages" /\ r.id = m}
SummariesIn(batch) ==
  {s \in Summary : \E r \in batch : r.kind = "pane_summaries" /\ r.id = SummaryId[s]}

\* Slip: the conversations of the batch are deleted with it.
EmptiedAll(batch) == {Conversation(m) : m \in MessagesIn(batch)}

Emptied(batch) ==
  {Conversation(m) : m \in MessagesIn(batch)}
    \ {Conversation(m) : m \in Stored \ MessagesIn(batch)}

\* Slip: the segment is listed in a transaction of its own.
ListOnly ==
  /\ job.at = "finalize" /\ job.batch \notin listed /\ Unchanged(job.batch)
  /\ listed' = listed \cup {job.batch}
  /\ job' = [job EXCEPT !.at = "messages"]
  /\ UNCHANGED <<clock, store, disk, mishaps, gone>>

ListAndDelete ==
  LET batch == job.batch IN
  /\ job.at = "finalize" /\ batch \notin listed /\ Unchanged(batch)
  /\ listed' = listed \cup {batch}
  /\ message' = [m \in Message |->
       IF m \in MessagesIn(batch) THEN [message[m] EXCEPT !.state = "archived"] ELSE message[m]]
  /\ pane' = [s \in Summary |-> IF s \in SummariesIn(batch) THEN Absent ELSE pane[s]]
  /\ conversations' = conversations \ Emptied(batch)
  /\ gone' = gone \cup {MessageRow(m) : m \in MessagesIn(batch)}
                  \cup {SummaryRow(s) : s \in SummariesIn(batch)}
  /\ NextAttempt(job.records + Cardinality(batch))
  /\ UNCHANGED <<clock, shown, name, disk, mishaps>>

\* ArchiveEligibilityChanged: another try, or the pass fails.
FindChanged ==
  /\ job.at = "finalize" /\ job.batch \notin listed /\ ~Unchanged(job.batch)
  /\ IF job.attempt < SegmentsPerPass THEN NextAttempt(job.records) ELSE job' = Asleep
  /\ UNCHANGED <<clock, store, listed, disk, mishaps, gone>>

\* run_once returns the number of records, which the worker reports.
EndPass ==
  /\ job.at = "end"
  /\ job' = Asleep
  /\ UNCHANGED <<clock, store, listed, disk, mishaps, gone>>

\* The disk is full, or the database stays locked: the step has no effect, the
\* temporary file is removed, and the worker waits for the next interval.
Fail ==
  /\ job.at \notin {"down", "asleep", "end"}
  /\ mishaps < MaxMishaps
  /\ mishaps' = mishaps + 1
  /\ job' = Asleep
  /\ UNCHANGED <<clock, store, listed, disk, gone>>

PassStep ==
  \/ SelectMessages \/ SelectSummaries
  \/ WriteTemp \/ Publish \/ Unlink
  \/ FindListed \/ ListAndDelete \/ FindChanged
  \/ EndPass

-----------------------------------------------------------------------------
(* The process.                                                            *)

\* What was committed and what was synced stays; a temporary file is left.
Crash ==
  /\ job.at # "down"
  /\ mishaps < MaxMishaps
  /\ mishaps' = mishaps + 1
  /\ temps' = IF job.at \in {"publish", "unlink"} THEN temps \cup {job.temp} ELSE temps
  /\ job' = Down
  /\ UNCHANGED <<clock, store, listed, files, gone>>

\* _backfill_pane_summary_messages_locked: the summary each agent shows is
\* stored again unless it is there.
Backfilled ==
  [s \in Summary |->
     IF pane[s] = Absent /\ shown[s[1]].body = s[2] THEN shown[s[1]].updated ELSE pane[s]]

\* The server starts again, with init_schema.
InitSchema ==
  /\ job.at = "down"
  /\ pane' = Backfilled
  /\ job' = Asleep
  /\ UNCHANGED <<clock, message, shown, name, conversations, listed, disk, mishaps, gone>>

Next ==
  \/ Tick
  \/ Serve
  \/ StartPass
  \/ PassStep
  \/ Fail
  \/ Crash
  \/ InitSchema

Spec == Init /\ [][Next]_vars

\* The clock does not stop, the worker thread runs, and somebody starts the
\* server again after a crash.
FairSpec ==
  /\ Spec
  /\ WF_vars(Tick)
  /\ WF_vars(StartPass) /\ WF_vars(PassStep)
  /\ WF_vars(InitSchema)

-----------------------------------------------------------------------------
(* Properties.                                                             *)

Time == 0..MaxClock
Row ==
  [kind : {"messages", "pane_summaries"}, id : Nat, group : Group, created : Time,
   state : Terminal \cup {"none"}, names : (1..MaxNames) \X (1..MaxNames)]
Stage == {"down", "asleep", "messages", "summaries", "write", "publish", "unlink",
          "finalize", "end"}

\* The type invariant; a pass that wrote a file, or is about to, has rows.
TypeOK ==
  /\ clock \in Time
  /\ message \in [Message -> [state : {"unsent", "open", "archived"} \cup Terminal,
                              created : Time]]
  /\ pane \in [Summary -> Time]
  /\ shown \in [Agent -> [body : Body \cup {NoBody}, updated : Time]]
  /\ name \in [Agent -> 1..MaxNames]
  /\ conversations \subseteq SUBSET Agent
  /\ listed \subseteq SUBSET Row
  /\ files \subseteq SUBSET Row
  /\ temps \subseteq Time
  /\ job \in [at : Stage, cutoff : Time, attempt : 0..SegmentsPerPass + 1,
              records : Nat, batch : SUBSET Row, temp : Time]
  /\ mishaps \in 0..MaxMishaps
  /\ gone \subseteq Row

(* No row is lost.  Whatever finalize_archive deleted is in a listed      *)
(* segment exactly as it was when it was deleted, and the segment's file   *)
(* is on the disk, whatever failed or crashed between the selection, the   *)
(* file and the transaction, and however often agents were renamed.        *)
NothingLost == \A r \in gone : \E segment \in listed \cap files : r \in segment

(* Only what may go goes: a deleted row was over ArchiveAge old, and a     *)
(* deleted message had been acked or canceled.                             *)
KeptLongEnough ==
  \A r \in gone : /\ r.created + ArchiveAge < clock
                  /\ r.kind = "messages" => r.state \in Terminal

(* A message is archived once: it is in a listed segment exactly when its  *)
(* rows are deleted, and in one segment only.  Files that a crash orphaned *)
(* are listed by nobody.                                                   *)
MessagesListedOnce ==
  \A m \in Message :
    LET holding == {segment \in listed : m \in MessagesIn(segment)}
    IN  /\ holding # {} <=> message[m].state = "archived"
        /\ \A x, y \in holding : x = y

(* A conversation is there exactly while one of its messages is: the       *)
(* archive never deletes the conversation of a message it leaves, and      *)
(* leaves none empty.                                                      *)
ConversationsHold == conversations = {Conversation(m) : m \in Stored}

(* Old rows leave: with enough time left, a settled message and a stored   *)
(* summary are archived, though passes fail, batches change under them and *)
(* the server restarts.  Only a segment that was listed and whose rows are *)
(* all there again, which FindListed leaves, may keep them.                *)
ListedIsBack == \E segment \in listed : segment \subseteq Rows
OldRowsLeave ==
  /\ \A m \in Message :
       (message[m].state \in Terminal /\ message[m].created + ArchiveAge < MaxClock)
         ~> (message[m].state = "archived" \/ ListedIsBack)
  /\ \A s \in Summary :
       (pane[s] # Absent /\ pane[s] + ArchiveAge < MaxClock)
         ~> (pane[s] = Absent \/ ListedIsBack)

(* A temporary file that a crash left behind is removed, if there is time. *)
TempsGo ==
  \A t \in 1..(MaxClock - TempAge) : t \in temps ~> t \notin temps

(* What finalize_archive was given, and counts as archived, it deletes:    *)
(* test_archive.py says so of a batch of summaries.                        *)
FinalizedRowsGone ==
  [][job.at = "finalize" /\ job'.records > job.records => job.batch \cap Rows' = {}]_vars

=============================================================================
