# Verification of mcodex

TLA+ modules, TLC models and TLAPS proofs about mcodex: a local server
(`server-local`) that keeps groups of coding agents, the direct messages between
them and a live event stream, the watchers that connect tmux panes to it, the commands that launch them, a helper
for agents without a pane, and the archiver that moves old messages and pane
summaries to files.  Source paths are relative to the repository; unqualified line
numbers are of `src/mcodex/server_local.py`.

## The system

One `server-local` process holds an SQLite database behind one write connection
and one `_write_lock`; a thread per HTTP request runs an operation as one
transaction (sometimes two).  A maintenance worker runs periodic tasks in one
thread.  Watchers and API helpers are other processes that poll over HTTP, die,
time out and retry.  The hard parts are what happens between a thread's reading of
the clock or of a row and its getting the lock, between two transactions of one
operation, after a commit but before the answer, and in all the cases where a
process goes away.

| component | state | operations | interacts with | what makes it correct | here |
|---|---|---|---|---|---|
| message delivery | `messages`, `message_deliveries`, `message_request_keys`, delivery gauges | send, claim, ACK, release, cancel, expire, archive | watchers, API helpers, maintenance, archiver | exclusive leases, one settlement, idempotent sends, gauges that count | `MessageStore`, `Mailbox` |
| realtime broker, event streams | a bounded queue, marker and wake flag per subscriber; total depth | subscribe, publish, next event, unsubscribe, close | every route that changes state, the dashboard | no silent gap, no lost wake-up, shutdown ends streams | `RealtimeBroker` |
| presence | `groups`, `agents`, `agent_sessions` | create, archive, restore; register, heartbeat, disconnect, status, expire | watchers, API helpers, maintenance; claim, ACK, release renew | the silent go offline and only they do; an active agent's group is open | `Presence` |
| conversations, issues, agent events, feed | their tables | insert, list with cursors | dashboard, CLI | a cursor skips nothing | planned |
| HTTP API, publishing | events queued per request | route, answer, publish after the answer | store, broker | a committed change is announced | planned |
| control requests | `ControlRequestTracker`, in memory | start, stop, reconnect, remember, consume at disconnect | sessions, tmux, watchers | a request shows up in the events it is about; the agent's status settles | `AgentControl` |
| maintenance worker | due times, failure counts | start, run, stop | store, broker, archiver | each task runs again and again, stop ends it | tasks in `MessageStore`, `Presence`, `Archive`; worker planned |
| message archiver | segment files, `message_archives` | select, write, verify, finalize; backfill of summaries at start | message delivery, presence, maintenance | nothing lost or listed twice, old rows leave | `Archive`; request keys in `MessageStore` |
| watcher loop | local queue, `queue.json`, `WatchState`, claims | fetch, choose a sender, claim, paste, submit, ACK, release | message delivery, tmux | consumed once but for named accidents, in order per sender, nothing stays | `Watcher` |
| watcher launch | pid file, lock, launch intent, pane owner file | start; restart-watch, with and without `--dev` | watcher processes, tmux | one watcher per agent but for named strays, its panes not forgotten, users' panes left alone | `WatcherLaunch` |
| CLI commands | none of their own | start, restart-watch; feed, wait, tail, send, issue, archive | server, tmux | | the two that launch: `AgentControl`, `WatcherLaunch` |
| API helper | state file of identity and claims | inbox, ACK, release and their `--all`; send and others | message delivery | a handle means one message, no claim forgotten | `ApiHelper` |
| schema and migration, pagination encoding, observability, watcher logging, frontend, benchmark | | | | | not modelled |

## Modules

Each component has a module with its state and one action per operation and `.cfg`
files with the small instances, and a `…Proofs` module; five have an `MC…` module with
what only TLC needs (symmetry, functions as constants, clients that do less than they
may: see Bounds).  Definitions under a comment `Slip:` are variants of the one
below them with a plausible mistake in it; no specification uses them.  They are
there to show that each property can fail: put in the place of the definition they
vary, they make TLC find the property violated (`PROJECT.json`, `mutants`).

### Mailbox and MessageStore

`Mailbox` says what senders and readers are promised, with no clock, threads or
tables: a message waits, is leased under a claim never used before, is settled by
its holder, given back or lapses, or is withdrawn while it waits.

`MessageStore` is `LocalStateStore`'s message half.  A call is three steps of its
thread: `Begin…` validates and reads `now` without the lock (e.g. 3616-3636);
the transaction (`PostMessage`, `Repeat`, `Claim`, `Ack`, `Release`, `Cancel`,
`ExpireClaims`, or `Refuse`, which rolls back) uses that possibly old `now`; `Reply`
changes the gauges and answers, after the lock is released
(`_record_expired_delivery_metrics`, 4053).  Every claim, ACK, release and cancel first
collects the leases that have lapsed (`_expire_claims_locked`, 1413), and a refusal
takes that back.  `Archive` is the transaction of `finalize_archive`; `Restart` loses the
threads, keeps the tables and counts the gauges anew (1330).  A message id stands for
its rows; a body for its digest; conversations, events and membership checks are
left out (`PostMessage` may be refused at any time).

### RealtimeBroker

What runs under the broker's `_lock` is one step; waiting for `wake`, writing to the
socket and setting the gauge are outside of it.  A stream's thread walks through
`_serve_event_stream` (4866-4911): subscribe or be turned away, greet, check for
shutdown, `next_event` in its four outcomes, wait and wake or time out, write, leave.
`publish` is one step for all subscribers (652-681), with `Put` for one queue;
`close` puts the sentinel into every queue (725-746).  The `owed` variable is history:
what was published while a stream was subscribed and it was neither handed nor
told of by a marker.

### Presence

Groups, agents and sessions.  `last_heartbeat_at` and `presence_expires_at` are kept as
an age that `Tick` advances, `NULL` as `Never`; a call that read `now` before the lock
carries the age of that reading, its `lag`.  `register_agent_session` is two actions,
as it is two transactions: `RegisterAgent` (1634, called at 2007) and
`RegisterSession` (2008-2061).  `heartbeat_agent` reads `now` under the lock, so
`Heartbeat` is one step.  `Renew` is `_renew_api_agent_presence_locked`, in claims,
ACKs and releases of API agents (3649, 3799, 3895); the rest of those calls is in
`MessageStore`, and may fail, which `Refuse` allows.  idle, busy and online are one
status, since nothing here tells them apart.  The two transports are disjoint sets of
agents: each registration refuses the other's ids (1660, 1718).  A disconnect of any
session marks its agent offline, also when another session runs: that is what the
code does (2357), and nothing promises otherwise.

### Archive

`MessageArchiver.run_once` (`src/mcodex/archive.py:729`) in the maintenance thread, step by step, beside the
threads that post, settle, rename (`register_agent`) and publish summaries.  `job` is
where the pass is: `SelectMessages` and `SelectSummaries` read two snapshots
(2679), `WriteTemp`, `Publish` and `Unlink` are `ArchiveWriter.write` (431), and the
transaction of `finalize_archive` (2899) is one of `FindListed`, `ListAndDelete` and
`FindChanged`.  A row is the record of what its archive keeps of it, with the display
names, which is what may change between the selection and the transaction.  A segment is the set of its rows
and stands for its file: path and `archive_id` are digests of those rows, so two
segments with the same rows are one file.  `Fail` is any exception of a step; `Crash` may come at any step, leaves the temporary file, and
`InitSchema` starts the server again with its backfill of pane summaries (4241).  Periods are stretches of
`PeriodLength` instants, ids are numbers in the order of `ORDER BY`.  Files are not changed from outside, so
`verify_archive_file` has nothing to find.  `MessageStore` has the request keys of
the same transaction.

### Watcher

`_run_watch` and `deliver_queued_messages` (`src/mcodex/cli.py`), from a look at the
pane to the next, over the abstract `Mailbox` that `MessageStore` is shown to implement.  `pc`
is where the loop is: `look`, `deliver`, one `paste` and `submit` per message, the `ack`,
or the `release` when a paste failed, and `save` and `write` of `queue.json`.  What is read before a
call and used after it stays in `attempt`, as in the code.  Around it are senders that post
and cancel, another client on the same inbox, leases that lapse, tmux commands and
calls that fail (a lost answer included), and kills: SIGTERM has no handler, so the
watcher stops where it is, and starts again from the file, which may be torn.
`composer` is the text that stands in the pane unsubmitted.  `reached`,
`excused`, `acked` and `granted` are history.  Time is looks at the pane: `IdleLooks` unchanged ones
are `idle_seconds`.

### WatcherLaunch

`restart-watch` as it replaces the watcher of an agent, and `mcodex start` as it launches that of
a new session: `pc` of a command goes through the launch
lock, the end of the old watcher, the pane or process it makes (`made`), the pid file, the
launch intent and the pane owner file, and through the recoveries of panes that could
not be closed.  A `--dev` watcher starts in a tmux pane, presents its token and
registers itself in the pid file; another one is a child whose pid the command writes.
Panes have numbers that a new tmux server gives again; users open panes of
their own.  A start takes four steps: it makes the session without the lock (`StartSession`,
cli.py:2267), reads its pane, and under the lock starts the process and writes its pid; it
stops nobody.  So a `restart-watch` may come at any time before, and a session may come up while
another command holds the lock.  A watcher looks at its pane by name, and may go on when
its session has ended and another has come up: `stale` says whose pane may be another's,
and `Leaves` and the failures of tmux commands are then allowed and not forced.

`strays` is history: the watchers that lived when a start put its own watcher on file;
those whose command was killed between the `Popen` and the pid file; and when one of
these, still starting, puts itself on file (`record_watcher_pid`), those it pushes out.
The code lets these run beside the watcher of `watcher.pid`, and no command will find them.

### AgentControl

What start, stop and reconnect do to an agent, across the server, the `mcodex start` it
spawns, the same commands from a terminal, and the watchers.  `request` is where each request
or command is, `watcher` what each has launched.  A handler reads the running session (`Look`), remembers the
request (`Remember`), kills the tmux session and answers; other calls come between
these.  `Disconnect` is `disconnect_agent` with the tracker's
`consume_for_disconnect`; `Register` may lose its answer, and the watcher then registers a new
session (cli.py:1612).  A start makes the session (`CreateSession`), reads its pane and launches a watcher
(`StartWatcher`); between these another command may end the session or launch.  Only
`restart-watch` ends a watcher, the one that `watcher.pid` names (`Stopped`, cli.py:2684); all others live
until they look at their pane, which after a new tmux server may have the number of the
new one's, so that several watchers may beat.  `RecordPid` is the watcher's own entry in
`watcher.pid`.  What `restart-watch` does under the launch lock is one step here; `WatcherLaunch`
takes it apart.  A call that a watcher made is served before the watcher dies, or never; rows stand in the
order the sessions started.

What is not promised: that the newest running row, which stop and reconnect name
(4999, 5027), is the row of the watcher one thinks of.  When several watchers beat, or one
of them died without a disconnect, it may be another's.  The tmux session, which the handler kills by
name, is the same; but the request is remembered for that row, and its id is shown
when that row disconnects, or never.

### ApiHelper

The commands of `src/mcodex/api_agent.py` over the `Mailbox`.  A command reads the
state file when it starts, works on its copy (`running`) and replaces the file when it
ends; nothing locks the file, so commands that overlap overwrite each other.
`Finish` and `Fail` are the two ends of a command, `Kill` leaves the file as it was.  Handles are the
short numbers the agent types, given out by `NextHandle`.  `disturbed` is
history: commands overlapped, another identity used the file, or an inbox failed
after its claim.  Commands that have no business with claims rewrite the file too and are one kind,
`send`.

## What is checked

| run | instance | shows |
|---|---|---|
| `message_store_leases` | 2 messages, 2 claims, 2 handlers and the janitor, clock 0..3, leases of 1, 1 restart | leases are exclusive though every call may use an old `now`; a message is settled under one claim; the gauges count the rows once all have answered; `MessageStore` implements `Mailbox` |
| `message_store_keys` | 2 message ids, 1 key, 2 bodies, 2 handlers, 1 restart, archiving at once, fairness; all sends have the key | one key makes one message and is always answered with it: to a send that overlaps another, to a retry after a restart, before and after archiving; leases end by themselves |
| `broker` | 2 streams of which one may stall, 2 publishers, closer, queues of 2, 5 events, fairness; the stalled client reads nothing from the start | no silent gap, marker in its place, depth and gauge right; no wake-up is lost, so that the reading client gets every event or a marker; shutdown ends its stream, with no help of timeouts |
| `presence` | 1 tmux and 1 API agent, 2 groups, 2 sessions, 1 handler, lag up to 1, 1 restart, fairness | an active API agent is in an open group; expiry with an old `now` spares who was heard from; the silent go offline across a restart; nobody stays active in an archived group |
| `presence_unheard` | the same with 1 group and session | violated: see below |
| `archive_passes` | 2 messages of 1 conversation, 2 agents of which one is renamed, a summary, segments of 1, clock to 3, 1 failure or crash, fairness | each deleted row is in a listed file as it was; messages are listed once; the conversation goes with its last message; leftover temporary files go; old rows leave unless a listed segment is back as a whole |
| `archive_final` | 1 summary, 1 crash | violated: see below |
| `watcher` | 2 messages of one sender, 1 urgent of another, claims of 2, 1 mishap, fairness | nothing is consumed twice without a lapsed lease or a failed submission, none is ACKed unseen or overtaken, and all leave the inbox |
| `watcher_launch` | 2 restart-watch and 1 start, 1 user's pane, 2 tmux servers, 2 mishaps, fairness; users open panes in the second server | one watcher in its loop, named by the pid file, and strays; recorded panes stay on file, users' panes stay open; commands that overlap leave a watcher |
| `agent_control` | 2 requests or commands, 2 pane numbers, 1 mishap, fairness | requests show up in the events of sessions they are about; starts are confirmed; the agent settles, online and reachable by stop while it runs, offline when it does not |
| `control_confirmed` | 2 requests, no mishap | violated: see below |
| `api_helper` | 2 messages, 2 commands at once, claims of 2, 2 mishaps, fairness | handles are unambiguous; claims keep their handles while commands follow one another; an agent that goes on reading and ACKing gets done |

Bounds.  Two calls at once are the most that a property about one row, one key or one
queue needs to be broken; the janitor is a third thread beside them.  The clock of the
lease run reaches beyond the end of a second lease, so that a claim can lapse, be
claimed again and be answered late.  The key run has two ids for one key: a second
message is generated even when the first was archived.  A queue of two with five
events overflows, is drained and overflows again while the marker is still there, and the
marker can stand between two events that are handed over.  Ages end one
beyond the last that any comparison with a lag can tell apart.  The archive's clock
reaches 3: a row of the first instant is old then, is put back by a restart and is old
again.  Segments of 1 divide two rows of a month.  Two attempts per
pass make the last attempt, which fails instead of trying again, differ from the first.
Three messages are the fewest with an order within a sender and an urgent message of
another that interrupts it; two launches or requests the fewest that overlap; the start beside two
`restart-watch` can come before, between and within them.  Mishaps are
counted together: one breaks each of the watcher's promises that can
break alone; two let a launch fail, be repeated and fail in its
repetition, or a session end and a command fail.  For control requests one is enough beside stops and
reconnects, which end sessions without a mishap.  `ClaimId` in `Watcher` and `ApiHelper` is all positive numbers, of which
`NewClaim` takes a free one.  `Pid` in `WatcherLaunch` has one for the first watcher and for each
command, and `NewPidFree` of the proofs shows that it never runs out.  No fair step waits for a bound.

Three `MC…` modules have an action constraint under which clients do less than they may, to
leave room for what the run is about; none of them forbids a step that is assumed fair.  `Keyed`: every send has the request key; sends without one are in the
lease run.  `NeverReads`: the client that may stop reading never reads; one that stops
later differs in what it was handed before, and the other stream is the one that the properties
about delivery are about.  `LateUsers`: users open panes in the second tmux server only; the numbers of the first
one's panes belonged to nobody before, while the second gives them again.  The proofs are about the
modules' own specifications, where clients do all that they may.

`CHECK_DEADLOCK FALSE` is said where a run may come to rest with everything done: all events
published and every stream closed (`broker`), all messages settled and mishaps
used up (`watcher`, `api_helper`), all commands ended (`watcher_launch`, `agent_control`,
`control_confirmed`).

Symmetry is used for safety only, over ids that the code never orders; where it
takes the oldest message first, creation times order them.

Fairness.  Handler threads run, and get `_write_lock`, so each call's transaction and
reply are weakly fair; the maintenance worker starts its tasks every five seconds and a
failing one is tried again; time passes.  No client is assumed to call.  For the
archive: time passes, the worker thread starts passes and takes its steps, and somebody
starts a crashed server; failures, crashes and renamings are bounded.  For the
broker: stream threads run, callbacks return, clients that are not `Stalled` read or go
away, and once `shutdown` is called it reaches `close`; neither timeouts nor new streams
are assumed.  The watcher's loop goes on, a dead one is started again, leases of nobody
lapse (weakly fair); that the contact hold runs out is strongly fair, since each
message of the active sender sets it anew.  Launch commands run while they are alive, and a
started watcher registers.  The control model adds that the expiry task runs again, that handlers
and commands go on, and that watchers poll.  For the helper: commands run, leases nobody knows
of lapse, and, strongly fair, the agent reads its inbox and ACKs all again and again.
The last is an assumption about the agent, which the helper's instructions ask of it, and
not about the code.  `StartConfirmed` and `ControlsReach` need no bound on who stops what: they speak
of a watcher that goes on asking, and of a state that lasts.

### Where code and its documents differ

* `presence_unheard`.  `README.md:802` says that an agent is `offline` when no heartbeat was seen for 15
  seconds.  When the server stops between the two transactions and the watcher does
  not come back, the agent is `online` with `last_heartbeat_at` NULL, which
  `expire_stale_agents` (1931) skips: it stays online.
* `control_confirmed`.  `README.md:718-721` says that `session_disconnected` events carry the
  `request_id` of a control request, so that the dashboard can show it confirmed, and a
  test expects a stop's id in the disconnect that follows it (`tests/test_server_local.py:6127-6135`, where the
  body has no id).  A watcher launched by a start or reconnect sends the id of that
  start with its disconnect (`src/mcodex/cli.py:2196`), and the route looks for a remembered request
  only when the body has none (4672).  The stop is shown under the start's id, and the
  dashboard (`frontend/src/App.tsx:843`) goes on waiting for its own.
* `archive_final`.  A test says that `finalize_archive` deletes the summaries of its batch
  (`tests/test_archive.py:2075-2099`).  Every start of the server puts back the summary an
  agent still shows (`_backfill_pane_summary_messages_locked`, 4241), also when it was archived
  and deleted, with the time it had.  Alone in its group and month it makes the same
  batch again, `finalize_archive` finds its `archive_id` listed (2917-2928) and deletes
  nothing, and `run_once` counts it and selects it again, ten times per pass and in
  every pass.  It is the oldest batch, so no younger row is archived until it changes;
  `OldRowsLeave` therefore says nothing of the time when a listed segment's rows are
  all there again (`ListedIsBack`), which needs a restart and a summary.

## What is proved

With TLAPS, for all values of the constants that the `…Assumption`s of the modules allow.

* `MessageStoreProofs`: `TypeCorrect`; `Invariance` of `IInv`; from it `SettledOnce`,
  `KeysAgree`, `AnsweredOnce`, `LeaseExclusive`, `MailboxImplemented` and `GaugesCount`.  `SettledOnce` is not
  inductive: that a late ACK does not settle again needs that ids in use are
  fresh (`IdsFresh`), that no call's `now` is ahead of the clock (`NowIsPast`) and that states,
  claims and expiry times go together (`RowsWellFormed`).  `AnswersStand` keeps what was
  answered in agreement with the key rows.  `NowIsPast` is what makes leases exclusive: a lapse judged by
  an old `now` has lapsed by the clock too.  The refinement shows each step to be a
  mailbox step, or a stutter, for the leases it lapses on its way.  `GaugesCount` has an
  invariant of its own, `GaugesFine`.  What the calls have yet to add is a sum, counted out in
  units (`Total`), so that its change with one call is that of a cardinality; a transaction is
  one or two moves of rows from a state to another (`Move`, `RowsMove`), which change two
  counts by the number of rows moved, and it owes the gauges just that (`AnswerCounts`).
* `RealtimeBrokerProofs`: `Invariance` of `IInv`, whose core is `Sound(x, due, n)`, what holds of one
  subscriber: it is owed what is in its queue or was dropped, the queue is in order,
  the marker is set when something was dropped and stands before what came after, and it is awake when
  there is something to hand over.  Each operation on a subscriber keeps it sound
  (`PutSound` and the like), the steps of threads follow.  `NoSilentGap`, `MarkerInPlace`, `NoLostWakeUp`
  and, with `RecordsInOrder`, `GaugeSettles` are consequences.  `DepthCounts` counts the places of all
  queues as pairs of a subscriber and a position; each operation adds or removes places of
  its own subscriber, `publish` at most one of each.
* `PresenceProofs`: `Invariance` of `IInv`, which says of each agent's row (`RowFine`) that it is well formed
  and, for an active API agent, that its group is open and its presence set; `TypeCorrect`,
  `ApiGroupsOpen`, `PresenceSet`; and the action property `OnlySilentExpire`, from the types: a lag is never
  negative, so who is silent at an old `now` is silent at the commit.

* `ArchiveProofs`: `Invariance` of `IInv`; from it `TypeCorrect`, `NothingLost`, `KeptLongEnough`,
  `MessagesListedOnce` and `ConversationsHold`.  They need `BatchHeld`, what a pass knows of its batch: its rows are older than a
  cutoff that lies `ArchiveAge` back, and from its publication on its file is there.  That
  the rows are still what the file says is not known until the transaction has looked, and
  `MessageInBatch` and `SummaryInBatch` turn that look into: what is deleted by id is what was written.

* `AgentControlProofs`: `Invariance` of `IInv`; from it `TypeCorrect` and `OnlyOwnRequests`.  That an
  event shows no foreign id needs what each party may know: a request in the tracker is
  past the step that remembered it and still names the session it named then
  (`RequestsFine`, `Remembered`), and a watcher's id is one that its session's
  registration has already shown (`WatchersFine`).  `NewestIn` (the entry that
  `consume_for_disconnect` takes exists) rests on the well-foundedness of `<` on the naturals.

* `WatcherProofs`: from `IInv`, `TypeCorrect`, `AckedWereSubmitted`, `ConsumedOnce` and `NoOvertaking`.
  `ConsumedOnce` counts what was put before Codex; it is not inductive, for a paste is counted
  only when it is done.  `Budget` also counts the paste that is about to come, and allows a
  message one use more than it has excuses for just while the watcher's side has, or has acknowledged, a lease of
  it (`Spent`).  So a claim pays for a use, and a lapse or a release after a failure gives it back
  only with an excuse, or with no use made.  `NoOvertaking` needs that the local queue, the file and
  what an attempt leaves over are each without gaps (`Closed`): whoever stands in one
  has before him, in it, all of his kind that were never given out.  A queue read back from an old
  file is without gaps too, since what it lacks had left the inbox.
* `WatcherLaunchProofs`: from `IInv`, `TypeCorrect`, `OneWatcher`, `UsersPanesStay` and `PanesStayOnFile`.
  `HolderFine` says what the holder of the lock may rely on at each of its steps, so
  that steps of others need not be looked at again; `OneFine` says that watchers that run, or will as soon as
  they get the lock, are one, and written down or about to be, strays aside.  A start makes strays of
  all that live as it writes its watcher down, so the same holds after it.  That a pane number in a file is not a user's rests on the server's
  number beside it (`Made`): the same server gives no number twice.
* `ApiHelperProofs`: from `IInv`, `TypeCorrect`, `HandlesClear` and `HeldAreOnFile`.  What is asked of the file
  has to hold of each command's copy (`Fine`), since any of them may become the file; as long as
  nothing was disturbed, one command runs at a time and its copy has all the claims that the server has (`Undisturbed`).
* `MailboxRespected`, of both `Watcher` and `ApiHelper`: `Spec => Mail!Spec`.  With
  `MailboxImplemented` it says that what the clients assume of the server is no more
  than what the server promises: the two sides meet in `Mailbox`.

Only proved, and not repeated by a run: `TypeOK` of `MessageStore`, `RealtimeBroker`, `Presence`,
`Archive` and `AgentControl`, `KeysAgree`, `NoLostWakeUp`
(the run checks `EventsArrive`, which needs it), `PresenceSet`, `KeptLongEnough` and `MailboxRespected`.

Only model-checked: liveness, since the prover does neither fairness nor `ENABLED`.  That is `LeasesEnd`,
`EventsArrive` and `StreamsEnd`, `SilentGoOffline` and `ArchivedGroupsSettle`, `OldRowsLeave` and `TempsGo`,
`UrgentLeave` and `AllLeave`, `WatcherStays`, `StartConfirmed`, `ControlsReach` and `GoesOffline`, and
`AllSettled`.  Every safety property of a passing run is a theorem.  The history
variables (`excused`, `strays`, `disturbed`) say when a promise is suspended; the proofs are about the
promises with these exceptions, as the runs are.

## Not modelled, and why

* Conversations, issues, agent events, feed, pagination: inserts and page queries under the one write
  lock.  What is worth stating is that a cursor skips nothing although
  `created_at` is read before the lock (3236); planned (`Feed`).
* HTTP API: routing, validation, error mapping.  That events are published after the
  answer was sent (4355) needs store and broker composed; planned (`Publishing`).
* The maintenance worker's own schedule, failures and stop; its tasks are actions of the models.
* Schema and migration: one transaction at startup, before any thread.
* `start --dev`, `up`, renamed or moved panes, state files with foreign content, log files.
  The watcher that `start --dev` puts in a pane has neither token nor pid
  file until it registers (cli.py:2291); a `restart-watch` that comes first does not see it.
* Whose session a stop ends that overlaps a start: the handler kills by the tmux name of the
  session it read (5000).  `AgentControl` has that step; no document says what is right.
* Group membership at a send (3216): it is read before the insert, and no document says that a
  message's group is the recipient's at the commit.
* Heartbeats' status and pane summaries, startup prompts and the wording of prompts: they
  change what is displayed and delay a look at the pane.
* The helper's fallback to another state directory, its feed cursors and its output.
* feed, wait, tail, issue, send and archive commands: calls of tmux or the API without state of their own.
* Observability but for the delivery and depth gauges, watcher logging, the frontend, the
  benchmark and the launcher script: counters, formatting and display.

## Plan

1. Done: `Mailbox`, `MessageStore`, `RealtimeBroker`, `Presence`, `Archive`, with proofs.
2. Done: `Watcher` and `ApiHelper` over the `Mailbox`, `WatcherLaunch`, `AgentControl`, with proofs.
3. Next: safety lemmas under the liveness properties (what a fair step needs in order to be
   enabled), in the way `NoLostWakeUp` stands under `EventsArrive`.
4. `Feed`: cursors over commits that are out of the order of their timestamps; `Publishing`:
   store and broker composed, answers that cannot be sent.
5. `Maintenance`: the worker's schedule refines the fairness that the others assume.
