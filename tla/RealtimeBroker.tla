---------------------------- MODULE RealtimeBroker ----------------------------
(***************************************************************************)
(* The realtime event streams of server-local: RealtimeBroker with its     *)
(* bounded queue per subscriber, the handler threads that serve one        *)
(* `GET /events` stream each (_serve_event_stream), the threads that       *)
(* publish, and the thread that shuts the server down.                     *)
(*                                                                         *)
(* What runs under the broker's _lock is one step.  Waiting for `wake`,    *)
(* writing to the socket and recording the depth gauge happen outside it.  *)
(* An event is the number of its publication; of an event the broker only  *)
(* ever tells whether it is there.  The metrics other than the depth gauge *)
(* are left out.                                                           *)
(***************************************************************************)
EXTENDS Integers, Sequences, FiniteSets

CONSTANTS
  Stream,     \* event streams: a request, its handler thread, its subscriber
  Stalled,    \* the streams whose client may stop reading for ever
  Publisher,  \* threads that publish: request handlers, the maintenance worker
  Closer,     \* the thread that closes the broker
  QueueSize,  \* queue_size
  MaxEvents   \* bound: events published

ASSUME RealtimeBrokerAssumption ==
  /\ IsFiniteSet(Stream)
  /\ Stalled \subseteq Stream
  /\ Stream \cap Publisher = {}
  /\ Closer \notin Stream \cup Publisher
  /\ QueueSize \in Nat \ {0}
  /\ MaxEvents \in Nat

VARIABLES
  subscribers, \* RealtimeBroker._subscribers
  sub,         \* the RealtimeSubscriber of each stream
  depth,       \* RealtimeBroker._queue_depth
  closed,      \* RealtimeBroker._closed
  shutdown,    \* LocalThreadingHTTPServer.shutdown_event
  at,          \* where each stream's thread is
  record,      \* the depth record each thread owes or is making
  gauge,       \* the depth gauge
  published,   \* events so far
  owed         \* history: what each stream was subscribed for and has neither
               \* been handed nor been told by a marker to fetch

broker == <<subscribers, sub, depth, closed, owed>>
vars == <<broker, shutdown, at, record, gauge, published>>

Thread == Stream \cup Publisher \cup {Closer}
Event == 1..MaxEvents
Disconnect == 0
Place == {"unborn", "greet", "check", "next", "wait", "idle", "write", "leave", "ended"}

Subscriber == [queue : Seq(Event \cup {Disconnect}), resync : BOOLEAN,
               remaining : Nat, wake : BOOLEAN]
NewSubscriber == [queue |-> <<>>, resync |-> FALSE, remaining |-> 0, wake |-> FALSE]

Recorded == [step |-> "none", depth |-> 0]
Due == [step |-> "due", depth |-> 0]

\* The events owed to a subscriber that its queue does not hold.
Dropped(x, due) == {e \in due : \A i \in 1..Len(x.queue) : x.queue[i] # e}

\* What the subscribers' queues hold together, place by place.
Queued == Cardinality(UNION {{s} \X (1..Len(sub[s].queue)) : s \in subscribers})

Init ==
  /\ subscribers = {}
  /\ sub = [s \in Stream |-> NewSubscriber]
  /\ depth = 0
  /\ closed = FALSE
  /\ shutdown = FALSE
  /\ at = [s \in Stream |-> "unborn"]
  /\ record = [t \in Thread |-> Recorded]
  /\ gauge = 0
  /\ published = 0
  /\ owed = [s \in Stream |-> {}]

Go(s, place) == at' = [at EXCEPT ![s] = place]
Owes(t) == record' = [record EXCEPT ![t] = Due]
Free(t) == record[t].step = "none"

-----------------------------------------------------------------------------
(* What the broker does to one subscriber, under its lock.                 *)

\* Slip: a drop is forgotten as soon as there is room again.
PutForgets(x, e) ==
  IF Len(x.queue) < QueueSize
  THEN [x EXCEPT !.queue = Append(x.queue, e), !.wake = TRUE, !.resync = FALSE]
  ELSE IF x.resync THEN x ELSE [x EXCEPT !.resync = TRUE, !.remaining = Len(x.queue)]

\* Slip: nobody is woken.
PutAsleep(x, e) ==
  IF Len(x.queue) < QueueSize
  THEN [x EXCEPT !.queue = Append(x.queue, e)]
  ELSE IF x.resync THEN x ELSE [x EXCEPT !.resync = TRUE, !.remaining = Len(x.queue)]

\* A full queue drops the event; the first drop fixes where the marker goes.
Put(x, e) ==
  IF Len(x.queue) < QueueSize
  THEN [x EXCEPT !.queue = Append(x.queue, e), !.wake = TRUE]
  ELSE IF x.resync THEN x ELSE [x EXCEPT !.resync = TRUE, !.remaining = Len(x.queue)]

\* Slip: the marker keeps its distance while the queue moves.
TakeEventStill(x) ==
  [x EXCEPT !.queue = Tail(x.queue),
            !.wake = x.wake /\ (Tail(x.queue) # <<>> \/ x.resync)]

TakeEvent(x) ==
  [x EXCEPT !.queue = Tail(x.queue),
            !.remaining = IF x.resync THEN x.remaining - 1 ELSE x.remaining,
            !.wake = x.wake /\ (Tail(x.queue) # <<>> \/ x.resync)]

TakeMarker(x) == [x EXCEPT !.resync = FALSE, !.wake = x.queue # <<>>]

\* Slip: the thread that waits is not woken.
CutOffAsleep(x) ==
  [x EXCEPT !.queue = IF Len(x.queue) < QueueSize
                      THEN Append(x.queue, Disconnect) ELSE x.queue]

CutOff(x) ==
  [x EXCEPT !.queue = IF Len(x.queue) < QueueSize
                      THEN Append(x.queue, Disconnect) ELSE x.queue,
            !.wake = TRUE]

-----------------------------------------------------------------------------
(* The thread of a stream.                                                 *)

Subscribe(s) ==
  /\ at[s] = "unborn" /\ ~closed
  /\ subscribers' = subscribers \cup {s}
  /\ Go(s, "greet") /\ Owes(s)
  /\ UNCHANGED <<sub, depth, closed, owed, shutdown, gauge, published>>

\* 503: the broker is closed.
TurnAway(s) ==
  /\ at[s] = "unborn" /\ closed
  /\ Go(s, "ended")
  /\ UNCHANGED <<broker, shutdown, record, gauge, published>>

\* A write to the socket: it succeeds, or raises OSError.
Greet(s) ==
  /\ at[s] = "greet" /\ Free(s)
  /\ Go(s, "check") \/ Go(s, "leave")
  /\ UNCHANGED <<broker, shutdown, record, gauge, published>>

Stopping == closed \/ shutdown

Check(s) ==
  /\ at[s] = "check"
  /\ Go(s, IF Stopping THEN "leave" ELSE "next")
  /\ UNCHANGED <<broker, shutdown, record, gauge, published>>

\* next_event, under the lock: one of the next four.
Disconnected(s) ==
  /\ at[s] = "next" /\ s \notin subscribers
  /\ Go(s, "leave")
  /\ UNCHANGED <<broker, shutdown, record, gauge, published>>

MarkerDue(s) == sub[s].resync /\ sub[s].remaining = 0

NextMarker(s) ==
  /\ at[s] = "next" /\ s \in subscribers /\ MarkerDue(s)
  /\ sub' = [sub EXCEPT ![s] = TakeMarker(sub[s])]
  /\ owed' = [owed EXCEPT ![s] = {}]
  /\ Go(s, "write")
  /\ UNCHANGED <<subscribers, depth, closed, shutdown, record, gauge, published>>

NextQueued(s) ==
  /\ at[s] = "next" /\ s \in subscribers /\ ~MarkerDue(s)
  /\ sub[s].queue # <<>>
  /\ sub' = [sub EXCEPT ![s] = TakeEvent(sub[s])]
  /\ owed' = [owed EXCEPT ![s] = owed[s] \ {Head(sub[s].queue)}]
  /\ depth' = depth - 1
  /\ Go(s, "write") /\ Owes(s)
  /\ UNCHANGED <<subscribers, closed, shutdown, gauge, published>>

NextEmpty(s) ==
  /\ at[s] = "next" /\ s \in subscribers /\ ~MarkerDue(s)
  /\ sub[s].queue = <<>>
  /\ sub' = [sub EXCEPT ![s].wake = FALSE]
  /\ Go(s, "wait")
  /\ UNCHANGED <<subscribers, depth, closed, owed, shutdown, record, gauge, published>>

Wake(s) ==
  /\ at[s] = "wait" /\ sub[s].wake
  /\ Go(s, "next")
  /\ UNCHANGED <<broker, shutdown, record, gauge, published>>

\* The 15 seconds are over, whether or not `wake` is set at the same moment.
TimeOut(s) ==
  /\ at[s] = "wait"
  /\ Go(s, "idle")
  /\ UNCHANGED <<broker, shutdown, record, gauge, published>>

\* The payload, or a keepalive, is written unless the server is stopping.
Write(s) ==
  /\ at[s] \in {"write", "idle"} /\ Free(s)
  /\ \/ Go(s, "leave")
     \/ ~Stopping /\ Go(s, "check")
  /\ UNCHANGED <<broker, shutdown, record, gauge, published>>

\* Slip: the subscriber may have been removed by close() already.
UnsubscribeTwice(s) ==
  /\ at[s] = "leave"
  /\ Go(s, "ended")
  /\ subscribers' = subscribers \ {s}
  /\ sub' = [sub EXCEPT ![s] = CutOff(sub[s])]
  /\ depth' = depth - Len(sub[s].queue)
  /\ owed' = [owed EXCEPT ![s] = {}]
  /\ Owes(s)
  /\ UNCHANGED <<closed, shutdown, gauge, published>>

Unsubscribe(s) ==
  /\ at[s] = "leave"
  /\ Go(s, "ended")
  /\ IF s \in subscribers
     THEN /\ subscribers' = subscribers \ {s}
          /\ sub' = [sub EXCEPT ![s] = CutOff(sub[s])]
          /\ depth' = depth - Len(sub[s].queue)
          /\ owed' = [owed EXCEPT ![s] = {}]
          /\ Owes(s)
     ELSE UNCHANGED <<subscribers, sub, depth, owed, record>>
  /\ UNCHANGED <<closed, shutdown, gauge, published>>

-----------------------------------------------------------------------------
(* The other threads.                                                      *)

\* After close() this returns at once.
Publish(p) ==
  /\ Free(p) /\ ~closed /\ published < MaxEvents
  /\ published' = published + 1
  /\ sub' = [s \in Stream |->
       IF s \in subscribers THEN Put(sub[s], published + 1) ELSE sub[s]]
  /\ depth' = depth + Cardinality({s \in subscribers : Len(sub[s].queue) < QueueSize})
  /\ owed' = [s \in Stream |->
       IF s \in subscribers THEN owed[s] \cup {published + 1} ELSE owed[s]]
  /\ Owes(p)
  /\ UNCHANGED <<subscribers, closed, shutdown, at, gauge>>

Shutdown ==
  /\ ~shutdown
  /\ shutdown' = TRUE
  /\ UNCHANGED <<broker, at, record, gauge, published>>

\* shutdown() and server_close() set shutdown_event before; run_server_local
\* also closes the broker without it.  A second close() does nothing.
Close ==
  /\ ~closed /\ Free(Closer)
  /\ closed' = TRUE
  /\ subscribers' = {}
  /\ sub' = [s \in Stream |-> IF s \in subscribers THEN CutOff(sub[s]) ELSE sub[s]]
  /\ depth' = depth - Queued
  /\ owed' = [s \in Stream |-> {}]
  /\ Owes(Closer)
  /\ UNCHANGED <<shutdown, at, gauge, published>>

-----------------------------------------------------------------------------
(* _record_depth_metric: reading the depth and setting the gauge are one   *)
(* critical section of _depth_metric_lock, apart from _lock.               *)

\* Slip: no _depth_metric_lock.
ReadDepthUnlocked(t) ==
  /\ record[t].step = "due"
  /\ record' = [record EXCEPT ![t] = [step |-> "read", depth |-> depth]]
  /\ UNCHANGED <<broker, shutdown, at, gauge, published>>

ReadDepth(t) ==
  /\ record[t].step = "due"
  /\ \A u \in Thread : record[u].step # "read"
  /\ record' = [record EXCEPT ![t] = [step |-> "read", depth |-> depth]]
  /\ UNCHANGED <<broker, shutdown, at, gauge, published>>

SetGauge(t) ==
  /\ record[t].step = "read"
  /\ gauge' = record[t].depth
  /\ record' = [record EXCEPT ![t] = Recorded]
  /\ UNCHANGED <<broker, shutdown, at, published>>

-----------------------------------------------------------------------------
NextEvent(s) ==
  Disconnected(s) \/ NextMarker(s) \/ NextQueued(s) \/ NextEmpty(s)

Serve(s) == \/ Check(s) \/ NextEvent(s) \/ Wake(s) \/ Unsubscribe(s)

Next ==
  \/ \E s \in Stream : \/ Subscribe(s) \/ TurnAway(s) \/ Serve(s)
                       \/ Greet(s) \/ Write(s) \/ TimeOut(s)
  \/ \E p \in Publisher : Publish(p)
  \/ Shutdown \/ Close
  \/ \E t \in Thread : ReadDepth(t) \/ SetGauge(t)

Spec == Init /\ [][Next]_vars

-----------------------------------------------------------------------------
TypeOK ==
  /\ subscribers \subseteq Stream
  /\ sub \in [Stream -> Subscriber]
  /\ closed \in BOOLEAN
  /\ shutdown \in BOOLEAN
  /\ at \in [Stream -> Place]
  /\ DOMAIN record = Thread
  /\ \A t \in Thread : record[t].step \in {"none", "due", "read"}
  /\ published \in 0..MaxEvents
  /\ owed \in [Stream -> SUBSET Event]
  /\ \A s \in Stream : Len(sub[s].queue) <= QueueSize

(* The count kept beside the queues is what the queues of the subscribers  *)
(* hold: an unsubscribe that comes after close() subtracts nothing twice,  *)
(* and the disconnect marker is never counted (publish, next_event,        *)
(* unsubscribe, close, _enqueue_disconnect_locked).                        *)
DepthCounts == depth = Queued

(* Whatever a subscriber has not been handed is in its queue, or a resync  *)
(* marker is on its way: no drop is silent, also when a second overflow    *)
(* comes while the marker of the first has not been handed over yet.       *)
NoSilentGap ==
  \A s \in subscribers : Dropped(sub[s], owed[s]) # {} => sub[s].resync

(* A subscriber gets events in the order of their publication, and the     *)
(* marker in the place of the first one dropped: after all queued before   *)
(* it, before all queued after it (resync_remaining).                      *)
MarkerInPlace ==
  \A s \in subscribers :
    LET q == sub[s].queue
        dropped == Dropped(sub[s], owed[s])
    IN
    /\ \A i, j \in 1..Len(q) : i < j => q[i] < q[j]
    /\ sub[s].resync =>
         /\ sub[s].remaining <= Len(q)
         /\ \A i \in 1..sub[s].remaining : \A e \in dropped : q[i] < e
         /\ \A i \in sub[s].remaining + 1..Len(q) : \E e \in dropped : e < q[i]

(* No wake-up is lost: a stream waits with `wake` clear only while it has  *)
(* nothing to hand over and is subscribed.  `wake` is set and cleared under*)
(* _lock, but waited on without it.                                        *)
NoLostWakeUp ==
  \A s \in Stream : at[s] = "wait" /\ ~sub[s].wake =>
    s \in subscribers /\ sub[s].queue = <<>> /\ ~sub[s].resync

(* The gauge never stays behind: when no thread has a record to make, it   *)
(* shows the depth, however the threads that made the last ones overtook   *)
(* each other between the broker's lock and the metric (_depth_metric_lock)*)
GaugeSettles ==
  (\A t \in Thread : Free(t)) => gauge = depth

-----------------------------------------------------------------------------
(* Threads run, callbacks of the metrics return, a client that is not      *)
(* stalled reads what is written or goes away.  Nothing is assumed of the  *)
(* timeout, of new streams and of whether the server is ever shut down.    *)
Fairness ==
  /\ \A s \in Stream : WF_vars(Serve(s))
  /\ \A s \in Stream \ Stalled : WF_vars(Greet(s)) /\ WF_vars(Write(s))
  /\ \A t \in Thread : WF_vars(ReadDepth(t)) /\ WF_vars(SetGauge(t))
  /\ WF_vars(shutdown /\ Close)

FairSpec == Spec /\ Fairness

(* A client that reads is handed every event, or a marker, or is cut off,  *)
(* without a timeout having to pass and though other clients have stalled. *)
EventsArrive ==
  \A s \in Stream \ Stalled, e \in Event : e \in owed[s] ~> e \notin owed[s]

(* Closing the broker, or shutting the server down, ends every stream at   *)
(* once, those that wait for an event included.                            *)
StreamsEnd ==
  \A s \in Stream \ Stalled :
    closed \/ shutdown ~> at[s] \in {"unborn", "ended"}
=============================================================================
