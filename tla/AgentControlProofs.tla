-------------------------- MODULE AgentControlProofs --------------------------
(***************************************************************************)
(* Proofs about AgentControl, for any number of requests, panes and        *)
(* mishaps: the type invariant, and that requests show up only in the      *)
(* events of sessions they are about.                                      *)
(***************************************************************************)
EXTENDS AgentControl, SequenceTheorems, WellFoundedInduction, TLAPS

USE AgentControlAssumption

(***************************************************************************)
(* The newest of some sessions, or the last of some entries, is one of them. *)
(***************************************************************************)
LEMMA NewestIn ==
  ASSUME NEW n \in Nat, NEW S \in SUBSET (1..n), S # {}
  PROVE  Newest(S) \in S
<1> DEFINE T == {n - x : x \in S}
<1>1. T \subseteq Nat /\ T # {}
  <2>1. PICK s \in S : TRUE
    OBVIOUS
  <2>2. n - s \in T
    BY <2>1
  <2>3. ASSUME NEW s0 \in S PROVE n - s0 \in Nat
    OBVIOUS
  <2> QED BY <2>2, <2>3
<1>2. \E x \in T : \A y \in T : ~(<<y, x>> \in OpToRel(<, Nat))
  <2> HIDE DEF T
  <2> QED BY <1>1, NatLessThanWellFounded, WFMin
<1>3. PICK x \in T : \A y \in T : ~(y < x)
  BY <1>1, <1>2 DEF OpToRel
<1>4. PICK s \in S : x = n - s
  OBVIOUS
<1>5. \A t \in S : t <= s
  BY <1>3, <1>4
<1> QED BY <1>5 DEF Newest

-----------------------------------------------------------------------------
(* The inductive invariant.                                                *)

\* A request names a session when it looks, once, and asks only once.
RequestFine(r) ==
  /\ request[r].pc = "unasked" => request[r].kind = "none"
  /\ request[r].pc \in {"unasked", "look"} => request[r].named = NoSession
  /\ request[r].pc = "remember" => request[r].named \in DOMAIN rows
  /\ request[r].todo \subseteq DOMAIN rows
RequestsFine == \A r \in Request : RequestFine(r)

\* What is remembered is of requests that are past remembering.
Remembered ==
  /\ tracker \in Seq([id : Request, session : Session])
  /\ \A i \in DOMAIN tracker :
       request[tracker[i].id].pc \notin {"unasked", "look", "remember"}

\* A watcher's id is of a request that launches one, and the registration of its
\* session shows it.
WatcherFine(w) ==
  /\ watcher[w].phase \in {"on", "beating", "leaving"} =>
       /\ watcher[w].session \in DOMAIN rows
       /\ Registration(watcher[w].session, watcher[w].id) \in events
  /\ watcher[w].id # NoRequest => request[watcher[w].id].kind \in {"start", "reconnect"}
WatchersFine == \A w \in Pid : WatcherFine(w)

IInv == TypeOK /\ RequestsFine /\ Remembered /\ WatchersFine /\ OwnRequests

(***************************************************************************)
(* At first the agent runs with one session, its watcher has registered,   *)
(* and nothing was asked.                                                  *)
(***************************************************************************)
THEOREM InitIInv == Init => IInv
<1> SUFFICES ASSUME Init PROVE IInv
  OBVIOUS
<1>1. TypeOK
  BY SMT DEF Init, TypeOK, Request, Pid, Session, NoSession, NoRequest, Event, Kind,
             Registration, RequestRow, WatcherRow, Pc, PhaseOf,
             TrackerFine
<1>2. RequestsFine /\ Remembered
  BY SMT DEF Init, RequestsFine, RequestFine, Remembered, Request, NoSession
<1>3. WatchersFine /\ OwnRequests
  BY SMT DEF Init, WatchersFine, WatcherFine, Registration, OwnRequests, Pid, NoRequest
<1> QED BY <1>1, <1>2, <1>3 DEF IInv

-----------------------------------------------------------------------------
(* What a step makes of one request or of one watcher.                     *)

\* The row of r is new, and the others are as they were.
Only(f, g, r) == DOMAIN g = DOMAIN f /\ \A q \in DOMAIN f \ {r} : g[q] = f[q]

\* A new row for one request leaves a function of requests.
LEMMA OneRequest ==
  ASSUME NEW f \in [Request -> RequestRow], NEW r \in Request, NEW y \in RequestRow, NEW g,
         g = [f EXCEPT ![r] = y]
  PROVE  g \in [Request -> RequestRow] /\ Only(f, g, r) /\ g[r] = y
BY DEF Only

\* The same of watchers.
LEMMA OneWatcher ==
  ASSUME NEW f \in [Pid -> WatcherRow], NEW r \in Pid, NEW y \in WatcherRow, NEW g,
         g = [f EXCEPT ![r] = y]
  PROVE  g \in [Pid -> WatcherRow] /\ Only(f, g, r) /\ g[r] = y
BY DEF Only

\* A request goes on to another point of its code.
LEMMA PcChanges ==
  ASSUME request \in [Request -> RequestRow], NEW r \in Request,
         NEW c \in Pc,
         request' = [request EXCEPT ![r] = [request[r] EXCEPT !.pc = c]]
  PROVE  /\ request' \in [Request -> RequestRow] /\ Only(request, request', r)
         /\ request'[r].kind = request[r].kind
         /\ request'[r].pc = c
         /\ request'[r].named = request[r].named
         /\ request'[r].todo = request[r].todo
<1>1. PICK x \in RequestRow : x = request[r]
  OBVIOUS
<1>2. PICK y : y = [x EXCEPT !.pc = c]
  OBVIOUS
<1>3. /\ y \in RequestRow
      /\ y.kind = x.kind /\ y.pc = c /\ y.named = x.named /\ y.todo = x.todo
  BY <1>2 DEF RequestRow
<1>4. request' = [request EXCEPT ![r] = y]
  BY <1>1, <1>2, Zenon
<1>5. request' \in [Request -> RequestRow] /\ Only(request, request', r) /\ request'[r] = y
  <2>1. y \in RequestRow
    BY <1>3
  <2> QED BY <2>1, <1>4, OneRequest, Zenon
<1> QED BY <1>1, <1>3, <1>5

\* What asking makes of a request.
AskSets(r, k, p, c, T) ==
  request' = [request EXCEPT ![r] =
    [request[r] EXCEPT !.kind = k, !.pane = p, !.pc = c, !.todo = T]]

\* A request or command is made.
LEMMA AskChanges ==
  ASSUME request \in [Request -> RequestRow], NEW r \in Request,
         NEW k \in Kind, NEW p \in Pane, NEW c \in Pc, NEW T \in SUBSET Session,
         AskSets(r, k, p, c, T)
  PROVE  /\ request' \in [Request -> RequestRow] /\ Only(request, request', r)
         /\ request'[r].kind = k
         /\ request'[r].pc = c
         /\ request'[r].named = request[r].named
         /\ request'[r].todo = T
<1>1. PICK x \in RequestRow : x = request[r]
  OBVIOUS
<1>2. PICK y : y = [x EXCEPT !.kind = k, !.pane = p, !.pc = c, !.todo = T]
  OBVIOUS
<1>3. /\ y \in RequestRow
      /\ y.kind = k /\ y.pc = c /\ y.named = x.named /\ y.todo = T
  BY <1>2 DEF RequestRow
<1>4. request' = [request EXCEPT ![r] = y]
  BY <1>1, <1>2, Zenon DEF AskSets
<1>5. request' \in [Request -> RequestRow] /\ Only(request, request', r) /\ request'[r] = y
  <2>1. y \in RequestRow
    BY <1>3
  <2> QED BY <2>1, <1>4, OneRequest, Zenon
<1> QED BY <1>1, <1>3, <1>5

\* A stop or reconnect names a session.
Looked(r, s, c) == request' = [request EXCEPT ![r] = [request[r] EXCEPT !.named = s, !.pc = c]]

LEMMA LookChanges ==
  ASSUME request \in [Request -> RequestRow], NEW r \in Request,
         NEW s \in Session \cup {NoSession}, NEW c \in Pc, Looked(r, s, c)
  PROVE  /\ request' \in [Request -> RequestRow] /\ Only(request, request', r)
         /\ request'[r].kind = request[r].kind
         /\ request'[r].pc = c
         /\ request'[r].named = s
         /\ request'[r].todo = request[r].todo
<1>1. PICK x \in RequestRow : x = request[r]
  OBVIOUS
<1>2. PICK y : y = [x EXCEPT !.named = s, !.pc = c]
  OBVIOUS
<1>3. /\ y \in RequestRow
      /\ y.kind = x.kind /\ y.pc = c /\ y.named = s /\ y.todo = x.todo
  BY <1>2 DEF RequestRow
<1>4. request' = [request EXCEPT ![r] = y]
  BY <1>1, <1>2, Zenon DEF Looked
<1>5. request' \in [Request -> RequestRow] /\ Only(request, request', r) /\ request'[r] = y
  <2>1. y \in RequestRow
    BY <1>3
  <2> QED BY <2>1, <1>4, OneRequest, Zenon
<1> QED BY <1>1, <1>3, <1>5

\* A start has its tmux session.
LEMMA CreateChanges ==
  ASSUME request \in [Request -> RequestRow], NEW r \in Request,
         NEW c \in Pc, NEW p \in Pane,
         request' = [request EXCEPT ![r] = [request[r] EXCEPT !.pc = c, !.pane = p]]
  PROVE  /\ request' \in [Request -> RequestRow] /\ Only(request, request', r)
         /\ request'[r].kind = request[r].kind
         /\ request'[r].pc = c
         /\ request'[r].named = request[r].named
         /\ request'[r].todo = request[r].todo
<1>1. PICK x \in RequestRow : x = request[r]
  OBVIOUS
<1>2. PICK y : y = [x EXCEPT !.pc = c, !.pane = p]
  OBVIOUS
<1>3. /\ y \in RequestRow
      /\ y.kind = x.kind /\ y.pc = c /\ y.named = x.named /\ y.todo = x.todo
  BY <1>2 DEF RequestRow
<1>4. request' = [request EXCEPT ![r] = y]
  BY <1>1, <1>2, Zenon
<1>5. request' \in [Request -> RequestRow] /\ Only(request, request', r) /\ request'[r] = y
  <2>1. y \in RequestRow
    BY <1>3
  <2> QED BY <2>1, <1>4, OneRequest, Zenon
<1> QED BY <1>1, <1>3, <1>5

\* A restart-watch has dealt with a session.
LEMMA TodoChanges ==
  ASSUME request \in [Request -> RequestRow], NEW r \in Request,
         NEW T \in SUBSET Session,
         request' = [request EXCEPT ![r] = [request[r] EXCEPT !.todo = T]]
  PROVE  /\ request' \in [Request -> RequestRow] /\ Only(request, request', r)
         /\ request'[r].kind = request[r].kind
         /\ request'[r].pc = request[r].pc
         /\ request'[r].named = request[r].named
         /\ request'[r].todo = T
<1>1. PICK x \in RequestRow : x = request[r]
  OBVIOUS
<1>2. PICK y : y = [x EXCEPT !.todo = T]
  OBVIOUS
<1>3. /\ y \in RequestRow
      /\ y.kind = x.kind /\ y.pc = x.pc /\ y.named = x.named /\ y.todo = T
  BY <1>2 DEF RequestRow
<1>4. request' = [request EXCEPT ![r] = y]
  BY <1>1, <1>2, Zenon
<1>5. request' \in [Request -> RequestRow] /\ Only(request, request', r) /\ request'[r] = y
  <2>1. y \in RequestRow
    BY <1>3
  <2> QED BY <2>1, <1>4, OneRequest, Zenon
<1> QED BY <1>1, <1>3, <1>5

\* A watcher goes on to another point of its loop.
LEMMA PhaseChanges ==
  ASSUME watcher \in [Pid -> WatcherRow], NEW w \in Pid,
         NEW h \in PhaseOf,
         watcher' = [watcher EXCEPT ![w] = [watcher[w] EXCEPT !.phase = h]]
  PROVE  /\ watcher' \in [Pid -> WatcherRow] /\ Only(watcher, watcher', w)
         /\ watcher'[w].phase = h
         /\ watcher'[w].id = watcher[w].id
         /\ watcher'[w].session = watcher[w].session
<1>1. PICK x \in WatcherRow : x = watcher[w]
  OBVIOUS
<1>2. PICK y : y = [x EXCEPT !.phase = h]
  OBVIOUS
<1>3. /\ y \in WatcherRow
      /\ y.phase = h /\ y.id = x.id /\ y.session = x.session
  BY <1>2 DEF WatcherRow
<1>4. watcher' = [watcher EXCEPT ![w] = y]
  BY <1>1, <1>2, Zenon
<1>5. watcher' \in [Pid -> WatcherRow] /\ Only(watcher, watcher', w) /\ watcher'[w] = y
  <2>1. y \in WatcherRow
    BY <1>3
  <2> QED BY <2>1, <1>4, OneWatcher, Zenon
<1> QED BY <1>1, <1>3, <1>5

\* A watcher has its session.
LEMMA RegisterChanges ==
  ASSUME watcher \in [Pid -> WatcherRow], NEW w \in Pid,
         NEW h \in PhaseOf, NEW s \in Session \cup {NoSession},
         watcher' = [watcher EXCEPT ![w] = [watcher[w] EXCEPT !.phase = h, !.session = s]]
  PROVE  /\ watcher' \in [Pid -> WatcherRow] /\ Only(watcher, watcher', w)
         /\ watcher'[w].phase = h
         /\ watcher'[w].id = watcher[w].id
         /\ watcher'[w].session = s
<1>1. PICK x \in WatcherRow : x = watcher[w]
  OBVIOUS
<1>2. PICK y : y = [x EXCEPT !.phase = h, !.session = s]
  OBVIOUS
<1>3. /\ y \in WatcherRow
      /\ y.phase = h /\ y.id = x.id /\ y.session = s
  BY <1>2 DEF WatcherRow
<1>4. watcher' = [watcher EXCEPT ![w] = y]
  BY <1>1, <1>2, Zenon
<1>5. watcher' \in [Pid -> WatcherRow] /\ Only(watcher, watcher', w) /\ watcher'[w] = y
  <2>1. y \in WatcherRow
    BY <1>3
  <2> QED BY <2>1, <1>4, OneWatcher, Zenon
<1> QED BY <1>1, <1>3, <1>5

\* What Goto leaves as it is.
LEMMA GotoDoes ==
  ASSUME request \in [Request -> RequestRow], NEW r \in Request, NEW c \in Pc, Goto(r, c)
  PROVE  /\ request' \in [Request -> RequestRow] /\ Only(request, request', r)
         /\ request'[r].pc = c
         /\ request'[r].kind = request[r].kind
         /\ request'[r].named = request[r].named
         /\ request'[r].todo = request[r].todo
<1>1. request' = [request EXCEPT ![r] = [request[r] EXCEPT !.pc = c]]
  BY Zenon DEF Goto
<1> QED BY <1>1, PcChanges, Zenon

\* What Phase leaves as it is.
LEMMA PhaseDoes ==
  ASSUME watcher \in [Pid -> WatcherRow], NEW w \in Pid, NEW h \in PhaseOf, Phase(w, h)
  PROVE  /\ watcher' \in [Pid -> WatcherRow] /\ Only(watcher, watcher', w)
         /\ watcher'[w].phase = h
         /\ watcher'[w].id = watcher[w].id
         /\ watcher'[w].session = watcher[w].session
<1>1. watcher' = [watcher EXCEPT ![w] = [watcher[w] EXCEPT !.phase = h]]
  BY Zenon DEF Phase
<1> QED BY <1>1, PhaseChanges, Zenon

\* The same of a row by itself.
LEMMA RowFailed ==
  ASSUME NEW x \in RequestRow, NEW c \in Pc
  PROVE  /\ [x EXCEPT !.pc = c] \in RequestRow
         /\ [x EXCEPT !.pc = c].pc = c
         /\ [x EXCEPT !.pc = c].kind = x.kind
         /\ [x EXCEPT !.pc = c].named = x.named
         /\ [x EXCEPT !.pc = c].todo = x.todo
BY DEF RequestRow

-----------------------------------------------------------------------------
(* What a step leaves as it is.                                            *)

\* Requests are asked once and name a session once; sessions are not removed.
RequestsKept ==
  /\ request' \in [Request -> RequestRow]
  /\ \A q \in Request :
       /\ request[q].pc = "unasked" \/ request'[q].kind = request[q].kind
       /\ request[q].pc \in {"unasked", "look"} \/ request'[q].named = request[q].named
       /\ request[q].pc \in {"unasked", "look", "remember"}
            \/ request'[q].pc \notin {"unasked", "look", "remember"}
RowsKept == rows' \in Seq({"running", "stopped"}) /\ DOMAIN rows \subseteq DOMAIN rows'

\* Requests that no step has changed are kept.
LEMMA SameRequests ==
  ASSUME IInv, request' = request, RowsKept
  PROVE  RequestsKept /\ RequestsFine'
<1>1. request \in [Request -> RequestRow]
  BY DEF IInv, TypeOK
<1>2. RequestsKept
  BY <1>1 DEF RequestsKept
<1> QED BY <1>2 DEF IInv, RequestsFine, RequestFine, RowsKept

\* The tracker stays right when requests and rows are kept.
LEMMA SameTracker ==
  ASSUME IInv, RequestsKept, RowsKept, tracker' = tracker
  PROVE  TrackerFine' /\ Remembered'
<1>1. TrackerFine /\ Remembered
  BY DEF IInv, TypeOK
<1>2. \A i \in DOMAIN tracker : tracker[i].id \in Request
  BY <1>1 DEF TrackerFine
<1>3. Remembered'
  BY <1>1, <1>2 DEF Remembered, RequestsKept
<1>4. ASSUME NEW i \in DOMAIN tracker
      PROVE  tracker[i].session = request'[tracker[i].id].named
  BY <1>1, <1>2 DEF Remembered, RequestsKept, TrackerFine
<1>5. TrackerFine'
  BY <1>1, <1>4 DEF TrackerFine, RowsKept
<1> QED BY <1>3, <1>5

\* A watcher that does nothing stays right.
LEMMA SameWatchers ==
  ASSUME IInv, RequestsKept, RowsKept, events \subseteq events',
         NEW w \in Pid, watcher'[w] = watcher[w]
  PROVE  WatcherFine(w)'
<1>1. WatcherFine(w) /\ watcher[w].id \in Request \cup {NoRequest}
  BY DEF IInv, WatchersFine, TypeOK, WatcherRow
<1>2. watcher[w].id # NoRequest =>
        request'[watcher[w].id].kind = request[watcher[w].id].kind
  BY <1>1 DEF IInv, RequestsKept, RequestsFine, RequestFine, WatcherFine
<1> QED BY <1>1, <1>2 DEF WatcherFine, RowsKept, Registration

\* What an event shows, it goes on to show rightly.
Own(e) ==
  e.id # NoRequest =>
    \/ e.type = "registered" /\ request[e.id].kind \in {"start", "reconnect"}
    \/ e.type = "disconnected" /\ request[e.id].named = e.session
    \/ e.type = "disconnected" /\ Registration(e.session, e.id) \in events

\* An event once right stays right.
LEMMA SameEvents ==
  ASSUME IInv, RequestsKept, events \subseteq events', NEW e \in events
  PROVE  Own(e)'
<1>1. Own(e) /\ e \in Event
  BY DEF IInv, OwnRequests, Own, TypeOK
<1>2. e.id \in Request \cup {NoRequest} /\ e.session # NoSession
  BY <1>1 DEF Event, Session, NoSession
<1>3. CASE e.id = NoRequest
  BY <1>3 DEF Own
<1>4. CASE e.id \in Request
  BY <1>1, <1>2, <1>4 DEF Own, IInv, RequestsFine, RequestFine, RequestsKept, Registration
<1> QED BY <1>2, <1>3, <1>4

\* OwnRequests, event by event.
LEMMA AllOwn == OwnRequests <=> \A e \in events : Own(e)
BY DEF OwnRequests, Own

-----------------------------------------------------------------------------
(* Steps of the server and of tmux.                                        *)

\* Whatever is not of the request, tracker, watchers and events.
Rest ==
  /\ up \in BOOLEAN /\ pane \in Pane /\ online \in BOOLEAN
  /\ rows \in Seq({"running", "stopped"}) /\ mishaps \in 0..MaxMishaps
  /\ pidFile \in Pid

\* The invariant from its parts, after a step.
LEMMA Assembled ==
  ASSUME Rest', TrackerFine', request' \in [Request -> RequestRow],
         watcher' \in [Pid -> WatcherRow], events' \subseteq Event,
         RequestsFine', Remembered', WatchersFine', OwnRequests'
  PROVE  IInv'
<1>1. DOMAIN rows' \subseteq Session
  BY DEF Rest, Session
<1> QED BY <1>1 DEF IInv, TypeOK, Rest

\* The parts of the invariant.
LEMMA TypesOf ==
  ASSUME IInv
  PROVE  /\ Rest /\ request \in [Request -> RequestRow] /\ watcher \in [Pid -> WatcherRow]
         /\ events \subseteq Event /\ TrackerFine /\ DOMAIN rows \subseteq Session
         /\ RequestsFine /\ Remembered /\ WatchersFine /\ OwnRequests
BY DEF IInv, TypeOK, Rest

\* The bound on mishaps holds.
LEMMA Mishaps ==
  ASSUME mishaps \in 0..MaxMishaps, Mishap \/ NoMishap
  PROVE  mishaps' \in 0..MaxMishaps
BY DEF Mishap, NoMishap

\* Steps that only change rows' statuses, the agent's, or tmux.
LEMMA QuietStep ==
  ASSUME IInv, Rest', RowsKept, UNCHANGED <<tracker, events, request, watcher>>
  PROVE  IInv'
<1>1. RequestsKept /\ RequestsFine'
  BY SameRequests
<1>2. TrackerFine' /\ Remembered'
  BY <1>1, SameTracker
<1>3. WatchersFine'
  BY <1>1, SameWatchers DEF WatchersFine
<1>4. OwnRequests'
  BY <1>1, SameEvents, AllOwn DEF OwnRequests, Own
<1> QED BY <1>1, <1>2, <1>3, <1>4, TypesOf, Assembled

\* Expiring the agent changes statuses only.
LEMMA ExpireKeeps == ASSUME IInv, Expire PROVE IInv'
<1>1. rows' = [s \in DOMAIN rows |-> "stopped"]
  BY DEF Expire
<1>2. RowsKept
  BY <1>1, TypesOf DEF Rest, RowsKept
<1>3. Rest'
  BY <1>2, TypesOf, Mishaps DEF Rest, RowsKept, Expire, tmux
<1> QED BY <1>2, <1>3, QuietStep DEF Expire

\* The tmux session ends; the server does not know.
LEMMA EndSessionKeeps == ASSUME IInv, EndSession PROVE IInv'
<1>1. RowsKept /\ Rest'
  BY TypesOf, Mishaps DEF Rest, RowsKept, EndSession, server
<1> QED BY <1>1, QuietStep DEF EndSession, server

\* A restart forgets the tracker and fails the handlers.
LEMMA RestartServerKeeps == ASSUME IInv, RestartServer PROVE IInv'
<1> DEFINE Failed(q) == request[q].pc \in {"look", "remember", "kill", "spawn"}
<1>1. ASSUME NEW q \in Request
      PROVE  /\ request'[q] \in RequestRow
             /\ request'[q].kind = request[q].kind /\ request'[q].named = request[q].named
             /\ request'[q].todo = request[q].todo
             /\ request'[q].pc = request[q].pc \/ (Failed(q) /\ request'[q].pc = "failed")
             /\ ~(Failed(q) /\ request'[q].pc = request[q].pc)
  <2> DEFINE x == request[q]
             y == [x EXCEPT !.pc = "failed"]
  <2>1. request'[q] = IF Failed(q) THEN y ELSE x
    BY Zenon DEF RestartServer
  <2>2. x \in RequestRow /\ "failed" \in Pc
    BY TypesOf DEF Pc
  <2>3. /\ y \in RequestRow /\ y.pc = "failed"
        /\ y.kind = x.kind /\ y.named = x.named /\ y.todo = x.todo
    BY <2>2, RowFailed
  <2> HIDE DEF y
  <2> QED BY <2>1, <2>2, <2>3
<1>2. request' \in [Request -> RequestRow]
  <2>1. DOMAIN request' = Request /\ request' = [q \in Request |-> request'[q]]
    BY Zenon DEF RestartServer
  <2> QED BY <1>1, <2>1
<1>3. RowsKept /\ Rest'
  BY TypesOf, Mishaps DEF Rest, RowsKept, RestartServer, tmux
<1>4. RequestsKept
  BY <1>1, <1>2 DEF RequestsKept
<1>5. RequestsFine'
  BY <1>1, TypesOf DEF RequestsFine, RequestFine, RestartServer
<1>6. tracker' = <<>> /\ events' = events /\ watcher' = watcher
  BY DEF RestartServer
<1>7. TrackerFine' /\ Remembered'
  BY <1>6 DEF TrackerFine, Remembered
<1>8. WatchersFine'
  BY <1>3, <1>4, <1>6, SameWatchers DEF WatchersFine
<1>9. OwnRequests'
  BY <1>4, <1>6, SameEvents, AllOwn DEF OwnRequests, Own
<1> QED BY <1>2, <1>3, <1>5, <1>6, <1>7, <1>8, <1>9, TypesOf, Assembled

-----------------------------------------------------------------------------
(* Steps of a request or a command.                                        *)

\* What a step may do to the request whose step it is.
Moves(r) ==
  /\ request' \in [Request -> RequestRow] /\ Only(request, request', r)
  /\ request[r].pc = "unasked" \/ request'[r].kind = request[r].kind
  /\ request[r].pc \in {"unasked", "look"} \/ request'[r].named = request[r].named
  /\ request[r].pc \in {"unasked", "look", "remember"}
       \/ request'[r].pc \notin {"unasked", "look", "remember"}
  /\ RequestFine(r)'

\* A step of one request keeps all of them.
LEMMA MovesKept ==
  ASSUME IInv, RowsKept, NEW r \in Request, Moves(r)
  PROVE  RequestsKept /\ RequestsFine'
<1>1. \A q \in Request \ {r} : request'[q] = request[q]
  BY TypesOf DEF Moves, Only
<1>2. RequestsKept
  BY <1>1 DEF Moves, RequestsKept
<1>3. RequestsFine'
  BY <1>1, TypesOf DEF Moves, RequestsFine, RequestFine, RowsKept
<1> QED BY <1>2, <1>3

\* A step of one request that leaves tracker, events and watchers alone.
LEMMA RequestStep ==
  ASSUME IInv, Rest', RowsKept, UNCHANGED <<tracker, events, watcher>>,
         NEW r \in Request, Moves(r)
  PROVE  IInv'
<1>1. RequestsKept /\ RequestsFine'
  BY MovesKept
<1>2. TrackerFine' /\ Remembered'
  BY <1>1, SameTracker
<1>3. WatchersFine'
  BY <1>1, SameWatchers DEF WatchersFine
<1>4. OwnRequests'
  BY <1>1, SameEvents, AllOwn DEF OwnRequests, Own
<1> QED BY <1>1, <1>2, <1>3, <1>4, TypesOf, Assembled DEF Moves

\* From one point of its code to a later one.
LEMMA GotoMoves ==
  ASSUME IInv, RowsKept, NEW r \in Request, NEW c \in Pc,
         c \notin {"unasked", "look", "remember"}, request[r].pc \notin {"unasked", "look"},
         Goto(r, c)
  PROVE  Moves(r)
<1>1. /\ request' \in [Request -> RequestRow] /\ Only(request, request', r)
      /\ request'[r].pc = c
      /\ request'[r].kind = request[r].kind
      /\ request'[r].named = request[r].named
      /\ request'[r].todo = request[r].todo
  BY TypesOf, GotoDoes
<1>2. RequestFine(r)'
  BY <1>1, TypesOf DEF RequestFine, RequestsFine, RowsKept
<1> QED BY <1>1, <1>2 DEF Moves

\* A new request names nothing yet.
LEMMA AskKeeps == ASSUME IInv, NEW r \in Request, NEW kind \in Kind, Ask(r, kind) PROVE IInv'
<1>1. PICK p \in Pane, c \in Pc, T \in SUBSET Session :
        /\ AskSets(r, kind, p, c, T)
        /\ c \notin {"unasked", "remember"} /\ T \subseteq DOMAIN rows
  <2> DEFINE c == FirstStep(kind)
             T == IF kind = "restart-watch" THEN Running ELSE {}
  <2>1. AskSets(r, kind, pane, c, T)
    BY Zenon DEF Ask, AskSets
  <2>2. c \in Pc /\ c \notin {"unasked", "remember"}
    BY DEF FirstStep, Pc
  <2>3. T \subseteq DOMAIN rows /\ T \in SUBSET Session
    BY TypesOf DEF Running
  <2>4. pane \in Pane
    BY TypesOf DEF Rest
  <2> HIDE DEF c, T
  <2> QED BY <2>1, <2>2, <2>3, <2>4, Zenon
<1>2. RowsKept /\ Rest' /\ request \in [Request -> RequestRow]
  BY TypesOf DEF RowsKept, Rest, Ask, tmux, server
<1>3. /\ request' \in [Request -> RequestRow] /\ Only(request, request', r)
      /\ request'[r].kind = kind /\ request'[r].pc = c
      /\ request'[r].named = request[r].named /\ request'[r].todo = T
  BY <1>1, <1>2, AskChanges
<1>4. request[r].pc = "unasked" /\ request[r].named = NoSession
  BY TypesOf DEF Ask, At, RequestsFine, RequestFine
<1>5. c \notin {"unasked", "remember"} /\ T \subseteq DOMAIN rows'
  BY <1>1, <1>2 DEF RowsKept
<1>6. Moves(r)
  BY <1>3, <1>4, <1>5 DEF Moves, RequestFine
<1> QED BY <1>2, <1>6, RequestStep DEF Ask, server

\* The session a request names has a row.
LEMMA LookKeeps == ASSUME IInv, NEW r \in Request, Look(r) PROVE IInv'
<1>1. Newest(Running) \in Session \cup {NoSession}
      /\ (Running # {} => Newest(Running) \in DOMAIN rows)
  <2>1. Running \subseteq 1..Len(rows) /\ Len(rows) \in Nat /\ Running \subseteq DOMAIN rows
    BY TypesOf DEF Running, Rest
  <2>2. CASE Running = {}
    BY <2>2 DEF Newest
  <2>3. CASE Running # {}
    <3>1. Newest(Running) \in Running
      BY <2>1, <2>3, NewestIn
    <3> QED BY <2>1, <3>1, TypesOf
  <2> QED BY <2>2, <2>3
<1>2. PICK c \in Pc, s \in Session \cup {NoSession} :
        /\ Looked(r, s, c)
        /\ c \in {"remember", "failed", "spawn"} /\ (c = "remember" => s \in DOMAIN rows)
  <2> DEFINE c == IF Running # {} THEN "remember"
                  ELSE IF request[r].kind = "stop" THEN "failed" ELSE "spawn"
             s == Newest(Running)
  <2>1. Looked(r, s, c)
    BY Zenon DEF Look, Looked
  <2>2. c \in Pc /\ c \in {"remember", "failed", "spawn"} /\ (c = "remember" => s \in DOMAIN rows)
    BY <1>1 DEF Pc
  <2> HIDE DEF c, s
  <2>3. s \in Session \cup {NoSession}
    BY <1>1 DEF s
  <2> QED BY <2>1, <2>2, <2>3, Zenon
<1>3. RowsKept /\ Rest' /\ request \in [Request -> RequestRow]
  BY TypesOf DEF RowsKept, Rest, Look, tmux, server
<1>4. /\ request' \in [Request -> RequestRow] /\ Only(request, request', r)
      /\ request'[r].kind = request[r].kind /\ request'[r].pc = c
      /\ request'[r].named = s /\ request'[r].todo = request[r].todo
  <2>1. request \in [Request -> RequestRow]
    BY <1>3
  <2> QED BY <1>2, <2>1, LookChanges
<1>5. request[r].pc = "look" /\ request[r].todo \subseteq DOMAIN rows'
  BY <1>3, TypesOf DEF Look, At, RequestsFine, RequestFine, RowsKept
<1>6. c \in {"remember", "failed", "spawn"} /\ (c = "remember" => s \in DOMAIN rows')
  BY <1>2, <1>3 DEF RowsKept
<1>7. Moves(r)
  BY <1>4, <1>5, <1>6 DEF Moves, RequestFine
<1> QED BY <1>3, <1>7, RequestStep DEF Look, server

\* Ending the tmux session.
LEMMA KillKeeps == ASSUME IInv, NEW r \in Request, Kill(r) PROVE IInv'
<1>1. RowsKept /\ Rest'
  BY TypesOf DEF RowsKept, Rest, Kill, server
<1>2. PICK c \in {"failed", "done", "spawn"} : Goto(r, c)
  BY DEF Kill
<1>3. Moves(r)
  BY <1>1, <1>2, GotoMoves DEF Kill, At, Pc
<1> QED BY <1>1, <1>3, RequestStep DEF Kill, server

\* Launching the process of a start.
LEMMA SpawnKeeps == ASSUME IInv, NEW r \in Request, Spawn(r) PROVE IInv'
<1>1. RowsKept /\ Rest'
  BY TypesOf DEF RowsKept, Rest, Spawn, server, tmux
<1>2. Moves(r)
  BY <1>1, GotoMoves DEF Spawn, At, Pc
<1> QED BY <1>1, <1>2, RequestStep DEF Spawn, server

\* A command that is killed.
LEMMA KillCommandKeeps == ASSUME IInv, NEW r \in Request, KillCommand(r) PROVE IInv'
<1>1. RowsKept /\ Rest'
  BY TypesOf, Mishaps DEF RowsKept, Rest, KillCommand, server, tmux
<1>2. Moves(r)
  BY <1>1, GotoMoves DEF KillCommand, Pc
<1> QED BY <1>1, <1>2, RequestStep DEF KillCommand, server

\* Creating the tmux session.
LEMMA CreateSessionKeeps == ASSUME IInv, NEW r \in Request, CreateSession(r) PROVE IInv'
<1>1. RowsKept /\ Rest'
  BY TypesOf DEF RowsKept, Rest, CreateSession, server, tmux
<1>2. PICK c \in {"failed", "pane"} : Goto(r, c)
  BY DEF CreateSession
<1>3. Moves(r)
  BY <1>1, <1>2, GotoMoves DEF CreateSession, At, Pc
<1> QED BY <1>1, <1>3, RequestStep DEF CreateSession, server

\* Reading its pane.
LEMMA ReadPaneKeeps == ASSUME IInv, NEW r \in Request, ReadPane(r) PROVE IInv'
<1>1. RowsKept /\ Rest'
  BY TypesOf DEF RowsKept, Rest, ReadPane, server, tmux
<1>2. Moves(r)
  <2>1. CASE up
    <3>1. request' = [request EXCEPT ![r] = [request[r] EXCEPT !.pc = "watch", !.pane = pane]]
      BY <2>1, Zenon DEF ReadPane
    <3>2. pane \in Pane /\ "watch" \in Pc /\ request \in [Request -> RequestRow]
      BY TypesOf DEF Rest, Pc
    <3>3. /\ request' \in [Request -> RequestRow] /\ Only(request, request', r)
          /\ request'[r].kind = request[r].kind /\ request'[r].pc = "watch"
          /\ request'[r].named = request[r].named /\ request'[r].todo = request[r].todo
      BY <3>1, <3>2, CreateChanges, Zenon
    <3>4. request[r].pc = "pane" /\ request[r].todo \subseteq DOMAIN rows'
      BY <1>1, TypesOf DEF ReadPane, At, RequestsFine, RequestFine, RowsKept
    <3> QED BY <3>3, <3>4 DEF Moves, RequestFine
  <2>2. CASE ~up
    <3>1. Goto(r, "failed")
      BY <2>2, Zenon DEF ReadPane, Goto
    <3> QED BY <1>1, <3>1, GotoMoves DEF ReadPane, At, Pc
  <2> QED BY <2>1, <2>2
<1> QED BY <1>1, <1>2, RequestStep DEF ReadPane, server

\* A request is remembered once, for the session it named.
LEMMA RememberKeeps == ASSUME IInv, NEW r \in Request, Remember(r) PROVE IInv'
<1> DEFINE n == [id |-> r, session |-> request[r].named]
<1>1. RowsKept /\ Rest' /\ request[r].pc = "remember" /\ Goto(r, "kill")
  BY TypesOf DEF RowsKept, Rest, Remember, tmux, At
<1>2. Moves(r)
  BY <1>1, GotoMoves DEF Pc
<1>3. RequestsKept /\ RequestsFine'
  BY <1>1, <1>2, MovesKept
<1>4. request'[r].pc = "kill" /\ request'[r].named = request[r].named
  BY <1>1, TypesOf, GotoDoes DEF Pc
<1>5. request[r].named \in DOMAIN rows /\ request[r].named \in Session
  BY <1>1, TypesOf DEF RequestsFine, RequestFine
<1>6. /\ tracker \in Seq([id : Request, session : Session])
      /\ tracker' = Append(tracker, n) /\ n.id = r /\ n.session = request[r].named
      /\ n \in [id : Request, session : Session]
  BY <1>5, TypesOf DEF Remember, Remembered
<1> HIDE DEF n
<1>7. /\ tracker' \in Seq([id : Request, session : Session])
      /\ Len(tracker') = Len(tracker) + 1
      /\ \A i \in DOMAIN tracker : i \in DOMAIN tracker' /\ tracker'[i] = tracker[i]
      /\ \A i \in DOMAIN tracker' : i \in DOMAIN tracker \/ (i = Len(tracker) + 1 /\ tracker'[i] = n)
  BY <1>6
<1>8. \A i \in DOMAIN tracker : tracker[i].id # r /\ tracker[i].id \in Request
  BY <1>1, TypesOf DEF Remembered, TrackerFine
<1>9. \A i \in DOMAIN tracker :
        request'[tracker[i].id].named = request[tracker[i].id].named
  BY <1>2, <1>8, TypesOf DEF Moves, Only
<1>10. Remembered'
  <2>1. \A i \in DOMAIN tracker :
          request'[tracker[i].id].pc \notin {"unasked", "look", "remember"}
    BY <1>3, <1>8, TypesOf DEF Remembered, RequestsKept
  <2>2. request'[n.id].pc \notin {"unasked", "look", "remember"}
    BY <1>4, <1>6
  <2> QED BY <1>7, <2>1, <2>2 DEF Remembered
<1>11. TrackerFine'
  BY <1>1, <1>4, <1>5, <1>6, <1>7, <1>8, <1>9, TypesOf DEF TrackerFine, RowsKept
<1>12. events' = events /\ watcher' = watcher
  BY DEF Remember
<1>13. WatchersFine'
  BY <1>1, <1>3, <1>12, SameWatchers DEF WatchersFine
<1>14. OwnRequests'
  BY <1>3, <1>12, SameEvents, AllOwn DEF OwnRequests, Own
<1> QED BY <1>1, <1>2, <1>3, <1>10, <1>11, <1>12, <1>13, <1>14, TypesOf, Assembled DEF Moves

-----------------------------------------------------------------------------
(* Disconnecting a session.                                                *)

(***************************************************************************)
(* What consume_for_disconnect finds is a request that named the session.  *)
(***************************************************************************)
LEMMA FoundNamed ==
  ASSUME IInv, NEW s
  PROVE  \/ Found(s) = NoRequest
         \/ Found(s) \in Request /\ request[Found(s)].named = s
              /\ request[Found(s)].pc \notin {"unasked", "look", "remember"}
<1>1. CASE Matches(s) = {}
  BY <1>1 DEF Found
<1>2. CASE Matches(s) # {}
  <2>1. Matches(s) \subseteq 1..Len(tracker) /\ Len(tracker) \in Nat
    BY TypesOf DEF Matches, Remembered
  <2>2. Newest(Matches(s)) \in Matches(s)
    BY <1>2, <2>1, NewestIn
  <2>3. PICK i \in DOMAIN tracker : tracker[i].session = s /\ Found(s) = tracker[i].id
    BY <1>2, <2>2 DEF Matches, Found
  <2> QED BY <2>3, TypesOf DEF TrackerFine, Remembered
<1> QED BY <1>1, <1>2

(***************************************************************************)
(* A tracker that one entry was taken from is as good as it was.           *)
(***************************************************************************)
LEMMA PopKeeps ==
  ASSUME IInv, RequestsKept, RowsKept, NEW k \in DOMAIN tracker, tracker' = Pop(k)
  PROVE  TrackerFine' /\ Remembered'
<1> DEFINE Place(i) == IF i < k THEN i ELSE i + 1
<1>1. Len(tracker) \in Nat /\ DOMAIN tracker = 1..Len(tracker) /\ k \in 1..Len(tracker)
      /\ tracker \in Seq([id : Request, session : Session])
  BY TypesOf DEF Remembered
<1>2. /\ DOMAIN tracker' = 1..(Len(tracker) - 1)
      /\ \A i \in DOMAIN tracker' :
           Place(i) \in DOMAIN tracker /\ tracker'[i] = tracker[Place(i)]
      /\ \A i, j \in DOMAIN tracker' : Place(i) = Place(j) => i = j
  BY <1>1 DEF Pop
<1>3. tracker' \in Seq([id : Request, session : Session])
  <2>1. PICK T : T = [id : Request, session : Session]
    OBVIOUS
  <2>4. tracker \in Seq(T)
    BY <1>1, <2>1, Zenon
  <2>2. PICK n \in Nat : n = Len(tracker) - 1
    <3>1. Len(tracker) \in Nat /\ k \in 1..Len(tracker)
      BY <1>1
    <3>2. Len(tracker) - 1 \in Nat
      BY <3>1
    <3> QED BY <3>2
  <2>3. tracker' \in [1..n -> T]
    <3>1. \A i \in 1..n : Place(i) \in DOMAIN tracker
      BY <1>2, <2>2
    <3>2. tracker' = [i \in 1..n |-> IF i < k THEN tracker[i] ELSE tracker[i + 1]]
      BY <2>2, Zenon DEF Pop
    <3>3. \A i \in DOMAIN tracker : tracker[i] \in T
      BY <2>4
    <3>4. \A i \in 1..n : (IF i < k THEN tracker[i] ELSE tracker[i + 1]) \in T
      BY <3>1, <3>3
    <3> QED BY <3>2, <3>4
  <2>5. tracker' \in Seq(T)
    BY <2>3, SeqDef
  <2> QED BY <2>1, <2>5, Zenon
<1> HIDE DEF Place
<1>4. ASSUME NEW i \in DOMAIN tracker
      PROVE  /\ tracker[i].session = request'[tracker[i].id].named
             /\ tracker[i].id \in Request
             /\ request'[tracker[i].id].pc \notin {"unasked", "look", "remember"}
  BY TypesOf DEF Remembered, RequestsKept, TrackerFine
<1>5. Remembered'
  BY <1>2, <1>3, <1>4 DEF Remembered
<1>6. \A i \in DOMAIN tracker : tracker[i].session \in DOMAIN rows'
  BY TypesOf DEF TrackerFine, RowsKept
<1>7. \A i, j \in DOMAIN tracker : tracker[i].id = tracker[j].id => i = j
  BY TypesOf DEF TrackerFine
<1>8. TrackerFine'
  BY <1>2, <1>4, <1>6, <1>7 DEF TrackerFine
<1> QED BY <1>5, <1>8

(***************************************************************************)
(* disconnect_agent, for an id the session's registration has shown, or    *)
(* for none.                                                               *)
(***************************************************************************)
LEMMA DisconnectDoes ==
  ASSUME IInv, RequestsKept, NEW s \in DOMAIN rows, NEW id \in Request \cup {NoRequest},
         id # NoRequest => Registration(s, id) \in events, Disconnect(s, id)
  PROVE  /\ RowsKept /\ online' = FALSE /\ TrackerFine' /\ Remembered'
         /\ events \subseteq events' /\ events' \subseteq Event
         /\ \A e \in events' \ events : Own(e)'
<1>1. RowsKept
  BY TypesOf DEF Disconnect, RowsKept, Rest
<1>2. TrackerFine' /\ Remembered'
  <2>1. CASE tracker' = tracker
    BY <1>1, <2>1, SameTracker
  <2>2. CASE tracker' # tracker
    <3>1. Matches(s) # {} /\ tracker' = Pop(Newest(Matches(s)))
      BY <2>2 DEF Disconnect, Consumed
    <3>2. Matches(s) \subseteq 1..Len(tracker) /\ Len(tracker) \in Nat
      BY TypesOf DEF Matches, Remembered
    <3>3. Newest(Matches(s)) \in DOMAIN tracker
      BY <3>1, <3>2, NewestIn DEF Matches
    <3> QED BY <1>1, <3>1, <3>3, PopKeeps
  <2> QED BY <2>1, <2>2
<1>3. PICK shown : /\ shown = IF id = NoRequest THEN Found(s) ELSE id
                   /\ events' = events \cup {Disconnection(s, shown)}
  BY DEF Disconnect
<1>4. s \in Session /\ shown \in Request \cup {NoRequest}
  BY <1>3, TypesOf, FoundNamed
<1>5. events' \subseteq Event
  BY <1>3, <1>4, TypesOf DEF Event, Disconnection
<1>6. shown = NoRequest \/ request'[shown].named = s \/ Registration(s, shown) \in events
  BY <1>3, FoundNamed DEF RequestsKept
<1>7. Own(Disconnection(s, shown))'
  BY <1>3, <1>6 DEF Own, Disconnection, Registration
<1>8. \A e \in events' \ events : e = Disconnection(s, shown)
  BY <1>3
<1>9. events \subseteq events' /\ online' = FALSE
  BY <1>3 DEF Disconnect
<1>10. \A e \in events' \ events : Own(e)'
  BY <1>7, <1>8
<1> QED BY <1>1, <1>2, <1>5, <1>9, <1>10

-----------------------------------------------------------------------------
(* Steps that disconnect, register or launch.                              *)

\* restart-watch disconnects a session that has a row.
LEMMA DisconnectRowKeeps ==
  ASSUME IInv, NEW r \in Request, DisconnectRow(r) PROVE IInv'
<1> DEFINE s == Newest(request[r].todo)
<1>1. s \in request[r].todo /\ request[r].todo \subseteq DOMAIN rows
  <2>1. request[r].todo \subseteq 1..Len(rows) /\ Len(rows) \in Nat
        /\ request[r].todo \subseteq DOMAIN rows
    BY TypesOf DEF RequestsFine, RequestFine, Rest
  <2>2. request[r].todo # {}
    BY DEF DisconnectRow, Newest
  <2> QED BY <2>1, <2>2, NewestIn
<1>2. PICK T \in SUBSET Session :
        /\ request' = [request EXCEPT ![r] = [request[r] EXCEPT !.todo = T]]
        /\ T \subseteq request[r].todo
  <2> DEFINE T == request[r].todo \ {s}
  <2>1. request' = [request EXCEPT ![r] = [request[r] EXCEPT !.todo = T]]
    BY Zenon DEF DisconnectRow
  <2>2. T \in SUBSET Session /\ T \subseteq request[r].todo
    BY <1>1, TypesOf
  <2> HIDE DEF T
  <2> QED BY <2>1, <2>2, Zenon
<1>3. request \in [Request -> RequestRow]
  BY TypesOf
<1>4. /\ request' \in [Request -> RequestRow] /\ Only(request, request', r)
      /\ request'[r].kind = request[r].kind /\ request'[r].pc = request[r].pc
      /\ request'[r].named = request[r].named /\ request'[r].todo = T
  BY <1>2, <1>3, TodoChanges, Zenon
<1>5. T \subseteq DOMAIN rows /\ request[r].pc = "disconnect"
  BY <1>1, <1>2 DEF DisconnectRow, At
<1>6. RequestsKept
  BY <1>3, <1>4 DEF RequestsKept, Only
<1>7. /\ RowsKept /\ online' \in BOOLEAN /\ TrackerFine' /\ Remembered'
      /\ events \subseteq events' /\ events' \subseteq Event
      /\ \A e \in events' \ events : Own(e)'
  <2>1. CASE Disconnect(s, NoRequest)
    BY <1>1, <1>6, <2>1, DisconnectDoes
  <2>2. CASE UNCHANGED server
    <3>1. RowsKept /\ tracker' = tracker /\ events' = events /\ online' = online
      BY <2>2, TypesOf DEF server, RowsKept, Rest
    <3> QED BY <1>6, <3>1, SameTracker, TypesOf DEF Rest
  <2> QED BY <2>1, <2>2 DEF DisconnectRow
<1>8. Rest'
  BY <1>7, TypesOf, Mishaps DEF Rest, RowsKept, DisconnectRow, tmux
<1>9. Moves(r)
  BY <1>4, <1>5, <1>7 DEF Moves, RequestFine, RowsKept
<1>10. RequestsFine' /\ watcher' = watcher
  BY <1>7, <1>9, MovesKept DEF DisconnectRow
<1>11. WatchersFine'
  BY <1>6, <1>7, <1>10, SameWatchers DEF WatchersFine
<1>12. OwnRequests'
  <2>1. \A e \in events' : Own(e)'
    BY <1>6, <1>7, SameEvents
  <2> QED BY <2>1 DEF OwnRequests, Own
<1> QED BY <1>4, <1>7, <1>8, <1>10, <1>11, <1>12, TypesOf, Assembled

\* A new watcher has the id of its own request, or none; the one it replaces ends.
LEMMA StartWatcherKeeps ==
  ASSUME IInv, NEW r \in Request, StartWatcher(r) PROVE IInv'
<1>1. RowsKept /\ Rest' /\ events' = events /\ tracker' = tracker
  <2>1. r \in Pid
    BY DEF Request, Pid
  <2>2. mishaps' \in 0..MaxMishaps /\ pidFile' \in Pid
    BY <2>1, TypesOf, Mishaps DEF StartWatcher, Rest
  <2> QED BY <2>2, TypesOf DEF RowsKept, Rest, StartWatcher, server, tmux
<1>2. PICK c \in {"done", "failed"} : Goto(r, c)
  BY DEF StartWatcher
<1>3. Moves(r)
  BY <1>1, <1>2, GotoMoves DEF StartWatcher, At, Pc
<1>4. RequestsKept /\ RequestsFine'
  BY <1>1, <1>3, MovesKept
<1>5. TrackerFine' /\ Remembered'
  BY <1>1, <1>4, SameTracker
<1>6. request'[r].kind = request[r].kind
  BY <1>2, TypesOf, GotoDoes DEF Pc
<1>7. ASSUME NEW w \in Pid
      PROVE  watcher'[w] \in WatcherRow /\ WatcherFine(w)'
  <2>1. CASE w = r
    <3> DEFINE y == [phase |-> "starting", pane |-> request[r].pane, id |-> HandedDown(r),
                     session |-> NoSession]
    <3>1. watcher'[w] = y
      BY <2>1, Zenon DEF StartWatcher
    <3>2. request[r] \in RequestRow
      BY TypesOf
    <3>3. y \in WatcherRow /\ y.phase = "starting" /\ y.id \in {r, NoRequest}
          /\ (y.id = r => request[r].kind \in {"start", "reconnect"})
      BY <3>2 DEF HandedDown, WatcherRow, PhaseOf, RequestRow, NoRequest, NoSession, Request
    <3> HIDE DEF y
    <3> QED BY <1>6, <3>1, <3>3 DEF WatcherFine
  <2>2. CASE w # r
    <3> DEFINE x == watcher[w]
               y == [x EXCEPT !.phase = "gone"]
    <3>1. watcher'[w] = IF w \in Stopped(r) THEN y ELSE x
      BY <2>2, Zenon DEF StartWatcher
    <3>2. x \in WatcherRow
      BY TypesOf
    <3>3. y \in WatcherRow /\ y.phase = "gone" /\ y.id = x.id
      BY <3>2 DEF WatcherRow, PhaseOf
    <3>4. CASE w \in Stopped(r)
      <4>1. x.id \in Request \cup {NoRequest}
            /\ (x.id # NoRequest => request[x.id].kind \in {"start", "reconnect"})
        BY <3>2, TypesOf DEF WatcherRow, WatchersFine, WatcherFine
      <4>2. x.id # NoRequest => request'[x.id].kind \in {"start", "reconnect"}
        BY <4>1, <1>4, TypesOf DEF RequestsKept, RequestsFine, RequestFine
      <4> HIDE DEF x, y
      <4> QED BY <3>1, <3>3, <3>4, <4>2 DEF WatcherFine
    <3>5. CASE w \notin Stopped(r)
      <4>1. watcher'[w] = watcher[w]
        BY <3>1, <3>5
      <4> QED BY <4>1, <3>2, <1>1, <1>4, SameWatchers
    <3> QED BY <3>4, <3>5
  <2> QED BY <2>1, <2>2
<1>8. watcher' \in [Pid -> WatcherRow]
  <2>1. watcher' = [w \in Pid |-> watcher'[w]]
    BY Zenon DEF StartWatcher
  <2> QED BY <1>7, <2>1
<1>9. WatchersFine'
  BY <1>7 DEF WatchersFine
<1>10. OwnRequests'
  BY <1>1, <1>4, SameEvents, AllOwn DEF OwnRequests, Own
<1> QED BY <1>1, <1>3, <1>4, <1>5, <1>8, <1>9, <1>10, TypesOf, Assembled DEF Moves

\* A step of a watcher: the requests stay as they are.
LEMMA WatcherStep ==
  ASSUME IInv, Rest', RowsKept, UNCHANGED request, NEW w \in Pid,
         watcher' \in [Pid -> WatcherRow], Only(watcher, watcher', w), WatcherFine(w)',
         TrackerFine', Remembered', events \subseteq events', events' \subseteq Event,
         \A e \in events' \ events : Own(e)'
  PROVE  IInv'
<1>1. RequestsKept /\ RequestsFine'
  BY SameRequests
<1>2. \A v \in Pid \ {w} : watcher'[v] = watcher[v]
  BY TypesOf DEF Only
<1>3. WatchersFine'
  BY <1>1, <1>2, SameWatchers DEF WatchersFine
<1>4. OwnRequests'
  <2>1. \A e \in events' : Own(e)'
    BY <1>1, SameEvents
  <2> QED BY <2>1 DEF OwnRequests, Own
<1> QED BY <1>1, <1>3, <1>4, TypesOf, Assembled

\* A watcher that goes on with its session, or gives up.
LEMMA PhaseFine ==
  ASSUME IInv, RowsKept, UNCHANGED request, events \subseteq events', NEW w \in Pid,
         NEW h \in PhaseOf, Phase(w, h),
         h \in {"on", "beating", "leaving"} => watcher[w].phase \in {"on", "beating", "leaving"}
  PROVE  watcher' \in [Pid -> WatcherRow] /\ Only(watcher, watcher', w) /\ WatcherFine(w)'
<1>1. /\ watcher' \in [Pid -> WatcherRow] /\ Only(watcher, watcher', w)
      /\ watcher'[w].phase = h /\ watcher'[w].id = watcher[w].id
      /\ watcher'[w].session = watcher[w].session
  BY TypesOf, PhaseDoes
<1>2. WatcherFine(w)
  BY TypesOf DEF WatchersFine
<1>3. WatcherFine(w)'
  BY <1>1, <1>2 DEF WatcherFine, RowsKept, Registration
<1> QED BY <1>1, <1>3

\* Steps of a watcher that change neither the tracker nor the events.
LEMMA PhaseStep ==
  ASSUME IInv, Rest', RowsKept, UNCHANGED <<request, tracker, events>>, NEW w \in Pid,
         NEW h \in PhaseOf, Phase(w, h),
         h \in {"on", "beating", "leaving"} => watcher[w].phase \in {"on", "beating", "leaving"}
  PROVE  IInv'
<1>1. watcher' \in [Pid -> WatcherRow] /\ Only(watcher, watcher', w) /\ WatcherFine(w)'
  BY PhaseFine
<1>2. TrackerFine' /\ Remembered'
  BY SameRequests, SameTracker
<1> QED BY <1>1, <1>2, TypesOf, WatcherStep

\* A watcher puts its pid on file.
LEMMA RecordPidKeeps == ASSUME IInv, NEW w \in Pid, RecordPid(w) PROVE IInv'
<1>1. RowsKept /\ Rest'
  BY TypesOf DEF RowsKept, Rest, RecordPid, server, tmux
<1> QED BY <1>1, PhaseStep DEF RecordPid, server, PhaseOf

\* A watcher without a session to watch ends.
LEMMA GiveUpKeeps == ASSUME IInv, NEW w \in Pid, GiveUp(w) PROVE IInv'
<1>1. RowsKept /\ Rest'
  BY TypesOf DEF RowsKept, Rest, GiveUp, server, tmux
<1> QED BY <1>1, PhaseStep DEF GiveUp, server, PhaseOf

\* A watcher looks for its pane.
LEMMA CheckKeeps == ASSUME IInv, NEW w \in Pid, Check(w) PROVE IInv'
<1>1. RowsKept /\ Rest'
  BY TypesOf DEF RowsKept, Rest, Check, server, tmux
<1>2. PICK h \in {"beating", "leaving"} : Phase(w, h)
  BY DEF Check
<1> QED BY <1>1, <1>2, PhaseStep DEF Check, server, PhaseOf

\* A watcher dies.
LEMMA CrashKeeps == ASSUME IInv, NEW w \in Pid, Crash(w) PROVE IInv'
<1>1. RowsKept /\ Rest'
  BY TypesOf, Mishaps DEF RowsKept, Rest, Crash, server, tmux
<1> QED BY <1>1, PhaseStep DEF Crash, server, PhaseOf

\* A heartbeat brings the session and the agent back.
LEMMA HeartbeatKeeps == ASSUME IInv, NEW w \in Pid, Heartbeat(w) PROVE IInv'
<1>1. PICK s \in DOMAIN rows : rows' = [rows EXCEPT ![s] = "running"]
  BY TypesOf DEF Heartbeat, WatchersFine, WatcherFine
<1>2. RowsKept
  BY <1>1, TypesOf DEF RowsKept, Rest
<1>3. Rest'
  BY <1>2, TypesOf DEF RowsKept, Rest, Heartbeat, tmux
<1> QED BY <1>2, <1>3, PhaseStep DEF Heartbeat, PhaseOf

\* A watcher disconnects with the id its registration has shown.
LEMMA LeaveKeeps == ASSUME IInv, NEW w \in Pid, Leave(w) PROVE IInv'
<1>1. /\ watcher[w].session \in DOMAIN rows /\ watcher[w].id \in Request \cup {NoRequest}
      /\ Registration(watcher[w].session, watcher[w].id) \in events
  BY TypesOf DEF Leave, WatchersFine, WatcherFine, WatcherRow
<1>2. request' = request
  BY DEF Leave
<1>3. RequestsKept
  BY <1>2, TypesOf DEF RequestsKept
<1>4. /\ RowsKept /\ online' \in BOOLEAN /\ TrackerFine' /\ Remembered'
      /\ events \subseteq events' /\ events' \subseteq Event
      /\ \A e \in events' \ events : Own(e)'
  <2>1. CASE Disconnect(watcher[w].session, watcher[w].id)
    BY <1>1, <1>3, <2>1, DisconnectDoes
  <2>2. CASE UNCHANGED server
    <3>1. RowsKept /\ tracker' = tracker /\ events' = events /\ online' = online
      BY <2>2, TypesOf DEF server, RowsKept, Rest
    <3> QED BY <1>3, <3>1, SameTracker, TypesOf DEF Rest
  <2> QED BY <2>1, <2>2 DEF Leave
<1>5. Rest'
  BY <1>4, TypesOf, Mishaps DEF Rest, RowsKept, Leave, tmux
<1>6. watcher' \in [Pid -> WatcherRow] /\ Only(watcher, watcher', w) /\ WatcherFine(w)'
  BY <1>2, <1>4, PhaseFine DEF Leave, PhaseOf
<1> QED BY <1>2, <1>4, <1>5, <1>6, WatcherStep

\* A registration shows the id of the watcher that made it.
LEMMA RegisterKeeps == ASSUME IInv, NEW w \in Pid, Register(w) PROVE IInv'
<1> DEFINE s == Len(rows) + 1
<1>1. /\ RowsKept /\ s \in DOMAIN rows' /\ s \in Session /\ online' = TRUE
  BY TypesOf DEF Register, RowsKept, Rest, Session
<1>2. /\ watcher[w] \in WatcherRow /\ watcher[w].id \in Request \cup {NoRequest}
      /\ WatcherFine(w)
  BY TypesOf DEF WatcherRow, WatchersFine
<1>3. events' = events \cup {Registration(s, watcher[w].id)} /\ request' = request
      /\ tracker' = tracker
  BY DEF Register
<1> HIDE DEF s
<1>4. Rest'
  BY <1>1, TypesOf, Mishaps DEF Rest, RowsKept, Register, tmux
<1>5. watcher' \in [Pid -> WatcherRow] /\ Only(watcher, watcher', w) /\ WatcherFine(w)'
  <2>1. CASE watcher' = [watcher EXCEPT ![w] = [@ EXCEPT !.phase = "on", !.session = s]]
    <3>1. watcher' = [watcher EXCEPT ![w] = [watcher[w] EXCEPT !.phase = "on", !.session = s]]
      BY <2>1, Zenon
    <3>2. watcher \in [Pid -> WatcherRow] /\ "on" \in PhaseOf /\ s \in Session \cup {NoSession}
      BY <1>1, TypesOf DEF PhaseOf
    <3>3. /\ watcher' \in [Pid -> WatcherRow] /\ Only(watcher, watcher', w)
          /\ watcher'[w].phase = "on" /\ watcher'[w].id = watcher[w].id
          /\ watcher'[w].session = s
      BY <3>1, <3>2, RegisterChanges, Zenon
    <3> QED BY <1>1, <1>2, <1>3, <3>3 DEF WatcherFine
  <2>2. CASE watcher' = watcher
    <3>1. WatcherFine(w)'
      BY <1>2, <1>1, <1>3, <2>2 DEF WatcherFine, RowsKept, Registration
    <3> QED BY <2>2, <3>1, TypesOf DEF Only
  <2> QED BY <2>1, <2>2 DEF Register, s
<1>6. TrackerFine' /\ Remembered'
  BY <1>1, <1>3, SameRequests, SameTracker
<1>7. PICK e : e = Registration(s, watcher[w].id)
  OBVIOUS
<1>8. e \in Event /\ events' = events \cup {e}
  BY <1>1, <1>2, <1>3, <1>7 DEF Registration, Event
<1>9. Own(e)'
  BY <1>2, <1>3, <1>7 DEF Own, Registration, WatcherFine
<1>10. /\ events \subseteq events' /\ events' \subseteq Event
       /\ \A d \in events' \ events : Own(d)'
  <2>1. events \subseteq events' /\ events' \subseteq Event
    BY <1>8, TypesOf
  <2>2. \A d \in events' \ events : d = e
    BY <1>8
  <2> QED BY <1>9, <2>1, <2>2
<1> QED BY <1>1, <1>3, <1>4, <1>5, <1>6, <1>10, WatcherStep

-----------------------------------------------------------------------------
(* The theorems.                                                           *)

\* Nothing happens.
LEMMA StutterKeeps == ASSUME IInv, UNCHANGED vars PROVE IInv'
<1>1. RowsKept /\ Rest'
  BY TypesOf DEF RowsKept, Rest, vars, server, tmux
<1> QED BY <1>1, QuietStep DEF vars, server, tmux

(***************************************************************************)
(* Every step of the server, a command or a watcher keeps the invariant.   *)
(***************************************************************************)
LEMMA NextKeeps == IInv /\ [Next]_vars => IInv'
<1> SUFFICES ASSUME IInv, [Next]_vars PROVE IInv'
  OBVIOUS
<1>1. CASE UNCHANGED vars
  BY <1>1, StutterKeeps
<1>2. CASE Expire \/ RestartServer \/ EndSession
  BY <1>2, ExpireKeeps, RestartServerKeeps, EndSessionKeeps
<1>3. ASSUME NEW r \in Request, Serve(r) PROVE IInv'
  BY <1>3, LookKeeps, RememberKeeps, KillKeeps, SpawnKeeps DEF Serve
<1>4. ASSUME NEW r \in Request, Command(r) PROVE IInv'
  BY <1>4, CreateSessionKeeps, ReadPaneKeeps, DisconnectRowKeeps, StartWatcherKeeps DEF Command
<1>5. ASSUME NEW r \in Request, KillCommand(r) PROVE IInv'
  BY <1>5, KillCommandKeeps
<1>6. ASSUME NEW r \in Request, NEW kind \in Kind, Ask(r, kind) PROVE IInv'
  BY <1>6, AskKeeps
<1>7. ASSUME NEW w \in Pid, Watch(w) PROVE IInv'
  BY <1>7, RecordPidKeeps, RegisterKeeps, GiveUpKeeps, CheckKeeps, HeartbeatKeeps, LeaveKeeps
     DEF Watch
<1>8. ASSUME NEW w \in Pid, Crash(w) PROVE IInv'
  BY <1>8, CrashKeeps
<1> QED BY <1>1, <1>2, <1>3, <1>4, <1>5, <1>6, <1>7, <1>8 DEF Next

(***************************************************************************)
(* The invariant holds in every reachable state: what is remembered is of  *)
(* requests that named a session, and what a watcher sends along is of a   *)
(* request that launches one.                                              *)
(***************************************************************************)
THEOREM Invariance == Spec => []IInv
<1> QED BY InitIInv, NextKeeps, PTL DEF Spec

(***************************************************************************)
(* Rows, requests, watchers and the tracker stay well formed, for any      *)
(* number of requests, of sessions and of mishaps.                         *)
(***************************************************************************)
THEOREM TypeCorrect == Spec => []TypeOK
<1>1. IInv => TypeOK
  BY DEF IInv
<1> QED BY <1>1, Invariance, PTL

(***************************************************************************)
(* An event never shows the id of a request about another session, however *)
(* requests, restarts, lost calls and late watchers interleave.            *)
(***************************************************************************)
THEOREM OnlyOwnRequests == Spec => []OwnRequests
<1>1. IInv => OwnRequests
  BY DEF IInv
<1> QED BY <1>1, Invariance, PTL

===============================================================================
