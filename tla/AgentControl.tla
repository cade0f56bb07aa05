----------------------------- MODULE AgentControl ------------------------------
(***************************************************************************)
(* Starting, stopping and reconnecting one agent: the control routes of    *)
(* server-local and their ControlRequestTracker (server_local.py), the     *)
(* `mcodex start` they run, `mcodex start` and `restart-watch` from a      *)
(* terminal, and the watchers that register with the server, send          *)
(* heartbeats and disconnect (cli.py).                                     *)
(*                                                                         *)
(* A request of the dashboard has an id.  A start hands its id down to the *)
(* new watcher, which sends it along; the id of a stop or reconnect is     *)
(* remembered by the server until the session it named disconnects.        *)
(*                                                                         *)
(* The tmux session of an agent has one name, and a new one may give its   *)
(* pane a number that an old one had.  Only restart-watch ends a watcher,  *)
(* the one watcher.pid names; after a start, or a reconnect, the watchers  *)
(* of old sessions live until they look at their pane, and go on if it     *)
(* seems to be there.  What restart-watch does under the launch lock is    *)
(* one step here, taken apart in WatcherLaunch.  A call a watcher made is  *)
(* served before the watcher dies, or never.  Not in this module: `up`,    *)
(* --dev, the events of the requests themselves and of heartbeats.         *)
(***************************************************************************)
EXTENDS Integers, Sequences, FiniteSets

CONSTANTS
  MaxRequests, \* bound: requests and commands
  Pane,        \* pane numbers of tmux
  MaxMishaps   \* bound: lost calls, crashes, restarts, sessions that end; together

ASSUME AgentControlAssumption ==
  MaxRequests \in Nat /\ Pane # {} /\ MaxMishaps \in Nat

VARIABLES
  up,       \* the tmux session exists
  pane,     \* the pane Codex runs in, or ran in last
  rows,     \* agent_sessions: the status of each session, in the order they started
  online,   \* the status of the agent
  tracker,  \* ControlRequestTracker._requests of the agent
  request,  \* what became of each request or command
  watcher,  \* the watcher each of them has launched
  pidFile,  \* watcher.pid; a dead process there is as good as none
  mishaps,  \* so far
  events    \* agent_events that confirm a request: registrations and disconnections

tmux == <<up, pane>>
server == <<rows, online, tracker, events>>
vars == <<tmux, server, request, watcher, pidFile, mishaps>>

Request == 1..MaxRequests
NoRequest == 0
Pid == 0..MaxRequests  \* by the request that launched it; 0 is there at first
NoSession == 0
Session == Nat \ {0}

Kind == {"start", "stop", "reconnect", "terminal start", "restart-watch"}
Event == [type : {"registered", "disconnected"}, session : Session, id : Request \cup {NoRequest}]
Registration(s, id) == [type |-> "registered", session |-> s, id |-> id]
Disconnection(s, id) == [type |-> "disconnected", session |-> s, id |-> id]

Running == {s \in DOMAIN rows : rows[s] = "running"}
Newest(S) == IF S = {} THEN NoSession ELSE CHOOSE s \in S : \A t \in S : t <= s

Lives(w) == watcher[w].phase \in {"starting", "asking", "on", "beating", "leaving"}

Init ==
  /\ up = TRUE /\ pane \in Pane
  /\ rows = <<"running">> /\ online = TRUE /\ tracker = <<>>
  /\ request = [r \in Request |->
       [kind |-> "none", pc |-> "unasked", named |-> NoSession, pane |-> pane, todo |-> {}]]
  /\ watcher = [w \in Pid |->
       [phase |-> IF w = 0 THEN "on" ELSE "none", pane |-> pane, id |-> NoRequest,
        session |-> IF w = 0 THEN 1 ELSE NoSession]]
  /\ pidFile = 0
  /\ mishaps = 0
  /\ events = {Registration(1, NoRequest)}

Mishap == mishaps < MaxMishaps /\ mishaps' = mishaps + 1
NoMishap == UNCHANGED mishaps

At(r, pc) == request[r].pc = pc
Goto(r, pc) == request' = [request EXCEPT ![r].pc = pc]

-----------------------------------------------------------------------------
(* What the server does.                                                   *)

\* Slip: the session is not compared.
MatchesAny(s) == DOMAIN tracker

\* Every request in the tracker is a stop or a reconnect that names a session.
Matches(s) == {i \in DOMAIN tracker : tracker[i].session = s}

\* consume_for_disconnect: the latest request that fits.
Found(s) == IF Matches(s) = {} THEN NoRequest ELSE tracker[Newest(Matches(s))].id
Pop(k) == [i \in 1..(Len(tracker) - 1) |-> IF i < k THEN tracker[i] ELSE tracker[i + 1]]
Consumed(s) == IF Matches(s) = {} THEN tracker ELSE Pop(Newest(Matches(s)))

\* disconnect_agent, for a caller that sent `id` along or none.
Disconnect(s, id) ==
  LET shown == IF id = NoRequest THEN Found(s) ELSE id IN
  /\ tracker' = IF id = NoRequest THEN Consumed(s) ELSE tracker
  /\ rows' = [rows EXCEPT ![s] = "stopped"]
  /\ online' = FALSE
  /\ events' = events \cup {Disconnection(s, shown)}

Silent == \A w \in Pid : watcher[w].phase \notin {"on", "beating"}

\* Slip: the status of the agent is not changed.
ExpireRows ==
  /\ online /\ Silent /\ NoMishap
  /\ rows' = [s \in DOMAIN rows |-> "stopped"]
  /\ UNCHANGED <<tmux, online, tracker, events, request, watcher, pidFile>>

\* expire_stale_agents: nothing was heard for long, or heartbeats were late.
Expire ==
  /\ online
  /\ (Silent /\ NoMishap) \/ Mishap
  /\ online' = FALSE
  /\ rows' = [s \in DOMAIN rows |-> "stopped"]
  /\ UNCHANGED <<tmux, tracker, events, request, watcher, pidFile>>

\* The handlers that run are lost with what the tracker held.
RestartServer ==
  /\ Mishap
  /\ tracker' = <<>>
  /\ request' = [r \in Request |->
       IF request[r].pc \in {"look", "remember", "kill", "spawn"}
       THEN [request[r] EXCEPT !.pc = "failed"] ELSE request[r]]
  /\ UNCHANGED <<tmux, rows, online, events, watcher, pidFile>>

-----------------------------------------------------------------------------
(* Requests of the dashboard: _handle_start, _handle_stop and              *)
(* _handle_reconnect, and the `mcodex start` that they spawn.              *)

FirstStep(kind) ==
  IF kind \in {"stop", "reconnect"} THEN "look"
  ELSE IF kind = "start" THEN "spawn"
  ELSE IF kind = "terminal start" THEN "create"
  ELSE IF up THEN "disconnect" ELSE "failed"

\* restart-watch needs a session, and reads which sessions are running.
Ask(r, kind) ==
  /\ At(r, "unasked") /\ (r > 1 => ~At(r - 1, "unasked"))
  /\ request' = [request EXCEPT ![r] = [@ EXCEPT !.kind = kind, !.pane = pane,
       !.pc = FirstStep(kind), !.todo = IF kind = "restart-watch" THEN Running ELSE {}]]
  /\ UNCHANGED <<tmux, server, watcher, pidFile, mishaps>>

\* The newest session that is running; a reconnect does without.
Look(r) ==
  /\ At(r, "look")
  /\ request' = [request EXCEPT ![r] = [@ EXCEPT !.named = Newest(Running),
       !.pc = IF Running # {} THEN "remember"
              ELSE IF request[r].kind = "stop" THEN "failed" ELSE "spawn"]]
  /\ UNCHANGED <<tmux, server, watcher, pidFile, mishaps>>

Remember(r) ==
  /\ At(r, "remember") /\ Goto(r, "kill")
  /\ tracker' = Append(tracker, [id |-> r, session |-> request[r].named])
  /\ UNCHANGED <<tmux, rows, online, events, watcher, pidFile, mishaps>>

\* stop_agent_process.  What was remembered stays so when there is no session.
Kill(r) ==
  /\ At(r, "kill")
  /\ up' = FALSE
  /\ Goto(r, IF ~up THEN "failed" ELSE IF request[r].kind = "stop" THEN "done" ELSE "spawn")
  /\ UNCHANGED <<pane, server, watcher, pidFile, mishaps>>

\* launch_agent_process: the handler answers and the process goes on alone.
Spawn(r) ==
  /\ At(r, "spawn") /\ Goto(r, "create")
  /\ UNCHANGED <<tmux, server, watcher, pidFile, mishaps>>

\* create_session refuses a name that is taken.
CreateSession(r) ==
  /\ At(r, "create")
  /\ IF up
     THEN Goto(r, "failed") /\ UNCHANGED tmux
     ELSE up' = TRUE /\ pane' \in Pane /\ Goto(r, "pane")
  /\ UNCHANGED <<server, watcher, pidFile, mishaps>>

\* get_pane_id, of the session that has the name by then.
ReadPane(r) ==
  /\ At(r, "pane")
  /\ request' = [request EXCEPT ![r] =
       IF up THEN [@ EXCEPT !.pc = "watch", !.pane = pane] ELSE [@ EXCEPT !.pc = "failed"]]
  /\ UNCHANGED <<tmux, server, watcher, pidFile, mishaps>>

\* restart-watch: the sessions it has read, newest first; errors are ignored.
DisconnectRow(r) ==
  LET s == Newest(request[r].todo) IN
  /\ At(r, "disconnect") /\ s # NoSession
  /\ request' = [request EXCEPT ![r].todo = @ \ {s}]
  /\ \/ Disconnect(s, NoRequest) /\ NoMishap
     \/ Mishap /\ UNCHANGED server
  /\ UNCHANGED <<tmux, watcher, pidFile>>

\* Slip: only a start hands its id down.
HandedDownByStart(r) == IF request[r].kind = "start" THEN r ELSE NoRequest

\* The id that a start hands down; a command from a terminal has none.
HandedDown(r) == IF request[r].kind \in {"start", "reconnect"} THEN r ELSE NoRequest

\* _stop_existing_watcher_locked: SIGTERM ends the watcher where it is.
Stopped(r) ==
  IF request[r].kind = "restart-watch" THEN {w \in {pidFile} : Lives(w)} ELSE {}

\* start_background_watcher: the process is there before its pid is on file.
StartWatcher(r) ==
  /\ At(r, "watch") \/ (At(r, "disconnect") /\ request[r].todo = {})
  /\ watcher' = [w \in Pid |->
       IF w = r THEN [phase |-> "starting", pane |-> request[r].pane, id |-> HandedDown(r),
                      session |-> NoSession]
       ELSE IF w \in Stopped(r) THEN [watcher[w] EXCEPT !.phase = "gone"] ELSE watcher[w]]
  /\ \/ NoMishap /\ pidFile' = r /\ Goto(r, "done")
     \/ Mishap /\ UNCHANGED pidFile /\ Goto(r, "failed")
  /\ UNCHANGED <<tmux, server>>

\* Codex or its user ends the session, or a start or restart-watch is killed.
EndSession ==
  /\ up /\ Mishap /\ up' = FALSE
  /\ UNCHANGED <<pane, server, request, watcher, pidFile>>

KillCommand(r) ==
  /\ request[r].pc \in {"create", "pane", "watch", "disconnect"} /\ Mishap
  /\ Goto(r, "failed")
  /\ UNCHANGED <<tmux, server, watcher, pidFile>>

-----------------------------------------------------------------------------
(* Watchers: _run_watch.                                                   *)

HasPane(w) == up /\ watcher[w].pane = pane
Phase(w, phase) == watcher' = [watcher EXCEPT ![w].phase = phase]

\* record_watcher_pid
RecordPid(w) ==
  /\ watcher[w].phase = "starting" /\ Phase(w, "asking")
  /\ pidFile' = w
  /\ UNCHANGED <<tmux, server, request, mishaps>>

\* Every call draws a new session id.  If the answer is lost, the watcher asks
\* again.
Register(w) ==
  LET s == Len(rows) + 1 IN
  /\ watcher[w].phase = "asking"
  /\ rows' = Append(rows, "running")
  /\ online' = TRUE
  /\ events' = events \cup {Registration(s, watcher[w].id)}
  /\ \/ watcher' = [watcher EXCEPT ![w] = [@ EXCEPT !.phase = "on", !.session = s]] /\ NoMishap
     \/ UNCHANGED watcher /\ Mishap
  /\ UNCHANGED <<tmux, tracker, request, pidFile>>

\* A call failed, and there is nothing left to watch.
GiveUp(w) ==
  /\ watcher[w].phase = "asking" /\ ~HasPane(w)
  /\ Phase(w, "gone")
  /\ UNCHANGED <<tmux, server, request, pidFile, mishaps>>

Check(w) ==
  /\ watcher[w].phase = "on"
  /\ Phase(w, IF HasPane(w) THEN "beating" ELSE "leaving")
  /\ UNCHANGED <<tmux, server, request, pidFile, mishaps>>

\* Slip: a session that was stopped stays so.
HeartbeatOfAgent(w) ==
  /\ watcher[w].phase = "beating" /\ Phase(w, "on")
  /\ online' = TRUE
  /\ UNCHANGED <<tmux, rows, tracker, events, request, pidFile, mishaps>>

Heartbeat(w) ==
  /\ watcher[w].phase = "beating" /\ Phase(w, "on")
  /\ online' = TRUE
  /\ rows' = [rows EXCEPT ![watcher[w].session] = "running"]
  /\ UNCHANGED <<tmux, tracker, events, request, pidFile, mishaps>>

\* The finally of _run_watch sends the id the watcher was launched with.
Leave(w) ==
  /\ watcher[w].phase = "leaving" /\ Phase(w, "gone")
  /\ \/ Disconnect(watcher[w].session, watcher[w].id) /\ NoMishap
     \/ Mishap /\ UNCHANGED server
  /\ UNCHANGED <<tmux, request, pidFile>>

Crash(w) ==
  /\ Lives(w) /\ Mishap /\ Phase(w, "gone")
  /\ UNCHANGED <<tmux, server, request, pidFile>>

-----------------------------------------------------------------------------

Serve(r) == Look(r) \/ Remember(r) \/ Kill(r) \/ Spawn(r)
Command(r) == CreateSession(r) \/ ReadPane(r) \/ DisconnectRow(r) \/ StartWatcher(r)
Watch(w) == RecordPid(w) \/ Register(w) \/ GiveUp(w) \/ Check(w) \/ Heartbeat(w) \/ Leave(w)

Next ==
  \/ Expire \/ RestartServer \/ EndSession
  \/ \E r \in Request :
       Serve(r) \/ Command(r) \/ KillCommand(r) \/ \E kind \in Kind : Ask(r, kind)
  \/ \E w \in Pid : Watch(w) \/ Crash(w)

Spec == Init /\ [][Next]_vars

\* Handlers, commands and watchers go on, and the expiry task runs again.
FairSpec ==
  /\ Spec
  /\ WF_vars(Expire)
  /\ \A r \in Request : WF_vars(Serve(r) \/ Command(r))
  /\ \A w \in Pid : WF_vars(Watch(w))

-----------------------------------------------------------------------------
(* Properties.                                                             *)

Pc == {"unasked", "look", "remember", "kill", "spawn", "create", "pane", "watch", "disconnect",
       "done", "failed"}
PhaseOf == {"none", "starting", "asking", "on", "beating", "leaving", "gone"}
RequestRow == [kind : Kind \cup {"none"}, pc : Pc, named : Session \cup {NoSession},
               pane : Pane, todo : SUBSET Session]
WatcherRow == [phase : PhaseOf, pane : Pane, id : Request \cup {NoRequest},
               session : Session \cup {NoSession}]

TrackerFine ==
  \A i \in DOMAIN tracker :
    /\ tracker[i].id \in Request
    /\ tracker[i].session = request[tracker[i].id].named
    /\ tracker[i].session \in DOMAIN rows
    /\ \A j \in DOMAIN tracker : tracker[i].id = tracker[j].id => i = j

\* Every table, request and process is well formed, and a request is remembered
\* once, for the session it named.
TypeOK ==
  /\ up \in BOOLEAN /\ pane \in Pane /\ online \in BOOLEAN
  /\ rows \in Seq({"running", "stopped"}) /\ DOMAIN rows \subseteq Session
  /\ TrackerFine
  /\ request \in [Request -> RequestRow] /\ watcher \in [Pid -> WatcherRow]
  /\ pidFile \in Pid
  /\ mishaps \in 0..MaxMishaps /\ events \subseteq Event

\* A registration or disconnection shows the id of a request only if that request
\* named the session, or launched the watcher whose session it is; requests left
\* in the tracker by sessions that never disconnected do not turn up elsewhere.
OwnRequests ==
  \A e \in events : e.id # NoRequest =>
    \/ e.type = "registered" /\ request[e.id].kind \in {"start", "reconnect"}
    \/ e.type = "disconnected" /\ request[e.id].named = e.session
    \/ e.type = "disconnected" /\ Registration(e.session, e.id) \in events

\* The watcher a start or reconnect has launched registers with its id, however
\* often it has to ask and whatever becomes of the server and of other watchers
\* meanwhile, unless the watcher ends first: the dashboard's confirmation comes.
StartConfirmed ==
  \A r \in Request :
    (watcher[r].phase \in {"starting", "asking"} /\ request[r].kind \in {"start", "reconnect"})
      ~> (watcher[r].phase = "gone" \/ \E e \in events : e.type = "registered" /\ e.id = r)

\* While Codex and a watcher of its pane run, the agent is online in the end and
\* that watcher's session is running, where _handle_stop and _handle_reconnect
\* look for one, also when a watcher of an old session goes on beside it: early
\* expiries and late disconnects, of older sessions or of its own, do not last.
Stands(w) == HasPane(w) /\ watcher[w].phase \in {"starting", "asking", "on", "beating"}
Reachable(w) == online /\ watcher[w].session \in Running
ControlsReach == \A w \in Pid : <>[]Stands(w) => <>[]Reachable(w)

\* When the session is gone for good, the agent is offline in the end, although
\* its watchers may be killed, lose their disconnect, or register late.
GoesOffline == <>[]~up => <>[]~online

\* What is asked of a session that now disconnects.
Asked(s) == {tracker[i].id : i \in {j \in DOMAIN tracker : tracker[j].session = s}}

\* A disconnection shows the id of a stop or reconnect that has asked for it.
DisconnectionConfirms ==
  [][\A e \in events' \ events :
       e.type = "disconnected" /\ Asked(e.session) # {} => e.id \in Asked(e.session)]_vars

=============================================================================
