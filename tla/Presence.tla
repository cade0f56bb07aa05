------------------------------- MODULE Presence -------------------------------
(***************************************************************************)
(* Who is there: the groups, agents and agent_sessions tables of           *)
(* server-local (LocalStateStore in server_local.py).                      *)
(*                                                                         *)
(* A tmux agent is kept active by the heartbeats of its watchers, one      *)
(* session per watcher; an API agent by any call made in its name.  The    *)
(* presence_expiry task marks offline what has been silent too long, and a *)
(* group can be archived while nobody in it is active.                     *)
(*                                                                         *)
(* Time is kept as ages, counted by Tick.  A call whose `now` was read     *)
(* before it got the lock carries the age of that `now`, its lag.          *)
(* Registering a session takes two transactions, with other calls between. *)
(*                                                                         *)
(* idle, busy and online are one status here, "active".  System agents,    *)
(* pane summaries and the event log are left out.                          *)
(***************************************************************************)
EXTENDS Integers, FiniteSets

CONSTANTS
  TmuxAgent,   \* agent ids that watchers register
  ApiAgent,    \* agent ids that API clients register
  Group,       \* group ids
  Session,     \* session ids (uuid4) that watchers may generate
  NoSession,   \* a heartbeat or disconnect without session_id
  Handler,     \* HTTP server threads
  Janitor,     \* the maintenance worker's thread
  Timeout,     \* AGENT_HEARTBEAT_TIMEOUT_SECONDS
  ApiLife,     \* how long an API agent's presence lasts
  MaxLag,      \* bound: how long a call may wait for the lock
  MaxRestarts  \* bound: restarts of the server process

ASSUME PresenceAssumption ==
  /\ TmuxAgent \cap ApiAgent = {}
  /\ NoSession \notin Session
  /\ Janitor \notin Handler
  /\ Timeout \in Nat /\ ApiLife \in Nat
  /\ MaxLag \in Nat /\ MaxRestarts \in Nat

VARIABLES
  group,    \* groups: whether they exist and are archived
  agent,    \* agents
  session,  \* agent_sessions
  call,     \* what each thread is doing
  restarts  \* restarts so far

vars == <<group, agent, session, call, restarts>>

Thread == Handler \cup {Janitor}
Agent == TmuxAgent \cup ApiAgent

\* An age of last_heartbeat_at, or of the call that set presence_expires_at;
\* Never is NULL.  Ages beyond the last that matters are the same.
Never == -1
Life(a) == IF a \in ApiAgent THEN ApiLife ELSE Timeout
Ages(a) == 0..Life(a) + MaxLag + 1
Lag == 0..MaxLag

NoAgent == [known |-> FALSE]
NoRow == [status |-> "none"]
Idle == [op |-> "idle"]

AgentRow(a) == [known : {TRUE}, group : Group, active : BOOLEAN, age : Ages(a) \cup {Never}]
SessionRow == [status : {"running", "stopped"}, agent : TmuxAgent]
Request ==
  [op : {"register"}, agent : TmuxAgent, group : Group, session : Session, lag : Lag]
  \cup [op : {"enlist"}, agent : ApiAgent, group : Group, lag : Lag]
  \cup [op : {"status"}, agent : ApiAgent, active : BOOLEAN, lag : Lag]
  \cup [op : {"renew"}, agent : ApiAgent, lag : Lag]
  \cup [op : {"expire"}, lag : Lag]

Known(a) == agent[a].known
Active(a) == Known(a) /\ agent[a].active

Init ==
  /\ group = [g \in Group |-> "none"]
  /\ agent = [a \in Agent |-> NoAgent]
  /\ session = [s \in Session |-> NoRow]
  /\ call = [t \in Thread |-> Idle]
  /\ restarts = 0

Older(a) ==
  IF ~Known(a) \/ agent[a].age = Never \/ agent[a].age = Life(a) + MaxLag + 1
  THEN agent[a] ELSE [agent[a] EXCEPT !.age = agent[a].age + 1]

Waiting == {t \in Thread : call[t] # Idle}

Tick ==
  /\ \A t \in Waiting : call[t].lag < MaxLag
  /\ agent' = [a \in Agent |-> Older(a)]
  /\ call' = [t \in Thread |->
       IF t \in Waiting THEN [call[t] EXCEPT !.lag = call[t].lag + 1] ELSE Idle]
  /\ UNCHANGED <<group, session, restarts>>

-----------------------------------------------------------------------------
(* Groups.                                                                 *)

CreateGroup(g) ==
  /\ group[g] = "none"
  /\ group' = [group EXCEPT ![g] = "open"]
  /\ UNCHANGED <<agent, session, call, restarts>>

\* Refused while somebody in the group is active.
ArchiveGroup(g) ==
  /\ group[g] = "open"
  /\ \A a \in Agent : Active(a) => agent[a].group # g
  /\ group' = [group EXCEPT ![g] = "archived"]
  /\ UNCHANGED <<agent, session, call, restarts>>

RestoreGroup(g) ==
  /\ group[g] = "archived"
  /\ group' = [group EXCEPT ![g] = "open"]
  /\ UNCHANGED <<agent, session, call, restarts>>

\* _restore_group_for_activity_locked
Restored(g) == [group EXCEPT ![g] = "open"]

-----------------------------------------------------------------------------
(* tmux agents and their sessions.                                         *)

Begin(t, request) ==
  /\ call[t] = Idle
  /\ call' = [call EXCEPT ![t] = request]

End(t) == call' = [call EXCEPT ![t] = Idle]

InUse == {s \in Session : session[s] # NoRow}
           \cup {call[t].session : t \in {u \in Thread : call[u].op = "register"}}

\* register_agent, the first transaction of register_agent_session: the agent
\* is active, and moves to the group, before anything was heard from it.
RegisterAgent(h) ==
  \E a \in TmuxAgent, g \in Group, s \in Session \ InUse :
    /\ group[g] # "none"
    /\ agent' = [agent EXCEPT ![a] =
         [known |-> TRUE, group |-> g, active |-> TRUE,
          age |-> IF Known(a) THEN agent[a].age ELSE Never]]
    /\ group' = Restored(g)
    /\ Begin(h, [op |-> "register", agent |-> a, group |-> g, session |-> s, lag |-> 0])
    /\ UNCHANGED <<session, restarts>>

\* The second: `now` is read at any time since the first.  The group is not
\* looked at again.
RegisterSession(h) ==
  LET c == call[h] IN
  /\ c.op = "register" /\ Known(c.agent)
  /\ \E lag \in 0..c.lag :
       agent' = [agent EXCEPT ![c.agent].active = TRUE, ![c.agent].age = lag]
  /\ session' = [session EXCEPT ![c.session] = [status |-> "running", agent |-> c.agent]]
  /\ End(h)
  /\ UNCHANGED <<group, restarts>>

\* `now` is read under the lock.  A session that had stopped runs again; an
\* unknown one rolls everything back.
Heartbeat(a, s, active) ==
  /\ Known(a)
  /\ s # NoSession => session[s] # NoRow /\ session[s].agent = a
  /\ agent' = [agent EXCEPT ![a].active = active, ![a].age = 0]
  /\ group' = IF active THEN Restored(agent[a].group) ELSE group
  /\ session' = [r \in Session |->
       IF r = s THEN [session[r] EXCEPT !.status = "running"] ELSE session[r]]
  /\ UNCHANGED <<call, restarts>>

\* Whatever session it is that ends, the agent is offline.
DisconnectAgent(a, s) ==
  /\ Known(a)
  /\ s # NoSession => session[s] # NoRow /\ session[s].agent = a
  /\ agent' = [agent EXCEPT ![a].active = FALSE]
  /\ session' = [r \in Session |->
       IF r = s THEN [session[r] EXCEPT !.status = "stopped"] ELSE session[r]]
  /\ UNCHANGED <<group, call, restarts>>

-----------------------------------------------------------------------------
(* API agents.                                                             *)

Own(h, request) == Begin(h, request) /\ UNCHANGED <<group, agent, session, restarts>>

BeginRegisterApiAgent(h) ==
  \E a \in ApiAgent, g \in Group :
    /\ group[g] # "none"
    /\ Own(h, [op |-> "enlist", agent |-> a, group |-> g, lag |-> 0])

BeginSetAgentStatus(h) ==
  \E a \in ApiAgent, active \in BOOLEAN :
    Own(h, [op |-> "status", agent |-> a, active |-> active, lag |-> 0])

BeginRenew(h) ==
  \E a \in ApiAgent : Own(h, [op |-> "renew", agent |-> a, lag |-> 0])

Present(a, g, lag) ==
  agent' = [agent EXCEPT ![a] = [known |-> TRUE, group |-> g, active |-> TRUE, age |-> lag]]

\* An API agent stays in the group it registered in first.
RegisterApiAgent(h) ==
  LET c == call[h] IN
  /\ c.op = "enlist"
  /\ Known(c.agent) => agent[c.agent].group = c.group
  /\ Present(c.agent, c.group, c.lag)
  /\ group' = Restored(c.group)
  /\ End(h)
  /\ UNCHANGED <<session, restarts>>

\* Slip: a status is not taken for activity.
SetAgentStatusQuietly(h) ==
  LET c == call[h] IN
  /\ c.op = "status" /\ Known(c.agent)
  /\ agent' = [agent EXCEPT ![c.agent].active = c.active,
                            ![c.agent].age = IF c.active THEN c.lag ELSE Never]
  /\ End(h)
  /\ UNCHANGED <<group, session, restarts>>

SetAgentStatus(h) ==
  LET c == call[h] IN
  /\ c.op = "status" /\ Known(c.agent)
  /\ agent' = [agent EXCEPT ![c.agent].active = c.active,
                            ![c.agent].age = IF c.active THEN c.lag ELSE Never]
  /\ group' = IF c.active THEN Restored(agent[c.agent].group) ELSE group
  /\ End(h)
  /\ UNCHANGED <<session, restarts>>

\* _renew_api_agent_presence_locked, in a claim, ack or release.
Renew(h) ==
  LET c == call[h] IN
  /\ c.op = "renew" /\ Known(c.agent)
  /\ Present(c.agent, agent[c.agent].group, c.lag)
  /\ group' = Restored(agent[c.agent].group)
  /\ End(h)
  /\ UNCHANGED <<session, restarts>>

\* Errors: another group, an unknown agent, or the rest of the claim, ack or
\* release failed.
Refuse(h) ==
  /\ \/ call[h].op = "enlist" /\ Known(call[h].agent)
           /\ agent[call[h].agent].group # call[h].group
     \/ call[h].op = "status" /\ ~Known(call[h].agent)
     \/ call[h].op = "renew"
  /\ End(h)
  /\ UNCHANGED <<group, agent, session, restarts>>

-----------------------------------------------------------------------------
(* The presence_expiry task, and the end of the process.                   *)

BeginExpire == Own(Janitor, [op |-> "expire", lag |-> 0])

\* Slip: the age is not reckoned from the task's `now`, but from its start.
ExpiredEarly(a, lag) ==
  Active(a) /\ agent[a].age # Never /\ agent[a].age + lag > Life(a)

\* Silent for longer than its life at the `now` of the task.
Expired(a, lag) ==
  Active(a) /\ agent[a].age # Never /\ agent[a].age - lag > Life(a)

\* Slip: only the heartbeats of tmux agents are looked at.
ExpireTmuxOnly ==
  LET lag == call[Janitor].lag IN
  /\ call[Janitor].op = "expire"
  /\ agent' = [a \in Agent |->
       IF a \in TmuxAgent /\ Expired(a, lag) THEN [agent[a] EXCEPT !.active = FALSE]
       ELSE agent[a]]
  /\ session' = [s \in Session |->
       IF session[s] # NoRow /\ Expired(session[s].agent, lag)
       THEN [session[s] EXCEPT !.status = "stopped"] ELSE session[s]]
  /\ End(Janitor)
  /\ UNCHANGED <<group, restarts>>

\* Slip: the update of the agents is missing.
ExpireSessionsOnly ==
  LET lag == call[Janitor].lag IN
  /\ call[Janitor].op = "expire"
  /\ session' = [s \in Session |->
       IF session[s] # NoRow /\ Expired(session[s].agent, lag)
       THEN [session[s] EXCEPT !.status = "stopped"] ELSE session[s]]
  /\ End(Janitor)
  /\ UNCHANGED <<group, agent, restarts>>

ExpireStaleAgents ==
  LET lag == call[Janitor].lag IN
  /\ call[Janitor].op = "expire"
  /\ agent' = [a \in Agent |->
       IF ~Expired(a, lag) THEN agent[a]
       ELSE IF a \in ApiAgent THEN [agent[a] EXCEPT !.active = FALSE, !.age = Never]
       ELSE [agent[a] EXCEPT !.active = FALSE]]
  /\ session' = [s \in Session |->
       IF session[s] # NoRow /\ Expired(session[s].agent, lag)
       THEN [session[s] EXCEPT !.status = "stopped"] ELSE session[s]]
  /\ End(Janitor)
  /\ UNCHANGED <<group, restarts>>

\* The process ends at any point and starts again on the same database.
Restart ==
  /\ restarts < MaxRestarts
  /\ restarts' = restarts + 1
  /\ call' = [t \in Thread |-> Idle]
  /\ UNCHANGED <<group, agent, session>>

-----------------------------------------------------------------------------

Groups(g) == CreateGroup(g) \/ ArchiveGroup(g) \/ RestoreGroup(g)

Watcher(a) ==
  \E s \in Session \cup {NoSession} :
    DisconnectAgent(a, s) \/ \E active \in BOOLEAN : Heartbeat(a, s, active)

Arrive(h) ==
  RegisterAgent(h) \/ BeginRegisterApiAgent(h) \/ BeginSetAgentStatus(h) \/ BeginRenew(h)

Serve(h) ==
  RegisterSession(h) \/ RegisterApiAgent(h) \/ SetAgentStatus(h) \/ Renew(h) \/ Refuse(h)

Next ==
  \/ \E g \in Group : Groups(g)
  \/ \E a \in TmuxAgent : Watcher(a)
  \/ \E h \in Handler : Arrive(h) \/ Serve(h)
  \/ BeginExpire \/ ExpireStaleAgents
  \/ Tick \/ Restart

Spec == Init /\ [][Next]_vars

\* Time passes, the maintenance worker runs its tasks again and again, and a
\* handler that has begun a call ends it; nobody has to call.
FairSpec ==
  /\ Spec
  /\ WF_vars(Tick) /\ WF_vars(BeginExpire) /\ WF_vars(ExpireStaleAgents)
  /\ \A h \in Handler : WF_vars(Serve(h))

-----------------------------------------------------------------------------
(* Properties.                                                             *)

\* The tables hold rows, and a thread works on a request of its own kind.
TypeOK ==
  /\ group \in [Group -> {"none", "open", "archived"}]
  /\ DOMAIN agent = Agent
  /\ \A a \in Agent : agent[a] = NoAgent \/ agent[a] \in AgentRow(a)
  /\ session \in [Session -> SessionRow \cup {NoRow}]
  /\ call \in [Thread -> Request \cup {Idle}]
  /\ \A h \in Handler : call[h].op # "expire"
  /\ call[Janitor].op \in {"idle", "expire"}
  /\ restarts \in 0..MaxRestarts

\* An active API agent's group is there and not archived: every call that makes
\* it active restores the group in the same transaction, and archive_group looks
\* for active agents in its own.
ApiGroupsOpen ==
  \A a \in ApiAgent : Active(a) => group[agent[a].group] = "open"

\* An active API agent has a presence_expires_at, or nothing would ever mark it
\* offline: expire_stale_agents passes over NULL.
PresenceSet ==
  \A a \in ApiAgent : Active(a) => agent[a].age # Never

Expiring ==
  call[Janitor].op = "expire" /\ call'[Janitor] = Idle /\ restarts' = restarts

\* The task marks offline only who has really been silent too long when it
\* commits, though its `now` was read before it got the lock and heartbeats and
\* renewals may have come in between; and it makes nobody active.
OnlySilentExpire ==
  [][Expiring => \A a \in Agent :
       /\ Active(a) /\ ~Active(a)' => agent[a].age # Never /\ agent[a].age > Life(a)
       /\ Active(a)' => Active(a)]_vars

Silent(a) == Active(a) /\ agent[a].age > Life(a)

\* Whoever was heard from and then is silent too long gets offline, unless it is
\* heard from again, though the server may be restarted.
SilentGoOffline ==
  \A a \in Agent : Silent(a) ~> ~Silent(a)

Stranded(a) == Active(a) /\ group[agent[a].group] = "archived"

\* An agent that is active in an archived group does not stay so: its next
\* heartbeat restores the group, or it goes offline.
ArchivedGroupsSettle ==
  \A a \in Agent : Stranded(a) ~> ~Stranded(a)

\* README, "Agent is visible but stuck `busy`": an agent is `offline` when the
\* server has not seen a heartbeat for 15 seconds.  So one that is never heard
\* from does not stay active.
UnheardGoOffline ==
  \A a \in TmuxAgent :
    (Active(a) /\ agent[a].age = Never) ~> ~(Active(a) /\ agent[a].age = Never)
=============================================================================
