---------------------------- MODULE PresenceProofs ----------------------------
(***************************************************************************)
(* Proofs about Presence, for any agents, groups, sessions and handlers,   *)
(* any timeouts and any bounds.                                            *)
(***************************************************************************)
EXTENDS Presence, TLAPS

USE PresenceAssumption

(* What an agent's row must be, given the groups.                          *)
RowFine(a, r, groups) ==
  \/ r = NoAgent
  \/ /\ r \in AgentRow(a)
     /\ a \in ApiAgent /\ r.active => groups[r.group] = "open" /\ r.age # Never

CallsFine ==
  /\ call \in [Thread -> Request \cup {Idle}]
  /\ \A h \in Handler : call[h].op # "expire"
  /\ call[Janitor].op \in {"idle", "expire"}

(* The inductive invariant: TypeOK, ApiGroupsOpen and PresenceSet, arranged *)
(* by tables, with all that is said of one agent's row in one place.       *)
IInv ==
  /\ group \in [Group -> {"none", "open", "archived"}]
  /\ DOMAIN agent = Agent
  /\ \A a \in Agent : RowFine(a, agent[a], group)
  /\ session \in [Session -> SessionRow \cup {NoRow}]
  /\ CallsFine
  /\ restarts \in 0..MaxRestarts

-----------------------------------------------------------------------------
(* What each kind of request holds.                                        *)
LEMMA Requests ==
  ASSUME NEW r \in Request \cup {Idle}
  PROVE  /\ r.op \in {"idle", "register", "enlist", "status", "renew", "expire"}
         /\ r.op = "idle" <=> r = Idle
         /\ r # Idle => r.lag \in Lag
         /\ r.op = "register" => r.agent \in TmuxAgent /\ r.group \in Group
                                   /\ r.session \in Session
         /\ r.op = "enlist" => r.agent \in ApiAgent /\ r.group \in Group
         /\ r.op = "status" => r.agent \in ApiAgent /\ r.active \in BOOLEAN
         /\ r.op = "renew" => r.agent \in ApiAgent
BY DEF Request, Idle

(* A request that has waited for one more tick is still a request.         *)
LEMMA Waited ==
  ASSUME NEW r \in Request, r.lag < MaxLag
  PROVE  /\ [r EXCEPT !.lag = r.lag + 1] \in Request
         /\ [r EXCEPT !.lag = r.lag + 1].op = r.op
<1>0. r.lag \in Lag /\ r.lag + 1 \in Lag
  BY Requests DEF Lag, Request, Idle
<1>1. CASE r.op = "register"
  BY <1>0, <1>1 DEF Request
<1>2. CASE r.op = "enlist"
  BY <1>0, <1>2 DEF Request
<1>3. CASE r.op = "status"
  BY <1>0, <1>3 DEF Request
<1>4. CASE r.op = "renew"
  BY <1>0, <1>4 DEF Request
<1>5. CASE r.op = "expire"
  BY <1>0, <1>5 DEF Request
<1> QED
  BY <1>1, <1>2, <1>3, <1>4, <1>5 DEF Request

(* The rows of an agent, as the actions make them.                         *)
LEMMA Rows ==
  ASSUME NEW a \in Agent, NEW r \in AgentRow(a)
  PROVE  /\ r.known /\ r # NoAgent /\ r.group \in Group /\ r.active \in BOOLEAN
         /\ r.age \in Ages(a) \cup {Never}
         /\ \A b \in BOOLEAN : [r EXCEPT !.active = b] \in AgentRow(a)
         /\ \A n \in Ages(a) \cup {Never} : [r EXCEPT !.age = n] \in AgentRow(a)
         /\ \A b \in BOOLEAN, n \in Ages(a) \cup {Never} :
              [r EXCEPT !.active = b, !.age = n] \in AgentRow(a)
<1>0. r.known /\ r.group \in Group /\ r.active \in BOOLEAN
        /\ r.age \in Ages(a) \cup {Never}
  BY DEF AgentRow
<1>a. ~NoAgent.known
  BY DEF NoAgent
<1>1. r # NoAgent
  BY <1>0, <1>a
<1>2. ASSUME NEW b \in BOOLEAN
      PROVE  [r EXCEPT !.active = b] \in AgentRow(a)
  BY DEF AgentRow
<1>3. ASSUME NEW n \in Ages(a) \cup {Never}
      PROVE  [r EXCEPT !.age = n] \in AgentRow(a)
  BY DEF AgentRow
<1>4. ASSUME NEW b \in BOOLEAN, NEW n \in Ages(a) \cup {Never}
      PROVE  [r EXCEPT !.active = b, !.age = n] \in AgentRow(a)
  BY DEF AgentRow
<1> QED
  BY <1>0, <1>1, <1>2, <1>3, <1>4

LEMMA Lags ==
  ASSUME NEW a \in Agent
  PROVE  /\ Lag \subseteq Ages(a)
         /\ Life(a) \in Nat
         /\ Never \notin Ages(a)
         /\ \A n \in Ages(a) : n # Life(a) + MaxLag + 1 => n + 1 \in Ages(a)
BY DEF Lag, Ages, Life, Never

-----------------------------------------------------------------------------
LEMMA Implied == IInv => TypeOK /\ ApiGroupsOpen /\ PresenceSet
<1>1. \A a \in Agent : Known(a) => agent[a] # NoAgent
  BY DEF Known, NoAgent
<1> QED
  BY <1>1 DEF IInv, CallsFine, TypeOK, ApiGroupsOpen, PresenceSet, RowFine, Active, Agent

(* No group that was open is closed: the rows left alone stay fine.        *)
KeptOpen == \A g \in Group : group[g] = "open" => group'[g] = "open"

LEMMA StillFine ==
  ASSUME KeptOpen, NEW a \in Agent, NEW r, RowFine(a, r, group)
  PROVE  RowFine(a, r, group')
BY Rows DEF KeptOpen, RowFine

LEMMA OneRow ==
  ASSUME IInv, KeptOpen, NEW a \in Agent, NEW r, RowFine(a, r, group'),
         agent' = [agent EXCEPT ![a] = r]
  PROVE  DOMAIN agent' = Agent /\ \A b \in Agent : RowFine(b, agent'[b], group')
BY StillFine DEF IInv

(* The rows that calls write: the agent is known and its age is the call's *)
(* lag.                                                                    *)
LEMMA WrittenRow ==
  ASSUME NEW a \in Agent, NEW g \in Group, NEW b \in BOOLEAN,
         NEW n \in Ages(a) \cup {Never}
  PROVE  [known |-> TRUE, group |-> g, active |-> b, age |-> n] \in AgentRow(a)
BY DEF AgentRow

LEMMA KnownRow ==
  ASSUME IInv, NEW a \in Agent, Known(a)
  PROVE  agent[a] \in AgentRow(a) /\ agent[a].group \in Group
<1>1. ~NoAgent.known
  BY DEF NoAgent
<1> QED
  BY <1>1, Rows DEF IInv, Known, RowFine

(* A group restored for activity is open, and no other is touched.         *)
LEMMA RestoredOpen ==
  ASSUME NEW g \in Group, group \in [Group -> {"none", "open", "archived"}]
  PROVE  /\ Restored(g) \in [Group -> {"none", "open", "archived"}]
         /\ Restored(g)[g] = "open"
         /\ \A k \in Group : group[k] = "open" => Restored(g)[k] = "open"
BY DEF Restored

(* Beginning and ending a call keeps the threads' part of the invariant.   *)
LEMMA Ended ==
  ASSUME CallsFine, NEW t \in Thread, End(t)
  PROVE  CallsFine'
<1>1. Idle.op = "idle"
  BY DEF Idle
<1> QED
  BY <1>1 DEF CallsFine, End, Thread

LEMMA Began ==
  ASSUME CallsFine, NEW h \in Handler, NEW r \in Request, r.op # "expire", Begin(h, r)
  PROVE  CallsFine'
BY DEF CallsFine, Begin, Thread

(* What all the calls have in common: the groups and agents they leave     *)
(* behind, and their thread.                                               *)
LEMMA Done ==
  ASSUME IInv,
         group' \in [Group -> {"none", "open", "archived"}],
         DOMAIN agent' = Agent, \A a \in Agent : RowFine(a, agent'[a], group'),
         session' \in [Session -> SessionRow \cup {NoRow}],
         CallsFine', restarts' = restarts
  PROVE  IInv'
BY DEF IInv

-----------------------------------------------------------------------------
(* The first state: no groups, no agents, no threads at work.              *)
LEMMA InitHolds ==
  ASSUME Init
  PROVE  IInv
<1>1. Idle.op = "idle"
  BY DEF Idle
<1>2. \A a \in Agent : RowFine(a, agent[a], group)
  BY DEF Init, RowFine
<1> QED
  BY <1>1, <1>2 DEF IInv, CallsFine, Init, Thread

LEMMA TickKeeps ==
  ASSUME IInv, Tick
  PROVE  IInv'
<1>1. ASSUME NEW a \in Agent
      PROVE  RowFine(a, Older(a), group)
  <2>1. CASE Older(a) = agent[a]
    BY <2>1 DEF IInv
  <2>2. CASE Older(a) # agent[a]
    <3> DEFINE n == agent[a].age + 1
               row == [agent[a] EXCEPT !.age = n]
    <3>1. /\ Known(a) /\ agent[a].age # Never /\ Older(a) = row
          /\ agent[a].age # Life(a) + MaxLag + 1
      BY <2>2 DEF Older
    <3>2. agent[a] \in AgentRow(a)
      BY <3>1, KnownRow
    <3>3. n \in Ages(a)
      BY <3>1, <3>2, Rows, Lags
    <3>4. /\ row \in AgentRow(a)
          /\ row.active = agent[a].active /\ row.group = agent[a].group /\ row.age = n
      BY <3>2, <3>3 DEF AgentRow
    <3> HIDE DEF row
    <3>5. a \in ApiAgent /\ row.active => group[row.group] = "open" /\ row.age # Never
      <4>1. n # Never
        BY <3>3, Lags
      <4>2. agent[a] # NoAgent
        BY <3>2, Rows
      <4>3. a \in ApiAgent /\ agent[a].active => group[agent[a].group] = "open"
        BY <4>2 DEF IInv, RowFine
      <4> HIDE DEF n
      <4>4. row.active => agent[a].active
        BY <3>4
      <4>5. group[row.group] = group[agent[a].group]
        BY <3>4
      <4>6. row.age # Never
        BY <3>4, <4>1
      <4> QED
        BY <4>3, <4>4, <4>5, <4>6
    <3> QED
      BY <3>1, <3>4, <3>5 DEF RowFine
  <2> QED
    BY <2>1, <2>2
<1>2. CallsFine'
  <2>1. ASSUME NEW t \in Thread
        PROVE  /\ call'[t] \in Request \cup {Idle}
               /\ call'[t].op = call[t].op
    <3>1. CASE call[t] = Idle
      BY <3>1 DEF Tick, Waiting
    <3>2. CASE call[t] # Idle
      <4>1. call[t] \in Request /\ call[t].lag < MaxLag
        BY <3>2 DEF Tick, Waiting, IInv, CallsFine
      <4>2. call'[t] = [call[t] EXCEPT !.lag = call[t].lag + 1]
        BY <3>2 DEF Tick, Waiting
      <4> QED
        BY <4>1, <4>2, Waited
    <3> QED
      BY <3>1, <3>2
  <2>2. call' = [t \in Thread |-> call'[t]]
    BY DEF Tick
  <2> QED
    BY <2>1, <2>2 DEF IInv, CallsFine, Thread
<1> QED
  BY <1>1, <1>2, Done DEF Tick, IInv

LEMMA GroupsKeep ==
  ASSUME IInv, NEW g \in Group, Groups(g)
  PROVE  IInv'
<1>1. group' \in [Group -> {"none", "open", "archived"}]
  BY DEF Groups, CreateGroup, ArchiveGroup, RestoreGroup, IInv
<1>2. CallsFine' /\ session' = session /\ agent' = agent /\ restarts' = restarts
  BY DEF Groups, CreateGroup, ArchiveGroup, RestoreGroup, IInv, CallsFine
<1>3. ASSUME NEW a \in Agent
      PROVE  RowFine(a, agent[a], group')
  <2>1. CASE CreateGroup(g) \/ RestoreGroup(g)
    <3>1. KeptOpen
      BY <2>1 DEF CreateGroup, RestoreGroup, KeptOpen, IInv
    <3> QED
      BY <3>1, StillFine DEF IInv
  <2>2. CASE ArchiveGroup(g)
    BY <2>2, Rows DEF ArchiveGroup, IInv, RowFine, Active, Known
  <2> QED
    BY <2>1, <2>2 DEF Groups
<1> QED
  BY <1>1, <1>2, <1>3, Done DEF IInv

LEMMA RegisterAgentKeeps ==
  ASSUME IInv, NEW h \in Handler, RegisterAgent(h)
  PROVE  IInv'
<1>1. PICK a \in TmuxAgent, g \in Group, s \in Session \ InUse :
        /\ agent' = [agent EXCEPT ![a] =
             [known |-> TRUE, group |-> g, active |-> TRUE,
              age |-> IF Known(a) THEN agent[a].age ELSE Never]]
        /\ group' = Restored(g)
        /\ Begin(h, [op |-> "register", agent |-> a, group |-> g, session |-> s, lag |-> 0])
        /\ UNCHANGED <<session, restarts>>
  BY DEF RegisterAgent
<1> DEFINE n == IF Known(a) THEN agent[a].age ELSE Never
           row == [known |-> TRUE, group |-> g, active |-> TRUE, age |-> n]
           request == [op |-> "register", agent |-> a, group |-> g, session |-> s, lag |-> 0]
<1>2. n \in Ages(a) \cup {Never}
  BY KnownRow, Rows DEF Agent
<1>3. row \in AgentRow(a)
  BY <1>2 DEF AgentRow
<1>4. RowFine(a, row, group')
  BY <1>3 DEF RowFine
<1>5. request \in Request /\ request.op # "expire"
  BY DEF Request, Lag
<1>6. KeptOpen /\ group' \in [Group -> {"none", "open", "archived"}]
  BY <1>1, RestoredOpen DEF KeptOpen, IInv
<1>7. agent' = [agent EXCEPT ![a] = row]
  BY <1>1
<1> HIDE DEF n, row
<1>8. DOMAIN agent' = Agent /\ \A b \in Agent : RowFine(b, agent'[b], group')
  BY <1>4, <1>6, <1>7, OneRow DEF Agent
<1>9. CallsFine'
  BY <1>1, <1>5, Began DEF IInv
<1> QED
  BY <1>1, <1>6, <1>8, <1>9, Done DEF IInv

(* Marking an agent active or offline and setting its age, when its group  *)
(* is open afterwards, or no API agent is made active.                     *)
LEMMA Marked ==
  ASSUME IInv, KeptOpen, NEW a \in Agent, Known(a),
         NEW b \in BOOLEAN, NEW n \in Ages(a) \cup {Never},
         a \in ApiAgent /\ b => group'[agent[a].group] = "open" /\ n # Never,
         agent' = [agent EXCEPT ![a].active = b, ![a].age = n]
  PROVE  DOMAIN agent' = Agent /\ \A c \in Agent : RowFine(c, agent'[c], group')
<1> DEFINE row == [agent[a] EXCEPT !.active = b, !.age = n]
<1>1. agent[a] \in AgentRow(a)
  BY KnownRow
<1>2. /\ row \in AgentRow(a) /\ row.active = b /\ row.age = n
      /\ row.group = agent[a].group
  BY <1>1 DEF AgentRow
<1>3. agent' = [agent EXCEPT ![a] = row]
  BY DEF IInv
<1> HIDE DEF row
<1>4. RowFine(a, row, group')
  BY <1>2 DEF RowFine
<1> QED
  BY <1>3, <1>4, OneRow

LEMMA RegisterSessionKeeps ==
  ASSUME IInv, NEW h \in Handler, RegisterSession(h)
  PROVE  IInv'
<1> DEFINE c == call[h]
<1>1. /\ c.op = "register" /\ c \in Request
      /\ c.agent \in TmuxAgent /\ c.session \in Session /\ c.lag \in Lag
      /\ c.agent \in Agent /\ c.agent \notin ApiAgent
  BY Requests DEF RegisterSession, IInv, CallsFine, Thread, Agent, Idle
<1>2. PICK lag \in 0..c.lag :
        agent' = [agent EXCEPT ![c.agent].active = TRUE, ![c.agent].age = lag]
  BY DEF RegisterSession
<1>3. lag \in Ages(c.agent) \cup {Never}
  BY <1>1, Lags DEF Lag
<1>4. KeptOpen
  BY DEF RegisterSession, KeptOpen
<1>5. Known(c.agent)
  BY DEF RegisterSession
<1>6. DOMAIN agent' = Agent /\ \A b \in Agent : RowFine(b, agent'[b], group')
  <2> HIDE DEF c
  <2> QED
    BY <1>1, <1>2, <1>3, <1>4, <1>5, Marked
<1>7. [status |-> "running", agent |-> c.agent] \in SessionRow
  BY <1>1 DEF SessionRow
<1>8. session' \in [Session -> SessionRow \cup {NoRow}]
  BY <1>1, <1>7 DEF RegisterSession, IInv
<1>9. CallsFine'
  BY Ended DEF RegisterSession, IInv, Thread
<1> QED
  BY <1>6, <1>8, <1>9, Done DEF RegisterSession, IInv

(* What becomes of a session's row when its status changes.                *)
LEMMA SessionMarked ==
  ASSUME NEW r \in SessionRow, NEW status \in {"running", "stopped"}
  PROVE  [r EXCEPT !.status = status] \in SessionRow
BY DEF SessionRow

LEMMA HeartbeatKeeps ==
  ASSUME IInv, NEW a \in TmuxAgent, NEW s \in Session \cup {NoSession},
         NEW active \in BOOLEAN, Heartbeat(a, s, active)
  PROVE  IInv'
<1>1. a \in Agent /\ a \notin ApiAgent /\ Known(a) /\ agent[a].group \in Group
  BY KnownRow DEF Heartbeat, Agent
<1>2. KeptOpen /\ group' \in [Group -> {"none", "open", "archived"}]
  BY <1>1, RestoredOpen DEF Heartbeat, KeptOpen, IInv
<1>3. 0 \in Ages(a) \cup {Never}
  BY <1>1, Lags DEF Lag
<1>4. DOMAIN agent' = Agent /\ \A b \in Agent : RowFine(b, agent'[b], group')
  BY <1>1, <1>2, <1>3, Marked DEF Heartbeat
<1>5. session' \in [Session -> SessionRow \cup {NoRow}]
  BY SessionMarked DEF Heartbeat, IInv
<1>6. CallsFine' /\ restarts' = restarts
  BY DEF Heartbeat, IInv, CallsFine
<1> QED
  BY <1>2, <1>4, <1>5, <1>6, Done

LEMMA DisconnectAgentKeeps ==
  ASSUME IInv, NEW a \in TmuxAgent, NEW s \in Session \cup {NoSession},
         DisconnectAgent(a, s)
  PROVE  IInv'
<1>1. a \in Agent /\ a \notin ApiAgent /\ Known(a) /\ agent[a] \in AgentRow(a)
  BY KnownRow DEF DisconnectAgent, Agent
<1> DEFINE row == [agent[a] EXCEPT !.active = FALSE]
<1>2. row \in AgentRow(a)
  BY <1>1, Rows
<1>3. KeptOpen /\ group' = group
  BY DEF DisconnectAgent, KeptOpen
<1>4. agent' = [agent EXCEPT ![a] = row]
  BY DEF DisconnectAgent, IInv
<1> HIDE DEF row
<1>5. DOMAIN agent' = Agent /\ \A b \in Agent : RowFine(b, agent'[b], group')
  BY <1>1, <1>2, <1>3, <1>4, OneRow DEF RowFine
<1>6. session' \in [Session -> SessionRow \cup {NoRow}]
  BY SessionMarked DEF DisconnectAgent, IInv
<1>7. CallsFine' /\ restarts' = restarts
  BY DEF DisconnectAgent, IInv, CallsFine
<1> QED
  BY <1>3, <1>5, <1>6, <1>7, Done DEF IInv

-----------------------------------------------------------------------------
(* API agents.                                                             *)

LEMMA BegunKeeps ==
  ASSUME IInv, NEW h \in Handler,
         BeginRegisterApiAgent(h) \/ BeginSetAgentStatus(h) \/ BeginRenew(h)
  PROVE  IInv'
<1>1. ASSUME NEW r \in Request, r.op # "expire", Own(h, r)
      PROVE  IInv'
  BY <1>1, Began, Done DEF Own, IInv
<1>2. CASE BeginRegisterApiAgent(h)
  <2>1. PICK a \in ApiAgent, g \in Group :
          Own(h, [op |-> "enlist", agent |-> a, group |-> g, lag |-> 0])
    BY <1>2 DEF BeginRegisterApiAgent
  <2>2. [op |-> "enlist", agent |-> a, group |-> g, lag |-> 0] \in Request
    BY DEF Request, Lag
  <2> QED
    BY <1>1, <2>1, <2>2
<1>3. CASE BeginSetAgentStatus(h)
  <2>1. PICK a \in ApiAgent, active \in BOOLEAN :
          Own(h, [op |-> "status", agent |-> a, active |-> active, lag |-> 0])
    BY <1>3 DEF BeginSetAgentStatus
  <2>2. [op |-> "status", agent |-> a, active |-> active, lag |-> 0] \in Request
    BY DEF Request, Lag
  <2> QED
    BY <1>1, <2>1, <2>2
<1>4. CASE BeginRenew(h)
  <2>1. PICK a \in ApiAgent : Own(h, [op |-> "renew", agent |-> a, lag |-> 0])
    BY <1>4 DEF BeginRenew
  <2>2. [op |-> "renew", agent |-> a, lag |-> 0] \in Request
    BY DEF Request, Lag
  <2> QED
    BY <1>1, <2>1, <2>2
<1> QED
  BY <1>2, <1>3, <1>4

(* An API agent made present in a group that is restored with it.          *)
LEMMA PresentKeeps ==
  ASSUME IInv, NEW h \in Handler, NEW a \in ApiAgent, NEW g \in Group, NEW lag \in Lag,
         Present(a, g, lag), group' = Restored(g), End(h), UNCHANGED <<session, restarts>>
  PROVE  IInv'
<1> DEFINE row == [known |-> TRUE, group |-> g, active |-> TRUE, age |-> lag]
<1>1. a \in Agent /\ lag \in Ages(a) /\ lag # Never
  BY Lags DEF Agent
<1>2. row \in AgentRow(a)
  BY <1>1 DEF AgentRow
<1>3. KeptOpen /\ group' \in [Group -> {"none", "open", "archived"}] /\ group'[g] = "open"
  BY RestoredOpen DEF KeptOpen, IInv
<1>4. RowFine(a, row, group')
  BY <1>1, <1>2, <1>3 DEF RowFine
<1>5. agent' = [agent EXCEPT ![a] = row]
  BY DEF Present
<1> HIDE DEF row
<1>6. DOMAIN agent' = Agent /\ \A b \in Agent : RowFine(b, agent'[b], group')
  BY <1>1, <1>3, <1>4, <1>5, OneRow
<1>7. CallsFine'
  BY Ended DEF IInv, Thread
<1> QED
  BY <1>3, <1>6, <1>7, Done DEF IInv

LEMMA RegisterApiAgentKeeps ==
  ASSUME IInv, NEW h \in Handler, RegisterApiAgent(h)
  PROVE  IInv'
<1>1. call[h].agent \in ApiAgent /\ call[h].group \in Group /\ call[h].lag \in Lag
  BY Requests DEF RegisterApiAgent, IInv, CallsFine, Thread, Idle
<1> QED
  BY <1>1, PresentKeeps DEF RegisterApiAgent

LEMMA RenewKeeps ==
  ASSUME IInv, NEW h \in Handler, Renew(h)
  PROVE  IInv'
<1>1. call[h].agent \in ApiAgent /\ call[h].lag \in Lag
  BY Requests DEF Renew, IInv, CallsFine, Thread, Idle
<1>2. agent[call[h].agent].group \in Group
  BY <1>1, KnownRow DEF Renew, Agent
<1> QED
  BY <1>1, <1>2, PresentKeeps DEF Renew

LEMMA SetAgentStatusKeeps ==
  ASSUME IInv, NEW h \in Handler, SetAgentStatus(h)
  PROVE  IInv'
<1> DEFINE c == call[h]
           n == IF c.active THEN c.lag ELSE Never
<1>1. c.agent \in ApiAgent /\ c.active \in BOOLEAN /\ c.lag \in Lag
  BY Requests DEF SetAgentStatus, IInv, CallsFine, Thread, Idle
<1>2. c.agent \in Agent /\ Known(c.agent) /\ agent[c.agent].group \in Group
  BY <1>1, KnownRow DEF SetAgentStatus, Agent
<1>3. n \in Ages(c.agent) \cup {Never} /\ (c.active => n # Never)
  BY <1>1, <1>2, Lags
<1>4. /\ KeptOpen /\ group' \in [Group -> {"none", "open", "archived"}]
      /\ c.active => group'[agent[c.agent].group] = "open"
  BY <1>2, RestoredOpen DEF SetAgentStatus, KeptOpen, IInv
<1>5. agent' = [agent EXCEPT ![c.agent].active = c.active, ![c.agent].age = n]
  BY DEF SetAgentStatus
<1>6. CallsFine' /\ UNCHANGED <<session, restarts>>
  BY Ended DEF SetAgentStatus, IInv, Thread
<1> HIDE DEF c, n
<1>7. DOMAIN agent' = Agent /\ \A b \in Agent : RowFine(b, agent'[b], group')
  BY <1>1, <1>2, <1>3, <1>4, <1>5, Marked
<1> QED
  BY <1>4, <1>6, <1>7, Done DEF IInv

LEMMA RefuseKeeps ==
  ASSUME IInv, NEW h \in Handler, Refuse(h)
  PROVE  IInv'
BY Ended, Done DEF Refuse, IInv, Thread

-----------------------------------------------------------------------------
(* The presence_expiry task and the end of the process.                    *)

LEMMA BeginExpireKeeps ==
  ASSUME IInv, BeginExpire
  PROVE  IInv'
<1>1. [op |-> "expire", lag |-> 0] \in Request
  BY DEF Request, Lag
<1>2. CallsFine'
  BY <1>1 DEF BeginExpire, Own, Begin, IInv, CallsFine, Thread
<1> QED
  BY <1>2, Done DEF BeginExpire, Own, IInv

LEMMA ExpireStaleAgentsKeeps ==
  ASSUME IInv, ExpireStaleAgents
  PROVE  IInv'
<1> DEFINE lag == call[Janitor].lag
<1>1. ASSUME NEW a \in Agent
      PROVE  RowFine(a, agent'[a], group')
  <2>1. CASE ~Expired(a, lag)
    BY <2>1 DEF ExpireStaleAgents, IInv
  <2>2. CASE Expired(a, lag)
    <3> DEFINE gone == IF a \in ApiAgent THEN [agent[a] EXCEPT !.active = FALSE, !.age = Never]
                       ELSE [agent[a] EXCEPT !.active = FALSE]
    <3>1. agent[a] \in AgentRow(a)
      BY <2>2, KnownRow DEF Expired, Active
    <3>2. agent'[a] = gone
      BY <2>2 DEF ExpireStaleAgents
    <3>3. gone \in AgentRow(a)
      BY <3>1, Rows
    <3>4. a \in ApiAgent => ~gone.active
      BY <3>1 DEF AgentRow
    <3> HIDE DEF gone
    <3> QED
      BY <3>2, <3>3, <3>4 DEF RowFine
  <2> QED
    BY <2>1, <2>2
<1>2. session' \in [Session -> SessionRow \cup {NoRow}]
  BY SessionMarked DEF ExpireStaleAgents, IInv
<1>3. CallsFine'
  BY Ended DEF ExpireStaleAgents, IInv, Thread
<1>4. DOMAIN agent' = Agent
  BY DEF ExpireStaleAgents
<1> QED
  BY <1>1, <1>2, <1>3, <1>4, Done DEF ExpireStaleAgents, IInv

LEMMA RestartKeeps ==
  ASSUME IInv, Restart
  PROVE  IInv'
<1>1. Idle.op = "idle"
  BY DEF Idle
<1>2. CallsFine'
  BY <1>1 DEF Restart, CallsFine, Thread
<1> QED
  BY <1>2 DEF Restart, IInv

-----------------------------------------------------------------------------
(* Every step keeps the invariant.                                         *)
LEMMA NextKeeps ==
  ASSUME IInv, [Next]_vars
  PROVE  IInv'
<1>1. ASSUME NEW g \in Group, Groups(g)
      PROVE  IInv'
  BY <1>1, GroupsKeep
<1>2. ASSUME NEW a \in TmuxAgent, Watcher(a)
      PROVE  IInv'
  BY <1>2, HeartbeatKeeps, DisconnectAgentKeeps DEF Watcher
<1>3. ASSUME NEW h \in Handler, Arrive(h)
      PROVE  IInv'
  BY <1>3, RegisterAgentKeeps, BegunKeeps DEF Arrive
<1>4. ASSUME NEW h \in Handler, Serve(h)
      PROVE  IInv'
  BY <1>4, RegisterSessionKeeps, RegisterApiAgentKeeps, SetAgentStatusKeeps,
     RenewKeeps, RefuseKeeps DEF Serve
<1>5. ASSUME UNCHANGED vars
      PROVE  IInv'
  BY <1>5 DEF vars, IInv, CallsFine
<1> QED
  BY <1>1, <1>2, <1>3, <1>4, <1>5, BeginExpireKeeps, ExpireStaleAgentsKeeps,
     TickKeeps, RestartKeeps DEF Next

(* The tables and the threads keep the form that the code gives them, an   *)
(* active API agent is in an open group and has a presence that expires.   *)
THEOREM Invariance == Spec => []IInv
<1>1. Init => IInv
  BY InitHolds
<1>2. IInv /\ [Next]_vars => IInv'
  BY NextKeeps
<1> QED
  BY <1>1, <1>2, PTL DEF Spec

(* Rows and requests are well formed in every reachable state.             *)
THEOREM TypeCorrect == Spec => []TypeOK
BY Invariance, Implied, PTL

(* The group of an active API agent is never archived, whatever calls      *)
(* archive_group races with.                                               *)
THEOREM ApiGroupsOpenHolds == Spec => []ApiGroupsOpen
BY Invariance, Implied, PTL

(* An active API agent always has a presence_expires_at to be found by.    *)
THEOREM PresenceSetHolds == Spec => []PresenceSet
BY Invariance, Implied, PTL

(* A run of expire_stale_agents whose `now` is old marks nobody offline    *)
(* who has been heard from since, and nobody active.                       *)
LEMMA ExpiringSpares ==
  ASSUME IInv, [Next]_vars, Expiring, NEW a \in Agent
  PROVE  /\ Active(a) /\ ~Active(a)' => agent[a].age # Never /\ agent[a].age > Life(a)
         /\ Active(a)' => Active(a)
<1> DEFINE lag == call[Janitor].lag
<1>0. Idle.op = "idle"
  BY DEF Idle
<1>1. call[Janitor] # Idle /\ lag \in Lag /\ call[Janitor] \in Request
  BY <1>0, Requests DEF Expiring, IInv, CallsFine, Thread
<1>2. ASSUME NEW h \in Handler, Arrive(h) \/ Serve(h)
      PROVE  call'[Janitor] = call[Janitor]
  BY <1>2 DEF Arrive, Serve, RegisterAgent, BeginRegisterApiAgent, BeginSetAgentStatus,
     BeginRenew, Own, Begin, RegisterSession, RegisterApiAgent, SetAgentStatus, Renew,
     Refuse, End, IInv, CallsFine, Thread
<1>3. ASSUME NEW g \in Group, Groups(g)
      PROVE  call' = call
  BY <1>3 DEF Groups, CreateGroup, ArchiveGroup, RestoreGroup
<1>4. ASSUME NEW b \in TmuxAgent, Watcher(b)
      PROVE  call' = call
  BY <1>4 DEF Watcher, Heartbeat, DisconnectAgent
<1>5. ASSUME Tick
      PROVE  call'[Janitor] # Idle
  <2>1. call[Janitor].lag < MaxLag
    BY <1>1, <1>5 DEF Tick, Waiting, Thread
  <2>2. call'[Janitor] = [call[Janitor] EXCEPT !.lag = call[Janitor].lag + 1]
    BY <1>1, <1>5 DEF Tick, Waiting, Thread
  <2> QED
    BY <1>0, <1>1, <2>1, <2>2, Waited DEF Expiring
<1>6. ExpireStaleAgents
  BY <1>1, <1>2, <1>3, <1>4, <1>5
     DEF Next, vars, Expiring, BeginExpire, Own, Begin, Restart, IInv
<1>7. CASE ~Expired(a, lag)
  <2>1. agent'[a] = agent[a]
    BY <1>6, <1>7 DEF ExpireStaleAgents
  <2> QED
    BY <2>1 DEF Active, Known
<1>8. CASE Expired(a, lag)
  <2>1. Active(a) /\ agent[a].age # Never /\ agent[a].age - lag > Life(a)
    BY <1>8 DEF Expired
  <2>2. agent[a].age \in Ages(a)
    BY <2>1, KnownRow, Rows DEF Active
  <2>3. agent[a].age > Life(a)
    BY <1>1, <2>1, <2>2, Lags DEF Ages, Lag
  <2> QED
    BY <2>1, <2>3
<1> QED
  BY <1>7, <1>8

(* The task never puts an agent offline that was heard from in time.       *)
THEOREM OnlySilentExpireHolds == Spec => OnlySilentExpire
<1>1. IInv /\ [Next]_vars =>
        [Expiring => \A a \in Agent :
           /\ Active(a) /\ ~Active(a)' => agent[a].age # Never /\ agent[a].age > Life(a)
           /\ Active(a)' => Active(a)]_vars
  BY ExpiringSpares
<1> QED
  BY <1>1, Invariance, PTL DEF Spec, OnlySilentExpire
=============================================================================
