----------------------------- MODULE WatcherLaunch -----------------------------
(***************************************************************************)
(* How `mcodex restart-watch` replaces the watcher of one agent, and how   *)
(* `mcodex start` launches the watcher of a new session (cli.py): the      *)
(* launch lock, the pid file, the launch intent whose token a new watcher  *)
(* must present, and the tmux pane a --dev watcher lives in, with the two  *)
(* files that say which pane that is.                                      *)
(*                                                                         *)
(* Several commands run at once.  Any of them, and any watcher, may be     *)
(* killed between two steps, tmux commands and writes fail, users open     *)
(* panes of their own, and the tmux session or the whole tmux server ends; *)
(* a new server numbers its panes from the start again.                    *)
(*                                                                         *)
(* A start makes its session without the lock and stops nobody: a command  *)
(* that holds the lock may find a new session, and watchers of the old one *)
(* may live beside the new one's, as long as they have not looked at their *)
(* pane, or for good if its number was given again.                        *)
(*                                                                         *)
(* The pane of Codex itself is not among the panes.  Not in this module:   *)
(* `start --dev` and `up`, panes that are renamed or moved, files with     *)
(* foreign content, what the commands tell the server.                     *)
(***************************************************************************)
EXTENDS Integers, FiniteSets

CONSTANTS
  Launcher,    \* the commands; also their tokens
  Starter,     \* those that are starts; the others are restart-watch
  NoLauncher,  \* nobody, no token
  MaxUserPanes,\* bound: panes users have open
  MaxServers,  \* bound: tmux servers
  MaxMishaps   \* bound: kills, failures and ends of the session, together

ASSUME WatcherLaunchAssumption ==
  /\ NoLauncher \notin Launcher
  /\ IsFiniteSet(Launcher) /\ Starter \subseteq Launcher
  /\ MaxUserPanes \in Nat /\ MaxServers \in Nat \ {0} /\ MaxMishaps \in Nat

VARIABLES
  up,        \* the agent's tmux session exists
  server,    \* the tmux server, by number
  opened,    \* how many panes it has opened
  panes,     \* the panes that exist
  watcher,   \* what each watcher process does, and the token it was given
  pidFile,   \* watcher.pid
  intent,    \* watcher-launch.json
  owner,     \* watcher-dev-pane.json
  lock,      \* who holds watcher-launch.lock
  pc,        \* where each command is
  dev,       \* the commands with --dev
  made,      \* the pane, or the process, that a command has made
  mishaps,   \* so far
  stale,     \* the watchers and commands that know the pane of a session that has ended
  strays     \* history: the watchers that others have pushed out of watcher.pid, or that
             \* were never put there since their command was killed

tmux == <<up, server, opened, panes>>
files == <<pidFile, intent, owner>>
commands == <<pc, dev, made>>
vars == <<tmux, watcher, files, lock, commands, mishaps, stale, strays>>

\* One at first, and one for each command.
Pid == 1..(1 + Cardinality(Launcher))
NoPid == 0
Users == NoPid  \* the process of a user's pane

Owner ==
  [token : Launcher, pane : Nat \ {0}, server : 1..MaxServers,
   tokenMarked : BOOLEAN, agentMarked : BOOLEAN]
NoOwner == [token |-> NoLauncher]
NoIntent == [token |-> NoLauncher, recovery |-> NoOwner]

Alive == {w \in Pid : watcher[w].phase \in {"starting", "running"}}
Running == {w \in Pid : watcher[w].phase = "running"}
Killed(S) == [w \in Pid |-> IF w \in S THEN [watcher[w] EXCEPT !.phase = "dead"] ELSE watcher[w]]
NewPid == CHOOSE w \in Pid : watcher[w].phase = "none"

\* A command launches a watcher, which knows the pane that the command knows.
Launches(l, token) ==
  /\ watcher' = [watcher EXCEPT ![NewPid] = [phase |-> "starting", token |-> token]]
  /\ stale' = stale \cup {w \in {NewPid} : l \in stale}

Init ==
  /\ up = TRUE /\ server = 1 /\ opened = 0 /\ panes = {}
  /\ watcher = [w \in Pid |-> [phase |-> IF w = 1 THEN "running" ELSE "none",
                               token |-> NoLauncher]]
  /\ pidFile = 1 /\ intent = NoIntent /\ owner = NoOwner
  /\ lock = NoLauncher
  /\ pc = [l \in Launcher |-> "idle"] /\ dev = {}
  /\ made = [l \in Launcher |-> NoOwner]
  /\ mishaps = 0 /\ stale = {} /\ strays = {}

Mishap == mishaps < MaxMishaps /\ mishaps' = mishaps + 1
NoMishap == UNCHANGED mishaps
Goto(l, next) == pc' = [pc EXCEPT ![l] = next]

-----------------------------------------------------------------------------
(* The launch intent.  It is written down once a launch with --dev begins, *)
(* and is kept with the recovery of a pane that could not be closed.       *)

HasIntent == intent.token # NoLauncher
HasRecovery == intent.recovery # NoOwner
InProgress == HasIntent /\ ~HasRecovery /\ intent.state = "pending" /\ intent.fresh

\* _materialize_dev_pane_recovery_locked: what is to be recovered is owned.
Materialized == IF HasRecovery THEN intent.recovery ELSE owner
RecoveryConflicts == HasRecovery /\ owner \notin {NoOwner, intent.recovery}

\* Slip: an old intent is overwritten unread.
CreateIntentUnread(l) ==
  /\ pc[l] = "idle" /\ l \notin Starter /\ lock = NoLauncher
  /\ dev' = dev \cup {l}
  /\ ~InProgress
  /\ intent' = [token |-> l, fresh |-> TRUE, state |-> "pending", pid |-> NoPid,
                recovery |-> NoOwner]
  /\ Goto(l, IF up THEN "enter" ELSE "clear")
  /\ UNCHANGED <<tmux, watcher, pidFile, owner, lock, made, mishaps, stale, strays>>

CreateIntent(l) ==
  /\ pc[l] = "idle" /\ l \notin Starter /\ lock = NoLauncher
  /\ dev' = dev \cup {l}
  /\ IF RecoveryConflicts
     THEN Goto(l, "failed") /\ UNCHANGED <<intent, owner>>
     ELSE /\ owner' = Materialized
          /\ IF InProgress
             THEN Goto(l, "failed") /\ UNCHANGED intent
             ELSE /\ intent' = [token |-> l, fresh |-> TRUE, state |-> "pending",
                                pid |-> NoPid, recovery |-> NoOwner]
                  /\ Goto(l, IF up THEN "enter" ELSE "clear")
  /\ UNCHANGED <<tmux, watcher, pidFile, lock, made, mishaps, stale, strays>>

\* A command without --dev; there must be a session with a pane to watch.
Begin(l) ==
  /\ pc[l] = "idle" /\ l \notin Starter
  /\ Goto(l, IF up THEN "enter" ELSE "failed")
  /\ UNCHANGED <<tmux, watcher, files, lock, dev, made, mishaps, stale, strays>>

\* A launch is no longer taken to be in progress after 60 seconds.
IntentAges ==
  /\ HasIntent /\ intent.fresh
  /\ intent' = [intent EXCEPT !.fresh = FALSE]
  /\ UNCHANGED <<tmux, watcher, pidFile, owner, lock, commands, mishaps, stale, strays>>

\* Slip: the token is not compared again.
EnterDevUnchecked(l) ==
  /\ pc[l] = "enter" /\ l \in dev /\ lock = NoLauncher
  /\ lock' = l /\ Goto(l, "stop")
  /\ UNCHANGED <<tmux, watcher, files, dev, made, mishaps, stale, strays>>

EnterDev(l) ==
  /\ pc[l] = "enter" /\ l \in dev /\ lock = NoLauncher
  /\ lock' = l
  /\ Goto(l, IF intent.token = l THEN "stop" ELSE "fail")
  /\ UNCHANGED <<tmux, watcher, files, dev, made, mishaps, stale, strays>>

\* _clear_stale_watcher_launch_intent_locked
Enter(l) ==
  /\ pc[l] = "enter" /\ l \notin dev /\ lock = NoLauncher
  /\ lock' = l
  /\ IF InProgress \/ RecoveryConflicts
     THEN Goto(l, "fail") /\ UNCHANGED <<intent, owner>>
     ELSE Goto(l, "stop") /\ intent' = NoIntent /\ owner' = Materialized
  /\ UNCHANGED <<tmux, watcher, pidFile, dev, made, mishaps, stale, strays>>

-----------------------------------------------------------------------------
(* The old watcher and its pane.                                           *)

StopExisting(l) ==
  /\ pc[l] = "stop" /\ Goto(l, "close")
  /\ watcher' = Killed({pidFile} \cap Alive)
  /\ pidFile' = NoPid
  /\ UNCHANGED <<tmux, intent, owner, lock, dev, made, mishaps, stale, strays>>

At(o) == {p \in panes : p.id = o.pane}

\* Slip: whatever has the pane's number is taken for it.
RecognizedById(o) == TRUE

\* The pane that has this number now is the one that was made, with its marks.
Recognized(o) ==
  /\ o.tokenMarked
  /\ \A p \in At(o) :
       /\ p.server = o.server
       /\ p.token = o.token /\ p.agent = o.agentMarked

\* _verified_close_dev_pane; tmux may fail.
Closes(o) ==
  /\ At(o) # {} => Recognized(o)
  /\ panes' = panes \ At(o)
  /\ watcher' = Killed({p.pid : p \in At(o)} \cap Alive)
CloseFails(o) == At(o) # {} /\ ((NoMishap /\ ~Recognized(o)) \/ Mishap)

\* Of the owned pane, before and after a launch's own work.
CloseOwned(l) ==
  /\ pc[l] \in {"close", "closeMarked", "closeSelected"}
  /\ \/ /\ NoMishap /\ owner' = NoOwner
        /\ IF owner = NoOwner THEN UNCHANGED <<panes, watcher>> ELSE Closes(owner)
        /\ Goto(l, IF pc[l] = "closeMarked" THEN "forget"
                   ELSE IF pc[l] = "closeSelected" THEN "fail"
                   ELSE IF l \in dev THEN "split" ELSE "spawn")
     \/ /\ owner # NoOwner /\ CloseFails(owner)
        /\ Goto(l, "fail") /\ UNCHANGED <<owner, panes, watcher>>
  /\ UNCHANGED <<up, server, opened, pidFile, intent, lock, dev, made, stale, strays>>

-----------------------------------------------------------------------------
(* The new watcher, in the background.                                     *)

Spawn(l) ==
  /\ \/ pc[l] = "spawn" /\ Goto(l, "register")
     \/ pc[l] = "spawnStart" /\ Goto(l, "registerStart")
  /\ Launches(l, NoLauncher)
  /\ made' = [made EXCEPT ![l] = [pid |-> NewPid]]
  /\ UNCHANGED <<tmux, files, lock, dev, mishaps, strays>>

\* Whoever lives beside the watcher of a start is not on file any more.
WritePid(l) ==
  /\ pc[l] \in {"register", "registerStart"} /\ Goto(l, "done")
  /\ pidFile' = made[l].pid
  /\ lock' = NoLauncher
  /\ strays' = IF pc[l] = "register" THEN strays ELSE (strays \cup Alive) \ {made[l].pid}
  /\ UNCHANGED <<tmux, watcher, intent, owner, dev, made, mishaps, stale>>

-----------------------------------------------------------------------------
(* `mcodex start`.                                                         *)

\* create_session refuses a name that is taken.
StartSession(l) ==
  /\ pc[l] = "idle" /\ l \in Starter
  /\ IF up THEN Goto(l, "failed") /\ UNCHANGED up ELSE Goto(l, "launch") /\ up' = TRUE
  /\ UNCHANGED <<server, opened, panes, watcher, files, lock, dev, made, mishaps, stale, strays>>

\* get_pane_id, of the session that has the name by then.
ReadPane(l) ==
  /\ pc[l] = "launch"
  /\ Goto(l, IF up THEN "enterStart" ELSE "failed")
  /\ UNCHANGED <<tmux, watcher, files, lock, dev, made, mishaps, stale, strays>>

\* start_background_watcher
EnterStart(l) ==
  /\ pc[l] = "enterStart" /\ lock = NoLauncher
  /\ lock' = l /\ Goto(l, "spawnStart")
  /\ UNCHANGED <<tmux, watcher, files, dev, made, mishaps, stale, strays>>

-----------------------------------------------------------------------------
(* The new watcher, in a pane.                                             *)

\* The pane that a watcher or a command knows may not be there.
Lost(x) == ~up \/ x \in stale

NewPane(pid, token) ==
  [id |-> opened + 1, server |-> server, pid |-> pid, token |-> NoLauncher, agent |-> FALSE]

SplitPane(l) ==
  /\ panes' = panes \cup {NewPane(NewPid, l)} /\ opened' = opened + 1
  /\ Launches(l, l)

\* It may fail with the pane made: tmux's answer is not understood.  The pane it
\* splits may be gone, or its number be that of another now.
Split(l) ==
  /\ pc[l] = "split"
  /\ \/ /\ NoMishap /\ up /\ Goto(l, "markToken")
        /\ SplitPane(l)
        /\ made' = [made EXCEPT ![l] = [token |-> l, pane |-> opened + 1, server |-> server,
                                        tokenMarked |-> FALSE, agentMarked |-> FALSE]]
     \/ /\ \/ Mishap /\ up /\ SplitPane(l)
           \/ (Mishap \/ (NoMishap /\ Lost(l))) /\ UNCHANGED <<panes, opened, watcher, stale>>
        /\ Goto(l, "fail") /\ UNCHANGED made
  /\ UNCHANGED <<up, server, files, lock, dev, strays>>

Mine(l) == {p \in At(made[l]) : p.server = made[l].server}
Marked(l, token, agent) ==
  panes' = (panes \ Mine(l)) \cup {[p EXCEPT !.token = token, !.agent = agent] : p \in Mine(l)}

\* A mark, between two looks at the pane: set and seen; not set, or not known to be.
MarkToken(l) ==
  /\ pc[l] = "markToken"
  /\ \/ /\ NoMishap /\ Mine(l) # {}
        /\ Marked(l, l, FALSE) /\ Goto(l, "markAgent")
        /\ made' = [made EXCEPT ![l].tokenMarked = TRUE]
     \/ /\ (NoMishap /\ Mine(l) = {}) \/ Mishap
        /\ UNCHANGED panes \/ Marked(l, l, FALSE)
        /\ Goto(l, "preserve") /\ UNCHANGED made
  /\ UNCHANGED <<up, server, opened, watcher, files, lock, dev, stale, strays>>

\* Or it is set and known to be, and the third look finds another pane.
MarkAgent(l) ==
  /\ pc[l] = "markAgent"
  /\ \/ /\ NoMishap /\ Mine(l) # {}
        /\ Marked(l, l, TRUE) /\ Goto(l, "own")
        /\ made' = [made EXCEPT ![l].agentMarked = TRUE]
     \/ /\ (NoMishap /\ Mine(l) = {}) \/ Mishap
        /\ \/ UNCHANGED <<panes, made>>
           \/ Marked(l, l, TRUE) /\ UNCHANGED made
           \/ Marked(l, l, TRUE) /\ made' = [made EXCEPT ![l].agentMarked = TRUE]
        /\ Goto(l, "preserve")
  /\ UNCHANGED <<up, server, opened, watcher, files, lock, dev, stale, strays>>

\* A write that fails has the new pane closed, or else put down for recovery.
Own(l) ==
  /\ pc[l] = "own"
  /\ \/ /\ NoMishap /\ Goto(l, "select")
        /\ owner' = made[l] /\ UNCHANGED <<panes, watcher>>
     \/ /\ Mishap /\ UNCHANGED owner
        /\ \/ Closes(made[l]) /\ Goto(l, "fail")
           \/ /\ At(made[l]) # {} /\ Goto(l, "preserveOnly")
              /\ UNCHANGED <<panes, watcher>>
  /\ UNCHANGED <<up, server, opened, pidFile, intent, lock, dev, made, stale, strays>>

Select(l) ==
  /\ pc[l] = "select"
  /\ \/ NoMishap /\ up /\ lock' = NoLauncher /\ Goto(l, "done")
     \/ /\ (NoMishap /\ Lost(l)) \/ Mishap
        /\ UNCHANGED lock /\ Goto(l, "closeSelected")
  /\ UNCHANGED <<tmux, watcher, files, dev, made, stale, strays>>

\* _preserve_dev_pane_recovery_locked: first the intent, then the owner.
PreserveIntent(l) ==
  /\ pc[l] \in {"preserve", "preserveOnly"}
  /\ intent' = [intent EXCEPT !.recovery = made[l]]
  /\ Goto(l, IF pc[l] = "preserve" THEN "preserveOwner" ELSE "preserveOwnerOnly")
  /\ UNCHANGED <<tmux, watcher, pidFile, owner, lock, dev, made, mishaps, stale, strays>>

PreserveOwner(l) ==
  /\ pc[l] \in {"preserveOwner", "preserveOwnerOnly"}
  /\ \/ /\ NoMishap /\ owner' = made[l]
        /\ Goto(l, IF pc[l] = "preserveOwner" THEN "closeMarked" ELSE "fail")
     \/ Mishap /\ Goto(l, "fail") /\ UNCHANGED owner
  /\ UNCHANGED <<tmux, watcher, pidFile, intent, lock, dev, made, stale, strays>>

\* _clear_dev_pane_recovery_locked
ForgetRecovery(l) ==
  /\ pc[l] = "forget" /\ Goto(l, "fail")
  /\ intent' = [intent EXCEPT !.recovery = NoOwner]
  /\ UNCHANGED <<tmux, watcher, pidFile, owner, lock, dev, made, mishaps, stale, strays>>

Fail(l) ==
  /\ pc[l] = "fail" /\ lock' = NoLauncher
  /\ Goto(l, IF l \in dev THEN "clear" ELSE "failed")
  /\ UNCHANGED <<tmux, watcher, files, dev, made, mishaps, stale, strays>>

\* Under the lock again; an intent with a recovery is kept.
ClearIntent(l) ==
  /\ pc[l] = "clear" /\ lock = NoLauncher /\ Goto(l, "failed")
  /\ intent' = IF intent.token = l /\ ~HasRecovery THEN NoIntent ELSE intent
  /\ UNCHANGED <<tmux, watcher, pidFile, owner, lock, dev, made, mishaps, stale, strays>>

-----------------------------------------------------------------------------
(* The watcher processes.                                                  *)

\* Slip: a watcher's token is not compared.
AcceptedAnyToken(w) == TRUE

\* A token must be that of the intent, and not have been used.
Accepted(w) ==
  \/ watcher[w].token = NoLauncher
  \/ watcher[w].token = intent.token /\ intent.pid \in {NoPid, w}

\* Slip: the intent stays pending.
RegisterPending(w) ==
  /\ watcher[w].phase = "starting" /\ lock = NoLauncher
  /\ IF Accepted(w)
     THEN /\ watcher' = [watcher EXCEPT ![w].phase = "running"]
          /\ pidFile' = w
          /\ intent' = IF watcher[w].token # NoLauncher THEN [intent EXCEPT !.pid = w] ELSE intent
          /\ strays' = IF w \in strays THEN (strays \cup Alive) \ {w} ELSE strays
     ELSE watcher' = Killed({w}) /\ UNCHANGED <<pidFile, intent, strays>>
  /\ UNCHANGED <<tmux, owner, lock, commands, mishaps, stale>>

\* record_watcher_pid: a watcher that is not accepted never enters its loop.  One
\* that was not on file takes the place of the one that is.
Register(w) ==
  /\ watcher[w].phase = "starting" /\ lock = NoLauncher
  /\ IF Accepted(w)
     THEN /\ watcher' = [watcher EXCEPT ![w].phase = "running"]
          /\ pidFile' = w
          /\ intent' = IF watcher[w].token # NoLauncher /\ HasIntent
                       THEN [intent EXCEPT !.pid = w, !.state = "completed"] ELSE intent
          /\ strays' = IF w \in strays THEN (strays \cup Alive) \ {w} ELSE strays
     ELSE watcher' = Killed({w}) /\ UNCHANGED <<pidFile, intent, strays>>
  /\ UNCHANGED <<tmux, owner, lock, commands, mishaps, stale>>

Dies(w) ==
  /\ w \in Alive /\ Mishap
  /\ watcher' = Killed({w})
  /\ UNCHANGED <<tmux, files, lock, commands, stale, strays>>

\* The pane is gone: the loop ends.
Leaves(w) ==
  /\ w \in Running /\ Lost(w)
  /\ watcher' = Killed({w})
  /\ UNCHANGED <<tmux, files, lock, commands, mishaps, stale, strays>>

-----------------------------------------------------------------------------
(* tmux and its users; commands that are killed.                           *)

\* The pane of a process that has ended.
PaneCloses ==
  \E p \in panes :
    /\ p.pid # Users /\ p.pid \notin Alive
    /\ panes' = panes \ {p}
    /\ UNCHANGED <<up, server, opened, watcher, files, lock, commands, mishaps, stale, strays>>

UserSplits ==
  /\ up /\ Cardinality({p \in panes : p.pid = Users}) < MaxUserPanes
  /\ panes' = panes \cup {NewPane(Users, NoLauncher)} /\ opened' = opened + 1
  /\ UNCHANGED <<up, server, watcher, files, lock, commands, mishaps, stale, strays>>

\* The session, with all its panes and the processes in them; or the server.
SessionEnds ==
  /\ up /\ up' = FALSE /\ Mishap
  /\ panes' = {} /\ watcher' = Killed({p.pid : p \in panes} \cap Alive)
  /\ \/ UNCHANGED <<server, opened>>
     \/ server < MaxServers /\ server' = server + 1 /\ opened' = 0
  /\ stale' = stale \cup Alive \cup
                {l \in Launcher : pc[l] \notin {"idle", "launch", "done", "failed"}}
  /\ UNCHANGED <<files, lock, commands, strays>>

\* The lock is one of the operating system: it ends with its holder.
Die(l) ==
  /\ pc[l] \notin {"idle", "done", "failed"} /\ Mishap
  /\ Goto(l, "failed")
  /\ lock' = IF lock = l THEN NoLauncher ELSE lock
  /\ strays' = IF pc[l] \in {"register", "registerStart"} THEN strays \cup {made[l].pid}
               ELSE strays
  /\ UNCHANGED <<tmux, watcher, files, dev, made, stale>>

LauncherStep(l) ==
  \/ EnterDev(l) \/ Enter(l) \/ StopExisting(l) \/ CloseOwned(l)
  \/ Spawn(l) \/ WritePid(l) \/ ReadPane(l) \/ EnterStart(l)
  \/ Split(l) \/ MarkToken(l) \/ MarkAgent(l) \/ Own(l) \/ Select(l)
  \/ PreserveIntent(l) \/ PreserveOwner(l) \/ ForgetRecovery(l)
  \/ Fail(l) \/ ClearIntent(l)

Next ==
  \/ \E l \in Launcher : 
       StartSession(l) \/ CreateIntent(l) \/ Begin(l) \/ LauncherStep(l) \/ Die(l)
  \/ \E w \in Pid : Register(w) \/ Dies(w) \/ Leaves(w)
  \/ IntentAges \/ PaneCloses \/ UserSplits \/ SessionEnds

Spec == Init /\ [][Next]_vars

\* Commands and watchers get on.  As each takes the lock twice at most, weak
\* fairness is enough for those that wait for it.
Fairness ==
  /\ \A l \in Launcher : WF_vars(LauncherStep(l))
  /\ \A w \in Pid : WF_vars(Register(w))

FairSpec == Spec /\ Fairness

-----------------------------------------------------------------------------
(* Properties.                                                             *)

\* The type invariant; the lock's holder is in the middle of its work.
TypeOK ==
  /\ up \in BOOLEAN /\ server \in 1..MaxServers /\ opened \in Nat
  /\ \A p \in panes : p.id \in 1..opened /\ p.server = server /\ p.pid \in Pid \cup {Users}
  /\ \A w \in Pid : watcher[w].phase \in {"none", "starting", "running", "dead"}
  /\ pidFile \in Pid \cup {NoPid}
  /\ HasIntent => (intent.state = "completed" <=> intent.pid # NoPid)
  /\ owner \in Owner \cup {NoOwner} /\ intent.recovery \in Owner \cup {NoOwner}
  /\ \A l \in Launcher : lock = l => 
       pc[l] \notin {"idle", "enter", "clear", "launch", "enterStart", "done", "failed"}
  /\ mishaps \in 0..MaxMishaps /\ stale \subseteq Pid \cup Launcher /\ strays \subseteq Pid

(* However commands overlap and fail, at most one watcher is in its loop   *)
(* and watcher.pid names it whenever nobody holds the lock, but for strays:*)
(* those that lived when a start put its own watcher there, or when a      *)
(* stray put itself there, and those whose launch was killed right after   *)
(* its Popen.  Everybody else is stopped before a successor runs.          *)
OneWatcher ==
  /\ Cardinality(Running \ strays) <= 1
  /\ lock = NoLauncher => Running \ strays \subseteq {pidFile}

(* A pane that is written down as the watcher's is not forgotten while it  *)
(* exists: what could not be closed stays on file for the next command.    *)
OnFile(p) == \E o \in {owner, intent.recovery} \ {NoOwner} : o.pane = p.id /\ o.server = p.server
PanesStayOnFile ==
  [][\A p \in panes : OnFile(p) /\ (\E q \in panes' : q.id = p.id) => OnFile(p)']_vars

(* No command closes a pane of the user's, even one that has the number of *)
(* a pane that was once the watcher's.                                     *)
UsersPanesStay ==
  [][\A p \in panes : p.pid = Users /\ up' => p \in panes']_vars

(* Refused, superseded or successful: when nothing else goes wrong,        *)
(* commands that overlap leave the agent with a watcher.                   *)
WatcherStays == [](mishaps = 0) => []<>(Running # {})
=============================================================================
