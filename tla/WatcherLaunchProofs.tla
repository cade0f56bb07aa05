-------------------------- MODULE WatcherLaunchProofs --------------------------
(***************************************************************************)
(* Proofs about WatcherLaunch, for any number of starts and restart-watch  *)
(* commands, user panes, tmux servers and mishaps: types, one watcher at a *)
(* time, and that panes are neither forgotten nor taken from their users.  *)
(***************************************************************************)
EXTENDS WatcherLaunch, FiniteSetTheorems, TLAPS

USE WatcherLaunchAssumption

-----------------------------------------------------------------------------
(* The inductive invariant.                                                *)

\* Where a command may be: without the lock and with it, before its launch, while
\* it has a pane to look after, and while none is written down.
Resting == {"idle", "enter", "clear", "launch", "enterStart", "done", "failed"}
Owning ==
  {"markToken", "markAgent", "own", "select", "preserve", "preserveOnly", "preserveOwner",
   "preserveOwnerOnly", "closeMarked", "forget"}
Working == {"stop", "close", "spawn", "register", "split", "closeSelected"} \cup Owning
Stage == Resting \cup Working \cup {"spawnStart", "registerStart", "fail"}
Before ==
  {"idle", "enter", "stop", "close", "spawn", "split", "launch", "enterStart", "spawnStart"}
Unowned == {"spawn", "register", "split"} \cup (Owning \ {"select", "closeMarked", "forget"})
Recovering == {"preserveOwner", "preserveOwnerOnly", "closeMarked", "forget"}

\* The lock is held by the one command that is at work.
LockFine ==
  /\ lock \in Launcher \cup {NoLauncher}
  /\ pc \in [Launcher -> Stage] /\ dev \subseteq Launcher
  /\ \A l \in Launcher : (lock = l <=> pc[l] \notin Resting) /\ (pc[l] = "idle" => l \notin dev)

\* Marks show what a pane is: a user's has none.
Pane ==
  [id : Nat \ {0}, server : 1..MaxServers, pid : Pid \cup {Users},
   token : Launcher \cup {NoLauncher}, agent : BOOLEAN]
PanesFine ==
  /\ server \in 1..MaxServers /\ opened \in Nat /\ up \in BOOLEAN
  /\ \A p \in panes : /\ p \in Pane /\ p.id <= opened /\ p.server = server
                      /\ p.pid = Users => p.token = NoLauncher

Intent ==
  [token : Launcher, fresh : BOOLEAN, state : {"pending", "completed"},
   pid : Pid \cup {NoPid}, recovery : Owner \cup {NoOwner}]
FilesTyped ==
  /\ pidFile \in Pid \cup {NoPid} /\ owner \in Owner \cup {NoOwner}
  /\ intent \in Intent \cup {NoIntent}
  /\ made \in [Launcher -> Owner \cup {NoOwner} \cup [pid : Pid]]

\* An intent is completed by a watcher that has got past its registration.
IntentFine ==
  HasIntent => /\ intent.state = "completed" <=> intent.pid # NoPid
               /\ intent.pid # NoPid => watcher[intent.pid].phase \in {"running", "dead"}

\* Only the command that made the intent puts down a recovery in it.
RecoveryFine ==
  HasRecovery => /\ HasIntent
                 /\ pc[intent.token] \in Recovering \cup {"fail", "clear", "failed"}

\* A pane's number is not given again by the same server.
Made(l) ==
  /\ made[l] \in Owner /\ made[l].token = l /\ made[l].server <= server
  /\ made[l].server = server =>
       /\ made[l].pane <= opened
       /\ \A p \in panes : p.id = made[l].pane => p.pid # Users
  /\ pc[l] = "forget" => \A p \in panes : p.server = made[l].server => p.id # made[l].pane

\* What the command that holds the lock can rely on.
Holder(l) ==
  /\ pc[l] \in {"spawn", "register"} => l \notin dev
  /\ pc[l] \in {"split", "closeSelected"} \cup Owning => l \in dev
  /\ pc[l] \in Working /\ l \in dev => intent.token = l
  /\ pc[l] \in Working /\ l \notin dev => intent = NoIntent
  /\ pc[l] \in Working \ {"stop"} => pidFile = NoPid
  /\ pc[l] \in Unowned => owner = NoOwner
  /\ pc[l] \in Recovering => intent.recovery = made[l]
  /\ pc[l] = "closeMarked" => owner = made[l]
  /\ pc[l] \in Owning => Made(l)
  /\ pc[l] \in {"register", "registerStart"} => made[l] \in [pid : Pid]
  /\ pc[l] = "registerStart" => watcher[made[l].pid].phase \in {"starting", "dead"}
HolderFine == \A l \in Launcher : lock = l => Holder(l)

\* There is a process id for every launch, and a command launches once.
Used == {w \in Pid : watcher[w].phase # "none"}
Past == {l \in Launcher : pc[l] \notin Before}
Watchers ==
  [Pid -> [phase : {"none", "starting", "running", "dead"}, token : Launcher \cup {NoLauncher}]]
WatcherFine ==
  /\ watcher \in Watchers
  /\ \A w \in Pid : watcher[w].token # NoLauncher => pc[watcher[w].token] \notin Before
  /\ Cardinality(Used) <= Cardinality(Past) + 1

\* Watchers that run, and those that will once they get the lock.
Fresh == {w \in Pid : watcher[w].phase = "starting" /\ watcher[w].token = NoLauncher}
Awaited == {w \in Pid : /\ watcher[w].phase = "starting" /\ watcher[w].token # NoLauncher
                        /\ watcher[w].token = intent.token /\ intent.pid = NoPid}
Written(w) ==
  w = pidFile \/ \E l \in Launcher : lock = l /\ pc[l] = "register" /\ w = made[l].pid

\* Strays do not count, nor does a start's watcher before it is on file.
Launching(w) == \E l \in Launcher : lock = l /\ pc[l] = "registerStart" /\ w = made[l].pid
Counts(w) == w \notin strays /\ ~Launching(w)
OneFine ==
  /\ \A w \in Running \cup Fresh : Counts(w) => Written(w)
  /\ \A v, w \in Running \cup Fresh \cup Awaited : Counts(v) /\ Counts(w) => v = w

RestTyped ==
  mishaps \in 0..MaxMishaps /\ stale \subseteq Pid \cup Launcher /\ strays \subseteq Pid

IInv ==
  /\ LockFine /\ PanesFine /\ FilesTyped /\ IntentFine /\ RecoveryFine /\ HolderFine /\ WatcherFine
  /\ RestTyped /\ OneFine

-----------------------------------------------------------------------------
(* What steps do to the parts of the invariant.                            *)

\* One command moves on.
LEMMA Moved ==
  ASSUME LockFine, NEW l \in Launcher, NEW next \in Stage, Goto(l, next)
  PROVE  /\ pc' \in [Launcher -> Stage] /\ pc'[l] = next
         /\ \A k \in Launcher : k # l => pc'[k] = pc[k]
BY DEF LockFine, Goto

\* The lock is kept, taken or given up.
LEMMA LockMove ==
  ASSUME LockFine, NEW l \in Launcher, NEW next \in Stage, Goto(l, next),
         UNCHANGED dev, next # "idle",
         \/ UNCHANGED lock /\ (pc[l] \in Resting <=> next \in Resting)
         \/ lock = NoLauncher /\ lock' = l /\ next \notin Resting
         \/ lock' = NoLauncher /\ lock = l /\ next \in Resting
  PROVE  LockFine'
BY Moved DEF LockFine

\* A holder of the lock rests from it, or another has it and rests from nothing.
LEMMA Freed ==
  ASSUME LockFine', lock' = NoLauncher
  PROVE  HolderFine'
BY DEF LockFine, HolderFine

LEMMA HolderMove ==
  ASSUME LockFine', NEW l \in Launcher, lock' = l, Holder(l)'
  PROVE  HolderFine'
BY DEF LockFine, HolderFine

\* No command comes back to before its launch.
Onward == \A l \in Launcher : pc[l] \notin Before => pc'[l] \notin Before

\* Watchers die, and nothing else happens to them.
Fewer ==
  /\ watcher' \in Watchers
  /\ \A w \in Pid :
       \/ watcher'[w] = watcher[w]
       \/ /\ watcher[w].phase \in {"starting", "running"}
          /\ watcher'[w].phase = "dead" /\ watcher'[w].token = watcher[w].token

LEMMA KilledFewer ==
  ASSUME watcher \in Watchers, NEW S \in SUBSET Alive, watcher' = Killed(S)
  PROVE  Fewer /\ \A w \in S : watcher'[w].phase = "dead"
<1>1. \A w \in Pid : watcher[w] \in [phase : {"none", "starting", "running", "dead"},
                                     token : Launcher \cup {NoLauncher}]
  BY DEF Watchers
<1>2. ASSUME NEW w \in Pid
      PROVE  /\ watcher'[w] \in [phase : {"none", "starting", "running", "dead"},
                                 token : Launcher \cup {NoLauncher}]
             /\ w \notin S => watcher'[w] = watcher[w]
             /\ w \in S => watcher'[w].phase = "dead" /\ watcher'[w].token = watcher[w].token
                           /\ watcher[w].phase \in {"starting", "running"}
  BY <1>1 DEF Killed, Alive
<1>3. watcher' = [w \in Pid |-> watcher'[w]]
  BY DEF Killed
<1>4. watcher' \in Watchers
  BY <1>2, <1>3 DEF Watchers
<1>5. S \subseteq Pid
  BY DEF Alive
<1> QED BY <1>2, <1>4, <1>5 DEF Fewer

LEMMA SameFewer ==
  ASSUME watcher \in Watchers, UNCHANGED watcher
  PROVE  Fewer
BY DEF Fewer

LEMMA CountTypes ==
  ASSUME TRUE
  PROVE  /\ IsFiniteSet(Pid) /\ Cardinality(Pid) = 1 + Cardinality(Launcher)
         /\ Cardinality(Launcher) \in Nat
         /\ IsFiniteSet(Past) /\ Cardinality(Past) \in Nat /\ Cardinality(Past) <= Cardinality(Launcher)
         /\ IsFiniteSet(Used) /\ Cardinality(Used) \in Nat
<1>1. Cardinality(Launcher) \in Nat
  BY FS_CardinalityType
<1>2. 1 + Cardinality(Launcher) \in Nat
  BY <1>1
<1>3. IsFiniteSet(Pid) /\ Cardinality(Pid) = 1 + Cardinality(Launcher)
  BY <1>1, <1>2, FS_Interval DEF Pid
<1>4. Past \in SUBSET Launcher /\ Used \in SUBSET Pid
  BY DEF Past, Used
<1> QED BY <1>1, <1>3, <1>4, FS_Subset, FS_CardinalityType

\* Neither deaths nor commands that move on need a process id.
LEMMA WatcherMove ==
  ASSUME WatcherFine, Fewer, Onward
  PROVE  WatcherFine'
<1>1. Used' = Used
  BY DEF Fewer, Used
<1>2. Past \subseteq Past' /\ IsFiniteSet(Past') /\ Cardinality(Past') \in Nat
  <2>1. Past' \in SUBSET Launcher
    BY DEF Past
  <2>2. Past \subseteq Past'
    BY DEF Onward, Past
  <2> QED BY <2>1, <2>2, FS_Subset, FS_CardinalityType
<1>3. Cardinality(Past) <= Cardinality(Past')
  BY <1>2, FS_Subset
<1>4. Cardinality(Past) \in Nat /\ Cardinality(Used) \in Nat
  BY CountTypes
<1>5. Cardinality(Used') <= Cardinality(Past') + 1
  BY <1>1, <1>2, <1>3, <1>4 DEF WatcherFine
<1>6. \A w \in Pid : watcher'[w].token # NoLauncher => pc'[watcher'[w].token] \notin Before
  BY DEF WatcherFine, Fewer, Onward, Watchers
<1> QED BY <1>5, <1>6 DEF WatcherFine, Fewer

\* Process ids do not run out.
LEMMA NewPidFree ==
  ASSUME IInv, NEW l \in Launcher, pc[l] \in {"spawn", "split", "spawnStart"}
  PROVE  NewPid \in Pid /\ watcher[NewPid].phase = "none"
<1>1. WatcherFine
  BY DEF IInv
<1>2. Past \in SUBSET (Launcher \ {l})
  BY DEF Past, Before
<1>3. IsFiniteSet(Launcher \ {l}) /\ Cardinality(Launcher \ {l}) = Cardinality(Launcher) - 1
  BY FS_RemoveElement
<1>4. Cardinality(Past) <= Cardinality(Launcher) - 1
  BY <1>2, <1>3, FS_Subset
<1>5. Cardinality(Used) # Cardinality(Pid)
  BY <1>1, <1>4, CountTypes DEF WatcherFine
<1>6. \E w \in Pid : watcher[w].phase = "none"
  BY <1>5 DEF Used
<1> QED BY <1>6 DEF NewPid

\* A launch, the command's only one.
LEMMA LaunchMove ==
  ASSUME WatcherFine, NEW w \in Pid, watcher[w].phase = "none",
         NEW token \in Launcher \cup {NoLauncher},
         watcher' = [watcher EXCEPT ![w] = [phase |-> "starting", token |-> token]],
         Onward, token # NoLauncher => pc'[token] \notin Before,
         NEW l \in Launcher, pc[l] \in Before, pc'[l] \notin Before
  PROVE  WatcherFine'
<1>1. /\ watcher' \in Watchers
      /\ watcher'[w].phase = "starting" /\ watcher'[w].token = token
      /\ \A v \in Pid : v # w => watcher'[v] = watcher[v]
  BY DEF WatcherFine, Watchers
<1>2. Used' = Used \cup {w} /\ w \notin Used
  BY <1>1 DEF Used
<1>3. Cardinality(Used') = Cardinality(Used) + 1
  BY <1>2, CountTypes, FS_AddElement
<1>4. IsFiniteSet(Past') /\ Cardinality(Past') \in Nat /\ Past \subseteq Past'
  <2>1. Past' \in SUBSET Launcher
    BY DEF Past
  <2>2. Past \subseteq Past'
    BY DEF Onward, Past
  <2> QED BY <2>1, <2>2, FS_Subset, FS_CardinalityType
<1>5. Cardinality(Past) \in Nat /\ Cardinality(Used) \in Nat /\ IsFiniteSet(Past)
  BY CountTypes
<1>6. Cardinality(Used') <= Cardinality(Past') + 1
  <2>1. Past \cup {l} \in SUBSET Past' /\ l \notin Past
    BY <1>4 DEF Past
  <2>2. Cardinality(Past \cup {l}) = Cardinality(Past) + 1
    BY <1>5, <2>1, FS_AddElement
  <2>3. Cardinality(Past) + 1 <= Cardinality(Past')
    BY <1>4, <2>1, <2>2, FS_Subset
  <2> QED BY <1>3, <1>4, <1>5, <2>3 DEF WatcherFine
<1>7. ASSUME NEW v \in Pid, watcher'[v].token # NoLauncher
      PROVE  pc'[watcher'[v].token] \notin Before
  <2>1. CASE v = w
    BY <1>1, <1>7, <2>1
  <2>2. CASE v # w
    BY <1>1, <1>7, <2>2 DEF WatcherFine, Watchers, Onward
  <2> QED BY <2>1, <2>2
<1> QED BY <1>1, <1>6, <1>7 DEF WatcherFine

\* An intent's token and process stay, or there is none, or its token is new.
NoNewAwaited ==
  \/ intent'.token = intent.token /\ (intent'.token # NoLauncher => intent'.pid = intent.pid)
  \/ intent' = NoIntent
  \/ \A w \in Pid : watcher[w].token # intent'.token

LEMMA OneStays ==
  ASSUME OneFine, Fewer, NoNewAwaited, strays \subseteq strays',
         \A w \in Pid \ strays' : /\ Written(w) => Written(w)'
                                  /\ Launching(w) => Launching(w)'
  PROVE  OneFine'
<1>1. Running' \subseteq Running /\ Fresh' \subseteq Fresh
  BY DEF Fewer, Running, Fresh
<1>2. Awaited' \subseteq Awaited
  BY DEF Fewer, Awaited, NoNewAwaited, NoIntent
<1>3. \A w \in Pid : Counts(w)' => Counts(w) /\ w \in Pid \ strays'
  BY DEF Counts
<1>4. Running \subseteq Pid /\ Fresh \subseteq Pid /\ Awaited \subseteq Pid
  BY DEF Running, Fresh, Awaited
<1> QED BY <1>1, <1>2, <1>3, <1>4 DEF OneFine

\* As long as the one that has the lock is not at a launch.
LEMMA SameWritten ==
  ASSUME LockFine, UNCHANGED <<pidFile, strays>>,
         \A k \in Launcher : lock = k /\ pc[k] \in {"register", "registerStart"} =>
           lock' = k /\ pc'[k] = pc[k] /\ made'[k] = made[k]
  PROVE  /\ strays \subseteq strays'
         /\ \A w \in Pid \ strays' : /\ Written(w) => Written(w)'
                                     /\ Launching(w) => Launching(w)'
BY DEF Written, Launching

\* A registered watcher's process stays registered.
LEMMA IntentKept ==
  ASSUME IntentFine, FilesTyped,
         \A w \in Pid : watcher[w].phase \in {"running", "dead"} =>
                        watcher'[w].phase \in {"running", "dead"},
         intent'.token = intent.token,
         HasIntent => intent'.pid = intent.pid /\ intent'.state = intent.state
  PROVE  IntentFine'
BY DEF IntentFine, FilesTyped, HasIntent, Intent, NoIntent

\* Once it is put down, a recovery is in the intent of a command that goes on to fail.
Departing == Recovering \cup {"fail", "clear", "failed"}
LEMMA RecoveryStays ==
  ASSUME RecoveryFine, FilesTyped, intent'.token = intent.token, intent'.recovery = intent.recovery,
         \A l \in Launcher : pc[l] \in Departing => pc'[l] \in Departing
  PROVE  RecoveryFine'
BY DEF RecoveryFine, FilesTyped, HasRecovery, HasIntent, Departing, Intent, NoIntent

LEMMA FilesStay ==
  ASSUME FilesTyped, UNCHANGED files, made' \in [Launcher -> Owner \cup {NoOwner} \cup [pid : Pid]]
  PROVE  FilesTyped'
BY DEF FilesTyped, files

-----------------------------------------------------------------------------
(* Steps of commands that have no lock.                                    *)

LEMMA MishapCount ==
  ASSUME IInv, Mishap \/ NoMishap
  PROVE  mishaps' \in 0..MaxMishaps /\ mishaps \in Nat /\ mishaps' \in Nat /\ mishaps <= mishaps'
BY DEF IInv, RestTyped, Mishap, NoMishap

LEMMA SamePanes ==
  ASSUME PanesFine, UNCHANGED tmux
  PROVE  PanesFine'
BY DEF PanesFine, tmux

LEMMA CreateIntentKeeps ==
  ASSUME IInv, NEW l \in Launcher, CreateIntent(l)
  PROVE  IInv'
<1>1. /\ pc[l] = "idle" /\ lock = NoLauncher /\ dev' = dev \cup {l}
      /\ UNCHANGED <<tmux, watcher, pidFile, lock, made, mishaps, stale, strays>>
  BY DEF CreateIntent
<1>2. PICK next \in {"failed", "enter", "clear"} : Goto(l, next)
  BY DEF CreateIntent
<1>3. LockFine /\ PanesFine /\ FilesTyped /\ IntentFine /\ RecoveryFine /\ WatcherFine
  BY DEF IInv
<1>4. /\ pc' \in [Launcher -> Stage] /\ pc'[l] = next
      /\ \A k \in Launcher : k # l => pc'[k] = pc[k]
  BY <1>2, <1>3, Moved DEF Stage, Resting
<1>5. LockFine' /\ HolderFine'
  <2>1. LockFine'
    BY <1>1, <1>2, <1>3, <1>4 DEF LockFine, Resting
  <2> QED BY <1>1, <2>1, Freed
<1>6. PanesFine'
  BY <1>1, <1>3, SamePanes
<1>7. \A w \in Pid : watcher[w].token # l
  BY <1>1, <1>3 DEF WatcherFine, Before
<1>8. Fewer /\ Onward
  BY <1>1, <1>3, <1>4, SameFewer DEF WatcherFine, Onward, Before
<1>9. WatcherFine' /\ RestTyped'
  BY <1>1, <1>3, <1>8, WatcherMove DEF IInv, RestTyped
<1>10. CASE UNCHANGED intent /\ owner' \in {owner, Materialized}
  <2>1. FilesTyped'
    BY <1>1, <1>3, <1>10 DEF FilesTyped, Materialized, HasRecovery, Intent, NoIntent
  <2>2. IntentFine'
    BY <1>1, <1>3, <1>10, IntentKept
  <2>3. RecoveryFine'
    <3>1. \A k \in Launcher : pc[k] \in Departing => pc'[k] \in Departing
      BY <1>1, <1>4 DEF Departing, Recovering
    <3> QED BY <1>3, <1>10, <3>1, RecoveryStays
  <2>4. OneFine'
    <3>1. OneFine /\ NoNewAwaited
      BY <1>10 DEF IInv, NoNewAwaited
    <3> QED BY <1>1, <1>3, <1>8, <3>1, OneStays, SameWritten
  <2> QED BY <1>5, <1>6, <1>9, <2>1, <2>2, <2>3, <2>4 DEF IInv
<1>11. CASE /\ owner' = Materialized
            /\ intent' = [token |-> l, fresh |-> TRUE, state |-> "pending",
                          pid |-> NoPid, recovery |-> NoOwner]
  <2>1. FilesTyped'
    BY <1>1, <1>3, <1>11 DEF FilesTyped, Materialized, HasRecovery, Intent, NoIntent
  <2>2. IntentFine' /\ RecoveryFine'
    BY <1>11 DEF IntentFine, RecoveryFine, HasRecovery, HasIntent
  <2>3. NoNewAwaited
    BY <1>7, <1>11 DEF NoNewAwaited
  <2>4. OneFine'
    <3>1. OneFine
      BY DEF IInv
    <3> QED BY <1>1, <1>3, <1>8, <2>3, <3>1, OneStays, SameWritten
  <2> QED BY <1>5, <1>6, <1>9, <2>1, <2>2, <2>4 DEF IInv
<1> QED BY <1>10, <1>11 DEF CreateIntent

\* A command moves on and launches no watcher.
LEMMA CommandStep ==
  ASSUME IInv, NEW l \in Launcher, NEW next \in Stage, Goto(l, next),
         pc[l] \notin Before => next \notin Before,
         LockFine', HolderFine', PanesFine', FilesTyped', IntentFine', RecoveryFine',
         Fewer, UNCHANGED <<pidFile, stale>>, NoNewAwaited, Mishap \/ NoMishap,
         \A k \in Launcher : k # l => made'[k] = made[k],
         pc[l] \notin {"register", "registerStart"} => UNCHANGED strays,
         pc[l] \in {"register", "registerStart"} => strays' = strays \cup {made[l].pid},
         lock # NoLauncher => UNCHANGED lock \/ lock = l
  PROVE  IInv'
<1>1. LockFine /\ WatcherFine /\ OneFine /\ RestTyped /\ HolderFine
  BY DEF IInv
<1>2. /\ pc'[l] = next
      /\ \A k \in Launcher : k # l => pc'[k] = pc[k]
  BY <1>1, Moved
<1>3. Onward
  BY <1>2 DEF Onward
<1>4. mishaps' \in 0..MaxMishaps
  BY MishapCount
<1>5. WatcherFine'
  BY <1>1, <1>3, WatcherMove
<1>6. OneFine' /\ strays' \subseteq Pid
  <2>1. CASE pc[l] \notin {"register", "registerStart"}
    <3>1. ASSUME NEW k \in Launcher, lock = k, pc[k] \in {"register", "registerStart"}
          PROVE  lock' = k /\ pc'[k] = pc[k] /\ made'[k] = made[k]
      <4>1. k # l
        BY <2>1, <3>1
      <4> QED BY <1>1, <1>2, <3>1, <4>1 DEF LockFine
    <3> QED BY <1>1, <2>1, <3>1, OneStays, SameWritten DEF RestTyped
  <2>2. CASE pc[l] \in {"register", "registerStart"}
    <3>1. lock = l /\ made[l].pid \in Pid
      BY <1>1, <2>2 DEF LockFine, HolderFine, Holder, Resting
    <3>2. strays \subseteq strays' /\ strays' \subseteq Pid /\ made[l].pid \in strays'
      BY <1>1, <2>2, <3>1 DEF RestTyped
    <3>3. \A w \in Pid \ strays' : /\ Written(w) => Written(w)'
                                   /\ Launching(w) => Launching(w)'
      BY <3>1, <3>2 DEF Written, Launching
    <3> QED BY <1>1, <3>2, <3>3, OneStays
  <2> QED BY <2>1, <2>2
<1> QED BY <1>1, <1>4, <1>5, <1>6 DEF IInv, RestTyped

LEMMA DepartingMove ==
  ASSUME IInv, NEW l \in Launcher, NEW next \in Stage, Goto(l, next),
         pc[l] \in Departing => next \in Departing,
         intent'.token = intent.token, intent'.recovery = intent.recovery
  PROVE  RecoveryFine'
<1>1. \A k \in Launcher : pc[k] \in Departing => pc'[k] \in Departing
  BY Moved DEF IInv
<1> QED BY <1>1, RecoveryStays DEF IInv

\* A command reads or makes a session, before its launch.
LEMMA BeginStep ==
  ASSUME IInv, NEW l \in Launcher, pc[l] \in {"idle", "launch"},
         NEW next \in {"failed", "enter", "launch", "enterStart"}, Goto(l, next), PanesFine',
         UNCHANGED <<server, opened, panes, watcher, files, lock, dev, made, mishaps, stale, strays>>
  PROVE  IInv'
<1>1. next \in Stage /\ next # "idle" /\ next \in Resting /\ pc[l] \in Resting
  BY DEF Stage, Resting
<1>2. LockFine'
  BY <1>1, LockMove DEF IInv
<1>3. HolderFine'
  <2>1. SUFFICES ASSUME NEW k \in Launcher, lock' = k PROVE Holder(k)'
    BY DEF HolderFine
  <2>2. k # l /\ pc'[k] = pc[k]
    BY <1>1, <1>2, <2>1, Moved DEF LockFine, IInv
  <2>3. Holder(k)
    BY <2>1 DEF IInv, HolderFine
  <2> QED BY <2>2, <2>3 DEF Holder, Made, files
<1>4. FilesTyped' /\ IntentFine' /\ Fewer
  BY FilesStay, IntentKept, SameFewer DEF IInv, FilesTyped, WatcherFine, files
<1>5. RecoveryFine'
  BY <1>1, DepartingMove DEF files, Departing, Recovering
<1>6. pc[l] \in Before /\ pc[l] \notin {"register", "registerStart"}
  BY DEF Before
<1>7. NoNewAwaited /\ NoMishap
  BY DEF NoNewAwaited, NoMishap, files
<1> QED BY <1>1, <1>2, <1>3, <1>4, <1>5, <1>6, <1>7, CommandStep DEF files

LEMMA BeginKeeps ==
  ASSUME IInv, NEW l \in Launcher, Begin(l) \/ StartSession(l) \/ ReadPane(l)
  PROVE  IInv'
<1>1. PICK next \in {"failed", "enter", "launch", "enterStart"} : Goto(l, next)
  BY DEF Begin, StartSession, ReadPane
<1>2. PanesFine'
  <2>1. UNCHANGED <<server, opened, panes>> /\ (UNCHANGED up \/ up' = TRUE)
    BY DEF Begin, StartSession, ReadPane, tmux
  <2>2. PanesFine /\ TRUE \in BOOLEAN
    BY Zenon DEF IInv
  <2> QED BY <2>1, <2>2 DEF PanesFine
<1>3. /\ pc[l] \in {"idle", "launch"}
      /\ UNCHANGED <<server, opened, panes, watcher, files, lock, dev, made, mishaps, stale, strays>>
  BY DEF Begin, StartSession, ReadPane, tmux
<1> QED BY <1>1, <1>2, <1>3, BeginStep

LEMMA EnterStartKeeps ==
  ASSUME IInv, NEW l \in Launcher, EnterStart(l)
  PROVE  IInv'
<1>1. /\ pc[l] = "enterStart" /\ lock = NoLauncher /\ lock' = l /\ Goto(l, "spawnStart")
      /\ UNCHANGED <<tmux, watcher, files, dev, made, mishaps, stale, strays>>
  BY DEF EnterStart
<1>2. "spawnStart" \in Stage /\ "spawnStart" \notin Resting
  BY DEF Stage, Resting
<1>3. LockFine' /\ pc'[l] = "spawnStart"
  BY <1>1, <1>2, LockMove, Moved DEF IInv
<1>4. HolderFine'
  <2>1. Holder(l)'
    BY <1>3 DEF Holder, Working, Owning, Unowned, Recovering
  <2> QED BY <1>1, <1>3, <2>1, HolderMove
<1>5. PanesFine' /\ FilesTyped' /\ IntentFine' /\ Fewer
  BY <1>1, SamePanes, FilesStay, IntentKept, SameFewer DEF IInv, FilesTyped, WatcherFine, files
<1>6. RecoveryFine'
  BY <1>1, <1>2, DepartingMove DEF files, Departing, Recovering
<1> QED BY <1>1, <1>2, <1>3, <1>4, <1>5, <1>6, CommandStep DEF files, NoNewAwaited, NoMishap, Before

LEMMA EnterDevKeeps ==
  ASSUME IInv, NEW l \in Launcher, EnterDev(l)
  PROVE  IInv'
<1>1. /\ pc[l] = "enter" /\ lock = NoLauncher /\ l \in dev /\ lock' = l
      /\ UNCHANGED <<tmux, watcher, files, dev, made, mishaps, stale, strays>>
  BY DEF EnterDev
<1>2. PICK next \in {"stop", "fail"} : Goto(l, next) /\ (next = "stop" => intent.token = l)
  BY DEF EnterDev
<1>3. next \in Stage /\ next # "idle" /\ next \notin Resting
  BY DEF Stage, Resting, Working
<1>4. LockFine' /\ pc'[l] = next
  BY <1>1, <1>2, <1>3, LockMove, Moved DEF IInv
<1>5. HolderFine'
  <2>1. Holder(l)'
    BY <1>1, <1>2, <1>4 DEF Holder, files, Working, Owning, Unowned, Recovering
  <2> QED BY <1>1, <1>4, <2>1, HolderMove
<1>6. PanesFine' /\ FilesTyped' /\ IntentFine' /\ Fewer
  BY <1>1, SamePanes, FilesStay, IntentKept, SameFewer DEF IInv, FilesTyped, WatcherFine, files
<1>7. RecoveryFine'
  BY <1>1, <1>2, <1>3, DepartingMove DEF files, Departing, Recovering
<1> QED BY <1>1, <1>2, <1>3, <1>4, <1>5, <1>6, <1>7, CommandStep
        DEF tmux, files, NoNewAwaited, NoMishap, Before, IInv

LEMMA EnterKeeps ==
  ASSUME IInv, NEW l \in Launcher, Enter(l)
  PROVE  IInv'
<1>1. /\ pc[l] = "enter" /\ lock = NoLauncher /\ l \notin dev /\ lock' = l
      /\ UNCHANGED <<tmux, watcher, pidFile, dev, made, mishaps, stale, strays>>
  BY DEF Enter
<1>2. PICK next \in {"stop", "fail"} :
        /\ Goto(l, next)
        /\ next = "stop" => intent' = NoIntent /\ owner' = Materialized
        /\ next = "fail" => UNCHANGED <<intent, owner>>
  BY DEF Enter
<1>3. next \in Stage /\ next # "idle" /\ next \notin Resting
  BY DEF Stage, Resting, Working
<1>4. LockFine' /\ pc'[l] = next
  BY <1>1, <1>2, <1>3, LockMove, Moved DEF IInv
<1>5. HolderFine'
  <2>1. Holder(l)'
    BY <1>1, <1>2, <1>4 DEF Holder, Working, Owning, Unowned, Recovering
  <2> QED BY <1>1, <1>4, <2>1, HolderMove
<1>6. PanesFine' /\ Fewer
  BY <1>1, SamePanes, SameFewer DEF IInv, WatcherFine
<1>7. FilesTyped' /\ IntentFine' /\ RecoveryFine' /\ NoNewAwaited
  <2>1. CASE next = "fail"
    <3>1. UNCHANGED files
      BY <1>1, <1>2, <2>1 DEF files
    <3>2. FilesTyped' /\ IntentFine'
      BY <1>1, <3>1, FilesStay, IntentKept DEF IInv, FilesTyped, files
    <3>3. RecoveryFine'
      BY <1>1, <1>2, <1>3, <3>1, DepartingMove DEF files, Departing, Recovering
    <3> QED BY <3>1, <3>2, <3>3 DEF NoNewAwaited, files
  <2>2. CASE next = "stop"
    <3>1. FilesTyped'
      BY <1>1, <1>2, <2>2 DEF IInv, FilesTyped, Materialized, HasRecovery, Intent, NoIntent
    <3>2. IntentFine' /\ RecoveryFine' /\ NoNewAwaited
      BY <1>2, <2>2 DEF IntentFine, RecoveryFine, HasRecovery, HasIntent, NoNewAwaited, NoIntent
    <3> QED BY <3>1, <3>2
  <2> QED BY <2>1, <2>2
<1> QED BY <1>1, <1>2, <1>3, <1>4, <1>5, <1>6, <1>7, CommandStep
        DEF tmux, NoMishap, Before, IInv

LEMMA ClearIntentKeeps ==
  ASSUME IInv, NEW l \in Launcher, ClearIntent(l)
  PROVE  IInv'
<1>1. /\ pc[l] = "clear" /\ lock = NoLauncher /\ Goto(l, "failed")
      /\ UNCHANGED <<tmux, watcher, pidFile, owner, lock, dev, made, mishaps, stale, strays>>
  BY DEF ClearIntent
<1>2. "failed" \in Stage /\ "failed" \in Resting /\ pc[l] \in Resting
  BY <1>1 DEF Stage, Resting
<1>3. LockFine' /\ HolderFine'
  BY <1>1, <1>2, LockMove, Freed DEF IInv
<1>4. PanesFine' /\ Fewer
  BY <1>1, SamePanes, SameFewer DEF IInv, WatcherFine
<1>5. FilesTyped' /\ IntentFine' /\ RecoveryFine' /\ NoNewAwaited
  <2>1. CASE UNCHANGED intent
    <3>1. UNCHANGED files
      BY <1>1, <2>1 DEF files
    <3>2. FilesTyped' /\ IntentFine'
      BY <1>1, <3>1, FilesStay, IntentKept DEF IInv, FilesTyped, files
    <3>3. RecoveryFine'
      BY <1>1, <1>2, <3>1, DepartingMove DEF files, Departing, Recovering
    <3> QED BY <3>1, <3>2, <3>3 DEF NoNewAwaited, files
  <2>2. CASE intent' = NoIntent
    <3>1. FilesTyped'
      BY <1>1, <2>2 DEF IInv, FilesTyped
    <3>2. IntentFine' /\ RecoveryFine' /\ NoNewAwaited
      BY <2>2 DEF IntentFine, RecoveryFine, HasRecovery, HasIntent, NoNewAwaited, NoIntent
    <3> QED BY <3>1, <3>2
  <2> QED BY <2>1, <2>2 DEF ClearIntent
<1> QED BY <1>1, <1>2, <1>3, <1>4, <1>5, CommandStep
        DEF tmux, NoMishap, Before, IInv

\* A command lets go of the lock, if it has it, and leaves everything else.
LEMMA RestKeeps ==
  ASSUME IInv, NEW l \in Launcher, NEW next \in {"clear", "failed", "done"}, Goto(l, next),
         pc[l] # "idle",
         lock' = IF lock = l THEN NoLauncher ELSE lock,
         pc[l] \in Departing => next # "done",
         Mishap \/ NoMishap,
         pc[l] \notin {"register", "registerStart"} => UNCHANGED strays,
         pc[l] \in {"register", "registerStart"} => strays' = strays \cup {made[l].pid},
         UNCHANGED <<tmux, watcher, files, dev, made, stale>>
  PROVE  IInv'
<1>1. next \in Stage /\ next # "idle" /\ next \in Resting
  BY DEF Stage, Resting
<1>2. LockFine'
  <2>1. CASE lock = l
    BY <1>1, <2>1, LockMove DEF IInv
  <2>2. CASE lock # l
    <3>1. pc[l] \in Resting
      BY <2>2 DEF IInv, LockFine
    <3> QED BY <1>1, <2>2, <3>1, LockMove DEF IInv
  <2> QED BY <2>1, <2>2
<1>3. HolderFine'
  <2>1. SUFFICES ASSUME NEW k \in Launcher, lock' = k PROVE Holder(k)'
    BY DEF HolderFine
  <2>2. k # l /\ lock = k /\ pc'[k] = pc[k]
    BY <1>1, <2>1, Moved DEF LockFine, IInv
  <2>3. Holder(k)
    BY <2>2 DEF IInv, HolderFine
  <2> QED BY <2>2, <2>3 DEF Holder, Made, files, tmux
<1>4. PanesFine' /\ FilesTyped' /\ IntentFine' /\ Fewer
  BY SamePanes, FilesStay, IntentKept, SameFewer DEF IInv, FilesTyped, WatcherFine, files
<1>5. RecoveryFine'
  BY <1>1, DepartingMove DEF files, Departing, Recovering
<1> QED BY <1>1, <1>2, <1>3, <1>4, <1>5, CommandStep
        DEF tmux, files, NoNewAwaited, Before, IInv, LockFine

LEMMA EndsKeep ==
  ASSUME IInv, NEW l \in Launcher, Fail(l) \/ Die(l)
  PROVE  IInv'
<1> LockFine
  BY DEF IInv
<1>1. CASE Fail(l)
  <2>1. lock = l /\ pc[l] = "fail"
    BY <1>1 DEF Fail, LockFine, Resting
  <2>2. PICK next \in {"clear", "failed"} : Goto(l, next)
    BY <1>1 DEF Fail
  <2> QED BY <1>1, <2>1, <2>2, RestKeeps DEF Fail, NoMishap, IInv
<1>2. CASE Die(l)
  <2>1. /\ pc[l] \notin {"register", "registerStart"} => UNCHANGED strays
        /\ pc[l] \in {"register", "registerStart"} => strays' = strays \cup {made[l].pid}
    BY <1>2 DEF Die
  <2> QED BY <1>2, <2>1, RestKeeps DEF Die
<1> QED BY <1>1, <1>2

-----------------------------------------------------------------------------
(* Steps of the command that has the lock.                                 *)

\* It keeps the lock and launches nothing.
LEMMA HolderStep ==
  ASSUME IInv, NEW l \in Launcher, pc[l] \notin Resting, pc[l] \notin {"register", "registerStart"},
         NEW next \in Working \cup {"fail"}, Goto(l, next), UNCHANGED <<lock, dev>>,
         pc[l] \notin Before => next \notin Before,
         Holder(l)', PanesFine', FilesTyped', IntentFine', RecoveryFine',
         Fewer, UNCHANGED <<pidFile, stale, strays>>, NoNewAwaited, Mishap \/ NoMishap,
         \A k \in Launcher : k # l => made'[k] = made[k]
  PROVE  IInv'
<1>1. lock = l /\ next \in Stage /\ next # "idle" /\ next \notin Resting
  BY DEF IInv, LockFine, Stage, Resting, Working, Owning
<1>2. LockFine'
  BY <1>1, LockMove DEF IInv
<1>3. HolderFine'
  BY <1>1, <1>2, HolderMove
<1> QED BY <1>1, <1>2, <1>3, CommandStep DEF IInv

\* What the holder of the lock knows.
LEMMA Holds ==
  ASSUME IInv, NEW l \in Launcher, pc[l] \notin Resting
  PROVE  /\ lock = l /\ Holder(l) /\ LockFine /\ PanesFine /\ FilesTyped /\ IntentFine
         /\ RecoveryFine /\ WatcherFine /\ watcher \in Watchers
BY DEF IInv, LockFine, HolderFine, WatcherFine

LEMMA StopExistingKeeps ==
  ASSUME IInv, NEW l \in Launcher, StopExisting(l)
  PROVE  IInv'
<1>1. /\ pc[l] = "stop" /\ Goto(l, "close")
      /\ watcher' = Killed({pidFile} \cap Alive) /\ pidFile' = NoPid
      /\ UNCHANGED <<tmux, intent, owner, lock, dev, made, mishaps, stale, strays>>
  BY DEF StopExisting
<1>2. /\ pc[l] \notin Resting /\ "close" \in Stage /\ "close" \notin Resting
  BY <1>1 DEF Resting, Stage, Working
<1>3. /\ lock = l /\ Holder(l) /\ LockFine /\ PanesFine /\ FilesTyped /\ IntentFine
      /\ RecoveryFine /\ WatcherFine /\ watcher \in Watchers
  BY <1>2, Holds
<1>4. LockFine' /\ pc'[l] = "close" /\ \A k \in Launcher : k # l => pc'[k] = pc[k]
  BY <1>1, <1>2, <1>3, LockMove, Moved
<1>5. Fewer /\ \A w \in {pidFile} \cap Alive : watcher'[w].phase = "dead"
  BY <1>1, <1>3, KilledFewer
<1>6. HolderFine'
  <2>1. Holder(l)'
    BY <1>1, <1>3, <1>4 DEF Holder, Working, Owning, Unowned, Recovering
  <2> QED BY <1>1, <1>3, <1>4, <2>1, HolderMove
<1>7. PanesFine' /\ FilesTyped'
  BY <1>1, <1>3, SamePanes DEF FilesTyped
<1>8. IntentFine'
  BY <1>1, <1>3, <1>5, IntentKept DEF Fewer
<1>9. RecoveryFine'
  BY <1>1, <1>2, DepartingMove DEF Departing, Recovering
<1>10. WatcherFine'
  <2>1. Onward
    BY <1>1, <1>4 DEF Onward, Before
  <2> QED BY <1>3, <1>5, <2>1, WatcherMove
<1>11. OneFine'
  <2>1. OneFine
    BY DEF IInv
  <2>2. \A w \in Pid : ~Launching(w) /\ (Written(w) => w = pidFile)
    BY <1>1, <1>3 DEF Launching, Written
  <2>3. \A w \in Pid : Counts(w)' => Counts(w)
    BY <1>1, <2>2 DEF Counts
  <2>4. Running' \subseteq Running /\ Fresh' \subseteq Fresh /\ Awaited' \subseteq Awaited
    BY <1>1, <1>5 DEF Running, Fresh, Awaited, Fewer
  <2>5. ASSUME NEW w \in Running' \cup Fresh', Counts(w)'
        PROVE  FALSE
    <3>1. w \in Pid /\ w \in Running \cup Fresh
      BY <2>4 DEF Running, Fresh
    <3>2. w \in {pidFile} \cap Alive
      BY <2>1, <2>2, <2>3, <2>5, <3>1 DEF OneFine, Running, Fresh, Alive
    <3> QED BY <1>5, <3>2, <2>5 DEF Running, Fresh
  <2>6. Awaited \subseteq Pid
    BY DEF Awaited
  <2> QED BY <2>1, <2>3, <2>4, <2>5, <2>6 DEF OneFine
<1>12. RestTyped'
  BY <1>1 DEF IInv, RestTyped
<1> QED BY <1>4, <1>6, <1>7, <1>8, <1>9, <1>10, <1>11, <1>12 DEF IInv

\* The owned pane is closed with its process, and is on record no longer.
LEMMA ClosesFacts ==
  ASSUME PanesFine, watcher \in Watchers, NEW o \in Owner, Closes(o)
  PROVE  /\ panes' = panes \ At(o) /\ Fewer
         /\ \A p \in At(o) : p.pid # Users /\ p.server = o.server
<1>1. panes' = panes \ At(o) /\ watcher' = Killed({p.pid : p \in At(o)} \cap Alive)
  BY DEF Closes
<1>2. Fewer
  BY <1>1, KilledFewer
<1>3. ASSUME NEW p \in At(o) PROVE p.pid # Users /\ p.server = o.server
  BY <1>3 DEF Closes, Recognized, At, PanesFine, Owner
<1> QED BY <1>1, <1>2, <1>3

LEMMA ClosedPanes ==
  ASSUME PanesFine, NEW S, panes' = panes \ S, UNCHANGED <<up, server, opened>>
  PROVE  PanesFine'
BY DEF PanesFine

LEMMA CloseOwnedKeeps ==
  ASSUME IInv, NEW l \in Launcher, CloseOwned(l)
  PROVE  IInv'
<1>1. /\ pc[l] \in {"close", "closeMarked", "closeSelected"}
      /\ UNCHANGED <<up, server, opened, pidFile, intent, lock, dev, made, stale, strays>>
  BY DEF CloseOwned
<1>2. pc[l] \notin Resting /\ pc[l] \notin {"register", "registerStart"}
  BY <1>1 DEF Resting
<1>3. /\ lock = l /\ Holder(l) /\ LockFine /\ PanesFine /\ FilesTyped /\ IntentFine
      /\ RecoveryFine /\ WatcherFine /\ watcher \in Watchers
  BY <1>2, Holds
<1>4. CASE /\ NoMishap /\ owner' = NoOwner
           /\ IF owner = NoOwner THEN UNCHANGED <<panes, watcher>> ELSE Closes(owner)
           /\ Goto(l, IF pc[l] = "closeMarked" THEN "forget"
                      ELSE IF pc[l] = "closeSelected" THEN "fail"
                      ELSE IF l \in dev THEN "split" ELSE "spawn")
  <2>1. PICK next \in {"forget", "fail", "split", "spawn"} :
          /\ next = IF pc[l] = "closeMarked" THEN "forget"
                    ELSE IF pc[l] = "closeSelected" THEN "fail"
                    ELSE IF l \in dev THEN "split" ELSE "spawn"
          /\ Goto(l, next)
    BY <1>4
  <2>2. next \in Working \cup {"fail"} /\ next \in Stage /\ (pc[l] \notin Before => next \notin Before)
    BY <1>1, <2>1 DEF Working, Owning, Stage, Before
  <2>3. pc'[l] = next /\ \A k \in Launcher : k # l => pc'[k] = pc[k]
    BY <1>3, <2>1, <2>2, Moved
  <2>4. /\ Fewer /\ PanesFine' /\ panes' \subseteq panes
        /\ owner # NoOwner => panes' = panes \ At(owner)
    <3>1. CASE owner = NoOwner
      BY <1>1, <1>3, <1>4, <3>1, SameFewer DEF PanesFine
    <3>2. CASE owner # NoOwner
      <4>1. owner \in Owner /\ Closes(owner)
        BY <1>3, <1>4, <3>2 DEF FilesTyped
      <4>2. panes' = panes \ At(owner) /\ Fewer
        BY <1>3, <4>1, ClosesFacts
      <4> QED BY <1>1, <1>3, <4>2, ClosedPanes
    <3> QED BY <3>1, <3>2
  <2>5. FilesTyped' /\ IntentFine'
    BY <1>1, <1>3, <1>4, <2>4, IntentKept DEF FilesTyped, Fewer
  <2>6. RecoveryFine'
    BY <1>1, <2>1, <2>2, DepartingMove DEF Departing, Recovering
  <2>7. Holder(l)'
    <3>1. next = "forget" => Made(l)'
      <4> SUFFICES ASSUME next = "forget" PROVE Made(l)'
        OBVIOUS
      <4>1. pc[l] = "closeMarked" /\ owner = made[l] /\ Made(l) /\ made[l] \in Owner
        BY <1>3, <2>1 DEF Holder, Made, Owning
      <4>2. owner # NoOwner
        BY <4>1 DEF NoOwner, Owner
      <4>3. panes' = panes \ At(made[l])
        BY <2>4, <4>1, <4>2
      <4>4. \A p \in panes' : p.server = made[l].server => p.id # made[l].pane
        BY <4>3 DEF At
      <4> QED BY <1>1, <2>4, <4>1, <4>4 DEF Made
    <3> QED BY <1>1, <1>3, <1>4, <2>1, <2>3, <3>1 DEF Holder, Working, Owning, Unowned, Recovering
  <2> QED BY <1>1, <1>2, <1>4, <2>1, <2>2, <2>4, <2>5, <2>6, <2>7, HolderStep DEF NoNewAwaited
<1>5. CASE /\ owner # NoOwner /\ CloseFails(owner)
           /\ Goto(l, "fail") /\ UNCHANGED <<owner, panes, watcher>>
  <2>1. Mishap \/ NoMishap
    BY <1>5 DEF CloseFails
  <2>2. "fail" \in Working \cup {"fail"} /\ "fail" \in Stage /\ "fail" \notin Before
    BY DEF Stage, Before
  <2>3. pc'[l] = "fail"
    BY <1>3, <1>5, <2>2, Moved
  <2>4. UNCHANGED tmux /\ UNCHANGED files
    BY <1>1, <1>5 DEF tmux, files
  <2>5. PanesFine' /\ FilesTyped' /\ IntentFine' /\ Fewer
    BY <1>1, <1>3, <1>5, <2>4, SamePanes, FilesStay, IntentKept, SameFewer DEF FilesTyped, files
  <2>6. RecoveryFine'
    BY <1>1, <1>5, <2>2, DepartingMove DEF Departing, Recovering
  <2>7. Holder(l)'
    BY <2>3 DEF Holder, Working, Owning, Unowned, Recovering
  <2> QED BY <1>1, <1>2, <1>5, <2>1, <2>2, <2>5, <2>6, <2>7, HolderStep DEF NoNewAwaited
<1> QED BY <1>4, <1>5 DEF CloseOwned

\* At the launch of a restart-watch there are strays at most.
LEMMA NothingRuns ==
  ASSUME IInv, NEW l \in Launcher, pc[l] \in {"spawn", "split"}
  PROVE  \A w \in Running \cup Fresh \cup Awaited : w \in strays
<1>1. /\ pc[l] \notin Resting /\ pc[l] \in Working \ {"stop"} /\ pc[l] \in Before
      /\ pc[l] \notin {"register", "registerStart"}
  BY DEF Resting, Working, Before
<1>2. lock = l /\ Holder(l) /\ LockFine /\ WatcherFine /\ OneFine
  BY <1>1, Holds DEF IInv
<1>3. pidFile = NoPid
  BY <1>1, <1>2 DEF Holder
<1>4. NoPid \notin Pid
  BY CountTypes DEF Pid, NoPid
<1>5. \A w \in Pid : ~Written(w)
  BY <1>1, <1>2, <1>3, <1>4 DEF Written
<1>6. \A w \in Running \cup Fresh : w \in strays
  <2>1. \A w \in Pid : ~Launching(w)
    BY <1>1, <1>2 DEF Launching
  <2> QED BY <1>2, <1>5, <2>1 DEF OneFine, Counts, Running, Fresh
<1>7. Awaited = {}
  <2>1. intent.token = l \/ intent.token = NoLauncher
    BY <1>1, <1>2 DEF Holder, NoIntent
  <2>2. \A w \in Pid : watcher[w].token # l
    BY <1>1, <1>2 DEF WatcherFine
  <2> QED BY <2>1, <2>2 DEF Awaited
<1> QED BY <1>6, <1>7

LEMMA LaunchedOnly ==
  ASSUME watcher \in Watchers, \A v \in Running \cup Fresh \cup Awaited : v \in strays,
         NEW w \in Pid, NEW token \in Launcher \cup {NoLauncher}, UNCHANGED <<intent, strays>>,
         watcher' = [watcher EXCEPT ![w] = [phase |-> "starting", token |-> token]],
         token = NoLauncher => Written(w)'
  PROVE  OneFine'
<1>1. /\ watcher'[w].phase = "starting" /\ watcher'[w].token = token
      /\ \A v \in Pid : v # w => watcher'[v] = watcher[v]
  BY DEF Watchers
<1>2. /\ Running' \subseteq Running /\ Fresh' \subseteq Fresh \cup {w}
      /\ Awaited' \subseteq Awaited \cup {w}
  BY <1>1 DEF Running, Fresh, Awaited
<1>3. token # NoLauncher => w \notin Fresh' /\ w \notin Running'
  BY <1>1 DEF Fresh, Running
<1>4. \A v \in Running' \cup Fresh' \cup Awaited' : Counts(v)' => v = w
  BY <1>2 DEF Counts
<1> QED BY <1>3, <1>4 DEF OneFine

\* The background launch of a restart-watch or of a start.
LEMMA SpawnKeeps ==
  ASSUME IInv, NEW l \in Launcher, Spawn(l)
  PROVE  IInv'
<1>1. PICK next \in {"register", "registerStart"} :
        /\ Goto(l, next)
        /\ next = "register" => pc[l] = "spawn"
        /\ next = "registerStart" => pc[l] = "spawnStart"
  BY DEF Spawn
<1>2. PICK w : w = NewPid
  OBVIOUS
<1>3. /\ watcher' = [watcher EXCEPT ![w] = [phase |-> "starting", token |-> NoLauncher]]
      /\ made' = [made EXCEPT ![l] = [pid |-> w]]
      /\ stale' = stale \cup {v \in {w} : l \in stale}
      /\ UNCHANGED <<tmux, files, lock, dev, mishaps, strays>>
  BY <1>2 DEF Spawn, Launches
<1>4. w \in Pid /\ watcher[w].phase = "none"
  BY <1>1, <1>2, NewPidFree
<1>5. /\ pc[l] \notin Resting /\ pc[l] \in Before /\ next \in Stage /\ next \notin Resting
      /\ next \notin Before /\ next # "idle"
  BY <1>1 DEF Resting, Stage, Working, Before
<1>6. /\ lock = l /\ Holder(l) /\ LockFine /\ PanesFine /\ FilesTyped /\ IntentFine
      /\ RecoveryFine /\ WatcherFine /\ watcher \in Watchers
  BY <1>5, Holds
<1>7. LockFine' /\ pc'[l] = next /\ \A k \in Launcher : k # l => pc'[k] = pc[k]
  BY <1>1, <1>3, <1>5, <1>6, LockMove, Moved
<1>8. made'[l] = [pid |-> w] /\ made' \in [Launcher -> Owner \cup {NoOwner} \cup [pid : Pid]]
  BY <1>3, <1>4, <1>6 DEF FilesTyped
<1>9. /\ watcher' \in Watchers /\ watcher'[w].phase = "starting"
      /\ watcher'[w].token = NoLauncher /\ \A v \in Pid : v # w => watcher'[v] = watcher[v]
  BY <1>3, <1>4, <1>6 DEF Watchers
<1>10. HolderFine'
  <2>1. made'[l].pid = w /\ made'[l] \in [pid : Pid]
    BY <1>4, <1>8
  <2>2. CASE next = "register"
    <3>1. pc[l] = "spawn" /\ UNCHANGED <<pidFile, owner, intent>>
      BY <1>1, <1>3, <2>2 DEF files
    <3>2. Holder(l)'
      BY <1>3, <1>6, <1>7, <2>1, <2>2, <3>1 DEF Holder, Working, Owning, Unowned, Recovering
    <3> QED BY <1>3, <1>6, <1>7, <3>2, HolderMove
  <2>3. CASE next = "registerStart"
    <3>1. Holder(l)'
      BY <1>7, <1>9, <2>1, <2>3 DEF Holder, Working, Owning, Unowned, Recovering
    <3> QED BY <1>3, <1>6, <1>7, <3>1, HolderMove
  <2> QED BY <2>2, <2>3
<1>11. PanesFine' /\ FilesTyped'
  BY <1>3, <1>6, <1>8, SamePanes, FilesStay
<1>12. IntentFine'
  <2>1. \A v \in Pid : watcher[v].phase \in {"running", "dead"} => watcher'[v].phase \in {"running", "dead"}
    BY <1>4, <1>9
  <2> QED BY <1>3, <1>6, <2>1, IntentKept DEF files
<1>13. RecoveryFine'
  <2>1. pc[l] \notin Departing
    BY <1>5 DEF Departing, Recovering, Before
  <2> QED BY <1>1, <1>3, <1>5, <2>1, DepartingMove DEF files
<1>14. WatcherFine'
  <2>1. Onward
    BY <1>5, <1>7 DEF Onward
  <2>2. NoLauncher \in Launcher \cup {NoLauncher} /\ pc'[l] \notin Before
    BY <1>5, <1>7
  <2> QED BY <1>3, <1>4, <1>5, <1>6, <2>1, <2>2, LaunchMove
<1>15. OneFine'
  <2>1. CASE next = "register"
    <3>1. Written(w)'
      BY <1>3, <1>6, <1>7, <1>8, <2>1 DEF Written
    <3>2. \A v \in Running \cup Fresh \cup Awaited : v \in strays
      BY <1>1, <2>1, NothingRuns
    <3>3. UNCHANGED <<intent, strays>> /\ NoLauncher \in Launcher \cup {NoLauncher}
      BY <1>3 DEF files
    <3> QED BY <1>3, <1>4, <1>6, <3>1, <3>2, <3>3, LaunchedOnly
  <2>2. CASE next = "registerStart"
    <3>1. OneFine /\ pc[l] = "spawnStart" /\ UNCHANGED <<pidFile, intent, strays>>
      BY <1>1, <1>3, <2>2 DEF IInv, files
    <3>2. \A v \in Pid : ~Launching(v) /\ (Written(v) => Written(v)')
      BY <1>6, <3>1 DEF Launching, Written
    <3>3. Launching(w)'
      BY <1>3, <1>6, <1>7, <1>8, <2>2 DEF Launching
    <3>4. /\ Running' \subseteq Running /\ Fresh' \subseteq Fresh \cup {w}
          /\ Awaited' \subseteq Awaited \cup {w}
      BY <1>9, <3>1 DEF Running, Fresh, Awaited
    <3>5. \A v \in Running' \cup Fresh' \cup Awaited' :
            Counts(v)' => v \in Pid /\ v # w /\ Counts(v)
      BY <3>1, <3>2, <3>3 DEF Counts, Running, Fresh, Awaited
    <3> QED BY <3>1, <3>2, <3>4, <3>5 DEF OneFine
  <2> QED BY <2>1, <2>2
<1>16. RestTyped'
  BY <1>3, <1>4 DEF IInv, RestTyped
<1> QED BY <1>7, <1>10, <1>11, <1>12, <1>13, <1>14, <1>15, <1>16 DEF IInv

\* Its watcher is put on file; beside that of a start, the others do not count.
LEMMA WritePidKeeps ==
  ASSUME IInv, NEW l \in Launcher, WritePid(l)
  PROVE  IInv'
<1>1. /\ pc[l] \in {"register", "registerStart"} /\ Goto(l, "done")
      /\ pidFile' = made[l].pid /\ lock' = NoLauncher
      /\ strays' = IF pc[l] = "register" THEN strays ELSE (strays \cup Alive) \ {made[l].pid}
      /\ UNCHANGED <<tmux, watcher, intent, owner, dev, made, mishaps, stale>>
  BY DEF WritePid
<1>2. /\ pc[l] \notin Resting /\ "done" \in Stage /\ "done" \in Resting /\ "done" \notin Before
      /\ pc[l] \notin Departing
  BY <1>1 DEF Resting, Stage, Before, Departing, Recovering
<1>3. /\ lock = l /\ Holder(l) /\ LockFine /\ PanesFine /\ FilesTyped /\ IntentFine
      /\ RecoveryFine /\ WatcherFine /\ watcher \in Watchers
  BY <1>2, Holds
<1>4. LockFine' /\ HolderFine' /\ pc'[l] = "done" /\ \A k \in Launcher : k # l => pc'[k] = pc[k]
  BY <1>1, <1>2, <1>3, LockMove, Moved, Freed
<1>5. made[l].pid \in Pid
  BY <1>1, <1>3 DEF Holder
<1>6. PanesFine' /\ FilesTyped' /\ IntentFine'
  BY <1>1, <1>3, <1>5, SamePanes, IntentKept DEF FilesTyped
<1>7. RecoveryFine'
  BY <1>1, <1>2, DepartingMove
<1>8. WatcherFine'
  <2>1. Onward /\ Fewer
    BY <1>1, <1>2, <1>3, <1>4, SameFewer DEF Onward
  <2> QED BY <1>3, <2>1, WatcherMove
<1>9. OneFine'
  <2>1. OneFine
    BY DEF IInv
  <2>2. Running' = Running /\ Fresh' = Fresh /\ Awaited' = Awaited
    BY <1>1 DEF Running, Fresh, Awaited
  <2>3. \A w \in Pid : w = made[l].pid => Written(w)'
    BY <1>1 DEF Written
  <2>4. CASE pc[l] = "register"
    <3>1. pidFile = NoPid /\ NoPid \notin Pid
      BY <1>3, <2>4, CountTypes DEF Holder, Working, Pid, NoPid
    <3>2. \A w \in Pid : ~Launching(w) /\ (Written(w) => w = made[l].pid)
      BY <1>3, <2>4, <3>1 DEF Launching, Written
    <3>3. \A w \in Pid : Counts(w)' => Counts(w)
      BY <1>1, <2>4, <3>2 DEF Counts
    <3> QED BY <2>1, <2>2, <2>3, <3>2, <3>3 DEF OneFine, Running, Fresh, Awaited
  <2>5. CASE pc[l] = "registerStart"
    <3>1. strays' = (strays \cup Alive) \ {made[l].pid}
      BY <1>1, <2>5
    <3>2. \A w \in Running \cup Fresh \cup Awaited : w \in Alive /\ w \in Pid
      BY DEF Running, Fresh, Awaited, Alive
    <3>3. \A w \in Running \cup Fresh \cup Awaited : Counts(w)' => w = made[l].pid
      BY <3>1, <3>2 DEF Counts
    <3> QED BY <2>2, <2>3, <3>2, <3>3 DEF OneFine
  <2> QED BY <1>1, <2>4, <2>5
<1>10. RestTyped'
  BY <1>1 DEF IInv, RestTyped, Alive
<1> QED BY <1>4, <1>6, <1>7, <1>8, <1>9, <1>10 DEF IInv

\* A launch in a pane, whether or not tmux's answer is understood.
LEMMA SplitPaneKeeps ==
  ASSUME IInv, NEW l \in Launcher, pc[l] = "split", up, SplitPane(l),
         NEW next \in {"markToken", "fail"}, Goto(l, next), Mishap \/ NoMishap,
         UNCHANGED <<up, server, files, lock, dev, strays>>
  PROVE  /\ LockFine' /\ PanesFine' /\ IntentFine' /\ RecoveryFine' /\ WatcherFine'
         /\ RestTyped'
         /\ OneFine'
         /\ lock' = l /\ pc'[l] = next /\ Holder(l) /\ opened' = opened + 1
         /\ \A p \in panes' : p \in panes \/ (p.id = opened + 1 /\ p.pid # Users)
<1>1. PICK w : w = NewPid
  OBVIOUS
<1>2. /\ watcher' = [watcher EXCEPT ![w] = [phase |-> "starting", token |-> l]]
      /\ panes' = panes \cup {NewPane(w, l)} /\ opened' = opened + 1
      /\ stale' = stale \cup {v \in {w} : l \in stale}
  BY <1>1 DEF SplitPane, Launches
<1>3. w \in Pid /\ watcher[w].phase = "none"
  BY <1>1, NewPidFree
<1>4. /\ pc[l] \notin Resting /\ next \in Stage /\ next # "idle" /\ next \notin Resting
      /\ next \notin Before /\ pc[l] \in Before
  BY DEF Resting, Stage, Working, Owning, Before
<1>5. /\ lock = l /\ Holder(l) /\ LockFine /\ PanesFine /\ FilesTyped /\ IntentFine
      /\ RecoveryFine /\ WatcherFine /\ watcher \in Watchers
  BY <1>4, Holds
<1>6. LockFine' /\ pc'[l] = next /\ \A k \in Launcher : k # l => pc'[k] = pc[k]
  BY <1>4, <1>5, LockMove, Moved
<1>7. w \in Pid \cup {Users} /\ w # Users
  BY <1>3, CountTypes DEF Pid, Users, NoPid
<1>8. PICK p0 : p0 = NewPane(w, l)
  OBVIOUS
<1>9. /\ p0 \in Pane /\ p0.id = opened + 1 /\ p0.server = server /\ p0.pid = w
      /\ p0.token = NoLauncher
  BY <1>5, <1>7, <1>8 DEF NewPane, Pane, PanesFine
<1>10. PanesFine'
  <2>1. \A p \in panes : p \in Pane /\ p.id <= opened /\ p.server = server
                         /\ (p.pid = Users => p.token = NoLauncher)
    BY <1>5 DEF PanesFine
  <2>2. \A p \in panes : p.id \in Nat
    BY <2>1 DEF Pane
  <2>3. opened \in Nat
    BY <1>5 DEF PanesFine
  <2>4. \A p \in panes : p.id <= opened + 1
    BY <2>1, <2>2, <2>3
  <2>5. \A p \in panes' : p \in panes \/ p = p0
    BY <1>2, <1>8
  <2>6. \A p \in panes' : p \in Pane /\ p.id <= opened + 1 /\ p.server = server
                          /\ (p.pid = Users => p.token = NoLauncher)
    BY <1>7, <1>9, <2>1, <2>3, <2>4, <2>5
  <2>7. server' = server /\ up' = up /\ opened' = opened + 1
    BY <1>2
  <2> QED BY <1>5, <2>3, <2>6, <2>7 DEF PanesFine
<1>11. IntentFine'
  <2>1. \A v \in Pid : watcher[v].phase \in {"running", "dead"} => watcher'[v].phase \in {"running", "dead"}
    BY <1>2, <1>3, <1>5 DEF Watchers
  <2> QED BY <1>5, <2>1, IntentKept DEF files
<1>12. RecoveryFine'
  BY <1>4, DepartingMove DEF Departing, Recovering, files
<1>13. WatcherFine'
  <2>1. Onward /\ pc[l] \in Before /\ pc'[l] \notin Before
    BY <1>4, <1>6 DEF Onward
  <2>2. l \in Launcher \cup {NoLauncher}
    OBVIOUS
  <2> QED BY <1>2, <1>3, <1>5, <2>1, <2>2, LaunchMove
<1>14. OneFine'
  <2>1. \A v \in Running \cup Fresh \cup Awaited : v \in strays
    BY NothingRuns
  <2>2. UNCHANGED <<intent, strays>> /\ l # NoLauncher
    BY DEF files
  <2>3. l \in Launcher \cup {NoLauncher} /\ (l = NoLauncher => Written(w)')
    BY <2>2
  <2> QED BY <1>2, <1>3, <1>5, <2>1, <2>2, <2>3, LaunchedOnly
<1>15. RestTyped'
  BY <1>2, <1>3, MishapCount DEF IInv, RestTyped
<1> QED BY <1>2, <1>5, <1>6, <1>7, <1>8, <1>9, <1>10, <1>11, <1>12, <1>13, <1>14, <1>15

LEMMA SplitKeeps ==
  ASSUME IInv, NEW l \in Launcher, Split(l)
  PROVE  IInv'
<1>1. pc[l] = "split" /\ UNCHANGED <<up, server, files, lock, dev, strays>>
  BY DEF Split
<1>2. /\ pc[l] \notin Resting /\ pc[l] \notin {"register", "registerStart"}
  BY <1>1 DEF Resting
<1>3. /\ lock = l /\ Holder(l) /\ LockFine /\ PanesFine /\ FilesTyped /\ IntentFine
      /\ RecoveryFine /\ WatcherFine /\ watcher \in Watchers
  BY <1>2, Holds
<1>4. CASE /\ NoMishap /\ up /\ Goto(l, "markToken")
           /\ SplitPane(l)
           /\ made' = [made EXCEPT ![l] = [token |-> l, pane |-> opened + 1, server |-> server,
                                           tokenMarked |-> FALSE, agentMarked |-> FALSE]]
  <2>1. /\ LockFine' /\ PanesFine' /\ IntentFine' /\ RecoveryFine' /\ WatcherFine'
        /\ RestTyped'
        /\ OneFine'
        /\ lock' = l /\ pc'[l] = "markToken" /\ opened' = opened + 1
        /\ \A p \in panes' : p \in panes \/ (p.id = opened + 1 /\ p.pid # Users)
    BY <1>1, <1>4, SplitPaneKeeps
  <2>2. PICK o : o = [token |-> l, pane |-> opened + 1, server |-> server,
                      tokenMarked |-> FALSE, agentMarked |-> FALSE]
    OBVIOUS
  <2>3. o \in Owner /\ o.token = l /\ o.pane = opened + 1 /\ o.server = server
    BY <1>3, <2>2 DEF Owner, PanesFine
  <2>4. made' = [made EXCEPT ![l] = o]
    BY <1>4, <2>2
  <2>5. made' \in [Launcher -> Owner \cup {NoOwner} \cup [pid : Pid]] /\ made'[l] = o
    BY <1>3, <2>3, <2>4 DEF FilesTyped
  <2>6. FilesTyped'
    BY <1>1, <1>3, <2>5, FilesStay
  <2>7. Made(l)'
    BY <1>1, <1>3, <2>1, <2>3, <2>5 DEF Made, PanesFine
  <2>8. Holder(l)'
    BY <1>1, <1>3, <2>1, <2>7 DEF Holder, Working, Owning, Unowned, Recovering, files
  <2>9. HolderFine'
    BY <2>1, <2>8, HolderMove
  <2> QED BY <2>1, <2>6, <2>9 DEF IInv
<1>5. CASE up /\ SplitPane(l) /\ Mishap /\ Goto(l, "fail") /\ UNCHANGED made
  <2>1. /\ LockFine' /\ PanesFine' /\ IntentFine' /\ RecoveryFine' /\ WatcherFine'
        /\ RestTyped'
        /\ OneFine'
        /\ lock' = l /\ pc'[l] = "fail"
    BY <1>1, <1>5, SplitPaneKeeps
  <2>2. FilesTyped'
    BY <1>1, <1>3, <1>5, FilesStay DEF FilesTyped
  <2>3. HolderFine'
    <3>1. Holder(l)'
      BY <2>1 DEF Holder, Working, Owning, Unowned, Recovering
    <3> QED BY <2>1, <3>1, HolderMove
  <2> QED BY <2>1, <2>2, <2>3 DEF IInv
<1>6. CASE /\ Mishap \/ (NoMishap /\ Lost(l))
           /\ UNCHANGED <<panes, opened, watcher, stale>> /\ Goto(l, "fail") /\ UNCHANGED made
  <2>1. "fail" \in Working \cup {"fail"} /\ "fail" \in Stage /\ "fail" \notin Before
    BY DEF Stage, Before
  <2>2. pc'[l] = "fail"
    BY <1>3, <1>6, <2>1, Moved
  <2>3. PanesFine' /\ FilesTyped' /\ IntentFine' /\ Fewer
    BY <1>1, <1>3, <1>6, SamePanes, FilesStay, IntentKept, SameFewer DEF FilesTyped, files, tmux
  <2>4. RecoveryFine'
    BY <1>1, <1>6, <2>1, DepartingMove DEF Departing, Recovering, files
  <2>5. Holder(l)'
    BY <2>2 DEF Holder, Working, Owning, Unowned, Recovering
  <2> QED BY <1>1, <1>2, <1>6, <2>1, <2>3, <2>4, <2>5, HolderStep DEF NoNewAwaited, files
<1> QED BY <1>4, <1>5, <1>6 DEF Split

\* A new pane's marks: of the pane that was made, never of a user's.
LEMMA MarkedFacts ==
  ASSUME PanesFine, NEW l \in Launcher, Made(l), NEW agent \in BOOLEAN,
         UNCHANGED panes \/ Marked(l, l, agent), UNCHANGED <<up, server, opened>>
  PROVE  /\ PanesFine'
         /\ \A p \in panes : p.pid = Users => p \in panes'
         /\ \A q \in panes' : \E p \in panes : q.id = p.id /\ q.pid = p.pid /\ q.server = p.server
<1>1. CASE UNCHANGED panes
  BY <1>1 DEF PanesFine
<1>2. CASE Marked(l, l, agent)
  <2>1. ASSUME NEW p \in Mine(l) PROVE p \in panes /\ p.pid # Users
    BY <2>1 DEF Mine, At, Made, PanesFine
  <2>2. ASSUME NEW q \in panes', q \notin panes
        PROVE  \E p \in Mine(l) : q = [p EXCEPT !.token = l, !.agent = agent]
    BY <1>2, <2>2 DEF Marked
  <2>3. ASSUME NEW q \in panes', q \notin panes
        PROVE  \E p \in panes : /\ q.id = p.id /\ q.pid = p.pid /\ q.server = p.server
                                /\ q \in Pane /\ q.pid # Users
    <3>1. PICK p \in Mine(l) : q = [p EXCEPT !.token = l, !.agent = agent]
      BY <2>2, <2>3
    <3>2. p \in Pane /\ p \in panes /\ p.pid # Users
      BY <2>1 DEF PanesFine
    <3> QED BY <3>1, <3>2 DEF Pane
  <2>4. \A p \in panes : p.pid = Users => p \in panes'
    BY <1>2, <2>1 DEF Marked
  <2>5. PanesFine'
    BY <2>3 DEF PanesFine
  <2> QED BY <2>3, <2>4, <2>5
<1> QED BY <1>1, <1>2

\* A command marks the pane it has made, or finds that it may not have.
LEMMA MarkStep ==
  ASSUME IInv, NEW l \in Launcher, pc[l] \in {"markToken", "markAgent"},
         NEW next \in {"markAgent", "own", "preserve"}, Goto(l, next), Mishap \/ NoMishap,
         NEW agent \in BOOLEAN, UNCHANGED panes \/ Marked(l, l, agent),
         NEW o \in Owner, made' = [made EXCEPT ![l] = o],
         o.token = made[l].token, o.pane = made[l].pane, o.server = made[l].server,
         UNCHANGED <<up, server, opened, watcher, files, lock, dev, stale, strays>>
  PROVE  IInv'
<1>1. /\ pc[l] \notin Resting
      /\ pc[l] \notin {"register", "registerStart"} /\ pc[l] \in Owning /\ pc[l] \in Unowned
      /\ pc[l] \in Working \ {"stop"}
      /\ next \in Working \cup {"fail"} /\ next \in Stage /\ next \notin Before
  BY DEF Resting, Owning, Unowned, Working, Stage, Before
<1>2. /\ lock = l /\ Holder(l) /\ LockFine /\ PanesFine /\ FilesTyped /\ IntentFine
      /\ RecoveryFine /\ WatcherFine /\ watcher \in Watchers
  BY <1>1, Holds
<1>3. Made(l)
  BY <1>1, <1>2 DEF Holder
<1>4. /\ PanesFine'
      /\ \A q \in panes' : \E p \in panes : q.id = p.id /\ q.pid = p.pid /\ q.server = p.server
  BY <1>2, <1>3, MarkedFacts
<1>5. pc'[l] = next
  BY <1>1, <1>2, Moved
<1>6. /\ made' \in [Launcher -> Owner \cup {NoOwner} \cup [pid : Pid]] /\ made'[l] = o
      /\ \A k \in Launcher : k # l => made'[k] = made[k]
  BY <1>2 DEF FilesTyped
<1>7. FilesTyped' /\ IntentFine' /\ Fewer
  BY <1>2, <1>6, FilesStay, IntentKept, SameFewer DEF files
<1>8. RecoveryFine'
  BY <1>1, DepartingMove DEF Departing, Recovering, files
<1>9. Made(l)'
  BY <1>3, <1>4, <1>5, <1>6 DEF Made
<1>10. Holder(l)'
  BY <1>1, <1>2, <1>5, <1>6, <1>9 DEF Holder, Working, Owning, Unowned, Recovering, files
<1> QED BY <1>1, <1>4, <1>6, <1>7, <1>8, <1>10, HolderStep DEF NoNewAwaited, files

LEMMA MarkTokenKeeps ==
  ASSUME IInv, NEW l \in Launcher, MarkToken(l)
  PROVE  IInv'
<1>1. pc[l] = "markToken" /\ UNCHANGED <<up, server, opened, watcher, files, lock, dev, stale, strays>>
  BY DEF MarkToken
<1>2. Made(l) /\ made \in [Launcher -> Owner \cup {NoOwner} \cup [pid : Pid]] /\ made[l] \in Owner
  BY <1>1, Holds DEF Resting, Holder, Owning, FilesTyped, Made
<1>3. CASE /\ NoMishap /\ Mine(l) # {}
           /\ Marked(l, l, FALSE) /\ Goto(l, "markAgent")
           /\ made' = [made EXCEPT ![l].tokenMarked = TRUE]
  <2>1. PICK o : o = [made[l] EXCEPT !.tokenMarked = TRUE]
    OBVIOUS
  <2>2. made' = [made EXCEPT ![l] = o]
    BY <1>3, <2>1, Zenon
  <2>3. o \in Owner /\ o.token = made[l].token /\ o.pane = made[l].pane /\ o.server = made[l].server
    BY <1>2, <2>1 DEF Owner
  <2> QED BY <1>1, <1>3, <2>2, <2>3, MarkStep
<1>4. CASE /\ (NoMishap /\ Mine(l) = {}) \/ Mishap
           /\ UNCHANGED panes \/ Marked(l, l, FALSE)
           /\ Goto(l, "preserve") /\ UNCHANGED made
  <2>1. made' = [made EXCEPT ![l] = made[l]]
    BY <1>2, <1>4
  <2> QED BY <1>1, <1>2, <1>4, <2>1, MarkStep
<1> QED BY <1>3, <1>4, Zenon DEF MarkToken

LEMMA MarkAgentKeeps ==
  ASSUME IInv, NEW l \in Launcher, MarkAgent(l)
  PROVE  IInv'
<1>1. pc[l] = "markAgent" /\ UNCHANGED <<up, server, opened, watcher, files, lock, dev, stale, strays>>
  BY DEF MarkAgent
<1>2. Made(l) /\ made \in [Launcher -> Owner \cup {NoOwner} \cup [pid : Pid]] /\ made[l] \in Owner
  BY <1>1, Holds DEF Resting, Holder, Owning, FilesTyped, Made
<1>3. CASE /\ NoMishap /\ Mine(l) # {}
           /\ Marked(l, l, TRUE) /\ Goto(l, "own")
           /\ made' = [made EXCEPT ![l].agentMarked = TRUE]
  <2>1. PICK o : o = [made[l] EXCEPT !.agentMarked = TRUE]
    OBVIOUS
  <2>2. made' = [made EXCEPT ![l] = o]
    BY <1>3, <2>1, Zenon
  <2>3. o \in Owner /\ o.token = made[l].token /\ o.pane = made[l].pane /\ o.server = made[l].server
    BY <1>2, <2>1 DEF Owner
  <2> QED BY <1>1, <1>3, <2>2, <2>3, MarkStep
<1>4. CASE /\ (NoMishap /\ Mine(l) = {}) \/ Mishap
           /\ UNCHANGED panes \/ Marked(l, l, TRUE)
           /\ Goto(l, "preserve") /\ UNCHANGED made
  <2>1. made' = [made EXCEPT ![l] = made[l]]
    BY <1>2, <1>4
  <2> QED BY <1>1, <1>2, <1>4, <2>1, MarkStep
<1>5. CASE /\ (NoMishap /\ Mine(l) = {}) \/ Mishap
           /\ Marked(l, l, TRUE) /\ made' = [made EXCEPT ![l].agentMarked = TRUE]
           /\ Goto(l, "preserve")
  <2>1. PICK o : o = [made[l] EXCEPT !.agentMarked = TRUE]
    OBVIOUS
  <2>2. made' = [made EXCEPT ![l] = o]
    BY <1>5, <2>1, Zenon
  <2>3. o \in Owner /\ o.token = made[l].token /\ o.pane = made[l].pane /\ o.server = made[l].server
    BY <1>2, <2>1 DEF Owner
  <2> QED BY <1>1, <1>5, <2>2, <2>3, MarkStep
<1> QED BY <1>3, <1>4, <1>5, Zenon DEF MarkAgent

LEMMA OwnKeeps ==
  ASSUME IInv, NEW l \in Launcher, Own(l)
  PROVE  IInv'
<1>1. /\ pc[l] = "own"
      /\ UNCHANGED <<up, server, opened, pidFile, intent, lock, dev, made, stale, strays>>
  BY DEF Own
<1>2. /\ pc[l] \notin Resting
      /\ pc[l] \notin {"register", "registerStart"} /\ pc[l] \in Owning /\ pc[l] \in Unowned
      /\ pc[l] \in Working \ {"stop"}
  BY <1>1 DEF Resting, Owning, Unowned, Working
<1>3. /\ lock = l /\ Holder(l) /\ LockFine /\ PanesFine /\ FilesTyped /\ IntentFine
      /\ RecoveryFine /\ WatcherFine /\ watcher \in Watchers
  BY <1>2, Holds
<1>4. Made(l) /\ made[l] \in Owner /\ owner = NoOwner
  BY <1>2, <1>3 DEF Holder, Made
<1>5. \A next \in {"select", "fail", "preserveOnly"} :
        /\ next \in Working \cup {"fail"} /\ next \in Stage /\ next \notin Before
        /\ next \notin Departing \ {"fail"} /\ next # "forget"
  BY DEF Working, Owning, Stage, Before, Departing, Resting, Recovering
<1>6. ASSUME NEW next \in {"select", "fail", "preserveOnly"}, Goto(l, next),
             owner' = (IF next = "select" THEN made[l] ELSE owner),
             Fewer, PanesFine', panes' \subseteq panes, Mishap \/ NoMishap
      PROVE  IInv'
  <2>1. pc'[l] = next
    BY <1>3, <1>5, <1>6, Moved
  <2>2. FilesTyped'
    BY <1>1, <1>3, <1>4, <1>6 DEF FilesTyped
  <2>3. IntentFine'
    BY <1>1, <1>3, <1>6, IntentKept DEF Fewer
  <2>4. RecoveryFine'
    BY <1>1, <1>5, <1>6, DepartingMove DEF Departing, Recovering
  <2>5. Made(l)'
    BY <1>1, <1>4, <1>5, <1>6, <2>1 DEF Made
  <2>6. Holder(l)'
    BY <1>1, <1>2, <1>3, <1>4, <1>6, <2>1, <2>5 DEF Holder, Working, Owning, Unowned, Recovering
  <2> QED BY <1>1, <1>2, <1>5, <1>6, <2>2, <2>3, <2>4, <2>6, HolderStep DEF NoNewAwaited
<1>7. CASE /\ NoMishap /\ Goto(l, "select")
           /\ owner' = made[l] /\ UNCHANGED <<panes, watcher>>
  BY <1>1, <1>3, <1>6, <1>7, SameFewer DEF PanesFine
<1>8. CASE Mishap /\ UNCHANGED owner /\ Closes(made[l]) /\ Goto(l, "fail")
  <2>1. panes' = panes \ At(made[l]) /\ Fewer
    BY <1>3, <1>4, <1>8, ClosesFacts
  <2>2. PanesFine'
    BY <1>1, <1>3, <2>1, ClosedPanes
  <2> QED BY <1>6, <1>8, <2>1, <2>2
<1>9. CASE /\ Mishap /\ UNCHANGED owner /\ Goto(l, "preserveOnly")
           /\ UNCHANGED <<panes, watcher>>
  BY <1>1, <1>3, <1>6, <1>9, SameFewer DEF PanesFine
<1> QED BY <1>7, <1>8, <1>9, Zenon DEF Own

LEMMA SelectKeeps ==
  ASSUME IInv, NEW l \in Launcher, Select(l)
  PROVE  IInv'
<1>1. pc[l] = "select" /\ UNCHANGED <<tmux, watcher, files, dev, made, stale, strays>>
  BY DEF Select
<1>2. /\ pc[l] \notin Resting /\ pc[l] \notin {"register", "registerStart"} /\ pc[l] \notin Departing
      /\ pc[l] \in Working \ {"stop"} /\ pc[l] \in Owning
  BY <1>1 DEF Resting, Departing, Recovering, Working, Owning
<1>3. /\ lock = l /\ Holder(l) /\ LockFine /\ PanesFine /\ FilesTyped /\ IntentFine
      /\ RecoveryFine /\ WatcherFine /\ watcher \in Watchers
  BY <1>2, Holds
<1>4. CASE NoMishap /\ lock' = NoLauncher /\ Goto(l, "done")
  BY <1>1, <1>2, <1>3, <1>4, RestKeeps DEF IInv
<1>5. CASE (NoMishap \/ Mishap) /\ UNCHANGED lock /\ Goto(l, "closeSelected")
  <2>1. /\ "closeSelected" \in Working \cup {"fail"} /\ "closeSelected" \in Stage
        /\ "closeSelected" \notin Before
    BY DEF Working, Stage, Before
  <2>2. pc'[l] = "closeSelected"
    BY <1>3, <1>5, <2>1, Moved
  <2>3. PanesFine' /\ FilesTyped' /\ IntentFine' /\ Fewer
    BY <1>1, <1>3, SamePanes, FilesStay, IntentKept, SameFewer DEF FilesTyped, files
  <2>4. RecoveryFine'
    BY <1>1, <1>2, <1>5, <2>1, DepartingMove DEF files
  <2>5. Holder(l)'
    BY <1>1, <1>2, <1>3, <2>2 DEF Holder, Working, Owning, Unowned, Recovering, files
  <2> QED BY <1>1, <1>2, <1>5, <2>1, <2>3, <2>4, <2>5, HolderStep DEF NoNewAwaited, files, tmux
<1> QED BY <1>4, <1>5 DEF Select

\* A pane that could not be marked, or put down as the owned one.
LEMMA PreserveIntentKeeps ==
  ASSUME IInv, NEW l \in Launcher, PreserveIntent(l)
  PROVE  IInv'
<1>1. /\ pc[l] \in {"preserve", "preserveOnly"}
      /\ intent' = [intent EXCEPT !.recovery = made[l]]
      /\ UNCHANGED <<tmux, watcher, pidFile, owner, lock, dev, made, mishaps, stale, strays>>
  BY DEF PreserveIntent
<1>2. PICK next \in {"preserveOwner", "preserveOwnerOnly"} : Goto(l, next)
  BY DEF PreserveIntent
<1>3. /\ pc[l] \notin Resting
      /\ pc[l] \notin {"register", "registerStart"} /\ pc[l] \in Owning /\ pc[l] \in Unowned
      /\ pc[l] \in Working \ {"stop"}
      /\ next \in Working \cup {"fail"} /\ next \in Stage /\ next \notin Before
      /\ next \in Recovering /\ next # "forget"
  BY <1>1, <1>2 DEF Resting, Owning, Unowned, Working, Stage, Before, Recovering
<1>4. /\ lock = l /\ Holder(l) /\ LockFine /\ PanesFine /\ FilesTyped /\ IntentFine
      /\ RecoveryFine /\ WatcherFine /\ watcher \in Watchers
  BY <1>3, Holds
<1>5. /\ Made(l) /\ made[l] \in Owner /\ owner = NoOwner /\ l \in dev /\ intent.token = l
      /\ pidFile = NoPid
  BY <1>3, <1>4 DEF Holder, Made
<1>6. intent \in Intent
  BY <1>4, <1>5 DEF FilesTyped, NoIntent
<1>7. /\ intent' \in Intent /\ intent'.token = l /\ intent'.recovery = made[l]
      /\ intent'.pid = intent.pid /\ intent'.state = intent.state
  BY <1>1, <1>5, <1>6 DEF Intent
<1>8. pc'[l] = next
  BY <1>2, <1>3, <1>4, Moved
<1>9. PanesFine' /\ Fewer /\ FilesTyped'
  BY <1>1, <1>4, <1>7, SamePanes, SameFewer DEF FilesTyped
<1>10. IntentFine'
  BY <1>1, <1>4, <1>5, <1>7, IntentKept
<1>11. RecoveryFine'
  BY <1>3, <1>7, <1>8 DEF RecoveryFine, HasIntent
<1>12. Made(l)'
  BY <1>1, <1>3, <1>5, <1>8 DEF Made, tmux
<1>13. Holder(l)'
  BY <1>1, <1>2, <1>4, <1>5, <1>7, <1>8, <1>12 DEF Holder, Working, Owning, Unowned, Recovering
<1> QED BY <1>1, <1>2, <1>3, <1>5, <1>7, <1>9, <1>10, <1>11, <1>13, HolderStep
        DEF NoNewAwaited, NoMishap, tmux

LEMMA PreserveOwnerKeeps ==
  ASSUME IInv, NEW l \in Launcher, PreserveOwner(l)
  PROVE  IInv'
<1>1. /\ pc[l] \in {"preserveOwner", "preserveOwnerOnly"}
      /\ UNCHANGED <<tmux, watcher, pidFile, intent, lock, dev, made, stale, strays>>
  BY DEF PreserveOwner
<1>2. PICK next \in {"closeMarked", "fail"} :
        /\ Goto(l, next) /\ (Mishap \/ NoMishap)
        /\ owner' = made[l] \/ (next = "fail" /\ UNCHANGED owner)
  BY DEF PreserveOwner
<1>3. /\ pc[l] \notin Resting
      /\ pc[l] \notin {"register", "registerStart"} /\ pc[l] \in Owning /\ pc[l] \in Recovering
      /\ pc[l] \in Working \ {"stop"}
      /\ next \in Working \cup {"fail"} /\ next \in Stage /\ next \notin Before
      /\ next \in Departing /\ next # "forget"
  BY <1>1, <1>2 DEF Resting, Owning, Working, Stage, Before, Recovering, Departing
<1>4. /\ lock = l /\ Holder(l) /\ LockFine /\ PanesFine /\ FilesTyped /\ IntentFine
      /\ RecoveryFine /\ WatcherFine /\ watcher \in Watchers
  BY <1>3, Holds
<1>5. Made(l) /\ made[l] \in Owner
  BY <1>3, <1>4 DEF Holder, Made
<1>6. pc'[l] = next
  BY <1>2, <1>3, <1>4, Moved
<1>7. PanesFine' /\ Fewer /\ FilesTyped'
  BY <1>1, <1>2, <1>4, <1>5, SamePanes, SameFewer DEF FilesTyped
<1>8. IntentFine'
  BY <1>1, <1>4, IntentKept
<1>9. RecoveryFine'
  BY <1>1, <1>2, <1>3, DepartingMove
<1>10. Made(l)'
  BY <1>1, <1>3, <1>5, <1>6 DEF Made, tmux
<1>11. Holder(l)'
  BY <1>1, <1>2, <1>3, <1>4, <1>6, <1>10 DEF Holder, Working, Owning, Unowned, Recovering
<1> QED BY <1>1, <1>2, <1>3, <1>7, <1>8, <1>9, <1>11, HolderStep DEF NoNewAwaited, tmux

LEMMA ForgetRecoveryKeeps ==
  ASSUME IInv, NEW l \in Launcher, ForgetRecovery(l)
  PROVE  IInv'
<1>1. /\ pc[l] = "forget" /\ Goto(l, "fail")
      /\ intent' = [intent EXCEPT !.recovery = NoOwner]
      /\ UNCHANGED <<tmux, watcher, pidFile, owner, lock, dev, made, mishaps, stale, strays>>
  BY DEF ForgetRecovery
<1>2. /\ pc[l] \notin Resting
      /\ pc[l] \notin {"register", "registerStart"} /\ pc[l] \in Owning
      /\ pc[l] \in Working \ {"stop"}
      /\ "fail" \in Working \cup {"fail"} /\ "fail" \in Stage /\ "fail" \notin Before
  BY <1>1 DEF Resting, Owning, Working, Stage, Before
<1>3. /\ lock = l /\ Holder(l) /\ LockFine /\ PanesFine /\ FilesTyped /\ IntentFine
      /\ RecoveryFine /\ WatcherFine /\ watcher \in Watchers
  BY <1>2, Holds
<1>4. intent \in Intent
  BY <1>2, <1>3 DEF FilesTyped, NoIntent, Holder
<1>5. /\ intent' \in Intent /\ intent'.token = intent.token /\ intent'.recovery = NoOwner
      /\ intent'.pid = intent.pid /\ intent'.state = intent.state
  BY <1>1, <1>4 DEF Intent
<1>6. pc'[l] = "fail"
  BY <1>1, <1>2, <1>3, Moved
<1>7. PanesFine' /\ Fewer /\ FilesTyped'
  BY <1>1, <1>3, <1>5, SamePanes, SameFewer DEF FilesTyped
<1>8. IntentFine'
  BY <1>1, <1>3, <1>5, IntentKept
<1>9. RecoveryFine'
  BY <1>5 DEF RecoveryFine, HasRecovery
<1>10. Holder(l)'
  BY <1>6 DEF Holder, Working, Owning, Unowned, Recovering
<1> QED BY <1>1, <1>2, <1>5, <1>7, <1>8, <1>9, <1>10, HolderStep DEF NoNewAwaited, NoMishap, tmux

-----------------------------------------------------------------------------
(* Watchers, users and tmux.                                               *)

\* The same intent, or one that has aged.
Aged ==
  \/ UNCHANGED intent
  \/ /\ HasIntent /\ intent' \in Intent
     /\ intent'.token = intent.token /\ intent'.recovery = intent.recovery
     /\ intent'.pid = intent.pid /\ intent'.state = intent.state

\* Panes go; those that come have new numbers, unless the server is a new one.
Renewed ==
  \/ UNCHANGED <<server, opened>> /\ panes' \subseteq panes
  \/ /\ UNCHANGED server /\ opened' = opened + 1
     /\ \A p \in panes' : p \in panes \/ p.id = opened + 1
  \/ server' = server + 1 /\ panes' = {}

\* Nobody launches anything, and commands wait.
LEMMA EnvironmentStep ==
  ASSUME IInv, UNCHANGED <<lock, commands, pidFile, owner, strays>>, Aged, Renewed, PanesFine', Fewer,
         mishaps' \in 0..MaxMishaps, stale' \subseteq Pid \cup Launcher
  PROVE  IInv'
<1>1. LockFine /\ PanesFine /\ FilesTyped /\ IntentFine /\ RecoveryFine /\ HolderFine /\ WatcherFine
  BY DEF IInv
<1>2. UNCHANGED pc /\ UNCHANGED dev /\ UNCHANGED made
  BY DEF commands
<1>3. LockFine'
  BY <1>1, <1>2 DEF LockFine
<1>4. FilesTyped' /\ intent'.token = intent.token /\ intent'.recovery = intent.recovery
      /\ (HasIntent => intent'.pid = intent.pid /\ intent'.state = intent.state)
  BY <1>1, <1>2 DEF FilesTyped, Aged
<1>5. IntentFine' /\ RecoveryFine'
  BY <1>1, <1>2, <1>4, IntentKept, RecoveryStays DEF Fewer
<1>6. HolderFine'
  <2>1. SUFFICES ASSUME NEW k \in Launcher, lock' = k PROVE Holder(k)'
    BY DEF HolderFine
  <2>2. Holder(k)
    BY <1>1, <2>1 DEF HolderFine
  <2>3. Made(k) => Made(k)'
    <3> SUFFICES ASSUME Made(k) PROVE Made(k)'
      OBVIOUS
    <3>1. /\ made'[k] = made[k] /\ pc'[k] = pc[k] /\ made[k].server \in Nat /\ made[k].pane \in Nat
          /\ made[k] \in Owner /\ made[k].token = k /\ made[k].server <= server
      BY <1>2 DEF Made, Owner
    <3>2. server \in Nat /\ opened \in Nat /\ \A p \in panes : p.server = server
      BY <1>1 DEF PanesFine
    <3>3. \A p \in panes' : p.server = server'
      BY DEF PanesFine
    <3>4. CASE UNCHANGED <<server, opened>> /\ panes' \subseteq panes
      BY <3>1, <3>4 DEF Made
    <3>5. CASE /\ UNCHANGED server /\ opened' = opened + 1
               /\ \A p \in panes' : p \in panes \/ p.id = opened + 1
      <4>1. made[k].server = server => made[k].pane <= opened
        BY DEF Made
      <4>2. made[k].server = server' => made[k].pane <= opened' /\ made[k].pane # opened + 1
        BY <3>1, <3>2, <3>5, <4>1
      <4>3. ASSUME NEW p \in panes', p.id = made[k].pane, made[k].server = server'
            PROVE  p \in panes
        BY <3>5, <4>2, <4>3
      <4>4. made[k].server = server' => \A p \in panes' : p.id = made[k].pane => p.pid # Users
        BY <3>5, <4>3 DEF Made
      <4>5. pc[k] = "forget" => \A p \in panes' : p.server = made[k].server => p.id # made[k].pane
        BY <3>3, <4>3 DEF Made
      <4> QED BY <3>1, <3>5, <4>2, <4>4, <4>5 DEF Made
    <3>6. CASE server' = server + 1 /\ panes' = {}
      BY <3>1, <3>2, <3>6 DEF Made
    <3> QED BY <3>4, <3>5, <3>6 DEF Renewed
  <2>4. intent = NoIntent => intent' = NoIntent
    BY DEF Aged, HasIntent, NoIntent
  <2>5. \A w \in Pid : watcher[w].phase \in {"starting", "dead"} =>
                       watcher'[w].phase \in {"starting", "dead"}
    BY DEF Fewer
  <2> QED BY <1>2, <1>4, <2>2, <2>3, <2>4, <2>5 DEF Holder
<1>7. WatcherFine'
  BY <1>1, <1>2, WatcherMove DEF Onward
<1>8. OneFine'
  <2>1. NoNewAwaited
    BY <1>4 DEF NoNewAwaited, Aged, HasIntent
  <2>2. OneFine
    BY DEF IInv
  <2> QED BY <1>1, <1>2, <2>1, <2>2, OneStays, SameWritten
<1>9. RestTyped'
  BY DEF IInv, RestTyped
<1> QED BY <1>3, <1>4, <1>5, <1>6, <1>7, <1>8, <1>9 DEF IInv

LEMMA StutterKeeps ==
  ASSUME IInv, UNCHANGED vars
  PROVE  IInv'
<1>1. PanesFine' /\ Fewer
  BY SamePanes, SameFewer DEF IInv, WatcherFine, vars
<1> QED BY <1>1, EnvironmentStep DEF vars, tmux, files, commands, Aged, Renewed, IInv, RestTyped

LEMMA IntentAgesKeeps ==
  ASSUME IInv, IntentAges
  PROVE  IInv'
<1>1. /\ HasIntent /\ intent' = [intent EXCEPT !.fresh = FALSE]
      /\ UNCHANGED <<tmux, watcher, pidFile, owner, lock, commands, mishaps, stale, strays>>
  BY DEF IntentAges
<1>2. intent \in Intent
  BY <1>1 DEF IInv, FilesTyped, HasIntent, NoIntent
<1>3. Aged
  BY <1>1, <1>2 DEF Aged, Intent
<1>4. PanesFine' /\ Fewer
  BY <1>1, SamePanes, SameFewer DEF IInv, WatcherFine
<1>5. mishaps' \in 0..MaxMishaps /\ stale' \subseteq Pid \cup Launcher /\ Renewed
  BY <1>1 DEF tmux, Renewed, IInv, RestTyped
<1>6. UNCHANGED <<lock, commands, pidFile, owner, strays>>
  BY <1>1
<1> QED BY <1>3, <1>4, <1>5, <1>6, EnvironmentStep

\* A watcher dies, or leaves since its session is over.
LEMMA EndedKeeps ==
  ASSUME IInv, NEW w \in Pid, Dies(w) \/ Leaves(w)
  PROVE  IInv'
<1>1. /\ {w} \in SUBSET Alive /\ watcher' = Killed({w}) /\ (Mishap \/ NoMishap)
      /\ UNCHANGED <<tmux, files, lock, commands, stale, strays>>
  BY DEF Dies, Leaves, Alive, Running, NoMishap
<1>2. PanesFine' /\ Fewer
  BY <1>1, SamePanes, KilledFewer DEF IInv, WatcherFine
<1> QED BY <1>1, <1>2, EnvironmentStep, MishapCount DEF tmux, files, Aged, Renewed, IInv, RestTyped

LEMMA PaneClosesKeeps ==
  ASSUME IInv, PaneCloses
  PROVE  IInv'
<1>1. PICK p \in panes :
        /\ panes' = panes \ {p}
        /\ UNCHANGED <<up, server, opened, watcher, files, lock, commands, mishaps, stale, strays>>
  BY DEF PaneCloses
<1>2. PanesFine' /\ Fewer
  BY <1>1, ClosedPanes, SameFewer DEF IInv, WatcherFine
<1> QED BY <1>1, <1>2, EnvironmentStep DEF files, Aged, Renewed, IInv, RestTyped

LEMMA UserSplitsKeeps ==
  ASSUME IInv, UserSplits
  PROVE  IInv'
<1>1. PICK p : p = NewPane(Users, NoLauncher)
  OBVIOUS
<1>2. /\ panes' = panes \cup {p} /\ opened' = opened + 1
      /\ UNCHANGED <<up, server, watcher, files, lock, commands, mishaps, stale, strays>>
  BY <1>1 DEF UserSplits
<1>3. PanesFine
  BY DEF IInv
<1>4. /\ p \in Pane /\ p.id = opened + 1 /\ p.server = server /\ p.token = NoLauncher
  BY <1>1, <1>3 DEF NewPane, Pane, PanesFine
<1>5. PanesFine'
  <2>1. \A q \in panes : q.id \in Nat /\ q.id <= opened
    BY <1>3 DEF PanesFine, Pane
  <2>2. \A q \in panes : q.id <= opened + 1
    BY <1>3, <2>1 DEF PanesFine
  <2> QED BY <1>2, <1>3, <1>4, <2>2 DEF PanesFine
<1>6. Fewer
  BY <1>2, SameFewer DEF IInv, WatcherFine
<1> QED BY <1>2, <1>4, <1>5, <1>6, EnvironmentStep DEF files, Aged, Renewed, IInv, RestTyped

LEMMA SessionEndsKeeps ==
  ASSUME IInv, SessionEnds
  PROVE  IInv'
<1>1. /\ up /\ up' = FALSE /\ Mishap /\ panes' = {}
      /\ watcher' = Killed({p.pid : p \in panes} \cap Alive)
      /\ UNCHANGED <<files, lock, commands, strays>>
      /\ \/ UNCHANGED <<server, opened>>
         \/ server < MaxServers /\ server' = server + 1 /\ opened' = 0
  BY DEF SessionEnds
<1>2. PanesFine'
  <2>1. up' \in BOOLEAN
    BY <1>1, Zenon
  <2> QED BY <1>1, <2>1 DEF PanesFine, IInv
<1>3. Fewer
  BY <1>1, KilledFewer DEF IInv, WatcherFine
<1>4. mishaps' \in 0..MaxMishaps
  BY <1>1, MishapCount
<1>5. stale' \subseteq Pid \cup Launcher
  BY DEF SessionEnds, Alive, IInv, RestTyped
<1> QED BY <1>1, <1>2, <1>3, <1>4, <1>5, EnvironmentStep DEF files, Aged, Renewed

\* A watcher that is accepted is the one whose turn it is.
LEMMA RegisterKeeps ==
  ASSUME IInv, NEW w \in Pid, Register(w)
  PROVE  IInv'
<1>1. /\ watcher[w].phase = "starting" /\ lock = NoLauncher
      /\ UNCHANGED <<tmux, owner, lock, commands, mishaps, stale>>
  BY DEF Register
<1>2. /\ LockFine /\ PanesFine /\ FilesTyped /\ IntentFine /\ RecoveryFine /\ WatcherFine
      /\ watcher \in Watchers /\ UNCHANGED pc /\ UNCHANGED dev /\ UNCHANGED made
      /\ w # NoPid
  BY <1>1, CountTypes DEF IInv, WatcherFine, commands, Pid, NoPid
<1>3. CASE ~Accepted(w)
  <2>1. watcher' = Killed({w}) /\ UNCHANGED <<pidFile, intent, strays>> /\ {w} \in SUBSET Alive
    BY <1>1, <1>3 DEF Register, Alive
  <2>2. PanesFine' /\ Fewer
    BY <1>1, <1>2, <2>1, SamePanes, KilledFewer
  <2>3. mishaps' \in 0..MaxMishaps /\ stale' \subseteq Pid \cup Launcher
    BY <1>1 DEF IInv, RestTyped
  <2> QED BY <1>1, <2>1, <2>2, <2>3, EnvironmentStep DEF tmux, Aged, Renewed
<1>4. CASE Accepted(w)
  <2>1. PICK x : x = [watcher[w] EXCEPT !.phase = "running"]
    OBVIOUS
  <2>2. watcher' = [watcher EXCEPT ![w] = x] /\ pidFile' = w
    BY <1>4, <2>1, Zenon DEF Register
  <2>3. /\ x \in [phase : {"none", "starting", "running", "dead"}, token : Launcher \cup {NoLauncher}]
        /\ x.phase = "running" /\ x.token = watcher[w].token
    BY <1>2, <2>1 DEF Watchers
  <2>4. /\ watcher' \in Watchers /\ watcher'[w] = x
        /\ \A v \in Pid : v # w => watcher'[v] = watcher[v]
    BY <1>2, <2>2, <2>3 DEF Watchers
  <2>5. /\ FilesTyped' /\ IntentFine'
        /\ intent'.token = intent.token /\ intent'.recovery = intent.recovery
        /\ \/ UNCHANGED intent /\ (watcher[w].token = NoLauncher \/ ~HasIntent)
           \/ intent'.pid = w
    <3>1. CASE watcher[w].token # NoLauncher /\ HasIntent
      <4>1. intent' = [intent EXCEPT !.pid = w, !.state = "completed"] /\ intent \in Intent
        BY <1>2, <1>4, <3>1 DEF Register, FilesTyped, HasIntent, NoIntent
      <4>2. /\ intent' \in Intent /\ intent'.token = intent.token
            /\ intent'.recovery = intent.recovery /\ intent'.pid = w /\ intent'.state = "completed"
        BY <4>1 DEF Intent
      <4> QED BY <1>1, <1>2, <2>2, <2>3, <2>4, <4>2 DEF FilesTyped, IntentFine
    <3>2. CASE ~(watcher[w].token # NoLauncher /\ HasIntent)
      <4>1. UNCHANGED intent
        BY <1>4, <3>2 DEF Register
      <4>2. \A v \in Pid : watcher[v].phase \in {"running", "dead"} =>
                           watcher'[v].phase \in {"running", "dead"}
        BY <1>1, <2>3, <2>4
      <4> QED BY <1>1, <1>2, <2>2, <3>2, <4>1, <4>2, IntentKept DEF FilesTyped
    <3> QED BY <3>1, <3>2
  <2>6. LockFine' /\ HolderFine' /\ PanesFine'
    BY <1>1, <1>2, SamePanes, Freed DEF LockFine
  <2>7. RecoveryFine'
    BY <1>2, <2>5, RecoveryStays
  <2>8. WatcherFine'
    <3>1. Used' = Used /\ Past' = Past
      BY <1>1, <1>2, <2>3, <2>4 DEF Used, Past
    <3>2. \A v \in Pid : watcher'[v].token = watcher[v].token
      BY <2>3, <2>4
    <3> QED BY <1>2, <2>4, <3>1, <3>2 DEF WatcherFine
  <2>9. OneFine'
    <3>1. OneFine
      BY DEF IInv
    <3>2. w \in Fresh \cup Awaited
      <4>1. CASE watcher[w].token = NoLauncher
        BY <1>1, <4>1 DEF Fresh
      <4>2. CASE /\ watcher[w].token # NoLauncher
                 /\ watcher[w].token = intent.token /\ intent.pid \in {NoPid, w}
        <5>1. intent.pid # w
          BY <1>1, <1>2, <4>2 DEF IntentFine, HasIntent
        <5> QED BY <1>1, <4>2, <5>1 DEF Awaited
      <4> QED BY <1>4, <4>1, <4>2 DEF Accepted
    <3>3. /\ Running' \subseteq Running \cup {w} /\ Fresh' \subseteq Fresh
          /\ Running \cup Fresh \cup Awaited \subseteq Pid
          /\ \A v \in Running \cup Fresh \cup Awaited : v \in Alive
      BY <2>3, <2>4 DEF Running, Fresh, Awaited, Alive
    <3>4. Awaited' \subseteq Awaited
      <4>1. CASE UNCHANGED intent
        BY <2>3, <2>4, <4>1 DEF Awaited
      <4>2. CASE intent'.pid = w
        BY <1>2, <4>2 DEF Awaited
      <4> QED BY <2>5, <4>1, <4>2
    <3>5. Written(w)'
      BY <2>2 DEF Written
    <3>6. \A v \in Pid : ~Launching(v) /\ ~Launching(v)'
      BY <1>1 DEF Launching
    <3>7. ASSUME NEW v \in Running' \cup Fresh' \cup Awaited', Counts(v)'
          PROVE  v = w
      <4>1. v = w \/ v \in Running \cup Fresh \cup Awaited
        BY <3>3, <3>4
      <4>2. CASE w \in strays
        <5>1. strays' = (strays \cup Alive) \ {w}
          BY <1>4, <4>2 DEF Register
        <5> QED BY <3>3, <3>7, <4>1, <5>1 DEF Counts
      <4>3. CASE w \notin strays
        <5>1. UNCHANGED strays
          BY <1>4, <4>3 DEF Register
        <5>2. v # w => Counts(v) /\ Counts(w)
          BY <3>3, <3>6, <3>7, <4>1, <4>3, <5>1 DEF Counts
        <5> QED BY <3>1, <3>2, <4>1, <5>2 DEF OneFine
      <4> QED BY <4>2, <4>3
    <3> QED BY <3>5, <3>7 DEF OneFine
  <2>10. RestTyped'
    BY <1>1, <1>4 DEF Register, IInv, RestTyped, Alive
  <2> QED BY <2>5, <2>6, <2>7, <2>8, <2>9, <2>10 DEF IInv
<1> QED BY <1>3, <1>4

-----------------------------------------------------------------------------
(* The invariant.                                                          *)

LEMMA InitIInv == Init => IInv
<1> SUFFICES ASSUME Init PROVE IInv
  OBVIOUS
<1>1. 1 \in Pid
  <2>1. Cardinality(Launcher) \in Nat
    BY FS_CardinalityType
  <2> QED BY <2>1 DEF Pid
<1>2. LockFine /\ RecoveryFine /\ HolderFine /\ IntentFine
  BY DEF Init, LockFine, Stage, Resting, RecoveryFine, HasRecovery, HolderFine, IntentFine,
         HasIntent, NoIntent
<1>3. PanesFine
  <2>1. up \in BOOLEAN
    BY Zenon DEF Init
  <2> QED BY <2>1 DEF Init, PanesFine
<1>4. FilesTyped
  BY <1>1 DEF Init, FilesTyped, NoIntent
<1>5. /\ watcher \in Watchers
      /\ \A w \in Pid : /\ watcher[w].token = NoLauncher
                        /\ watcher[w].phase = IF w = 1 THEN "running" ELSE "none"
  BY DEF Init, Watchers
<1>6. WatcherFine
  <2>1. Used = {1} /\ Past = {}
    BY <1>1, <1>5 DEF Init, Used, Past, Before
  <2>2. Cardinality(Used) = 1 /\ Cardinality(Past) = 0
    BY <2>1, FS_Singleton, FS_EmptySet
  <2> QED BY <1>5, <2>2 DEF WatcherFine
<1>7. OneFine
  <2>1. Running = {1} /\ Fresh = {} /\ Awaited = {} /\ pidFile = 1
    BY <1>1, <1>5 DEF Init, Running, Fresh, Awaited
  <2> QED BY <2>1 DEF OneFine, Written
<1>8. RestTyped
  BY DEF Init, RestTyped
<1> QED BY <1>2, <1>3, <1>4, <1>6, <1>7, <1>8 DEF IInv

LEMMA NextKeeps == IInv /\ [Next]_vars => IInv'
<1> SUFFICES ASSUME IInv, [Next]_vars PROVE IInv'
  OBVIOUS
<1>1. ASSUME NEW l \in Launcher, StartSession(l) \/ CreateIntent(l) \/ Begin(l) \/ Die(l)
      PROVE  IInv'
  BY <1>1, CreateIntentKeeps, BeginKeeps, EndsKeep
<1>2. ASSUME NEW l \in Launcher, LauncherStep(l)
      PROVE  IInv'
  BY <1>2, EnterDevKeeps, EnterKeeps, StopExistingKeeps, CloseOwnedKeeps, SpawnKeeps,
     WritePidKeeps, BeginKeeps, EnterStartKeeps, SplitKeeps, MarkTokenKeeps, MarkAgentKeeps,
     OwnKeeps, SelectKeeps,
     PreserveIntentKeeps, PreserveOwnerKeeps, ForgetRecoveryKeeps, EndsKeep, ClearIntentKeeps
     DEF LauncherStep
<1>3. ASSUME NEW w \in Pid, Register(w) \/ Dies(w) \/ Leaves(w)
      PROVE  IInv'
  BY <1>3, RegisterKeeps, EndedKeeps
<1>4. CASE IntentAges \/ PaneCloses \/ UserSplits \/ SessionEnds
  BY <1>4, IntentAgesKeeps, PaneClosesKeeps, UserSplitsKeeps, SessionEndsKeeps
<1>5. CASE UNCHANGED vars
  BY <1>5, StutterKeeps
<1> QED BY <1>1, <1>2, <1>3, <1>4, <1>5 DEF Next

LEMMA AlwaysIInv == Spec => []IInv
BY InitIInv, NextKeeps, PTL DEF Spec

-----------------------------------------------------------------------------
(* What follows from it.                                                   *)

\* The types of what restart-watch keeps: the files name watchers and panes that
\* were made, an intent is completed by a watcher, and who has the lock is at work.
THEOREM TypeCorrect == Spec => []TypeOK
<1>1. IInv => TypeOK
  <2> SUFFICES ASSUME IInv PROVE TypeOK
    OBVIOUS
  <2>1. LockFine /\ PanesFine /\ FilesTyped /\ IntentFine /\ WatcherFine
    BY DEF IInv
  <2>2. \A p \in panes : p.id \in 1..opened /\ p.server = server /\ p.pid \in Pid \cup {Users}
    BY <2>1 DEF PanesFine, Pane
  <2>3. \A w \in Pid : watcher[w].phase \in {"none", "starting", "running", "dead"}
    BY <2>1 DEF WatcherFine, Watchers
  <2>4. intent.recovery \in Owner \cup {NoOwner}
    BY <2>1 DEF FilesTyped, Intent, NoIntent
  <2>5. \A l \in Launcher : lock = l =>
          pc[l] \notin {"idle", "enter", "clear", "launch", "enterStart", "done", "failed"}
    BY <2>1 DEF LockFine, Resting
  <2> QED BY <2>1, <2>2, <2>3, <2>4, <2>5 DEF TypeOK, IInv, PanesFine, FilesTyped, IntentFine, RestTyped
<1> QED BY <1>1, AlwaysIInv, PTL

\* However starts and restart-watch commands overlap, fail and are killed, an agent
\* has one watcher in its loop at most, and the pid file names it when the lock is
\* free, but for those that a start did not stop, that pushed themselves into the
\* pid file after that, or whose launch was killed before it wrote that file.
THEOREM OneWatcherHolds == Spec => []OneWatcher
<1>1. IInv => OneWatcher
  <2> SUFFICES ASSUME IInv PROVE OneWatcher
    OBVIOUS
  <2>1. OneFine /\ LockFine /\ HolderFine
    BY DEF IInv
  <2>2. \A w \in Running : ~Launching(w)
    BY <2>1 DEF Launching, HolderFine, Holder, Running
  <2>3. \A w \in Running \ strays : Counts(w)
    BY <2>2 DEF Counts
  <2>4. Cardinality(Running \ strays) <= 1
    <3>1. CASE Running \ strays = {}
      BY <3>1, FS_EmptySet
    <3>2. CASE Running \ strays # {}
      <4>1. PICK w : w \in Running \ strays
        BY <3>2
      <4>2. Running \ strays = {w}
        BY <2>1, <2>3, <4>1 DEF OneFine
      <4>3. Cardinality(Running \ strays) = 1
        BY <4>2, FS_Singleton, Zenon
      <4> QED BY <4>3
    <3> QED BY <3>1, <3>2
  <2>5. lock = NoLauncher => Running \ strays \subseteq {pidFile}
    BY <2>1, <2>3 DEF OneFine, Written
  <2> QED BY <2>4, <2>5 DEF OneWatcher
<1> QED BY <1>1, AlwaysIInv, PTL

\* No command closes or marks away a pane of a user's, though a new tmux server
\* gives it the number of a pane that was once the watcher's.
THEOREM UsersPanesStayHolds == Spec => UsersPanesStay
<1> DEFINE Stay == \A p \in panes : p.pid = Users /\ up' => p \in panes'
<1>1. ASSUME IInv, NEW l \in Launcher,
             LauncherStep(l) \/ StartSession(l) \/ CreateIntent(l) \/ Begin(l) \/ Die(l)
      PROVE  Stay
  <2>1. CASE UNCHANGED panes
    BY <2>1
  <2>2. CASE CloseOwned(l)
    <3>1. PanesFine /\ watcher \in Watchers /\ owner \in Owner \cup {NoOwner}
      BY <1>1 DEF IInv, WatcherFine, FilesTyped
    <3>2. UNCHANGED panes \/ (owner \in Owner /\ Closes(owner))
      BY <2>2, <3>1 DEF CloseOwned
    <3> QED BY <3>1, <3>2, ClosesFacts
  <2>3. CASE Split(l)
    BY <2>3 DEF Split, SplitPane
  <2>4. CASE MarkToken(l) \/ MarkAgent(l)
    <3>1. pc[l] \notin Resting /\ pc[l] \in Owning
      BY <2>4 DEF MarkToken, MarkAgent, Resting, Owning
    <3>2. PanesFine /\ Made(l)
      BY <1>1, <3>1, Holds DEF Holder
    <3>3. /\ UNCHANGED panes \/ Marked(l, l, FALSE) \/ Marked(l, l, TRUE)
          /\ UNCHANGED <<up, server, opened>>
      BY <2>4 DEF MarkToken, MarkAgent
    <3>4. TRUE \in BOOLEAN /\ FALSE \in BOOLEAN
      BY Zenon
    <3> QED BY <3>2, <3>3, <3>4, MarkedFacts
  <2>5. CASE Own(l)
    <3>1. pc[l] \notin Resting /\ pc[l] \in Owning
      BY <2>5 DEF Own, Resting, Owning
    <3>2. PanesFine /\ watcher \in Watchers /\ made[l] \in Owner
      BY <1>1, <3>1, Holds DEF Holder, Made
    <3>3. UNCHANGED panes \/ Closes(made[l])
      BY <2>5 DEF Own
    <3> QED BY <3>2, <3>3, ClosesFacts
  <2>6. CASE ~(CloseOwned(l) \/ Split(l) \/ MarkToken(l) \/ MarkAgent(l) \/ Own(l))
    <3>1. UNCHANGED panes
      BY <1>1, <2>6 DEF LauncherStep, StartSession, CreateIntent, Begin, Die, EnterDev, Enter,
           StopExisting, ReadPane, EnterStart, Spawn, WritePid, Select, PreserveIntent,
           PreserveOwner, ForgetRecovery, Fail, ClearIntent, tmux
    <3> QED BY <3>1
  <2> QED BY <2>2, <2>3, <2>4, <2>5, <2>6
<1>2. ASSUME NEW w \in Pid, Register(w) \/ Dies(w) \/ Leaves(w)
      PROVE  Stay
  BY <1>2 DEF Register, Dies, Leaves, tmux
<1>3. ASSUME IntentAges \/ PaneCloses \/ UserSplits \/ SessionEnds
      PROVE  Stay
  <2>1. CASE SessionEnds
    <3>1. up' = FALSE
      BY <2>1 DEF SessionEnds
    <3> QED BY <3>1
  <2>2. CASE IntentAges \/ PaneCloses \/ UserSplits
    BY <2>2 DEF IntentAges, PaneCloses, UserSplits, tmux
  <2> QED BY <1>3, <2>1, <2>2
<1>4. IInv /\ [Next]_vars => [Stay]_vars
  <2> HIDE DEF Stay
  <2>1. IInv /\ Next => Stay
    BY <1>1, <1>2, <1>3, Zenon DEF Next
  <2> QED BY <2>1
<1> QED BY <1>4, AlwaysIInv, PTL DEF Spec, UsersPanesStay

\* What is on file stays there, unless its pane is gone.
RecordsStay == {owner, intent.recovery} \ {NoOwner} \subseteq {owner', (intent.recovery)'}
FileStays == \A p \in panes : OnFile(p) /\ (\E q \in panes' : q.id = p.id) => OnFile(p)'

LEMMA RecordedStays ==
  ASSUME RecordsStay
  PROVE  FileStays
BY DEF RecordsStay, FileStays, OnFile

\* A recovery is put in the owner's file before it is taken from the intent's.
LEMMA MaterializedStays ==
  ASSUME ~RecoveryConflicts, owner' = Materialized
  PROVE  RecordsStay
BY DEF RecordsStay, RecoveryConflicts, Materialized, HasRecovery

LEMMA CommandFileStays ==
  ASSUME IInv, NEW l \in Launcher,
         StartSession(l) \/ CreateIntent(l) \/ Begin(l) \/ LauncherStep(l) \/ Die(l)
  PROVE  FileStays
<1>1. CASE UNCHANGED <<owner, intent>>
  BY <1>1, RecordedStays DEF RecordsStay
<1>2. CASE CreateIntent(l) \/ Enter(l)
  <2>1. UNCHANGED <<owner, intent>> \/ (~RecoveryConflicts /\ owner' = Materialized)
    BY <1>2 DEF CreateIntent, Enter
  <2> QED BY <1>1, <2>1, MaterializedStays, RecordedStays
<1>3. CASE CloseOwned(l)
  <2>1. CASE owner = NoOwner \/ UNCHANGED owner
    BY <1>3, <2>1, RecordedStays DEF CloseOwned, RecordsStay
  <2>2. CASE owner # NoOwner /\ ~UNCHANGED owner
    <3>1. panes' = panes \ At(owner) /\ UNCHANGED intent
      BY <1>3, <2>2 DEF CloseOwned, Closes
    <3>2. ASSUME NEW p \in panes, NEW q \in panes', q.id = p.id PROVE p.id # owner.pane
      BY <3>1, <3>2 DEF At
    <3> QED BY <3>1, <3>2 DEF FileStays, OnFile
  <2> QED BY <2>1, <2>2
<1>4. CASE Own(l) \/ PreserveOwner(l)
  <2>1. pc[l] \notin Resting /\ pc[l] \in Unowned
    BY <1>4 DEF Own, PreserveOwner, Resting, Unowned, Owning
  <2>2. owner = NoOwner
    BY <2>1, Holds DEF Holder
  <2>3. UNCHANGED intent
    BY <1>4 DEF Own, PreserveOwner
  <2> QED BY <2>2, <2>3, RecordedStays DEF RecordsStay
<1>5. CASE PreserveIntent(l)
  <2>1. pc[l] \notin Resting /\ pc[l] \in Working /\ pc[l] \in Owning /\ pc[l] \notin Departing
    BY <1>5 DEF PreserveIntent, Resting, Working, Owning, Departing, Recovering
  <2>2. intent.token = l /\ RecoveryFine
    BY <2>1, Holds DEF Holder
  <2>3. intent.recovery = NoOwner
    BY <2>1, <2>2 DEF RecoveryFine, Departing, HasRecovery
  <2>4. UNCHANGED owner
    BY <1>5 DEF PreserveIntent
  <2> QED BY <2>3, <2>4, RecordedStays DEF RecordsStay
<1>6. CASE ForgetRecovery(l)
  <2>1. pc[l] = "forget" /\ UNCHANGED <<tmux, owner>>
    BY <1>6 DEF ForgetRecovery
  <2>2. Holder(l)
    BY <2>1, Holds DEF Resting
  <2>3. intent.recovery = made[l] /\ Made(l)
    BY <2>1, <2>2 DEF Holder, Recovering, Owning
  <2>4. \A p \in panes : p.server = made[l].server => p.id # made[l].pane
    BY <2>1, <2>3 DEF Made
  <2> QED BY <2>1, <2>3, <2>4 DEF FileStays, OnFile
<1>7. CASE ClearIntent(l)
  <2>1. UNCHANGED owner /\ (UNCHANGED intent \/ ~HasRecovery)
    BY <1>7 DEF ClearIntent
  <2> QED BY <1>1, <2>1, RecordedStays DEF RecordsStay, HasRecovery
<1>8. CASE \/ StartSession(l) \/ ReadPane(l) \/ EnterStart(l)
           \/ Begin(l) \/ Die(l) \/ EnterDev(l) \/ StopExisting(l) \/ Spawn(l) \/ WritePid(l)
           \/ Split(l) \/ MarkToken(l) \/ MarkAgent(l) \/ Select(l) \/ Fail(l)
  <2>1. UNCHANGED <<owner, intent>>
    BY <1>8 DEF StartSession, ReadPane, EnterStart, Begin, Die, EnterDev, StopExisting, Spawn,
         WritePid, Split, MarkToken, MarkAgent, Select, Fail, files
  <2> QED BY <1>1, <2>1
<1> QED BY <1>2, <1>3, <1>4, <1>5, <1>6, <1>7, <1>8 DEF LauncherStep

LEMMA OthersFileStays ==
  ASSUME IInv, \/ \E w \in Pid : Register(w) \/ Dies(w) \/ Leaves(w)
               \/ IntentAges \/ PaneCloses \/ UserSplits \/ SessionEnds
  PROVE  FileStays
<1>1. ASSUME intent \in Intent, NEW w \in Pid, UNCHANGED owner,
             \/ intent' = [intent EXCEPT !.pid = w, !.state = "completed"]
             \/ intent' = [intent EXCEPT !.fresh = FALSE]
      PROVE  FileStays
  <2>1. (intent.recovery)' = intent.recovery
    BY <1>1 DEF Intent
  <2> QED BY <1>1, <2>1, RecordedStays DEF RecordsStay
<1>2. CASE UNCHANGED <<owner, intent>>
  BY <1>2, RecordedStays DEF RecordsStay
<1>3. HasIntent => intent \in Intent
  BY DEF IInv, FilesTyped, HasIntent, NoIntent
<1>4. CASE IntentAges
  <2>1. 1 \in Pid
    BY CountTypes DEF Pid
  <2> QED BY <1>1, <1>3, <1>4, <2>1 DEF IntentAges
<1>5. ASSUME NEW w \in Pid, Register(w) \/ Dies(w) \/ Leaves(w)
      PROVE  FileStays
  <2>1. \/ UNCHANGED <<owner, intent>>
        \/ /\ UNCHANGED owner /\ HasIntent
           /\ intent' = [intent EXCEPT !.pid = w, !.state = "completed"]
    BY <1>5, Zenon DEF Register, Dies, Leaves, files
  <2> QED BY <1>1, <1>2, <1>3, <2>1
<1>6. CASE PaneCloses \/ UserSplits \/ SessionEnds
  <2>1. UNCHANGED <<owner, intent>>
    BY <1>6 DEF PaneCloses, UserSplits, SessionEnds, files
  <2> QED BY <1>2, <2>1
<1> QED BY <1>4, <1>5, <1>6

\* A pane that could not be closed stays on file, as the owned one or in the intent's
\* recovery, for the next command, as long as the pane exists.
THEOREM PanesStayOnFileHolds == Spec => PanesStayOnFile
<1>1. IInv /\ Next => FileStays
  BY CommandFileStays, OthersFileStays DEF Next
<1>2. IInv /\ [Next]_vars => [FileStays]_vars
  BY <1>1
<1> QED BY <1>2, AlwaysIInv, PTL DEF Spec, PanesStayOnFile, FileStays

================================================================================
