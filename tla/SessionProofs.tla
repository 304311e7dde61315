---------------------------- MODULE SessionProofs ----------------------------
(* Theorems about what runs and what grades a session: first Worker and the   *)
(* spawn registry it runs beside, for every number of sessions, forks and     *)
(* tasks and every choice of their names; then Judging, for every set of      *)
(* judges, groups and ratchets, every output, and every condition.            *)
EXTENDS Worker, Judging, FiniteSetTheorems, TLAPS


------------------------------------------------------------------------------
(* The inductive invariants.                                                  *)

\* The names a task may be given, and the entries of the registry.
Names == UNION {Handles[t] : t \in 1 .. MaxTasks}
Entry == [name : Names, task : 1 .. MaxTasks, status : {"running", "done"}]

\* What an `agg spawn` and the loop's scan hold between their load and their save.
Spawning ==
    \/ spawner = NoCopy
    \/ /\ spawner.at = "started" /\ spawner.copy \subseteq Entry
       /\ spawner.entry \in Entry /\ spawner.entry.task <= spawned
       /\ spawner.entry.status = "running"
Scanning == scanner = NoCopy \/ (scanner.at = "loaded" /\ scanner.copy \subseteq Entry)

Recorded ==
    /\ spawned \in 0 .. MaxTasks /\ Spawning /\ Scanning
    /\ \A e \in owed : e.task <= spawned

\* A pid-by-pid sweep is under way only beside a registered task, and with none nothing of a
\* group outlives its session.
Swept ==
    /\ pc \in {"listed", "relisted"} => protected # {}
    /\ pc \in {"boundary", "scan", "brief", "launch", "ended"} /\ protected = {} => kids = {}

\* Every entry that is due is in the registry, running while its task runs, and so it is in
\* the copy a scan is about to save; it stays due while its task or its log is there.
ToldBy(entries, e) ==
    \E a \in entries :
        a.task = e.task /\ a.name = e.name /\ (e.task \in alive => a.status = "running")
Told ==
    /\ \A e \in owed : (e.task \in alive \/ e.name \in logs) /\ ToldBy(registry, e)
    /\ scanner # NoCopy => \A e \in owed : ToldBy(scanner.copy, e)

\* A list of the group's processes is kept only between its ps and its kills, and a session
\* is begun only within the limit.
Paced ==
    /\ pc \notin {"listed", "relisted"} => listed = {}
    /\ pc \in {"scan", "brief", "launch"} => session < MaxSession

------------------------------------------------------------------------------
(* The registry of long tasks.                                                *)

\* The bounds of an instance are natural numbers, and every task has its names.
LEMMA Bounds ==
  /\ MaxTasks \in Nat /\ MaxFork \in Nat /\ MaxSession \in Nat
  /\ \A t \in 1 .. MaxTasks : Handles[t] \subseteq Names
<1>1. MaxTasks \in Nat
  BY SpawnsAssumption DEF MaxTasks
<1> QED BY <1>1, BoundsAssumption DEF Names

\* The registry and what is due hold entries, the tasks that run were spawned.
Registered == RegistryOK /\ Recorded

\* What the registry's invariant says, variable by variable.
LEMMA RegistryShape ==
  Registered <=>
    /\ registry \subseteq Entry /\ owed \subseteq Entry
    /\ alive \subseteq 1 .. spawned /\ logs \subseteq Names
    /\ spawner.at \in {"idle", "started"} /\ scanner.at \in {"idle", "loaded"}
    /\ Recorded
BY DEF Registered, RegistryOK, Entry, Names

\* The same of the next state.
LEMMA RegistryShapeNext ==
  Registered' <=>
    /\ registry' \subseteq Entry /\ owed' \subseteq Entry
    /\ alive' \subseteq 1 .. spawned' /\ logs' \subseteq Names
    /\ spawner'.at \in {"idle", "started"} /\ scanner'.at \in {"idle", "loaded"}
    /\ Recorded'
BY DEF Registered, RegistryOK, Entry, Names

\* A registry without a name, and what of it is due, hold nothing new.
LEMMA Fewer ==
  ASSUME NEW entries, NEW name
  PROVE  Without(entries, name) \subseteq entries /\ Due(entries) \subseteq entries
BY DEF Without, Due

\* A scan keeps entries entries.
LEMMA ScanShape ==
  ASSUME NEW entries, entries \subseteq Entry
  PROVE  Scanned(entries) \subseteq Entry
<1> SUFFICES ASSUME NEW e \in Scanned(entries) PROVE e \in Entry
  OBVIOUS
<1>1. PICK x \in entries : e = [x EXCEPT !.status = IF x.task \in alive THEN x.status ELSE "done"]
  BY DEF Scanned
<1>2. x \in Entry
  OBVIOUS
<1> QED BY <1>1, <1>2 DEF Entry

\* Nothing was spawned at first.
LEMMA RegisteredInit == SpawnsInit => Registered
<1> SUFFICES ASSUME SpawnsInit PROVE Registered
  OBVIOUS
<1>1. spawner.at = "idle" /\ scanner.at = "idle" /\ spawner = NoCopy /\ scanner = NoCopy
  BY DEF SpawnsInit, NoCopy
<1> QED BY <1>1, Bounds, RegistryShape DEF SpawnsInit, Recorded, Spawning, Scanning

\* The steps of the registry: those of `agg spawn`, of the tasks and of the loop's scan.
RegistryStep == Spawner \/ TaskEnds \/ LogRemoved \/ ScanLoads \/ ScanSaves

\* Every one of them keeps the registry's shape, and takes back no spawned task.
LEMMA RegisteredNext ==
  ASSUME Registered, RegistryStep
  PROVE  Registered' /\ spawned' \in Nat /\ spawned <= spawned'
<1>0. /\ registry \subseteq Entry /\ owed \subseteq Entry
      /\ alive \subseteq 1 .. spawned /\ logs \subseteq Names
      /\ spawner.at \in {"idle", "started"} /\ scanner.at \in {"idle", "loaded"}
      /\ spawned \in 0 .. MaxTasks /\ Spawning /\ Scanning
      /\ \A e \in owed : e.task <= spawned
  BY RegistryShape DEF Recorded
<1>a. MaxTasks \in Nat
  BY Bounds
<1>1. CASE SpawnStarts
  <2>1. PICK n \in Handles[spawned + 1] :
             /\ spawned' = spawned + 1 /\ alive' = alive \cup {spawned'} /\ logs' = logs \cup {n}
             /\ spawner' = [at |-> "started", copy |-> IF Overlaps THEN registry ELSE {},
                            entry |-> [name |-> n, task |-> spawned', status |-> "running"]]
    BY <1>1 DEF SpawnStarts
  <2>2. spawned' \in 1 .. MaxTasks /\ UNCHANGED <<registry, scanner, owed>>
    BY <1>0, <1>1, <1>a, <2>1 DEF SpawnStarts
  <2>3. n \in Names
    BY <1>0, <1>a, <2>1, <2>2, Bounds
  <2>4. [name |-> n, task |-> spawned', status |-> "running"] \in Entry
    BY <2>2, <2>3 DEF Entry
  <2>5. spawner'.at = "started" /\ spawner'.copy \subseteq Entry
        /\ spawner'.entry = [name |-> n, task |-> spawned', status |-> "running"]
    BY <1>0, <2>1
  <2>6. Spawning'
    BY <2>2, <2>4, <2>5 DEF Spawning
  <2>7. alive' \subseteq 1 .. spawned' /\ logs' \subseteq Names
    BY <1>0, <1>a, <2>1, <2>3
  <2>8. \A e \in owed' : e.task <= spawned'
    <3>1. \A e \in owed : e.task \in Nat
      BY <1>0 DEF Entry
    <3> QED BY <1>0, <1>a, <2>1, <2>2, <3>1
  <2>9. Scanning'
    BY <1>0, <2>2 DEF Scanning
  <2>10. Recorded'
    BY <1>a, <2>2, <2>6, <2>8, <2>9 DEF Recorded
  <2> QED BY <1>0, <1>a, <2>1, <2>2, <2>5, <2>7, <2>10, RegistryShapeNext
<1>2. CASE RegisterTask
  <2> DEFINE e == spawner.entry
  <2>1. /\ spawner.at = "started" /\ spawner' = NoCopy
        /\ UNCHANGED <<alive, logs, scanner, spawned>>
        /\ owed' = Due(Without(owed, e.name) \cup {e})
    BY <1>2 DEF RegisterTask
  <2>2. PICK copy \in {registry, spawner.copy} : registry' = Without(copy, e.name) \cup {e}
    BY <1>2 DEF RegisterTask
  <2>3. spawner # NoCopy
    BY <2>1 DEF NoCopy
  <2>4. spawner.copy \subseteq Entry /\ e \in Entry /\ e.task <= spawned
    BY <1>0, <2>3 DEF Spawning
  <2> HIDE DEF e
  <2>5. registry' \subseteq Entry /\ owed' \subseteq Entry
    <3>1. copy \subseteq Entry
      BY <1>0, <2>4
    <3>2. Without(copy, e.name) \subseteq Entry /\ Without(owed, e.name) \subseteq Entry
      BY <1>0, <3>1, Fewer
    <3> QED BY <2>1, <2>2, <2>4, <3>2, Fewer
  <2>6. \A f \in owed' : f.task <= spawned
    <3>1. owed' \subseteq Without(owed, e.name) \cup {e} /\ Without(owed, e.name) \subseteq owed
      BY <2>1, Fewer
    <3> QED BY <1>0, <2>4, <3>1
  <2>7. spawner'.at = "idle" /\ Spawning' /\ Scanning'
    BY <1>0, <2>1 DEF NoCopy, Spawning, Scanning
  <2>8. Recorded'
    BY <1>0, <2>1, <2>6, <2>7 DEF Recorded
  <2> QED BY <1>0, <1>a, <2>1, <2>5, <2>7, <2>8, RegistryShapeNext
<1>3. CASE RegisterFails
  <2>1. spawner' = NoCopy /\ UNCHANGED <<registry, alive, logs, scanner, spawned, owed>>
    BY <1>3 DEF RegisterFails
  <2>2. spawner'.at = "idle" /\ Spawning' /\ Scanning' /\ Recorded'
    BY <1>0, <2>1 DEF NoCopy, Spawning, Scanning, Recorded
  <2> QED BY <1>0, <1>a, <2>1, <2>2, RegistryShapeNext
<1>4. CASE TaskEnds \/ LogRemoved
  <2>1. /\ alive' \subseteq alive /\ logs' \subseteq logs /\ owed' = Due(owed)
        /\ UNCHANGED <<registry, spawner, scanner, spawned>>
    BY <1>4 DEF TaskEnds, LogRemoved
  <2>2. owed' \subseteq owed
    BY <2>1, Fewer
  <2>3. Recorded'
    BY <1>0, <2>1, <2>2 DEF Recorded, Spawning, Scanning
  <2> QED BY <1>0, <1>a, <2>1, <2>2, <2>3, RegistryShapeNext
<1>5. CASE ScanLoads
  <2>1. /\ scanner' = scanner \/ scanner' = [at |-> "loaded", copy |-> Scanned(registry)]
        /\ UNCHANGED <<registry, alive, logs, spawner, spawned, owed>>
    BY <1>5 DEF ScanLoads
  <2>2. Scanned(registry) \subseteq Entry
    BY <1>0, ScanShape
  <2>3. scanner'.at \in {"idle", "loaded"} /\ Scanning'
    BY <1>0, <2>1, <2>2 DEF Scanning
  <2>4. Recorded'
    BY <1>0, <2>1, <2>3 DEF Recorded, Spawning
  <2> QED BY <1>0, <1>a, <2>1, <2>3, <2>4, RegistryShapeNext
<1>6. CASE ScanSaves
  <2>1. /\ scanner.at = "loaded" /\ registry' = scanner.copy /\ scanner' = NoCopy
        /\ UNCHANGED <<alive, logs, spawner, spawned, owed>>
    BY <1>6 DEF ScanSaves
  <2>2. scanner # NoCopy
    BY <2>1 DEF NoCopy
  <2>3. scanner.copy \subseteq Entry
    BY <1>0, <2>2 DEF Scanning
  <2>4. scanner'.at = "idle" /\ Scanning'
    BY <2>1 DEF Scanning, NoCopy
  <2>5. Recorded'
    BY <1>0, <2>1, <2>4 DEF Recorded, Spawning
  <2> QED BY <1>0, <1>a, <2>1, <2>3, <2>4, <2>5, RegistryShapeNext
<1> QED BY <1>1, <1>2, <1>3, <1>4, <1>5, <1>6 DEF RegistryStep, Spawner

\* Nothing is due at first.
LEMMA ToldInit == SpawnsInit => Told
BY DEF SpawnsInit, Told

\* Without overlapping saves, every step keeps what is due in the registry and in the copy a
\* scan holds: a registration waits for the scan's save, and a scan drops only what has
\* neither its task nor its log.
LEMMA ToldNext ==
  ASSUME ~Overlaps, Registered, Told, RegistryStep
  PROVE  Told'
<1>0. /\ registry \subseteq Entry /\ owed \subseteq Entry
      /\ spawned \in Nat /\ \A e \in owed : e.task <= spawned /\ e.task \in Nat
  <2>1. \A e \in Entry : e.task \in Nat
    BY DEF Entry
  <2> QED BY <2>1, Bounds, RegistryShape DEF Recorded
<1>1. CASE SpawnStarts
  <2>1. /\ alive' = alive \cup {spawned'} /\ spawned' = spawned + 1 /\ logs \subseteq logs'
        /\ UNCHANGED <<registry, scanner, owed>>
    BY <1>1 DEF SpawnStarts
  <2>2. \A e \in owed : e.task \in alive' <=> e.task \in alive
    BY <1>0, <2>1
  <2> QED BY <2>1, <2>2 DEF Told, ToldBy
<1>2. CASE RegisterTask
  <2> DEFINE e == spawner.entry
  <2>1. /\ scanner = NoCopy /\ registry' = Without(registry, e.name) \cup {e}
        /\ UNCHANGED <<alive, logs, scanner, spawned>>
        /\ owed' = Due(Without(owed, e.name) \cup {e})
    BY <1>2 DEF RegisterTask
  <2>2. e.status = "running"
    <3>1. spawner.at = "started"
      BY <1>2 DEF RegisterTask
    <3>2. spawner # NoCopy
      BY <3>1 DEF NoCopy
    <3> QED BY <3>2 DEF Registered, Recorded, Spawning
  <2> HIDE DEF e
  <2>3. ASSUME NEW f \in owed'
        PROVE  /\ f.task \in alive' \/ f.name \in logs'
               /\ ToldBy(registry, f)'
    <3>1. /\ f \in Without(owed, e.name) \cup {e}
          /\ f.task \in alive' \/ f.name \in logs'
      BY <2>1, <2>3 DEF Due
    <3>2. CASE f = e
      BY <2>1, <2>2, <3>1, <3>2 DEF ToldBy
    <3>3. CASE f \in owed /\ f.name # e.name
      <4>1. PICK a \in registry :
              a.task = f.task /\ a.name = f.name /\ (f.task \in alive => a.status = "running")
        BY <3>3 DEF Told, ToldBy
      <4>2. a \in registry'
        BY <2>1, <3>3, <4>1 DEF Without
      <4> QED BY <2>1, <3>1, <4>1, <4>2 DEF ToldBy
    <3> QED BY <3>1, <3>2, <3>3 DEF Without
  <2> QED BY <2>1, <2>3 DEF Told
<1>3. CASE RegisterFails
  BY <1>3 DEF RegisterFails, Told, ToldBy
<1>4. CASE TaskEnds \/ LogRemoved
  <2>1. /\ alive' \subseteq alive /\ owed' = Due(owed) /\ UNCHANGED <<registry, scanner>>
    BY <1>4 DEF TaskEnds, LogRemoved
  <2>2. \A e \in owed' : e \in owed /\ (e.task \in alive' \/ e.name \in logs')
    BY <2>1 DEF Due
  <2> QED BY <2>1, <2>2 DEF Told, ToldBy
<1>5. CASE ScanLoads
  <2>1. UNCHANGED <<registry, alive, logs, owed>>
    BY <1>5 DEF ScanLoads
  <2>2. scanner = NoCopy
    BY <1>5 DEF ScanLoads
  <2>3. CASE scanner' = scanner
    BY <2>1, <2>2, <2>3 DEF Told, ToldBy
  <2>4. CASE scanner' = [at |-> "loaded", copy |-> Scanned(registry)]
    <3>1. scanner'.copy = Scanned(registry)
      BY <2>4
    <3>2. ASSUME NEW e \in owed PROVE ToldBy(Scanned(registry), e)
      <4>1. PICK a \in registry :
              a.task = e.task /\ a.name = e.name /\ (e.task \in alive => a.status = "running")
        BY DEF Told, ToldBy
      <4> DEFINE x == [a EXCEPT !.status = IF a.task \in alive THEN a.status ELSE "done"]
      <4>2. a \in Entry
        BY <1>0
      <4>3. /\ x.task = e.task /\ x.name = e.name /\ (e.task \in alive => x.status = "running")
        BY <4>1, <4>2 DEF Entry
      <4>4. Kept(x)
        BY <4>3 DEF Kept, Told
      <4>5. x \in Scanned(registry)
        BY <4>4 DEF Scanned
      <4> HIDE DEF x
      <4> QED BY <4>3, <4>5 DEF ToldBy
    <3> QED BY <2>1, <3>1, <3>2 DEF Told, ToldBy
  <2> QED BY <1>5, <2>3, <2>4 DEF ScanLoads
<1>6. CASE ScanSaves
  <2>1. /\ scanner # NoCopy /\ registry' = scanner.copy /\ scanner' = NoCopy
        /\ UNCHANGED <<alive, logs, owed>>
    BY <1>6 DEF ScanSaves, NoCopy
  <2> QED BY <2>1 DEF Told, ToldBy
<1> QED BY <1>1, <1>2, <1>3, <1>4, <1>5, <1>6 DEF RegistryStep, Spawner

------------------------------------------------------------------------------
(* The session's threads.                                                     *)

\* The inductive invariant of the state's shape.
Typed == TypeOK /\ Recorded /\ Paced

\* The shape of the state beside the registry: its ranges, its flags, and how the phase goes
\* with the worker, the registration and the threads.
Ranges ==
    /\ worker \in {"none", "running", "zombie", "gone"}
    /\ kids \subseteq 1 .. forks /\ listed \subseteq 1 .. forks /\ forks \in 0 .. MaxFork
    /\ pc \in Phases /\ session \in 0 .. MaxSession
    /\ reader \in {"off", "reading", "sent"} /\ watchdog \in {"off", "watching", "armed"}
    /\ signaller \in {"idle", "flagged", "loaded"}
Flags ==
    /\ hung \in BOOLEAN /\ pipe \in BOOLEAN /\ harmed \in BOOLEAN
    /\ registered \in BOOLEAN /\ interrupted \in BOOLEAN /\ done \in BOOLEAN
Staged ==
    /\ pc \in {"register", "wait"} <=> worker \in {"running", "zombie"}
    /\ registered <=> pc \in {"wait", "unregister"}
    /\ done => pc \notin {"register", "wait", "unregister", "flag"}
    /\ pc \in {"resweep", "relisted"} => watchdog = "off"

\* Every step leaves the registry alone or is one of its own, and only the loop's scan and the
\* tasks take those.
LEMMA RegistrySteps ==
  ASSUME [Next]_vars
  PROVE  RegistryStep \/ UNCHANGED registryVars
<1>1. CASE UNCHANGED vars
  BY <1>1 DEF vars
<1>2. CASE MainThread
  <2>1. CASE Boundary
    BY <2>1 DEF Boundary, Calm, Reap, RegistryStep
  <2>2. CASE Scan
    BY <2>2 DEF Scan, Calm, Reap, RegistryStep
  <2>3. CASE Brief
    BY <2>3 DEF Brief, Calm, Reap, RegistryStep
  <2>4. CASE Launch
    BY <2>4 DEF Launch, Calm, Reap, RegistryStep
  <2>5. CASE LaunchFails
    BY <2>5 DEF LaunchFails, Calm, Reap, RegistryStep
  <2>6. CASE Register
    BY <2>6 DEF Register, Calm, Reap, RegistryStep
  <2>7. CASE Wait
    BY <2>7 DEF Wait, Calm, Reap, RegistryStep
  <2>8. CASE Unregister
    BY <2>8 DEF Unregister, Calm, Reap, RegistryStep
  <2>9. CASE Flag
    BY <2>9 DEF Flag, Calm, Reap, RegistryStep
  <2>10. CASE Sweep
    BY <2>10 DEF Sweep, Calm, Reap, RegistryStep
  <2>11. CASE SweepListed("listed", "collect")
    BY <2>11 DEF SweepListed, Calm, Reap, RegistryStep
  <2>12. CASE Collect
    BY <2>12 DEF Collect, Calm, Reap, RegistryStep
  <2>13. CASE Join
    BY <2>13 DEF Join, Calm, Reap, RegistryStep
  <2>14. CASE Resweep
    BY <2>14 DEF Resweep, Calm, Reap, RegistryStep
  <2>15. CASE SweepListed("relisted", "boundary")
    BY <2>15 DEF SweepListed, Calm, Reap, RegistryStep
  <2> QED BY <1>2, <2>1, <2>2, <2>3, <2>4, <2>5, <2>6, <2>7, <2>8, <2>9, <2>10, <2>11, <2>12, <2>13, <2>14, <2>15 DEF MainThread
<1>3. CASE ReaderEnds \/ Watchdog \/ Signaller
  BY <1>3 DEF ReaderEnds, Watchdog, WatchdogArms, WatchdogKills, WatchdogEnds, Signaller, SignalLoads,
              SignalKills, Others
<1>4. CASE Outside
  BY <1>4 DEF Outside, WorkerEnds, WorkerHangs, Fork, KidEnds, KidEscapes, EscapedEnds, Signal, Env, Others
<1>5. CASE Tasks
  BY <1>5 DEF Tasks, RegistryStep
<1> QED BY <1>1, <1>2, <1>3, <1>4, <1>5 DEF Next

\* The shape in its parts.
LEMMA Parts == Typed <=> Registered /\ protected \subseteq 1 .. spawned /\ Ranges /\ Flags /\ Staged /\ Paced
BY DEF Typed, TypeOK, Registered, Ranges, Flags, Staged

\* The same of the next state.
LEMMA PartsNext ==
  Typed' <=> Registered' /\ protected' \subseteq 1 .. spawned' /\ Ranges' /\ Flags' /\ Staged' /\ Paced'
BY DEF Typed, TypeOK, Registered, Ranges, Flags, Staged

\* Nothing runs at first.
LEMMA TypedInit == Init => Typed
<1> SUFFICES ASSUME Init PROVE Typed
  OBVIOUS
<1>1. Registered /\ protected = {}
  BY RegisteredInit DEF Init
<1>2. Flags /\ registered = FALSE /\ done = FALSE
  BY DEF Init, Flags
<1>3. Ranges /\ Paced
  BY Bounds DEF Init, Ranges, Paced, Phases
<1>4. Staged
  BY <1>2 DEF Init, Staged
<1> QED BY <1>1, <1>2, <1>3, <1>4, Parts

\* The ranges hold: a list names processes that were forked, and no launch finds one.
LEMMA RangesNext ==
  ASSUME Ranges, Paced, [Next]_vars
  PROVE  Ranges'
<1>1. CASE Boundary
  BY Bounds, <1>1 DEF Boundary, Calm, StopsHere, system, run, threads, Ranges, Paced, Phases
<1>2. CASE Scan
  BY Bounds, <1>2 DEF Scan, Calm, system, run, threads, Ranges, Paced, Phases
<1>3. CASE Brief
  BY Bounds, <1>3 DEF Brief, Calm, system, run, threads, Ranges, Paced, Phases
<1>4. CASE Launch
  BY Bounds, <1>4 DEF Launch, Calm, FreshShared, system, run, threads, Ranges, Paced, Phases
<1>5. CASE LaunchFails
  BY Bounds, <1>5 DEF LaunchFails, Calm, system, run, threads, Ranges, Paced, Phases
<1>6. CASE Register
  BY Bounds, <1>6 DEF Register, Calm, system, run, threads, Ranges, Paced, Phases
<1>7. CASE Wait
  BY Bounds, <1>7 DEF Wait, Calm, system, run, threads, Ranges, Paced, Phases
<1>8. CASE Unregister
  BY Bounds, <1>8 DEF Unregister, Calm, system, run, threads, Ranges, Paced, Phases
<1>9. CASE Flag
  BY Bounds, <1>9 DEF Flag, Calm, system, run, threads, Ranges, Paced, Phases
<1>10. CASE Sweep
  BY Bounds, <1>10 DEF Sweep, Calm, Reap, KillGroup, Killed, system, run, threads, Ranges, Paced, Phases
<1>11. CASE SweepListed("listed", "collect")
  BY Bounds, <1>11 DEF SweepListed, Calm, system, run, threads, Ranges, Paced, Phases
<1>12. CASE Collect
  BY Bounds, <1>12 DEF Collect, Calm, system, run, threads, Ranges, Paced, Phases
<1>13. CASE Join
  BY Bounds, <1>13 DEF Join, Calm, system, run, threads, Ranges, Paced, Phases
<1>14. CASE Resweep
  BY Bounds, <1>14 DEF Resweep, Calm, Reap, KillGroup, Killed, system, run, threads, Ranges, Paced, Phases
<1>15. CASE SweepListed("relisted", "boundary")
  BY Bounds, <1>15 DEF SweepListed, Calm, system, run, threads, Ranges, Paced, Phases
<1>16. CASE ReaderEnds
  BY Bounds, <1>16 DEF ReaderEnds, Others, system, run, threads, Ranges, Paced, Phases
<1>17. CASE WatchdogArms
  BY Bounds, <1>17 DEF WatchdogArms, Others, system, run, threads, Ranges, Paced, Phases
<1>18. CASE WatchdogKills
  BY Bounds, <1>18 DEF WatchdogKills, KillGroup, Killed, Others, system, run, threads, Ranges, Paced, Phases
<1>19. CASE WatchdogEnds
  BY Bounds, <1>19 DEF WatchdogEnds, Others, system, run, threads, Ranges, Paced, Phases
<1>20. CASE SignalLoads
  BY Bounds, <1>20 DEF SignalLoads, Others, system, run, threads, Ranges, Paced, Phases
<1>21. CASE SignalKills
  BY Bounds, <1>21 DEF SignalKills, KillGroup, Killed, Others, system, run, threads, Ranges, Paced, Phases
<1>22. CASE WorkerEnds
  BY Bounds, <1>22 DEF WorkerEnds, Env, system, run, threads, Ranges, Paced, Phases
<1>23. CASE WorkerHangs
  BY Bounds, <1>23 DEF WorkerHangs, Env, system, run, threads, Ranges, Paced, Phases
<1>24. CASE Fork
  BY Bounds, <1>24 DEF Fork, Env, system, run, threads, Ranges, Paced, Phases
<1>25. CASE KidEnds
  BY Bounds, <1>25 DEF KidEnds, Env, system, run, threads, Ranges, Paced, Phases
<1>26. CASE KidEscapes
  BY Bounds, <1>26 DEF KidEscapes, Env, system, run, threads, Ranges, Paced, Phases
<1>27. CASE EscapedEnds
  BY Bounds, <1>27 DEF EscapedEnds, Env, system, run, threads, Ranges, Paced, Phases
<1>28. CASE Signal
  BY Bounds, <1>28 DEF Signal, Others, system, run, threads, Ranges, Paced, Phases
<1>29. CASE Tasks
  BY Bounds, <1>29 DEF Tasks, system, run, threads, Ranges, Paced, Phases
<1>30. CASE UNCHANGED vars
  BY Bounds, <1>30 DEF vars, system, run, threads, Ranges, Paced, Phases
<1> QED
  BY <1>1, <1>2, <1>3, <1>4, <1>5, <1>6, <1>7, <1>8, <1>9, <1>10, <1>11, <1>12, <1>13, <1>14, <1>15, <1>16, <1>17, <1>18, <1>19, <1>20, <1>21, <1>22, <1>23, <1>24, <1>25, <1>26, <1>27, <1>28, <1>29, <1>30
  DEF Next, MainThread, Watchdog, Signaller, Outside

\* The flags are flags.
LEMMA FlagsNext ==
  ASSUME Flags, [Next]_vars
  PROVE  Flags'
<1>1. CASE Boundary
  BY <1>1 DEF Boundary, Calm, StopsHere, system, run, threads, Flags
<1>2. CASE Scan
  BY <1>2 DEF Scan, Calm, system, run, threads, Flags
<1>3. CASE Brief
  BY <1>3 DEF Brief, Calm, system, run, threads, Flags
<1>4. CASE Launch
  BY <1>4 DEF Launch, Calm, FreshShared, system, run, threads, Flags
<1>5. CASE LaunchFails
  BY <1>5 DEF LaunchFails, Calm, system, run, threads, Flags
<1>6. CASE Register
  BY <1>6 DEF Register, Calm, system, run, threads, Flags
<1>7. CASE Wait
  BY <1>7 DEF Wait, Calm, system, run, threads, Flags
<1>8. CASE Unregister
  BY <1>8 DEF Unregister, Calm, system, run, threads, Flags
<1>9. CASE Flag
  BY <1>9 DEF Flag, Calm, system, run, threads, Flags
<1>10. CASE Sweep
  BY <1>10 DEF Sweep, Calm, Reap, KillGroup, Killed, system, run, threads, Flags
<1>11. CASE SweepListed("listed", "collect")
  BY <1>11 DEF SweepListed, Calm, system, run, threads, Flags
<1>12. CASE Collect
  BY <1>12 DEF Collect, Calm, system, run, threads, Flags
<1>13. CASE Join
  BY <1>13 DEF Join, Calm, system, run, threads, Flags
<1>14. CASE Resweep
  BY <1>14 DEF Resweep, Calm, Reap, KillGroup, Killed, system, run, threads, Flags
<1>15. CASE SweepListed("relisted", "boundary")
  BY <1>15 DEF SweepListed, Calm, system, run, threads, Flags
<1>16. CASE ReaderEnds
  BY <1>16 DEF ReaderEnds, Others, system, run, threads, Flags
<1>17. CASE WatchdogArms
  BY <1>17 DEF WatchdogArms, Others, system, run, threads, Flags
<1>18. CASE WatchdogKills
  BY <1>18 DEF WatchdogKills, KillGroup, Killed, Others, system, run, threads, Flags
<1>19. CASE WatchdogEnds
  BY <1>19 DEF WatchdogEnds, Others, system, run, threads, Flags
<1>20. CASE SignalLoads
  BY <1>20 DEF SignalLoads, Others, system, run, threads, Flags
<1>21. CASE SignalKills
  BY <1>21 DEF SignalKills, KillGroup, Killed, Others, system, run, threads, Flags
<1>22. CASE WorkerEnds
  BY <1>22 DEF WorkerEnds, Env, system, run, threads, Flags
<1>23. CASE WorkerHangs
  BY <1>23 DEF WorkerHangs, Env, system, run, threads, Flags
<1>24. CASE Fork
  BY <1>24 DEF Fork, Env, system, run, threads, Flags
<1>25. CASE KidEnds
  BY <1>25 DEF KidEnds, Env, system, run, threads, Flags
<1>26. CASE KidEscapes
  BY <1>26 DEF KidEscapes, Env, system, run, threads, Flags
<1>27. CASE EscapedEnds
  BY <1>27 DEF EscapedEnds, Env, system, run, threads, Flags
<1>28. CASE Signal
  BY <1>28 DEF Signal, Others, system, run, threads, Flags
<1>29. CASE Tasks
  BY <1>29 DEF Tasks, system, run, threads, Flags
<1>30. CASE UNCHANGED vars
  BY <1>30 DEF vars, system, run, threads, Flags
<1> QED
  BY <1>1, <1>2, <1>3, <1>4, <1>5, <1>6, <1>7, <1>8, <1>9, <1>10, <1>11, <1>12, <1>13, <1>14, <1>15, <1>16, <1>17, <1>18, <1>19, <1>20, <1>21, <1>22, <1>23, <1>24, <1>25, <1>26, <1>27, <1>28, <1>29, <1>30
  DEF Next, MainThread, Watchdog, Signaller, Outside

\* The phase goes with the worker, the registration and the threads.
LEMMA StagedNext ==
  ASSUME Ranges, Staged, [Next]_vars
  PROVE  Staged'
<1>1. CASE Boundary
  BY <1>1 DEF Boundary, Calm, StopsHere, system, run, threads, Staged, Ranges
<1>2. CASE Scan
  BY <1>2 DEF Scan, Calm, system, run, threads, Staged, Ranges
<1>3. CASE Brief
  BY <1>3 DEF Brief, Calm, system, run, threads, Staged, Ranges
<1>4. CASE Launch
  BY <1>4 DEF Launch, Calm, FreshShared, system, run, threads, Staged, Ranges
<1>5. CASE LaunchFails
  BY <1>5 DEF LaunchFails, Calm, system, run, threads, Staged, Ranges
<1>6. CASE Register
  BY <1>6 DEF Register, Calm, system, run, threads, Staged, Ranges
<1>7. CASE Wait
  BY <1>7 DEF Wait, Calm, system, run, threads, Staged, Ranges
<1>8. CASE Unregister
  BY <1>8 DEF Unregister, Calm, system, run, threads, Staged, Ranges
<1>9. CASE Flag
  BY <1>9 DEF Flag, Calm, system, run, threads, Staged, Ranges
<1>10. CASE Sweep
  BY <1>10 DEF Sweep, Calm, Reap, KillGroup, Killed, system, run, threads, Staged, Ranges
<1>11. CASE SweepListed("listed", "collect")
  BY <1>11 DEF SweepListed, Calm, system, run, threads, Staged, Ranges
<1>12. CASE Collect
  BY <1>12 DEF Collect, Calm, system, run, threads, Staged, Ranges
<1>13. CASE Join
  BY <1>13 DEF Join, Calm, system, run, threads, Staged, Ranges
<1>14. CASE Resweep
  BY <1>14 DEF Resweep, Calm, Reap, KillGroup, Killed, system, run, threads, Staged, Ranges
<1>15. CASE SweepListed("relisted", "boundary")
  BY <1>15 DEF SweepListed, Calm, system, run, threads, Staged, Ranges
<1>16. CASE ReaderEnds
  BY <1>16 DEF ReaderEnds, Others, system, run, threads, Staged, Ranges
<1>17. CASE WatchdogArms
  BY <1>17 DEF WatchdogArms, Others, system, run, threads, Staged, Ranges
<1>18. CASE WatchdogKills
  BY <1>18 DEF WatchdogKills, KillGroup, Killed, Others, system, run, threads, Staged, Ranges
<1>19. CASE WatchdogEnds
  BY <1>19 DEF WatchdogEnds, Others, system, run, threads, Staged, Ranges
<1>20. CASE SignalLoads
  BY <1>20 DEF SignalLoads, Others, system, run, threads, Staged, Ranges
<1>21. CASE SignalKills
  BY <1>21 DEF SignalKills, KillGroup, Killed, Others, system, run, threads, Staged, Ranges
<1>22. CASE WorkerEnds
  BY <1>22 DEF WorkerEnds, Env, system, run, threads, Staged, Ranges
<1>23. CASE WorkerHangs
  BY <1>23 DEF WorkerHangs, Env, system, run, threads, Staged, Ranges
<1>24. CASE Fork
  BY <1>24 DEF Fork, Env, system, run, threads, Staged, Ranges
<1>25. CASE KidEnds
  BY <1>25 DEF KidEnds, Env, system, run, threads, Staged, Ranges
<1>26. CASE KidEscapes
  BY <1>26 DEF KidEscapes, Env, system, run, threads, Staged, Ranges
<1>27. CASE EscapedEnds
  BY <1>27 DEF EscapedEnds, Env, system, run, threads, Staged, Ranges
<1>28. CASE Signal
  BY <1>28 DEF Signal, Others, system, run, threads, Staged, Ranges
<1>29. CASE Tasks
  BY <1>29 DEF Tasks, system, run, threads, Staged, Ranges
<1>30. CASE UNCHANGED vars
  BY <1>30 DEF vars, system, run, threads, Staged, Ranges
<1> QED
  BY <1>1, <1>2, <1>3, <1>4, <1>5, <1>6, <1>7, <1>8, <1>9, <1>10, <1>11, <1>12, <1>13, <1>14, <1>15, <1>16, <1>17, <1>18, <1>19, <1>20, <1>21, <1>22, <1>23, <1>24, <1>25, <1>26, <1>27, <1>28, <1>29, <1>30
  DEF Next, MainThread, Watchdog, Signaller, Outside

\* A list is used up before the main thread goes on, and only a run below its limit goes on.
LEMMA PacedNext ==
  ASSUME Ranges, Paced, [Next]_vars
  PROVE  Paced'
<1>1. CASE Boundary
  BY Bounds, <1>1 DEF Boundary, Calm, StopsHere, system, run, threads, Paced, Ranges
<1>2. CASE Scan
  BY Bounds, <1>2 DEF Scan, Calm, system, run, threads, Paced, Ranges
<1>3. CASE Brief
  BY Bounds, <1>3 DEF Brief, Calm, system, run, threads, Paced, Ranges
<1>4. CASE Launch
  BY Bounds, <1>4 DEF Launch, Calm, FreshShared, system, run, threads, Paced, Ranges
<1>5. CASE LaunchFails
  BY Bounds, <1>5 DEF LaunchFails, Calm, system, run, threads, Paced, Ranges
<1>6. CASE Register
  BY Bounds, <1>6 DEF Register, Calm, system, run, threads, Paced, Ranges
<1>7. CASE Wait
  BY Bounds, <1>7 DEF Wait, Calm, system, run, threads, Paced, Ranges
<1>8. CASE Unregister
  BY Bounds, <1>8 DEF Unregister, Calm, system, run, threads, Paced, Ranges
<1>9. CASE Flag
  BY Bounds, <1>9 DEF Flag, Calm, system, run, threads, Paced, Ranges
<1>10. CASE Sweep
  BY Bounds, <1>10 DEF Sweep, Calm, Reap, KillGroup, Killed, system, run, threads, Paced, Ranges
<1>11. CASE SweepListed("listed", "collect")
  BY Bounds, <1>11 DEF SweepListed, Calm, system, run, threads, Paced, Ranges
<1>12. CASE Collect
  BY Bounds, <1>12 DEF Collect, Calm, system, run, threads, Paced, Ranges
<1>13. CASE Join
  BY Bounds, <1>13 DEF Join, Calm, system, run, threads, Paced, Ranges
<1>14. CASE Resweep
  BY Bounds, <1>14 DEF Resweep, Calm, Reap, KillGroup, Killed, system, run, threads, Paced, Ranges
<1>15. CASE SweepListed("relisted", "boundary")
  BY Bounds, <1>15 DEF SweepListed, Calm, system, run, threads, Paced, Ranges
<1>16. CASE ReaderEnds
  BY Bounds, <1>16 DEF ReaderEnds, Others, system, run, threads, Paced, Ranges
<1>17. CASE WatchdogArms
  BY Bounds, <1>17 DEF WatchdogArms, Others, system, run, threads, Paced, Ranges
<1>18. CASE WatchdogKills
  BY Bounds, <1>18 DEF WatchdogKills, KillGroup, Killed, Others, system, run, threads, Paced, Ranges
<1>19. CASE WatchdogEnds
  BY Bounds, <1>19 DEF WatchdogEnds, Others, system, run, threads, Paced, Ranges
<1>20. CASE SignalLoads
  BY Bounds, <1>20 DEF SignalLoads, Others, system, run, threads, Paced, Ranges
<1>21. CASE SignalKills
  BY Bounds, <1>21 DEF SignalKills, KillGroup, Killed, Others, system, run, threads, Paced, Ranges
<1>22. CASE WorkerEnds
  BY Bounds, <1>22 DEF WorkerEnds, Env, system, run, threads, Paced, Ranges
<1>23. CASE WorkerHangs
  BY Bounds, <1>23 DEF WorkerHangs, Env, system, run, threads, Paced, Ranges
<1>24. CASE Fork
  BY Bounds, <1>24 DEF Fork, Env, system, run, threads, Paced, Ranges
<1>25. CASE KidEnds
  BY Bounds, <1>25 DEF KidEnds, Env, system, run, threads, Paced, Ranges
<1>26. CASE KidEscapes
  BY Bounds, <1>26 DEF KidEscapes, Env, system, run, threads, Paced, Ranges
<1>27. CASE EscapedEnds
  BY Bounds, <1>27 DEF EscapedEnds, Env, system, run, threads, Paced, Ranges
<1>28. CASE Signal
  BY Bounds, <1>28 DEF Signal, Others, system, run, threads, Paced, Ranges
<1>29. CASE Tasks
  BY Bounds, <1>29 DEF Tasks, system, run, threads, Paced, Ranges
<1>30. CASE UNCHANGED vars
  BY Bounds, <1>30 DEF vars, system, run, threads, Paced, Ranges
<1> QED
  BY <1>1, <1>2, <1>3, <1>4, <1>5, <1>6, <1>7, <1>8, <1>9, <1>10, <1>11, <1>12, <1>13, <1>14, <1>15, <1>16, <1>17, <1>18, <1>19, <1>20, <1>21, <1>22, <1>23, <1>24, <1>25, <1>26, <1>27, <1>28, <1>29, <1>30
  DEF Next, MainThread, Watchdog, Signaller, Outside

\* The protected tasks were spawned.
LEMMA ProtectedNext ==
  ASSUME Registered, protected \subseteq 1 .. spawned, [Next]_vars
  PROVE  protected' \subseteq 1 .. spawned'
<1>1. spawned \in Nat /\ spawned' \in Nat /\ spawned <= spawned'
  BY RegisteredNext, RegistrySteps, Bounds DEF registryVars, Registered, Recorded
<1>2. protected' = protected \/ protected' \subseteq alive
  <2>1. CASE Boundary
    BY <2>1 DEF Boundary, Calm, StopsHere, system, run, threads, Protected
  <2>2. CASE Scan
    BY <2>2 DEF Scan, Calm, system, run, threads, Protected
  <2>3. CASE Brief
    BY <2>3 DEF Brief, Calm, system, run, threads, Protected
  <2>4. CASE Launch
    BY <2>4 DEF Launch, Calm, FreshShared, system, run, threads, Protected
  <2>5. CASE LaunchFails
    BY <2>5 DEF LaunchFails, Calm, system, run, threads, Protected
  <2>6. CASE Register
    BY <2>6 DEF Register, Calm, system, run, threads, Protected
  <2>7. CASE Wait
    BY <2>7 DEF Wait, Calm, system, run, threads, Protected
  <2>8. CASE Unregister
    BY <2>8 DEF Unregister, Calm, system, run, threads, Protected
  <2>9. CASE Flag
    BY <2>9 DEF Flag, Calm, system, run, threads, Protected
  <2>10. CASE Sweep
    BY <2>10 DEF Sweep, Calm, Reap, KillGroup, Killed, system, run, threads, Protected
  <2>11. CASE SweepListed("listed", "collect")
    BY <2>11 DEF SweepListed, Calm, system, run, threads, Protected
  <2>12. CASE Collect
    BY <2>12 DEF Collect, Calm, system, run, threads, Protected
  <2>13. CASE Join
    BY <2>13 DEF Join, Calm, system, run, threads, Protected
  <2>14. CASE Resweep
    BY <2>14 DEF Resweep, Calm, Reap, KillGroup, Killed, system, run, threads, Protected
  <2>15. CASE SweepListed("relisted", "boundary")
    BY <2>15 DEF SweepListed, Calm, system, run, threads, Protected
  <2>16. CASE ReaderEnds
    BY <2>16 DEF ReaderEnds, Others, system, run, threads, Protected
  <2>17. CASE WatchdogArms
    BY <2>17 DEF WatchdogArms, Others, system, run, threads, Protected
  <2>18. CASE WatchdogKills
    BY <2>18 DEF WatchdogKills, KillGroup, Killed, Others, system, run, threads, Protected
  <2>19. CASE WatchdogEnds
    BY <2>19 DEF WatchdogEnds, Others, system, run, threads, Protected
  <2>20. CASE SignalLoads
    BY <2>20 DEF SignalLoads, Others, system, run, threads, Protected
  <2>21. CASE SignalKills
    BY <2>21 DEF SignalKills, KillGroup, Killed, Others, system, run, threads, Protected
  <2>22. CASE WorkerEnds
    BY <2>22 DEF WorkerEnds, Env, system, run, threads, Protected
  <2>23. CASE WorkerHangs
    BY <2>23 DEF WorkerHangs, Env, system, run, threads, Protected
  <2>24. CASE Fork
    BY <2>24 DEF Fork, Env, system, run, threads, Protected
  <2>25. CASE KidEnds
    BY <2>25 DEF KidEnds, Env, system, run, threads, Protected
  <2>26. CASE KidEscapes
    BY <2>26 DEF KidEscapes, Env, system, run, threads, Protected
  <2>27. CASE EscapedEnds
    BY <2>27 DEF EscapedEnds, Env, system, run, threads, Protected
  <2>28. CASE Signal
    BY <2>28 DEF Signal, Others, system, run, threads, Protected
  <2>29. CASE Tasks
    BY <2>29 DEF Tasks, system, run, threads, Protected
  <2>30. CASE UNCHANGED vars
    BY <2>30 DEF vars, system, run, threads, Protected
  <2> QED
    BY <2>1, <2>2, <2>3, <2>4, <2>5, <2>6, <2>7, <2>8, <2>9, <2>10, <2>11, <2>12, <2>13, <2>14, <2>15, <2>16, <2>17, <2>18, <2>19, <2>20, <2>21, <2>22, <2>23, <2>24, <2>25, <2>26, <2>27, <2>28, <2>29, <2>30
    DEF Next, MainThread, Watchdog, Signaller, Outside
<1>3. alive \subseteq 1 .. spawned
  BY RegistryShape
<1>4. 1 .. spawned \subseteq 1 .. spawned'
  BY <1>1
<1> QED BY <1>2, <1>3, <1>4

\* Every step keeps the shape of the state.
LEMMA TypedNext == Typed /\ [Next]_vars => Typed'
<1> SUFFICES ASSUME Typed, [Next]_vars PROVE Typed'
  OBVIOUS
<1>1. CASE RegistryStep
  BY <1>1, Parts, PartsNext, RegisteredNext, RangesNext, FlagsNext, StagedNext, PacedNext, ProtectedNext
<1>2. CASE UNCHANGED registryVars
  <2>1. Registered'
    BY <1>2, Parts DEF registryVars, Registered, RegistryOK, Recorded, Spawning, Scanning
  <2> QED BY <2>1, Parts, PartsNext, RangesNext, FlagsNext, StagedNext, PacedNext, ProtectedNext
<1> QED BY <1>1, <1>2, RegistrySteps

\* No group outlives a session that had no registered task beside it: its sweep kills what is
\* left, nobody is left to fork, and the next launch starts with an empty group.
LEMMA SweptNext == Typed /\ Swept /\ [Next]_vars => Swept'
<1> SUFFICES ASSUME Typed, Swept, [Next]_vars PROVE Swept'
  OBVIOUS
<1>0. Ranges /\ Staged
  BY Parts
<1>1. CASE Boundary
  BY <1>0, <1>1 DEF Boundary, Calm, StopsHere, system, run, threads, Swept, Staged, Ranges
<1>2. CASE Scan
  BY <1>0, <1>2 DEF Scan, Calm, system, run, threads, Swept, Staged, Ranges
<1>3. CASE Brief
  BY <1>0, <1>3 DEF Brief, Calm, system, run, threads, Swept, Staged, Ranges
<1>4. CASE Launch
  BY <1>0, <1>4 DEF Launch, Calm, FreshShared, system, run, threads, Swept, Staged, Ranges
<1>5. CASE LaunchFails
  BY <1>0, <1>5 DEF LaunchFails, Calm, system, run, threads, Swept, Staged, Ranges
<1>6. CASE Register
  BY <1>0, <1>6 DEF Register, Calm, system, run, threads, Swept, Staged, Ranges
<1>7. CASE Wait
  BY <1>0, <1>7 DEF Wait, Calm, system, run, threads, Swept, Staged, Ranges
<1>8. CASE Unregister
  BY <1>0, <1>8 DEF Unregister, Calm, system, run, threads, Swept, Staged, Ranges
<1>9. CASE Flag
  BY <1>0, <1>9 DEF Flag, Calm, system, run, threads, Swept, Staged, Ranges
<1>10. CASE Sweep
  BY <1>0, <1>10 DEF Sweep, Calm, Reap, KillGroup, Killed, system, run, threads, Swept, Staged, Ranges
<1>11. CASE SweepListed("listed", "collect")
  BY <1>0, <1>11 DEF SweepListed, Calm, system, run, threads, Swept, Staged, Ranges
<1>12. CASE Collect
  BY <1>0, <1>12 DEF Collect, Calm, system, run, threads, Swept, Staged, Ranges
<1>13. CASE Join
  BY <1>0, <1>13 DEF Join, Calm, system, run, threads, Swept, Staged, Ranges
<1>14. CASE Resweep
  BY <1>0, <1>14 DEF Resweep, Calm, Reap, KillGroup, Killed, system, run, threads, Swept, Staged, Ranges
<1>15. CASE SweepListed("relisted", "boundary")
  BY <1>0, <1>15 DEF SweepListed, Calm, system, run, threads, Swept, Staged, Ranges
<1>16. CASE ReaderEnds
  BY <1>0, <1>16 DEF ReaderEnds, Others, system, run, threads, Swept, Staged, Ranges
<1>17. CASE WatchdogArms
  BY <1>0, <1>17 DEF WatchdogArms, Others, system, run, threads, Swept, Staged, Ranges
<1>18. CASE WatchdogKills
  BY <1>0, <1>18 DEF WatchdogKills, KillGroup, Killed, Others, system, run, threads, Swept, Staged, Ranges
<1>19. CASE WatchdogEnds
  BY <1>0, <1>19 DEF WatchdogEnds, Others, system, run, threads, Swept, Staged, Ranges
<1>20. CASE SignalLoads
  BY <1>0, <1>20 DEF SignalLoads, Others, system, run, threads, Swept, Staged, Ranges
<1>21. CASE SignalKills
  BY <1>0, <1>21 DEF SignalKills, KillGroup, Killed, Others, system, run, threads, Swept, Staged, Ranges
<1>22. CASE WorkerEnds
  BY <1>0, <1>22 DEF WorkerEnds, Env, system, run, threads, Swept, Staged, Ranges
<1>23. CASE WorkerHangs
  BY <1>0, <1>23 DEF WorkerHangs, Env, system, run, threads, Swept, Staged, Ranges
<1>24. CASE Fork
  BY <1>0, <1>24 DEF Fork, Env, system, run, threads, Swept, Staged, Ranges
<1>25. CASE KidEnds
  BY <1>0, <1>25 DEF KidEnds, Env, system, run, threads, Swept, Staged, Ranges
<1>26. CASE KidEscapes
  BY <1>0, <1>26 DEF KidEscapes, Env, system, run, threads, Swept, Staged, Ranges
<1>27. CASE EscapedEnds
  BY <1>0, <1>27 DEF EscapedEnds, Env, system, run, threads, Swept, Staged, Ranges
<1>28. CASE Signal
  BY <1>0, <1>28 DEF Signal, Others, system, run, threads, Swept, Staged, Ranges
<1>29. CASE Tasks
  BY <1>0, <1>29 DEF Tasks, system, run, threads, Swept, Staged, Ranges
<1>30. CASE UNCHANGED vars
  BY <1>0, <1>30 DEF vars, system, run, threads, Swept, Staged, Ranges
<1> QED
  BY <1>1, <1>2, <1>3, <1>4, <1>5, <1>6, <1>7, <1>8, <1>9, <1>10, <1>11, <1>12, <1>13, <1>14, <1>15, <1>16, <1>17, <1>18, <1>19, <1>20, <1>21, <1>22, <1>23, <1>24, <1>25, <1>26, <1>27, <1>28, <1>29, <1>30
  DEF Next, MainThread, Watchdog, Signaller, Outside

------------------------------------------------------------------------------
(* The theorems.                                                              *)

\* The state keeps its shape: each phase of run_session finds the worker, the registration,
\* the flags and the registry as it should.
THEOREM TypeCorrect == Spec => []TypeOK
<1>1. Typed => TypeOK
  BY DEF Typed
<1> QED BY <1>1, TypedInit, TypedNext, PTL DEF Spec

\* With no registered task alive a session's group is empty when the session has returned,
\* whatever was forked, whoever killed first, and however the phases of the threads interleave.
THEOREM SessionsLeaveNothing == Spec => []NoStragglers
<1>1. Init => Swept
  BY DEF Init, Swept
<1>2. Swept => NoStragglers
  BY DEF Swept, NoStragglers
<1> QED BY <1>1, <1>2, TypedInit, TypedNext, SweptNext, PTL DEF Spec

\* Where no save comes between another's load and save, every brief tells of each task that
\* is due, as running while it runs.
THEOREM BriefsTellOfTasks ==
  ASSUME ~Overlaps
  PROVE  Spec => TasksAreAnnounced
<1>1. Typed /\ Told /\ [Next]_vars => Told'
  <2> SUFFICES ASSUME Typed, Told, [Next]_vars PROVE Told'
    OBVIOUS
  <2>1. CASE RegistryStep
    BY <2>1, Parts, ToldNext
  <2>2. CASE UNCHANGED registryVars
    BY <2>2 DEF registryVars, Told, ToldBy
  <2> QED BY <2>1, <2>2, RegistrySteps
<1>2. Init => Told
  BY ToldInit DEF Init
<1>3. Told => [ pc = "brief" /\ pc' = "launch" =>
                  \A e \in owed : \E a \in Announced :
                      a.task = e.task /\ (e.task \in alive => a.status = "running") ]_vars
  BY DEF Told, ToldBy, Announced
<1>4. Spec => []Told
  BY <1>1, <1>2, TypedInit, TypedNext, PTL DEF Spec
<1> QED BY <1>3, <1>4, PTL DEF TasksAreAnnounced

------------------------------------------------------------------------------
(* What the judges' state holds.                                              *)

Readable ==
    {v \in [given : BOOLEAN, error : BOOLEAN, met : BOOLEAN, value : SUBSET Int,
            max : SUBSET Int, mixed : BOOLEAN, vacuous : BOOLEAN] : AtMostOne(v.value)}
Goals == [Judges -> [state : Lifecycles, last : Readable, ever : BOOLEAN]]
References == UNION {[D -> Int] : D \in SUBSET DOMAIN Ratchets}
Gates ==
    [refs : References, rollbacks : Nat, consecutive_rollbacks : Nat, no_improvements : Nat,
     consecutive_no_improvements : Nat, no_changes : Nat, consecutive_no_changes : Nat,
     last_ratchet : SUBSET DOMAIN Ratchets, signatures : Seq(SUBSET (Dod \cup DOMAIN Ratchets))]
Graders == {"baseline-rows", "gate", "rows", "record"}

TypedGoals == {goals, before} \subseteq Goals
TypedFits == {fits, fitted} \subseteq [Judges -> BOOLEAN]
TypedFresh == phase \in Graders => fresh \in [Judges -> Readable]
TypedGate ==
    /\ gate \in Gates
    /\ phase \in {"rows", "record"} =>
           /\ plan.ratchet \subseteq DOMAIN Ratchets
           /\ plan.signature \subseteq Dod \cup DOMAIN Ratchets

JudgingTyped == TypedGoals /\ TypedFits /\ TypedFresh /\ TypedGate

\* A judge's process leaves a verdict whose value is an option, whatever it came to.
LEMMA VerdictsReadable ==
  ASSUME NEW verdicts \in Readings
  PROVE  verdicts \in [Judges -> Readable]
<1>1. ASSUME NEW j \in Judges, NEW o \in Outputs[j] PROVE Verdict(o) \in Readable
  <2>1. o \in Output /\ AtMostOne(o.value)
    BY OutputsAssumption, OptionsAssumption
  <2>2. AtMostOne({})
    BY DEF AtMostOne
  <2>3. CASE o.fault # "none"
    BY <2>2, <2>3 DEF Verdict, Failed, Unjudged, Readable
  <2>4. CASE o.fault = "none"
    BY <2>1, <2>4 DEF Verdict, Readable, Output
  <2> QED BY <2>3, <2>4
<1>2. \A j \in Judges : verdicts[j] \in Readable
  BY <1>1 DEF Readings
<1> QED BY <1>2 DEF Readings

\* Verdicts applied to goals leave goals.
LEMMA GoalsApply ==
  ASSUME NEW g \in Goals, NEW v \in [Judges -> Readable]
  PROVE  [j \in Judges |-> Applied(g[j], v[j])] \in Goals
<1>1. ASSUME NEW j \in Judges PROVE Applied(g[j], v[j]) \in [state : Lifecycles, last : Readable, ever : BOOLEAN]
  <2>1. g[j] \in [state : Lifecycles, last : Readable, ever : BOOLEAN] /\ v[j] \in Readable
    BY DEF Goals
  <2>2. v[j].error \in BOOLEAN /\ v[j].met \in BOOLEAN
    BY <2>1 DEF Readable
  <2> HIDE DEF Readable
  <2>3. CASE v[j].error
    BY <2>1, <2>3 DEF Applied
  <2>4. CASE ~v[j].error
    BY <2>1, <2>2, <2>4 DEF Applied, Lifecycles
  <2> QED BY <2>3, <2>4
<1> QED BY <1>1 DEF Goals

\* A usable number of a verdict is one integer.
LEMMA NumbersAreOne ==
  ASSUME NEW v \in Readable
  PROVE  Number(v) \subseteq Int /\ AtMostOne(Number(v))
BY DEF Readable, Number, Finite, AtMostOne

\* References follow the kept numbers, and nothing else.
LEMMA ReferencesFollow ==
  ASSUME NEW refs \in References, NEW v \in [Judges -> Readable],
         NEW which \in SUBSET DOMAIN Ratchets, \A j \in which : Number(v[j]) # {}
  PROVE  /\ WithRefs(refs, v, which) \in References
         /\ DOMAIN WithRefs(refs, v, which) = DOMAIN refs \cup which
         /\ \A j \in which : Number(v[j]) = {WithRefs(refs, v, which)[j]}
         /\ \A j \in DOMAIN refs \ which : WithRefs(refs, v, which)[j] = refs[j]
<1> DEFINE after == WithRefs(refs, v, which)
<1>0. which \subseteq Judges
  BY GroupsAssumption
<1>1. PICK D \in SUBSET DOMAIN Ratchets : refs \in [D -> Int]
  BY DEF References
<1>2. DOMAIN after = D \cup which
  BY <1>1 DEF WithRefs
<1>3. ASSUME NEW j \in which PROVE Number(v[j]) = {after[j]} /\ after[j] \in Int
  <2>1. Number(v[j]) \subseteq Int /\ AtMostOne(Number(v[j]))
    BY <1>0, NumbersAreOne
  <2>2. after[j] = CHOOSE n \in Number(v[j]) : TRUE
    BY DEF WithRefs
  <2>3. Number(v[j]) # {}
    OBVIOUS
  <2>4. after[j] \in Number(v[j])
    BY <2>2, <2>3
  <2> QED BY <2>1, <2>4 DEF AtMostOne
<1>4. \A j \in D \ which : after[j] = refs[j]
  BY <1>1 DEF WithRefs
<1>5. \A j \in D \cup which : after[j] \in Int
  BY <1>1, <1>3, <1>4
<1>6. after = [j \in D \cup which |-> after[j]]
  BY <1>1 DEF WithRefs
<1>7. after \in [D \cup which -> Int]
  <2> HIDE DEF after
  <2> QED BY <1>5, <1>6
<1>8. after \in References
  <2> HIDE DEF after
  <2>1. D \cup which \in SUBSET DOMAIN Ratchets
    OBVIOUS
  <2> QED BY <1>7, <2>1 DEF References
<1> QED BY <1>1, <1>2, <1>3, <1>4, <1>8

------------------------------------------------------------------------------
(* The state is typed.                                                        *)

\* A fresh gate has the references its seeds give.
LEMMA FreshGate ==
  /\ NewGate \in Gates
  /\ \A j \in DOMAIN Ratchets :
        /\ j \in DOMAIN NewGate.refs <=> Ratchets[j].seed # {}
        /\ Ratchets[j].seed # {} => Ratchets[j].seed = {NewGate.refs[j]}
<1> DEFINE D == {r \in DOMAIN Ratchets : Ratchets[r].seed # {}}
           refs == [j \in D |-> CHOOSE n \in Ratchets[j].seed : TRUE]
<1>1. ASSUME NEW j \in D PROVE refs[j] \in Int /\ Ratchets[j].seed = {refs[j]}
  <2>1. (CHOOSE n \in Ratchets[j].seed : TRUE) \in Ratchets[j].seed
    OBVIOUS
  <2> QED BY <2>1, OptionsAssumption DEF AtMostOne
<1>2. refs \in [D -> Int]
  BY <1>1
<1>3. refs \in References
  BY <1>2 DEF References
<1>4. <<>> \in Seq(SUBSET (Dod \cup DOMAIN Ratchets))
  OBVIOUS
<1>5. NewGate = [refs |-> refs, rollbacks |-> 0, consecutive_rollbacks |-> 0,
                 no_improvements |-> 0, consecutive_no_improvements |-> 0,
                 no_changes |-> 0, consecutive_no_changes |-> 0,
                 last_ratchet |-> {}, signatures |-> <<>>]
  BY DEF NewGate
<1> HIDE DEF refs
<1>6. NewGate \in Gates
  BY <1>3, <1>4, <1>5 DEF Gates
<1>7. NewGate.refs = refs /\ DOMAIN refs = D
  BY <1>2, <1>5
<1> QED BY <1>1, <1>6, <1>7

\* The types hold at first.
LEMMA JudgingTypedInit == JudgingInit => JudgingTyped
<1> SUFFICES ASSUME JudgingInit PROVE JudgingTyped
  OBVIOUS
<1>1. NoGoals \in Goals
  BY DEF NoGoals, Pending, Unjudged, Goals, Readable, Lifecycles, AtMostOne
<1>2. Nobody \in [Judges -> BOOLEAN]
  BY DEF Nobody
<1> QED BY <1>1, <1>2, FreshGate DEF JudgingInit, JudgingTyped, TypedGoals, TypedFits, TypedFresh, TypedGate, Graders

\* What the gate keeps of a step: streaks that count, references that follow a merge.
LEMMA GateRecords ==
  ASSUME JudgingTyped, phase = "record"
  PROVE  /\ RecordedGate \in Gates
         /\ plan.fate # "merged" => RecordedGate.refs = gate.refs
         /\ plan.fate = "merged" =>
               RecordedGate.refs = WithRefs(gate.refs, fresh, {j \in DOMAIN Ratchets : Number(fresh[j]) # {}})
<1> DEFINE which == {j \in DOMAIN Ratchets : Number(fresh[j]) # {}}
           refs == WithRefs(gate.refs, fresh, which)
<1>1. gate \in Gates /\ gate.refs \in References /\ fresh \in [Judges -> Readable]
  BY DEF JudgingTyped, TypedGate, TypedFresh, Graders, Gates
<1>2. refs \in References
  BY <1>1, ReferencesFollow
<1>3. /\ Counted \in Gates
      /\ plan.fate # "merged" => Counted.refs = gate.refs
      /\ plan.fate = "merged" => Counted.refs = refs
  <2> HIDE DEF refs
  <2>1. CASE plan.fate = "merged"
    <3>1. Counted = [gate EXCEPT !.consecutive_rollbacks = 0, !.consecutive_no_improvements = 0,
                         !.consecutive_no_changes = 0, !.refs = refs]
      BY <2>1 DEF Counted, refs
    <3> QED BY <2>1, <3>1, <1>1, <1>2 DEF Gates
  <2>2. CASE plan.fate = "rolled-back"
    <3>1. Counted = [gate EXCEPT !.rollbacks = @ + 1, !.consecutive_rollbacks = @ + 1]
      BY <2>2 DEF Counted
    <3>2. gate.rollbacks + 1 \in Nat /\ gate.consecutive_rollbacks + 1 \in Nat
      BY <1>1 DEF Gates
    <3>3. Counted \in Gates /\ Counted.refs = gate.refs
      BY <3>1, <3>2, <1>1 DEF Gates
    <3> QED BY <2>2, <3>3
  <2>3. CASE plan.fate = "no-improvement"
    <3>1. Counted = [gate EXCEPT !.no_improvements = @ + 1, !.consecutive_no_improvements = @ + 1]
      BY <2>3 DEF Counted
    <3>2. gate.no_improvements + 1 \in Nat /\ gate.consecutive_no_improvements + 1 \in Nat
      BY <1>1 DEF Gates
    <3>3. Counted \in Gates /\ Counted.refs = gate.refs
      BY <3>1, <3>2, <1>1 DEF Gates
    <3> QED BY <2>3, <3>3
  <2>4. CASE plan.fate = "no-changes"
    <3>1. Counted = [gate EXCEPT !.no_changes = @ + 1, !.consecutive_no_changes = @ + 1]
      BY <2>4 DEF Counted
    <3>2. gate.no_changes + 1 \in Nat /\ gate.consecutive_no_changes + 1 \in Nat
      BY <1>1 DEF Gates
    <3>3. Counted \in Gates /\ Counted.refs = gate.refs
      BY <3>1, <3>2, <1>1 DEF Gates
    <3> QED BY <2>4, <3>3
  <2>5. CASE plan.fate \notin {"merged", "rolled-back", "no-improvement", "no-changes"}
    BY <2>5, <1>1 DEF Counted
  <2> QED BY <2>1, <2>2, <2>3, <2>4, <2>5
<1>4. plan.ratchet \subseteq DOMAIN Ratchets /\ plan.signature \subseteq Dod \cup DOMAIN Ratchets
  BY DEF JudgingTyped, TypedGate
<1>5. Remember(Counted.signatures, plan.signature) \in Seq(SUBSET (Dod \cup DOMAIN Ratchets))
  <2> DEFINE s == Counted.signatures
             t == Append(s, plan.signature)
  <2>1. s \in Seq(SUBSET (Dod \cup DOMAIN Ratchets))
    BY <1>3 DEF Gates
  <2>2. t \in Seq(SUBSET (Dod \cup DOMAIN Ratchets)) /\ Len(t) = Len(s) + 1
    BY <2>1, <1>4
  <2>3. Tail(t) \in Seq(SUBSET (Dod \cup DOMAIN Ratchets))
    <3> HIDE DEF t
    <3>1. t # <<>>
      BY <2>1, <2>2
    <3> QED BY <2>2, <3>1
  <2> QED BY <2>2, <2>3 DEF Remember
<1>6. RecordedGate = [Counted EXCEPT !.last_ratchet = plan.ratchet,
                            !.signatures = Remember(Counted.signatures, plan.signature)]
  BY <1>3 DEF RecordedGate, Gates
<1> HIDE DEF refs
<1> QED BY <1>3, <1>4, <1>5, <1>6 DEF Gates, refs, which

\* And after every step.
LEMMA JudgingTypedNext == JudgingTyped /\ [JudgingNext]_judgingVars => JudgingTyped'
<1> SUFFICES ASSUME JudgingTyped, [JudgingNext]_judgingVars PROVE JudgingTyped'
  OBVIOUS
<1> USE DEF JudgingTyped, TypedGoals, TypedFits, TypedFresh, TypedGate, Graders
<1>a. NoGoals \in Goals /\ Nobody \in [Judges -> BOOLEAN] /\ NewGate \in Gates
  BY FreshGate DEF NoGoals, Nobody, Pending, Unjudged, Goals, Readable, Lifecycles, AtMostOne
<1>b. ASSUME NEW verdicts \in Readings
      PROVE  /\ verdicts \in [Judges -> Readable]
             /\ [j \in Judges |-> Applied(goals[j], verdicts[j])] \in Goals
  BY <1>b, VerdictsReadable, GoalsApply
<1> HIDE DEF Goals, Gates
<1>1. CASE Start
  BY <1>1, <1>a DEF Start
<1>2. CASE Baseline
  <2>1. PICK verdicts \in Readings :
           /\ ~CannotSeed(verdicts) /\ fresh' = verdicts
           /\ goals' = [j \in Judges |-> Applied(goals[j], verdicts[j])]
           /\ gate' = Seeded(verdicts) /\ fits' = [j \in Judges |-> ~verdicts[j].error]
    BY <1>2 DEF Baseline
  <2>2. verdicts \in [Judges -> Readable] /\ goals' \in Goals
    BY <2>1, <1>b
  <2>3. fits' \in [Judges -> BOOLEAN]
    BY <2>1
  <2> DEFINE which == {j \in DOMAIN Ratchets : Ratchets[j].seed = {}}
  <2>4. \A j \in which : Number(verdicts[j]) # {}
    BY <2>1 DEF CannotSeed, Number
  <2>5. gate.refs \in References
    BY DEF Gates
  <2>6. WithRefs(gate.refs, verdicts, which) \in References
    BY <2>2, <2>4, <2>5, ReferencesFollow
  <2>7. gate' = [gate EXCEPT !.refs = WithRefs(gate.refs, verdicts, which)]
    BY <2>1 DEF Seeded
  <2>8. gate' \in Gates
    <3> HIDE DEF which
    <3> QED BY <2>6, <2>7 DEF Gates
  <2> QED BY <1>2, <2>1, <2>2, <2>3, <2>8 DEF Baseline
<1>3. CASE BaselineRefused
  <2>1. PICK verdicts \in Readings : goals' = [j \in Judges |-> Applied(goals[j], verdicts[j])]
    BY <1>3 DEF BaselineRefused
  <2>2. goals' \in Goals
    BY <2>1, <1>b
  <2> QED BY <1>3, <2>2 DEF BaselineRefused, Stops, historyVars
<1>4. CASE BaselineRows
  BY <1>4 DEF BaselineRows, Stops
<1>5. CASE OutOfSessions
  BY <1>5 DEF OutOfSessions, Stops, historyVars
<1>6. CASE SkipSession
  <2>1. fits' \in [Judges -> BOOLEAN]
    <3>1. fits' = [j \in Judges |-> branch /\ fits[j]]
      BY <1>6 DEF SkipSession, Writes
    <3> QED BY <3>1
  <2> QED BY <1>6, <2>1 DEF SkipSession
<1>7. CASE JudgedSession
  <2>1. fits' \in [Judges -> BOOLEAN]
    <3>1. fits' = [j \in Judges |-> branch /\ fits[j]]
      BY <1>7 DEF JudgedSession, Writes
    <3> QED BY <3>1
  <2> QED BY <1>7, <2>1 DEF JudgedSession
<1>8. CASE RunJudges
  <2>1. PICK verdicts \in Readings :
           /\ fresh' = verdicts
           /\ goals' = [j \in Judges |-> Applied(goals[j], verdicts[j])]
           /\ fits' = [j \in Judges |-> IF verdicts[j].error THEN staged # "staged" /\ fits[j]
                                        ELSE staged # "checkout-failed"]
    BY <1>8 DEF RunJudges
  <2>2. verdicts \in [Judges -> Readable] /\ goals' \in Goals
    BY <2>1, <1>b
  <2>3. fits' \in [Judges -> BOOLEAN]
    BY <2>1
  <2> QED BY <1>8, <2>1, <2>2, <2>3 DEF RunJudges
<1>9. CASE Decide
  <2> DEFINE ratchet == IF staged = "staged" THEN Check(fresh) ELSE {}
  <2>1. /\ plan'.ratchet = ratchet /\ plan'.signature = Signature(fresh, ratchet)
    BY <1>9 DEF Decide
  <2>2. ratchet \subseteq DOMAIN Ratchets
    BY DEF Check
  <2>3. Signature(fresh, ratchet) \subseteq Dod \cup DOMAIN Ratchets
    <3> HIDE DEF ratchet
    <3> QED BY <2>2 DEF Signature
  <2> HIDE DEF ratchet
  <2> QED BY <1>9, <2>1, <2>2, <2>3 DEF Decide, engineVars
<1>10. CASE AppendRows
  BY <1>10 DEF AppendRows, spanVars
<1>11. CASE RecordStep
  <2>1. gate' \in Gates
    BY <1>11, GateRecords DEF RecordStep
  <2> QED BY <1>11, <1>a, <2>1 DEF RecordStep
<1>12. CASE CheckRunStop
  BY <1>12 DEF CheckRunStop, Stops, historyVars
<1>13. CASE Crash
  BY <1>13, <1>a DEF Crash, Stops
<1>14. CASE UNCHANGED judgingVars
  BY <1>14 DEF judgingVars, engineVars, spanVars, historyVars
<1> QED
  BY <1>1, <1>2, <1>3, <1>4, <1>5, <1>6, <1>7, <1>8, <1>9, <1>10, <1>11, <1>12, <1>13, <1>14 DEF JudgingNext

------------------------------------------------------------------------------
(* Success rests on verdicts of the tree the run ends with.                   *)

\* Every goal that counts as met by a usable verdict was judged on the tree at hand.
Fitting(g, f) == \A j \in Judges : g[j].state = "met" /\ ~g[j].last.error => f[j]

\* The goals fit base between the steps, and the ones set aside do while a step is graded;
\* what was graded on a tree that could not be checked out does not, until it is restored.
GradedOnBase ==
    branch =>
        /\ phase \in {"baseline-rows", "top", "verify", "record", "end"} => Fitting(goals, fits)
        /\ phase \in {"verify", "gate", "rows"} => Fitting(before, fitted)
        /\ phase \in {"gate", "rows"} /\ staged # "checkout-failed" => Fitting(goals, fits)
        /\ phase # "off" => ended = "none"
        /\ ended = "done" => Fitting(goals, fits)

\* Nothing is graded at first.
LEMMA GradedOnBaseInit == JudgingInit => GradedOnBase
BY DEF JudgingInit, GradedOnBase

\* What is graded stays of the base it was graded on.
LEMMA GradedOnBaseNext == JudgingTyped /\ GradedOnBase /\ [JudgingNext]_judgingVars => GradedOnBase'
<1> SUFFICES ASSUME JudgingTyped, GradedOnBase, [JudgingNext]_judgingVars, branch' PROVE GradedOnBase'
  BY DEF GradedOnBase
<1>a. branch
  BY DEF JudgingNext, judgingVars, Start, Baseline, BaselineRefused, BaselineRows, OutOfSessions, SkipSession,
     JudgedSession, RunJudges, Decide, AppendRows, RecordStep, CheckRunStop, Crash
<1> USE <1>a DEF GradedOnBase
<1>b. ASSUME NEW v \in [Judges -> Readable], NEW j \in Judges, v[j].error
      PROVE  Applied(goals[j], v[j]).last.error
  <2>1. goals[j] \in [state : Lifecycles, last : Readable, ever : BOOLEAN] /\ v[j] \in Readable
    BY DEF JudgingTyped, TypedGoals, Goals
  <2>2. Applied(goals[j], v[j]) = [goals[j] EXCEPT !.last = v[j]]
    BY <1>b DEF Applied
  <2> HIDE DEF Readable
  <2> QED BY <1>b, <2>1, <2>2
<1>1. CASE Start
  BY <1>1 DEF Start
<1>2. CASE Baseline
  <2>1. PICK verdicts \in Readings :
           /\ goals' = [j \in Judges |-> Applied(goals[j], verdicts[j])]
           /\ fits' = [j \in Judges |-> ~verdicts[j].error]
    BY <1>2 DEF Baseline
  <2>2. Fitting(goals', fits')
    BY <1>b, <2>1, VerdictsReadable DEF Fitting
  <2> QED BY <1>2, <2>2 DEF Baseline
<1>3. CASE BaselineRefused
  BY <1>3 DEF BaselineRefused, Stops
<1>4. CASE BaselineRows
  BY <1>4 DEF BaselineRows, Stops, Fitting
<1>5. CASE OutOfSessions
  BY <1>5 DEF OutOfSessions, Stops
<1>6. CASE SkipSession
  BY <1>6 DEF SkipSession, Writes, Fitting
<1>7. CASE JudgedSession
  BY <1>7 DEF JudgedSession, Writes, Fitting
<1>8. CASE RunJudges
  <2>1. PICK verdicts \in Readings :
           /\ goals' = [j \in Judges |-> Applied(goals[j], verdicts[j])]
           /\ fits' = [j \in Judges |-> IF verdicts[j].error THEN staged # "staged" /\ fits[j]
                                        ELSE staged # "checkout-failed"]
    BY <1>8 DEF RunJudges
  <2>2. staged # "checkout-failed" => Fitting(goals', fits')
    BY <1>b, <2>1, VerdictsReadable DEF Fitting
  <2> QED BY <1>8, <2>2 DEF RunJudges, Fitting, spanVars
<1>9. CASE Decide
  BY <1>9 DEF Decide, engineVars, Fitting
<1>10. CASE AppendRows
  BY <1>10 DEF AppendRows, RestoresGoals, spanVars, Fitting
<1>11. CASE RecordStep
  BY <1>11 DEF RecordStep, Fitting
<1>12. CASE CheckRunStop
  BY <1>12 DEF CheckRunStop, Stops, historyVars, Fitting
<1>13. CASE Crash
  BY <1>13 DEF Crash, Stops
<1>14. CASE UNCHANGED judgingVars
  BY <1>14 DEF judgingVars, engineVars, spanVars, historyVars, Fitting
<1> QED
  BY <1>1, <1>2, <1>3, <1>4, <1>5, <1>6, <1>7, <1>8, <1>9, <1>10, <1>11, <1>12, <1>13, <1>14 DEF JudgingNext

\* With session branches, a run that ends as done was graded on what is on base.
THEOREM SuccessRestsOnBase == JudgingSpec => [](branch => SuccessIsGraded)
<1>1. GradedOnBase => (branch => SuccessIsGraded)
  BY GroupsAssumption DEF GradedOnBase, SuccessIsGraded, Fitting
<1> QED BY <1>1, JudgingTypedInit, JudgingTypedNext, GradedOnBaseInit, GradedOnBaseNext, PTL DEF JudgingSpec

------------------------------------------------------------------------------
(* The ratchet's references.                                                  *)

\* The gate's reference of a judge is its number in the last kept grading.
LevelIsReferred ==
    phase # "off" =>
        \A j \in DOMAIN Ratchets : \A old \in level[j] : j \in DOMAIN gate.refs /\ gate.refs[j] = old

\* No level is held at first.
LEMMA LevelInit == JudgingInit => LevelIsReferred
BY DEF JudgingInit, LevelIsReferred

\* A step refers every level it sets.
LEMMA LevelNext == JudgingTyped /\ LevelIsReferred /\ [JudgingNext]_judgingVars => LevelIsReferred'
<1> SUFFICES ASSUME JudgingTyped, LevelIsReferred, [JudgingNext]_judgingVars PROVE LevelIsReferred'
  OBVIOUS
<1>0. gate \in Gates /\ gate.refs \in References
  BY DEF JudgingTyped, TypedGate, Gates
<1> USE DEF LevelIsReferred
<1>1. CASE Start
  BY <1>1, FreshGate DEF Start
<1>2. CASE Baseline
  <2> DEFINE which == {j \in DOMAIN Ratchets : Ratchets[j].seed = {}}
  <2>1. PICK verdicts \in Readings :
           /\ ~CannotSeed(verdicts) /\ gate' = Seeded(verdicts)
           /\ level' = [j \in DOMAIN Ratchets |-> IF Ratchets[j].seed = {} THEN Number(verdicts[j]) ELSE level[j]]
    BY <1>2 DEF Baseline
  <2>2. \A j \in which : Number(verdicts[j]) # {}
    BY <2>1 DEF CannotSeed, Number
  <2>3. /\ WithRefs(gate.refs, verdicts, which) \in References
        /\ DOMAIN WithRefs(gate.refs, verdicts, which) = DOMAIN gate.refs \cup which
        /\ \A j \in which : Number(verdicts[j]) = {WithRefs(gate.refs, verdicts, which)[j]}
        /\ \A j \in DOMAIN gate.refs \ which : WithRefs(gate.refs, verdicts, which)[j] = gate.refs[j]
    <3>1. which \in SUBSET DOMAIN Ratchets
      OBVIOUS
    <3>2. verdicts \in [Judges -> Readable]
      BY VerdictsReadable
    <3>3. gate.refs \in References
      BY <1>0
    <3>4. \A j \in which : Number(verdicts[j]) # {}
      BY <2>2
    <3> HIDE DEF which
    <3> QED BY ONLY <3>1, <3>2, <3>3, <3>4, ReferencesFollow
  <2>4. gate'.refs = WithRefs(gate.refs, verdicts, which)
    <3>1. gate' = [gate EXCEPT !.refs = WithRefs(gate.refs, verdicts, which)]
      BY <2>1 DEF Seeded
    <3> HIDE DEF which
    <3> QED BY <1>0, <3>1 DEF Gates
  <2>5. ASSUME NEW j \in DOMAIN Ratchets, NEW old \in level'[j]
        PROVE  j \in DOMAIN gate'.refs /\ gate'.refs[j] = old
    <3>0. level'[j] = IF j \in which THEN Number(verdicts[j]) ELSE level[j]
      BY <2>1
    <3>1. CASE j \in which
      <4> HIDE DEF which
      <4> QED BY <2>3, <2>4, <2>5, <3>0, <3>1
    <3>2. CASE j \notin which
      <4>1. old \in level[j]
        BY <2>5, <3>0, <3>2
      <4>2. j \in DOMAIN gate.refs /\ gate.refs[j] = old
        BY <1>2, <4>1 DEF Baseline
      <4> HIDE DEF which
      <4> QED BY <2>3, <2>4, <3>2, <4>2
    <3> QED BY <3>1, <3>2
  <2> QED BY <2>5
<1>3. CASE BaselineRefused
  BY <1>3 DEF BaselineRefused, Stops
<1>4. CASE BaselineRows
  BY <1>4 DEF BaselineRows, Stops
<1>5. CASE OutOfSessions
  BY <1>5 DEF OutOfSessions, Stops
<1>6. CASE SkipSession
  BY <1>6 DEF SkipSession
<1>7. CASE JudgedSession
  BY <1>7 DEF JudgedSession
<1>8. CASE RunJudges
  BY <1>8 DEF RunJudges
<1>9. CASE Decide
  BY <1>9 DEF Decide, engineVars
<1>10. CASE AppendRows
  BY <1>10 DEF AppendRows
<1>11. CASE RecordStep
  <2> DEFINE which == {j \in DOMAIN Ratchets : Number(fresh[j]) # {}}
  <2>1. /\ phase = "record" /\ gate' = RecordedGate
        /\ level' = [j \in DOMAIN Ratchets |->
                       IF plan.fate = "merged" /\ Number(fresh[j]) # {} THEN Number(fresh[j]) ELSE level[j]]
    BY <1>11 DEF RecordStep
  <2>2. CASE plan.fate # "merged"
    BY <2>1, <2>2, GateRecords
  <2>3. CASE plan.fate = "merged"
    <3>1. gate'.refs = WithRefs(gate.refs, fresh, which)
      BY <2>1, <2>3, GateRecords
    <3>2. fresh \in [Judges -> Readable]
      BY <2>1 DEF JudgingTyped, TypedFresh, Graders
    <3>3. /\ gate'.refs \in References
          /\ DOMAIN gate'.refs = DOMAIN gate.refs \cup which
          /\ \A j \in which : Number(fresh[j]) = {gate'.refs[j]}
          /\ \A j \in DOMAIN gate.refs \ which : gate'.refs[j] = gate.refs[j]
      <4>1. which \in SUBSET DOMAIN Ratchets /\ \A j \in which : Number(fresh[j]) # {}
        OBVIOUS
      <4>2. gate.refs \in References
        BY <1>0
      <4> HIDE DEF which
      <4>3. which \in SUBSET DOMAIN Ratchets
        BY <4>1
      <4>4. \A j \in which : Number(fresh[j]) # {}
        BY <4>1
      <4>5. /\ WithRefs(gate.refs, fresh, which) \in References
            /\ DOMAIN WithRefs(gate.refs, fresh, which) = DOMAIN gate.refs \cup which
            /\ \A j \in which : Number(fresh[j]) = {WithRefs(gate.refs, fresh, which)[j]}
            /\ \A j \in DOMAIN gate.refs \ which : WithRefs(gate.refs, fresh, which)[j] = gate.refs[j]
        BY ONLY <3>2, <4>2, <4>3, <4>4, ReferencesFollow
      <4> QED BY ONLY <3>1, <4>5
    <3>4. \A j \in DOMAIN Ratchets : level'[j] = IF j \in which THEN Number(fresh[j]) ELSE level[j]
      BY <2>1, <2>3
    <3> HIDE DEF which
    <3> QED BY <2>1, <3>3, <3>4
  <2> QED BY <2>2, <2>3
<1>12. CASE CheckRunStop
  BY <1>12 DEF CheckRunStop, Stops, historyVars
<1>13. CASE Crash
  BY <1>13 DEF Crash, Stops
<1>14. CASE UNCHANGED judgingVars
  BY <1>14 DEF judgingVars, engineVars, historyVars
<1> QED
  BY <1>1, <1>2, <1>3, <1>4, <1>5, <1>6, <1>7, <1>8, <1>9, <1>10, <1>11, <1>12, <1>13, <1>14 DEF JudgingNext

\* Only the gate decides: the process may die there, and nothing is merged.
LEMMA GatePassed ==
  ASSUME JudgingNext, phase = "gate", plan'.fate = "merged"
  PROVE  Decide
BY DEF JudgingNext, Start, Baseline, BaselineRefused, BaselineRows, OutOfSessions, SkipSession, JudgedSession,
   RunJudges, AppendRows, RecordStep, CheckRunStop, Crash, Stops, NoPlan

\* A kept merge has a number for every ratcheted judge, and none of them is worse, beyond its
\* tolerance, than at the last kept grading.
THEOREM KeptMergesHoldTheRatchet == JudgingSpec => RatchetHoldsGround
<1>1. ASSUME LevelIsReferred, JudgingNext, phase = "gate", plan'.fate = "merged", GateRegressions,
             NEW j \in DOMAIN Ratchets
      PROVE  \E n \in Number(fresh[j]) : \A old \in level[j] : ~Regresses(j, old, n)
  <2>1. Decide
    BY <1>1, GatePassed
  <2>2. Check(fresh) = {}
    BY <1>1, <2>1 DEF Decide, Fate, StagedFate
  <2>3. PICK n \in Number(fresh[j]) : j \in DOMAIN gate.refs => ~Regresses(j, gate.refs[j], n)
    BY <2>2 DEF Check
  <2> QED BY <1>1, <2>3 DEF LevelIsReferred
<1>2. LevelIsReferred /\ [JudgingNext]_judgingVars =>
        [ phase = "gate" /\ plan'.fate = "merged" /\ GateRegressions =>
            \A j \in DOMAIN Ratchets :
                \E n \in Number(fresh[j]) : \A old \in level[j] : ~Regresses(j, old, n) ]_judgingVars
  BY <1>1
<1> QED BY <1>2, JudgingTypedInit, JudgingTypedNext, LevelInit, LevelNext, PTL DEF JudgingSpec, RatchetHoldsGround

------------------------------------------------------------------------------
(* The landed goals.                                                          *)

\* A decision to keep found no regression, and the rows are written before anything changes.
KeptIsClean ==
    phase = "rows" /\ plan.fate = "merged" /\ GateRegressions => ~GroupRegressed

\* No rows are being written at first.
LEMMA KeptIsCleanInit == JudgingInit => KeptIsClean
BY DEF JudgingInit, KeptIsClean

\* A step decides to keep only where nothing regressed.
LEMMA KeptIsCleanNext == KeptIsClean /\ [JudgingNext]_judgingVars => KeptIsClean'
<1> SUFFICES ASSUME KeptIsClean, [JudgingNext]_judgingVars, phase' = "rows", plan'.fate = "merged", GateRegressions
             PROVE  ~GroupRegressed'
  BY DEF KeptIsClean
<1>1. CASE Decide
  <2>1. ~GroupRegressed
    BY <1>1 DEF Decide, Fate, StagedFate
  <2>2. UNCHANGED <<fresh, landed>>
    BY <1>1 DEF Decide, engineVars
  <2> QED BY <2>1, <2>2 DEF GroupRegressed, GoalLost, LostInGroup, GroupNet, GoalGained, Graded, Was
<1>2. CASE UNCHANGED judgingVars
  <2>1. UNCHANGED <<fresh, landed, phase, plan>>
    BY <1>2 DEF judgingVars, engineVars, spanVars
  <2> QED BY <2>1 DEF KeptIsClean, GroupRegressed, GoalLost, LostInGroup, GroupNet, GoalGained, Graded, Was
<1>3. ~(JudgingNext /\ ~Decide)
  BY DEF JudgingNext, Start, Baseline, BaselineRefused, BaselineRows, OutOfSessions, SkipSession, JudgedSession,
     RunJudges, AppendRows, RecordStep, CheckRunStop, Crash, Stops
<1> QED BY <1>1, <1>2, <1>3

\* The rows land a kept step's verdicts, and no others.
LEMMA RowsSay ==
  ASSUME JudgingNext, phase = "rows"
  PROVE  \E written \in SUBSET Judges : landed' = Landed(written) /\ (written # {} => plan.fate = "merged")
<1>1. CASE AppendRows
  BY <1>1 DEF AppendRows, RowsLand
<1>2. CASE Crash
  BY <1>2 DEF Crash, RowsLand
<1> QED
  BY <1>1, <1>2 DEF JudgingNext, Start, Baseline, BaselineRefused, BaselineRows, OutOfSessions, SkipSession,
     JudgedSession, RunJudges, Decide, RecordStep, CheckRunStop

\* With gate_regressions on, no session's rows take back a landed goal that is watched by itself.
THEOREM LandedGoalsStand == JudgingSpec => LandedNeverRegresses
<1>1. ASSUME KeptIsClean, JudgingNext, phase = "rows", GateRegressions, NEW j \in GroupDirect, landed[j] = "met"
      PROVE  landed'[j] = "met"
  <2>1. PICK written \in SUBSET Judges : landed' = Landed(written) /\ (written # {} => plan.fate = "merged")
    BY <1>1, RowsSay
  <2>2. j \in Judges
    BY GroupsAssumption DEF Dod
  <2>3. CASE j \in written /\ Lands(j)
    <3>1. ~GoalLost(j)
      BY <1>1, <2>1, <2>3 DEF KeptIsClean, GroupRegressed, Individual
    <3>2. fresh[j].met
      BY <1>1, <2>3, <3>1 DEF GoalLost, Graded, Was, Lands
    <3> QED BY <2>1, <2>2, <2>3, <3>2 DEF Landed
  <2>4. CASE ~(j \in written /\ Lands(j))
    BY <1>1, <2>1, <2>2, <2>4 DEF Landed
  <2> QED BY <2>3, <2>4
<1>2. KeptIsClean /\ [JudgingNext]_judgingVars =>
        [ phase = "rows" /\ GateRegressions =>
            \A j \in GroupDirect : landed[j] = "met" => landed'[j] = "met" ]_judgingVars
  BY <1>1
<1> QED BY <1>2, KeptIsCleanInit, KeptIsCleanNext, PTL DEF JudgingSpec, LandedNeverRegresses

\* Of two finite sets the second is no smaller when what it lacks of the first is not more than
\* what it has beyond it.
LEMMA Exchange ==
  ASSUME NEW Old, NEW New, NEW Lost, NEW Gained, IsFiniteSet(Old), IsFiniteSet(New),
         Old \ New \subseteq Lost, Gained \subseteq New \ Old, IsFiniteSet(Lost), Cardinality(Lost) <= Cardinality(Gained)
  PROVE  Cardinality(Old) <= Cardinality(New)
<1>1. /\ IsFiniteSet(Old \ New) /\ IsFiniteSet(New \ Old) /\ IsFiniteSet(Old \cap New) /\ IsFiniteSet(Gained)
  BY FS_Difference, FS_Intersection, FS_Subset
<1>2. Cardinality(Old \ New) <= Cardinality(Lost) /\ Cardinality(Gained) <= Cardinality(New \ Old)
  BY <1>1, FS_Subset
<1>3. Cardinality(Old \ New) = Cardinality(Old) - Cardinality(Old \cap New)
  BY FS_Difference
<1>4. Cardinality(New \ Old) = Cardinality(New) - Cardinality(Old \cap New)
  <2>1. New \cap Old = Old \cap New
    OBVIOUS
  <2> QED BY <2>1, FS_Difference
<1>5. {Cardinality(Old), Cardinality(New), Cardinality(Old \cap New), Cardinality(Lost), Cardinality(Gained)} \subseteq Nat
  BY <1>1, FS_CardinalityType
<1> QED BY <1>2, <1>3, <1>4, <1>5

\* With gate_regressions on, a group of done_if has no fewer landed members after a gate.
THEOREM GroupsKeepGround == JudgingSpec => GroupKeepsGround
<1>1. ASSUME KeptIsClean, JudgingNext, phase = "rows", phase' = "record", GateRegressions, NEW g \in GroupGated
      PROVE  Cardinality({j \in Groups[g] : landed'[j] = "met"}) >= Cardinality({j \in Groups[g] : landed[j] = "met"})
  <2> DEFINE Old == {j \in Groups[g] : landed[j] = "met"}
             New == {j \in Groups[g] : landed'[j] = "met"}
             Lost == {j \in Groups[g] : ~Individual(j) /\ GoalLost(j)}
             Gained == {j \in Groups[g] : ~Individual(j) /\ GoalGained(j)}
  <2>1. Groups[g] \subseteq Judges /\ IsFiniteSet(Groups[g])
    <3>1. Groups[g] \subseteq Judges
      BY GroupsAssumption DEF GroupGated
    <3> QED BY <3>1, JudgesAssumption, FS_Subset
  <2>2. IsFiniteSet(Old) /\ IsFiniteSet(New) /\ IsFiniteSet(Lost) /\ IsFiniteSet(Gained)
    BY <2>1, FS_Subset
  <2>3. AppendRows
    BY <1>1 DEF JudgingNext, Start, Baseline, BaselineRefused, BaselineRows, OutOfSessions, SkipSession, JudgedSession,
       RunJudges, Decide, RecordStep, CheckRunStop, Crash, Stops
  <2>4. CASE plan.fate # "merged"
    <3>1. landed' = Landed({})
      BY <2>3, <2>4 DEF AppendRows, RowsLand
    <3>2. Old = New
      BY <2>1, <3>1 DEF Landed
    <3>3. Cardinality(Old) \in Nat
      BY <2>2, FS_CardinalityType
    <3> HIDE DEF Old, New
    <3> QED BY <3>2, <3>3 DEF Old, New
  <2>5. CASE plan.fate = "merged"
    <3>1. landed' = Landed(Judges)
      BY <2>3, <2>5 DEF AppendRows, RowsLand
    <3>2. ~GroupRegressed
      BY <1>1, <2>5 DEF KeptIsClean
    <3>3. Old \ New \subseteq Lost
      BY <2>1, <3>1, <3>2 DEF Landed, Lands, GroupRegressed, GoalLost, Graded, Was
    <3>4. Gained \subseteq New \ Old
      BY <2>1, <3>1 DEF Landed, Lands, GoalGained, Graded, Was
    <3>5. Cardinality(Lost) <= Cardinality(Gained)
      <4>1. ~(Cardinality(Lost) > Cardinality(Gained))
        BY <3>2 DEF GroupRegressed, LostInGroup, GroupNet
      <4>2. Cardinality(Lost) \in Nat /\ Cardinality(Gained) \in Nat
        BY <2>2, FS_CardinalityType
      <4> HIDE DEF Lost, Gained
      <4> QED BY <4>1, <4>2
    <3>6. Cardinality(Old) <= Cardinality(New)
      <4> HIDE DEF Old, New, Lost, Gained
      <4> QED BY <2>2, <3>3, <3>4, <3>5, Exchange
    <3>7. Cardinality(Old) \in Nat /\ Cardinality(New) \in Nat
      BY <2>2, FS_CardinalityType
    <3> HIDE DEF Old, New
    <3> QED BY <3>6, <3>7 DEF Old, New
  <2> QED BY <2>4, <2>5
<1>2. KeptIsClean /\ [JudgingNext]_judgingVars =>
        [ phase = "rows" /\ phase' = "record" /\ GateRegressions =>
            \A g \in GroupGated : Cardinality({j \in Groups[g] : landed'[j] = "met"})
                                 >= Cardinality({j \in Groups[g] : landed[j] = "met"}) ]_judgingVars
  BY <1>1
<1> QED BY <1>2, KeptIsCleanInit, KeptIsCleanNext, PTL DEF JudgingSpec, GroupKeepsGround

------------------------------------------------------------------------------
(* The conditions at the end of a session.                                    *)

\* The condition does not ask whether a judge failed in this very step.
NamesNoErrors(e) == \A n \in Nodes(e, {"term"}) : n.name # "any_judge_error"

\* What such a condition is worth does not depend on which judges failed.
LEMMA ErrorsUnseen ==
  ASSUME NEW g, NEW gt, NEW n, NEW errors, NEW e, NamesNoErrors(e)
  PROVE  Holds(Context(g, gt, n, errors), e) = Holds(Context(g, gt, n, {}), e)
<1> DEFINE c == Context(g, gt, n, errors)
           d == Context(g, gt, n, {})
<1>1. c.goals = d.goals /\ c.dod = d.dod /\ c.invariants = d.invariants /\ c.groups = d.groups
      /\ c.gate = d.gate /\ c.run = d.run
  BY DEF Context
<1>2. ASSUME NEW i \in DOMAIN e PROVE Alone(c, e, i) = Alone(d, e, i)
  <2> HIDE DEF c, d
  <2>1. \A of : Scope(c, of) = Scope(d, of) /\ (Subset(c, of) <=> Subset(d, of))
    BY <1>1 DEF Scope, Subset
  <2>2. \A of : Total(c, of) = Total(d, of)
    BY <2>1 DEF Total
  <2>3. \A of, state : InState(c, of, state) = InState(d, of, state)
    BY <1>1, <2>1 DEF InState
  <2>4. ASSUME NEW name, NEW of PROVE Aggregate(c, name, of) = Aggregate(d, name, of)
    <3>1. /\ Total(c, of) = Total(d, of) /\ (Subset(c, of) <=> Subset(d, of))
          /\ InState(c, of, "met") = InState(d, of, "met") /\ InState(c, of, "regressed") = InState(d, of, "regressed")
      BY <2>1, <2>2, <2>3
    <3> QED BY <3>1 DEF Aggregate
  <2>5. CASE e[i].op = "term"
    <3>1. e[i].name # "any_judge_error"
      BY <2>5 DEF NamesNoErrors, Nodes
    <3>2. Term(c, e[i].name) = Term(d, e[i].name)
      <4>1. \A name : Over(c, name) = Over(d, name)
        BY <1>1 DEF Over
      <4>2. WorkTime(c) = WorkTime(d)
        BY <1>1 DEF WorkTime
      <4> QED BY <1>1, <3>1, <4>1, <4>2 DEF Term
    <3> QED BY <2>5, <3>2 DEF Alone
  <2>6. CASE e[i].op = "accessor"
    <3>1. Accessor(c, e[i].judge, e[i].field) = Accessor(d, e[i].judge, e[i].field)
      BY <1>1 DEF Accessor
    <3> QED BY <2>6, <3>1 DEF Alone
  <2>7. CASE e[i].op = "compare"
    <3>1. \A m : IsCount(c, m) <=> IsCount(d, m)
      BY <1>1 DEF IsCount
    <3>2. Unreachable(c, e, i) <=> Unreachable(d, e, i)
      BY <2>2, <3>1 DEF Unreachable
    <3> QED BY <2>7, <3>2 DEF Alone
  <2>8. CASE e[i].op \notin {"term", "accessor", "compare"}
    BY <2>4, <2>8 DEF Alone
  <2> QED BY <2>5, <2>6, <2>7, <2>8
<1>3. [i \in DOMAIN e |-> Alone(c, e, i)] = [i \in DOMAIN e |-> Alone(d, e, i)]
  <2> HIDE DEF c, d
  <2> QED BY <1>2
<1>4. Eval(c, e) = Eval(d, e)
  <2> HIDE DEF c, d
  <2> QED BY <1>3 DEF Eval
<1> QED BY <1>4 DEF Holds

\* The step's result is what the conditions are worth now, and while neither holds the run goes on.
ResultIsCurrent ==
    /\ phase \in {"baseline", "baseline-rows"} => sessions = 0
    /\ phase \in {"baseline-rows", "end"} => res = Conditions(goals, gate, sessions, {})
    /\ NoSessionTooMany

\* No result at first.
LEMMA ResultIsCurrentInit == JudgingInit => ResultIsCurrent
BY DEF JudgingInit, ResultIsCurrent, NoSessionTooMany

\* Every step leaves the result the one of the conditions it ended with.
LEMMA ResultIsCurrentNext ==
  ASSUME NamesNoErrors(DoneIf), NamesNoErrors(AbortIf), ResultIsCurrent, [JudgingNext]_judgingVars
  PROVE  ResultIsCurrent'
<1>a. ASSUME NEW g, NEW gt, NEW n, NEW errors
      PROVE  Conditions(g, gt, n, errors) = Conditions(g, gt, n, {})
  BY ErrorsUnseen DEF Conditions
<1>b. ASSUME Decided(res) = "none", res = Conditions(goals, gate, sessions, {}),
             UNCHANGED <<goals, gate, sessions>>
      PROVE  NoSessionTooMany'
  <2>1. ~Holds(Context(goals, gate, sessions, {}), DoneIf) /\ ~Holds(Context(goals, gate, sessions, {}), AbortIf)
    BY <1>b DEF Decided, Conditions
  <2> QED BY <1>b, <2>1 DEF NoSessionTooMany
<1> USE DEF ResultIsCurrent
<1>1. CASE Start
  BY <1>1 DEF Start, NoSessionTooMany
<1>2. CASE Baseline
  <2>1. PICK verdicts \in Readings : res' = Conditions(goals', gate', 0, ErrorsOf(verdicts))
    BY <1>2 DEF Baseline
  <2>2. res' = Conditions(goals', gate', 0, {})
    BY <1>a, <2>1
  <2>3. sessions' = 0 /\ phase' = "baseline-rows"
    BY <1>2 DEF Baseline
  <2> QED BY <2>2, <2>3 DEF NoSessionTooMany
<1>3. CASE BaselineRefused
  BY <1>3 DEF BaselineRefused, Stops, NoSessionTooMany
<1>4. CASE BaselineRows
  <2>1. UNCHANGED <<goals, gate, sessions>> /\ phase' \in {"off", "top"}
        /\ (phase' = "top" => Decided(res) = "none")
    BY <1>4 DEF BaselineRows, Stops
  <2>2. res = Conditions(goals, gate, sessions, {})
    BY <1>4 DEF BaselineRows
  <2> QED BY <1>b, <2>1, <2>2 DEF NoSessionTooMany
<1>5. CASE OutOfSessions
  BY <1>5 DEF OutOfSessions, Stops, NoSessionTooMany
<1>6. CASE SkipSession
  BY <1>6 DEF SkipSession, NoSessionTooMany
<1>7. CASE JudgedSession
  BY <1>7 DEF JudgedSession, NoSessionTooMany
<1>8. CASE RunJudges
  BY <1>8 DEF RunJudges, NoSessionTooMany
<1>9. CASE Decide
  BY <1>9 DEF Decide, NoSessionTooMany
<1>10. CASE AppendRows
  BY <1>10 DEF AppendRows, NoSessionTooMany
<1>11. CASE RecordStep
  <2>1. res' = Conditions(goals, gate', sessions, IF plan.fate = "merged" THEN ErrorsOf(fresh) ELSE {})
        /\ UNCHANGED <<goals, sessions>> /\ phase' = "end"
    BY <1>11 DEF RecordStep
  <2>2. res' = Conditions(goals, gate', sessions, {})
    BY <1>a, <2>1
  <2> QED BY <2>1, <2>2 DEF NoSessionTooMany
<1>12. CASE CheckRunStop
  <2>1. UNCHANGED <<goals, gate, sessions>> /\ phase' \in {"off", "top"}
        /\ (phase' = "top" => Decided(res) = "none")
    BY <1>12 DEF CheckRunStop, Stops
  <2>2. res = Conditions(goals, gate, sessions, {})
    BY <1>12 DEF CheckRunStop
  <2> QED BY <1>b, <2>1, <2>2 DEF NoSessionTooMany
<1>13. CASE Crash
  BY <1>13 DEF Crash, Stops, NoSessionTooMany
<1>14. CASE UNCHANGED judgingVars
  BY <1>14 DEF judgingVars, engineVars, NoSessionTooMany
<1> QED
  BY <1>1, <1>2, <1>3, <1>4, <1>5, <1>6, <1>7, <1>8, <1>9, <1>10, <1>11, <1>12, <1>13, <1>14 DEF JudgingNext

\* Where neither ending names any_judge_error, no session starts while one of them holds.
THEOREM EndingsEnd ==
  ASSUME NamesNoErrors(DoneIf), NamesNoErrors(AbortIf)
  PROVE  JudgingSpec => []NoSessionTooMany
<1>1. ResultIsCurrent => NoSessionTooMany
  BY DEF ResultIsCurrent
<1>2. ResultIsCurrent /\ [JudgingNext]_judgingVars => ResultIsCurrent'
  BY ResultIsCurrentNext
<1> QED BY <1>1, <1>2, ResultIsCurrentInit, PTL DEF JudgingSpec
=============================================================================
