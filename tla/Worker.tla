------------------------------- MODULE Worker -------------------------------
(* One worker session after another: the agent process in a group of its own, *)
(* and the threads of agg around it. The main thread launches, waits, sweeps  *)
(* and collects; the reader follows the agent's output; the watchdog kills a  *)
(* hung agent; the signal thread kills the registered group. All but the      *)
(* reader kill by a process group id, which the system may hand to somebody   *)
(* else once the group is empty and its leader reaped.                        *)
EXTENDS Spawns

CONSTANTS
    PidReuse,            \* whether a freed id may be somebody else's by the time it is used
    MaxFork, MaxSession  \* bounds of the instance

ASSUME ConfigAssumption == PidReuse \in BOOLEAN
ASSUME BoundsAssumption == MaxFork \in Nat /\ MaxSession \in Nat

VARIABLES
    \* the system
    worker,       \* the group's leader: none, running, zombie (ended, not waited for), gone
    hung,         \* it makes no progress
    kids, forks,  \* the other processes of the group, and how many were ever forked
    pipe,         \* a process outside the group holds the agent's output open
    harmed,       \* history: a group was killed by an id that was free
    \* the agg process
    pc, session,
    protected,    \* protected_pgids, read once for both sweeps
    registered,   \* WORKER_PGID is this worker's
    interrupted,  \* INTERRUPTED
    listed,       \* reap_pgid_except: the group's processes as ps listed them
    done,         \* Shared: reaping and done
    reader, watchdog, signaller    \* the threads

system == <<worker, hung, kids, forks, pipe, harmed>>
threads == <<reader, watchdog, signaller>>
run == <<session, protected, registered, interrupted, listed, done>>
vars == <<system, pc, run, threads, registryVars>>

Phases == {"boundary", "scan", "brief", "launch", "register", "wait", "unregister", "flag", "sweep", "listed",
           "collect", "join", "resweep", "relisted", "ended"}

Init ==
    /\ worker = "none" /\ hung = FALSE /\ kids = {} /\ forks = 0
    /\ pipe = FALSE /\ harmed = FALSE
    /\ pc = "boundary" /\ session = 0 /\ protected = {}
    /\ registered = FALSE /\ interrupted = FALSE /\ listed = {} /\ done = FALSE
    /\ reader = "off" /\ watchdog = "off" /\ signaller = "idle"
    /\ SpawnsInit

------------------------------------------------------------------------------
KillLeaderOnly == kids
Killed == {}

\* killpg: everything in the group, whoever that is by now
KillGroup ==
    /\ worker' = IF worker = "running" THEN "zombie" ELSE worker
    /\ kids' = Killed
    /\ harmed' = (harmed \/ (PidReuse /\ worker = "gone" /\ kids = {}))
    /\ UNCHANGED <<hung, forks, pipe>>

------------------------------------------------------------------------------
(* The agent and what it starts.                                             *)

Env == UNCHANGED <<pc, run, threads, registryVars>>

WorkerEnds ==
    /\ worker = "running" /\ ~hung
    /\ worker' = "zombie"
    /\ UNCHANGED <<hung, kids, forks, pipe, harmed>> /\ Env

WorkerHangs ==
    /\ worker = "running" /\ ~hung
    /\ hung' = TRUE
    /\ UNCHANGED <<worker, kids, forks, pipe, harmed>> /\ Env

\* by the worker or by a process it left behind
Fork ==
    /\ worker = "running" \/ kids # {}
    /\ forks < MaxFork
    /\ forks' = forks + 1
    /\ kids' = kids \cup {forks'}
    /\ UNCHANGED <<worker, hung, pipe, harmed>> /\ Env

KidEnds ==
    /\ \E k \in kids : kids' = kids \ {k}
    /\ UNCHANGED <<worker, hung, forks, pipe, harmed>> /\ Env

\* a setsid or a double fork: out of the group, with the output still open
KidEscapes ==
    /\ \E k \in kids : kids' = kids \ {k}
    /\ pipe' = TRUE
    /\ UNCHANGED <<worker, hung, forks, harmed>> /\ Env

EscapedEnds ==
    /\ pipe /\ pipe' = FALSE
    /\ UNCHANGED <<worker, hung, kids, forks, harmed>> /\ Env

------------------------------------------------------------------------------
(* The main thread: the boundary, then run_session.                          *)

\* what a step of the main thread leaves alone beside the system
Calm == UNCHANGED <<protected, interrupted, signaller, registryVars>>

StopsAtLimit == session = MaxSession
StopsHere == interrupted \/ session = MaxSession

\* the loop's look at the signal
Boundary ==
    /\ pc = "boundary"
    /\ pc' = IF StopsHere THEN "ended" ELSE "scan"
    /\ UNCHANGED <<system, session, registered, listed, done, reader, watchdog>> /\ Calm

\* WriteInstructions: the scan of the registry, then the brief that tells of it
Scan ==
    /\ pc = "scan" /\ (ScanLoads \/ ScanSaves)
    /\ pc' = IF scanner' = NoCopy THEN "brief" ELSE pc
    /\ UNCHANGED <<system, run, threads>>

Brief ==
    /\ pc = "brief" /\ pc' = "launch"
    /\ UNCHANGED <<system, run, threads, registryVars>>

FreshShared == FALSE

Launch ==
    /\ pc = "launch" /\ pc' = "register"
    /\ session' = session + 1
    /\ worker' = "running" /\ hung' = FALSE /\ kids' = {} /\ forks' = 0
    /\ pipe' = FALSE
    /\ done' = FreshShared
    /\ UNCHANGED <<harmed, registered, listed, reader, watchdog>> /\ Calm

\* no isolation, no binary: SessionOutcome::failed
LaunchFails ==
    /\ pc = "launch" /\ pc' = "boundary"
    /\ session' = session + 1
    /\ UNCHANGED <<system, registered, listed, done, reader, watchdog>> /\ Calm

Register ==
    /\ pc = "register" /\ pc' = "wait"
    /\ registered' = TRUE
    /\ reader' = "reading" /\ watchdog' = "watching"
    /\ UNCHANGED <<system, session, listed, done>> /\ Calm

\* child.wait: the leader is reaped, its id is free
Wait ==
    /\ pc = "wait" /\ pc' = "unregister"
    /\ worker = "zombie" /\ worker' = "gone"
    /\ UNCHANGED <<hung, kids, forks, pipe, harmed>>
    /\ UNCHANGED <<session, registered, listed, done, reader, watchdog>> /\ Calm

Unregister ==
    /\ pc = "unregister" /\ pc' = "flag"
    /\ registered' = FALSE
    /\ UNCHANGED <<system, session, listed, done, reader, watchdog>> /\ Calm

\* reaping, then done: who reads either one goes no further
Flag ==
    /\ pc = "flag" /\ pc' = "sweep"
    /\ done' = TRUE
    /\ UNCHANGED <<system, session, registered, listed, reader, watchdog>> /\ Calm

\* reap_pgid_except: one killpg, or with a registered task alive a ps and a kill of each
\* pid it listed
Reap(list, to) ==
    /\ IF protected' # {}
       THEN pc' = list /\ listed' = kids /\ UNCHANGED system
       ELSE pc' = to /\ KillGroup /\ UNCHANGED listed
    /\ UNCHANGED <<session, registered, interrupted, done, threads, registryVars>>

Sweep == pc = "sweep" /\ protected' = Protected /\ Reap("listed", "collect")
Resweep == pc = "resweep" /\ UNCHANGED protected /\ Reap("relisted", "boundary")

SweepListed(list, to) ==
    /\ pc = list /\ pc' = to
    /\ kids' = kids \ listed /\ listed' = {}
    /\ UNCHANGED <<worker, hung, forks, pipe, harmed>>
    /\ UNCHANGED <<session, registered, done, reader, watchdog>> /\ Calm

\* recv_timeout: the reader's answer, or ten seconds
CollectedAtEof == reader = "sent"
Collected == TRUE

Collect ==
    /\ pc = "collect" /\ pc' = "join"
    /\ Collected
    /\ UNCHANGED <<system, session, registered, listed, done, reader, watchdog>> /\ Calm

Join ==
    /\ pc = "join" /\ pc' = "resweep"
    /\ watchdog = "off"
    /\ UNCHANGED <<system, session, registered, listed, done, reader, watchdog>> /\ Calm

MainThread ==
    \/ Boundary \/ Scan \/ Brief \/ Launch \/ LaunchFails \/ Register \/ Wait \/ Unregister \/ Flag
    \/ Sweep \/ SweepListed("listed", "collect")
    \/ Collect \/ Join
    \/ Resweep \/ SweepListed("relisted", "boundary")

------------------------------------------------------------------------------
(* The other threads.                                                        *)

Others == UNCHANGED <<pc, session, protected, registered, listed, done, registryVars>>

\* the pipe is at its end when nothing holds it open
ReaderEnds ==
    /\ reader = "reading" /\ worker # "running" /\ kids = {} /\ ~pipe
    /\ reader' = "sent"
    /\ UNCHANGED <<system, interrupted, watchdog, signaller>> /\ Others

\* stream-idle and cpu-flat for long enough
CpuUnknown == FALSE
SeenHung == hung

\* decided, and neither flag is up
WatchdogArms ==
    /\ watchdog = "watching" /\ SeenHung /\ ~done
    /\ watchdog' = "armed"
    /\ UNCHANGED <<system, interrupted, reader, signaller>> /\ Others

WatchdogKills ==
    /\ watchdog = "armed" /\ watchdog' = "off"
    /\ KillGroup
    /\ UNCHANGED <<interrupted, reader, signaller>> /\ Others

WatchdogEnds ==
    /\ watchdog = "watching" /\ done
    /\ watchdog' = "off"
    /\ UNCHANGED <<system, interrupted, reader, signaller>> /\ Others

Watchdog == WatchdogArms \/ WatchdogKills \/ WatchdogEnds

Signal ==
    /\ signaller = "idle" /\ pc # "ended"
    /\ signaller' = "flagged" /\ interrupted' = TRUE
    /\ UNCHANGED <<system, reader, watchdog>> /\ Others

\* WORKER_PGID is read, then its group is killed
SignalLoads ==
    /\ signaller = "flagged"
    /\ signaller' = IF registered THEN "loaded" ELSE "idle"
    /\ UNCHANGED <<system, interrupted, reader, watchdog>> /\ Others

SignalKills ==
    /\ signaller = "loaded" /\ signaller' = "idle"
    /\ KillGroup
    /\ UNCHANGED <<interrupted, reader, watchdog>> /\ Others

Signaller == SignalLoads \/ SignalKills

------------------------------------------------------------------------------
Outside == WorkerEnds \/ WorkerHangs \/ Fork \/ KidEnds \/ KidEscapes \/ EscapedEnds
           \/ Signal

\* `agg spawn`, the tasks, and who clears their logs
Tasks == (Spawner \/ TaskEnds \/ LogRemoved) /\ UNCHANGED <<system, pc, run, threads>>

Next == MainThread \/ ReaderEnds \/ Watchdog \/ Signaller \/ Outside \/ Tasks

\* agg's own threads run; an agent that makes progress may go on for ever
Spec == Init /\ [][Next]_vars /\ WF_vars(MainThread) /\ WF_vars(Watchdog) /\ WF_vars(Signaller)

------------------------------------------------------------------------------
(* Properties.                                                               *)

\* The shape of the state: each phase of run_session has the worker, the registration and
\* the flags it should find.
TypeOK ==
    /\ worker \in {"none", "running", "zombie", "gone"}
    /\ kids \subseteq 1 .. forks /\ listed \subseteq 1 .. forks /\ forks \in 0 .. MaxFork
    /\ {hung, pipe, harmed, registered, interrupted, done}
           \subseteq BOOLEAN
    /\ RegistryOK /\ protected \subseteq 1 .. spawned
    /\ pc \in Phases /\ session \in 0 .. MaxSession
    /\ reader \in {"off", "reading", "sent"} /\ watchdog \in {"off", "watching", "armed"}
    /\ signaller \in {"idle", "flagged", "loaded"}
    /\ pc \in {"register", "wait"} <=> worker \in {"running", "zombie"}
    /\ registered <=> pc \in {"wait", "unregister"}
    /\ done => pc \notin {"register", "wait", "unregister", "flag"}
    /\ pc \in {"resweep", "relisted"} => watchdog = "off"

\* GUIDE.md, "process-group reaping sweeps stragglers when a session ends": with no
\* registered task alive nothing of the group is left when the session has returned.
NoStragglers == pc \in {"boundary", "ended"} /\ protected = {} => kids = {}

\* spawns.rs: the brief of every session tells of each task whose `agg spawn` succeeded and
\* that no task of its name replaced, "so the worker POLLS instead of relaunching": as running
\* while it runs, then as done until its log has been cleared away.
TasksAreAnnounced ==
    [][pc = "brief" /\ pc' = "launch" =>
         \A e \in owed : \E a \in Announced :
             a.task = e.task /\ (e.task \in alive => a.status = "running")]_vars

\* The same with a registered task alive, when the sweep goes pid by pid.
NoStragglersBesideTasks == pc \in {"boundary", "ended"} => kids = {}

\* worker.rs, "safe by construction": neither sweep, nor the watchdog, nor the signal
\* thread kills a group that is not this run's.
OnlyOwnGroupsKilled == ~harmed

\* The watchdog ends a hung worker, whatever the other threads do.
HungWorkerEnds == worker = "running" /\ hung ~> worker # "running"

\* worker.rs, "a stuck pipe can never wedge the loop": once the agent has ended, the session
\* returns, whoever still holds its output open.
SessionReturns == worker = "zombie" ~> pc \in {"boundary", "ended"}

\* signals.rs: a signal that finds the worker registered ends the run, however long the
\* agent would go on.
SignalEndsSession == signaller = "flagged" /\ registered ~> pc = "ended"

\* loop_.rs: a signal that lands while no worker is running does not let the next session
\* "launch and run to completion before the signal was noticed".
SignalEndsRun == interrupted ~> pc = "ended"
==============================================================================
