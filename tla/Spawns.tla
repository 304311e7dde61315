------------------------------- MODULE Spawns -------------------------------
(* The long-task registry, spawns.json: what `agg spawn` launches is recorded *)
(* there, spared by the sweeps and told to the next session. `agg spawn` is   *)
(* run by the worker or by a human, the loop scans the file before each       *)
(* brief; both load it, change their copy and save it. A task is its process  *)
(* id, which is also its group: setsid makes it a leader.                     *)
EXTENDS FiniteSets, Sequences, Naturals

CONSTANTS
    Handles,     \* by task: the names it may be given
    Overlaps     \* whether a save may come between another's load and save

ASSUME SpawnsAssumption == Overlaps \in BOOLEAN /\ Handles \in Seq(SUBSET UNION {Handles[t] : t \in DOMAIN Handles})

\* bound: tasks ever spawned
MaxTasks == Len(Handles)

VARIABLES
    registry,    \* spawns.json: entries of name, task and status
    alive,       \* the tasks whose process runs
    logs,        \* the names whose log exists
    spawner,     \* the `agg spawn` under way: its step, entry and copy
    scanner,     \* the loop's copy of the registry between load and save
    spawned,     \* how many tasks were ever launched
    owed         \* history: the entries `agg spawn` returned for, newest per name, that are due

registryVars == <<registry, alive, logs, spawner, scanner, spawned, owed>>

NoCopy == [at |-> "idle"]

SpawnsInit ==
    /\ registry = {} /\ alive = {} /\ logs = {} /\ spawned = 0
    /\ spawner = NoCopy /\ scanner = NoCopy /\ owed = {}

Without(entries, name) == {e \in entries : e.name # name}

\* a task is due in a brief while it runs, and after that while its log is there
Due(entries) == {e \in entries : e.task \in alive' \/ e.name \in logs'}

------------------------------------------------------------------------------
(* `agg spawn`: the log is opened, the task started, the registry rewritten.  *)

SpawnStarts ==
    /\ spawner = NoCopy /\ spawned < MaxTasks
    /\ \E n \in Handles[spawned + 1] :
         /\ spawned' = spawned + 1
         /\ alive' = alive \cup {spawned'}
         /\ logs' = logs \cup {n}
         /\ spawner' = [at |-> "started", copy |-> IF Overlaps THEN registry ELSE {},
                        entry |-> [name |-> n, task |-> spawned', status |-> "running"]]
    /\ UNCHANGED <<registry, scanner, owed>>

\* Registry::register: what it loaded may be as old as the task
RegisterTask ==
    LET e == spawner.entry
    IN  /\ spawner.at = "started" /\ (Overlaps \/ scanner = NoCopy)
        /\ \E copy \in IF Overlaps THEN {registry, spawner.copy} ELSE {registry} :
             registry' = Without(copy, e.name) \cup {e}
        /\ spawner' = NoCopy
        /\ UNCHANGED <<alive, logs, scanner, spawned>>
        /\ owed' = Due(Without(owed, e.name) \cup {e})

\* the registry cannot be written: the command fails with its task running
RegisterFails ==
    /\ spawner.at = "started" /\ spawner' = NoCopy
    /\ UNCHANGED <<registry, alive, logs, scanner, spawned, owed>>

Spawner == SpawnStarts \/ RegisterTask \/ RegisterFails

------------------------------------------------------------------------------
(* The tasks and their logs.                                                  *)

TaskEnds ==
    /\ \E t \in alive : alive' = alive \ {t}
    /\ UNCHANGED <<registry, logs, spawner, scanner, spawned>>
    /\ owed' = Due(owed)

\* who has consumed a result clears its log away
LogRemoved ==
    /\ alive = {}
    /\ \E n \in logs : logs' = logs \ {n}
    /\ UNCHANGED <<registry, alive, spawner, scanner, spawned>>
    /\ owed' = Due(owed)

------------------------------------------------------------------------------
(* The loop: a scan and a summary per session, the protected groups per sweep.*)

\* the reaper's exemptions: entries still running, whose process is
Protected == {e.task : e \in {x \in registry : x.status = "running" /\ x.task \in alive}}

KeepsRunningOnly(e) == e.status = "running"

\* what a scan keeps: running tasks, and finished ones whose log is there
Kept(e) == e.status = "running" \/ e.name \in logs

Scanned(entries) ==
    {e \in {[x EXCEPT !.status = IF x.task \in alive THEN x.status ELSE "done"]
              : x \in entries} : Kept(e)}

\* nothing changed: nothing is saved
ScanLoads ==
    /\ scanner = NoCopy
    /\ scanner' = IF Scanned(registry) = registry THEN scanner
                  ELSE [at |-> "loaded", copy |-> Scanned(registry)]
    /\ UNCHANGED <<registry, alive, logs, spawner, spawned, owed>>

ScanSaves ==
    /\ scanner.at = "loaded"
    /\ registry' = scanner.copy /\ scanner' = NoCopy
    /\ UNCHANGED <<alive, logs, spawner, spawned, owed>>

\* summary_for_prompt: what the brief tells of
Announced == registry

RegistryOK ==
    LET Names == UNION {Handles[t] : t \in 1 .. MaxTasks}
        Entry == [name : Names, task : 1 .. MaxTasks, status : {"running", "done"}]
    IN  /\ {registry, owed} \subseteq SUBSET Entry
        /\ alive \subseteq 1 .. spawned /\ logs \subseteq Names
        /\ spawner.at \in {"idle", "started"}
        /\ scanner.at \in {"idle", "loaded"}
==============================================================================
