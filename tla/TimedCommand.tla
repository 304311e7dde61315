---------------------------- MODULE TimedCommand ----------------------------
(* run_with_timeout: the runner of every judge script, measurement and        *)
(* one-shot model call. A command runs in a group of its own with both pipes  *)
(* drained by threads; the caller polls it until it ends or its time is up.   *)
EXTENDS FiniteSets, Naturals

CONSTANTS
    Leaves,    \* whether a command may end and leave a process of its group running
    Escapes,   \* whether a process may leave the group with the pipes open
    MaxFork    \* bound of the instance

VARIABLES
    child,     \* the group's leader: running, zombie, gone
    kids,      \* the rest of the group
    escaped,   \* processes out of the group with the pipes open
    forks, drained, expired, pc, result

vars == <<child, kids, escaped, forks, drained, expired, pc, result>>
procs == <<child, kids, escaped, forks>>

Init ==
    /\ child = "running" /\ kids = {} /\ escaped = {} /\ forks = 0
    /\ drained = FALSE /\ expired = FALSE
    /\ pc = "poll" /\ result = "none"

------------------------------------------------------------------------------
(* The command.                                                              *)

Fork ==
    /\ child = "running" \/ kids # {}
    /\ forks < MaxFork
    /\ forks' = forks + 1
    /\ kids' = kids \cup {forks'}
    /\ UNCHANGED <<child, escaped, drained, expired, pc, result>>

KidEnds ==
    /\ \E k \in kids : kids' = kids \ {k}
    /\ UNCHANGED <<child, escaped, forks, drained, expired, pc, result>>

KidEscapes ==
    /\ Escapes
    /\ \E k \in kids : kids' = kids \ {k} /\ escaped' = escaped \cup {k}
    /\ UNCHANGED <<child, forks, drained, expired, pc, result>>

EscapedEnds ==
    /\ \E k \in escaped : escaped' = escaped \ {k}
    /\ UNCHANGED <<child, kids, forks, drained, expired, pc, result>>

CommandEnds ==
    /\ child = "running"
    /\ ~Leaves => kids \cup escaped = {}
    /\ child' = "zombie"
    /\ UNCHANGED <<kids, escaped, forks, drained, expired, pc, result>>

------------------------------------------------------------------------------
(* The caller and its two reader threads.                                    *)

\* both readers are at the end of their pipe
Drained ==
    /\ ~drained /\ child # "running" /\ kids = {} /\ escaped = {}
    /\ drained' = TRUE
    /\ UNCHANGED <<procs, expired, pc, result>>

Deadline ==
    /\ ~expired /\ expired' = TRUE
    /\ UNCHANGED <<procs, drained, pc, result>>

\* try_wait finds the command ended
Ended ==
    /\ pc = "poll" /\ child = "zombie"
    /\ child' = "gone"
    /\ pc' = "join"
    /\ \E how \in {"ok", "failed"} : result' = how
    /\ UNCHANGED <<kids, escaped, forks, drained, expired>>

KilledChildOnly == kids
Killed == {}
NeverExpired == FALSE
Expired == expired

\* try_wait finds it running past the deadline: killpg, wait
TimesOut ==
    /\ pc = "poll" /\ child = "running" /\ Expired
    /\ child' = "gone" /\ kids' = Killed
    /\ pc' = "returned" /\ result' = "timeout"
    /\ UNCHANGED <<escaped, forks, drained, expired>>

Join ==
    /\ pc = "join" /\ drained
    /\ pc' = "returned"
    /\ UNCHANGED <<procs, drained, expired, result>>

Caller == Drained \/ Deadline \/ Ended \/ TimesOut \/ Join
Next == Caller \/ Fork \/ KidEnds \/ KidEscapes \/ EscapedEnds \/ CommandEnds

\* the caller polls, its threads run and time passes; nothing else has to end
Spec == Init /\ [][Next]_vars /\ WF_vars(Drained) /\ WF_vars(Deadline)
             /\ WF_vars(Ended \/ TimesOut \/ Join)

------------------------------------------------------------------------------
\* proc.rs, "the child's whole group is SIGKILLed first": nothing of the group runs once the
\* caller has been told of a timeout.
TimeoutKillsGroup == result = "timeout" => child = "gone" /\ kids = {}

\* CONFIG.md, judge `timeout`, "enforced for every judge with a process-group kill": the
\* call returns, whatever the command does.
CallReturns == <>(pc = "returned")
==============================================================================
