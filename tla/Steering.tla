------------------------------ MODULE Steering ------------------------------
(* The operator's channel into a running workflow: the bus of steering       *)
(* commands, the session boundary that drains it, the pause, the rate-limit  *)
(* wait that drains it too, the stop check at a session's end, signals, and  *)
(* the life of the run around them. A command is its place in the order of   *)
(* sending; the log says what it was and which run it was sent to.           *)
EXTENDS Naturals, SequencesExt

CONSTANTS
    Sendable,          \* the commands the operator sends
    SendFaults,        \* "slow": a sender is seen between its write and its rename;
                       \* "dies": it may be killed there
    SendsWhileBooting, \* whether one is sent before the run has purged the bus
    SkipSteps,         \* whether the sequence has skip_judges steps
    EmptyRunSet,       \* whether no condition names a judge
    MinGap,            \* ratelimit_min_gap_secs, in polls
    MaxWait,           \* polls until the reported reset, at most
    MaxSends, MaxRun   \* bounds of the instance

Commands == {"inject", "pause", "resume", "wake", "stop", "note"}

ASSUME SendableAssumption == Sendable \subseteq Commands
ASSUME SendFaultsAssumption == SendFaults \subseteq {"slow", "dies"}
ASSUME ConfigAssumption ==
    /\ SendsWhileBooting \in BOOLEAN /\ SkipSteps \in BOOLEAN /\ EmptyRunSet \in BOOLEAN
    /\ MinGap \in Nat /\ MaxWait \in Nat /\ MaxSends \in Nat /\ MaxRun \in Nat

VARIABLES
    log,          \* what was sent: log[n] is the n-th command ever sent
    inbox,        \* the *.json of bus/in, in filename order
    sending, tmps,  \* the command a sender has written and not renamed yet (0: none), and
                  \* all the *.json.tmp of bus/in
    pc, run,
    interrupted,  \* INTERRUPTED: a SIGINT or SIGTERM was received
    batch,        \* what BusDrain drained and has not applied yet
    pending,      \* operator.pending_instruction
    deferred,     \* what the rate-limit wait drained and does not act on
    woken, left, gap,   \* the wait: a wake arrived, polls to the reset, to the minimum gap
    skip, halt, met,    \* the session: skip_judges, abort_if holds, done_if holds
    outcome,      \* how the run ended
    delivered     \* history: the instructions this run's sessions were given

procVars == <<batch, pending, deferred, woken, left, gap, skip, halt, met>>
waitVars == <<woken, left, gap>>
sessionVars == <<skip, halt, met>>
busVars == <<log, inbox, sending, tmps>>
vars == <<busVars, pc, run, interrupted, procVars, outcome, delivered>>

Phases == {"down", "booting", "baseline", "top", "drain", "paused", "pick", "work", "waiting",
           "requeue", "gate", "check", "ending"}
Outcomes == {"none", "done", "aborted", "stopped", "error"}

------------------------------------------------------------------------------
Is(n, kinds) == log[n].cmd \in kinds
Has(kinds, s) == \E i \in DOMAIN s : Is(s[i], kinds)
\* the commands of these kinds, in their order
Only(kinds, s) ==
    LET only[i \in 0 .. Len(s)] ==
            IF i = 0 THEN <<>>
            ELSE IF Is(s[i], kinds) THEN Append(only[i - 1], s[i]) ELSE only[i - 1]
    IN  only[Len(s)]

\* s up to its first command of these kinds
Before(kinds, s) ==
    LET first == CHOOSE i \in DOMAIN s :
                    Is(s[i], kinds) /\ \A j \in 1 .. i - 1 : ~ Is(s[j], kinds)
    IN IF Has(kinds, s) THEN SubSeq(s, 1, first - 1) ELSE s

Init ==
    /\ log = <<>> /\ inbox = <<>> /\ sending = 0 /\ tmps = {}
    /\ pc = "down" /\ run = 0 /\ interrupted = FALSE
    /\ batch = <<>> /\ pending = <<>> /\ deferred = <<>>
    /\ woken = FALSE /\ left = 0 /\ gap = 0
    /\ skip = FALSE /\ halt = FALSE /\ met = FALSE
    /\ outcome = "none" /\ delivered = <<>>

\* what the process holds in memory is never read again
Forget ==
    /\ batch' = <<>> /\ pending' = <<>> /\ deferred' = <<>>
    /\ woken' = FALSE /\ left' = 0 /\ gap' = 0
    /\ skip' = FALSE /\ halt' = FALSE /\ met' = FALSE

Ends(how) == pc' = "ending" /\ outcome' = how /\ Forget

------------------------------------------------------------------------------
(* The operator: `agg send`, `agg stop`, a signal.                           *)

\* run.pid names a live process, or the command is refused
Listening == pc # "down" /\ (pc = "booting" => SendsWhileBooting)

\* a sibling tmp file, then a rename into in/
Send(cmd) ==
    /\ Listening /\ sending = 0 /\ Len(log) < MaxSends
    /\ log' = Append(log, [cmd |-> cmd, run |-> run])
    /\ IF "slow" \in SendFaults
       THEN sending' = Len(log') /\ tmps' = tmps \cup {Len(log')} /\ UNCHANGED inbox
       ELSE inbox' = Append(inbox, Len(log')) /\ UNCHANGED <<sending, tmps>>
    /\ UNCHANGED <<pc, run, interrupted, procVars, outcome, delivered>>

Rename ==
    /\ sending # 0
    /\ inbox' = Append(inbox, sending)
    /\ sending' = 0 /\ tmps' = tmps \ {sending}
    /\ UNCHANGED <<log, pc, run, interrupted, procVars, outcome, delivered>>

SenderDies ==
    /\ sending # 0 /\ "dies" \in SendFaults
    /\ sending' = 0
    /\ UNCHANGED <<log, inbox, tmps, pc, run, interrupted, procVars, outcome, delivered>>

Interrupt ==
    /\ pc \notin {"down", "ending"} /\ ~interrupted
    /\ interrupted' = TRUE
    /\ UNCHANGED <<busVars, pc, run, procVars, outcome, delivered>>

------------------------------------------------------------------------------
(* Run start and run end.                                                    *)

\* write_run_pid: from here on every sender finds the run; one that found the last run may still be writing
Start ==
    /\ pc = "down" /\ run < MaxRun
    /\ run' = run + 1
    /\ pc' = "booting" /\ outcome' = "none" /\ delivered' = <<>>
    /\ UNCHANGED <<busVars, interrupted, procVars>>

\* a pre_start hook refuses: a dirty tree, no repository
Refused ==
    /\ pc = "booting"
    /\ Ends("error")
    /\ UNCHANGED <<busVars, run, interrupted, delivered>>

PurgedNothing == inbox
Purged == <<>>

Purge ==
    /\ pc = "booting"
    /\ inbox' = Purged
    /\ pc' = "baseline"
    /\ UNCHANGED <<log, sending, tmps, run, interrupted, procVars, outcome, delivered>>

\* the baseline pass: neither the bus nor a signal is looked at
Baseline ==
    /\ pc = "baseline"
    /\ \/ \E how \in {"done", "aborted", "error"} : Ends(how)
       \/ pc' = "top" /\ UNCHANGED <<procVars, outcome>>
    /\ UNCHANGED <<busVars, run, interrupted, delivered>>

\* RunPidGuard, then the process is gone
Exit ==
    /\ pc = "ending"
    /\ pc' = "down" /\ interrupted' = FALSE
    /\ UNCHANGED <<busVars, run, procVars, outcome, delivered>>

Crash ==
    /\ pc \notin {"down", "ending"}
    /\ pc' = "down" /\ interrupted' = FALSE
    /\ Forget
    /\ UNCHANGED <<busVars, run, outcome, delivered>>

------------------------------------------------------------------------------
(* A session boundary.                                                       *)

\* the loop's own checks come before the bus is looked at
Halted ==
    /\ pc = "top"
    /\ \/ interrupted /\ Ends("stopped")
       \/ ~interrupted /\ Ends("aborted")     \* over_max_sessions
    /\ UNCHANGED <<busVars, run, interrupted, delivered>>

BusDrain ==
    /\ pc = "top" /\ ~interrupted
    /\ batch' = inbox /\ inbox' = <<>>
    /\ pc' = "drain"
    /\ UNCHANGED <<log, sending, tmps, run, interrupted, pending, deferred, waitVars, sessionVars, outcome,
                   delivered>>

\* one command of the drained batch
Apply ==
    /\ pc = "drain" /\ batch # <<>>
    /\ LET n == Head(batch) IN
       IF Is(n, {"stop"})
       THEN Ends("stopped")
       ELSE /\ batch' = Tail(batch)
            /\ pending' = IF Is(n, {"inject"}) THEN Append(pending, n) ELSE pending
            /\ pc' = IF Is(n, {"pause"}) THEN "paused" ELSE "drain"
            /\ UNCHANGED <<deferred, waitVars, sessionVars, outcome>>
    /\ UNCHANGED <<busVars, run, interrupted, delivered>>

Drained ==
    /\ pc = "drain" /\ batch = <<>>
    /\ pc' = "pick"
    /\ UNCHANGED <<busVars, run, interrupted, procVars, outcome, delivered>>

\* wait_for_resume: what the drained batch holds beside the first resume or stop is dropped
SignalsIgnored == FALSE
SeesSignals == interrupted

Paused ==
    /\ pc = "paused"
    /\ IF SeesSignals
       THEN Ends("stopped") /\ UNCHANGED inbox
       ELSE /\ inbox # <<>>
            /\ inbox' = <<>>
            /\ LET ignored == Before({"resume", "stop"}, inbox)
                   n == inbox[Len(ignored) + 1]
               IN IF Len(ignored) < Len(inbox) /\ Is(n, {"stop"})
                  THEN Ends("stopped")
                  ELSE /\ pc' = IF Len(ignored) < Len(inbox) THEN "drain" ELSE "paused"
                       /\ UNCHANGED <<procVars, outcome>>
    /\ UNCHANGED <<log, sending, tmps, run, interrupted, delivered>>

\* PickStep and WriteInstructions: the brief takes the pending instruction
Pick ==
    /\ pc = "pick"
    /\ \/ \E how \in {"aborted", "error"} :    \* a sequence error, a missing prompt file
             Ends(how) /\ UNCHANGED delivered
       \/ /\ pc' = "work"
          /\ delivered' = delivered \o pending
          /\ pending' = <<>>
          /\ UNCHANGED <<batch, deferred, waitVars, sessionVars, outcome>>
    /\ UNCHANGED <<busVars, run, interrupted>>

------------------------------------------------------------------------------
(* The session.                                                              *)

\* LaunchWorker: a signal kills the worker, so an interrupted session is never judged
WorkerExits ==
    /\ pc = "work"
    /\ \/ interrupted /\ Ends("stopped")
       \/ ~interrupted /\ Ends("error")        \* worker_is_broken
       \/ /\ ~interrupted                      \* rate-limited
          /\ pc' = "waiting"
          /\ woken' = FALSE /\ gap' = MinGap
          /\ \E reset \in 0 .. MaxWait : left' = reset
          /\ UNCHANGED <<batch, pending, deferred, sessionVars, outcome>>
       \/ /\ ~interrupted
          /\ pc' = "gate"
          /\ skip' \in {FALSE, SkipSteps} /\ halt' \in BOOLEAN
          /\ met' \in {FALSE, ~skip'}          \* a skip step cannot turn done_if true
          /\ UNCHANGED <<batch, pending, deferred, waitVars, outcome>>
    /\ UNCHANGED <<busVars, run, interrupted, delivered>>

\* CeilingPoisonGuard, then the gate's re-evaluated conditions
Gate ==
    /\ pc = "gate"
    /\ IF skip /\ halt /\ EmptyRunSet
       THEN Ends("aborted")
       ELSE /\ pc' = "check"
            /\ halt' \in (IF skip THEN {halt} ELSE BOOLEAN)
            /\ met' \in (IF skip THEN {met} ELSE BOOLEAN)
            /\ UNCHANGED <<batch, pending, deferred, waitVars, skip, outcome>>
    /\ UNCHANGED <<busVars, run, interrupted, delivered>>

\* report::decide, over everything that holds at this session end
Decide(stopped) ==
    IF stopped THEN "stopped" ELSE IF met THEN "done" ELSE IF halt THEN "aborted" ELSE "none"

\* take_stop: any file of in/ that reads as a stop has the queue drained
StopQueued == Has({"stop"}, inbox) \/ \E n \in tmps : Is(n, {"stop"})

CheckRunStop ==
    /\ pc = "check"
    /\ LET stopped == interrupted \/ Has({"stop"}, inbox)
           how == Decide(stopped)
       IN /\ inbox' = IF ~interrupted /\ StopQueued THEN <<>> ELSE inbox
          /\ IF how # "none"
             THEN Ends(how)
             ELSE /\ pc' = "top"
                  /\ skip' = FALSE /\ halt' = FALSE /\ met' = FALSE
                  /\ UNCHANGED <<batch, pending, deferred, waitVars, outcome>>
    /\ UNCHANGED <<log, sending, tmps, run, interrupted, delivered>>

------------------------------------------------------------------------------
(* The rate-limit wait.                                                      *)

\* wait_is_over
Over(awake) == left = 0 \/ (awake /\ gap = 0)

Fewer(k) == IF k = 0 THEN 0 ELSE k - 1

\* one turn of wait_out: the signal, the ceilings, the bus, the clock, then a second of sleep
Poll(ceiling) ==
    /\ pc = "waiting"
    /\ IF interrupted \/ ceiling
       THEN /\ pc' = "requeue"
            /\ outcome' = IF interrupted THEN "stopped" ELSE "aborted"
            /\ UNCHANGED <<inbox, deferred, waitVars>>
       ELSE LET taken == Before({"stop"}, inbox)
                stopped == Has({"stop"}, inbox)
                awake == woken \/ Has({"wake", "resume"}, taken)
            IN /\ inbox' = <<>>
               /\ deferred' = deferred \o Only(Commands \ {"wake", "resume"}, taken)
               /\ outcome' = IF stopped THEN "stopped" ELSE "none"
               /\ IF stopped \/ Over(awake)
                  THEN pc' = "requeue" /\ UNCHANGED waitVars
                  ELSE /\ woken' = awake /\ left' = Fewer(left) /\ gap' = Fewer(gap)
                       /\ UNCHANGED pc
    /\ UNCHANGED <<log, sending, tmps, run, interrupted, batch, pending, sessionVars, delivered>>

\* stamped 0, so ahead of whatever was sent meanwhile
RequeuedLast == inbox \o deferred
Requeued == deferred \o inbox

Requeue ==
    /\ pc = "requeue"
    /\ inbox' = Requeued
    /\ IF outcome # "none"
       THEN Ends(outcome)
       ELSE /\ pc' = "top"
            /\ deferred' = <<>> /\ woken' = FALSE /\ left' = 0 /\ gap' = 0
            /\ UNCHANGED <<batch, pending, sessionVars, outcome>>
    /\ UNCHANGED <<log, sending, tmps, run, interrupted, delivered>>

------------------------------------------------------------------------------
Loop ==
    \/ Refused \/ Purge \/ Baseline \/ Exit
    \/ Halted \/ BusDrain \/ Apply \/ Drained \/ Paused \/ Pick
    \/ Gate \/ CheckRunStop
    \/ Poll(FALSE) \/ Requeue

Operator == (\E cmd \in Sendable : Send(cmd)) \/ SenderDies \/ Interrupt \/ Start \/ Crash

Next == Loop \/ WorkerExits \/ Poll(TRUE) \/ Rename \/ Operator

\* the process runs and the clock ticks; no worker has to end its session, nobody has to send
\* anything and no ceiling has to trip
Spec == Init /\ [][Next]_vars /\ WF_vars(Loop)

------------------------------------------------------------------------------
(* Properties.                                                               *)

Place == 1 .. Len(log)

\* The shape of the state: what the run holds was sent, and only the phase that works on
\* a piece of it holds any.
TypeOK ==
    /\ log \in Seq([cmd : Commands, run : 1 .. MaxRun]) /\ Len(log) \in 0 .. MaxSends
    /\ sending \in 0 .. Len(log) /\ tmps \subseteq Place /\ sending \in tmps \cup {0}
    /\ inbox \in Seq(Place) /\ batch \in Seq(Place) /\ pending \in Seq(Place)
    /\ deferred \in Seq(Place) /\ delivered \in Seq(Place)
    /\ pc \in Phases /\ run \in 0 .. MaxRun /\ outcome \in Outcomes
    /\ interrupted \in BOOLEAN /\ woken \in BOOLEAN
    /\ left \in 0 .. MaxWait /\ gap \in 0 .. MinGap
    /\ skip \in BOOLEAN /\ halt \in BOOLEAN /\ met \in BOOLEAN
    /\ batch # <<>> => pc \in {"drain", "paused"}
    /\ deferred # <<>> => pc \in {"waiting", "requeue"}

Pipeline == delivered \o pending \o batch \o deferred \o inbox

\* Every command is worked on in the order it was sent and no command twice, waits, pauses
\* and restarts included ("apply in order", "consumed exactly once", bus.rs; requeue's
\* "ahead of anything sent later").
InSendOrder ==
    \A i, j \in 1 .. Len(Pipeline) : i < j => Pipeline[i] < Pipeline[j]

\* purge: past its start, a run holds at most one command that was sent to an earlier run, the one whose
\* sender was between its write and its rename when the bus was purged; drained, deferred and put back
\* like any other, it brings no second one with it.
OnlyTheLateAreStale ==
    pc \notin {"down", "booting", "ending"} =>
        \A i, j \in 1 .. Len(Pipeline) :
            log[Pipeline[i]].run # run /\ log[Pipeline[j]].run # run => i = j /\ "slow" \in SendFaults

\* bus.rs:65, "[`purge`] clears anything stale when a workflow starts": not even that one.
NoStaleCommand ==
    pc \notin {"down", "booting", "ending"} =>
        \A i \in 1 .. Len(Pipeline) : log[Pipeline[i]].run = run

\* "anything else: kept, in order, for the next session boundary": a wait the run outlives
\* drops nothing but the wakes and resumes it acted on (sort_commands, requeue).
Kept == Only({"inject", "pause", "note"}, deferred \o inbox)
WaitKeepsCommands ==
    [][ /\ pc \in {"waiting", "requeue"} /\ pc' \in {"waiting", "requeue", "top"}
        /\ outcome' = "none"
        => IsPrefix(Kept, Kept') ]_vars

\* GUIDE.md, "applied at the next session boundary": an instruction sent to a run
\* that goes on is on its way to a brief or was in one.
InstructionsReachABrief ==
    pc \notin {"down", "booting", "ending"} /\ outcome = "none" =>
        \A n \in Place \ tmps : Is(n, {"inject"}) /\ log[n].run = run =>
            \E i \in 1 .. Len(Pipeline) : Pipeline[i] = n

\* A rate-limit wait ends: nothing about it waits for the operator (wait_is_over).
WaitEnds == pc = "waiting" ~> pc # "waiting"

\* A signal ends the run wherever it lands, a paused or waiting run included (wait_for_resume, wait_out,
\* drive, LaunchWorker), unless the worker under way is one that never ends: a signal that lands before
\* the worker is registered does not kill it.
SignalEndsRun == interrupted ~> (pc = "down" \/ [](pc = "work"))

\* report/mod.rs, "the operator's kill switch must never be reported as anything else": no
\* ending at all is done or aborted over a queued stop or a received signal.
KillSwitchIsReported ==
    [][ outcome = "none" /\ outcome' \in {"done", "aborted"}
        => ~interrupted /\ ~ Has({"stop"}, inbox) ]_vars

\* GUIDE.md, `agg stop`, "graceful stop at the next session boundary": a stop that is queued
\* for the run ends it, no phase swallows one, as long as the workers end.
StopEndsRun ==
    (pc # "down" /\ \E i \in DOMAIN inbox : Is(inbox[i], {"stop"}) /\ log[inbox[i]].run = run)
        ~> (pc = "down" \/ [](pc = "work"))

\* CONFIG.md, `agg send resume` "unpauses, as always": a resume sent after the last pause is
\* not left behind by the pause it answers.
ResumeUnpauses ==
    (pc = "paused" /\ \E n \in Place : Is(n, {"resume"}) /\ log[n].run = run
                        /\ \A m \in n + 1 .. Len(log) : ~ Is(m, {"pause"})) ~> pc # "paused"
==============================================================================
