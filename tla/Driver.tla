------------------------------- MODULE Driver -------------------------------
(* The Rust driver API: a driver program's calls on `Agg`, the call ledger    *)
(* calls.jsonl that records each completed one, and the resume that answers   *)
(* them from it. The driver's position is never stored: it runs from the top  *)
(* and is led back by recorded answers, keyed by ordinal. Judges are asked    *)
(* lazily and memoized; `gate` decides on what was asked since the last gate. *)
(* The driver is a flow of calls, each naming the call made next when its     *)
(* result is favourable (`yes`) and when it is not (`no`).                    *)
EXTENDS FiniteSets, Naturals, SequencesExt

CONSTANTS
    Flows,               \* the driver programs
    Judges,
    Grades,              \* the verdicts each judge may give
    StepEnds,            \* the ways a session may end
    Stagings,            \* what may become of staging a span besides success
    Rollback,            \* OnRegression::Rollback
    RequireImprovement,  \* merge_requires_improvement
    SessionLimit, TokenLimit,
    Unwritable,          \* the judges whose row may fail to be appended
    MaxRuns              \* bound: starts of the program

Ops == {"step", "judge", "condition", "group", "gate", "gate-state", "note", "hil",
        "block", "limits"}
Call == [op : Ops, on : Seq(STRING), at : Nat, yes : Nat \ {0}, no : Nat \ {0}]

ASSUME FlowsAssumption == \A f \in Flows : \A i \in DOMAIN f : f[i] \in Call
ASSUME VocabularyAssumption ==
    /\ Grades \in [Judges -> SUBSET {"met", "unmet", "failed", "vacuous"}]
    /\ StepEnds \subseteq {"work", "idle", "vetoed", "violated"}
    /\ Stagings \subseteq {"failed", "vetoed"}
    /\ Unwritable \subseteq Judges
ASSUME PolicyAssumption == Rollback \in BOOLEAN /\ RequireImprovement \in BOOLEAN
ASSUME BoundsAssumption == {SessionLimit, TokenLimit, MaxRuns} \subseteq Nat

VARIABLES
    flow, runs,
    \* the project's files
    calls,      \* calls.jsonl
    landed,     \* landed_met of verdicts.jsonl
    \* the process: where the driver is
    mode, loc,
    queue,      \* judges the call in progress has yet to ask
    held,       \* condition: the judge was asked for the gate before
    fate,       \* what the gate in progress decided
    ord, replay,
    \* what Agg holds
    cache,      \* verdicts: this step's
    span,       \* verdicts asked since the last gate
    direct, groups,
    tip,        \* the steps on the span's branch; {}: no span_tip
    changed,    \* the span has commits
    violation,  \* span_violation
    streak,     \* consecutive_rollbacks
    session, spent, ended, resumed,
    \* the operator
    bus, answer,
    \* history
    trail,      \* the calls this process made and what the driver saw
    gap,        \* one of them completed without consuming an ordinal
    kept,       \* the trail, a gap or divergence in it, and the state, as of the
                \* last recorded kept gate
    fresh,      \* a Resume was sent since the block began
    diverged    \* this process found a call and its record to differ

position == <<mode, loc, queue, held, fate>>
asks == <<cache, span, direct, groups>>
staged == <<tip, changed, violation>>
counters == <<session, spent, streak>>
history == <<trail, gap, kept, fresh, diverged>>
driverVars == <<flow, runs, calls, landed, position, ord, replay, asks, staged, counters,
                ended, resumed, bus, answer, history>>

Modes == {"off", "calling", "asking", "recording", "waiting"}
Unasked == [j \in Judges |-> "unasked"]
Nothing == [trail |-> <<>>, gap |-> FALSE, state |-> <<>>]

------------------------------------------------------------------------------
Here == flow[loc]

AtCall(op) == mode = "calling" /\ loc \in DOMAIN flow /\ Here.op = op

\* the identity a resumed call must match
What(call) == IF call.op \in {"step", "judge", "condition", "note"} THEN Head(call.on)
              ELSE call.op

\* how `replayed` answers a call
AnsweredButJudges(what) ==
    IF ord >= Len(replay) \/ what \in Judges THEN "live"
    ELSE IF replay[ord + 1].what = what THEN "replay" ELSE "diverged"
Answered(what) ==
    IF ord >= Len(replay) THEN "live"
    ELSE IF replay[ord + 1].at = Here.at /\ replay[ord + 1].what = what THEN "replay"
    ELSE "diverged"

Row == replay[ord + 1]

Favourable == {"met", "vacuous", "kept", "yes", "many", "done"}

\* the call returned `seen` to the driver, which goes on
Returns(seen) ==
    /\ loc' = IF ToSet(seen) \cap Favourable # {} THEN Here.yes ELSE Here.no
    /\ mode' = "calling"
    /\ trail' = Append(trail, <<loc, seen>>)

\* `record`; the mark is what a resume restores from the row
Records(what, seen, mark) ==
    /\ calls' = Append(calls, [at |-> Here.at, what |-> what, seen |-> seen, mark |-> mark])
    /\ ord' = ord + 1

Skips == ord' = ord + 1 /\ UNCHANGED calls

IsKeptGate(row) == row.what = "gate" /\ row.seen = <<"kept">>

\* truncate_to_base
IsGate(row) == row.what = "gate"
TruncatedToGate(rows) == SubSeq(rows, 1, SelectLastInSeq(rows, IsGate))
TruncatedShort(rows) == SubSeq(rows, 1, SelectLastInSeq(rows, IsKeptGate) - 1)
Truncated(rows) == SubSeq(rows, 1, SelectLastInSeq(rows, IsKeptGate))

\* BusDrain at a call: the bus is emptied, and only a Stop ends the run
Drains ==
    /\ bus' = {}
    /\ resumed' = (resumed \/ "resume" \in bus)
Stops ==
    /\ "stop" \in bus
    /\ bus' = {} /\ ended' = "stopped"

Breached == session >= SessionLimit \/ spent >= TokenLimit

AggState == <<session, spent, streak, tip, changed, violation, cache, span, direct, groups>>

NothingInMemory ==
    /\ queue' = <<>> /\ held' = FALSE /\ fate' = <<>> /\ ord' = 0
    /\ cache' = Unasked /\ span' = Unasked /\ direct' = {} /\ groups' = {}
    /\ tip' = {} /\ changed' = FALSE /\ violation' = FALSE
    /\ session' = 0 /\ spent' = 0 /\ streak' = 0
    /\ ended' = "no" /\ resumed' = FALSE /\ bus' = {} /\ answer' = "none"
    /\ trail' = <<>> /\ gap' = FALSE /\ fresh' = FALSE /\ diverged' = FALSE

DriverInit ==
    /\ flow \in Flows /\ runs = 0
    /\ calls = <<>> /\ landed = Unasked
    /\ mode = "off" /\ loc = 1 /\ queue = <<>> /\ held = FALSE /\ fate = <<>>
    /\ ord = 0 /\ replay = <<>>
    /\ cache = Unasked /\ span = Unasked /\ direct = {} /\ groups = {}
    /\ tip = {} /\ changed = FALSE /\ violation = FALSE
    /\ session = 0 /\ spent = 0 /\ streak = 0
    /\ ended = "no" /\ resumed = FALSE /\ bus = {} /\ answer = "none"
    /\ trail = <<>> /\ gap = FALSE /\ kept = Nothing /\ fresh = FALSE /\ diverged = FALSE

------------------------------------------------------------------------------
(* The run's start and end.                                                  *)

\* boot, at the first spending call: the gate's state starts fresh either way
DriverBoot(resume) ==
    /\ mode = "off" /\ runs < MaxRuns
    /\ runs' = runs + 1
    /\ calls' = IF resume THEN Truncated(calls) ELSE <<>>
    /\ replay' = calls'
    /\ kept' = IF resume THEN kept ELSE Nothing
    /\ NothingInMemory
    /\ mode' = "calling" /\ loc' = 1
    /\ UNCHANGED <<flow, landed>>

\* main returned, or the process died
Exits ==
    /\ mode # "off"
    /\ mode' = "off" /\ loc' = 1
    /\ NothingInMemory
    /\ replay' = <<>>
    /\ UNCHANGED <<flow, runs, calls, landed, kept>>

\* Fatal::Ended: the driver passes it on or swallows it
CallRefused(op) ==
    /\ op \in {"step", "gate", "limits", "hil", "block"}
    /\ AtCall(op) /\ ended # "no"
    /\ loc' = Here.no
    /\ UNCHANGED <<flow, runs, calls, landed, mode, queue, held, fate, ord, replay, asks,
                   staged, counters, ended, resumed, bus, answer, history>>

\* a step, a gate, a hil or a block whose record is another call's: the driver returns
Diverges(op) ==
    /\ op \in {"step", "gate", "hil", "block"}
    /\ AtCall(op) /\ ended = "no" /\ Answered(What(Here)) = "diverged"
    /\ diverged' = TRUE
    /\ loc' = Len(flow) + 1
    /\ UNCHANGED <<flow, runs, calls, landed, mode, queue, held, fate, ord, replay, asks,
                   staged, counters, ended, resumed, bus, answer, trail, gap, kept, fresh>>

------------------------------------------------------------------------------
(* step                                                                      *)

\* the recorded counters are cumulative: assigned, never added
StepReplayed ==
    /\ AtCall("step") /\ ended = "no" /\ Answered(What(Here)) = "replay"
    /\ session' = Row.mark[1] /\ spent' = Row.mark[2]
    /\ cache' = Unasked
    /\ Skips
    /\ Returns(Row.seen)
    /\ UNCHANGED <<flow, runs, landed, queue, held, fate, replay, span, direct, groups,
                   staged, streak, ended, resumed, bus, answer, gap, kept, fresh, diverged>>

\* StageSpan: a veto leaves the span as it was
StepRuns(how) ==
    /\ AtCall("step") /\ ended = "no" /\ Answered(What(Here)) = "live"
    /\ "stop" \notin bus /\ Drains
    /\ session' = session + 1 /\ spent' = spent + 1
    /\ cache' = Unasked
    /\ tip' = IF how = "vetoed" THEN tip ELSE tip \cup {loc}
    /\ changed' = (changed \/ how \in {"work", "violated"})
    /\ violation' = (violation \/ how = "violated")
    /\ Records(What(Here), <<how, "done">>, <<session', spent'>>)
    /\ Returns(<<how, "done">>)
    /\ UNCHANGED <<flow, runs, landed, queue, held, fate, replay, span, direct, groups,
                   streak, ended, answer, gap, kept, fresh, diverged>>

StepStopped ==
    /\ AtCall("step") /\ ended = "no" /\ Answered(What(Here)) = "live"
    /\ Stops
    /\ cache' = Unasked
    /\ UNCHANGED <<flow, runs, calls, landed, position, ord, replay, span, direct, groups,
                   staged, counters, resumed, answer, history>>

------------------------------------------------------------------------------
(* judge, condition, group                                                   *)

Asking == {"judge", "condition", "group"}
LatchedByCeiling == ended = "halt"
Latched == ended # "no"

AsksBegin(op) ==
    /\ op \in Asking /\ AtCall(op) /\ ~Latched
    /\ mode' = "asking" /\ queue' = Here.on
    /\ held' = (op = "condition" /\ (span[Here.on[1]] # "unasked" \/ Here.on[1] \in direct))
    /\ direct' = IF op = "judge" THEN direct \cup ToSet(Here.on) ELSE direct
    /\ groups' = IF op = "group" THEN groups \cup {ToSet(Here.on)} ELSE groups
    /\ UNCHANGED <<flow, runs, calls, landed, loc, fate, ord, replay, cache, span, staged,
                   counters, ended, resumed, bus, answer, history>>

\* a run that ended gives a not-met verdict
AsksLatched(op) ==
    /\ op \in Asking /\ AtCall(op) /\ Latched
    /\ loc' = Here.no
    /\ UNCHANGED <<flow, runs, calls, landed, mode, queue, held, fate, ord, replay, asks,
                   staged, counters, ended, resumed, bus, answer, history>>

Memoized ==
    /\ mode = "asking" /\ queue # <<>> /\ cache[Head(queue)] # "unasked"
    /\ queue' = Tail(queue)
    /\ UNCHANGED <<flow, runs, calls, landed, mode, loc, held, fate, ord, replay, asks,
                   staged, counters, ended, resumed, bus, answer, history>>

\* a verdict for the judge at hand enters this step's cache and the span
Verdict(grade) ==
    /\ cache' = [cache EXCEPT ![Head(queue)] = grade]
    /\ span' = [span EXCEPT ![Head(queue)] = grade]
    /\ queue' = Tail(queue)
    /\ UNCHANGED <<flow, runs, landed, mode, loc, held, fate, replay, direct, groups, staged,
                   session, streak, ended, resumed, bus, answer, trail, kept, fresh>>

MustAsk == mode = "asking" /\ queue # <<>> /\ cache[Head(queue)] = "unasked"

\* a judge's spend is its own: added, never assigned
SpendReplayed == spent
Spend == spent + 1

VerdictReplayed ==
    /\ MustAsk /\ Answered(Head(queue)) = "replay"
    /\ spent' = Spend
    /\ Skips
    /\ Verdict(Row.seen[1])
    /\ UNCHANGED <<gap, diverged>>

JudgeRuns(grade, written) ==
    /\ MustAsk /\ Answered(Head(queue)) = "live"
    /\ grade \in Grades[Head(queue)]
    /\ spent' = spent + 1
    /\ IF written THEN Records(Head(queue), <<grade>>, <<>>) /\ UNCHANGED gap
       ELSE Head(queue) \in Unwritable /\ gap' = TRUE /\ UNCHANGED <<calls, ord>>
    /\ Verdict(grade)
    /\ UNCHANGED diverged

\* a failed verdict, not an error: the driver goes on
VerdictDiverges ==
    /\ MustAsk /\ Answered(Head(queue)) = "diverged"
    /\ diverged' = TRUE
    /\ Verdict("failed")
    /\ UNCHANGED <<calls, ord, spent, gap>>

\* a judge that only conditions asked leaves the span again
ReleasedNever == span
Released == IF Here.op = "condition" /\ ~held
            THEN [span EXCEPT ![Here.on[1]] = "unasked"] ELSE span

AsksEnd ==
    /\ mode = "asking" /\ queue = <<>>
    /\ span' = Released
    /\ held' = FALSE
    /\ Returns([i \in DOMAIN Here.on |-> cache[Here.on[i]]])
    /\ UNCHANGED <<flow, runs, calls, landed, queue, fate, ord, replay, cache, direct,
                   groups, staged, counters, ended, resumed, bus, answer, gap, kept, fresh,
                   diverged>>

------------------------------------------------------------------------------
(* gate                                                                      *)

\* assess: the judges asked by name or in no group one by one, the groups net
GradedAny(j) == span[j] # "unasked"
Graded(j) == span[j] \in {"met", "unmet"}
Lost == {j \in Judges : span[j] = "unmet" /\ landed[j] = "met"}
Gained == {j \in Judges : span[j] = "met" /\ landed[j] # "met"}
Individual == {j \in Judges : j \in direct \/ \A g \in groups : j \notin g}
Net(g, moved) == Cardinality((g \ Individual) \cap moved)
Regressed ==
    \/ Individual \cap Lost # {}
    \/ \E g \in groups : Net(g, Lost) > Net(g, Gained)
Improved ==
    \/ Individual \cap Gained # {}
    \/ \E g \in groups : Net(g, Gained) > Net(g, Lost)

\* keep_or_rollback, of a merge that was staged
Fate == IF violation \/ (Rollback /\ Regressed) THEN "rolled-back"
        ELSE IF RequireImprovement /\ ~Improved THEN "no-improvement"
        ELSE "kept"

StreakAfter(outcome) == CASE outcome = "kept" -> 0
                          [] outcome = "rolled-back" -> streak + 1
                          [] OTHER -> streak

ForgetsAsks ==
    /\ cache' = Unasked /\ span' = Unasked
    /\ direct' = {} /\ groups' = {}

\* a recorded gate touches no ref, restores the gate's state and opens a span
GateRestoresNothing == UNCHANGED streak
GateRestores == streak' = Row.mark[1]
GateReplayed ==
    /\ AtCall("gate") /\ ended = "no" /\ Answered("gate") = "replay"
    /\ GateRestores
    /\ ForgetsAsks
    /\ Skips
    /\ Returns(Row.seen)
    /\ UNCHANGED <<flow, runs, landed, queue, held, fate, replay, staged, session, spent,
                   ended, resumed, bus, answer, gap, kept, fresh, diverged>>

AtLiveGate == AtCall("gate") /\ ended = "no" /\ Answered("gate") = "live"

\* nothing staged: no record and no ordinal
GateFindsNothing ==
    /\ AtLiveGate /\ tip = {}
    /\ violation' = FALSE
    /\ gap' = TRUE
    /\ Returns(<<"nothing">>)
    /\ UNCHANGED <<flow, runs, calls, landed, queue, held, fate, ord, replay, asks, tip,
                   changed, counters, ended, resumed, bus, answer, kept, fresh, diverged>>

\* Conflict, CheckoutFailed: the span and what was asked stay
GateFails ==
    /\ AtLiveGate /\ tip # {} /\ "failed" \in Stagings
    /\ Records("gate", <<"failed">>, <<streak>>)
    /\ Returns(<<"failed">>)
    /\ UNCHANGED <<flow, runs, landed, queue, held, fate, replay, asks, staged, counters,
                   ended, resumed, bus, answer, gap, kept, fresh, diverged>>

\* the merge or the discard, the verdict rows and the teardown
GateDecides(outcome) ==
    /\ AtLiveGate /\ tip # {}
    /\ \/ outcome = "vetoed" /\ "vetoed" \in Stagings
       \/ outcome = "no-changes" /\ ~changed   \* GateOutcome::Nothing too
       \/ outcome = Fate /\ changed
    /\ mode' = "recording" /\ fate' = <<outcome>>
    /\ landed' = IF outcome = "kept"
                 THEN [j \in Judges |-> IF Graded(j) THEN span[j] ELSE landed[j]]
                 ELSE landed
    /\ streak' = StreakAfter(outcome)
    /\ tip' = {} /\ changed' = FALSE /\ violation' = FALSE
    /\ UNCHANGED <<flow, runs, calls, loc, queue, held, ord, replay, asks, session, spent,
                   ended, resumed, bus, answer, history>>

GateRecorded ==
    /\ mode = "recording"
    /\ ForgetsAsks
    /\ Records("gate", fate, <<streak>>)
    /\ Returns(fate)
    /\ fate' = <<>>
    /\ UNCHANGED <<flow, runs, landed, queue, held, replay, staged, counters, ended, resumed,
                   bus, answer, gap, fresh, diverged>>
    /\ kept' = IF fate = <<"kept">>
               THEN [trail |-> trail', gap |-> gap \/ diverged, state |-> AggState'] ELSE kept

\* gate_state().consecutive_rollbacks, read and never recorded
GateStateRead ==
    /\ AtCall("gate-state")
    /\ Returns(IF streak > 0 THEN <<"many">> ELSE <<"few">>)
    /\ UNCHANGED <<flow, runs, calls, landed, queue, held, fate, ord, replay, asks, staged,
                   counters, ended, resumed, bus, answer, gap, kept, fresh, diverged>>

------------------------------------------------------------------------------
(* notes, ceilings and the calls that wait for the operator                  *)

NoteSilent ==
    /\ AtCall("note")
    /\ IF Latched THEN UNCHANGED <<calls, ord>>
       ELSE Answered(What(Here)) = "replay" /\ Skips
    /\ Returns(<<"done">>)
    /\ UNCHANGED <<flow, runs, landed, queue, held, fate, replay, asks, staged, counters,
                   ended, resumed, bus, answer, gap, kept, fresh, diverged>>

\* a note cannot return an error: one that diverged is delivered again
NoteDelivered ==
    /\ AtCall("note") /\ ~Latched /\ Answered(What(Here)) # "replay"
    /\ diverged' = (diverged \/ Answered(What(Here)) = "diverged")
    /\ IF "stop" \in bus
       THEN Stops /\ UNCHANGED <<calls, ord, resumed>>
       ELSE Drains /\ Records(What(Here), <<"done">>, <<>>) /\ UNCHANGED ended
    /\ Returns(<<"done">>)
    /\ UNCHANGED <<flow, runs, landed, queue, held, fate, replay, asks, staged, counters,
                   answer, gap, kept, fresh>>

\* check_limits ends the run: Ctrl-C, `agg stop`, a ceiling
LimitsEnd ==
    /\ AtCall("limits") \/ mode = "waiting"
    /\ ended = "no"
    /\ \/ Stops /\ UNCHANGED resumed
       \/ "stop" \notin bus /\ Drains /\ Breached /\ ended' = "halt"
    /\ mode' = "calling" /\ answer' = "none"
    /\ UNCHANGED <<flow, runs, calls, landed, loc, queue, held, fate, ord, replay, asks,
                   staged, counters, history>>

LimitsHold == "stop" \notin bus /\ ~Breached

LimitsChecked ==
    /\ AtCall("limits") /\ ended = "no" /\ LimitsHold
    /\ Drains
    /\ Returns(<<"done">>)
    /\ UNCHANGED <<flow, runs, calls, landed, queue, held, fate, ord, replay, asks, staged,
                   counters, ended, answer, gap, kept, fresh, diverged>>

Waits == {"hil", "block"}

\* an answer that was recorded is not asked for again
WaitReplayed(op) ==
    /\ op \in Waits /\ AtCall(op) /\ ended = "no" /\ Answered(op) = "replay"
    /\ Skips
    /\ Returns(Row.seen)
    /\ UNCHANGED <<flow, runs, landed, queue, held, fate, replay, asks, staged, counters,
                   ended, resumed, bus, answer, gap, kept, fresh, diverged>>

\* operator_check; a Resume from before a block is not its answer
StaleResumeStays == resumed \/ "resume" \in bus
ResumedAtBlock == FALSE

WaitBegins(op) ==
    /\ op \in Waits /\ AtCall(op) /\ ended = "no" /\ Answered(op) = "live"
    /\ IF "stop" \in bus
       THEN Stops /\ UNCHANGED <<mode, resumed, fresh>>
       ELSE /\ bus' = {}
            /\ resumed' = IF op = "block" THEN ResumedAtBlock
                          ELSE resumed \/ "resume" \in bus
            /\ fresh' = FALSE
            /\ mode' = "waiting"
            /\ UNCHANGED ended
    /\ UNCHANGED <<flow, runs, calls, landed, loc, queue, held, fate, ord, replay, asks,
                   staged, counters, answer, trail, gap, kept, diverged>>

\* recorded only once answered
Answers(op, seen) ==
    /\ mode = "waiting" /\ Here.op = op /\ LimitsHold
    /\ bus' = {} /\ answer' = "none"
    /\ Records(op, seen, <<>>)
    /\ Returns(seen)
    /\ UNCHANGED <<flow, runs, landed, queue, held, fate, replay, asks, staged, counters,
                   ended, gap, kept, fresh, diverged>>

HilAnswered ==
    /\ answer # "none"
    /\ resumed' = (resumed \/ "resume" \in bus)
    /\ Answers("hil", <<answer>>)

BlockReleased ==
    /\ resumed \/ "resume" \in bus
    /\ resumed' = FALSE
    /\ Answers("block", <<"done">>)

\* only a block reads a Resume
Commands == IF \E i \in DOMAIN flow : flow[i].op = "block" THEN {"resume", "stop"} ELSE {"stop"}

\* `agg answer`, `agg send resume`, `agg stop`
Human(does) ==
    /\ mode # "off" /\ ended = "no"
    /\ \/ /\ does \in {"yes", "no"}
          /\ mode = "waiting" /\ Here.op = "hil" /\ answer = "none"
          /\ answer' = does /\ UNCHANGED <<bus, fresh>>
       \/ /\ does \in Commands \ bus
          /\ bus' = bus \cup {does}
          /\ fresh' = (fresh \/ does = "resume")
          /\ UNCHANGED answer
    /\ UNCHANGED <<flow, runs, calls, landed, position, ord, replay, asks, staged, counters,
                   ended, resumed, trail, gap, kept, diverged>>

DriverNext ==
    \/ \E resume \in BOOLEAN : DriverBoot(resume)
    \/ Exits
    \/ \E op \in Ops : CallRefused(op) \/ Diverges(op)
    \/ StepReplayed \/ StepStopped \/ \E how \in StepEnds : StepRuns(how)
    \/ \E op \in Asking : AsksBegin(op) \/ AsksLatched(op)
    \/ Memoized \/ VerdictReplayed \/ VerdictDiverges \/ AsksEnd
    \/ \E grade \in UNION Range(Grades), written \in BOOLEAN : JudgeRuns(grade, written)
    \/ GateReplayed \/ GateFindsNothing \/ GateFails
    \/ \E outcome \in {"vetoed", "no-changes", "kept", "rolled-back", "no-improvement"} :
           GateDecides(outcome)
    \/ GateRecorded \/ GateStateRead
    \/ NoteSilent \/ NoteDelivered \/ LimitsEnd \/ LimitsChecked
    \/ \E op \in Waits : WaitReplayed(op) \/ WaitBegins(op)
    \/ HilAnswered \/ BlockReleased
    \/ \E does \in {"yes", "no", "resume", "stop"} : Human(does)

DriverSpec == DriverInit /\ [][DriverNext]_driverVars

------------------------------------------------------------------------------
(* The programs whose gates may fail. A failed gate keeps the verdicts it was *)
(* to decide on, its replay forgets them: until the next step or gate the two *)
(* differ in which judges they would ask.                                     *)

\* idle: from a gate that failed the program gets there without asking a judge;
\* last: from there on it makes no gate
Pauses(f, idle, last) ==
    \A i \in DOMAIN f :
        /\ i \in last => f[i].op # "gate" /\ {f[i].yes, f[i].no} \subseteq last
        /\ f[i].op = "gate" => f[i].no \in idle
        /\ i \in idle \ last =>
               /\ f[i].op \notin Asking
               /\ f[i].op \in {"step", "gate"} \/ {f[i].yes, f[i].no} \subseteq idle

\* After a failed gate a program asks no judge before its next step or gate, unless it
\* makes no gate any more.
AsksAfresh(f) == \E p \in (SUBSET Nat) \X (SUBSET Nat) : Pauses(f, p[1], p[2])
AskedAfresh == \A f \in Flows : "failed" \in Stagings => AsksAfresh(f)

------------------------------------------------------------------------------
(* Properties                                                                *)

TypeOK ==
    /\ flow \in Flows /\ runs \in 0 .. MaxRuns
    /\ mode \in Modes /\ loc \in 1 .. Len(flow) + 1
    /\ queue \in Seq(Judges) /\ held \in BOOLEAN
    /\ ord \in Nat /\ Len(replay) <= Len(calls)
    /\ {cache, span} \subseteq [Judges -> {"unasked", "met", "unmet", "failed", "vacuous"}]
    /\ landed \in [Judges -> {"unasked", "met", "unmet"}]
    /\ direct \subseteq Judges /\ groups \subseteq SUBSET Judges
    /\ tip \subseteq DOMAIN flow /\ changed \in BOOLEAN /\ violation \in BOOLEAN
    /\ {session, spent, streak} \subseteq Nat
    /\ ended \in {"no", "stopped", "halt"} /\ resumed \in BOOLEAN
    /\ bus \subseteq {"resume", "stop"} /\ answer \in {"none", "yes", "no"}
    /\ gap \in BOOLEAN /\ fresh \in BOOLEAN /\ diverged \in BOOLEAN

\* A resumed run of an unchanged driver never finds a call and its record to differ
\* (docs/RUST_API.md: identical inputs produce identical branches).
UnchangedDriverNeverDiverges == ~diverged

\* As long as every call up to the last kept gate consumed its ordinal, a resumed
\* driver sees exactly what it saw before: `replayed` answers each call with the row
\* of that call, although only ordinals, labels and names tie the two together.
ReplayReproduces ==
    ended = "no" /\ ~kept.gap
    => /\ ~diverged
       /\ \A i \in DOMAIN trail \cap DOMAIN kept.trail : trail[i] = kept.trail[i]

\* ... and where the fast-forward ends, Agg holds what it held at that gate: the
\* counters the ceilings read, the gate's own state, and no verdict, group or staged
\* step of the span the gate closed.
ResumeRebuildsTheState ==
    /\ mode = "calling" /\ ended = "no" /\ ~kept.gap
    /\ kept.trail # <<>> /\ Len(trail) = Len(kept.trail)
    => AggState = kept.state

\* ... and until it ends nothing runs: no session, judge, merge or note of a kept span
\* happens twice, and no human is asked again.
NothingLandedIsRedone ==
    [][(Len(calls') > Len(calls) \/ mode' \in {"waiting", "recording"}) /\ ~kept.gap
       => Len(trail) >= Len(kept.trail)]_driverVars

\* the calls since the gate that closed the last span
Closes(entry) == flow[entry[1]].op = "gate" /\ entry[2] \notin {<<"failed">>, <<"nothing">>}
SinceGate == {trail[i] : i \in SelectLastInSeq(trail, Closes) + 1 .. Len(trail)}
SinceGateBy(ops) == {entry \in SinceGate : flow[entry[1]].op \in ops}
Live == mode = "calling" /\ ord >= Len(replay) /\ ~diverged

\* What the driver has staged since the last gate is what the span's branch holds:
\* truncate_to_base never lets a resume believe in a step whose work is on a branch
\* the ledger cannot carry.
SpanIsWhatWasStaged ==
    Live => tip = {entry[1] : entry \in {e \in SinceGateBy({"step"}) : e[2][1] # "vetoed"}}

\* The gate decides on the judges asked by name or in a group since the last gate, all
\* of them and no other, whatever was memoized, replayed or asked as a condition.
GateHoldsWhatWasAsked ==
    Live => {j \in Judges : span[j] # "unasked"}
            = UNION {ToSet(flow[entry[1]].on) : entry \in SinceGateBy({"judge", "group"})}

\* Once the run's end is latched, a driver that swallows the error spends, stages,
\* lands and records nothing more.
LatchedRunDoesNothing ==
    [][ended # "no" /\ mode' # "off"
       => UNCHANGED <<calls, landed, session, spent, tip>>]_driverVars

\* A block is released by a Resume sent since it began, never by an earlier one that
\* a step or a note drained.
BlockWaitsForItsResume ==
    [][Len(calls') > Len(calls) /\ Last(calls').what = "block" => fresh]_driverVars

=============================================================================
