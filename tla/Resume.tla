------------------------------- MODULE Resume -------------------------------
(* `agg run --resume`: the sequence walk, the numeric ratchet and the call   *)
(* ledger calls.jsonl that a resume replays.  A session is dispatched by the *)
(* walk, graded, kept or not by the gate, and recorded as a step row and a   *)
(* gate row; a resume truncates the ledger to the last kept gate and         *)
(* restores walk and ratchet from it.  The process may die anywhere, in the  *)
(* middle of an append included.                                             *)
EXTENDS Integers, SequencesExt

CONSTANTS
    Configs,            \* the sequences agg.yaml may hold at a run's start
    Quality,            \* the ratcheted judge's values are 0 .. Quality, higher is better
    Tolerance,          \* sequence.ratchet.<judge>.tolerance
    GateRegressions,    \* sequence.gate_regressions
    RequireImprovement, \* sequence.merge_requires_improvement
    Faults,             \* where the process may die besides the harmless places
    MaxSessions,        \* sequence.limits.sessions
    MaxRuns             \* bound: starts of the program

\* torn: in the middle of an append; unrecorded: after a merge and before its
\* gate row; boot: between a resume's first publish and restore_counters
FaultKinds == {"torn", "unrecorded", "boot"}
Entry == [step : STRING, cap : Nat \ {0}, until : BOOLEAN, skip : BOOLEAN]

\* assembly refuses a count below 1, an empty sequence never reaches the walk
ASSUME ConfigsAssumption == \A c \in Configs : c # <<>> /\ c \in Seq(Entry)
ASSUME PolicyAssumption == GateRegressions \in BOOLEAN /\ RequireImprovement \in BOOLEAN
ASSUME FaultsAssumption == Faults \subseteq FaultKinds
ASSUME BoundsAssumption ==
    {Quality, Tolerance, MaxSessions, MaxRuns} \subseteq Nat

VARIABLES
    \* the project's files
    entries,  \* sequence.steps
    lines,    \* calls.jsonl, line by line
    open,     \* its last line has no newline
    saved,    \* state.json: session
    reason,   \* project.json: the last run's end_reason
    base,     \* the judge's value on the base branch
    \* the process
    pc, cursor, gate, session, ord, landed, ending, plan,
    \* history
    runs,
    kept,     \* walk, ratchet and visit as of the last kept merge of this logical run
    used,     \* sessions dispatched in this logical run
    forgotten, \* those of them that a death in boot took from the count
    tries,    \* completed sessions of this visit to the walk's entry
    limited,  \* the entry whose last session was rate-limited, or 0
    lost      \* a merge of this logical run has no complete gate row

fileVars == <<entries, lines, open, saved, reason, base>>
procVars == <<pc, cursor, gate, session, ord, landed, ending, plan>>
histVars == <<runs, kept, used, forgotten, tries, limited, lost>>
vars == <<fileVars, procVars, histVars>>

Phases == {"off", "boot", "baseline", "top", "session", "finalize", "record", "gate-row",
            "ended"}
Reasons == {"never-run", "crashed", "goals-met", "already-satisfied", "stopped",
            "max-sessions", "abort"}

------------------------------------------------------------------------------
(* The ratchet: higher is better.                                            *)

Regressed(ref, now) == ref - now > Tolerance
Improved(ref, now) == now - ref > Tolerance

FateIgnoresRegression(regressed, improved) ==
    IF RequireImprovement /\ ~improved THEN "no-improvement" ELSE "base"
Fate(regressed, improved) ==
    IF GateRegressions /\ regressed THEN "rolled-back"
    ELSE IF RequireImprovement /\ ~improved THEN "no-improvement" ELSE "base"

\* Gate::record: a keep moves the reference, a rollback is counted
Recorded(fate, now) ==
    CASE fate = "base"        -> [gate EXCEPT !.ref = now]
      [] fate = "rolled-back" -> [gate EXCEPT !.rollbacks = @ + 1]
      [] OTHER -> gate

------------------------------------------------------------------------------
(* The walk.  A position is the entry and its dispatches in this visit.      *)

Start == [idx |-> 1, reps |-> 0]

\* `until` is looked at only after a dispatch
Converged(e, holds) == e.until /\ holds /\ cursor.reps > 0
Exhausted(e, holds) == e.until /\ ~Converged(e, holds) /\ cursor.reps >= e.cap
LeavesLate(e, holds) == Converged(e, holds) \/ (~e.until /\ cursor.reps > e.cap)
Leaves(e, holds) == Converged(e, holds) \/ (~e.until /\ cursor.reps >= e.cap)

NextStepUnwrapped(holds) ==
    IF Leaves(entries[cursor.idx], holds)
    THEN [idx |-> cursor.idx + 1, reps |-> 1]
    ELSE [cursor EXCEPT !.reps = @ + 1]
NextStep(holds) ==
    IF Leaves(entries[cursor.idx], holds)
    THEN [idx |-> (cursor.idx % Len(entries)) + 1, reps |-> 1]
    ELSE [cursor EXCEPT !.reps = @ + 1]

\* seek refuses a position that does not name the recorded step
Names(walk, config) ==
    walk.at.idx \in DOMAIN config /\ config[walk.at.idx].step = walk.step

------------------------------------------------------------------------------
(* The ledger.                                                               *)

NoGate == [ref |-> -1, rollbacks |-> 0]
Nowhere == [at |-> [idx |-> 0, reps |-> 0], step |-> "none"]
Here == [at |-> cursor, step |-> entries[cursor.idx].step]

StepRow == [kind |-> "step", ord |-> ord, walk |-> Here, kept |-> FALSE, gate |-> NoGate]
GateRow == [kind |-> "gate", ord |-> ord, walk |-> Here, kept |-> landed = "base",
            gate |-> gate]
Garbage == [kind |-> "garbage", ord |-> -1, walk |-> Nowhere, kept |-> FALSE,
            gate |-> NoGate]

\* append writes behind whatever the file ends with
Appended(line) ==
    IF open THEN Append(Front(lines), Garbage) ELSE Append(lines, line)

\* load: a line that does not parse is dropped at the end of the file and an
\* error anywhere else
Parsed(file) == IF file # <<>> /\ Last(file).kind = "garbage" THEN Front(file) ELSE file
Readable(file) == \A i \in DOMAIN Parsed(file) : Parsed(file)[i].kind # "garbage"

\* truncate_to_base: up to the last gate that kept
ReplayAnyGate ==
    LET rows == Parsed(lines)
    IN  SubSeq(rows, 1,
               Max({0} \cup {i \in DOMAIN rows : rows[i].kind = "gate"}))
Replay ==
    LET rows == Parsed(lines)
    IN  SubSeq(rows, 1,
               Max({0} \cup {i \in DOMAIN rows : rows[i].kind = "gate" /\ rows[i].kept}))

LastWith(rows, kind) == rows[Max({i \in DOMAIN rows : rows[i].kind = kind})]
Has(rows, kind) == \E i \in DOMAIN rows : rows[i].kind = kind

NoPlan == [walk |-> Nowhere, gate |-> NoGate, ord |-> 0, session |-> 0]
Plan(rows, next, sessions) ==
    [walk    |-> IF Has(rows, "step") THEN LastWith(rows, "step").walk ELSE Nowhere,
     gate    |-> IF Has(rows, "gate") THEN LastWith(rows, "gate").gate ELSE NoGate,
     ord     |-> next,
     session |-> sessions]
PlanRenumbered(rows) == Plan(rows, 0, saved)
PlanAtZero(rows) == Plan(rows, Len(rows), 0)
PlanOf(rows) == Plan(rows, Len(rows), saved)

NothingKept == [cursor |-> Start, gate |-> NoGate, tries |-> 0]

\* what a process that ends leaves behind in memory
Forget ==
    /\ pc' = "off" /\ cursor' = Start /\ gate' = NoGate /\ session' = 0 /\ ord' = 0
    /\ landed' = "none" /\ ending' = "none" /\ plan' = NoPlan
    /\ tries' = 0 /\ limited' = 0

Init ==
    /\ entries \in Configs /\ lines = <<>> /\ open = FALSE
    /\ saved = 0 /\ reason = "never-run" /\ base \in 0 .. Quality
    /\ pc = "off" /\ cursor = Start /\ gate = NoGate /\ session = 0 /\ ord = 0
    /\ landed = "none" /\ ending = "none" /\ plan = NoPlan
    /\ runs = 0 /\ kept = NothingKept /\ used = 0 /\ forgotten = 0 /\ tries = 0
    /\ limited = 0 /\ lost = FALSE

------------------------------------------------------------------------------
(* Run start.                                                                *)

\* what both starts do: RunLedger::begin and the first publish
Begin ==
    /\ pc = "off" /\ runs < MaxRuns
    /\ runs' = runs + 1
    /\ entries' \in Configs      \* agg.yaml is read anew
    /\ reason' = "crashed"       \* pessimistic until the run says otherwise
    /\ saved' = 0
    /\ UNCHANGED <<base, cursor, gate, session, ord, landed, ending, tries, limited>>

\* a fresh run sets the old ledger aside
StartFresh ==
    /\ Begin
    /\ lines' = <<>> /\ open' = FALSE
    /\ pc' = "baseline" /\ plan' = NoPlan
    /\ kept' = NothingKept /\ used' = 0 /\ forgotten' = 0 /\ lost' = FALSE

Resumable == reason \notin {"never-run", "goals-met"} /\ Readable(lines)
StartResume ==
    /\ Resumable
    /\ Begin
    /\ plan' = PlanOf(Replay)
    /\ IF Len(Replay) = Len(Parsed(lines))
       THEN UNCHANGED <<lines, open>>
       ELSE lines' = Replay /\ open' = FALSE
    /\ pc' = "boot"
    /\ UNCHANGED <<kept, used, forgotten, lost>>

RestoreCounters ==
    /\ pc = "boot"
    /\ pc' = "baseline"
    /\ session' = plan.session /\ saved' = plan.session
    /\ ord' = plan.ord
    /\ UNCHANGED <<entries, lines, open, reason, base, cursor, gate, landed, ending, plan,
                   histVars>>

Diverged == plan.walk # Nowhere /\ ~Names(plan.walk, entries)

\* a condition holds at launch, the ratcheted judge errors, or the sequence
\* changed under the ledger
BaselineStops ==
    /\ pc = "baseline"
    /\ \/ reason' \in {"already-satisfied", "abort", "crashed"}
       \/ Diverged /\ UNCHANGED reason
    /\ Forget
    /\ UNCHANGED <<entries, lines, open, saved, base, runs, kept, used, forgotten, lost>>

\* seed, then restore_position
Baseline ==
    /\ pc = "baseline"
    /\ ~Diverged
    /\ gate' = IF plan.gate = NoGate THEN [ref |-> base, rollbacks |-> 0] ELSE plan.gate
    /\ cursor' = IF plan.walk = Nowhere THEN Start ELSE plan.walk.at
    /\ tries' = IF plan.walk = Nowhere THEN 0 ELSE kept.tries
    /\ pc' = "top"
    /\ UNCHANGED <<fileVars, session, ord, landed, ending, plan, runs, kept, used,
                   forgotten, limited, lost>>

------------------------------------------------------------------------------
(* One session.                                                              *)

Ends(why) ==
    /\ reason' = why
    /\ Forget
    /\ UNCHANGED <<entries, lines, open, saved, base, runs, kept, used, forgotten, lost>>

\* a signal or a stop at the boundary, the session ceiling
BoundaryStops ==
    /\ pc = "top"
    /\ \/ Ends("stopped")
       \/ session >= MaxSessions /\ Ends("max-sessions")

Pick(holds) ==
    /\ pc = "top"
    /\ session < MaxSessions
    /\ ~Exhausted(entries[cursor.idx], holds)
    /\ cursor' = NextStep(holds)
    /\ session' = session + 1 /\ saved' = session + 1
    /\ pc' = "session"
    /\ used' = used + 1
    /\ tries' = IF Leaves(entries[cursor.idx], holds) THEN 0 ELSE tries
    /\ limited' = 0
    /\ UNCHANGED <<entries, lines, open, reason, base, gate, ord, landed, ending, plan, runs,
                   kept, forgotten, lost>>

SequenceFails ==
    /\ pc = "top" /\ session < MaxSessions
    /\ Exhausted(entries[cursor.idx], FALSE)
    /\ Ends("abort")

\* an incomplete session: no row, and the walk stays where it is
RateLimited ==
    /\ pc = "session"
    /\ pc' = "top"
    /\ limited' = cursor.idx
    /\ UNCHANGED <<fileVars, cursor, gate, session, ord, landed, ending, plan, runs, kept,
                   used, forgotten, tries, lost>>

\* an interrupted session, a stop or a ceiling during a wait, the poison guard
SessionStops ==
    /\ pc = "session"
    /\ Ends("stopped") \/ Ends("abort")

Stage ==
    /\ pc = "session" /\ entries[cursor.idx].skip
    /\ landed' = "span"
    /\ pc' = "finalize"
    /\ UNCHANGED <<fileVars, cursor, gate, session, ord, ending, plan, histVars>>

\* a veto, a conflict or an idle session: nothing is merged
NothingStaged ==
    /\ pc = "session" /\ ~entries[cursor.idx].skip
    /\ landed' = "nothing"
    /\ pc' = "finalize"
    /\ UNCHANGED <<fileVars, cursor, gate, session, ord, ending, plan, histVars>>

\* the staged merge has value `now` (or the judge errored), and the other
\* judges say whether anything else regressed or improved
Gate(now, errored, worse, better) ==
    /\ pc = "session" /\ ~entries[cursor.idx].skip
    /\ LET fate == Fate(worse \/ errored \/ Regressed(gate.ref, now),
                        better \/ (~errored /\ Improved(gate.ref, now)))
           next == IF errored /\ fate = "base" THEN gate ELSE Recorded(fate, now)
       IN  /\ landed' = fate
           /\ gate' = next
           /\ base' = IF fate = "base" THEN now ELSE base
           /\ kept' = IF fate = "base"
                      THEN [cursor |-> cursor, gate |-> next, tries |-> tries + 1]
                      ELSE kept
    /\ pc' = "finalize"
    /\ UNCHANGED <<entries, lines, open, saved, reason, cursor, session, ord, ending, plan,
                   runs, used, forgotten, tries, limited, lost>>

\* CheckRunStop: the end reason is on disk before the session's rows
Finalize(why) ==
    /\ pc = "finalize"
    /\ ending' = why
    /\ reason' = IF why = "none" THEN reason ELSE why
    /\ pc' = "record"
    /\ UNCHANGED <<entries, lines, open, saved, base, cursor, gate, session, ord, landed,
                   plan, histVars>>

RecordStep ==
    /\ pc = "record"
    /\ lines' = Appended(StepRow) /\ open' = FALSE
    /\ ord' = ord + 1
    /\ tries' = tries + 1
    /\ pc' = IF landed = "span" THEN "ended" ELSE "gate-row"
    /\ UNCHANGED <<entries, saved, reason, base, cursor, gate, session, landed, ending, plan,
                   runs, kept, used, forgotten, limited, lost>>

RecordGate ==
    /\ pc = "gate-row"
    /\ lines' = Appended(GateRow) /\ open' = FALSE
    /\ ord' = ord + 1
    /\ pc' = "ended"
    /\ UNCHANGED <<entries, saved, reason, base, cursor, gate, session, landed, ending, plan,
                   histVars>>

EndSession ==
    /\ pc = "ended"
    /\ IF ending = "none"
       THEN /\ pc' = "top" /\ landed' = "none"
            /\ UNCHANGED <<fileVars, cursor, gate, session, ord, ending, plan, histVars>>
       ELSE Ends(ending)

------------------------------------------------------------------------------
(* The process dies.                                                         *)

Unrecorded == landed = "base" /\ pc \in {"finalize", "record", "gate-row"}

Crash ==
    /\ pc # "off"
    /\ pc = "boot" => "boot" \in Faults
    /\ Unrecorded => "unrecorded" \in Faults
    /\ lost' = (lost \/ Unrecorded)
    /\ forgotten' = IF pc = "boot" THEN forgotten + plan.session ELSE forgotten
    /\ Forget
    /\ UNCHANGED <<fileVars, runs, kept, used>>

\* with some of the row written, or all of it but the newline
CrashAppending ==
    /\ "torn" \in Faults /\ pc \in {"record", "gate-row"}
    /\ Unrecorded => "unrecorded" \in Faults
    /\ lines' \in {Appended(Garbage),
                   Appended(IF pc = "record" THEN StepRow ELSE GateRow)}
    /\ open' = TRUE
    /\ lost' = (lost \/ Unrecorded)
    /\ Forget
    /\ UNCHANGED <<entries, saved, reason, base, runs, kept, used, forgotten>>

Next ==
    \/ StartFresh \/ StartResume \/ RestoreCounters \/ Baseline \/ BaselineStops
    \/ BoundaryStops \/ SequenceFails \/ RateLimited \/ SessionStops
    \/ \E holds \in BOOLEAN : Pick(holds)
    \/ Stage \/ NothingStaged
    \/ \E now \in 0 .. Quality, errored, worse, better \in BOOLEAN :
           Gate(now, errored, worse, better)
    \/ \E why \in {"none", "goals-met", "stopped", "abort"} : Finalize(why)
    \/ RecordStep \/ RecordGate \/ EndSession
    \/ Crash \/ CrashAppending

Spec == Init /\ [][Next]_vars

------------------------------------------------------------------------------
(* Properties.                                                               *)

Gates == [ref : -1 .. Quality, rollbacks : Nat]
Walks == [idx : Nat, reps : Nat]

\* Every variable has the type the code gives it, an entry the walk stands on
\* exists, and the reference is a value the judge has given on base.
TypeOK ==
    /\ entries \in Configs /\ base \in 0 .. Quality
    /\ pc \in Phases /\ reason \in Reasons /\ open \in BOOLEAN
    /\ cursor \in Walks /\ cursor.idx \in 1 .. Len(entries)
    /\ gate \in Gates /\ kept.gate \in Gates /\ lost \in BOOLEAN
    /\ {saved, session} \subseteq 0 .. MaxSessions
    /\ {ord, tries, used, forgotten} \subseteq Nat /\ runs \in 0 .. MaxRuns
    /\ ending \in {"none", "goals-met", "stopped", "abort"}
    /\ landed \in {"none", "span", "nothing", "base", "rolled-back", "no-improvement"}
    /\ \A i \in DOMAIN lines : lines[i].gate \in Gates

\* In a ledger a resume accepts, the rows are numbered 0, 1, 2, ... over any
\* number of crashes, torn lines and resumes: a line that was lost is either
\* gone with everything after it or makes the ledger unreadable.
OrdinalsAreDense ==
    Readable(lines) => \A i \in DOMAIN Parsed(lines) : Parsed(lines)[i].ord = i - 1

\* A crash leaves at most one line that does not parse, the last one (load:
\* "a bad line with good lines after it means something other than a crash").
LedgerStaysReadable == Readable(lines)

\* core/ratchet.rs: a ratcheted value may not get worse than it was at the last
\* kept gate by more than its tolerance - whatever crashed in between, as long as
\* every merge got its gate row.
RatchetHolds == [][lost \/ base - base' <= Tolerance]_vars

\* The same, whatever crashed.
RatchetAlwaysHolds == [][base - base' <= Tolerance]_vars

\* A resume continues the run as it stood when base last moved, unless that merge
\* got no gate row: the walk, the references and the counters are those of the last
\* merge, no step before it runs again and none after it is taken for done.
ResumesAtTheKeptGate ==
    [][ pc = "baseline" /\ pc' = "top" /\ kept # NothingKept /\ ~lost
            => cursor' = kept.cursor /\ gate' = kept.gate ]_vars

\* An entry gets at most its `times`/`max` completed sessions in one visit,
\* whatever is interrupted and resumed in it, as long as every merge got its row.
VisitWithinCap ==
    [][ pc = "top" /\ pc' = "session" /\ ~lost
            => tries' < entries[cursor'.idx].cap ]_vars

\* limits.sessions bounds the sessions of a run over all its resumes and whatever
\* died in between, but for those that resumes forgot which died between writing
\* zeros into state.json and counting on from the numbers they had read.
CeilingHolds == used <= MaxSessions + forgotten

\* CONFIG.md: a resume never launders a ceiling.
CeilingAlwaysHolds == used <= MaxSessions

\* The session after a rate-limited one is another attempt at the same entry
\* (GUIDE.md: the wait "retries fresh").
LimitedStepIsRetried ==
    [][ pc = "top" /\ pc' = "session" /\ limited # 0 => cursor'.idx = limited ]_vars

\* A run that ended because done_if holds is not resumed (CONFIG.md).
MetRunsAreRefused ==
    [][ pc = "off" /\ pc' = "boot" => reason \notin {"goals-met", "already-satisfied"} ]_vars
=============================================================================
