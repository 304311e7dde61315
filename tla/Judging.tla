------------------------------ MODULE Judging ------------------------------
(* The judges, the goals they grade, the gate that keeps or discards what    *)
(* was graded, and the conditions that end the run.  A start judges the tree *)
(* once and seeds the ratchets; a judged session stages its work, is graded  *)
(* on it and is kept or not; a skip session leaves its work in the span.     *)
(* The verdict ledger survives the process, the goals and the ratchet do not.*)
EXTENDS Conditions, Functions

CONSTANTS
    Judges,            \* the run-set
    Outputs,           \* what each judge's process may come to: [Judges -> SUBSET Output]
    Invariants,        \* sequence.invariants
    Groups,            \* sequence.groups: members by group
    Ratchets,          \* sequence.ratchet: direction, tolerance and seed by judge
    DoneIf, AbortIf,   \* sequence.done_if, sequence.abort_if
    Untils,            \* the conditions of the steps and of notify_if, accepted or not
    GateRegressions,   \* sequence.gate_regressions
    RequireImprovement,\* sequence.merge_requires_improvement
    Branching,         \* whether sessions get a branch: a set of the cases
    Window,            \* sequence.oscillation_window
    MaxSessions,       \* sequence.limits.sessions
    MaxStarts          \* bound: starts of the program

\* a judge's process prints a verdict, or fails before it or instead of it
Failures == {"no-script", "no-scratch", "not-confined", "not-started", "timeout",
             "panic", "no-verdict"}
Output == [fault : Failures \cup {"none"}, met : BOOLEAN, value : SUBSET Int, max : SUBSET Int,
           error : BOOLEAN, mixed : BOOLEAN, vacuous : BOOLEAN]
ASSUME OutputsAssumption == \A j \in Judges : Outputs[j] \subseteq Output

GroupDirect == Named(Judges, DoneIf) \cup Invariants
GroupGated == Subsets(DoneIf) \cap DOMAIN Groups
Dod == GroupDirect \cup UNION {Groups[g] : g \in GroupGated}
Individual(j) == j \in GroupDirect
ASSUME GroupsAssumption ==
    /\ \A g \in DOMAIN Groups : Groups[g] # {} /\ Groups[g] \subseteq Judges
    /\ Dod \cup DOMAIN Ratchets \subseteq Judges
ASSUME PolicyAssumption == {GateRegressions, RequireImprovement} \cup Branching \subseteq BOOLEAN
ASSUME RatchetAssumption ==
    \A j \in DOMAIN Ratchets :
        /\ Ratchets[j].direction \in {"up", "down"}
        /\ Ratchets[j].tolerance \in Int /\ Ratchets[j].tolerance >= 0
\* the run-set is a list; a verdict's value and a seed are options
ASSUME JudgesAssumption == IsFiniteSet(Judges)
AtMostOne(option) == \A m, n \in option : m = n
ASSUME OptionsAssumption ==
    /\ \A j \in Judges : \A o \in Outputs[j] : AtMostOne(o.value)
    /\ \A j \in DOMAIN Ratchets : Ratchets[j].seed \subseteq Int /\ AtMostOne(Ratchets[j].seed)
\* a shorter window is refused: an oscillation takes two earlier sessions
ASSUME LimitsAssumption == {Window, MaxSessions, MaxStarts} \subseteq Nat /\ Window >= 2

VARIABLES
    landed,   \* verdicts.jsonl: each judge's last landed row, "none" before one
    phase, branch, sessions, starts,
    goals,    \* Engine.judges: state, last verdict, ever_met
    before,   \* scratch.pre_cycle_goals
    gate,     \* Engine.gate
    fresh,    \* the step's verdicts, or NoVerdicts
    staged,   \* what the merge of the session's branch came to
    plan,     \* keep_or_rollback between its steps: decision, ratchet, signature
    span,     \* a skip session's work waits for a gate
    violated, \* protect.span_violation
    res,      \* stop and halt of the step's CycleResult
    ended,
    \* history
    fits,     \* the judge's state is about base, or about the merge staged on it
    fitted,   \* fits before the step's judging
    level     \* the ratcheted judge's value in the last kept grading, as a set

engineVars == <<goals, before, gate, fresh, res>>
spanVars == <<staged, plan, span, violated>>
historyVars == <<fits, fitted, level>>
judgingVars == <<landed, phase, branch, sessions, starts, engineVars, spanVars, ended, historyVars>>

------------------------------------------------------------------------------
(* Verdicts and goals.                                                       *)

NoVerdicts == <<>>
Unjudged == [given |-> FALSE, error |-> FALSE, met |-> FALSE, value |-> {}, max |-> {},
             mixed |-> FALSE, vacuous |-> FALSE]
Failed == [Unjudged EXCEPT !.given = TRUE, !.error = TRUE]

\* judge::run: a printed verdict counts whatever the exit status, all else fails
Verdict(out) ==
    IF out.fault # "none" THEN Failed
    ELSE [given |-> TRUE, error |-> out.error, met |-> out.met, value |-> out.value,
          max |-> out.max, mixed |-> out.mixed, vacuous |-> out.vacuous]
Readings == {v \in [Judges -> UNION {{Verdict(o) : o \in Outputs[j]} : j \in Judges}] :
                \A j \in Judges : v[j] \in {Verdict(o) : o \in Outputs[j]}}

Pending == [state |-> "pending", last |-> Unjudged, ever |-> FALSE]

Positive(v) == \E n \in v.value : n # NaN /\ n > 0
\* Judge::apply: a verdict that errored is kept and changes nothing else
Applied(goal, v) ==
    IF v.error THEN [goal EXCEPT !.last = v]
    ELSE [state |-> CASE v.met -> "met"
                      [] ~v.met /\ goal.ever -> "regressed"
                      [] ~v.met /\ ~goal.ever /\ Positive(v) -> "in-progress"
                      [] OTHER -> "pending",
          last |-> v, ever |-> goal.ever \/ v.met]

ErrorsOf(verdicts) == {j \in DOMAIN verdicts : verdicts[j].error}

------------------------------------------------------------------------------
(* The ratchet.                                                              *)

Finite(v) == v.value \ {NaN}
Number(v) == IF v.error THEN {} ELSE Finite(v)
Worse(spec, ref, now) == IF spec.direction = "up" THEN ref - now ELSE now - ref

Regresses(j, ref, now) == Worse(Ratchets[j], ref, now) > Ratchets[j].tolerance
Improves(j, ref, now) == -Worse(Ratchets[j], ref, now) > Ratchets[j].tolerance

NewGate ==
    [refs |-> [j \in {r \in DOMAIN Ratchets : Ratchets[r].seed # {}} |->
                    CHOOSE n \in Ratchets[j].seed : TRUE],
     rollbacks |-> 0, consecutive_rollbacks |-> 0,
     no_improvements |-> 0, consecutive_no_improvements |-> 0,
     no_changes |-> 0, consecutive_no_changes |-> 0,
     last_ratchet |-> {}, signatures |-> <<>>]

WithRefs(refs, verdicts, which) ==
    [j \in DOMAIN refs \cup which |->
        IF j \in which THEN CHOOSE n \in Number(verdicts[j]) : TRUE ELSE refs[j]]

\* a ratcheted judge without a seed must measure on the baseline pass
CannotSeed(verdicts) ==
    \E j \in DOMAIN Ratchets :
        \/ ~verdicts[j].error /\ Finite(verdicts[j]) = {}
        \/ verdicts[j].error /\ Ratchets[j].seed = {}
Seeded(verdicts) ==
    [gate EXCEPT !.refs = WithRefs(@, verdicts, {j \in DOMAIN Ratchets : Ratchets[j].seed = {}})]

\* Gate::check: no usable number is a regression too
CheckMeasuredOnly(verdicts) ==
    {j \in DOMAIN Ratchets \cap DOMAIN gate.refs :
        \E n \in Number(verdicts[j]) : Regresses(j, gate.refs[j], n)}
Check(verdicts) ==
    {j \in DOMAIN Ratchets :
        \/ Number(verdicts[j]) = {}
        \/ j \in DOMAIN gate.refs /\ \E n \in Number(verdicts[j]) : Regresses(j, gate.refs[j], n)}
RatchetImproved(verdicts) ==
    \E j \in DOMAIN Ratchets \cap DOMAIN gate.refs :
        /\ ~verdicts[j].mixed
        /\ \E n \in Number(verdicts[j]) : Improves(j, gate.refs[j], n)

Signature(verdicts, ratchet) ==
    {j \in Dod : ~verdicts[j].met \/ verdicts[j].error} \cup ratchet
\* an earlier signature of the window recurs with another one in between
Oscillating(g) ==
    LET s == g.signatures
        n == Len(s)
        from == IF n - Window > 1 THEN n - Window ELSE 1
    IN /\ n > 0 /\ s[n] # {}
       /\ \E i \in from .. n - 1 : s[i] = s[n] /\ \E k \in i + 1 .. n - 1 : s[k] # s[n]
\* oscillating() reads the last Window + 1 signatures: what it no longer reads is dropped
Remember(s, signature) ==
    LET t == Append(s, signature) IN IF Len(t) > Window + 1 THEN Tail(t) ELSE t

------------------------------------------------------------------------------
(* The gate's rules.                                                         *)

\* groups::assess: what errored or had nothing to measure moves nothing
Graded(j) == ~fresh[j].error /\ ~fresh[j].vacuous
Was(j) == landed[j] = "met"
GoalLost(j) == Graded(j) /\ ~fresh[j].met /\ Was(j)
GoalMet(j) == Graded(j) /\ fresh[j].met
GoalGained(j) == Graded(j) /\ fresh[j].met /\ ~Was(j)
GroupNet(g, P(_)) == Cardinality({j \in Groups[g] : ~Individual(j) /\ P(j)})
LostInGroup(g) == GroupNet(g, GoalLost) > GroupNet(g, GoalGained)
GainedInGroup(g) == GroupNet(g, GoalGained) > GroupNet(g, GoalLost)
OnlyGroupsRegressed == \E g \in GroupGated : LostInGroup(g)
GroupRegressed ==
    \/ \E j \in Judges : Individual(j) /\ GoalLost(j)
    \/ \E g \in GroupGated : LostInGroup(g)
Improvement ==
    \/ \E j \in Judges : Individual(j) /\ GoalGained(j)
    \/ \E g \in GroupGated : GainedInGroup(g)
    \/ RatchetImproved(fresh)

StagedFate(ratchet) ==
    IF violated \/ (GateRegressions /\ (GroupRegressed \/ ratchet # {})) THEN "rolled-back"
    ELSE IF RequireImprovement /\ ~Improvement THEN "no-improvement" ELSE "merged"
Fate(ratchet) ==
    CASE staged = "staged" -> StagedFate(ratchet)
      [] staged = "no-changes" -> "no-changes"
      [] OTHER -> "not-staged"
RestoresDiscarded == plan.fate \in {"rolled-back", "no-improvement"}
RestoresGoals == plan.fate \in {"rolled-back", "no-improvement"}
                 \/ staged \in {"vetoed", "conflict", "checkout-failed"}

Lands(j) == ~fresh[j].error /\ ~fresh[j].vacuous
Landed(which) ==
    [j \in Judges |-> IF j \in which /\ Lands(j)
                      THEN (IF fresh[j].met THEN "met" ELSE "unmet") ELSE landed[j]]

\* Gate::record
Counted ==
    CASE plan.fate = "merged" ->
            [gate EXCEPT !.consecutive_rollbacks = 0, !.consecutive_no_improvements = 0,
                         !.consecutive_no_changes = 0,
                         !.refs = WithRefs(@, fresh, {j \in DOMAIN Ratchets : Number(fresh[j]) # {}})]
      [] plan.fate = "rolled-back" ->
            [gate EXCEPT !.rollbacks = @ + 1, !.consecutive_rollbacks = @ + 1]
      [] plan.fate = "no-improvement" ->
            [gate EXCEPT !.no_improvements = @ + 1, !.consecutive_no_improvements = @ + 1]
      [] plan.fate = "no-changes" ->
            [gate EXCEPT !.no_changes = @ + 1, !.consecutive_no_changes = @ + 1]
      [] OTHER -> gate
RecordedGate == [Counted EXCEPT !.last_ratchet = plan.ratchet,
                            !.signatures = Remember(@, plan.signature)]

------------------------------------------------------------------------------
(* The conditions.                                                           *)

Context(g, gt, n, errors) ==
    [goals |-> g, dod |-> Dod, invariants |-> Invariants, groups |-> Groups, errors |-> errors,
     gate |-> [c \in Counters |-> gt[c]] @@ [refs |-> gt.refs, ratcheted |-> DOMAIN Ratchets,
               last_ratchet |-> gt.last_ratchet, oscillating |-> Oscillating(gt)],
     run |-> [iterations |-> Unit * n, max_iterations |-> Unit * MaxSessions,
              tokens_spent |-> 0, budget_total |-> Infinity, cost_spent |-> 0,
              cost_limit |-> Infinity, wall_time |-> 0, human_wait_time |-> 0,
              rate_limit_wait_time |-> 0]]
NoGoals == [j \in Judges |-> Pending]
Nobody == [j \in Judges |-> FALSE]
StartContext == Context(NoGoals, NewGate, 0, {})
Accepts(e) == Accepted(StartContext, e)

\* conditions_with_deltas
Conditions(g, gt, n, errors) ==
    LET c == Context(g, gt, n, errors)
    IN [stop |-> Holds(c, DoneIf), halt |-> Holds(c, AbortIf)]
NoResult == [stop |-> FALSE, halt |-> FALSE]
NoPlan == [fate |-> "none", ratchet |-> {}, signature |-> {}]

\* report::decide without an operator: done beats aborted
Decided(r) == IF r.stop THEN "done" ELSE IF r.halt THEN "aborted" ELSE "none"

------------------------------------------------------------------------------
(* The run.                                                                  *)

JudgingInit ==
    /\ landed = [j \in Judges |-> "none"]
    /\ phase = "off" /\ branch \in Branching /\ sessions = 0 /\ starts = 0
    /\ goals = NoGoals /\ before = NoGoals
    /\ gate = NewGate /\ fresh = NoVerdicts
    /\ staged = "none" /\ plan = NoPlan /\ span = FALSE /\ violated = FALSE
    /\ res = NoResult /\ ended = "none"
    /\ fits = Nobody /\ fitted = Nobody
    /\ level = [j \in DOMAIN Ratchets |-> {}]

\* Engine::with_gate; whoever worked on the project since may have changed it
Start ==
    /\ phase = "off" /\ starts < MaxStarts
    /\ Accepts(DoneIf) /\ Accepts(AbortIf)
    /\ starts' = starts + 1 /\ phase' = "baseline" /\ sessions' = 0 /\ ended' = "none"
    /\ goals' = NoGoals /\ gate' = NewGate /\ res' = NoResult
    /\ span' = FALSE /\ violated' = FALSE
    /\ fits' = Nobody
    /\ level' = [j \in DOMAIN Ratchets |-> Ratchets[j].seed]
    /\ UNCHANGED <<landed, branch, before, fresh, staged, plan, fitted>>

Stops(reason) ==
    /\ phase' = "off" /\ ended' = reason
    /\ fresh' = NoVerdicts /\ staged' = "none" /\ plan' = NoPlan

\* Baseline: the ratchets are seeded before the conditions are evaluated
BaselineRefused ==
    /\ phase = "baseline"
    /\ \E verdicts \in Readings :
        /\ CannotSeed(verdicts)
        /\ goals' = [j \in Judges |-> Applied(goals[j], verdicts[j])]
        /\ Stops("refused")
    /\ UNCHANGED <<landed, branch, sessions, starts, before, gate, res, span, violated, historyVars>>

Baseline ==
    /\ phase = "baseline"
    /\ \E verdicts \in Readings :
        /\ ~CannotSeed(verdicts)
        /\ fresh' = verdicts
        /\ goals' = [j \in Judges |-> Applied(goals[j], verdicts[j])]
        /\ gate' = Seeded(verdicts)
        /\ res' = Conditions(goals', gate', 0, ErrorsOf(verdicts))
        /\ fits' = [j \in Judges |-> ~verdicts[j].error]
        /\ level' = [j \in DOMAIN Ratchets |->
                        IF Ratchets[j].seed = {} THEN Number(verdicts[j]) ELSE level[j]]
        /\ phase' = "baseline-rows"
    /\ UNCHANGED <<landed, branch, sessions, starts, before, spanVars, ended, fitted>>

BaselineRows ==
    /\ phase = "baseline-rows"
    /\ landed' = Landed(Judges)
    /\ IF Decided(res) # "none" THEN Stops(Decided(res))
       ELSE phase' = "top" /\ fresh' = NoVerdicts /\ UNCHANGED <<ended, staged, plan>>
    /\ UNCHANGED <<branch, sessions, starts, goals, before, gate, res, span, violated, fits, fitted, level>>

OutOfSessions ==
    /\ phase = "top" /\ sessions >= MaxSessions
    /\ Stops("max-sessions")
    /\ UNCHANGED <<landed, branch, sessions, starts, goals, before, gate, res, span, violated, historyVars>>

\* without a session branch the work is in the tree the moment it is written
Writes == fits' = [j \in Judges |-> branch /\ fits[j]]

\* StageSpan: a vetoed session's work is dropped, the others' waits in the span
SkipSession ==
    /\ phase = "top" /\ sessions < MaxSessions
    /\ sessions' = sessions + 1
    /\ \E vetoed, violates \in BOOLEAN :
        /\ span' = (span \/ (branch /\ ~vetoed))
        /\ violated' = (violated \/ violates)
    /\ Writes
    /\ res' = Conditions(goals, gate, sessions', {})
    /\ phase' = "end"
    /\ UNCHANGED <<landed, branch, starts, goals, before, gate, fresh, staged, plan, ended, fitted, level>>

\* a branch cut from the span is ahead of base even when its session was idle
Stagings ==
    IF ~branch THEN {"no-branch"}
    ELSE {"staged", "vetoed", "conflict", "checkout-failed"} \cup (IF span THEN {} ELSE {"no-changes"})

JudgedSession ==
    /\ phase = "top" /\ sessions < MaxSessions
    /\ sessions' = sessions + 1
    /\ \E violates \in BOOLEAN : violated' = (violated \/ violates)
    /\ before' = goals /\ fitted' = fits
    /\ Writes
    /\ staged' \in Stagings
    /\ phase' = "verify"
    /\ UNCHANGED <<landed, branch, starts, goals, gate, fresh, plan, span, res, ended, level>>

\* RunJudges: over the staged merge, over base if nothing is staged, over the
\* session's own branch if base could not be checked out
RunJudges ==
    /\ phase = "verify"
    /\ \E verdicts \in Readings :
        /\ fresh' = verdicts
        /\ goals' = [j \in Judges |-> Applied(goals[j], verdicts[j])]
        /\ fits' = [j \in Judges |-> IF verdicts[j].error THEN staged # "staged" /\ fits[j]
                                     ELSE staged # "checkout-failed"]
    /\ phase' = "gate"
    /\ UNCHANGED <<landed, branch, sessions, starts, before, gate, spanVars, res, ended, fitted, level>>

\* keep_or_rollback up to finalize_session: base changes before any row says so
Decide ==
    /\ phase = "gate"
    /\ LET ratchet == IF staged = "staged" THEN Check(fresh) ELSE {}
       IN plan' = [fate |-> Fate(ratchet), ratchet |-> ratchet, signature |-> Signature(fresh, ratchet)]
    /\ violated' = FALSE /\ span' = FALSE
    /\ phase' = "rows"
    /\ UNCHANGED <<landed, branch, sessions, starts, engineVars, staged, ended, fits, fitted, level>>

RowsLand == plan.fate = "merged"
AppendRows ==
    /\ phase = "rows"
    /\ landed' = Landed(IF RowsLand THEN Judges ELSE {})
    /\ IF RestoresGoals THEN goals' = before /\ fits' = fitted
       ELSE UNCHANGED <<goals, fits>>
    /\ phase' = "record"
    /\ UNCHANGED <<branch, sessions, starts, before, gate, fresh, spanVars, res, ended, fitted, level>>

RecordLate ==
    /\ phase = "record"
    /\ gate' = RecordedGate
    /\ res' = Conditions(goals, gate, sessions, IF plan.fate = "merged" THEN ErrorsOf(fresh) ELSE {})
    /\ level' = [j \in DOMAIN Ratchets |->
                    IF plan.fate = "merged" /\ Number(fresh[j]) # {} THEN Number(fresh[j]) ELSE level[j]]
    /\ fresh' = NoVerdicts /\ staged' = "none" /\ plan' = NoPlan
    /\ before' = NoGoals /\ fitted' = Nobody
    /\ phase' = "end"
    /\ UNCHANGED <<landed, branch, sessions, starts, goals, span, violated, ended, fits>>
\* Gate::record, then the conditions: a kept step's errors count, others' do not
RecordStep ==
    /\ phase = "record"
    /\ gate' = RecordedGate
    /\ res' = Conditions(goals, gate', sessions, IF plan.fate = "merged" THEN ErrorsOf(fresh) ELSE {})
    /\ level' = [j \in DOMAIN Ratchets |->
                    IF plan.fate = "merged" /\ Number(fresh[j]) # {} THEN Number(fresh[j]) ELSE level[j]]
    /\ fresh' = NoVerdicts /\ staged' = "none" /\ plan' = NoPlan
    /\ before' = NoGoals /\ fitted' = Nobody
    /\ phase' = "end"
    /\ UNCHANGED <<landed, branch, sessions, starts, goals, span, violated, ended, fits>>

CheckRunStop ==
    /\ phase = "end"
    /\ IF Decided(res) # "none" THEN Stops(Decided(res))
       ELSE phase' = "top" /\ UNCHANGED <<ended, fresh, staged, plan>>
    /\ UNCHANGED <<landed, branch, sessions, starts, goals, before, gate, res, span, violated, historyVars>>

\* the process dies: in the middle of the rows, some judges' are written
Crash ==
    /\ phase \notin {"off", "top", "end"}
    /\ \E written \in IF phase = "baseline-rows" \/ (phase = "rows" /\ RowsLand) THEN SUBSET Judges ELSE {{}} :
        landed' = Landed(written)
    /\ Stops("crashed")
    /\ goals' = NoGoals /\ before' = NoGoals /\ gate' = NewGate /\ res' = NoResult
    /\ span' = FALSE /\ violated' = FALSE /\ sessions' = 0
    /\ fits' = Nobody /\ fitted' = Nobody
    /\ UNCHANGED <<branch, starts, level>>

JudgingNext ==
    \/ Start \/ Baseline \/ BaselineRefused \/ BaselineRows \/ OutOfSessions
    \/ SkipSession \/ JudgedSession \/ RunJudges \/ Decide \/ AppendRows
    \/ RecordStep \/ CheckRunStop \/ Crash

JudgingSpec == JudgingInit /\ [][JudgingNext]_judgingVars

------------------------------------------------------------------------------
(* Properties.                                                               *)

Lifecycles == {"pending", "in-progress", "met", "regressed"}

\* TYPES.  The state the engine and the ledger keep.
JudgingTypeOK ==
    /\ landed \in [Judges -> {"none", "met", "unmet"}]
    /\ \A j \in Judges : goals[j].state \in Lifecycles /\ goals[j].ever \in BOOLEAN
    /\ sessions \in 0 .. MaxSessions /\ starts \in 0 .. MaxStarts
    /\ staged \in {"none", "staged", "no-changes", "vetoed", "conflict", "checkout-failed", "no-branch"}
    /\ {span, violated, branch} \subseteq BOOLEAN
    /\ {fits, fitted} \subseteq [Judges -> BOOLEAN]

\* A run that ends as done was graded on what is on base: every goal of the
\* definition of done whose last verdict is usable was judged on that very tree,
\* not on work that was since rolled back, vetoed or replaced.  (restore_goal_state
\* on every discarding arm, none on the others, reevaluate after the gate.)
SuccessIsGraded ==
    ended = "done" =>
        \A j \in Dod : goals[j].state = "met" /\ ~goals[j].last.error => fits[j]

\* model.rs: an errored verdict never satisfies done_if, so a goal counted as met
\* at success was graded met on the tree the run ends with.
SuccessIsFullyGraded ==
    ended = "done" => \A j \in Dod : goals[j].state = "met" => fits[j]

\* No session starts while a condition that ends the run holds: the conditions
\* are evaluated after the gate has moved base, goals and counters.
NoSessionTooMany ==
    phase = "top" =>
        LET c == Context(goals, gate, sessions, {}) IN ~Holds(c, DoneIf) /\ ~Holds(c, AbortIf)

AcceptedOnes == {e \in {DoneIf, AbortIf} \cup Untils : Accepts(e)}

\* abort_if names consecutive_no_changes >= 2 as one of its alternatives: no session
\* starts after two idle ones, whatever else the condition says.  (parse.rs: a number
\* that is none "should surface as an error", not decide the loop.)
AbortSeesEveryCounter == phase = "top" => gate.consecutive_no_changes < 2

\* A condition a start accepts can be evaluated at every boundary of the run, as long
\* as no judge emits a number that is none: what is wrong with one is seen before
\* any judge has run.
ConditionsStayWellTyped ==
    phase \in {"top", "end"} /\ (\A j \in Judges : NaN \notin goals[j].last.value) =>
        \A errors \in {{}, Judges} :
            LET c == Context(goals, gate, sessions, errors) IN \A e \in AcceptedOnes : Accepted(c, e)

RefusedThresholds ==
    {e \in Untils : e[Len(e)].op = "compare" /\ Unreachable(StartContext, e, Len(e))}

\* A threshold on a group's count that a start refuses as unreachable holds in no
\* state of any run.
RefusedThresholdsCannotHold ==
    phase \in {"top", "end"} =>
        LET c == Context(goals, gate, sessions, {})
            Side(e, last) == Eval(c, SubSeq(e, 1, last)).v
        IN \A e \in RefusedThresholds :
               ~Related(e[Len(e)].rel, Side(e, Left(e, Len(e))), Eval(c, SubSeq(e, Left(e, Len(e)) + 1, Right(Len(e)))).v)

\* With gate_regressions on, a goal the gate watches by itself that once landed as
\* met does not land as unmet in a session: only a new run's baseline says so.
LandedNeverRegresses ==
    [][ phase = "rows" /\ GateRegressions =>
        \A j \in GroupDirect : landed[j] = "met" => landed'[j] = "met" ]_judgingVars

\* A group of done_if never has fewer landed members after a gate than before it.
GroupKeepsGround ==
    [][ phase = "rows" /\ phase' = "record" /\ GateRegressions =>
        \A g \in GroupGated : Cardinality({j \in Groups[g] : landed'[j] = "met"})
                             >= Cardinality({j \in Groups[g] : landed[j] = "met"}) ]_judgingVars

\* With gate_regressions on, no merge is kept whose ratcheted value is worse, beyond
\* the tolerance, than at the last kept grading: rollbacks, idle and failed sessions
\* in between do not move the reference.
RatchetHoldsGround ==
    [][ phase = "gate" /\ plan'.fate = "merged" /\ GateRegressions =>
        \A j \in DOMAIN Ratchets :
            \E n \in Number(fresh[j]) : \A old \in level[j] : ~Regresses(j, old, n) ]_judgingVars

\* With gate_regressions and merge_requires_improvement on and no tolerance, every
\* merge gains ground and none loses any: the landed goals and the ratcheted values
\* together grow, so sessions cannot trade goals back and forth for ever.
Ground(rows, values) ==
    Cardinality({j \in Judges : rows[j] = "met"})
    + FoldFunction(LAMBDA n, sum : n + sum, 0, [j \in DOMAIN Ratchets |-> CHOOSE n \in values[j] : TRUE])
EveryMergeGains ==
    [][ phase = "gate" /\ plan'.fate = "merged" /\ GateRegressions /\ RequireImprovement =>
        Ground(Landed(Judges), [j \in DOMAIN Ratchets |-> Number(fresh[j])]) > Ground(landed, level) ]_judgingVars
=============================================================================
