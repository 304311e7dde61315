------------------------------ MODULE Metrics ------------------------------
(* What a judge makes of a swe-metrics report: the selection of one metric   *)
(* from each tool that reports it, the merge of several tools' values, the   *)
(* verdict, and the declarations that are refused at startup.  A result that *)
(* may be an error, and a value that may be absent, is a set of at most one. *)
EXTENDS Integers, FiniteSets, FiniteSetsExt, Functions

Directions == {"lower", "higher", "neutral"}
Combines == {"strictest", "all", "majority"}
NoLabel == "no label"

\* the analyzers that ran, were skipped or failed, and the rows they reported
Analyzer == [tool : STRING, families : SUBSET STRING, status : {"ran", "skipped", "failed"},
             applicable : BOOLEAN]
IsReport(r) ==
    /\ DOMAIN r = {"changed", "files", "analyzers", "rows"}
    /\ r.analyzers \subseteq Analyzer
    /\ \A row \in r.rows : row.better \in Directions /\ row.target \in BOOLEAN
    /\ \A x, y \in r.rows : x.tool = y.tool /\ x.id = y.id => x.better = y.better

\* what a judge selects of a report; a metric's family is its id up to the dot
Selected(j) == [id |-> j.id, family |-> j.family, tool |-> j.tool, stat |-> j.stat, labels |-> j.labels]

AnalyzersOf(report, sel, tool) ==
    {a \in report.analyzers : sel.family \in a.families /\ (tool = {} \/ a.tool \in tool)}
NotRan(report, sel, tool) == {a \in AnalyzersOf(report, sel, tool) : a.status # "ran"}
\* the status of a failed analyzer is read as another word
BrokenMisread(report, sel) == {a \in AnalyzersOf(report, sel, {}) : a.status = "error"}

Broken(report, sel) == {a \in AnalyzersOf(report, sel, {}) : a.status = "failed"}

Matches(row, sel, labeled) ==
    /\ row.id = sel.id
    /\ row.target
    /\ sel.tool = {} \/ row.tool \in sel.tool
    /\ IF labeled THEN row.label \in sel.labels ELSE row.label = NoLabel

\* the number a row holds for the selection: its value, or the statistic asked
NumberIn(row, sel) ==
    IF sel.stat = {} THEN row.value
    ELSE UNION {{s[st] : st \in sel.stat \cap DOMAIN s} : s \in row.stats}

\* the rows of each tool, added up; several rows of a statistic cannot be
AddedUp(rows, sel) ==
    LET Of(t) == {r \in rows : r.tool = t}
        Sum(t) == MapThenSumSet(LAMBDA r : CHOOSE n \in NumberIn(r, sel) : TRUE, Of(t))
        tools == {r.tool : r \in rows}
    IN IF \/ \E r \in rows : NumberIn(r, sel) = {}
          \/ sel.stat # {} /\ \E t \in tools : Cardinality(Of(t)) > 1
       THEN {}
       ELSE {[t \in tools |-> [value |-> Sum(t), better |-> (CHOOSE r \in Of(t) : TRUE).better]]}
PerTool(report, sel, labeled) == AddedUp({r \in report.rows : Matches(r, sel, labeled)}, sel)

\* an absent label is zero where the tool reports the total
Labeled(report, sel) ==
    LET found == PerTool(report, sel, sel.labels # {})
        Zeros(f) == [t \in DOMAIN f |-> [f[t] EXCEPT !.value = 0]]
    IN IF found = {<<>>} /\ sel.labels # {} /\ sel.stat = {}
       THEN {Zeros(f) : f \in PerTool(report, sel, FALSE)}
       ELSE found

\* the metric's value from each tool that reports it; a fault is no value
Select(report, sel) ==
    IF \/ sel.tool # {} /\ NotRan(report, sel, sel.tool) # {}
       \/ sel.tool = {} /\ Broken(report, sel) # {}
    THEN {}
    ELSE Labeled(report, sel) \ {<<>>}

\* no changed file is the metric's business
NothingToMeasure(report, sel) ==
    LET mine == AnalyzersOf(report, sel, sel.tool)
    IN /\ report.changed
       /\ ~\E row \in report.rows : row.id = sel.id /\ row.target
       /\ mine # {}
       /\ Broken(report, sel) = {}
       /\ \A a \in mine : a.status = "skipped"
       /\ report.files = 0 \/ \A a \in mine : ~a.applicable

------------------------------------------------------------------------------
(* Several tools, one metric.                                                *)

Passes(t, v) == (\A m \in t.max : v <= m) /\ (\A m \in t.min : v >= m)
ImpliedBetter(t) == IF t.max # {} THEN "lower" ELSE "higher"

\* v is harder to pass than w
Harder(v, w, order) == IF order = "higher" THEN v < w ELSE v > w

\* the k-th value from the one easiest to pass
Kth(f, order, k) ==
    CHOOSE v \in {f[t].value : t \in DOMAIN f} :
        /\ Cardinality({t \in DOMAIN f : Harder(v, f[t].value, order)}) < k
        /\ Cardinality({t \in DOMAIN f : ~Harder(f[t].value, v, order)}) >= k

\* some tool's value got better since the incumbent and another's got worse
Disagree(f, incumbent, better) ==
    LET both == DOMAIN f \cap DOMAIN incumbent
        Gain(t) == IF better = "higher" THEN f[t].value - incumbent[t].value
                                        ELSE incumbent[t].value - f[t].value
    IN better # "neutral" /\ (\E t \in both : Gain(t) > 0) /\ (\E t \in both : Gain(t) < 0)

\* the value of one tool more than the majority
MergedOneFurther(f, how, t, better, incumbent) ==
    LET n == Cardinality(DOMAIN f)
        order == IF better = "neutral" THEN ImpliedBetter(t) ELSE better
        k == IF how = "majority" THEN (n \div 2) + 1 ELSE n
        passing == {tool \in DOMAIN f : Passes(t, f[tool].value)}
    IN [value |-> Kth(f, order, Min({k + 1, n})), met |-> Cardinality(passing) >= k, better |-> better,
        mixed |-> FALSE]

Merged(f, how, t, better, incumbent) ==
    LET n == Cardinality(DOMAIN f)
        order == IF better = "neutral" THEN ImpliedBetter(t) ELSE better
        k == IF how = "majority" THEN (n \div 2) + 1 ELSE n
        passing == {tool \in DOMAIN f : Passes(t, f[tool].value)}
    IN [value |-> Kth(f, order, k), met |-> Cardinality(passing) >= k, better |-> better,
        mixed |-> how = "all" /\ \E inc \in incumbent : Disagree(f, inc, better)]

\* combine::decide: the tools' directions agree, one tool needs no merge
Decide(f, combine, t, incumbent) ==
    LET betters == {f[tool].better : tool \in DOMAIN f}
        better == CHOOSE b \in betters : TRUE
        only == CHOOSE tool \in DOMAIN f : TRUE
    IN IF Cardinality(betters) > 1 THEN {}
       ELSE IF Cardinality(DOMAIN f) = 1
       THEN {[value |-> f[only].value, met |-> Passes(t, f[only].value), better |-> better,
              mixed |-> FALSE]}
       ELSE {Merged(f, how, t, better, incumbent) : how \in combine}

------------------------------------------------------------------------------
(* Verdicts.                                                                 *)

Errored == [error |-> TRUE, met |-> FALSE, value |-> {}, mixed |-> FALSE, vacuous |-> FALSE]
Vacuous == [error |-> FALSE, met |-> TRUE, value |-> {}, mixed |-> FALSE, vacuous |-> TRUE]
Held(met, value, mixed) ==
    [error |-> FALSE, met |-> met, value |-> {value}, mixed |-> mixed, vacuous |-> FALSE]

\* the session's changes, or those of a path since a reference
OfChanges(j) == j.scope \in {"changed", "path changes"}

Threshold(j) == [max |-> j.max, min |-> j.min]

\* the judge's ratchet is not against what the report says is better
AgreesWith(ratchet, better) ==
    ~(\/ ratchet = {"down"} /\ better = "higher"
      \/ ratchet = {"up"} /\ better = "lower")

\* the incumbent's report, as a set, read through the judge's selection
IncumbentValues(j, incumbent) ==
    IF j.combine # {"all"} THEN {} ELSE UNION {Select(r, Selected(j)) : r \in incumbent}

\* the verdict on the tools' values, unless the ratchet is against their direction
VerdictOn(j, values, old, ratchet) ==
    LET decided == UNION {Decide(f, j.combine, Threshold(j), old) : f \in values}
        kept == {d \in decided : AgreesWith(ratchet, d.better)}
    IN IF kept = {} THEN Errored
       ELSE LET d == CHOOSE d \in kept : TRUE IN Held(d.met, d.value, d.mixed)

\* run_metric, on a report of at most one: none when the measurement failed
MetricVerdict(j, report, incumbent, ratchet) ==
    IF OfChanges(j) /\ \E r \in report : NothingToMeasure(r, Selected(j))
    THEN Vacuous
    ELSE VerdictOn(j, UNION {Select(r, Selected(j)) : r \in report}, IncumbentValues(j, incumbent), ratchet)

\* a score is of the definition the judge is configured for
OfDefinition(doc, j) ==
    /\ j.definition = "swe-default" => doc.name = "swe-default"
    /\ doc.version = j.version

NothingToScore(doc) ==
    /\ doc.score = {}
    /\ doc.components # {}
    /\ \A c \in doc.components : c = "not_applicable"
    /\ \A g \in doc.gates : g.passed /\ g.status \in {"not_applicable", "ok"}

\* run_score, on a report and a score of at most one each
ScoreVerdict(j, report, score) ==
    LET changes == OfChanges(j)
        good == {d \in score : OfDefinition(d, j) /\ d.score # {}}
    IN IF j.scope = "changed" \/ report = {} THEN Errored
       ELSE IF changes /\ \E r \in report : r.files = 0 THEN Vacuous
       ELSE IF changes /\ \E d \in score : NothingToScore(d) THEN Vacuous
       ELSE IF good = {} THEN Errored
       ELSE LET v == CHOOSE v \in UNION {d.score : d \in good} : TRUE
            IN Held(Passes(Threshold(j), v), v, FALSE)

------------------------------------------------------------------------------
(* Declarations.                                                             *)

Implied(j) ==
    IF j.kind = "score" THEN {"up"}
    ELSE IF j.max # {} /\ j.min = {} THEN {"down"}
    ELSE IF j.min # {} /\ j.max = {} THEN {"up"}
    ELSE {}

\* the direction a ratchet resolves to: its own, else the one the judge implies
Resolved(j, direction) == IF direction # {} THEN direction ELSE Implied(j)

ThresholdRefused(j) ==
    \/ j.max = {} /\ j.min = {}
    \/ \E hi \in j.max, lo \in j.min : hi < lo

\* spec::problems and declare::resolve_ratchets, for a judge ratcheted or not
Refused(j, ratcheted, direction) ==
    \/ ThresholdRefused(j)
    \/ j.kind = "metric" /\ j.tool # {} /\ j.combine # {}
    \/ ratcheted /\ j.kind = "score" /\ direction = {"down"}
    \/ ratcheted /\ j.kind = "metric" /\ j.scope = "changed"
    \/ ratcheted /\ Resolved(j, direction) = {}

\* the families measured for every metric judge of one scope: none named means all
Only(judges, j) ==
    IF j.kind = "score" \/ \E k \in judges : k.kind = "score" /\ k.scope = j.scope
    THEN {}
    ELSE {k.family : k \in {k \in judges : k.kind = "metric" /\ k.scope = j.scope}}
============================================================================
