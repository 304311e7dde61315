---------------------------- MODULE MCMeasuring ----------------------------
(* Two kept trees that trade one tool's complexity for another's, and one    *)
(* whose analyzers fail; judges of the project and of the changes.           *)
EXTENDS Measuring

cx == "complexity"
dep == "dependencies"

Ran(t, f) == [tool |-> t, families |-> {f}, status |-> "ran", applicable |-> TRUE]
Fails(t, f) == [Ran(t, f) EXCEPT !.status = "failed"]
Skips(t, f) == [Ran(t, f) EXCEPT !.status = "skipped", !.applicable = FALSE]

Stats(t, p95) == [id |-> "complexity.cyclomatic", family |-> cx, tool |-> t, better |-> "lower", target |-> TRUE,
                  value |-> {}, stats |-> {[p95 |-> p95, max |-> p95 + 1]}, label |-> NoLabel]
Count(n, label) == [id |-> "dependencies.vulnerabilities", family |-> dep, tool |-> "trivy", better |-> "lower",
                    target |-> TRUE, value |-> {n}, stats |-> {}, label |-> label]
Report(changed, files, analyzers, rows) ==
    [changed |-> changed, files |-> files, analyzers |-> analyzers, rows |-> rows]

All3 == {Ran("lizard", cx), Ran("radon", cx), Ran("complexipy", cx)}
MCTrees == {"t1", "t2", "t3"}
AnalyzersIn == [t1 |-> All3 \cup {Ran("trivy", dep)},
                t2 |-> All3 \cup {Ran("trivy", dep)},
                t3 |-> {Ran("lizard", cx), Ran("radon", cx), Fails("complexipy", cx), Fails("trivy", dep)}]
RowsIn == [t1 |-> {Stats("lizard", 9), Stats("radon", 12), Stats("complexipy", 13),
                   Count(3, NoLabel), Count(2, "critical"), Count(1, "high")},
           t2 |-> {Stats("lizard", 12), Stats("radon", 9), Stats("complexipy", 5), Count(0, NoLabel)},
           t3 |-> {Stats("lizard", 4), Stats("radon", 4)}]
MCWhole == [t \in MCTrees |-> Report(FALSE, 3, AnalyzersIn[t], RowsIn[t])]
MCChanges ==
    [b \in MCTrees |-> [t \in MCTrees |->
        IF b = t
        THEN Report(TRUE, 0, {Skips(a.tool, CHOOSE f \in a.families : TRUE) : a \in AnalyzersIn[t]}, {})
        ELSE Report(TRUE, 2, AnalyzersIn[t], RowsIn[t])]]
Doc(score, passed) ==
    [name |-> "swe-default", version |-> "2", score |-> score, components |-> {"ok"},
     gates |-> {[passed |-> passed, status |-> "ok"]}]
MCScores == [t1 |-> {Doc({70}, FALSE)}, t2 |-> {Doc({85}, TRUE)}, t3 |-> {Doc({}, TRUE)}]

Metric(id, family, scope) ==
    [kind |-> "metric", id |-> id, family |-> family, tool |-> {}, stat |-> {}, labels |-> {},
     combine |-> {}, scope |-> scope, max |-> {}, min |-> {}]
Cyclomatic(scope) == [Metric("complexity.cyclomatic", cx, scope) EXCEPT !.stat = {"p95"}]
Vulnerabilities == [Metric("dependencies.vulnerabilities", dep, "changed")
                        EXCEPT !.labels = {"critical", "high"}, !.max = {0}]

Quality == [kind |-> "score", definition |-> "swe-default", version |-> "2", scope |-> "target",
            max |-> {}, min |-> {80}]

MCJudges ==
    [simple |-> [Cyclomatic("target") EXCEPT !.combine = {"all"}, !.max = {10}],
     quality |-> Quality,
     vulns |-> Vulnerabilities,
     fresh |-> [Cyclomatic("changed") EXCEPT !.combine = {"majority"}, !.max = {10}]]
MCRatchet == [simple |-> {}]
NoRatchet == <<>>
OnlyOne == [simple |-> MCJudges.simple]
Within == [most |-> [Cyclomatic("target") EXCEPT !.combine = {"majority"}, !.max = {12}, !.min = {10}]]
============================================================================
