----------------------------- MODULE Measuring -----------------------------
(* The measurements the judges of a run share, and the incumbent's: one      *)
(* swe-metrics run per tree, scope and set of families, kept in the process; *)
(* its report on disk in the session's scratch, from where a gate that keeps *)
(* the session promotes it.  The incumbent outlives the process.             *)
EXTENDS Metrics, SequencesExt

CONSTANTS
    Judges,       \* the run-set: what each judge is declared to be
    Ratchet,      \* the ratchets' directions by judge, none when not ratcheted
    Trees,        \* bound: the trees a session may leave
    Whole,        \* swe-metrics on a tree: [Trees -> report]
    Changes,      \* swe-metrics on a tree's changes since a base: [Trees -> [Trees -> report]]
    Scores,       \* swe-metrics score on a tree: [Trees -> SUBSET score]
    Lazy,         \* whether the judges are a driver's, who asks for each by hand
    CacheCap,     \* CACHE_CAP
    MaxSessions,  \* bound: sessions of a run
    MaxStarts,    \* bound: starts of the program
    MaxFaults,    \* bound: swe-metrics runs that fail
    MaxStrays     \* bound: changes of a tree while it is graded

ASSUME JudgesAssumption ==
    \A j \in DOMAIN Judges :
        ~Refused(Judges[j], j \in DOMAIN Ratchet,
                 IF j \in DOMAIN Ratchet THEN Ratchet[j] ELSE {})
ASSUME ReportsAssumption ==
    /\ \A t \in Trees : IsReport(Whole[t])
    /\ \A base, t \in Trees : IsReport(Changes[base][t])
ASSUME BoundsAssumption == {CacheCap, MaxSessions, MaxStarts, MaxFaults, MaxStrays} \subseteq Nat

VARIABLES
    pc,        \* "off", "grading" a session or the baseline, "done" with it
    session,   \* the session; 0 is the pass before the first
    tree,      \* the tree the judges run on
    kept,      \* the base branch's tree
    cache,     \* CACHE of the process, oldest first
    disk,      \* report.json by session and scope
    incumbent, \* agg/private/metrics/incumbent/<scope>.json, by scope
    verdict,   \* the last verdict: of which judge, and what was measured for it
    faults, starts, strays,
    \* history
    measures,  \* what swe-metrics ran on in this session
    refused    \* the runs and sessions that were not kept

vars == <<pc, session, tree, kept, cache, disk, incumbent, verdict, faults, starts, strays, measures, refused>>

Judge(j) == Judges[j]
NoVerdict == [judge |-> {}, of |-> {}, verdict |-> Errored, incumbent |-> {}]

------------------------------------------------------------------------------
(* One measurement.                                                          *)

Families(j) == Only(Range(Judges), Judge(j))
Covers(families, family) == families = {} \/ family \in families

\* what swe-metrics reports when asked for some families only
Limited(report, families) ==
    [report EXCEPT !.analyzers = {a \in @ : \E f \in a.families : Covers(families, f)},
                   !.rows = {r \in @ : Covers(families, r.family)}]

\* what a measurement is of, and the report of it
Measurement(j) ==
    [run |-> starts, session |-> session, scope |-> Judge(j).scope, only |-> Families(j),
     base |-> kept, tree |-> tree]
ReportOf(m) ==
    Limited(IF m.scope = "target" THEN Whole[m.tree] ELSE Changes[m.base][m.tree], m.only)

\* a key that forgets the tree
KeyOfTheScope(j) == [Measurement(j) EXCEPT !.tree = "any"]
Key(j) == Measurement(j)
Hit(j) == {i \in DOMAIN cache : cache[i].key = Key(j)}

\* failures are not kept
PushedWhenGood(entry) == IF entry.ok THEN Append(cache, entry) ELSE cache
\* a failed measurement is kept too, and the oldest entry leaves a full cache
Pushed(entry) ==
    LET all == Append(cache, entry)
    IN SubSeq(all, Len(all) - Min({Len(all), CacheCap}) + 1, Len(all))

\* the directory is emptied first: a failed run leaves none
Written(m, ok) ==
    LET path == <<m.session, m.scope>>
    IN [p \in (DOMAIN disk \ {path}) \cup (IF ok THEN {path} ELSE {}) |->
           IF p = path THEN m ELSE disk[p]]

\* the scope's incumbent, where there is one after the baseline
IncumbentOf(j) ==
    IF session = 0 \/ Judge(j).scope \notin DOMAIN incumbent THEN {}
    ELSE {incumbent[Judge(j).scope]}

Concluded(j, entry) ==
    LET m == entry.of
        reports == IF entry.ok THEN {ReportOf(m)} ELSE {}
        old == {ReportOf(i) : i \in IncumbentOf(j)}
        ratchet == IF j \in DOMAIN Ratchet THEN Resolved(Judge(j), Ratchet[j]) ELSE {}
    IN [judge |-> {j}, of |-> {m},
        incumbent |-> IF Judge(j).kind = "metric" THEN IncumbentOf(j) ELSE {},
        verdict |-> IF Judge(j).kind = "metric" THEN MetricVerdict(Judge(j), reports, old, ratchet)
                    ELSE ScoreVerdict(Judge(j), reports, Scores[m.tree])]

Cached(j) ==
    /\ pc = "grading"
    /\ \E i \in Hit(j) :
          /\ \A k \in Hit(j) : i <= k
          /\ verdict' = Concluded(j, cache[i])
    /\ UNCHANGED <<pc, session, tree, kept, cache, disk, incumbent, faults, starts, strays, measures, refused>>

Measure(j, ok) ==
    /\ pc = "grading"
    /\ Hit(j) = {}
    /\ ok \/ faults < MaxFaults
    /\ LET entry == [key |-> Key(j), of |-> Measurement(j), ok |-> ok]
       IN /\ cache' = Pushed(entry)
          /\ disk' = Written(entry.of, ok)
          /\ verdict' = Concluded(j, entry)
    /\ measures' = measures \cup {Measurement(j)}
    /\ faults' = IF ok THEN faults ELSE faults + 1
    /\ UNCHANGED <<pc, session, tree, kept, incumbent, starts, strays, refused>>

------------------------------------------------------------------------------
(* The incumbent.                                                            *)

\* the project's entries, of any session
MineOfAnySession(entry) == entry.ok
\* measure::promote: the scopes' newest good measurements of the session
Mine(entry) == entry.ok /\ entry.of.session = session
Promotable == {i \in DOMAIN cache : Mine(cache[i])}
Newest(s) == cache[Max({i \in Promotable : cache[i].of.scope = s})].of
ReportPath(s) == <<Newest(s).session, s>>
Promoted ==
    IF Promotable = {} THEN incumbent
    ELSE LET scopes == {cache[i].of.scope : i \in Promotable}
         IN [s \in {s \in scopes : ReportPath(s) \in DOMAIN disk} |-> disk[ReportPath(s)]]

------------------------------------------------------------------------------
(* The run around it.                                                        *)

Init ==
    /\ pc = "off" /\ session = 0
    /\ tree \in Trees /\ kept = tree
    /\ cache = <<>> /\ disk = <<>> /\ incumbent = <<>>
    /\ verdict = NoVerdict
    /\ faults = 0 /\ starts = 0 /\ strays = 0
    /\ measures = {} /\ refused = {}

\* a new process: base may have moved since the last run; a fresh driver has no incumbent
Start(resume) ==
    /\ pc = "off" /\ starts < MaxStarts
    /\ resume => starts > 0
    /\ IF resume THEN kept' = kept ELSE kept' \in Trees
    /\ tree' = kept'
    /\ session' = IF resume THEN session ELSE 0
    /\ incumbent' = IF Lazy /\ ~resume THEN <<>> ELSE incumbent
    /\ pc' = IF Lazy THEN "done" ELSE "grading"
    /\ starts' = starts + 1
    /\ cache' = <<>> /\ disk' = <<>> /\ measures' = {} /\ verdict' = NoVerdict
    /\ UNCHANGED <<faults, strays, refused>>

\* a judge's process or an operator changes the tree while it is graded
Stray ==
    /\ pc = "grading" /\ strays < MaxStrays
    /\ \E t \in Trees \ {tree} : tree' = t
    /\ strays' = strays + 1
    /\ verdict' = NoVerdict
    /\ UNCHANGED <<pc, session, kept, cache, disk, incumbent, faults, starts, measures, refused>>

\* the YAML loop runs every judge; a driver asks for those it wants
Graded ==
    Lazy \/ \A j \in DOMAIN Judges :
                \E m \in measures : m.scope = Judge(j).scope /\ m.only = Families(j)

\* the baseline pass, or a gate that keeps the session
Keep ==
    /\ pc = "grading" /\ Graded
    /\ kept' = tree
    /\ incumbent' = Promoted
    /\ pc' = "done"
    /\ verdict' = NoVerdict
    /\ UNCHANGED <<session, tree, cache, disk, faults, starts, strays, measures, refused>>

\* a gate discards the session, or it stays in a span no gate has decided
Discard ==
    /\ pc = "grading" /\ Graded /\ session > 0
    /\ tree' = kept
    /\ pc' = "done"
    /\ verdict' = NoVerdict
    /\ refused' = refused \cup {<<starts, session>>}
    /\ UNCHANGED <<session, kept, cache, disk, incumbent, faults, starts, strays, measures>>

\* the next session's worker leaves a tree; a new session has a new scratch
Session ==
    /\ pc = "done" /\ session < MaxSessions
    /\ session' = session + 1
    /\ tree' \in Trees
    /\ pc' = "grading"
    /\ measures' = {} /\ verdict' = NoVerdict
    /\ UNCHANGED <<kept, cache, disk, incumbent, faults, starts, strays, refused>>

\* the process ends, at a boundary or anywhere
Exit ==
    /\ pc # "off"
    /\ pc' = "off"
    /\ cache' = <<>> /\ disk' = <<>> /\ measures' = {} /\ verdict' = NoVerdict
    /\ tree' = kept
    /\ UNCHANGED <<session, kept, incumbent, faults, starts, strays, refused>>

Next ==
    \/ \E resume \in BOOLEAN : Start(resume)
    \/ \E j \in DOMAIN Judges : Cached(j) \/ (\E ok \in BOOLEAN : Measure(j, ok))
    \/ Stray
    \/ Keep
    \/ Discard
    \/ Session
    \/ Exit

Spec == Init /\ [][Next]_vars
------------------------------------------------------------------------------
(* Properties.                                                               *)

TypeOK ==
    /\ pc \in {"off", "grading", "done"}
    /\ session \in 0..MaxSessions /\ starts \in 0..MaxStarts /\ faults \in 0..MaxFaults
    /\ {tree, kept} \subseteq Trees
    /\ Len(cache) <= CacheCap
    /\ verdict.judge \subseteq DOMAIN Judges

\* A judge is told of the tree it was asked about: whatever was measured before,
\* by another judge, in another session or before the tree changed under the
\* judging, its verdict is of a measurement of this tree against this base,
\* with its own metric's family in it.
VerdictIsOfTheTree ==
    \A j \in verdict.judge :
        /\ verdict.of = {Measurement(j)}
        /\ Judge(j).kind = "metric" =>
              \A m \in verdict.of : Covers(m.only, Judge(j).family)

\* The incumbents are the reports of one kept session: never of one a gate
\* discarded, and never of two at once, whose scopes would describe two trees.
IncumbentsAreOneKept ==
    \A s, u \in DOMAIN incumbent :
        /\ <<incumbent[s].run, incumbent[s].session>> \notin refused
        /\ incumbent[s].run = incumbent[u].run
        /\ incumbent[s].session = incumbent[u].session

\* the report, had this analyzer failed
Failing(report, a) ==
    [report EXCEPT !.analyzers = (@ \ {a}) \cup {[a EXCEPT !.status = "failed"]},
                   !.rows = {r \in @ : r.tool # a.tool}]

\* A fault is never a reason to pass: what a judge meets when an analyzer has
\* failed, it meets when the analyzer runs.
FailureNeverHelps ==
    \A j \in verdict.judge : Judge(j).kind = "metric" =>
        \A m \in verdict.of : \A a \in AnalyzersOf(ReportOf(m), Selected(Judge(j)), {}) :
            MetricVerdict(Judge(j), {Failing(ReportOf(m), a)}, {}, {}).met
                => MetricVerdict(Judge(j), {ReportOf(m)}, {}, {}).met

\* what is better for the metric is what its one threshold asks for
OneSided(j, better) ==
    \/ j.min = {} /\ better = {"lower"}
    \/ j.max = {} /\ better = {"higher"}
Betters(j, m) == {r.better : r \in {r \in ReportOf(m).rows : r.id = Judge(j).id}}

\* The reported number is the one the verdict rests on: with one threshold, in
\* the metric's direction, the judge is met exactly when its value passes.
ValueDecides ==
    \A j \in verdict.judge : \A m \in verdict.of : \A v \in verdict.verdict.value :
        Judge(j).kind = "metric" /\ OneSided(Judge(j), Betters(j, m))
            => (verdict.verdict.met <=> Passes(Threshold(Judge(j)), v))

\* The same, whatever the thresholds and the direction.
ValueAlwaysDecides ==
    \A j \in verdict.judge : \A v \in verdict.verdict.value :
        verdict.verdict.met <=> Passes(Threshold(Judge(j)), v)

\* A promotion drops a scope it did not measure: every incumbent is a report of
\* the tree that is kept.
IncumbentIsTheKept ==
    pc = "done" => \A s \in DOMAIN incumbent : incumbent[s].tree = kept

\* One swe-metrics run answers every judge of the same tree, families and base,
\* a failed one too, until more measurements than the cache holds came after.
MeasuredOnce ==
    [][cache' # cache /\ cache' # <<>> /\ Last(cache').of \in measures
         => Len(cache) = CacheCap]_vars
============================================================================
