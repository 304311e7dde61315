----------------------------- MODULE MCWorkflow -----------------------------
(* Two drivers: a design that humans write and approve, and the code written *)
(* from it; a fetched file, a condition, a task with a script, voices, a     *)
(* critic and a next tier.                                                   *)
EXTENDS Workflow

MCFiles == {"a", "b"}
Task(name, reads, declared, out) ==
    [name |-> name, kind |-> "task", reads |-> reads, declared |-> declared, out |-> out, repairs |-> 0,
     critic |-> FALSE, climbs |-> FALSE, first |-> FALSE, voices |-> FALSE, ladder |-> FALSE,
     starts |-> FALSE]
SignOff == [Task("signoff", {"a"}, FALSE, "a") EXCEPT !.kind = "approval"]
Code == [Task("code", {"a"}, TRUE, "b") EXCEPT !.critic = TRUE, !.repairs = 1]
Fetch == [Task("fetch", {}, FALSE, "a") EXCEPT !.kind = "script", !.starts = TRUE]
Needed == [Task("needed", {}, FALSE, "a") EXCEPT !.kind = "applies"]
Draft == [Task("draft", {"a"}, TRUE, "b") EXCEPT !.first = TRUE, !.voices = TRUE, !.climbs = TRUE,
                                                 !.critic = TRUE, !.repairs = 1]
Redraft == [Task("draft", {"a"}, TRUE, "b") EXCEPT !.ladder = TRUE]

Approved == <<SignOff, Code>>
Climbing == <<Fetch, Needed, Draft, Redraft>>
MCPrograms == {Approved, Climbing}
NoUntils == {}
MCUntils == {"signoff"}
Write == Task("write", {"a"}, TRUE, "b")
Looping == {<<Write, Write>>}
=============================================================================
