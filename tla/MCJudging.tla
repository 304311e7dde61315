----------------------------- MODULE MCJudging -----------------------------
(* Instances of Judging: a ratcheted goal d and a group of two or three.     *)
EXTENDS Judging

Say(met, value) == [fault |-> "none", met |-> met, value |-> value, max |-> {}, error |-> FALSE,
                    mixed |-> FALSE, vacuous |-> FALSE]
Vacuous == [Say(TRUE, {}) EXCEPT !.vacuous = TRUE]
Broken == {[Say(FALSE, {}) EXCEPT !.fault = "timeout"]}
Numbers == {Say(FALSE, {0}), Say(FALSE, {2}), Say(TRUE, {2})}
Marks == {Say(FALSE, {}), Say(TRUE, {})}

MCJudges == {"d", "g", "h"}
MCOutputs == "d" :> (Numbers \cup Broken) @@ "g" :> (Marks \cup Broken) @@ "h" :> (Marks \cup {Vacuous})
MCGroups == "q" :> {"g", "h"}
MCRatchets == "d" :> [direction |-> "up", tolerance |-> 0, seed |-> {}]
NoRatchets == [j \in {} |-> 0]
MCDoneIf == And(And(T("d"), Cmp(V("d", "value"), ">=", N(2))), A("all_goals", "q"))
MCAbortIf == Or(Cmp(T("consecutive_rollbacks"), ">=", N(2)), Cmp(T("consecutive_no_changes"), ">=", N(2)))
MCUntils ==
    { Cmp(V("d", "value"), ">=", T("g")), Cmp(V("d", "ref"), "<", V("d", "value")),
      Cmp(V("g", "ref"), ">", N(0)), Cmp(Or(T("g"), V("d", "value")), ">=", N(1)),
      Not(Cmp(V("g", "max"), ">", N(1))), And(T("any_judge_error"), T("oscillating")),
      Cmp(A("count_met", "q"), ">=", N(3)), Cmp(A("count_met", "q"), ">", N(1)),
      Cmp(N(2), "<", A("count_regressed", "q")), Cmp(N(2), "==", A("count_met", "q")),
      Cmp(A("met_fraction", "dod"), ">=", N(1)), A("all_goals", "nobody") }
Branches == {TRUE}
Both == BOOLEAN

OneJudge == {"d"}
SomeNumbers == "d" :> (Numbers \cup Broken)
NaNs == "d" :> {Say(FALSE, {NaN}), Say(FALSE, {0}), Say(TRUE, {2})}
TwoJudges == {"d", "h"}
BothMet == And(T("d"), T("h"))
NoGroups == [g \in {} |-> {}]
DoneWhenMet == T("d")
AbortOnLow == Or(Cmp(V("d", "value"), "<", N(1)), Cmp(T("consecutive_no_changes"), ">=", N(2)))
AbortOnSwing == Or(T("oscillating"), T("any_judge_error"))
Seeds == "d" :> [direction |-> "up", tolerance |-> 1, seed |-> {1}]
=============================================================================
