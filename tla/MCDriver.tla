------------------------------ MODULE MCDriver ------------------------------
(* Instances of Driver: the programs TLC runs and the mutants of the code.   *)
EXTENDS Driver, Samples

\* a judge before any step, judges one by one and in a group, a look at the gate's
\* state, a second cycle under the ceilings
Judged ==
    <<Then("judge", <<"a">>, 0, 2),
      Then("step", <<"s">>, 1, 3),
      Do("judge", <<"a">>, 1, 4, 5),
      Then("group", <<"b", "c">>, 1, 5),
      Then("gate", <<>>, 1, 6),
      Do("gate-state", <<>>, 1, 8, 7),
      Then("limits", <<>>, 2, 8),
      Then("step", <<"s">>, 2, 9),
      Then("limits", <<>>, 2, 10),
      Do("group", <<"b", "c">>, 2, 11, 12),
      Then("judge", <<"b">>, 2, 12),
      Then("gate", <<>>, 2, 13)>>

\* conditions beside judges
Conditional ==
    <<Do("condition", <<"a">>, 1, 2, 3),
      Then("step", <<"s">>, 1, 3),
      Then("step", <<"t">>, 1, 4),
      Then("judge", <<"b">>, 1, 5),
      Then("condition", <<"b">>, 1, 6),
      Then("condition", <<"a">>, 1, 7),
      Then("gate", <<>>, 1, 8),
      Then("step", <<"s">>, 2, 9),
      Then("gate", <<>>, 2, 10)>>

\* a gate at the bottom of a loop whose step a condition may skip
Unconditional ==
    <<Do("condition", <<"a">>, 1, 2, 3),
      Then("step", <<"s">>, 1, 3),
      Then("gate", <<>>, 1, 4),
      Then("step", <<"s">>, 2, 5),
      Then("gate", <<>>, 2, 6)>>

\* a gate tried again after a conflict, with the same judge asked before each try
Retried ==
    <<Then("step", <<"s">>, 1, 2),
      Then("judge", <<"a">>, 1, 3),
      Do("gate", <<>>, 1, 6, 4),
      Then("judge", <<"a">>, 1, 5),
      Then("gate", <<>>, 1, 6)>>

\* a judge asked as a condition first and by name afterwards
Promoted ==
    <<Then("step", <<"s">>, 1, 2),
      Then("condition", <<"a">>, 1, 3),
      Then("judge", <<"a">>, 1, 4),
      Then("gate", <<>>, 1, 5)>>

MCJudges == {"a", "b", "c"} \cup Asked
MCGrades == [j \in MCJudges |->
                CASE j = "c" -> {"met", "unmet", "failed"}
                  [] j = "dsn_ok" -> {"met", "vacuous"}
                  [] OTHER -> {"met", "unmet"}]
StandingFlows == Sections \cup {Judged, Conditional}
UnconditionalFlows == {Unconditional}
RetriedFlows == {Retried}
PromotedFlows == {Promoted}

\* The hypothesis of LaunchProofs' theorems on Driver, of the standing programs, whose
\* calls all lead onwards: GateLess(f), from where no gate is made, and AskLess(f), from
\* where no judge is asked before the next step or gate.
GateLess(f) ==
    LET free[i \in Nat] ==
            i \in DOMAIN f => f[i].op # "gate" /\ free[f[i].yes] /\ free[f[i].no]
    IN {i \in 1 .. Len(f) + 1 : free[i]}
AskLess(f) ==
    LET free[i \in Nat] ==
            i \in DOMAIN f \ GateLess(f) =>
                /\ f[i].op \notin Asking
                /\ f[i].op \in {"step", "gate"} \/ (free[f[i].yes] /\ free[f[i].no])
    IN {i \in 1 .. Len(f) + 1 : free[i]}
ASSUME StandingFlowsAskAfresh ==
    \A f \in StandingFlows : Pauses(f, AskLess(f), GateLess(f))

=============================================================================
