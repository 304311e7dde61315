----------------------------- MODULE MCResume -----------------------------
(* Instances of Resume for TLC.                                           *)
EXTENDS Resume

Plain(step, skip) == [step |-> step, cap |-> 1, until |-> FALSE, skip |-> skip]
Until(step, max)  == [step |-> step, cap |-> max, until |-> TRUE, skip |-> FALSE]

DraftFix == <<Plain("draft", TRUE), Until("fix", 2)>>
FixShip  == <<Until("fix", 1), Plain("ship", FALSE)>>

MCConfigs == {DraftFix, FixShip}
OneConfig == {DraftFix}
===========================================================================
