----------------------------- MODULE MCProject -----------------------------
(* Instances of Project for TLC.                                          *)
EXTENDS Project, TLC

CONSTANTS r1, r2, o1, o2, yes, no

Answers == o1 :> yes @@ o2 :> no

Started == r1 :> {"foreground", "driver"} @@ r2 :> {"detached", "driver"}
Drivers == r1 :> {"driver"} @@ r2 :> {"driver"}
Foreground == r1 :> {"foreground"} @@ r2 :> {"foreground"}
===========================================================================
