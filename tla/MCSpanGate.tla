---------------------------- MODULE MCSpanGate ----------------------------
(* Instances of SpanGate for TLC.                                         *)
EXTENDS SpanGate
===========================================================================
