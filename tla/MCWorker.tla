------------------------------ MODULE MCWorker ------------------------------
(* Instances of Worker for TLC.                                              *)
EXTENDS Worker

\* a second task under the first one's name, or under its own
OneOrTwoNames == <<{"a"}, {"a", "b"}>>
NoTask == <<>>
==============================================================================
