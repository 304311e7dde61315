--------------------------- MODULE MCTimedCommand ---------------------------
(* Instances of TimedCommand for TLC.                                        *)
EXTENDS TimedCommand
==============================================================================
