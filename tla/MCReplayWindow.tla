--------------------------- MODULE MCReplayWindow ---------------------------
(* Seconds in a clock of 16, started at each of its values.                *)
EXTENDS ReplayWindow
CONSTANTS b1
=============================================================================
