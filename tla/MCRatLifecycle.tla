---------------------------- MODULE MCRatLifecycle ----------------------------
(* Two manifests whose fleets overlap in one BMS at different positions,   *)
(* and a default fleet longer than the indices.                            *)
EXTENDS RatLifecycle
CONSTANTS v1, v2, b1, b2, b3, s1, s2
MCFleet == [d \in {v1, v2} |-> IF d = v1 THEN <<b1, b2>> ELSE <<b2, b3>>]
MCSrcs == [d \in {v1, v2} |-> IF d = v1 THEN {s1} ELSE {s2}]
MCDefault == <<b3, b1, b2>>
===============================================================================
