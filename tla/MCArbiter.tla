------------------------------ MODULE MCArbiter ------------------------------
(* Two flows of one source to two BMS, and one of another source.  Digests *)
(* have the action codes the pipeline gives their rules (R2 drops, a DENY  *)
(* row drops whatever fires).                                              *)
EXTENDS Arbiter
CONSTANTS s1, s2, b1, b2, f1, f2, f3, rA, rB

MCSrcOf == [f \in {f1, f2, f3} |-> IF f = f3 THEN s2 ELSE s1]
MCDstOf == [f \in {f1, f2, f3} |-> IF f = f2 THEN b2 ELSE b1]

Entry(r, w, rb, c) == [rollout |-> r, window |-> w, srcs |-> {s1}, bms |-> {b1, b2},
                       sizes |-> {1}, rollback |-> rb, cap |-> c]
Planned == <<Entry(rA, 0..1, {}, 1), Entry(rB, 0..3, {1}, 2)>>
Lowered == <<Entry(rB, 1..3, {}, 1)>>
MCManifests == {Planned, Lowered}

Digest(f, c, rs, z, v) == [flow |-> f, code |-> c, rules |-> rs, size |-> z, version |-> v]
MCDigests ==
  {Digest(f, "HOLD", rs, 1, 1) : f \in {f1, f2}, rs \in {{"R1"}, {"R6"}, {"R1", "R6"}, {"R4", "R6"}}}
  \cup {Digest(f1, "HOLD", {"R1"}, 2, 1), Digest(f1, "HOLD", {"R6"}, 1, 2),
        Digest(f1, "HOLD", {"R1", "R4"}, 1, 1), Digest(f1, "PASS", {}, 1, 1),
        Digest(f1, "DROP", {}, 1, 1), Digest(f3, "DROP", {"R2", "R5"}, 1, 1)}
=============================================================================
