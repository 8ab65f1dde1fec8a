----------------------------- MODULE MCDataPlane -----------------------------
(* A small pipeline and its twin for TLC: an authorised and a rogue        *)
(* source, two BMSs of which one is indexed.  One authorised flow has a    *)
(* session slot of its own, the other shares its slot with the rogue flows; *)
(* the sources share their hold_armed slot.                                *)
EXTENDS Poisoning

CONSTANTS good, rogue, b1, b2, fOwn, fShared, fRogue1, fRogue2

MCSources == {good, rogue}
MCBms == {b1, b2}
MCFlows == {fOwn, fShared, fRogue1, fRogue2}
MCSrcOf == [f \in MCFlows |-> IF f \in {fOwn, fShared} THEN good ELSE rogue]
MCDstOf == [f \in MCFlows |-> IF f = fRogue2 THEN b2 ELSE b1]
MCAuthorized == {good}
MCIndexed == {b1}

Push(f, v, e) ==
  [flow |-> f, proto |-> "mqtt", publish |-> TRUE, topic |-> TRUE, magic |-> TRUE,
   version |-> v, len |-> 2, fin |-> e]
MCPackets == {Push(fOwn, 1, FALSE), Push(fShared, 2, TRUE),
              Push(fRogue1, 3, FALSE), Push(fRogue2, 3, TRUE)}

MCSlots == {1, 2}
MCSlotOf == [f \in MCFlows |-> IF f = fOwn THEN 1 ELSE 2]
MCCells == {1}
MCCellOf == [i \in Hashes |-> [b \in MCBms |-> 1]]
MCArmSlots == {1}
MCArmSlotOf == [s \in MCSources |-> 1]
=============================================================================
