--------------------------- MODULE DataPlaneProofs ---------------------------
(***************************************************************************)
(* What holds of the pipeline for every fleet, every hash, every set of    *)
(* packets and every controller; and, in the second half, of two pipelines *)
(* side by side: unauthorised traffic does not change what the detector    *)
(* decides about authorised packets.                                       *)
(***************************************************************************)
EXTENDS Poisoning, TLAPS

(* A remainder lies below its positive divisor: register writes stay in    *)
(* the width of the register.                                              *)
LEMMA Remainder ==
  ASSUME NEW a \in Nat, NEW m \in Nat \ {0}
  PROVE  a % m \in 0..(m - 1)
  OBVIOUS

(* coarse_time | 1 fits the register, whose modulus is even. *)
LEMMA OddFits ==
  ASSUME NEW t \in 0..(ClockMod - 1)
  PROVE  OddOf(t) \in 0..(ClockMod - 1)
  BY WidthAssumption DEF OddOf

(* The fields of a packet that the pipeline computes with. *)
LEMMA PacketFields ==
  ASSUME NEW p \in Packets
  PROVE  /\ p.flow \in Flows /\ p.version \in Nat /\ p.len \in Nat
         /\ Src(p) \in Sources /\ Dst(p) \in Bms /\ Slot(p) \in Slots
  BY TrafficAssumption, HashAssumption DEF PacketType, Src, Dst, Slot

-----------------------------------------------------------------------------
(* A packet keeps every register and table within its width. *)
LEMMA PacketTyped ==
  ASSUME TypeOK, NEW p \in Packets, Packet(p)
  PROVE  TypeOK'
<1>0. /\ p.flow \in Flows /\ p.version \in Nat /\ p.len \in Nat
      /\ Src(p) \in Sources /\ Dst(p) \in Bms /\ Slot(p) \in Slots
  BY PacketFields
<1>1. BmsPush(p) \/ Commits(p) => Dst(p) \in Indexed
  BY DEF BmsPush, Commits
<1>2. lastSeen' \in [Indexed -> 0..(ClockMod - 1)]
  <2>1. OddOf(coarse) \in 0..(ClockMod - 1)
    BY OddFits DEF TypeOK
  <2> QED BY <1>1, <2>1 DEF TypeOK, Packet
<1>3. maxVersion' \in [Indexed -> Nat] /\ accepted' \in [Indexed -> SUBSET Nat]
  <2>1. accepted' \in [Indexed -> SUBSET Nat]
    BY <1>0, <1>1 DEF TypeOK, Packet
  <2>2. maxVersion' \in [Indexed -> Nat]
    BY <1>0, <1>1 DEF TypeOK, Packet
  <2> QED BY <2>1, <2>2
<1>4. bytes' \in [Slots -> 0..(BytesMod - 1)] /\ opened' \subseteq Slots
  <2>1. bytes[Slot(p)] + p.len \in Nat /\ BytesMod \in Nat \ {0}
    BY <1>0, WidthAssumption DEF TypeOK
  <2>2. BytesNow(p) \in 0..(BytesMod - 1)
    BY <2>1, Remainder DEF BytesNow
  <2>3. bytes' \in [Slots -> 0..(BytesMod - 1)]
    BY <1>0, <2>1, <2>2 DEF TypeOK, Packet
  <2> QED BY <1>0, <2>3 DEF TypeOK, Packet
<1>5. bloom' \in [Hashes -> SUBSET Cells]
  <2>1. \A i \in Hashes : CellOf[i][Dst(p)] \in Cells
    BY <1>0, HashAssumption
  <2> QED BY <2>1 DEF TypeOK, Packet
<1>6. count' \in 0..(CountMod - 1)
  <2>1. count + 1 \in Nat /\ CountMod \in Nat \ {0} /\ 0 \in 0..(CountMod - 1)
    BY WidthAssumption DEF TypeOK
  <2>2. (count + 1) % CountMod \in 0..(CountMod - 1)
    BY <2>1, Remainder
  <2>3. CountNow(p) \in 0..(CountMod - 1)
    BY <2>1, <2>2 DEF CountNow, TypeOK
  <2> QED BY <2>3 DEF TypeOK, Packet
<1>7. armed' \subseteq ArmSlots
  BY <1>0, HashAssumption DEF TypeOK, Packet, ArmedNow
<1> QED
  BY <1>2, <1>3, <1>4, <1>5, <1>6, <1>7 DEF TypeOK, Packet

(* So does every RPC of the controller. *)
LEMMA WriteTyped ==
  ASSUME TypeOK, ControllerWrite
  PROVE  TypeOK'
<1> USE WidthAssumption DEF TypeOK
<1>1. ASSUME NEW f \in Flows, DeleteRow(f) PROVE TypeOK'
  BY <1>1 DEF DeleteRow, registers
<1>2. ASSUME NEW f \in Flows, NEW a \in {"allow", "deny"}, InsertRow(f, a) PROVE TypeOK'
  BY <1>2 DEF InsertRow, registers
<1>3. ASSUME NEW t \in 0..(ClockMod - 1), WriteCoarse(t) PROVE TypeOK'
  BY <1>3 DEF WriteCoarse, registers
<1>4. ASSUME NEW t \in 0..(ClockMod - 1), WriteLastSeen(t) PROVE TypeOK'
  BY <1>4 DEF WriteLastSeen
<1>5. ASSUME NEW i \in Hashes, ClearBloom(i) PROVE TypeOK'
  BY <1>5 DEF ClearBloom
<1>6. CASE ClearCount BY <1>6 DEF ClearCount
<1>7. CASE ClearMaxVersion BY <1>7 DEF ClearMaxVersion
<1>8. CASE ClearArmed BY <1>8 DEF ClearArmed
<1>9. CASE ClearBytes BY <1>9 DEF ClearBytes
<1>10. CASE ClearFirstTs BY <1>10 DEF ClearFirstTs
<1> QED
  BY <1>1, <1>2, <1>3, <1>4, <1>5, <1>6, <1>7, <1>8, <1>9, <1>10 DEF ControllerWrite

(* Every register and table always holds a value of its width. *)
THEOREM TypeCorrect == Spec => []TypeOK
<1>1. Init => TypeOK
  <2> SUFFICES ASSUME Init PROVE TypeOK
    OBVIOUS
  <2>1. coarse + ClockMod \div 2 \in Nat /\ ClockMod \in Nat \ {0}
    BY WidthAssumption DEF Init
  <2>2. (coarse + ClockMod \div 2) % ClockMod \in 0..(ClockMod - 1)
    BY <2>1, Remainder
  <2> QED BY <2>2, WidthAssumption DEF Init, TypeOK
<1>2. TypeOK /\ [Next]_vars => TypeOK'
  <2> SUFFICES ASSUME TypeOK, [Next]_vars PROVE TypeOK'
    OBVIOUS
  <2>1. ASSUME NEW p \in Packets, Packet(p) PROVE TypeOK'
    BY <2>1, PacketTyped
  <2>2. CASE ControllerWrite
    BY <2>2, WriteTyped
  <2>3. CASE UNCHANGED vars
    BY <2>3 DEF TypeOK, vars, registers
  <2> QED BY <2>1, <2>2, <2>3 DEF Next
<1> QED BY <1>1, <1>2, PTL DEF Spec

-----------------------------------------------------------------------------
(* R5 fires only on a push that R2 rejects, so no packet may arm its slot. *)
LEMMA NoPacketArms ==
  ASSUME NEW p \in Packets
  PROVE  ~ArmEligible(p)
  BY WidthAssumption DEF ArmEligible, R5, CountNow, Monitored

(* hold_armed_reg is never armed: the HOLD cascade of the pipeline is out  *)
(* of reach for every threshold and every traffic.                         *)
THEOREM CascadeUnreachable == Spec => []NeverArmed
<1>1. Init => NeverArmed
  BY DEF Init, NeverArmed
<1>2. NeverArmed /\ [Next]_vars => NeverArmed'
  <2> SUFFICES ASSUME NeverArmed, [Next]_vars PROVE NeverArmed'
    OBVIOUS
  <2>1. ASSUME NEW p \in Packets, Packet(p) PROVE NeverArmed'
    BY <2>1, NoPacketArms DEF Packet, ArmedNow, NeverArmed
  <2>2. CASE ControllerWrite
    BY <2>2 DEF ControllerWrite, DeleteRow, InsertRow, WriteCoarse, WriteLastSeen,
       ClearCount, ClearBloom, ClearMaxVersion, ClearArmed, ClearBytes, ClearFirstTs,
       registers, NeverArmed
  <2>3. CASE UNCHANGED vars
    BY <2>3 DEF NeverArmed, vars, registers
  <2> QED BY <2>1, <2>2, <2>3 DEF Next
<1> QED BY <1>1, <1>2, PTL DEF Spec

-----------------------------------------------------------------------------
(* The step of RollbackFloor for a packet: only a committed push touches   *)
(* the register and the history, and a rollback leaves the register alone. *)
LEMMA PacketKeepsFloor ==
  ASSUME TypeOK, RollbackFloor, NEW p \in Packets, Packet(p)
  PROVE  RollbackFloor'
<1> DEFINE d == Dst(p)
<1>0. p.version \in Nat
  BY PacketFields
<1>a. Commits(p) <=> BmsPush(p) /\ Src(p) \in Authorized
  BY DEF Commits, R2, BmsPush, OtaPush
<1>1. CASE ~Commits(p)
  BY <1>1, <1>a DEF Packet, RollbackFloor
<1>2. CASE Commits(p)
  <2>1. d \in Indexed /\ accepted[d] \subseteq Nat /\ maxVersion[d] \in Nat
    BY <1>2 DEF Commits, BmsPush, TypeOK
  <2>2. accepted' = [accepted EXCEPT ![d] = @ \cup {p.version}]
    BY <1>2, <1>a DEF Packet
  <2>3. CASE R6(p)
    <3>1. p.version < maxVersion[d] /\ maxVersion' = maxVersion
      BY <1>2, <2>3 DEF Commits, R6, Packet
    <3> QED BY <1>0, <2>1, <2>2, <3>1 DEF RollbackFloor, TypeOK
  <2>4. CASE ~R6(p)
    <3>1. p.version >= maxVersion[d]
      BY <1>0, <1>2, <2>1, <2>4 DEF Commits, R6
    <3>2. maxVersion' = [maxVersion EXCEPT ![d] = p.version]
      BY <1>2, <2>4 DEF Packet
    <3>3. ASSUME NEW b \in Indexed, b = d
          PROVE  /\ \A v \in accepted'[b] : v <= maxVersion'[b]
                 /\ maxVersion'[b] \in accepted'[b] \cup {0}
      BY <1>0, <2>1, <2>2, <3>1, <3>2, <3>3 DEF RollbackFloor, TypeOK
    <3>4. ASSUME NEW b \in Indexed, b # d
          PROVE  /\ \A v \in accepted'[b] : v <= maxVersion'[b]
                 /\ maxVersion'[b] \in accepted'[b] \cup {0}
      BY <2>2, <3>2, <3>4 DEF RollbackFloor, TypeOK
    <3> QED BY <3>3, <3>4 DEF RollbackFloor
  <2> QED BY <2>3, <2>4
<1> QED BY <1>1, <1>2

(* The R6 register is the highest version that authorised sources pushed.  *)
THEOREM FloorIsHighest == Spec => []RollbackFloor
<1>1. Init => RollbackFloor
  BY DEF Init, RollbackFloor
<1>2. TypeOK /\ RollbackFloor /\ [Next]_vars => RollbackFloor'
  <2> SUFFICES ASSUME TypeOK, RollbackFloor, [Next]_vars PROVE RollbackFloor'
    OBVIOUS
  <2>1. ASSUME NEW p \in Packets, Packet(p) PROVE RollbackFloor'
    BY <2>1, PacketKeepsFloor
  <2>2. CASE ClearMaxVersion
    BY <2>2 DEF ClearMaxVersion, RollbackFloor
  <2>3. CASE ControllerWrite /\ ~ClearMaxVersion
    BY <2>3 DEF ControllerWrite, DeleteRow, InsertRow, WriteCoarse, WriteLastSeen,
       ClearCount, ClearBloom, ClearArmed, ClearBytes, ClearFirstTs,
       registers, RollbackFloor
  <2>4. CASE UNCHANGED vars
    BY <2>4 DEF RollbackFloor, vars, registers
  <2> QED BY <2>1, <2>2, <2>3, <2>4 DEF Next
<1> QED BY <1>1, <1>2, TypeCorrect, PTL DEF Spec

(* No push older than the newest authorised one passes without an ALLOW    *)
(* row, in any interleaving with the controller's writes.                  *)
THEOREM NoStalePass == Spec => PassIsFresh
<1> DEFINE Fresh == \A p \in Packets :
       /\ Packet(p)
       /\ Action(p) = "PASS" /\ BmsPush(p) /\ override[p.flow] # "allow"
       => Src(p) \in Authorized /\ \A v \in accepted[Dst(p)] : v <= p.version
<1>1. TypeOK /\ RollbackFloor => Fresh
  <2> SUFFICES ASSUME TypeOK, RollbackFloor, NEW p \in Packets,
                      Action(p) = "PASS", BmsPush(p), override[p.flow] # "allow"
               PROVE  Src(p) \in Authorized /\ \A v \in accepted[Dst(p)] : v <= p.version
    OBVIOUS
  <2>1. Policy(p) = "PASS"
    BY DEF Action, Overridden
  <2>2. ~R2(p) /\ Fired(p) = {}
    BY <2>1 DEF Policy
  <2>3. ~R6(p)
    BY <2>2 DEF Fired, Rules
  <2>4. Src(p) \in Authorized
    BY <2>2 DEF R2, BmsPush, OtaPush
  <2>5. Dst(p) \in Indexed /\ p.version \in Nat
    BY PacketFields DEF BmsPush
  <2>6. maxVersion[Dst(p)] <= p.version
    BY <2>3, <2>5 DEF R6, TypeOK
  <2> QED BY <2>4, <2>5, <2>6 DEF RollbackFloor, TypeOK
<1>2. Spec => [][Fresh]_vars
  BY <1>1, TypeCorrect, FloorIsHighest, PTL
<1> QED BY <1>2 DEF PassIsFresh
-----------------------------------------------------------------------------
(* The twin's cascade is as unreachable as the pipeline's. *)
LEMMA NoTwinPacketArms ==
  ASSUME NEW p \in Packets
  PROVE  ~Twin!ArmEligible(p)
  BY WidthAssumption DEF Twin!ArmEligible, Twin!R5, Twin!CountNow, Twin!Monitored,
     Twin!R2, Twin!OtaPush, Twin!IsOta, Twin!IsPublish, Twin!Src

(* Classification reads the packet only, so the twin classifies alike. *)
LEMMA SameClass ==
  ASSUME NEW p
  PROVE  /\ Twin!Src(p) = Src(p) /\ Twin!Dst(p) = Dst(p) /\ Twin!Slot(p) = Slot(p)
         /\ Twin!IsSession(p) <=> IsSession(p)
         /\ Twin!IsPublish(p) <=> IsPublish(p)
         /\ Twin!BmsPush(p) <=> BmsPush(p)
         /\ Twin!R2(p) <=> R2(p)
         /\ Twin!Commits(p) <=> Commits(p)
         /\ Twin!Monitored(p) <=> Monitored(p)
  BY DEF Src, Dst, Slot, IsSession, IsPublish, IsOta, OtaPush, BmsPush, R2, Commits,
     Monitored, Twin!Src, Twin!Dst, Twin!Slot, Twin!IsSession, Twin!IsPublish,
     Twin!IsOta, Twin!OtaPush, Twin!BmsPush, Twin!R2, Twin!Commits, Twin!Monitored

(* Where the registers agree, the rules agree on an authorised packet. *)
LEMMA SameRules ==
  ASSUME Agreement, NEW p \in Packets, Src(p) \in Authorized
  PROVE  /\ Twin!R1(p) <=> R1(p)
         /\ Twin!R6(p) <=> R6(p)
         /\ ~R2(p) /\ ~R5(p) /\ ~Twin!R2(p) /\ ~Twin!R5(p)
         /\ PrivateSlot(p) => /\ Twin!BytesNow(p) = BytesNow(p)
                              /\ Twin!R4(p) <=> R4(p)
<1>1. ~R2(p) /\ ~Twin!R2(p)
  BY SameClass DEF R2
<1>2. ~R5(p) /\ ~Twin!R5(p)
  BY <1>1, WidthAssumption DEF R5, CountNow, Monitored, Twin!R5, Twin!CountNow,
     Twin!Monitored
<1>3. Twin!R1(p) <=> R1(p)
  <2>1. Twin!Since(Dst(p)) = Since(Dst(p))
    BY DEF Agreement, Since, Twin!Since
  <2> QED BY <2>1, SameClass DEF R1, Twin!R1
<1>4. Twin!R6(p) <=> R6(p)
  BY SameClass DEF Agreement, R6, Twin!R6
<1>5. ASSUME PrivateSlot(p)
      PROVE  Twin!BytesNow(p) = BytesNow(p) /\ (Twin!R4(p) <=> R4(p))
  <2>1. Slot(p) \in Slots
    BY PacketFields
  <2>2. bytes[Slot(p)] = twinBytes[Slot(p)]
    BY <1>5, <2>1 DEF Agreement, PrivateSlot
  <2>3. Twin!BytesNow(p) = BytesNow(p)
    BY <2>2, SameClass DEF BytesNow, Twin!BytesNow
  <2> QED BY <2>3, SameClass DEF R4, Twin!R4
<1> QED BY <1>1, <1>2, <1>3, <1>4, <1>5

(* An authorised packet reaches both pipelines and leaves them agreeing. *)
LEMMA AuthorizedArrival ==
  ASSUME Agreement, NEW p \in Packets, Src(p) \in Authorized, Packet(p), Twin!Packet(p)
  PROVE  Agreement'
<1>1. lastSeen' = twinLastSeen'
  <2>1. Twin!OddOf(coarse) = OddOf(coarse)
    BY DEF OddOf, Twin!OddOf
  <2> QED BY <2>1, SameClass DEF Packet, Twin!Packet, Agreement
<1>2. maxVersion' = twinMaxVersion'
  BY SameClass, SameRules DEF Packet, Twin!Packet, Agreement
<1>3. armed' = {} /\ twinArmed' = {}
  BY NoPacketArms, NoTwinPacketArms DEF Packet, Twin!Packet, ArmedNow, Twin!ArmedNow,
     Agreement
<1>4. DOMAIN bytes' = Slots /\ DOMAIN twinBytes' = Slots
  BY DEF Packet, Twin!Packet, Agreement
<1>5. ASSUME NEW s \in Slots,
             \A f \in Flows : SlotOf[f] = s => SrcOf[f] \in Authorized
      PROVE  bytes'[s] = twinBytes'[s]
  <2>1. bytes[s] = twinBytes[s]
    BY <1>5 DEF Agreement
  <2>2. s = Slot(p) => PrivateSlot(p)
    BY <1>5 DEF PrivateSlot
  <2>3. s = Slot(p) => Twin!BytesNow(p) = BytesNow(p)
    BY <2>2, SameRules
  <2> QED BY <2>1, <2>3, SameClass DEF Packet, Twin!Packet, Agreement
<1> QED BY <1>1, <1>2, <1>3, <1>4, <1>5 DEF Agreement

(* An unauthorised packet changes nothing that the twin's agreement needs. *)
LEMMA UnauthorizedArrival ==
  ASSUME Agreement, NEW p \in Packets, Src(p) \notin Authorized, Packet(p),
         UNCHANGED twinVars
  PROVE  Agreement'
<1>1. ~Commits(p)
  BY DEF Commits, R2, BmsPush, OtaPush
<1>2. lastSeen' = lastSeen /\ maxVersion' = maxVersion
  BY <1>1 DEF Packet
<1>3. armed' = {}
  BY NoPacketArms DEF Packet, ArmedNow, Agreement
<1>4. DOMAIN bytes' = Slots
  BY DEF Packet, Agreement
<1>5. ASSUME NEW s \in Slots,
             \A f \in Flows : SlotOf[f] = s => SrcOf[f] \in Authorized
      PROVE  bytes'[s] = bytes[s]
  <2>1. s # Slot(p)
    BY <1>5, PacketFields DEF Slot, Src
  <2> QED BY <2>1 DEF Packet, Agreement
<1> QED BY <1>2, <1>3, <1>4, <1>5 DEF Agreement, twinVars

(* The controller writes the same value to both. *)
LEMMA WriteAgrees ==
  ASSUME Agreement, ControllerWriteBoth
  PROVE  Agreement'
<1> USE DEF Agreement, twinVars, registers, Twin!registers
<1>1. ASSUME NEW f \in Flows, DeleteRow(f), UNCHANGED twinVars PROVE Agreement'
  BY <1>1 DEF DeleteRow
<1>2. ASSUME NEW f \in Flows, NEW a \in {"allow", "deny"}, InsertRow(f, a),
             UNCHANGED twinVars PROVE Agreement'
  BY <1>2 DEF InsertRow
<1>3. ASSUME NEW t, WriteCoarse(t), UNCHANGED twinVars PROVE Agreement'
  BY <1>3 DEF WriteCoarse
<1>4. ASSUME NEW t, WriteLastSeen(t), Twin!WriteLastSeen(t) PROVE Agreement'
  BY <1>4 DEF WriteLastSeen, Twin!WriteLastSeen
<1>5. ASSUME NEW i, ClearBloom(i), Twin!ClearBloom(i) PROVE Agreement'
  BY <1>5 DEF ClearBloom, Twin!ClearBloom
<1>6. CASE ClearCount /\ Twin!ClearCount
  BY <1>6 DEF ClearCount, Twin!ClearCount
<1>7. CASE ClearMaxVersion /\ Twin!ClearMaxVersion
  BY <1>7 DEF ClearMaxVersion, Twin!ClearMaxVersion
<1>8. CASE ClearArmed /\ Twin!ClearArmed
  BY <1>8 DEF ClearArmed, Twin!ClearArmed
<1>9. CASE ClearBytes /\ Twin!ClearBytes
  BY <1>9 DEF ClearBytes, Twin!ClearBytes
<1>10. CASE ClearFirstTs /\ Twin!ClearFirstTs
  BY <1>10 DEF ClearFirstTs, Twin!ClearFirstTs
<1> QED
  BY <1>1, <1>2, <1>3, <1>4, <1>5, <1>6, <1>7, <1>8, <1>9, <1>10 DEF ControllerWriteBoth

(* The pipeline and its twin agree for ever. *)
THEOREM TwinsAgree == TwinSpec => []Agreement
<1>1. TwinInit => Agreement
  BY DEF TwinInit, Init, Twin!Init, Agreement
<1>2. Agreement /\ [TwinNext]_allVars => Agreement'
  <2> SUFFICES ASSUME Agreement, [TwinNext]_allVars PROVE Agreement'
    OBVIOUS
  <2>1. ASSUME NEW p \in Packets, Arrival(p) PROVE Agreement'
    BY <2>1, AuthorizedArrival, UnauthorizedArrival DEF Arrival
  <2>2. CASE ControllerWriteBoth
    BY <2>2, WriteAgrees
  <2>3. CASE UNCHANGED allVars
    BY <2>3 DEF allVars, vars, registers, twinVars, Agreement
  <2> QED BY <2>1, <2>2, <2>3 DEF TwinNext
<1> QED BY <1>1, <1>2, PTL DEF TwinSpec

(* R1, R2, R5 and R6 cannot be poisoned. *)
THEOREM RulesNotPoisoned == TwinSpec => []NotPoisoned
<1>1. Agreement => NotPoisoned
  <2> SUFFICES ASSUME Agreement, NEW p \in Packets, Src(p) \in Authorized
               PROVE  Fired(p) \ {"R4"} = Twin!Fired(p) \ {"R4"}
    BY DEF NotPoisoned
  <2> QED BY SameRules DEF Fired, Twin!Fired, Rules, Twin!Rules
<1> QED BY <1>1, TwinsAgree, PTL

(* Nor can the verdict, for a packet that keeps its session slot to itself. *)
THEOREM VerdictNotPoisoned == TwinSpec => []SameVerdict
<1>1. Agreement => SameVerdict
  <2> SUFFICES ASSUME Agreement, NEW p \in Packets, Src(p) \in Authorized, PrivateSlot(p)
               PROVE  /\ Fired(p) = Twin!Fired(p)
                      /\ Action(p) = Twin!Action(p)
                      /\ Digest(p) = Twin!Digest(p)
    BY DEF SameVerdict
  <2>1. Fired(p) = Twin!Fired(p)
    BY SameRules DEF Fired, Twin!Fired, Rules, Twin!Rules
  <2>2. ArmedNow(p) = {} /\ Twin!ArmedNow(p) = {}
    BY NoPacketArms, NoTwinPacketArms DEF ArmedNow, Twin!ArmedNow, Agreement
  <2>3. Policy(p) = Twin!Policy(p)
    BY <2>1, SameRules DEF Policy, Twin!Policy
  <2>4. Action(p) = Twin!Action(p)
    BY <2>2, <2>3 DEF Action, Twin!Action, Overridden, Twin!Overridden
  <2>5. Digest(p) = Twin!Digest(p)
    BY <2>1, <2>4, SameRules, SameClass DEF Digest, Twin!Digest
  <2> QED BY <2>1, <2>4, <2>5
<1> QED BY <1>1, TwinsAgree, PTL
=============================================================================
