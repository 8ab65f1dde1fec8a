------------------------------ MODULE DataPlane ------------------------------
(***************************************************************************)
(* The P4 ingress pipeline (src/p4src): what one packet reads and writes   *)
(* in the stateful registers, which rules fire, the action code that       *)
(* results and the one digest that leaves for the controller.              *)
(*                                                                         *)
(* The pipeline handles a packet as one atomic step (a register is         *)
(* accessed in one MAU stage, so packets are serial on every register).    *)
(* The controller reaches the pipeline only through table and register     *)
(* RPCs; each RPC is an action here, enabled at any time, so what holds of *)
(* this module holds whatever the controller does.                         *)
(*                                                                         *)
(* Only TCP over IPv4 packets are modelled: all others reach no register   *)
(* and no rule.  Addresses are model values, the hashes are constants (so  *)
(* a run may make them collide), byte counts are in multiples of a chunk   *)
(* that divides the 64 KiB unit of R4.                                     *)
(***************************************************************************)
EXTENDS Integers, FiniteSets

CONSTANTS
  Sources, Bms, Flows,      \* addresses; a flow is a TCP 5-tuple
  SrcOf, DstOf,             \* addresses of a flow
  Authorized,               \* keys of r2_authorized_sources
  Indexed,                  \* keys of bms_ip_to_idx (one private index each)
  Packets,                  \* the packets that may arrive
  Slots, SlotOf,            \* session registers, CRC32 of the 5-tuple
  Cells, CellOf,            \* Bloom cells, CellOf[i][b] is hash i of address b
  ArmSlots, ArmSlotOf,      \* hold_armed_reg, CRC16 of the source
  ClockMod,                 \* 2^16: width of r1_last_seen_reg
  R1Interval,               \* R1_MIN_INTERVAL_SEC
  UnitBytes, R4MaxUnits,    \* chunks per 64 KiB unit, R4_MAX_BYTES_UNITS
  BytesMod,                 \* 2^32: width of session_bytes_reg
  R5Threshold,              \* R5_THRESHOLD_CONST
  CountMod,                 \* 2^16: width of r5_count_reg
  OverrideSize              \* size of session_action_override

Protocols == {"mqtt", "modbus", "other"}
PacketType ==
  [flow : Flows, proto : Protocols, publish : BOOLEAN, topic : BOOLEAN,
   magic : BOOLEAN, version : Nat, len : Nat, fin : BOOLEAN]
Rules == {"R1", "R2", "R4", "R5", "R6"}
Hashes == 1..3

ASSUME TrafficAssumption ==
  /\ SrcOf \in [Flows -> Sources] /\ DstOf \in [Flows -> Bms]
  /\ Authorized \subseteq Sources /\ Indexed \subseteq Bms
  /\ Packets \subseteq PacketType
ASSUME HashAssumption ==
  /\ SlotOf \in [Flows -> Slots]
  /\ CellOf \in [Hashes -> [Bms -> Cells]]
  /\ ArmSlotOf \in [Sources -> ArmSlots]
ASSUME WidthAssumption ==
  /\ {ClockMod, R1Interval, UnitBytes, BytesMod, CountMod} \subseteq Nat \ {0}
  /\ ClockMod % 2 = 0
  /\ {R4MaxUnits, R5Threshold, OverrideSize} \subseteq Nat

VARIABLES
  coarse,      \* coarse_time_reg[15:0]
  lastSeen,    \* r1_last_seen_reg, by BMS index
  maxVersion,  \* r6_bms_max_version_reg, by BMS index
  bytes,       \* session_bytes_reg
  opened,      \* slots whose session_first_ts_reg is not zero
  bloom,       \* bf_r0..bf_r2: the cells that hold 1
  count,       \* r5_count_reg
  armed,       \* slots of hold_armed_reg that hold 1
  override,    \* session_action_override: "none" is no row
  accepted     \* history: versions authorised sources pushed since R6 was cleared

registers == <<lastSeen, maxVersion, bytes, opened, bloom, count, armed>>
vars == <<coarse, registers, override, accepted>>

-----------------------------------------------------------------------------
(* Classification: the parser and steps 3-6 of the apply block.            *)

Src(p) == SrcOf[p.flow]
Dst(p) == DstOf[p.flow]
Slot(p) == SlotOf[p.flow]

IsSession(p) == p.proto \in {"mqtt", "modbus"}
IsPublish(p) == p.proto = "mqtt" /\ p.publish
IsOta(p)     == IsPublish(p) /\ p.topic
OtaPush(p)   == IsOta(p) /\ p.magic
BmsPush(p)   == OtaPush(p) /\ Dst(p) \in Indexed

(* Rule R2, authorised sources. *)
R2(p) == IsOta(p) /\ Src(p) \notin Authorized

(* Rule R1: time since the slot was written, in ClockMod arithmetic. *)
Since(b) == IF coarse >= lastSeen[b] THEN coarse - lastSeen[b]
                                     ELSE coarse - lastSeen[b] + ClockMod
OddOfAlways(t) == t + 1                              \* mutant of OddOf
OddOf(t) == IF t % 2 = 0 THEN t + 1 ELSE t
R1(p) == BmsPush(p) /\ Since(Dst(p)) < R1Interval

(* Rule R4: payload bytes of the session, upper half-word compared. *)
BytesNow(p) == (bytes[Slot(p)] + p.len) % BytesMod
R4(p) == IsSession(p) /\ BytesNow(p) \div UnitBytes > R4MaxUnits

(* Only pushes that R2 lets through may write the R1 and R6 registers. *)
CommitsUngated(p) == BmsPush(p)                      \* mutant of Commits
Commits(p) == BmsPush(p) /\ ~R2(p)

(* Rule R6: version below the highest an authorised source has pushed. *)
R6(p) == BmsPush(p) /\ p.version < maxVersion[Dst(p)]

(* Rule R5: distinct targets of unauthorised pushes. *)
Monitored(p) == OtaPush(p) /\ R2(p)
AllHit(p) == \A i \in Hashes : CellOf[i][Dst(p)] \in bloom[i]
CountNow(p) ==
  IF ~Monitored(p) THEN 0 ELSE IF AllHit(p) THEN count ELSE (count + 1) % CountMod
R5(p) == CountNow(p) > R5Threshold

Fired(p) ==
  LET fires == [R1 |-> R1(p), R2 |-> R2(p), R4 |-> R4(p), R5 |-> R5(p), R6 |-> R6(p)]
  IN  {r \in Rules : fires[r]}

-----------------------------------------------------------------------------
(* Verdict: policy engine, override table, hold_armed_reg, digest.         *)

PolicyWithoutR6(p) ==                                \* mutant of Policy
  IF R2(p) THEN "DROP" ELSE IF Fired(p) \ {"R6"} # {} THEN "HOLD" ELSE "PASS"
Policy(p) == IF R2(p) THEN "DROP" ELSE IF Fired(p) # {} THEN "HOLD" ELSE "PASS"
ArmEligibleUngated(p) == R5(p)                       \* mutant of ArmEligible
ArmEligible(p) == ~R2(p) /\ R5(p)

Overridden(p) == CASE override[p.flow] = "deny"  -> "DROP"
                   [] override[p.flow] = "allow" -> "PASS"
                   [] OTHER -> Policy(p)
ArmedNow(p) == IF ArmEligible(p) THEN armed \cup {ArmSlotOf[Src(p)]} ELSE armed
Action(p) == IF ArmSlotOf[Src(p)] \in ArmedNow(p) THEN "DROP" ELSE Overridden(p)

Digest(p) ==
  IF Action(p) # "PASS" THEN "hold"
  ELSE IF R5(p) THEN "r5"
  ELSE IF {"R1", "R2", "R4"} \cap Fired(p) # {} THEN "rule"
  ELSE IF p.fin /\ IsSession(p) THEN "session"
  ELSE IF IsPublish(p) THEN "mqtt"
  ELSE IF IsSession(p) THEN "classify" ELSE "none"

-----------------------------------------------------------------------------
(* A packet.                                                               *)

Packet(p) ==
  /\ lastSeen' = IF Commits(p) THEN [lastSeen EXCEPT ![Dst(p)] = OddOf(coarse)]
                               ELSE lastSeen
  /\ maxVersion' = IF Commits(p) /\ ~R6(p)
                   THEN [maxVersion EXCEPT ![Dst(p)] = p.version]
                   ELSE maxVersion
  /\ accepted' = IF BmsPush(p) /\ Src(p) \in Authorized
                 THEN [accepted EXCEPT ![Dst(p)] = @ \cup {p.version}]
                 ELSE accepted
  /\ bytes' = IF IsSession(p)
              THEN [bytes EXCEPT ![Slot(p)] = IF p.fin THEN 0 ELSE BytesNow(p)]
              ELSE bytes
  /\ opened' = IF ~IsSession(p) THEN opened
               ELSE IF p.fin THEN opened \ {Slot(p)} ELSE opened \cup {Slot(p)}
  /\ bloom' = IF Monitored(p)
              THEN [i \in Hashes |-> bloom[i] \cup {CellOf[i][Dst(p)]}]
              ELSE bloom
  /\ count' = IF Monitored(p) THEN CountNow(p) ELSE count
  /\ armed' = ArmedNow(p)
  /\ UNCHANGED <<coarse, override>>

-----------------------------------------------------------------------------
(* What the controller's RPCs write, one RPC an action.                    *)

Rows == {f \in Flows : override[f] # "none"}

InsertRow(f, a) ==
  /\ override[f] = "none"
  /\ Cardinality(Rows) < OverrideSize
  /\ override' = [override EXCEPT ![f] = a]
  /\ UNCHANGED <<coarse, registers, accepted>>

DeleteRow(f) ==
  /\ override[f] # "none"
  /\ override' = [override EXCEPT ![f] = "none"]
  /\ UNCHANGED <<coarse, registers, accepted>>

WriteCoarse(t) ==
  /\ coarse' = t
  /\ UNCHANGED <<registers, override, accepted>>

WriteLastSeen(t) ==
  /\ lastSeen' = [b \in Indexed |-> t]
  /\ UNCHANGED <<coarse, maxVersion, bytes, opened, bloom, count, armed,
                 override, accepted>>

ClearCount ==
  /\ count' = 0
  /\ UNCHANGED <<coarse, lastSeen, maxVersion, bytes, opened, bloom, armed,
                 override, accepted>>

ClearBloom(i) ==
  /\ bloom' = [bloom EXCEPT ![i] = {}]
  /\ UNCHANGED <<coarse, lastSeen, maxVersion, bytes, opened, count, armed,
                 override, accepted>>

ClearMaxVersion ==
  /\ maxVersion' = [b \in Indexed |-> 0]
  /\ accepted' = [b \in Indexed |-> {}]
  /\ UNCHANGED <<coarse, lastSeen, bytes, opened, bloom, count, armed,
                 override>>

ClearArmed ==
  /\ armed' = {}
  /\ UNCHANGED <<coarse, lastSeen, maxVersion, bytes, opened, bloom, count,
                 override, accepted>>

ClearBytes ==
  /\ bytes' = [s \in Slots |-> 0]
  /\ UNCHANGED <<coarse, lastSeen, maxVersion, opened, bloom, count, armed,
                 override, accepted>>

ClearFirstTs ==
  /\ opened' = {}
  /\ UNCHANGED <<coarse, lastSeen, maxVersion, bytes, bloom, count, armed,
                 override, accepted>>

-----------------------------------------------------------------------------
(* The controller has seeded lastSeen and cleared the rest before traffic. *)
Init ==
  /\ coarse \in 0..(ClockMod - 1)
  /\ lastSeen = [b \in Indexed |-> (coarse + ClockMod \div 2) % ClockMod]
  /\ maxVersion = [b \in Indexed |-> 0]
  /\ bytes = [s \in Slots |-> 0]
  /\ opened = {}
  /\ bloom = [i \in Hashes |-> {}]
  /\ count = 0
  /\ armed = {}
  /\ override = [f \in Flows |-> "none"]
  /\ accepted = [b \in Indexed |-> {}]

ControllerWrite ==
  \/ \E f \in Flows : DeleteRow(f) \/ \E a \in {"allow", "deny"} : InsertRow(f, a)
  \/ \E t \in 0..(ClockMod - 1) : WriteCoarse(t) \/ WriteLastSeen(t)
  \/ ClearCount
  \/ \E i \in Hashes : ClearBloom(i)
  \/ ClearMaxVersion
  \/ ClearArmed
  \/ ClearBytes
  \/ ClearFirstTs

Next == (\E p \in Packets : Packet(p)) \/ ControllerWrite

Spec == Init /\ [][Next]_vars

-----------------------------------------------------------------------------
(* The registers and tables hold values of their width. *)
TypeOK ==
  /\ coarse \in 0..(ClockMod - 1)
  /\ lastSeen \in [Indexed -> 0..(ClockMod - 1)]
  /\ maxVersion \in [Indexed -> Nat]
  /\ bytes \in [Slots -> 0..(BytesMod - 1)]
  /\ opened \subseteq Slots
  /\ bloom \in [Hashes -> SUBSET Cells]
  /\ count \in 0..(CountMod - 1)
  /\ armed \subseteq ArmSlots
  /\ override \in [Flows -> {"none", "allow", "deny"}]
  /\ accepted \in [Indexed -> SUBSET Nat]

(* hold_armed_reg is never armed: R5 counts only unauthorised pushes, R2   *)
(* has then fired too, and R2 beats R5 in the policy engine, so            *)
(* set_hold_arm is out of reach and no packet is dropped on its account.   *)
NeverArmed == armed = {}

(* "Once any packet from a source arms the register (action_code==1,       *)
(* HOLD), ALL subsequent data-plane packets from that source are           *)
(* force-dropped before the controller's RAT arbiter is reached"           *)
(* (experiments/run_e22.py): when a packet is held, the next one of its    *)
(* source is dropped, whichever it is.                                     *)
HoldCascade ==
  [][\A p \in Packets : Packet(p) /\ Action(p) = "HOLD" =>
       \A q \in Packets : Src(q) = Src(p) => Action(q)' = "DROP"]_vars

(* The R6 register is exactly the highest version an authorised source has *)
(* pushed to that BMS since it was cleared: packets of unauthorised        *)
(* sources do not raise it and rollbacks do not lower it.                  *)
RollbackFloor ==
  \A b \in Indexed :
    /\ \A v \in accepted[b] : v <= maxVersion[b]
    /\ maxVersion[b] \in accepted[b] \cup {0}

(* A push that passes without an ALLOW row comes from an authorised source *)
(* and is no older than anything an authorised source has pushed to that   *)
(* BMS since R6 was cleared.                                               *)
PassIsFresh ==
  [][\A p \in Packets :
       /\ Packet(p)
       /\ Action(p) = "PASS" /\ BmsPush(p) /\ override[p.flow] # "allow"
       => Src(p) \in Authorized /\ \A v \in accepted[Dst(p)] : v <= p.version]_vars
=============================================================================
