----------------------------- MODULE TestbedProofs -----------------------------
(***************************************************************************)
(* What holds of a trial whatever script is played, whatever the phases of *)
(* the controller's threads and however long it takes to decide.           *)
(***************************************************************************)
EXTENDS Testbed, TLAPS

(* The inductive invariant, in parts.  First what the variables hold.      *)
Verdicts == {"PASS", "HOLD", "DROP"}
Reasons == {"terminal_fire", "rat_disabled_ablation", "rat_miss", "rat_match", "rat_max_concurrent",
            "rat_rollback_match", "rat_rollback_max_concurrent"}
Event == [at : Nat, flow : Nat \X Nat \X Nat, label : STRING, item : Nat, act : Verdicts,
          rules : SUBSET P!Rules, parsed : BOOLEAN]
Digest == [flow : Flows, code : Verdicts, rules : SUBSET P!Rules, size : Nat, version : Nat,
           item : Nat, at : Nat]
Decision == [at : Nat, flow : Flows, item : Nat, decision : {"PASS", "DROP"}, reason : Reasons]
Detector == [last : [Bms -> Int], max : [Bms -> Nat], bytes : [Flows -> Nat],
             targets : SUBSET Bms, start : Int]
Chosen ==
  /\ setup \in [script : DOMAIN Scripts, base : Nat, clock : Nat, window : Nat,
                reseed : Nat, latency : Nat]
  /\ setup.latency <= SlowestDecision
  /\ now \in Nat /\ due \in Nat /\ pos \in 1..(Len(Script.items) + 1)
Typed ==
  /\ Chosen /\ P!TypeOK
  /\ truth \in Seq(Event) /\ judged \in Seq(Verdicts) /\ Len(judged) = Len(truth)
  /\ queue \in Seq(Digest) /\ log \in Seq(Decision) /\ Len(log) + Len(queue) <= pos - 1
  /\ slots \subseteq [id : Nat, rollout : STRING, flow : Flows, due : Nat]
  /\ heap \subseteq [flow : Flows, due : Nat]
  /\ cpu \in Detector

(* Events, digests and decisions are of items that were played.            *)
Played(n) == n \in 1..(pos - 1)
TracedEvent(e) ==
  LET item == Script.items[e.item] IN
  /\ Played(e.item) /\ e.at <= now
  /\ e.flow = FlowOf(item) /\ e.label = item.label
  /\ item.kind \in {"push", "marker"} /\ (e.parsed => item.kind = "push")
TracedDigest(e) ==
  LET item == Script.items[e.item] IN
  /\ Played(e.item) /\ OnTheWire(item) /\ e.flow = FlowOf(item)
  /\ e.at <= now /\ now <= e.at + setup.latency
  /\ Rested(Script.items, e.item, pos) => e.at + RolloutPause <= due
Events == \A j \in 1..Len(truth) : TracedEvent(truth[j])
Digests ==
  /\ \A j \in 1..Len(queue) : TracedDigest(queue[j])
  /\ \A j, k \in 1..Len(queue) : j < k => queue[j].at <= queue[k].at
Decisions == \A j \in 1..Len(log) : Played(log[j].item)
Traced == Events /\ Digests /\ Decisions

(* The clock register is the one the threads last wrote; nothing is armed. *)
Clocked == coarse = CoarseAt(now) /\ armed = {}

(* Under a manifest without a window everything is denied.                 *)
Denying ==
  Script.stopped => /\ \A f \in Flows : override[f] # "allow"
                    /\ \A j \in 1..Len(log) : log[j].decision = "DROP"

(* A row, or bytes, of a flow come from a packet of it, and a row is gone  *)
(* when a port is used for the second time.                                *)
Before(f) == {m \in 1..(pos - 1) : OnTheWire(Script.items[m]) /\ FlowOf(Script.items[m]) = f}
CountedFlow(f) ==
  /\ Before(f) = {} => bytes[f] = 0 /\ cpu.bytes[f] = 0
  /\ \A m \in Before(f) : Before(f) = {m} /\ Small(Script.items[m]) =>
       bytes[f] <= MIB /\ cpu.bytes[f] <= MIB
Counted == \A f \in Flows : CountedFlow(f)
TracedRow(h) ==
  /\ now < h.due /\ h.due <= now + 5000
  /\ \E m \in Before(h.flow) :
       Rested(Script.items, m, pos) => h.due + RolloutPause <= due + setup.latency + 5000
Rows ==
  /\ \A f \in Flows : override[f] # "none" => \E h \in heap : h.flow = f
  /\ \A h \in heap : TracedRow(h)
Ported == Counted /\ Rows

(* The pushes that count for a BMS: what R6 and R1 remember of them.       *)
Marks(b) == {j \in 1..Len(truth) : /\ truth[j].flow[2] = b /\ truth[j].flow[1] # ATTACK_SRC
                                   /\ truth[j].parsed /\ ~Wiped(truth[j].item, pos)}
Floor(b) == \A j \in Marks(b) : Script.items[truth[j].item].version <= maxVersion[b]
Current(j) == ReseedRun(now) <= truth[j].at
Stamp(b) == (\E j \in Marks(b) : Current(j)) =>
  \E k \in Marks(b) : Current(k) /\ lastSeen[b] = P!OddOf(CoarseAt(truth[k].at))
Remembering == \A b \in Known : Floor(b) /\ Stamp(b)

(* The CPU detector remembers the same of a BMS, or more when the switch   *)
(* has missed the header of a push to it, as long as nothing was reset.    *)
Seeding(t) == IF ReseedRun(t) > 0 THEN ReseedRun(t) ELSE 0
Unreset(n) == \A k \in 1..n : Script.items[k].kind # "reset"
Misses(e, b) == e.flow[2] = b /\ e.flow[1] \in Authorized /\ ~e.parsed
Lost(b) == \E j \in 1..Len(truth) : Misses(truth[j], b)
Twin(b) ==
  /\ maxVersion[b] <= cpu.max[b] /\ (Lost(b) \/ cpu.max[b] = maxVersion[b])
  /\ Marks(b) = {} => lastSeen[b] = SeedOf(Seeding(now)) /\ (Lost(b) \/ cpu.last[b] = O!NotSeen)
  /\ Marks(b) # {} => \E k \in Marks(b) : truth[k].at <= cpu.last[b]
Twinned == Unreset(pos - 1) => \A b \in Known : Twin(b)

(* The properties, of every event.                                         *)
Stopped(i) == Script.stopped /\ truth[i].label = "ATTACK" /\ Visible(i) => truth[i].act # "PASS"
AsLabelled(i) ==
  LET scen == Script.items[truth[i].item].scen IN
  /\ scen = "e18_parsed" => truth[i].parsed
  /\ scen = "e18_parser_miss" => ~truth[i].parsed
Agrees(i) ==
  LET item == Script.items[truth[i].item] IN
  (item.kind = "push" /\ Unreset(truth[i].item)) =>
    /\ item.src = ATTACK_SRC => judged[i] = truth[i].act
    /\ item.src # ATTACK_SRC /\ ~R1Differs(i) =>
         /\ Missed(i) \/ judged[i] = truth[i].act
         /\ judged[i] = "PASS" => truth[i].act = "PASS"
Sound == \A i \in 1..Len(truth) : Stopped(i) /\ AsLabelled(i) /\ Agrees(i)

-----------------------------------------------------------------------------
(* What the assumptions say of the script that is played.                  *)
LEMMA ScriptGiven ==
  ASSUME Chosen
  PROVE  /\ ItemsAssumption(Script.items)
         /\ \A n \in 1..Len(Script.rat) : Script.rat[n].rollout \in STRING
         /\ Script.stopped => \A n \in 1..Len(Script.rat) : Script.rat[n].window = {}
  BY ScriptAssumption DEF Chosen, Script

LEMMA ItemGiven ==
  ASSUME Chosen, NEW n \in 1..Len(Script.items)
  PROVE  LET item == Script.items[n] IN
         /\ item \in ItemType
         /\ OnTheWire(item) => FlowOf(item) \in Flows
         /\ item.kind = "push" => Small(item) /\ FreshPort(Script.items, n)
         /\ item.label = "ATTACK" => item.kind = "push"
         /\ item.scen \in {"e18_parsed", "e18_parser_miss"} => E18Event(item)
  BY ScriptGiven DEF ItemsAssumption

(* A flow is a source, a BMS and a port. *)
LEMMA FlowGiven ==
  ASSUME NEW f \in Flows
  PROVE  /\ f \in Nat \X Nat \X Nat /\ f[1] \in Sources /\ f[2] \in Bms
         /\ SrcOf[f] = f[1] /\ DstOf[f] = f[2] /\ OneEach[f] = f
         /\ (f[1] \in Authorized <=> f[1] # ATTACK_SRC)
<1>1. f \in Sources \X Nat \X Nat
  BY HostAssumption
<1>2. Sources \subseteq Nat
  BY DEF Sources, AUTH_SRC, SECOND_SRC, ATTACK_SRC
<1>3. f[1] \in Authorized <=> f[1] # ATTACK_SRC
  BY <1>1 DEF Sources, Authorized, AUTH_SRC, SECOND_SRC, ATTACK_SRC
<1> QED BY <1>1, <1>2, <1>3 DEF Bms, SrcOf, DstOf, OneEach

-----------------------------------------------------------------------------
(* The thread that seeds the slots: it last ran no earlier at a later time. *)
LEMMA RunsLater ==
  ASSUME NEW t \in Nat, NEW u \in Nat, NEW phase \in Nat, t <= u
  PROVE  /\ LastRun(t, phase, 3600000) <= LastRun(u, phase, 3600000)
         /\ LastRun(u, phase, 3600000) <= t =>
              LastRun(u, phase, 3600000) = LastRun(t, phase, 3600000)
  BY SMT DEF LastRun

(* The threads of this trial. *)
LEMMA ThreadRuns ==
  ASSUME Chosen, NEW t \in Nat
  PROVE  /\ ClockRun(t) \in Int /\ ClockRun(t) <= t /\ t - 1000 < ClockRun(t)
         /\ ReseedRun(t) \in Int /\ ReseedRun(t) <= t /\ t - 3600000 < ReseedRun(t)
<1>1. PICK c \in Nat, r \in Nat : c = setup.clock /\ r = setup.reseed
  BY DEF Chosen
<1>2. ClockRun(t) = LastRun(t, c, 1000) /\ ReseedRun(t) = LastRun(t, r, 3600000)
  BY ONLY <1>1, SMT DEF ClockRun, ReseedRun
<1> QED BY ONLY <1>2, t \in Nat, SMT DEF LastRun

(* A second of the clock has 16 bits, the mark of a push one more or not.  *)
LEMMA ClockWidth ==
  ASSUME Chosen, NEW t \in Int
  PROVE  Second(t) \in 0..(Bits16 - 1) /\ SeedOf(t) \in 0..(Bits16 - 1)
<1>1. setup.base + t \div 1000 \in Int /\ Bits16 \in Nat \ {0}
  BY SMT DEF Chosen, Bits16
<1>2. Second(t) \in 0..(Bits16 - 1)
  BY ONLY <1>1, SMT DEF Second
<1>3. Second(t) + Bits16 \div 2 \in Int
  BY ONLY <1>1, <1>2, SMT
<1>4. SeedOf(t) \in 0..(Bits16 - 1)
  BY ONLY <1>1, <1>3, SMT DEF SeedOf
<1> QED BY <1>2, <1>4

(* The clock register holds a second read at most a second ago.            *)
LEMMA ClockRead ==
  ASSUME Chosen, NEW t \in Nat
  PROVE  \E u \in Int : u <= t /\ t - 1000 < u /\ CoarseAt(t) = Second(u)
<1> DEFINE u == IF ReseedRun(t) > ClockRun(t) THEN ReseedRun(t) ELSE ClockRun(t)
<1>1. u \in Int /\ u <= t /\ t - 1000 < u
  BY ONLY ThreadRuns, Chosen, t \in Nat, SMT
<1>2. CoarseAt(t) = Second(u)
  BY Zenon DEF CoarseAt
<1> QED BY ONLY <1>1, <1>2, SMT

(* R1's distance from a mark two seconds old, before the next seeding.     *)
Distance(c, l) == IF c >= l THEN c - l ELSE c - l + Bits16
LEMMA MarkNear ==
  ASSUME Chosen, NEW t \in Nat, NEW u \in Nat, u - t >= 2000, ReseedRun(u) <= t
  PROVE  Distance(CoarseAt(u), P!OddOf(CoarseAt(t))) < 14400
<1>1. PICK x \in Int : x <= t /\ t - 1000 < x /\ CoarseAt(t) = Second(x)
  BY ONLY ClockRead, Chosen, t \in Nat, SMT
<1>2. PICK y \in Int : y <= u /\ u - 1000 < y /\ CoarseAt(u) = Second(y)
  BY ONLY ClockRead, Chosen, u \in Nat, SMT
<1>3. u - 3600000 < t
  BY ONLY ThreadRuns, Chosen, t \in Nat, u \in Nat, ReseedRun(u) <= t, SMT
<1> DEFINE a == setup.base + x \div 1000
           b == setup.base + y \div 1000
<1>4. setup.base \in Nat
  BY DEF Chosen
<1>5. a \in Int /\ b \in Int /\ a + 1 <= b /\ b <= a + 3602
  BY ONLY <1>1, <1>2, <1>3, <1>4, t \in Nat, u \in Nat, u - t >= 2000, SMT
<1>6. Second(x) = a % 65536 /\ Second(y) = b % 65536
  BY SMT DEF Second, Bits16
<1> HIDE DEF a, b
<1> QED BY ONLY <1>1, <1>2, <1>5, <1>6, SMT DEF Distance, P!OddOf, Bits16

(* R1's distance from a seed, until the slots are seeded anew.             *)
LEMMA SeedFar ==
  ASSUME Chosen, NEW t \in Nat
  PROVE  Distance(CoarseAt(t), SeedOf(Seeding(t))) >= 14400
<1>1. PICK x \in Int : x <= t /\ t - 1000 < x /\ CoarseAt(t) = Second(x)
  BY ONLY ClockRead, Chosen, t \in Nat, SMT
<1>2. PICK z \in Nat : z = Seeding(t) /\ z <= t /\ t - 3600000 < z
  BY ONLY ThreadRuns, Chosen, t \in Nat, SMT DEF Seeding
<1> DEFINE a == setup.base + x \div 1000
           b == setup.base + z \div 1000
<1>3. setup.base \in Nat
  BY DEF Chosen
<1>4. a \in Int /\ b \in Int /\ b - 1 <= a /\ a <= b + 3601
  BY ONLY <1>1, <1>2, <1>3, t \in Nat, SMT
<1>5. Second(x) = a % 65536 /\ SeedOf(z) = ((b % 65536) + 32768) % 65536
  BY SMT DEF Second, SeedOf, Bits16
<1> HIDE DEF a, b
<1> QED BY ONLY <1>1, <1>2, <1>4, <1>5, SMT DEF Distance, Bits16

-----------------------------------------------------------------------------
(* What the pipeline makes of an item: only a push whose header is where   *)
(* the parser looks is an OTA push.                                        *)
HeaderRead(item) == item.kind = "push" /\ SentAt(item.form) = ReadAt(item.form)
LEMMA Parsed ==
  ASSUME NEW item \in ItemType, FlowOf(item) \in Flows, NEW p, p = Parse(item)
  PROVE  /\ p.flow = FlowOf(item) /\ p.version = item.version /\ p.len = item.len
         /\ p.fin = FALSE /\ p.proto = "mqtt"
         /\ (p.publish <=> item.kind = "push") /\ (p.topic <=> item.kind = "push")
         /\ (p.magic <=> HeaderRead(item))
  BY DEF Parse, HeaderRead

LEMMA PacketClass ==
  ASSUME NEW item \in ItemType, FlowOf(item) \in Flows, NEW p, p = Parse(item)
  PROVE  /\ P!Src(p) = item.src /\ P!Dst(p) = item.bms /\ P!Slot(p) = FlowOf(item)
         /\ item.src \in Sources /\ item.bms \in Bms
         /\ P!IsSession(p) /\ (P!IsOta(p) <=> item.kind = "push")
         /\ (P!OtaPush(p) <=> HeaderRead(item))
         /\ (P!BmsPush(p) <=> HeaderRead(item) /\ item.bms \in Known)
         /\ (P!R2(p) <=> item.kind = "push" /\ item.src = ATTACK_SRC)
         /\ (P!Commits(p) <=> P!BmsPush(p) /\ item.src # ATTACK_SRC)
         /\ (P!Monitored(p) <=> HeaderRead(item) /\ item.src = ATTACK_SRC)
<1>1. /\ p.flow = FlowOf(item) /\ p.proto = "mqtt"
      /\ (p.publish <=> item.kind = "push") /\ (p.topic <=> item.kind = "push")
      /\ (p.magic <=> HeaderRead(item))
  BY Parsed
<1>2. FlowOf(item)[1] = item.src /\ FlowOf(item)[2] = item.bms
  BY DEF FlowOf
<1>3. /\ item.src \in Sources /\ item.bms \in Bms
      /\ P!Src(p) = item.src /\ P!Dst(p) = item.bms /\ P!Slot(p) = FlowOf(item)
      /\ (item.src \in Authorized <=> item.src # ATTACK_SRC)
  BY <1>1, <1>2, FlowGiven DEF P!Src, P!Dst, P!Slot
<1>4. HeaderRead(item) => item.kind = "push"
  BY DEF HeaderRead
<1>5. P!IsSession(p) /\ (P!IsOta(p) <=> item.kind = "push")
  BY <1>1 DEF P!IsSession, P!IsOta, P!IsPublish
<1>6. /\ P!OtaPush(p) <=> HeaderRead(item)
      /\ P!BmsPush(p) <=> HeaderRead(item) /\ item.bms \in Known
  BY <1>1, <1>3, <1>4, <1>5 DEF P!OtaPush, P!BmsPush
<1>7. P!R2(p) <=> item.kind = "push" /\ item.src = ATTACK_SRC
  BY <1>3, <1>5 DEF P!R2
<1> QED BY <1>3, <1>4, <1>5, <1>6, <1>7 DEF P!Commits, P!Monitored

(* Only a push of a rogue source counts for R5, so nothing is ever armed.  *)
LEMMA Unarmed ==
  ASSUME NEW item \in ItemType, FlowOf(item) \in Flows, NEW p, p = Parse(item)
  PROVE  /\ ~P!ArmEligible(p)
         /\ item.src # ATTACK_SRC => ~P!R2(p) /\ ~P!R5(p)
<1>1. ~P!Monitored(p) => ~P!R5(p)
  BY SMT DEF P!R5, P!CountNow
<1>2. P!Monitored(p) => P!R2(p)
  BY DEF P!Monitored
<1> QED BY <1>1, <1>2, PacketClass DEF P!ArmEligible

(* What a packet writes. *)
LEMMA PacketWrites ==
  ASSUME NEW item \in ItemType, FlowOf(item) \in Flows, NEW p, p = Parse(item),
         P!Packet(p)
  PROVE  /\ armed' = armed /\ coarse' = coarse /\ override' = override
         /\ P!Commits(p) => lastSeen' = [lastSeen EXCEPT ![item.bms] = P!OddOf(coarse)]
         /\ ~P!Commits(p) => lastSeen' = lastSeen
         /\ P!Commits(p) /\ ~P!R6(p) => maxVersion' = [maxVersion EXCEPT ![item.bms] = item.version]
         /\ ~P!Commits(p) \/ P!R6(p) => maxVersion' = maxVersion
         /\ bytes' = [bytes EXCEPT ![FlowOf(item)] = P!BytesNow(p)]
<1>1. /\ P!Dst(p) = item.bms /\ P!Slot(p) = FlowOf(item) /\ P!IsSession(p)
      /\ p.fin = FALSE /\ p.version = item.version /\ ~P!ArmEligible(p)
  <2>1. P!Dst(p) = item.bms /\ P!Slot(p) = FlowOf(item) /\ P!IsSession(p)
    BY PacketClass
  <2>2. p.fin = FALSE /\ p.version = item.version
    BY Parsed
  <2>3. ~P!ArmEligible(p)
    BY Unarmed
  <2> QED BY <2>1, <2>2, <2>3
<1>2. armed' = armed /\ coarse' = coarse /\ override' = override
  BY <1>1 DEF P!Packet, P!ArmedNow
<1>3. /\ P!Commits(p) => lastSeen' = [lastSeen EXCEPT ![item.bms] = P!OddOf(coarse)]
      /\ ~P!Commits(p) => lastSeen' = lastSeen
  BY <1>1 DEF P!Packet
<1>4. /\ P!Commits(p) /\ ~P!R6(p) => maxVersion' = [maxVersion EXCEPT ![item.bms] = item.version]
      /\ ~P!Commits(p) \/ P!R6(p) => maxVersion' = maxVersion
  BY <1>1 DEF P!Packet
<1>5. bytes' = [bytes EXCEPT ![FlowOf(item)] = P!BytesNow(p)]
  BY <1>1 DEF P!Packet
<1> QED BY <1>2, <1>3, <1>4, <1>5

(* A packet keeps every register within its width. *)
LEMMA Widths ==
  /\ Bits16 \in Nat \ {0} /\ Bits30 \in Nat \ {0} /\ Bits16 % 2 = 0
  /\ Bits16 > 14400 /\ Bits30 > 2 * MIB /\ Bits16 \div 2 \in Nat
  BY SMT DEF Bits16, Bits30, MIB

LEMMA Below ==
  ASSUME NEW a \in Nat, NEW m \in Nat \ {0}
  PROVE  a % m \in 0..(m - 1)
  OBVIOUS

LEMMA PipelineTyped ==
  ASSUME NEW item \in ItemType, FlowOf(item) \in Flows, NEW p, p = Parse(item),
         P!Packet(p), P!TypeOK
  PROVE  P!TypeOK'
<1>1. /\ P!Dst(p) = item.bms /\ P!Slot(p) = FlowOf(item) /\ item.bms \in Bms
      /\ p.len \in Nat /\ p.version \in Nat
  <2>1. P!Dst(p) = item.bms /\ P!Slot(p) = FlowOf(item) /\ item.bms \in Bms
    BY PacketClass
  <2>2. p.len \in Nat /\ p.version \in Nat
    BY Parsed DEF ItemType
  <2> QED BY <2>1, <2>2
<1>2. P!BmsPush(p) \/ P!Commits(p) => item.bms \in Known
  BY PacketClass
<1>3. lastSeen' \in [Known -> 0..(Bits16 - 1)]
  <2>1. coarse \in 0..(Bits16 - 1) /\ lastSeen \in [Known -> 0..(Bits16 - 1)]
    BY DEF P!TypeOK
  <2>2. P!OddOf(coarse) \in 0..(Bits16 - 1)
    BY ONLY <2>1, Widths, SMT DEF P!OddOf
  <2>3. lastSeen' = [lastSeen EXCEPT ![item.bms] = P!OddOf(coarse)] \/ lastSeen' = lastSeen
    BY PacketWrites
  <2> QED BY <2>1, <2>2, <2>3
<1>4. accepted' \in [Known -> SUBSET Nat]
  BY <1>1, <1>2 DEF P!TypeOK, P!Packet
<1>5. maxVersion' \in [Known -> Nat]
  BY <1>1, <1>2 DEF P!TypeOK, P!Packet
<1>6. bytes' \in [Flows -> 0..(Bits30 - 1)]
  <2>1. bytes \in [Flows -> 0..(Bits30 - 1)]
    BY DEF P!TypeOK
  <2>2. bytes[FlowOf(item)] \in Nat
    BY <2>1
  <2>3. P!BytesNow(p) = (bytes[FlowOf(item)] + p.len) % Bits30
    BY <1>1 DEF P!BytesNow
  <2>4. bytes[FlowOf(item)] + p.len \in Nat /\ Bits30 \in Nat \ {0}
    BY ONLY <1>1, <2>2, Widths, SMT
  <2>5. P!BytesNow(p) \in 0..(Bits30 - 1)
    BY ONLY <2>3, <2>4, Below, SMT
  <2>6. bytes' = [bytes EXCEPT ![FlowOf(item)] = P!BytesNow(p)]
    BY PacketWrites
  <2> QED BY <2>1, <2>5, <2>6
<1>7. opened' \subseteq Flows
  BY <1>1 DEF P!TypeOK, P!Packet
<1>8. bloom' \in [P!Hashes -> SUBSET Bms]
  <2>1. \A i \in P!Hashes : OwnCells[i][P!Dst(p)] \in Bms
    BY <1>1 DEF OwnCells, P!Hashes
  <2>2. bloom \in [P!Hashes -> SUBSET Bms]
    BY DEF P!TypeOK
  <2>3. \/ bloom' = [i \in P!Hashes |-> bloom[i] \cup {OwnCells[i][P!Dst(p)]}]
        \/ bloom' = bloom
    BY DEF P!Packet
  <2> QED BY ONLY <2>1, <2>2, <2>3, SMT
<1>9. count' \in 0..(Bits16 - 1)
  <2>1. count \in 0..(Bits16 - 1)
    BY DEF P!TypeOK
  <2>2. (count + 1) % Bits16 \in 0..(Bits16 - 1) /\ 0 \in 0..(Bits16 - 1)
    BY ONLY <2>1, Widths, Below, SMT
  <2>3. P!CountNow(p) \in 0..(Bits16 - 1)
    BY <2>1, <2>2 DEF P!CountNow
  <2> QED BY <2>1, <2>3 DEF P!Packet
<1>10. armed' \subseteq Sources /\ override' \in [Flows -> {"none", "allow", "deny"}]
  BY PacketWrites DEF P!TypeOK
<1>11. coarse' \in 0..(Bits16 - 1)
  BY PacketWrites DEF P!TypeOK
<1> QED
  BY <1>3, <1>4, <1>5, <1>6, <1>7, <1>8, <1>9, <1>10, <1>11 DEF P!TypeOK

-----------------------------------------------------------------------------
(* What the CPU detector makes of a packet.                                *)
Frame == [at : Nat, flow : Flows, src : Nat, bms : Bms, ota : BOOLEAN, version : Nat, len : Nat]
CpuR1(c, f) == c.last[f.bms] # O!NotSeen /\ f.at - c.last[f.bms] < O!CPU_R1_INTERVAL
CpuR4(c, f) == c.bytes[f.flow] + f.len > O!CPU_R4_BYTES
CpuR6(c, f) == f.version < c.max[f.bms]
CpuCounts(f) == f.ota /\ f.bms \in Known /\ f.src \in Authorized

LEMMA CpuWindow ==
  ASSUME NEW c \in Detector, NEW t \in Nat,
         NEW d, d = O!reset_r5_window_if_needed(c, t)
  PROVE  d \in Detector /\ d.last = c.last /\ d.max = c.max /\ d.bytes = c.bytes
<1>1. \/ d = c \/ d = [c EXCEPT !.start = t]
      \/ d = [[c EXCEPT !.targets = {}] EXCEPT !.start = t]
  BY DEF O!reset_r5_window_if_needed
<1>2. CASE d = c
  BY <1>2
<1>3. CASE d = [c EXCEPT !.start = t]
  BY <1>3 DEF Detector
<1>4. CASE d = [[c EXCEPT !.targets = {}] EXCEPT !.start = t]
  <2> DEFINE e == [c EXCEPT !.targets = {}]
  <2>1. e \in Detector /\ e.last = c.last /\ e.max = c.max /\ e.bytes = c.bytes
    BY DEF Detector
  <2>2. d = [e EXCEPT !.start = t]
    BY <1>4
  <2> HIDE DEF e
  <2> QED BY <2>1, <2>2 DEF Detector
<1> QED BY <1>1, <1>2, <1>3, <1>4

LEMMA CpuLabel ==
  ASSUME NEW c \in Detector, NEW f \in Frame, NEW w,
         w = O!process(c, f, Authorized, Known)
  PROVE  w.label = IF ~f.ota THEN "PASS"
                   ELSE IF f.src \notin Authorized THEN "DROP"
                   ELSE IF f.bms \notin Known THEN "PASS"
                   ELSE IF CpuR1(c, f) \/ CpuR4(c, f) \/ CpuR6(c, f) THEN "HOLD" ELSE "PASS"
<1> DEFINE d == O!reset_r5_window_if_needed(c, f.at)
<1>1. d \in Detector /\ d.last = c.last /\ d.max = c.max /\ d.bytes = c.bytes
  BY CpuWindow DEF Frame
<1> HIDE DEF d
<1>2. CASE ~f.ota \/ f.bms \notin Known
  BY <1>2 DEF O!process, Frame
<1>3. CASE f.ota /\ f.bms \in Known /\ f.src \notin Authorized
  BY <1>3 DEF O!process
<1>4. CASE CpuCounts(f)
  <2> DEFINE fires == [R1 |-> CpuR1(c, f), R2 |-> FALSE, R4 |-> CpuR4(c, f), R5 |-> FALSE,
                       R6 |-> CpuR6(c, f)]
             fired == {r \in DOMAIN fires : fires[r]}
  <2>1. w.label = IF fired # {} THEN "HOLD" ELSE "PASS"
    BY <1>1, <1>4 DEF O!process, CpuCounts, CpuR1, CpuR4, CpuR6, d
  <2>2. fired # {} <=> CpuR1(c, f) \/ CpuR4(c, f) \/ CpuR6(c, f)
    OBVIOUS
  <2> QED BY <1>4, <2>1, <2>2 DEF CpuCounts
<1> QED BY <1>2, <1>3, <1>4 DEF CpuCounts

(* What it remembers of a packet. *)
Remembered(c, f, s) ==
  /\ s \in Detector
  /\ CpuCounts(f) => s.last = [c.last EXCEPT ![f.bms] = f.at]
  /\ ~CpuCounts(f) => s.last = c.last /\ s.max = c.max
  /\ CpuCounts(f) /\ ~CpuR6(c, f) => s.max = [c.max EXCEPT ![f.bms] = f.version]
  /\ CpuR6(c, f) => s.max = c.max
  /\ s.bytes = c.bytes \/ s.bytes = [c.bytes EXCEPT ![f.flow] = c.bytes[f.flow] + f.len]
LEMMA CpuRemembers ==
  ASSUME NEW c \in Detector, NEW f \in Frame, NEW w,
         w = O!process(c, f, Authorized, Known)
  PROVE  Remembered(c, f, w.state)
<1> DEFINE d == O!reset_r5_window_if_needed(c, f.at)
<1>1. d \in Detector /\ d.last = c.last /\ d.max = c.max /\ d.bytes = c.bytes
  BY CpuWindow DEF Frame
<1> HIDE DEF d
<1>2. CASE ~(f.ota /\ f.bms \in Known)
  <2>1. w.state = d
    BY <1>2 DEF O!process, Frame, d
  <2> QED BY <1>1, <1>2, <2>1 DEF CpuCounts, Remembered
<1>3. CASE f.ota /\ f.bms \in Known
  <2> DEFINE r2 == f.src \notin Authorized
             L == [d.last EXCEPT ![f.bms] = IF r2 THEN d.last[f.bms] ELSE f.at]
             B == [d.bytes EXCEPT ![f.flow] = d.bytes[f.flow] + f.len]
             T == IF r2 THEN d.targets \cup {f.bms} ELSE d.targets
             M == [d.max EXCEPT ![f.bms] = IF r2 \/ CpuR6(c, f) THEN d.max[f.bms] ELSE f.version]
  <2>1. w.state = [d EXCEPT !.last = L, !.bytes = B, !.targets = T, !.max = M]
    BY <1>1, <1>3 DEF O!process, CpuR6, d
  <2>2. L \in [Bms -> Int] /\ B \in [Flows -> Nat] /\ T \subseteq Bms /\ M \in [Bms -> Nat]
    BY <1>1 DEF Frame, Detector
  <2>3. /\ CpuCounts(f) => L = [c.last EXCEPT ![f.bms] = f.at]
        /\ ~CpuCounts(f) => L = c.last /\ M = c.max
        /\ CpuCounts(f) /\ ~CpuR6(c, f) => M = [c.max EXCEPT ![f.bms] = f.version]
        /\ CpuR6(c, f) => M = c.max
        /\ B = [c.bytes EXCEPT ![f.flow] = c.bytes[f.flow] + f.len]
    BY <1>1, <1>3 DEF CpuCounts, Detector, Frame
  <2> HIDE DEF L, B, T, M
  <2>4. w.state.last = L /\ w.state.bytes = B /\ w.state.max = M /\ w.state \in Detector
    BY <1>1, <2>1, <2>2 DEF Detector
  <2> QED BY <2>3, <2>4 DEF Remembered
<1> QED BY <1>2, <1>3

-----------------------------------------------------------------------------
(* What evaluate_hold makes of a digest: an allow comes with the entry that *)
(* is charged, and an entry whose window is empty covers nothing.          *)
LEMMA Found ==
  ASSUME NEW d, NEW m, NEW t, NEW e, e \in A!find_matching_entry(m, d, t) \/ e \in A!find_rollback_entry(m, d, t)
  PROVE  \E n \in 1..Len(m) : e = m[n] /\ m[n].window # {}
<1>1. PICK S \in SUBSET (1..Len(m)) :
        e \in A!First(m, S) /\ \A i \in S : A!Covers(m[i], d, t)
  BY DEF A!find_matching_entry, A!find_rollback_entry, A!CoversRollback
<1>2. PICK n \in S : e = m[n]
  BY <1>1 DEF A!First
<1> QED BY <1>1, <1>2 DEF A!Covers

Weighed(v, m) ==
  /\ v.act \in {"allow", "deny"} /\ v.reason \in Reasons
  /\ v.pc = "record" => v.entry # {} /\ \A e \in v.entry :
       \E n \in 1..Len(m) : e = m[n] /\ m[n].window # {}
  /\ v.pc # "record" => v.act = "deny"
LEMMA Considered ==
  ASSUME NEW d, NEW m, NEW t, NEW g, g = A!Gate(d, m, t),
         NEW v, v = IF g.pc = "match" THEN A!Match(d, m, t) ELSE g
  PROVE  Weighed(v, m)
<1>1. \A e : e \in A!find_matching_entry(m, d, t) \/ e \in A!find_rollback_entry(m, d, t)
             => \E n \in 1..Len(m) : e = m[n] /\ m[n].window # {}
  BY Found
<1>2. \/ v = A!Drop("terminal_fire") \/ v = A!Drop("rat_disabled_ablation")
      \/ v = A!Drop("rat_miss")
      \/ /\ A!find_rollback_entry(m, d, t) # {}
         /\ v = A!Charge(A!find_rollback_entry(m, d, t), "rat_rollback_match")
      \/ /\ A!find_matching_entry(m, d, t) # {}
         /\ v = A!Charge(A!find_matching_entry(m, d, t), "rat_match")
  BY DEF A!Gate, A!Match, A!Pardoned, A!Charge, A!Drop, A!LookUpNext
<1>3. CASE v = A!Drop("terminal_fire")
  <2>1. v.pc = "install" /\ v.act = "deny" /\ v.reason = "terminal_fire"
    BY ONLY <1>3 DEF A!Drop
  <2> QED BY ONLY <2>1 DEF Reasons, Weighed
<1>4. CASE v = A!Drop("rat_disabled_ablation")
  <2>1. v.pc = "install" /\ v.act = "deny" /\ v.reason = "rat_disabled_ablation"
    BY ONLY <1>4 DEF A!Drop
  <2> QED BY ONLY <2>1 DEF Reasons, Weighed
<1>5. CASE v = A!Drop("rat_miss")
  <2>1. v.pc = "install" /\ v.act = "deny" /\ v.reason = "rat_miss"
    BY ONLY <1>5 DEF A!Drop
  <2> QED BY ONLY <2>1 DEF Reasons, Weighed
<1>6. CASE /\ A!find_rollback_entry(m, d, t) # {}
           /\ v = A!Charge(A!find_rollback_entry(m, d, t), "rat_rollback_match")
  <2>1. /\ v.pc = "record" /\ v.act = "allow" /\ v.reason = "rat_rollback_match"
        /\ v.entry = A!find_rollback_entry(m, d, t)
    BY ONLY <1>6 DEF A!Charge
  <2> QED BY ONLY <1>1, <1>6, <2>1 DEF Reasons, Weighed
<1>7. CASE /\ A!find_matching_entry(m, d, t) # {}
           /\ v = A!Charge(A!find_matching_entry(m, d, t), "rat_match")
  <2>1. /\ v.pc = "record" /\ v.act = "allow" /\ v.reason = "rat_match"
        /\ v.entry = A!find_matching_entry(m, d, t)
    BY ONLY <1>7 DEF A!Charge
  <2> QED BY ONLY <1>1, <1>7, <2>1 DEF Reasons, Weighed
<1> QED BY <1>2, <1>3, <1>4, <1>5, <1>6, <1>7

-----------------------------------------------------------------------------
(* The item that is played. *)
LEMMA ItemPlayed ==
  ASSUME Chosen, Playing
  PROVE  /\ pos \in 1..Len(Script.items) /\ Item = Script.items[pos] /\ Item \in ItemType
         /\ OnTheWire(Item) => FlowOf(Item) \in Flows
         /\ Item.kind = "push" => Small(Item) /\ FreshPort(Script.items, pos)
         /\ Item.label = "ATTACK" => Item.kind = "push"
         /\ Item.scen \in {"e18_parsed", "e18_parser_miss"} => E18Event(Item)
<1>1. pos \in 1..Len(Script.items)
  <2>1. Script.items \in Seq(ItemType)
    BY ScriptGiven DEF ItemsAssumption
  <2> QED BY <2>1 DEF Chosen, Playing
<1>2. Item = Script.items[pos]
  BY DEF Item
<1> QED BY <1>1, <1>2, ItemGiven

(* A packet is sent: what the two detectors see of it, and what is written. *)
EventOf(p) == [at |-> now, flow |-> p.flow, label |-> Item.label, item |-> pos,
               act |-> P!Action(p), rules |-> P!Fired(p), parsed |-> P!OtaPush(p)]
Sent(p, w) ==
  /\ p = Parse(Item) /\ w = O!process(cpu, load_pcap_packets(Item), Authorized, Known)
  /\ P!Packet(p) /\ cpu' = w.state
  /\ \/ queue' = queue
     \/ P!Digest(p) = "hold" /\ queue' = Append(queue, DigestOf(Item, p))
  /\ \/ Item.kind = "filler" /\ truth' = truth /\ judged' = judged
     \/ /\ Item.kind = "push" /\ truth' = Append(truth, EventOf(p))
        /\ judged' = Append(judged, w.label)
LEMMA SendSteps ==
  ASSUME Chosen, Send
  PROVE  /\ Playing /\ now = due /\ OnTheWire(Item)
         /\ pos' = pos + 1 /\ due' = now + SendTime + Item.wait
         /\ UNCHANGED <<setup, now, slots, heap, log>>
         /\ \E p, w : Sent(p, w)
<1>1. /\ Playing /\ now = due /\ OnTheWire(Item)
      /\ pos' = pos + 1 /\ due' = now + SendTime + Item.wait
      /\ UNCHANGED <<setup, now, slots, heap, log>>
  BY DEF Send, OnTheWire
<1>2. PICK p : /\ p = Parse(Item)
               /\ \E w : /\ w = O!process(cpu, load_pcap_packets(Item), Authorized, Known)
                         /\ P!Packet(p) /\ cpu' = w.state
                         /\ queue' = IF P!Digest(p) = "hold" THEN Append(queue, DigestOf(Item, p))
                                                             ELSE queue
                         /\ IF Item.kind = "filler" THEN UNCHANGED <<truth, judged>>
                            ELSE /\ truth' = Append(truth, EventOf(p))
                                 /\ judged' = Append(judged, w.label)
  BY DEF Send, EventOf
<1> QED BY <1>1, <1>2 DEF Sent, OnTheWire

LEMMA FrameTyped ==
  ASSUME Chosen, Playing, OnTheWire(Item), NEW f, f = load_pcap_packets(Item)
  PROVE  /\ f \in Frame /\ (f.ota <=> Item.kind = "push")
         /\ f.bms = Item.bms /\ f.at = now /\ f.version = Item.version /\ f.src = Item.src
         /\ f.flow = FlowOf(Item) /\ f.len = Item.len + FrameHeaders
<1>1. Item \in ItemType /\ FlowOf(Item) \in Flows /\ FlowOf(Item)[2] = Item.bms
  BY ItemPlayed DEF FlowOf
<1>2. Item.bms \in Bms
  BY <1>1, FlowGiven
<1>3. Item.src \in Nat /\ Item.version \in Nat /\ Item.len + FrameHeaders \in Nat /\ now \in Nat
  BY <1>1, SMT DEF ItemType, FrameHeaders, Chosen
<1>4. (Item.kind = "push") \in BOOLEAN
  OBVIOUS
<1> QED BY <1>1, <1>2, <1>3, <1>4 DEF load_pcap_packets, Frame

(* The verdict of the pipeline. *)
LEMMA VerdictTyped ==
  ASSUME NEW item \in ItemType, FlowOf(item) \in Flows, NEW p, p = Parse(item)
  PROVE  P!Action(p) \in Verdicts /\ P!Fired(p) \subseteq P!Rules /\ P!OtaPush(p) \in BOOLEAN
<1>1. P!Action(p) \in Verdicts
  BY DEF P!Action, P!Overridden, P!Policy, Verdicts
<1>2. P!Fired(p) \subseteq P!Rules
  BY DEF P!Fired
<1>3. P!OtaPush(p) \in BOOLEAN
  BY DEF P!OtaPush
<1> QED BY <1>1, <1>2, <1>3

LEMMA SendTyped ==
  ASSUME Typed, Send
  PROVE  Typed'
<1>1. /\ Chosen /\ P!TypeOK
      /\ truth \in Seq(Event) /\ judged \in Seq(Verdicts) /\ Len(judged) = Len(truth)
      /\ queue \in Seq(Digest) /\ log \in Seq(Decision) /\ Len(log) + Len(queue) <= pos - 1
      /\ slots \subseteq [id : Nat, rollout : STRING, flow : Flows, due : Nat]
      /\ heap \subseteq [flow : Flows, due : Nat]
      /\ cpu \in Detector
  BY DEF Typed
<1>2. /\ Playing /\ now = due /\ OnTheWire(Item)
      /\ pos' = pos + 1 /\ due' = now + SendTime + Item.wait
      /\ UNCHANGED <<setup, now, slots, heap, log>>
  BY <1>1, SendSteps
<1>3. PICK p, w : Sent(p, w)
  BY <1>1, SendSteps
<1>4. Item \in ItemType /\ FlowOf(Item) \in Flows /\ p = Parse(Item) /\ pos \in 1..Len(Script.items)
  BY <1>1, <1>2, <1>3, ItemPlayed DEF Sent
<1>5. Script' = Script
  BY <1>2 DEF Script
<1>6. Chosen'
  <2>1. SendTime \in Nat /\ Item.wait \in Nat /\ now \in Nat
    BY <1>1, <1>4, HostAssumption DEF ItemType, Chosen
  <2>2. due' \in Nat
    BY <1>2, <2>1
  <2>3. pos + 1 \in 1..(Len(Script.items) + 1)
    BY <1>4
  <2> QED BY <1>1, <1>2, <1>5, <2>2, <2>3 DEF Chosen
<1>7. P!TypeOK'
  BY <1>1, <1>3, <1>4, PipelineTyped DEF Sent
<1>8. P!Action(p) \in Verdicts /\ P!Fired(p) \subseteq P!Rules /\ P!OtaPush(p) \in BOOLEAN
  BY <1>4, VerdictTyped
<1>9. w.state \in Detector /\ w.label \in Verdicts
  <2>1. load_pcap_packets(Item) \in Frame
    BY <1>1, <1>2, <1>4, FrameTyped
  <2>2. w.state \in Detector
    BY <1>1, <1>3, <2>1, CpuRemembers DEF Sent, Remembered
  <2>3. w.label \in Verdicts
    BY <1>1, <1>3, <2>1, CpuLabel DEF Sent, Verdicts
  <2> QED BY <2>2, <2>3
<1>10. p.flow = FlowOf(Item) /\ p.version = Item.version /\ FlowOf(Item) \in Nat \X Nat \X Nat
  <2>1. p.flow = FlowOf(Item) /\ p.version = Item.version
    BY ONLY <1>4, Parsed
  <2>2. FlowOf(Item) \in Nat \X Nat \X Nat
    BY <1>4, FlowGiven
  <2> QED BY ONLY <2>1, <2>2
<1>11. truth' \in Seq(Event) /\ judged' \in Seq(Verdicts) /\ Len(judged') = Len(truth')
  <2>1. now \in Nat /\ pos \in Nat
    BY <1>1, <1>4 DEF Chosen
  <2>2. Item.label \in STRING
    BY <1>4 DEF ItemType
  <2>3. p.flow \in Nat \X Nat \X Nat
    BY <1>10
  <2>4. EventOf(p) \in Event
    BY ONLY <1>8, <2>1, <2>2, <2>3 DEF EventOf, Event
  <2>5. CASE truth' = truth /\ judged' = judged
    BY <1>1, <2>5
  <2>6. CASE truth' = Append(truth, EventOf(p)) /\ judged' = Append(judged, w.label)
    BY ONLY <1>1, <1>9, <2>4, <2>6
  <2> QED BY <1>3, <2>5, <2>6 DEF Sent
<1>12. queue' \in Seq(Digest) /\ Len(queue') <= Len(queue) + 1
  <2>1. now \in Nat /\ pos \in Nat
    BY <1>1, <1>4 DEF Chosen
  <2>2. Item.size \in Nat /\ Item.version \in Nat
    BY <1>4 DEF ItemType
  <2>3. p.flow \in Flows /\ p.version \in Nat
    BY ONLY <1>4, <1>10, <2>2
  <2>4. DigestOf(Item, p) \in Digest
    BY ONLY <1>8, <2>1, <2>2, <2>3 DEF DigestOf, Digest
  <2>5. CASE queue' = queue
    BY ONLY <1>1, <2>5
  <2>6. CASE queue' = Append(queue, DigestOf(Item, p))
    BY ONLY <1>1, <2>4, <2>6
  <2> QED BY <1>3, <2>5, <2>6 DEF Sent
<1>13. Len(log') + Len(queue') <= pos' - 1
  BY <1>1, <1>2, <1>12 DEF Chosen
<1> QED BY <1>1, <1>2, <1>3, <1>6, <1>7, <1>9, <1>11, <1>12, <1>13 DEF Typed, Sent

(* A digest is decided on. *)
Decided(d, act, reason) ==
  /\ queue # <<>> /\ d = Head(queue) /\ d.at + setup.latency <= now
  /\ act \in {"allow", "deny"} /\ (Script.stopped => act = "deny") /\ reason \in Reasons
  /\ slots' \subseteq
       slots \cup [id : {d.item}, rollout : STRING, flow : {d.flow}, due : {now + 5000}]
  /\ override' = [override EXCEPT ![d.flow] = act]
  /\ heap' = heap \cup {[flow |-> d.flow, due |-> now + 5000]}
  /\ log' = Append(log, [at |-> now, flow |-> d.flow, item |-> d.item,
                         decision |-> IF act = "allow" THEN "PASS" ELSE "DROP",
                         reason |-> reason])
  /\ queue' = Tail(queue)
Carried(d, v) ==
  LET charged == v.pc = "record"
      entry == CHOOSE e \in v.entry : TRUE
      kept == A!Prune(entry.rollout)
      fits == charged /\ A!Admits(entry, kept)
      act == IF charged /\ ~fits THEN "deny" ELSE v.act
  IN
  /\ slots' = IF ~charged THEN slots
              ELSE IF ~fits THEN kept
              ELSE kept \cup {[id |-> d.item, rollout |-> entry.rollout,
                               flow |-> d.flow, due |-> now + 5000]}
  /\ override' = [override EXCEPT ![d.flow] = act]
  /\ heap' = heap \cup {[flow |-> d.flow, due |-> now + 5000]}
  /\ log' = Append(log,
       [at |-> now, flow |-> d.flow, item |-> d.item,
        decision |-> IF act = "allow" THEN "PASS" ELSE "DROP",
        reason |-> IF charged /\ ~fits THEN A!CapReason(v.reason) ELSE v.reason])
LEMMA DecideSteps ==
  ASSUME Chosen, Decide
  PROVE  /\ UNCHANGED <<coarse, lastSeen, maxVersion, bytes, opened, bloom, count, armed,
                        accepted, setup, now, due, pos, truth, cpu, judged>>
         /\ \E d, act, reason : Decided(d, act, reason)
<1>1. /\ UNCHANGED <<coarse, lastSeen, maxVersion, bytes, opened, bloom, count, armed,
                     accepted, setup, now, due, pos, truth, cpu, judged>>
      /\ queue # <<>> /\ Head(queue).at + setup.latency <= now /\ queue' = Tail(queue)
  BY DEF Decide
<1>2. \E d \in {Head(queue)} : \E g \in {A!Gate(d, Script.rat, now)} :
      \E v \in {IF g.pc = "match" THEN A!Match(d, Script.rat, now) ELSE g} : Carried(d, v)
  BY ZenonT(60) DEF Decide, Carried
<1>3. PICK d, g, v :
        /\ d = Head(queue) /\ g = A!Gate(d, Script.rat, now)
        /\ v = IF g.pc = "match" THEN A!Match(d, Script.rat, now) ELSE g
        /\ Carried(d, v)
  BY ONLY <1>2, Zenon
<1> DEFINE charged == v.pc = "record"
           entry == CHOOSE e \in v.entry : TRUE
           kept == A!Prune(entry.rollout)
           fits == charged /\ A!Admits(entry, kept)
           act == IF charged /\ ~fits THEN "deny" ELSE v.act
           reason == IF charged /\ ~fits THEN A!CapReason(v.reason) ELSE v.reason
<1>4. /\ v.act \in {"allow", "deny"} /\ v.reason \in Reasons
      /\ charged => v.entry # {} /\ \A e \in v.entry :
              \E n \in 1..Len(Script.rat) : e = Script.rat[n] /\ Script.rat[n].window # {}
      /\ ~charged => v.act = "deny"
  <2>1. Weighed(v, Script.rat)
    BY ONLY <1>3, Considered, Zenon
  <2> QED BY <2>1, Zenon DEF Weighed
<1>5. charged => entry.rollout \in STRING /\ ~Script.stopped
  <2>1. charged => entry \in v.entry
    BY <1>4
  <2> QED BY <1>4, <2>1, ScriptGiven
<1>6. act \in {"allow", "deny"} /\ (Script.stopped => act = "deny") /\ reason \in Reasons
  <2>1. A!CapReason(v.reason) \in Reasons
    BY DEF A!CapReason, Reasons
  <2> QED BY <1>4, <1>5, <2>1
<1>7. slots' \subseteq
        slots \cup [id : {d.item}, rollout : STRING, flow : {d.flow}, due : {now + 5000}]
  <2>1. kept \subseteq slots
    BY DEF A!Prune
  <2> DEFINE session == [id |-> d.item, rollout |-> entry.rollout,
                         flow |-> d.flow, due |-> now + 5000]
  <2>2. charged => session \in [id : {d.item}, rollout : STRING, flow : {d.flow},
                                due : {now + 5000}]
    BY <1>5
  <2>3. slots' = slots \/ slots' = kept \/ (charged /\ slots' = kept \cup {session})
    BY <1>3, Zenon DEF Carried
  <2> HIDE DEF session, kept, charged
  <2> QED BY <2>1, <2>2, <2>3
<1>8. /\ override' = [override EXCEPT ![d.flow] = act]
      /\ heap' = heap \cup {[flow |-> d.flow, due |-> now + 5000]}
      /\ log' = Append(log, [at |-> now, flow |-> d.flow, item |-> d.item,
                             decision |-> IF act = "allow" THEN "PASS" ELSE "DROP",
                             reason |-> reason])
  BY <1>3, Zenon DEF Carried
<1> HIDE DEF act, reason
<1>9. Decided(d, act, reason)
  BY ONLY <1>1, <1>3, <1>6, <1>7, <1>8, ZenonT(60) DEF Decided
<1> QED BY <1>1, <1>9

-----------------------------------------------------------------------------
(* The other steps keep the types as well. *)
LEMMA TypedParts ==
  ASSUME Typed
  PROVE  /\ Chosen /\ P!TypeOK
         /\ truth \in Seq(Event) /\ judged \in Seq(Verdicts) /\ Len(judged) = Len(truth)
         /\ queue \in Seq(Digest) /\ log \in Seq(Decision) /\ Len(log) + Len(queue) <= pos - 1
         /\ slots \subseteq [id : Nat, rollout : STRING, flow : Flows, due : Nat]
         /\ heap \subseteq [flow : Flows, due : Nat]
         /\ cpu \in Detector
  BY DEF Typed

LEMMA Onward ==
  ASSUME Chosen, Playing, setup' = setup, now' = now, pos' = pos + 1, due' \in Nat
  PROVE  Chosen' /\ Script' = Script
<1>1. Script' = Script
  BY DEF Script
<1>2. pos + 1 \in 1..(Len(Script.items) + 1)
  BY ItemPlayed
<1> QED BY <1>1, <1>2 DEF Chosen

MarkerEvent == [at |-> now, flow |-> FlowOf(Item), label |-> Item.label, item |-> pos,
                act |-> "PASS", rules |-> {}, parsed |-> FALSE]
LEMMA RestSteps ==
  ASSUME Rest
  PROVE  /\ Playing /\ now = due /\ Item.kind \in {"pause", "marker"}
         /\ pos' = pos + 1 /\ due' = now + Item.wait
         /\ UNCHANGED <<pipeline, setup, now, queue, slots, heap, log, cpu>>
         /\ \/ truth' = truth /\ judged' = judged
            \/ /\ truth' = Append(truth, MarkerEvent) /\ judged' = Append(judged, "PASS")
               /\ Item.kind = "marker"
  BY DEF Rest, MarkerEvent

LEMMA MarkerTyped ==
  ASSUME Chosen, Playing
  PROVE  MarkerEvent \in Event
<1>1. now \in Nat /\ pos \in Nat
  BY DEF Chosen
<1>2. Item.label \in STRING /\ FlowOf(Item) \in Nat \X Nat \X Nat
  BY ItemPlayed DEF ItemType, FlowOf
<1>3. "PASS" \in Verdicts
  BY DEF Verdicts
<1> QED BY ONLY <1>1, <1>2, <1>3 DEF MarkerEvent, Event

LEMMA RestTyped ==
  ASSUME Typed, Rest
  PROVE  Typed'
<1>0. Chosen /\ P!TypeOK
  BY TypedParts
<1>1. /\ Playing /\ now = due /\ pos' = pos + 1 /\ due' = now + Item.wait
      /\ UNCHANGED <<pipeline, setup, now, queue, slots, heap, log, cpu>>
  BY RestSteps
<1>2. Chosen' /\ Script' = Script
  <2>1. now \in Nat /\ Item.wait \in Nat
    BY <1>0, <1>1, ItemPlayed DEF ItemType, Chosen
  <2> QED BY <1>0, <1>1, <2>1, Onward
<1>3. P!TypeOK'
  BY <1>0, <1>1 DEF pipeline, P!TypeOK
<1>4. truth' \in Seq(Event) /\ judged' \in Seq(Verdicts) /\ Len(judged') = Len(truth')
  <2>1. MarkerEvent \in Event /\ "PASS" \in Verdicts
    BY <1>0, <1>1, MarkerTyped DEF Verdicts
  <2>2. truth \in Seq(Event) /\ judged \in Seq(Verdicts) /\ Len(judged) = Len(truth)
    BY TypedParts
  <2>3. CASE truth' = truth /\ judged' = judged
    BY <2>2, <2>3
  <2>4. CASE truth' = Append(truth, MarkerEvent) /\ judged' = Append(judged, "PASS")
    BY ONLY <2>1, <2>2, <2>4
  <2> QED BY <2>3, <2>4, RestSteps
<1>5. Len(log') + Len(queue') <= pos' - 1
  BY <1>0, <1>1, TypedParts DEF Chosen
<1> QED BY <1>1, <1>2, <1>3, <1>4, <1>5, TypedParts DEF Typed

LEMMA ResetTyped ==
  ASSUME Typed, ResetDetector
  PROVE  Typed'
<1>0. Chosen /\ P!TypeOK
  BY TypedParts
<1>1. /\ Playing /\ now = due /\ pos' = pos + 1 /\ due' = now + 20000
      /\ UNCHANGED <<coarse, setup, now, queue, slots, truth, log, cpu, judged>>
      /\ heap' = {}
  BY DEF ResetDetector
<1>2. Chosen' /\ Script' = Script
  <2>1. now + 20000 \in Nat
    BY <1>0 DEF Chosen
  <2> QED BY <1>0, <1>1, <2>1, Onward
<1>3. P!TypeOK'
  <2>1. coarse' \in 0..(Bits16 - 1)
    BY <1>0, <1>1 DEF P!TypeOK
  <2>2. lastSeen' \in [Known -> 0..(Bits16 - 1)]
    <3>1. now \in Int
      BY <1>0 DEF Chosen
    <3>2. SeedOf(now) \in 0..(Bits16 - 1)
      BY ONLY <1>0, <3>1, ClockWidth
    <3> QED BY <3>2 DEF ResetDetector
  <2>3. 0 \in 0..(Bits16 - 1) /\ 0 \in 0..(Bits30 - 1)
    BY Widths
  <2>4. /\ maxVersion' \in [Known -> Nat] /\ accepted' \in [Known -> SUBSET Nat]
        /\ bytes' \in [Flows -> 0..(Bits30 - 1)] /\ opened' \subseteq Flows
        /\ count' \in 0..(Bits16 - 1) /\ armed' \subseteq Sources
        /\ override' \in [Flows -> {"none", "allow", "deny"}]
    BY <2>3 DEF ResetDetector
  <2>5. bloom' \in [P!Hashes -> SUBSET Bms]
    BY DEF ResetDetector, P!Hashes
  <2> QED BY <2>1, <2>2, <2>4, <2>5 DEF P!TypeOK
<1>4. Len(log') + Len(queue') <= pos' - 1
  BY <1>0, <1>1, TypedParts DEF Chosen
<1> QED BY <1>1, <1>2, <1>3, <1>4, TypedParts DEF Typed

LEMMA DecideTyped ==
  ASSUME Typed, Decide
  PROVE  Typed'
<1>0. Chosen /\ P!TypeOK
  BY TypedParts
<1>1. UNCHANGED <<coarse, lastSeen, maxVersion, bytes, opened, bloom, count, armed,
                  accepted, setup, now, due, pos, truth, cpu, judged>>
  BY <1>0, DecideSteps
<1>2. PICK d, act, reason : Decided(d, act, reason)
  BY <1>0, DecideSteps
<1>3. queue \in Seq(Digest) /\ queue # <<>> /\ d = Head(queue) /\ queue' = Tail(queue)
  BY <1>2, TypedParts DEF Decided
<1>4. d \in Digest /\ queue' \in Seq(Digest) /\ Len(queue') = Len(queue) - 1
  BY ONLY <1>3
<1>5. d.flow \in Flows /\ d.item \in Nat /\ now \in Nat
  BY <1>0, <1>4 DEF Digest, Chosen
<1>6. Chosen'
  BY <1>0, <1>1 DEF Chosen, Script
<1>7. P!TypeOK'
  <2>1. override' \in [Flows -> {"none", "allow", "deny"}]
    <3>1. override \in [Flows -> {"none", "allow", "deny"}]
      BY <1>0 DEF P!TypeOK
    <3>2. override' = [override EXCEPT ![d.flow] = act] /\ act \in {"none", "allow", "deny"}
      BY <1>2 DEF Decided
    <3> QED BY ONLY <3>1, <3>2
  <2> QED BY <1>0, <1>1, <2>1 DEF P!TypeOK
<1>8. log' \in Seq(Decision) /\ Len(log') = Len(log) + 1
  <2> DEFINE entry == [at |-> now, flow |-> d.flow, item |-> d.item,
                       decision |-> IF act = "allow" THEN "PASS" ELSE "DROP",
                       reason |-> reason]
  <2>1. entry \in Decision
    BY <1>2, <1>5 DEF Decided, Decision
  <2>2. log' = Append(log, entry) /\ log \in Seq(Decision)
    BY <1>2, TypedParts DEF Decided
  <2> QED BY ONLY <2>1, <2>2
<1>9. Len(log') + Len(queue') <= pos' - 1
  <2>1. Len(log) + Len(queue) <= pos - 1 /\ Len(log) \in Nat /\ Len(queue) \in Nat
    BY TypedParts
  <2> QED BY <1>1, <1>4, <1>8, <2>1
<1>10. slots' \subseteq [id : Nat, rollout : STRING, flow : Flows, due : Nat]
  <2>1. [id : {d.item}, rollout : STRING, flow : {d.flow}, due : {now + 5000}]
          \subseteq [id : Nat, rollout : STRING, flow : Flows, due : Nat]
    BY <1>5
  <2>2. slots' \subseteq slots \cup
          [id : {d.item}, rollout : STRING, flow : {d.flow}, due : {now + 5000}]
    BY <1>2 DEF Decided
  <2> QED BY <2>1, <2>2, TypedParts
<1>11. heap' \subseteq [flow : Flows, due : Nat]
  <2>1. heap' = heap \cup {[flow |-> d.flow, due |-> now + 5000]}
    BY <1>2 DEF Decided
  <2>2. now + 5000 \in Nat
    BY <1>5
  <2> QED BY <1>5, <2>1, <2>2, TypedParts
<1> QED BY <1>1, <1>4, <1>6, <1>7, <1>8, <1>9, <1>10, <1>11, TypedParts DEF Typed

(* Time passes. *)
LEMMA WaitSteps ==
  ASSUME Typed, Wait
  PROVE  /\ now' \in Nat /\ now < now' /\ (Playing => now' <= due)
         /\ queue # <<>> => now' <= Head(queue).at + setup.latency
         /\ coarse' = CoarseAt(now')
         /\ ReseedRun(now') > now =>
              lastSeen' = [b \in Known |-> SeedOf(ReseedRun(now'))]
         /\ ~(ReseedRun(now') > now) => lastSeen' = lastSeen
         /\ \/ bloom' = bloom /\ count' = count
            \/ bloom' = [i \in 1..3 |-> {}] /\ count' = 0
         /\ heap' = {h \in heap : h.due > now'}
         /\ override' = [f \in Flows |-> IF \E h \in heap : h.flow = f /\ h.due <= now'
                                         THEN "none" ELSE override[f]]
         /\ UNCHANGED <<maxVersion, bytes, opened, armed, accepted, setup, due, pos,
                        queue, slots, truth, log, cpu, judged>>
<1>1. now \in Nat /\ due \in Nat /\ setup.latency \in Nat /\ queue \in Seq(Digest)
  BY TypedParts DEF Chosen
<1>2. queue # <<>> => Head(queue).at \in Nat
  <2>1. queue # <<>> => Head(queue) \in Digest
    BY <1>1
  <2> QED BY <2>1 DEF Digest
<1>3. /\ IF queue = <<>> THEN now < due ELSE now < Head(queue).at + setup.latency
      /\ now' = IF queue = <<>> THEN due
                ELSE IF Playing /\ now < due /\ due < Head(queue).at + setup.latency THEN due
                ELSE Head(queue).at + setup.latency
      /\ Playing => now < due
  BY DEF Wait
<1>4. /\ now' \in Nat /\ now < now' /\ (Playing => now' <= due)
      /\ queue # <<>> => now' <= Head(queue).at + setup.latency
  BY ONLY <1>1, <1>2, <1>3
<1> QED BY <1>4 DEF Wait

LEMMA WaitTyped ==
  ASSUME Typed, Wait
  PROVE  Typed'
<1>0. Chosen /\ P!TypeOK
  BY TypedParts
<1>1. /\ now' \in Nat /\ coarse' = CoarseAt(now')
      /\ ReseedRun(now') > now =>
              lastSeen' = [b \in Known |-> SeedOf(ReseedRun(now'))]
      /\ ~(ReseedRun(now') > now) => lastSeen' = lastSeen
      /\ UNCHANGED <<maxVersion, bytes, opened, armed, accepted, setup, due, pos,
                     queue, slots, truth, log, cpu, judged>>
  BY WaitSteps
<1>2. Chosen'
  BY <1>0, <1>1 DEF Chosen, Script
<1>3. PICK n \in Nat : n = now'
  BY <1>1
<1>4. coarse' \in 0..(Bits16 - 1)
  <2>1. PICK u \in Int : CoarseAt(n) = Second(u)
    BY <1>0, ClockRead
  <2>2. Second(u) \in 0..(Bits16 - 1)
    BY <1>0, ClockWidth
  <2> QED BY <1>1, <1>3, <2>1, <2>2
<1>5. lastSeen' \in [Known -> 0..(Bits16 - 1)]
  <2>1. ReseedRun(n) \in Int
    BY <1>0, ThreadRuns
  <2>2. SeedOf(ReseedRun(n)) \in 0..(Bits16 - 1)
    BY ONLY <1>0, <2>1, ClockWidth
  <2>3. lastSeen' = [b \in Known |-> SeedOf(ReseedRun(n))] \/ lastSeen' = lastSeen
    BY <1>1, <1>3
  <2> QED BY <1>0, <2>2, <2>3 DEF P!TypeOK
<1>6. bloom' \in [P!Hashes -> SUBSET Bms] /\ count' \in 0..(Bits16 - 1)
  <2>1. CASE bloom' = bloom /\ count' = count
    BY <1>0, <2>1 DEF P!TypeOK
  <2>2. CASE bloom' = [i \in 1..3 |-> {}] /\ count' = 0
    BY <2>2, Widths DEF P!Hashes
  <2> QED BY <2>1, <2>2, WaitSteps
<1>7. override' \in [Flows -> {"none", "allow", "deny"}]
  BY <1>0, WaitSteps DEF P!TypeOK
<1>8. P!TypeOK'
  BY <1>0, <1>1, <1>4, <1>5, <1>6, <1>7 DEF P!TypeOK
<1>9. heap' \subseteq [flow : Flows, due : Nat]
  BY WaitSteps, TypedParts
<1> QED BY <1>1, <1>2, <1>8, <1>9, TypedParts DEF Typed

LEMMA InitTyped ==
  ASSUME Init
  PROVE  Typed
<1>1. PICK k \in DOMAIN Scripts, b \in Bases, c \in ClockPhases, w \in WindowPhases,
           r \in ReseedPhases, l \in Latencies :
             setup = [script |-> k, base |-> b, clock |-> c, window |-> w, reseed |-> r,
                      latency |-> l]
  BY DEF Init
<1>2. b \in Nat /\ c \in Nat /\ w \in Nat /\ r \in Nat /\ l \in Nat /\ l <= SlowestDecision
  BY HostAssumption
<1>3. Len(Script.items) \in Nat
  <2>1. Script = Scripts[k]
    BY <1>1 DEF Script
  <2> QED BY <2>1, ScriptAssumption DEF ItemsAssumption
<1>4. Chosen
  <2>1. now = 0 /\ due = 0 /\ pos = 1
    BY DEF Init
  <2>2. 1 \in 1..(Len(Script.items) + 1)
    BY <1>3
  <2>3. /\ setup \in [script : DOMAIN Scripts, base : Nat, clock : Nat, window : Nat,
                      reseed : Nat, latency : Nat]
        /\ setup.latency <= SlowestDecision
    BY ONLY <1>1, <1>2
  <2> QED BY <2>1, <2>2, <2>3 DEF Chosen
<1>5. P!TypeOK
  <2>1. 0 \in Nat
    OBVIOUS
  <2>2. PICK u \in Int : CoarseAt(0) = Second(u)
    BY <1>4, <2>1, ClockRead
  <2>3. Second(u) \in 0..(Bits16 - 1) /\ SeedOf(0) \in 0..(Bits16 - 1)
    BY <1>4, ClockWidth
  <2>4. coarse \in 0..(Bits16 - 1) /\ lastSeen \in [Known -> 0..(Bits16 - 1)]
    BY <2>2, <2>3 DEF Init
  <2>5. 0 \in 0..(Bits16 - 1) /\ 0 \in 0..(Bits30 - 1)
    BY Widths
  <2>6. /\ maxVersion \in [Known -> Nat] /\ accepted \in [Known -> SUBSET Nat]
        /\ bytes \in [Flows -> 0..(Bits30 - 1)] /\ opened \subseteq Flows
        /\ count \in 0..(Bits16 - 1) /\ armed \subseteq Sources
        /\ override \in [Flows -> {"none", "allow", "deny"}]
    BY <2>5 DEF Init
  <2>7. bloom \in [P!Hashes -> SUBSET Bms]
    BY DEF Init, P!Hashes
  <2> QED BY <2>4, <2>6, <2>7 DEF P!TypeOK
<1>6. cpu \in Detector
  BY DEF Init, O!CpuInit, Detector, O!NotSeen
<1>7. /\ truth = <<>> /\ judged = <<>> /\ queue = <<>> /\ log = <<>> /\ slots = {} /\ heap = {}
      /\ pos = 1
  BY DEF Init
<1> QED BY <1>4, <1>5, <1>6, <1>7 DEF Typed

LEMMA StepTyped ==
  ASSUME Typed, [Next]_vars
  PROVE  Typed'
<1>1. CASE UNCHANGED vars
  BY <1>1 DEF Typed, Chosen, Script, P!TypeOK, vars, pipeline
<1>2. CASE Finished
  BY <1>1, <1>2 DEF Finished
<1> QED
  BY <1>1, <1>2, SendTyped, RestTyped, ResetTyped, DecideTyped, WaitTyped DEF Next

(* The registers keep their width, digests and decisions never outnumber   *)
(* the items played, and the two detectors have judged the same events.    *)
THEOREM TrialTyped == Spec => []TypeOK
<1>1. Init => Typed
  BY InitTyped
<1>2. Typed /\ [Next]_vars => Typed'
  BY StepTyped
<1>3. Typed => TypeOK
  <2> SUFFICES ASSUME Typed PROVE TypeOK
    OBVIOUS
  <2>1. Len(log) + Len(queue) <= pos /\ pos \in 1..(Len(Script.items) + 1)
    BY TypedParts DEF Chosen
  <2> QED BY <2>1, TypedParts DEF TypeOK, Chosen
<1> QED BY <1>1, <1>2, <1>3, PTL DEF Spec

-----------------------------------------------------------------------------
(* One item further: what the three steps that play an item have in common. *)
Advance ==
  /\ Playing /\ now = due /\ pos' = pos + 1 /\ setup' = setup /\ now' = now /\ Script' = Script
  /\ due' \in Nat /\ due <= due' /\ (Item.kind # "reset" => now + Item.wait <= due')
LEMMA Advances ==
  ASSUME Typed, Send \/ Rest \/ ResetDetector
  PROVE  Advance
<1>0. Chosen /\ now \in Nat
  BY TypedParts DEF Chosen
<1>1. /\ Playing /\ now = due /\ pos' = pos + 1 /\ setup' = setup /\ now' = now
      /\ \/ due' = now + SendTime + Item.wait
         \/ due' = now + Item.wait
         \/ due' = now + 20000 /\ Item.kind = "reset"
  BY DEF Send, Rest, ResetDetector
<1>2. SendTime \in Nat /\ Item.wait \in Nat
  BY <1>0, <1>1, ItemPlayed, HostAssumption DEF ItemType
<1>3. /\ due' \in Nat /\ due <= due' /\ (Item.kind # "reset" => now + Item.wait <= due')
  BY ONLY <1>0, <1>1, <1>2
<1>4. Script' = Script
  BY <1>1 DEF Script
<1> QED BY <1>1, <1>3, <1>4 DEF Advance

(* A rest that an item adds is one the item itself makes. *)
LEMMA RestedOnward ==
  ASSUME NEW items, NEW n \in Nat, NEW m, Rested(items, m, n + 1)
  PROVE  Rested(items, m, n) \/ (items[n].kind # "reset" /\ items[n].wait >= RolloutPause)
  BY DEF Rested

LEMMA AppendCases ==
  ASSUME NEW S, NEW s \in Seq(S), NEW e \in S, NEW t, t = Append(s, e)
  PROVE  /\ t \in Seq(S) /\ Len(t) = Len(s) + 1 /\ t[Len(t)] = e
         /\ \A j \in 1..Len(t) : (j \in 1..Len(s) /\ t[j] = s[j]) \/ (j = Len(t) /\ t[j] = e)
         /\ \A j \in 1..Len(s) : t[j] = s[j]
  OBVIOUS

LEMMA TailCases ==
  ASSUME NEW S, NEW s \in Seq(S), s # <<>>, NEW t, t = Tail(s)
  PROVE  /\ t \in Seq(S) /\ Len(t) = Len(s) - 1 /\ Len(s) \in Nat \ {0}
         /\ \A j \in 1..Len(t) : j + 1 \in 1..Len(s) /\ t[j] = s[j + 1]
         /\ Head(s) = s[1] /\ 1 \in 1..Len(s)
  OBVIOUS

LEMMA EventKept ==
  ASSUME NEW e, TracedEvent(e), Script' = Script, pos' \in Int, pos \in Int, now' \in Int, now \in Int,
         e.at \in Int, pos <= pos', now <= now'
  PROVE  TracedEvent(e)'
  BY DEF TracedEvent, Played

LEMMA DigestKept ==
  ASSUME NEW e \in Digest, TracedDigest(e), Chosen, Advance
  PROVE  TracedDigest(e)'
<1>0. now \in Nat /\ due \in Nat /\ pos \in Nat /\ e.at \in Nat /\ e.item \in Nat
  BY DEF Chosen, Digest
<1>1. /\ Played(e.item) /\ OnTheWire(Script.items[e.item]) /\ e.flow = FlowOf(Script.items[e.item])
      /\ e.at <= now /\ now <= e.at + setup.latency
      /\ Rested(Script.items, e.item, pos) => e.at + RolloutPause <= due
  BY DEF TracedDigest
<1>2. /\ pos' = pos + 1 /\ setup' = setup /\ now' = now /\ Script' = Script
      /\ now = due /\ due' \in Nat /\ due <= due' /\ Item = Script.items[pos]
      /\ Item.kind # "reset" => now + Item.wait <= due'
  BY DEF Advance, Item
<1>3. Item.wait \in Nat /\ RolloutPause \in Nat
  <2>1. Item \in ItemType
    BY ItemPlayed DEF Advance
  <2> QED BY <2>1, SMT DEF ItemType, RolloutPause
<1>4. Rested(Script.items, e.item, pos + 1) => e.at + RolloutPause <= due'
  <2>1. ASSUME Rested(Script.items, e.item, pos) PROVE e.at + RolloutPause <= due'
    BY ONLY <2>1, <1>0, <1>1, <1>2, <1>3
  <2>2. ASSUME Item.kind # "reset", Item.wait >= RolloutPause PROVE e.at + RolloutPause <= due'
    BY ONLY <2>2, <1>0, <1>1, <1>2, <1>3
  <2> QED BY <1>0, <1>2, <2>1, <2>2, RestedOnward
<1>5. Played(e.item)'
  BY ONLY <1>0, <1>1, <1>2 DEF Played
<1> QED BY <1>1, <1>2, <1>4, <1>5 DEF TracedDigest

-----------------------------------------------------------------------------
(* Events, digests and decisions stay those of items played. *)
LEMMA EventsOnward ==
  ASSUME Typed, Events, Advance,
         \/ truth' = truth
         \/ \E e \in Event : truth' = Append(truth, e) /\ TracedEvent(e)'
  PROVE  Events'
<1>0. /\ truth \in Seq(Event) /\ pos \in Int /\ now \in Int
      /\ Script' = Script /\ now' = now /\ pos' = pos + 1
  BY TypedParts DEF Chosen, Advance
<1>1. SUFFICES ASSUME NEW j \in 1..Len(truth') PROVE TracedEvent(truth[j])'
  BY DEF Events
<1>2. PICK f : f = truth'[j]
  OBVIOUS
<1>3. ASSUME NEW e \in Event, TracedEvent(e) PROVE TracedEvent(e)'
  <2>1. e.at \in Int
    BY DEF Event
  <2> QED BY <1>0, <1>3, <2>1, EventKept
<1>4. ASSUME j \in 1..Len(truth), f = truth[j] PROVE TracedEvent(f)'
  <2>1. f \in Event /\ TracedEvent(f)
    BY <1>0, <1>4 DEF Events
  <2> QED BY ONLY <2>1, <1>3
<1>5. TracedEvent(f)'
  <2>1. CASE truth' = truth
    BY <1>2, <1>4, <2>1
  <2>2. CASE \E e \in Event : truth' = Append(truth, e) /\ TracedEvent(e)'
    <3>1. PICK e \in Event : truth' = Append(truth, e) /\ TracedEvent(e)'
      BY <2>2
    <3>2. (j \in 1..Len(truth) /\ f = truth[j]) \/ f = e
      BY ONLY <1>0, <1>2, <3>1, j \in 1..Len(truth'), AppendCases
    <3> QED BY <1>4, <3>1, <3>2
  <2> QED BY <2>1, <2>2
<1> QED BY <1>2, <1>5 DEF TracedEvent, Played

LEMMA DigestsOnward ==
  ASSUME Typed, Digests, Advance,
         \/ queue' = queue
         \/ \E e \in Digest : queue' = Append(queue, e) /\ TracedDigest(e)' /\ e.at = now
  PROVE  Digests'
<1>0. /\ Chosen /\ queue \in Seq(Digest) /\ now \in Nat
  BY TypedParts DEF Chosen
<1>1. \A i \in 1..Len(queue) : queue[i] \in Digest /\ TracedDigest(queue[i])
  BY <1>0 DEF Digests
<1>2. \A i \in 1..Len(queue) : queue[i].at \in Nat /\ queue[i].at <= now
  BY <1>1 DEF TracedDigest, Digest
<1>3. ASSUME NEW j \in 1..Len(queue') PROVE TracedDigest(queue[j])'
  <2>1. PICK f : f = queue'[j]
    OBVIOUS
  <2>2. ASSUME NEW e \in Digest, TracedDigest(e) PROVE TracedDigest(e)'
    BY <1>0, <2>2, DigestKept
  <2>3. ASSUME j \in 1..Len(queue), f = queue[j] PROVE TracedDigest(f)'
    <3>1. f \in Digest /\ TracedDigest(f)
      BY <1>1, <2>3
    <3> QED BY ONLY <3>1, <2>2
  <2>4. TracedDigest(f)'
    <3>1. CASE queue' = queue
      BY <1>3, <2>1, <2>3, <3>1
    <3>2. CASE \E e \in Digest : queue' = Append(queue, e) /\ TracedDigest(e)' /\ e.at = now
      <4>1. PICK e \in Digest : queue' = Append(queue, e) /\ TracedDigest(e)'
        BY <3>2
      <4>2. (j \in 1..Len(queue) /\ f = queue[j]) \/ f = e
        BY ONLY <1>0, <1>3, <2>1, <4>1, AppendCases
      <4> QED BY <2>3, <4>1, <4>2
    <3> QED BY <3>1, <3>2
  <2> QED BY <2>1, <2>4 DEF TracedDigest, Played
<1>4. ASSUME NEW j \in 1..Len(queue'), NEW k \in 1..Len(queue'), j < k
      PROVE  queue'[j].at <= queue'[k].at
  <2>1. CASE queue' = queue
    BY <1>4, <2>1 DEF Digests
  <2>2. CASE \E e \in Digest : queue' = Append(queue, e) /\ TracedDigest(e)' /\ e.at = now
    <3>1. PICK e \in Digest : queue' = Append(queue, e) /\ e.at = now
      BY <2>2
    <3>2. /\ (j \in 1..Len(queue) /\ queue'[j] = queue[j]) \/ (j = Len(queue') /\ queue'[j] = e)
          /\ (k \in 1..Len(queue) /\ queue'[k] = queue[k]) \/ (k = Len(queue') /\ queue'[k] = e)
          /\ Len(queue') = Len(queue) + 1 /\ Len(queue) \in Nat
      BY ONLY <1>0, <1>4, <3>1, AppendCases
    <3>3. j \in 1..Len(queue) /\ queue'[j] = queue[j]
      BY ONLY <1>4, <3>2
    <3>4. CASE k \in 1..Len(queue) /\ queue'[k] = queue[k]
      BY <1>4, <3>3, <3>4 DEF Digests
    <3>5. CASE queue'[k] = e
      BY <1>2, <3>1, <3>3, <3>5
    <3> QED BY <3>2, <3>4, <3>5
  <2> QED BY <2>1, <2>2
<1> QED BY <1>3, <1>4 DEF Digests

LEMMA SendTraced ==
  ASSUME Typed, Traced, Send
  PROVE  Traced'
<1>0. Chosen /\ Advance /\ Events /\ Digests /\ pos \in Nat
  BY TypedParts, Advances DEF Traced, Chosen
<1>1. PICK p, w : Sent(p, w)
  BY <1>0, SendSteps
<1>2. /\ OnTheWire(Item) /\ UNCHANGED log /\ pos' = pos + 1 /\ Playing
      /\ due' = now + SendTime + Item.wait /\ now = due
  BY <1>0, SendSteps
<1>3. /\ Item \in ItemType /\ FlowOf(Item) \in Flows /\ p = Parse(Item) /\ pos \in 1..Len(Script.items)
      /\ Item = Script.items[pos]
  BY <1>0, <1>1, <1>2, ItemPlayed DEF Sent
<1>4. p.flow = FlowOf(Item) /\ (P!OtaPush(p) => Item.kind = "push")
  <2>1. p.flow = FlowOf(Item)
    BY <1>3, Parsed
  <2>2. P!OtaPush(p) => Item.kind = "push"
    BY <1>3, PacketClass DEF HeaderRead
  <2> QED BY <2>1, <2>2
<1>5. Script' = Script /\ now' = now /\ setup' = setup /\ now \in Nat /\ due' \in Nat /\ setup.latency \in Nat
  BY <1>0 DEF Advance, Chosen
<1>6. pos \in 1..(pos' - 1)
  BY ONLY <1>0, <1>2, <1>3
<1>7. Events'
  <2>1. CASE truth' = truth
    BY <1>0, <2>1, EventsOnward
  <2>2. CASE Item.kind = "push" /\ truth' = Append(truth, EventOf(p))
    <3>1. PICK e : e = EventOf(p)
      OBVIOUS
    <3>2. e \in Event
      <4>1. truth' \in Seq(Event) /\ truth \in Seq(Event)
        BY SendTyped, TypedParts DEF Typed
      <4>2. Len(truth) + 1 \in 1..Len(truth') /\ truth'[Len(truth) + 1] = e
        BY <2>2, <3>1, <4>1
      <4> QED BY <4>1, <4>2
    <3>3. /\ e.item = pos /\ e.at = now /\ e.flow = FlowOf(Item) /\ e.label = Item.label
          /\ (e.parsed => Item.kind = "push")
      BY <1>4, <3>1 DEF EventOf
    <3>4. TracedEvent(e)'
      BY <1>3, <1>5, <1>6, <2>2, <3>3 DEF TracedEvent, Played
    <3> QED BY <1>0, <2>2, <3>1, <3>2, <3>4, EventsOnward
  <2> QED BY <1>1, <2>1, <2>2 DEF Sent
<1>8. Digests'
  <2>1. CASE queue' = queue
    BY <1>0, <2>1, DigestsOnward
  <2>2. CASE queue' = Append(queue, DigestOf(Item, p))
    <3>1. PICK e : e = DigestOf(Item, p)
      OBVIOUS
    <3>2. e \in Digest
      <4>1. queue' \in Seq(Digest) /\ queue \in Seq(Digest)
        BY SendTyped, TypedParts DEF Typed
      <4>2. Len(queue) + 1 \in 1..Len(queue') /\ queue'[Len(queue) + 1] = e
        BY <2>2, <3>1, <4>1
      <4> QED BY <4>1, <4>2
    <3>3. e.item = pos /\ e.at = now /\ e.flow = FlowOf(Item)
      BY <1>4, <3>1 DEF DigestOf
    <3>4. SendTime \in Nat /\ Item.wait \in Nat /\ RolloutPause \in Nat
      BY <1>3, HostAssumption, SMT DEF ItemType, RolloutPause
    <3>5. Rested(Script.items, pos, pos + 1) => Item.wait >= RolloutPause
      <4>1. pos..(pos + 1 - 1) = {pos}
        BY <1>0
      <4> QED BY <1>3, <4>1 DEF Rested
    <3>6. Rested(Script.items, pos, pos + 1) => now + RolloutPause <= due'
      BY ONLY <1>2, <1>5, <3>4, <3>5
    <3>7. TracedDigest(e)'
      <4>1. now <= now + setup.latency
        BY <1>5
      <4> QED BY <1>2, <1>3, <1>5, <1>6, <3>3, <3>6, <4>1 DEF TracedDigest, Played
    <3> QED BY <1>0, <2>2, <3>1, <3>2, <3>3, <3>7, DigestsOnward
  <2> QED BY <1>1, <2>1, <2>2 DEF Sent
<1>9. Decisions'
  <2>1. \A j \in 1..Len(log) : log[j].item \in 1..(pos - 1)
    BY DEF Traced, Decisions, Played
  <2>2. \A j \in 1..Len(log) : log[j].item \in 1..(pos' - 1)
    BY ONLY <1>0, <1>2, <2>1
  <2> QED BY <1>2, <2>2 DEF Decisions, Played
<1> QED BY <1>7, <1>8, <1>9 DEF Traced

LEMMA DecisionsOnward ==
  ASSUME Typed, Decisions, Advance, log' = log
  PROVE  Decisions'
<1>0. pos \in Nat /\ pos' = pos + 1
  BY TypedParts DEF Chosen, Advance
<1>1. \A j \in 1..Len(log) : log[j].item \in 1..(pos - 1)
  BY DEF Decisions, Played
<1>2. \A j \in 1..Len(log) : log[j].item \in 1..(pos' - 1)
  BY ONLY <1>0, <1>1
<1> QED BY <1>2 DEF Decisions, Played

LEMMA RestTraced ==
  ASSUME Typed, Traced, Rest
  PROVE  Traced'
<1>0. Chosen /\ Advance /\ Events /\ Digests /\ Decisions /\ pos \in Nat
  BY TypedParts, Advances DEF Traced, Chosen
<1>1. queue' = queue /\ log' = log /\ pos' = pos + 1 /\ Playing
  BY RestSteps
<1>2. Item = Script.items[pos] /\ pos \in 1..Len(Script.items)
  BY <1>0, <1>1, ItemPlayed
<1>3. Events'
  <2>1. CASE truth' = truth
    BY <1>0, <2>1, EventsOnward
  <2>2. CASE truth' = Append(truth, MarkerEvent) /\ Item.kind = "marker"
    <3>1. PICK e : e = MarkerEvent
      OBVIOUS
    <3>2. e \in Event
      BY <1>0, <1>1, <3>1, MarkerTyped
    <3>3. e.item = pos /\ e.at = now /\ e.flow = FlowOf(Item) /\ e.label = Item.label /\ ~e.parsed
      BY <3>1 DEF MarkerEvent
    <3>4. pos \in 1..(pos' - 1)
      BY ONLY <1>0, <1>1, <1>2
    <3>5. Script' = Script /\ now' = now /\ now \in Nat
      BY <1>0 DEF Advance, Chosen
    <3>6. TracedEvent(e)'
      BY <1>2, <2>2, <3>3, <3>4, <3>5 DEF TracedEvent, Played
    <3> QED BY <1>0, <2>2, <3>1, <3>2, <3>6, EventsOnward
  <2> QED BY <2>1, <2>2, RestSteps
<1> QED BY <1>0, <1>1, <1>3, DigestsOnward, DecisionsOnward DEF Traced

LEMMA ResetTraced ==
  ASSUME Typed, Traced, ResetDetector
  PROVE  Traced'
<1>0. Advance /\ Events /\ Digests /\ Decisions
  BY Advances DEF Traced
<1>1. truth' = truth /\ queue' = queue /\ log' = log
  BY DEF ResetDetector
<1> QED BY <1>0, <1>1, EventsOnward, DigestsOnward, DecisionsOnward DEF Traced

LEMMA DecideTraced ==
  ASSUME Typed, Traced, Decide
  PROVE  Traced'
<1>0. Chosen /\ queue \in Seq(Digest) /\ log \in Seq(Decision) /\ now \in Nat /\ pos \in Nat
  BY TypedParts DEF Chosen
<1>1. UNCHANGED <<setup, now, due, pos, truth>> /\ Script' = Script
  BY <1>0, DecideSteps DEF Script
<1>2. PICK d, act, reason : Decided(d, act, reason)
  BY <1>0, DecideSteps
<1>3. queue # <<>> /\ queue' = Tail(queue) /\ d = queue[1] /\ 1 \in 1..Len(queue)
  BY <1>0, <1>2, TailCases DEF Decided
<1>4. \A j \in 1..Len(queue') : j + 1 \in 1..Len(queue) /\ queue'[j] = queue[j + 1]
  BY ONLY <1>0, <1>3, TailCases
<1>5. Events'
  BY <1>1 DEF Traced, Events, TracedEvent, Played
<1>6. Digests'
  <2>1. ASSUME NEW j \in 1..Len(queue') PROVE TracedDigest(queue[j])'
    <3>1. PICK f : f = queue'[j]
      OBVIOUS
    <3>2. TracedDigest(f)
      BY <1>4, <2>1, <3>1 DEF Traced, Digests
    <3>3. TracedDigest(f)'
      BY <1>1, <3>2 DEF TracedDigest, Played
    <3> QED BY <3>1, <3>3 DEF TracedDigest, Played
  <2>2. ASSUME NEW j \in 1..Len(queue'), NEW k \in 1..Len(queue'), j < k
        PROVE  queue'[j].at <= queue'[k].at
    <3>1. j + 1 \in 1..Len(queue) /\ k + 1 \in 1..Len(queue) /\ j + 1 < k + 1
      BY <1>4, <2>2
    <3> QED BY <1>4, <2>2, <3>1 DEF Traced, Digests
  <2> QED BY <2>1, <2>2 DEF Digests
<1>7. Decisions'
  <2>1. TracedDigest(d)
    BY <1>3 DEF Traced, Digests
  <2>2. d.item \in 1..(pos - 1)
    BY <2>1 DEF TracedDigest, Played
  <2>3. \A j \in 1..Len(log) : log[j].item \in 1..(pos - 1)
    BY DEF Traced, Decisions, Played
  <2>4. log' \in Seq(Decision)
    BY DecideTyped DEF Typed
  <2>5. PICK x : log' = Append(log, x) /\ x.item = d.item
    BY <1>2 DEF Decided
  <2>6. ASSUME NEW j \in 1..Len(log') PROVE log'[j].item \in 1..(pos - 1)
    <3>1. (j \in 1..Len(log) /\ log'[j] = log[j]) \/ log'[j] = x
      BY ONLY <1>0, <2>4, <2>5, <2>6
    <3> QED BY <2>2, <2>3, <2>5, <3>1
  <2> QED BY <1>1, <2>6 DEF Decisions, Played
<1> QED BY <1>5, <1>6, <1>7 DEF Traced

LEMMA WaitTraced ==
  ASSUME Typed, Traced, Wait
  PROVE  Traced'
<1>0. Chosen /\ queue \in Seq(Digest) /\ truth \in Seq(Event) /\ now \in Nat /\ pos \in Nat
      /\ setup.latency \in Nat
  BY TypedParts DEF Chosen
<1>1. /\ now' \in Nat /\ now <= now' /\ Script' = Script
      /\ queue # <<>> => now' <= Head(queue).at + setup.latency
      /\ UNCHANGED <<setup, due, pos, queue, truth, log>>
  BY <1>0, WaitSteps DEF Script
<1>2. Events'
  <2>1. ASSUME NEW j \in 1..Len(truth) PROVE TracedEvent(truth[j])'
    <3>1. PICK f : f = truth[j]
      OBVIOUS
    <3>2. TracedEvent(f) /\ f \in Event
      BY <1>0, <2>1, <3>1 DEF Traced, Events
    <3>3. TracedEvent(f)'
      BY <1>0, <1>1, <3>2, EventKept DEF Event
    <3> QED BY <1>1, <3>1, <3>3 DEF TracedEvent, Played
  <2> QED BY <1>1, <2>1 DEF Events
<1>3. \A j \in 1..Len(queue) : queue[j] \in Digest /\ now' <= queue[j].at + setup.latency
  <2>1. ASSUME NEW j \in 1..Len(queue)
        PROVE  queue[j] \in Digest /\ now' <= queue[j].at + setup.latency
    <3>1. queue # <<>> /\ Head(queue) = queue[1] /\ 1 \in 1..Len(queue)
      BY ONLY <1>0, <2>1
    <3>2. queue[j] \in Digest /\ queue[1] \in Digest
      BY <1>0, <2>1, <3>1
    <3>3. queue[1].at \in Nat /\ queue[j].at \in Nat
      BY <3>2 DEF Digest
    <3>4. queue[1].at <= queue[j].at
      BY <2>1, <3>1, <3>3 DEF Traced, Digests
    <3> QED BY <1>0, <1>1, <3>1, <3>2, <3>3, <3>4
  <2> QED BY <2>1
<1>4. Digests'
  <2>1. ASSUME NEW j \in 1..Len(queue) PROVE TracedDigest(queue[j])'
    <3>1. PICK f : f = queue[j]
      OBVIOUS
    <3>2. TracedDigest(f) /\ f.at \in Nat /\ now' <= f.at + setup.latency
      BY <1>3, <2>1, <3>1 DEF Traced, Digests, Digest
    <3>3. f.at <= now'
      BY <1>0, <1>1, <3>2 DEF TracedDigest
    <3>4. TracedDigest(f)'
      BY <1>1, <3>2, <3>3 DEF TracedDigest, Played
    <3> QED BY <1>1, <3>1, <3>4 DEF TracedDigest, Played
  <2> QED BY <1>1, <2>1 DEF Traced, Digests
<1>5. Decisions'
  BY <1>1 DEF Traced, Decisions, Played
<1> QED BY <1>2, <1>4, <1>5 DEF Traced

-----------------------------------------------------------------------------
(* The threads of a trial keep to their phases. *)
LEMMA SameClock ==
  ASSUME setup' = setup, NEW t
  PROVE  /\ Second(t)' = Second(t) /\ SeedOf(t)' = SeedOf(t) /\ CoarseAt(t)' = CoarseAt(t)
         /\ ReseedRun(t)' = ReseedRun(t) /\ Seeding(t)' = Seeding(t)
<1>1. Second(t)' = Second(t) /\ ReseedRun(t)' = ReseedRun(t) /\ ClockRun(t)' = ClockRun(t)
  BY SMT DEF Second, ReseedRun, ClockRun
<1>2. SeedOf(t)' = SeedOf(t)
  BY SMT DEF SeedOf, Second
<1>3. CoarseAt(t)' = CoarseAt(t)
  BY SMT DEF CoarseAt, Second, ReseedRun, ClockRun
<1>4. Seeding(t)' = Seeding(t)
  BY SMT DEF Seeding, ReseedRun
<1> QED BY <1>1, <1>2, <1>3, <1>4

(* The clock register, and that nothing is armed.                          *)
LEMMA ClockedStill ==
  ASSUME Clocked, setup' = setup, now' = now, coarse' = coarse, armed' = {}
  PROVE  Clocked'
<1>1. PICK n : n = now
  OBVIOUS
<1>2. CoarseAt(n)' = CoarseAt(n)
  BY SameClock
<1>3. CoarseAt(now)' = CoarseAt(n)'
  BY <1>1, SMT DEF CoarseAt, Second, ReseedRun, ClockRun
<1> QED BY <1>1, <1>2, <1>3 DEF Clocked

LEMMA SendClocked ==
  ASSUME Typed, Clocked, Send
  PROVE  Clocked'
<1>0. Chosen
  BY TypedParts
<1>1. PICK p, w : Sent(p, w)
  BY <1>0, SendSteps
<1>2. OnTheWire(Item) /\ Playing /\ setup' = setup /\ now' = now
  BY <1>0, SendSteps
<1>3. Item \in ItemType /\ FlowOf(Item) \in Flows /\ p = Parse(Item)
  BY <1>0, <1>1, <1>2, ItemPlayed DEF Sent
<1>4. armed' = armed /\ coarse' = coarse
  BY <1>1, <1>3, PacketWrites DEF Sent
<1>5. armed' = {}
  BY <1>4 DEF Clocked
<1> QED BY <1>2, <1>4, <1>5, ClockedStill

LEMMA ClockedKept ==
  ASSUME Typed, Clocked, [Next]_vars
  PROVE  Clocked'
<1>0. Chosen
  BY TypedParts
<1>1. CASE Send
  BY <1>1, SendClocked
<1>2. CASE Rest \/ UNCHANGED vars
  <2>1. UNCHANGED <<pipeline, setup, now>>
    BY <1>2, RestSteps DEF vars
  <2>2. coarse' = coarse /\ armed' = {} /\ setup' = setup /\ now' = now
    BY <2>1 DEF pipeline, Clocked
  <2> QED BY <2>2, ClockedStill
<1>3. CASE ResetDetector
  <2>1. coarse' = coarse /\ armed' = {} /\ setup' = setup /\ now' = now
    BY <1>3 DEF ResetDetector
  <2> QED BY <2>1, ClockedStill
<1>4. CASE Decide
  <2>1. UNCHANGED <<coarse, armed, setup, now>>
    BY <1>0, <1>4, DecideSteps
  <2>2. coarse' = coarse /\ armed' = {} /\ setup' = setup /\ now' = now
    BY <2>1 DEF Clocked
  <2> QED BY <2>2, ClockedStill
<1>5. CASE Wait
  <2>1. PICK n : n = now'
    OBVIOUS
  <2>2. coarse' = CoarseAt(n) /\ setup' = setup /\ armed' = {}
    BY <1>5, <2>1, WaitSteps DEF Clocked
  <2>3. CoarseAt(n)' = CoarseAt(n)
    BY <2>2, SameClock
  <2>4. CoarseAt(now)' = CoarseAt(n)'
    BY <2>1, SMT DEF CoarseAt, Second, ReseedRun, ClockRun
  <2> QED BY <2>2, <2>3, <2>4 DEF Clocked
<1>6. CASE Finished
  BY <1>2, <1>6 DEF Finished
<1> QED BY <1>1, <1>2, <1>3, <1>4, <1>5, <1>6 DEF Next

(* Under a manifest without a window everything is denied.                 *)
LEMMA DenyingKept ==
  ASSUME Typed, Denying, [Next]_vars
  PROVE  Denying'
<1>0. Chosen /\ P!TypeOK /\ log \in Seq(Decision)
  BY TypedParts
<1>1. ASSUME UNCHANGED <<setup, override, log>> PROVE Denying'
  BY <1>1 DEF Denying, Script
<1>2. CASE Send
  <2>1. PICK p, w : Sent(p, w)
    BY <1>0, <1>2, SendSteps
  <2>2. OnTheWire(Item) /\ Playing /\ setup' = setup /\ log' = log
    BY <1>0, <1>2, SendSteps
  <2>3. override' = override
    BY <2>1, <2>2, <1>0, ItemPlayed, PacketWrites DEF Sent
  <2> QED BY <1>1, <2>2, <2>3
<1>3. CASE Rest \/ UNCHANGED vars
  BY <1>1, <1>3, RestSteps DEF vars, pipeline
<1>4. CASE ResetDetector
  <2>1. UNCHANGED <<setup, log>> /\ override' = [f \in Flows |-> "none"]
    BY <1>4 DEF ResetDetector
  <2> QED BY <2>1 DEF Denying, Script
<1>5. CASE Decide
  <2>1. PICK d, act, reason : Decided(d, act, reason)
    BY <1>0, <1>5, DecideSteps
  <2>2. setup' = setup /\ Script' = Script
    BY <1>0, <1>5, DecideSteps DEF Script
  <2>3. SUFFICES ASSUME Script.stopped
                 PROVE  /\ \A f \in Flows : override'[f] # "allow"
                        /\ \A j \in 1..Len(log') : log'[j].decision = "DROP"
    BY <2>2 DEF Denying
  <2>4. /\ \A f \in Flows : override[f] # "allow"
        /\ \A j \in 1..Len(log) : log[j].decision = "DROP"
    BY <2>3 DEF Denying
  <2>5. act = "deny" /\ override' = [override EXCEPT ![d.flow] = act]
    BY <2>1, <2>3 DEF Decided
  <2>6. \A f \in Flows : override'[f] # "allow"
    BY <1>0, <2>4, <2>5 DEF P!TypeOK
  <2>7. PICK x : log' = Append(log, x) /\ x.decision = "DROP"
    BY <2>1, <2>5 DEF Decided
  <2>8. log' \in Seq(Decision)
    BY <1>5, DecideTyped DEF Typed
  <2>9. ASSUME NEW j \in 1..Len(log') PROVE log'[j].decision = "DROP"
    <3>1. (j \in 1..Len(log) /\ log'[j] = log[j]) \/ log'[j] = x
      BY ONLY <1>0, <2>7, <2>8, <2>9
    <3> QED BY <2>4, <2>7, <3>1
  <2> QED BY <2>6, <2>9
<1>6. CASE Wait
  BY <1>0, <1>6, WaitSteps DEF Denying, Script
<1>7. CASE Finished
  BY <1>3, <1>7 DEF Finished
<1> QED BY <1>2, <1>3, <1>4, <1>5, <1>6, <1>7 DEF Next

-----------------------------------------------------------------------------
(* One item further, the packets of a flow so far are joined by it or not. *)
LEMMA BeforeOnward ==
  ASSUME Chosen, Advance, NEW f
  PROVE  /\ Before(f) \subseteq 1..(pos - 1) /\ pos \notin Before(f)
         /\ OnTheWire(Item) /\ FlowOf(Item) = f => Before(f)' = Before(f) \cup {pos}
         /\ ~(OnTheWire(Item) /\ FlowOf(Item) = f) => Before(f)' = Before(f)
<1>1. pos' = pos + 1 /\ Script' = Script /\ pos \in 1..Len(Script.items) /\ Item = Script.items[pos]
  BY ItemPlayed DEF Advance
<1>2. 1..(pos' - 1) = (1..(pos - 1)) \cup {pos} /\ pos \notin 1..(pos - 1)
  BY ONLY <1>1
<1> QED BY <1>1, <1>2 DEF Before

LEMMA BeforeIsUses ==
  Uses(Script.items, pos) = Before(FlowOf(Item))
  BY DEF Uses, Before, Item

(* A packet finds its flow as it was, or with one push of a mebibyte.      *)
LEMMA CountedOnward ==
  ASSUME Typed, Counted, Advance, OnTheWire(Item),
         NEW x \in Nat, x <= bytes[FlowOf(Item)] + Item.len, bytes' = [bytes EXCEPT ![FlowOf(Item)] = x],
         cpu' \in Detector,
         \/ cpu'.bytes = cpu.bytes
         \/ cpu'.bytes = [cpu.bytes EXCEPT ![FlowOf(Item)] = cpu.bytes[FlowOf(Item)] + Item.len + FrameHeaders]
  PROVE  Counted'
<1>0. /\ Chosen /\ cpu \in Detector /\ bytes \in [Flows -> 0..(Bits30 - 1)] /\ Script' = Script
      /\ pos \in 1..Len(Script.items) /\ Item = Script.items[pos] /\ Item.len \in Nat
      /\ FlowOf(Item) \in Flows
  BY TypedParts, ItemPlayed DEF Advance, P!TypeOK, ItemType
<1>1. cpu.bytes \in [Flows -> Nat] /\ cpu'.bytes \in [Flows -> Nat]
  BY <1>0 DEF Detector
<1>2. SUFFICES ASSUME NEW f \in Flows PROVE CountedFlow(f)'
  BY DEF Counted
<1>3. CountedFlow(f)
  BY DEF Counted
<1>4. CASE FlowOf(Item) # f
  <2>1. Before(f)' = Before(f) /\ bytes'[f] = bytes[f] /\ cpu'.bytes[f] = cpu.bytes[f]
    BY <1>0, <1>1, <1>4, BeforeOnward
  <2> QED BY <1>0, <1>3, <2>1 DEF CountedFlow
<1>5. CASE FlowOf(Item) = f
  <2>1. Before(f)' = Before(f) \cup {pos} /\ pos \notin Before(f)
    BY <1>0, <1>5, BeforeOnward
  <2>2. bytes'[f] = x /\ (cpu'.bytes[f] = cpu.bytes[f] \/ cpu'.bytes[f] = cpu.bytes[f] + Item.len + FrameHeaders)
    BY <1>0, <1>1, <1>5
  <2>3. ASSUME NEW m \in Before(f)', Before(f)' = {m}, Small(Script.items[m])
        PROVE  bytes'[f] <= MIB /\ cpu'.bytes[f] <= MIB
    <3>1. m = pos /\ Before(f) = {} /\ Item.len + FrameHeaders <= MIB
      BY <1>0, <2>1, <2>3 DEF Small
    <3>2. bytes[f] = 0 /\ cpu.bytes[f] = 0
      BY <1>3, <3>1 DEF CountedFlow
    <3>3. MIB \in Nat /\ FrameHeaders \in Nat
      BY SMT DEF MIB, FrameHeaders
    <3> QED BY <1>0, <1>5, <2>2, <3>1, <3>2, <3>3
  <2>4. Before(f)' # {}
    BY <2>1
  <2> QED BY <1>0, <2>3, <2>4 DEF CountedFlow
<1> QED BY <1>4, <1>5

LEMMA CountedSame ==
  ASSUME Typed, Counted, Advance, ~OnTheWire(Item), cpu' = cpu,
         bytes' = bytes \/ bytes' = [f \in Flows |-> 0]
  PROVE  Counted'
<1>1. SUFFICES ASSUME NEW f \in Flows PROVE CountedFlow(f)'
  BY DEF Counted
<1>2. Chosen /\ Script' = Script /\ CountedFlow(f) /\ 0 <= MIB
  BY TypedParts, SMT DEF Counted, Advance, MIB
<1>3. Before(f)' = Before(f)
  BY <1>2, BeforeOnward
<1>4. bytes'[f] = bytes[f] \/ bytes'[f] = 0
  OBVIOUS
<1> QED BY <1>2, <1>3, <1>4 DEF CountedFlow

(* Rows outlive the item that is played; a rest puts them behind it.       *)
LEMMA RowsOnward ==
  ASSUME Typed, Rows, Advance,
         (override' = override /\ heap' = heap)
           \/ (override' = [f \in Flows |-> "none"] /\ heap' = {})
  PROVE  Rows'
<1>0. /\ Chosen /\ heap \subseteq [flow : Flows, due : Nat] /\ pos \in Nat /\ now \in Nat /\ due \in Nat
      /\ setup.latency \in Nat
  BY TypedParts DEF Chosen
<1>1. /\ pos' = pos + 1 /\ setup' = setup /\ now' = now /\ Script' = Script
      /\ now = due /\ due' \in Nat /\ due <= due' /\ Item = Script.items[pos]
      /\ Item.kind # "reset" => now + Item.wait <= due'
  BY DEF Advance, Item
<1>2. Item.wait \in Nat /\ RolloutPause \in Nat
  <2>1. Item \in ItemType
    BY <1>0, ItemPlayed DEF Advance
  <2> QED BY <2>1, SMT DEF ItemType, RolloutPause
<1>3. CASE override' = [f \in Flows |-> "none"] /\ heap' = {}
  BY <1>3 DEF Rows
<1>4. CASE override' = override /\ heap' = heap
  <2>1. ASSUME NEW g \in heap PROVE TracedRow(g)'
    <3>1. g.flow \in Flows /\ g.due \in Nat
      BY <1>0, <2>1
    <3>2. now < g.due /\ g.due <= now + 5000
      BY <2>1 DEF Rows, TracedRow
    <3>3. PICK m \in Before(g.flow) :
            Rested(Script.items, m, pos) => g.due + RolloutPause <= due + setup.latency + 5000
      BY <2>1 DEF Rows, TracedRow
    <3>4. m \in Before(g.flow)'
      BY <1>0, BeforeOnward
    <3>5. ASSUME Rested(Script.items, m, pos + 1)
          PROVE  g.due + RolloutPause <= due' + setup.latency + 5000
      <4>1. CASE Rested(Script.items, m, pos)
        BY ONLY <1>0, <1>1, <1>2, <3>1, <3>2, <3>3, <4>1, SMT
      <4>2. CASE Item.kind # "reset" /\ Item.wait >= RolloutPause
        BY ONLY <1>0, <1>1, <1>2, <3>1, <3>2, <4>2, SMT
      <4> QED BY <1>0, <1>1, <3>5, <4>1, <4>2, RestedOnward
    <3> QED BY <1>1, <3>2, <3>4, <3>5 DEF TracedRow
  <2> QED BY <1>4, <2>1 DEF Rows
<1> QED BY <1>3, <1>4

LEMMA SendPorted ==
  ASSUME Typed, Ported, Send
  PROVE  Ported'
<1>0. Chosen /\ Advance /\ P!TypeOK /\ cpu \in Detector
  BY TypedParts, Advances
<1>1. PICK p, w : Sent(p, w)
  BY <1>0, SendSteps
<1>2. OnTheWire(Item) /\ Playing /\ heap' = heap
  BY <1>0, SendSteps
<1>3. Item \in ItemType /\ FlowOf(Item) \in Flows /\ p = Parse(Item)
  BY <1>0, <1>1, <1>2, ItemPlayed DEF Sent
<1>4. bytes' = [bytes EXCEPT ![FlowOf(Item)] = P!BytesNow(p)] /\ override' = override
  BY <1>1, <1>3, PacketWrites DEF Sent
<1>5. P!BytesNow(p) \in Nat /\ P!BytesNow(p) <= bytes[FlowOf(Item)] + Item.len
  <2>1. p.len = Item.len /\ Item.len \in Nat
    BY <1>3, Parsed DEF ItemType
  <2>2. P!Slot(p) = FlowOf(Item)
    BY <1>3, PacketClass
  <2>3. bytes[FlowOf(Item)] \in Nat
    BY <1>0, <1>3 DEF P!TypeOK
  <2>4. P!BytesNow(p) = (bytes[FlowOf(Item)] + Item.len) % Bits30
    BY <2>1, <2>2 DEF P!BytesNow
  <2>5. bytes[FlowOf(Item)] + Item.len \in Nat /\ Bits30 \in Nat \ {0}
    BY <2>1, <2>3, Widths
  <2> QED BY ONLY <2>4, <2>5, SMT
<1>6. /\ cpu' \in Detector
      /\ \/ cpu'.bytes = cpu.bytes
         \/ cpu'.bytes = [cpu.bytes EXCEPT ![FlowOf(Item)] = cpu.bytes[FlowOf(Item)] + Item.len + FrameHeaders]
  <2>1. PICK f : f = load_pcap_packets(Item)
    OBVIOUS
  <2>2. f \in Frame /\ f.flow = FlowOf(Item) /\ f.len = Item.len + FrameHeaders
    BY <1>0, <1>2, <1>3, <2>1, FrameTyped
  <2>3. Remembered(cpu, f, cpu')
    BY <1>0, <1>1, <2>1, <2>2, CpuRemembers DEF Sent
  <2>4. cpu.bytes[FlowOf(Item)] \in Nat /\ Item.len \in Nat /\ FrameHeaders \in Nat
    BY <1>0, <1>3, SMT DEF Detector, ItemType, FrameHeaders
  <2>5. cpu.bytes[FlowOf(Item)] + (Item.len + FrameHeaders)
          = cpu.bytes[FlowOf(Item)] + Item.len + FrameHeaders
    BY ONLY <2>4, SMT
  <2> QED BY <2>2, <2>3, <2>5 DEF Remembered
<1>7. Counted'
  BY <1>0, <1>2, <1>4, <1>5, <1>6, CountedOnward DEF Ported
<1>8. Rows'
  BY <1>0, <1>2, <1>4, RowsOnward DEF Ported
<1> QED BY <1>7, <1>8 DEF Ported

LEMMA PortedKept ==
  ASSUME Typed, Traced, Ported, [Next]_vars
  PROVE  Ported'
<1>0. /\ Chosen /\ Counted /\ Rows /\ heap \subseteq [flow : Flows, due : Nat] /\ P!TypeOK
      /\ now \in Nat /\ due \in Nat /\ pos \in Nat /\ setup.latency \in Nat
  BY TypedParts DEF Ported, Chosen
<1>1. CASE Send
  BY <1>1, SendPorted
<1>2. CASE Rest
  <2>1. Advance /\ ~OnTheWire(Item) /\ cpu' = cpu /\ bytes' = bytes /\ override' = override /\ heap' = heap
    BY <1>2, Advances, RestSteps DEF OnTheWire, pipeline
  <2> QED BY <1>0, <2>1, CountedSame, RowsOnward DEF Ported
<1>3. CASE ResetDetector
  <2>1. /\ Advance /\ ~OnTheWire(Item) /\ cpu' = cpu /\ bytes' = [f \in Flows |-> 0]
        /\ override' = [f \in Flows |-> "none"] /\ heap' = {}
    BY <1>3, Advances DEF OnTheWire, ResetDetector
  <2> QED BY <1>0, <2>1, CountedSame, RowsOnward DEF Ported
<1>4. CASE Decide
  <2>1. UNCHANGED <<bytes, setup, now, due, pos, cpu>> /\ Script' = Script
    BY <1>0, <1>4, DecideSteps DEF Script
  <2>2. PICK d, act, reason : Decided(d, act, reason)
    BY <1>0, <1>4, DecideSteps
  <2>3. d \in Digest /\ TracedDigest(d)
    <3>1. queue \in Seq(Digest) /\ queue # <<>> /\ d = Head(queue)
      BY <2>2, TypedParts DEF Decided
    <3>2. d = queue[1] /\ 1 \in 1..Len(queue) /\ d \in Digest
      BY ONLY <3>1
    <3> QED BY <3>2 DEF Traced, Digests
  <2>4. d.at \in Nat /\ d.flow \in Flows
    BY <2>3 DEF Digest
  <2>5. Counted'
    BY <1>0, <2>1 DEF Counted, CountedFlow, Before
  <2> DEFINE r == [flow |-> d.flow, due |-> now + 5000]
  <2>6. r.flow = d.flow /\ r.due = now + 5000 /\ heap' = heap \cup {r}
    BY <2>2 DEF Decided
  <2> HIDE DEF r
  <2>7. TracedRow(r)
    <3>1. r.flow = d.flow /\ r.due = now + 5000
      BY <2>6
    <3>2. d.item \in Before(d.flow)
      BY <2>3 DEF TracedDigest, Before, Played
    <3>3. now <= d.at + setup.latency /\ (Rested(Script.items, d.item, pos) => d.at + RolloutPause <= due)
      BY <2>3 DEF TracedDigest
    <3>4. RolloutPause \in Nat
      BY SMT DEF RolloutPause
    <3>5. now < r.due /\ r.due <= now + 5000
      BY ONLY <1>0, <3>1, SMT
    <3>6. Rested(Script.items, d.item, pos) => r.due + RolloutPause <= due + setup.latency + 5000
      BY ONLY <1>0, <2>4, <3>1, <3>3, <3>4, SMT
    <3> QED BY <3>1, <3>2, <3>5, <3>6 DEF TracedRow
  <2>8. ASSUME NEW h \in heap' PROVE TracedRow(h)'
    <3>1. TracedRow(h)
      BY <1>0, <2>6, <2>7, <2>8 DEF Rows
    <3> QED BY <2>1, <3>1 DEF TracedRow, Before
  <2>9. ASSUME NEW f \in Flows, override'[f] # "none" PROVE \E h \in heap' : h.flow = f
    <3>1. CASE f = d.flow
      BY <2>6, <3>1
    <3>2. CASE f # d.flow
      <4>1. override'[f] = override[f]
        BY <1>0, <2>2, <3>2 DEF Decided, P!TypeOK
      <4> QED BY <1>0, <2>6, <2>9, <4>1 DEF Rows
    <3> QED BY <3>1, <3>2
  <2> QED BY <2>5, <2>8, <2>9 DEF Ported, Rows
<1>5. CASE Wait
  <2>1. /\ UNCHANGED <<bytes, setup, due, pos, cpu>> /\ Script' = Script
        /\ now' \in Nat /\ now < now' /\ heap' = {h \in heap : h.due > now'}
        /\ override' = [f \in Flows |-> IF \E h \in heap : h.flow = f /\ h.due <= now'
                                         THEN "none" ELSE override[f]]
    BY <1>5, WaitSteps DEF Script
  <2>2. Counted'
    BY <1>0, <2>1 DEF Counted, CountedFlow, Before
  <2>3. ASSUME NEW h \in heap' PROVE TracedRow(h)'
    <3>1. h \in heap /\ h.due > now' /\ h.due \in Nat /\ TracedRow(h)
      BY <1>0, <2>1, <2>3 DEF Rows
    <3>2. now' < h.due /\ h.due <= now' + 5000
      <4>1. h.due <= now + 5000
        BY <3>1 DEF TracedRow
      <4> QED BY ONLY <1>0, <2>1, <3>1, <4>1, SMT
    <3> QED BY <2>1, <3>1, <3>2 DEF TracedRow, Before
  <2>4. ASSUME NEW f \in Flows, override'[f] # "none" PROVE \E h \in heap' : h.flow = f
    <3>1. override[f] # "none" /\ \A h \in heap : h.flow = f => ~(h.due <= now')
      BY <2>1, <2>4
    <3>2. PICK h \in heap : h.flow = f
      BY <1>0, <3>1 DEF Rows
    <3>3. h.due > now'
      BY <1>0, <2>1, <3>1, <3>2
    <3> QED BY <2>1, <3>2, <3>3
  <2> QED BY <2>2, <2>3, <2>4 DEF Ported, Rows
<1>6. CASE UNCHANGED vars \/ Finished
  BY <1>0, <1>6 DEF vars, pipeline, Finished, Ported, Counted, CountedFlow, Rows, TracedRow, Before, Script
<1> QED BY <1>1, <1>2, <1>3, <1>4, <1>5, <1>6 DEF Next

-----------------------------------------------------------------------------
(* The pushes that count, one item further: the new one joins them if it   *)
(* commits, and a reset wipes them all.                                    *)
Counts(e, b) == e.flow[2] = b /\ e.flow[1] # ATTACK_SRC /\ e.parsed
LEMMA ResetOnward ==
  ASSUME NEW items, NEW n \in Int, NEW m \in Int, m < n
  PROVE  (\E k \in (m + 1)..(n + 1 - 1) : items[k].kind = "reset")
           <=> \/ \E k \in (m + 1)..(n - 1) : items[k].kind = "reset"
               \/ items[n].kind = "reset"
<1>1. (m + 1)..(n + 1 - 1) = ((m + 1)..(n - 1)) \cup {n}
  OBVIOUS
<1> QED BY <1>1

LEMMA MarkOnward ==
  ASSUME Typed, Events, Advance, NEW b, NEW j \in 1..Len(truth), j \in 1..Len(truth'),
         truth'[j] = truth[j]
  PROVE  j \in Marks(b)' <=> j \in Marks(b) /\ Item.kind # "reset"
<1>1. /\ truth \in Seq(Event) /\ pos \in Int /\ pos' = pos + 1 /\ Script' = Script
      /\ Item = Script.items[pos]
  BY TypedParts DEF Chosen, Advance, Item
<1>2. PICK m : m = truth[j].item
  OBVIOUS
<1>3. m \in 1..(pos - 1)
  BY <1>2 DEF Events, TracedEvent, Played
<1>4. m \in Int /\ m < pos
  BY ONLY <1>1, <1>3
<1>5. PICK items : items = Script.items
  OBVIOUS
<1>6. (\E k \in (m + 1)..(pos + 1 - 1) : items[k].kind = "reset")
        <=> \/ \E k \in (m + 1)..(pos - 1) : items[k].kind = "reset"
            \/ items[pos].kind = "reset"
  BY ONLY <1>1, <1>4, ResetOnward
<1>7. j \in Marks(b) <=> Counts(truth[j], b) /\ ~\E k \in (m + 1)..(pos - 1) : items[k].kind = "reset"
  BY <1>2, <1>5 DEF Marks, Counts, Wiped
<1>8. j \in Marks(b)' <=>
        Counts(truth'[j], b) /\ ~\E k \in (m + 1)..(pos + 1 - 1) : items[k].kind = "reset"
  BY <1>1, <1>2, <1>5 DEF Marks, Counts, Wiped
<1> QED BY <1>1, <1>5, <1>6, <1>7, <1>8

LEMMA MarkNew ==
  ASSUME Typed, Advance, NEW b, NEW e \in Event, truth' = Append(truth, e), e.item = pos
  PROVE  Len(truth) + 1 \in Marks(b)' <=> Counts(e, b)
<1>1. truth \in Seq(Event) /\ pos \in Int /\ pos' = pos + 1
  BY TypedParts DEF Chosen, Advance
<1>2. Len(truth) + 1 \in 1..Len(truth') /\ truth'[Len(truth) + 1] = e
  BY <1>1
<1>3. (pos + 1)..(pos' - 1) = {}
  BY ONLY <1>1
<1> QED BY <1>2, <1>3 DEF Marks, Counts, Wiped

LEMMA MarksSame ==
  ASSUME Typed, Events, Advance, NEW b, Item.kind # "reset",
         \/ truth' = truth
         \/ \E e \in Event : truth' = Append(truth, e) /\ e.item = pos /\ ~Counts(e, b)
  PROVE  Marks(b)' = Marks(b) /\ \A j \in Marks(b) : truth'[j] = truth[j]
<1>0. truth \in Seq(Event) /\ Marks(b) \subseteq 1..Len(truth) /\ Marks(b)' \subseteq 1..Len(truth')
  BY TypedParts DEF Marks
<1>1. \A j \in 1..Len(truth) : truth'[j] = truth[j] /\ j \in 1..Len(truth')
  BY <1>0, AppendCases
<1>2. \A j \in 1..Len(truth) : j \in Marks(b)' <=> j \in Marks(b)
  BY <1>1, MarkOnward
<1>3. \A j \in 1..Len(truth') : j \in 1..Len(truth) \/ j \notin Marks(b)'
  <2>1. CASE truth' = truth
    BY <2>1
  <2>2. ASSUME NEW e \in Event, truth' = Append(truth, e), e.item = pos, ~Counts(e, b),
               NEW j \in 1..Len(truth')
        PROVE  j \in 1..Len(truth) \/ j \notin Marks(b)'
    <3>1. j \in 1..Len(truth) \/ j = Len(truth) + 1
      BY ONLY <1>0, <2>2
    <3> QED BY <2>2, <3>1, MarkNew
  <2> QED BY <2>1, <2>2
<1> QED BY <1>0, <1>1, <1>2, <1>3

LEMMA MarksMore ==
  ASSUME Typed, Events, Advance, NEW b, Item.kind # "reset",
         NEW e \in Event, truth' = Append(truth, e), e.item = pos, Counts(e, b)
  PROVE  /\ Marks(b)' = Marks(b) \cup {Len(truth) + 1} /\ truth'[Len(truth) + 1] = e
         /\ \A j \in Marks(b) : truth'[j] = truth[j]
<1>0. truth \in Seq(Event) /\ Marks(b) \subseteq 1..Len(truth) /\ Marks(b)' \subseteq 1..Len(truth')
  BY TypedParts DEF Marks
<1>1. \A j \in 1..Len(truth) : truth'[j] = truth[j] /\ j \in 1..Len(truth')
  BY <1>0, AppendCases
<1>2. \A j \in 1..Len(truth) : j \in Marks(b)' <=> j \in Marks(b)
  BY <1>1, MarkOnward
<1>3. Len(truth) + 1 \in Marks(b)'
  BY MarkNew
<1>4. truth'[Len(truth) + 1] = e /\ \A j \in 1..Len(truth') : j \in 1..Len(truth) \/ j = Len(truth) + 1
  BY ONLY <1>0, truth' = Append(truth, e)
<1> QED BY <1>0, <1>1, <1>2, <1>3, <1>4

LEMMA MarksNone ==
  ASSUME Typed, Events, Advance, NEW b, Item.kind = "reset", truth' = truth
  PROVE  Marks(b)' = {}
<1>1. Marks(b)' \subseteq 1..Len(truth)
  BY DEF Marks
<1> QED BY <1>1, MarkOnward

-----------------------------------------------------------------------------
(* What is remembered of a BMS stays while nothing is pushed to it.        *)
LEMMA StillRemembered ==
  ASSUME setup' = setup, now' = now, NEW b, Floor(b), Stamp(b),
         Marks(b)' = Marks(b), \A j \in Marks(b) : truth'[j] = truth[j],
         lastSeen'[b] = lastSeen[b], maxVersion'[b] = maxVersion[b]
  PROVE  Floor(b)' /\ Stamp(b)'
<1>1. Script' = Script
  BY DEF Script
<1>2. Floor(b)'
  BY <1>1 DEF Floor
<1>3. PICK n : n = now
  OBVIOUS
<1>4. ReseedRun(now)' = ReseedRun(now)
  BY <1>3, SMT DEF ReseedRun
<1>5. \A k \in Marks(b) : Current(k)' <=> Current(k)
  BY <1>4 DEF Current
<1>6. ASSUME NEW k \in Marks(b) PROVE CoarseAt(truth[k].at)' = CoarseAt(truth[k].at)
  <2>1. PICK t : t = truth[k].at
    OBVIOUS
  <2>2. t = truth'[k].at
    BY <1>6, <2>1
  <2>3. CoarseAt(t)' = CoarseAt(t)
    BY SameClock
  <2>4. CoarseAt(truth[k].at)' = CoarseAt(t)'
    BY <2>2, SMT DEF CoarseAt, Second, ReseedRun, ClockRun
  <2> QED BY <2>1, <2>3, <2>4
<1>7. Stamp(b)'
  <2>1. SUFFICES ASSUME \E j \in Marks(b) : Current(j)
                 PROVE  \E k \in Marks(b) : Current(k) /\ lastSeen[b] = P!OddOf(CoarseAt(truth[k].at)')
    BY <1>5 DEF Stamp
  <2>2. PICK k \in Marks(b) : Current(k) /\ lastSeen[b] = P!OddOf(CoarseAt(truth[k].at))
    BY <2>1 DEF Stamp
  <2> QED BY <1>6, <2>2
<1> QED BY <1>2, <1>7

LEMMA LostKept ==
  ASSUME Typed, truth' = truth \/ \E e \in Event : truth' = Append(truth, e), NEW b, Lost(b)
  PROVE  Lost(b)'
<1>1. truth \in Seq(Event)
  BY TypedParts
<1>2. PICK j \in 1..Len(truth) : Misses(truth[j], b)
  BY DEF Lost
<1>3. j \in 1..Len(truth') /\ truth'[j] = truth[j]
  <2>1. CASE truth' = truth
    BY <1>2, <2>1
  <2>2. ASSUME NEW e \in Event, truth' = Append(truth, e)
        PROVE  j \in 1..Len(truth') /\ truth'[j] = truth[j]
    BY ONLY <1>1, <1>2, <2>2
  <2> QED BY <2>1, <2>2
<1>4. Misses(truth'[j], b)
  BY <1>2, <1>3
<1> QED BY <1>3, <1>4 DEF Lost, Misses

LEMMA StillTwin ==
  ASSUME setup' = setup, now' = now, NEW b, Twin(b),
         Marks(b)' = Marks(b), \A j \in Marks(b) : truth'[j] = truth[j], Lost(b) => Lost(b)',
         lastSeen'[b] = lastSeen[b], maxVersion'[b] = maxVersion[b],
         cpu'.last[b] = cpu.last[b], cpu'.max[b] = cpu.max[b]
  PROVE  Twin(b)'
<1>1. PICK n : n = now
  OBVIOUS
<1>2. SeedOf(Seeding(n))' = SeedOf(Seeding(n))
  <2>1. PICK m : m = Seeding(n)
    OBVIOUS
  <2>2. Seeding(n)' = m /\ SeedOf(m)' = SeedOf(m)
    BY <2>1, SameClock
  <2>3. SeedOf(Seeding(n))' = SeedOf(m)'
    BY <2>2, SMT DEF SeedOf, Second
  <2> QED BY <2>1, <2>2, <2>3
<1>3. SeedOf(Seeding(now))' = SeedOf(Seeding(n))'
  BY <1>1, SMT DEF SeedOf, Second, Seeding, ReseedRun
<1>4. SeedOf(Seeding(now))' = SeedOf(Seeding(now))
  BY <1>1, <1>2, <1>3
<1> QED BY <1>4 DEF Twin

(* A push that commits is what is remembered from now on. *)
Pushed(p) ==
  /\ OnTheWire(Item) /\ p = Parse(Item) /\ P!Packet(p) /\ P!Commits(p)
  /\ truth' = Append(truth, EventOf(p)) /\ EventOf(p) \in Event
LEMMA PushMarks ==
  ASSUME Typed, Events, Advance, NEW p, Pushed(p), NEW b, b = Item.bms, NEW k, k = Len(truth) + 1
  PROVE  /\ b \in Known /\ Item \in ItemType /\ FlowOf(Item) \in Flows
         /\ Marks(b)' = Marks(b) \cup {k} /\ truth'[k].at = now /\ truth'[k].item = pos
         /\ \A j \in Marks(b) : truth'[j] = truth[j]
<1>0. Chosen /\ Item \in ItemType /\ FlowOf(Item) \in Flows /\ p = Parse(Item)
  BY TypedParts, ItemPlayed DEF Advance, Pushed
<1>1. Item.bms \in Known /\ Item.src # ATTACK_SRC /\ P!OtaPush(p) /\ Item.kind # "reset"
  BY <1>0, PacketClass DEF Pushed, HeaderRead
<1>2. PICK e : e = EventOf(p)
  OBVIOUS
<1>3. p.flow = FlowOf(Item)
  BY <1>0, Parsed
<1>4. FlowOf(Item)[1] = Item.src /\ FlowOf(Item)[2] = Item.bms
  BY DEF FlowOf
<1>5. e.at = now /\ e.item = pos /\ Counts(e, b) /\ e \in Event /\ truth' = Append(truth, e)
  BY <1>1, <1>2, <1>3, <1>4 DEF EventOf, Counts, Pushed
<1>6. /\ Marks(b)' = Marks(b) \cup {Len(truth) + 1} /\ truth'[Len(truth) + 1] = e
      /\ \A j \in Marks(b) : truth'[j] = truth[j]
  BY <1>1, <1>5, MarksMore
<1> QED BY <1>0, <1>1, <1>5, <1>6

LEMMA PushRemembered ==
  ASSUME Typed, Clocked, Events, Advance, NEW p, Pushed(p), NEW b, b = Item.bms, Floor(b)
  PROVE  Floor(b)' /\ Stamp(b)'
<1>k. PICK k : k = Len(truth) + 1
  OBVIOUS
<1>0. /\ b \in Known /\ Item \in ItemType /\ FlowOf(Item) \in Flows
      /\ Marks(b)' = Marks(b) \cup {k} /\ truth'[k].at = now /\ truth'[k].item = pos
      /\ \A j \in Marks(b) : truth'[j] = truth[j]
  BY <1>k, PushMarks
<1>1. /\ Chosen /\ P!TypeOK /\ now \in Nat /\ setup' = setup /\ now' = now /\ Script' = Script
      /\ Item = Script.items[pos] /\ p = Parse(Item)
  BY TypedParts DEF Chosen, Advance, Item, Pushed
<1>2. /\ lastSeen' = [lastSeen EXCEPT ![b] = P!OddOf(coarse)]
      /\ maxVersion' = IF P!R6(p) THEN maxVersion ELSE [maxVersion EXCEPT ![b] = Item.version]
  BY <1>0, <1>1, PacketWrites DEF Pushed
<1>3. P!R6(p) <=> Item.version < maxVersion[b]
  <2>1. P!Dst(p) = b /\ p.version = Item.version /\ P!BmsPush(p)
    BY <1>0, <1>1, PacketClass, Parsed DEF Pushed, P!Commits
  <2> QED BY <2>1 DEF P!R6
<1>4. maxVersion \in [Known -> Nat] /\ lastSeen \in [Known -> 0..(Bits16 - 1)]
  BY <1>1 DEF P!TypeOK
<1>5. maxVersion'[b] >= maxVersion[b] /\ maxVersion'[b] >= Item.version /\ maxVersion'[b] \in Nat
  <2>1. Item.version \in Nat
    BY <1>0 DEF ItemType
  <2> QED BY <1>0, <1>2, <1>3, <1>4, <2>1
<1>6. Floor(b)'
  <2>1. SUFFICES ASSUME NEW j \in Marks(b) \cup {k}
                 PROVE  Script.items[truth'[j].item].version <= maxVersion'[b]
    BY <1>0, <1>1 DEF Floor
  <2>2. CASE j = k
    BY <1>0, <1>1, <1>5, <2>2
  <2>3. CASE j \in Marks(b)
    <3>1. PICK m : m = truth[j].item
      OBVIOUS
    <3>2. m = truth'[j].item /\ Script.items[m].version <= maxVersion[b]
      BY <1>0, <2>3, <3>1 DEF Floor
    <3>3. Script.items[m].version \in Nat
      <4>1. m \in 1..(pos - 1) /\ pos \in 1..Len(Script.items) /\ pos \in Int
        BY <1>1, <2>3, <3>1, ItemPlayed DEF Events, TracedEvent, Played, Marks, Advance
      <4>2. m \in 1..Len(Script.items)
        BY ONLY <4>1
      <4> QED BY <1>1, <4>2, ItemGiven DEF ItemType
    <3> QED BY <1>0, <1>4, <1>5, <3>2, <3>3
  <2> QED BY <2>1, <2>2, <2>3
<1>7. Stamp(b)'
  <2>1. PICK t : t = now
    OBVIOUS
  <2>2. lastSeen'[b] = P!OddOf(CoarseAt(t))
    BY <1>0, <1>2, <1>4, <2>1 DEF Clocked
  <2>3. CoarseAt(t)' = CoarseAt(t) /\ ReseedRun(t)' = ReseedRun(t) /\ ReseedRun(t) <= t
    BY <1>1, <2>1, SameClock, ThreadRuns
  <2>4. CoarseAt(truth[k].at)' = CoarseAt(t)' /\ ReseedRun(now)' = ReseedRun(t)'
    BY <1>0, <1>1, <2>1, SMT DEF CoarseAt, Second, ReseedRun, ClockRun
  <2>5. Current(k)'
    <3>1. ReseedRun(now)' <= truth'[k].at
      BY <1>0, <2>1, <2>3, <2>4
    <3> QED BY <3>1 DEF Current
  <2>6. lastSeen'[b] = P!OddOf(CoarseAt(truth[k].at)')
    BY <2>2, <2>3, <2>4
  <2> QED BY <1>0, <2>5, <2>6 DEF Stamp
<1> QED BY <1>6, <1>7

(* The detector counts what the pipeline commits, and the pushes whose     *)
(* header the switch misses.                                               *)
LEMMA SameCounts ==
  ASSUME Chosen, Playing, OnTheWire(Item), NEW p, p = Parse(Item), NEW f, f = load_pcap_packets(Item)
  PROVE  /\ CpuCounts(f) <=> Item.kind = "push" /\ Item.bms \in Known /\ Item.src \in Authorized
         /\ P!Commits(p) <=> CpuCounts(f) /\ P!OtaPush(p)
         /\ Item.src \in Authorized <=> Item.src # ATTACK_SRC
<1>1. Item \in ItemType /\ FlowOf(Item) \in Flows
  BY ItemPlayed
<1>2. Item.src \in Authorized <=> Item.src # ATTACK_SRC
  BY <1>1, FlowGiven DEF FlowOf
<1>3. CpuCounts(f) <=> Item.kind = "push" /\ Item.bms \in Known /\ Item.src \in Authorized
  BY FrameTyped DEF CpuCounts
<1>4. /\ P!Commits(p) <=> HeaderRead(Item) /\ Item.bms \in Known /\ Item.src # ATTACK_SRC
      /\ P!OtaPush(p) <=> HeaderRead(Item)
  BY <1>1, PacketClass
<1>5. HeaderRead(Item) => Item.kind = "push"
  BY DEF HeaderRead
<1> QED BY <1>2, <1>3, <1>4, <1>5

LEMMA PushTwin ==
  ASSUME Typed, Events, Advance, NEW p, Pushed(p), NEW b, b = Item.bms, Twin(b),
         Remembered(cpu, load_pcap_packets(Item), cpu')
  PROVE  Twin(b)'
<1>k. PICK k : k = Len(truth) + 1
  OBVIOUS
<1>0. /\ b \in Known /\ Item \in ItemType /\ FlowOf(Item) \in Flows
      /\ Marks(b)' = Marks(b) \cup {k} /\ truth'[k].at = now
  BY <1>k, PushMarks
<1>1. Chosen /\ P!TypeOK /\ cpu \in Detector /\ Playing /\ OnTheWire(Item) /\ p = Parse(Item)
  BY TypedParts DEF Advance, Pushed
<1>2. PICK f : f = load_pcap_packets(Item)
  OBVIOUS
<1>3. f \in Frame /\ f.bms = b /\ f.at = now /\ f.version = Item.version /\ CpuCounts(f)
  BY <1>1, <1>2, FrameTyped, SameCounts DEF Pushed
<1>4. maxVersion' = IF P!R6(p) THEN maxVersion ELSE [maxVersion EXCEPT ![b] = Item.version]
  BY <1>0, <1>1, PacketWrites DEF Pushed
<1>5. P!R6(p) <=> Item.version < maxVersion[b]
  <2>1. P!Dst(p) = b /\ p.version = Item.version /\ P!BmsPush(p)
    BY <1>0, <1>1, PacketClass, Parsed DEF Pushed, P!Commits
  <2> QED BY <2>1 DEF P!R6
<1>6. CpuR6(cpu, f) <=> Item.version < cpu.max[b]
  BY <1>3 DEF CpuR6
<1>7. /\ cpu.max \in [Bms -> Nat] /\ cpu.last \in [Bms -> Int] /\ b \in Bms
      /\ maxVersion \in [Known -> Nat] /\ Item.version \in Nat /\ now \in Nat
  BY <1>0, <1>1, <1>3 DEF Detector, P!TypeOK, Frame, ItemType, Chosen
<1>8. /\ cpu'.last = [cpu.last EXCEPT ![b] = now]
      /\ cpu'.max = IF CpuR6(cpu, f) THEN cpu.max ELSE [cpu.max EXCEPT ![b] = Item.version]
  BY <1>2, <1>3 DEF Remembered
<1>9. /\ cpu'.last[b] = now
      /\ maxVersion'[b] = IF Item.version < maxVersion[b] THEN maxVersion[b] ELSE Item.version
      /\ cpu'.max[b] = IF Item.version < cpu.max[b] THEN cpu.max[b] ELSE Item.version
  BY <1>0, <1>4, <1>5, <1>6, <1>7, <1>8
<1>10. /\ maxVersion'[b] <= cpu'.max[b]
       /\ cpu.max[b] = maxVersion[b] => cpu'.max[b] = maxVersion'[b]
  <2>1. maxVersion[b] <= cpu.max[b] /\ maxVersion[b] \in Nat /\ cpu.max[b] \in Nat
    BY <1>0, <1>7 DEF Twin
  <2> QED BY ONLY <1>7, <1>9, <2>1, SMT
<1>11. Lost(b) => Lost(b)'
  BY LostKept DEF Pushed
<1> QED BY <1>0, <1>7, <1>9, <1>10, <1>11 DEF Twin

(* A push whose header the switch misses is remembered by the detector only. *)
LEMMA MissTwin ==
  ASSUME Typed, Events, Advance, NEW b \in Known, b = Item.bms, Twin(b),
         NEW f \in Frame, f.bms = b, f.at = now, CpuCounts(f), Remembered(cpu, f, cpu'),
         Marks(b)' = Marks(b), \A j \in Marks(b) : truth'[j] = truth[j], Lost(b)',
         lastSeen' = lastSeen, maxVersion' = maxVersion
  PROVE  Twin(b)'
<1>1. /\ Chosen /\ P!TypeOK /\ cpu \in Detector /\ truth \in Seq(Event) /\ setup' = setup
      /\ now' = now /\ now \in Nat
  BY TypedParts DEF Advance, Chosen
<1>2. /\ cpu.max \in [Bms -> Nat] /\ cpu.last \in [Bms -> Int] /\ b \in Bms
      /\ maxVersion \in [Known -> Nat] /\ f.version \in Nat
  BY <1>1 DEF Detector, P!TypeOK, Frame, Bms
<1>3. cpu'.last[b] = now
  BY <1>2 DEF Remembered
<1>4. maxVersion[b] <= cpu'.max[b]
  <2>1. maxVersion[b] <= cpu.max[b] /\ maxVersion[b] \in Nat /\ cpu.max[b] \in Nat
    BY <1>2 DEF Twin
  <2>2. CASE CpuR6(cpu, f)
    BY <2>1, <2>2 DEF Remembered
  <2>3. CASE ~CpuR6(cpu, f)
    <3>1. cpu'.max[b] = f.version
      BY <1>2, <2>3 DEF Remembered
    <3>2. ~(f.version < cpu.max[b])
      BY <2>3 DEF CpuR6
    <3> QED BY ONLY <1>2, <2>1, <3>1, <3>2, SMT
  <2> QED BY <2>2, <2>3
<1>5. ASSUME Marks(b) # {} PROVE \E k \in Marks(b) : truth'[k].at <= cpu'.last[b]
  <2>1. PICK k \in Marks(b) : TRUE
    BY <1>5
  <2>2. k \in 1..Len(truth)
    BY <2>1 DEF Marks
  <2>3. truth[k].at <= now
    BY <2>2 DEF Events, TracedEvent
  <2> QED BY <1>3, <2>1, <2>3
<1>6. SeedOf(Seeding(now))' = SeedOf(Seeding(now))
  <2>1. PICK n : n = now
    OBVIOUS
  <2>2. PICK m : m = Seeding(n)
    OBVIOUS
  <2>3. Seeding(n)' = m /\ SeedOf(m)' = SeedOf(m)
    BY <1>1, <2>2, SameClock
  <2>4. SeedOf(Seeding(n))' = SeedOf(m)'
    BY <2>3, SMT DEF SeedOf, Second
  <2>5. SeedOf(Seeding(now))' = SeedOf(Seeding(n))'
    BY <1>1, <2>1, SMT DEF SeedOf, Second, Seeding, ReseedRun
  <2> QED BY <2>1, <2>2, <2>3, <2>4, <2>5
<1> QED BY <1>4, <1>5, <1>6 DEF Twin

LEMMA UnresetOnward ==
  ASSUME Typed, Advance, Unreset(pos - 1)'
  PROVE  Unreset(pos - 1) /\ Item.kind # "reset"
<1>1. pos \in Nat \ {0}
  BY TypedParts DEF Chosen
<1>2. pos' = pos + 1 /\ Script' = Script /\ Item = Script.items[pos]
  BY DEF Advance, Item
<1>3. 1..(pos' - 1) = (1..(pos - 1)) \cup {pos}
  BY ONLY <1>1, <1>2
<1> QED BY <1>2, <1>3 DEF Unreset

(* No push that commits: as before, for every BMS. *)
LEMMA QuietRemembered ==
  ASSUME Typed, Events, Remembering, Twinned, Advance, Item.kind # "reset",
         \/ truth' = truth
         \/ \E e \in Event : truth' = Append(truth, e) /\ e.item = pos /\ \A b \in Known : ~Counts(e, b),
         lastSeen' = lastSeen, maxVersion' = maxVersion, cpu'.last = cpu.last, cpu'.max = cpu.max
  PROVE  Remembering' /\ Twinned'
<1>0. setup' = setup /\ now' = now
  BY DEF Advance
<1>1. \A b \in Known : Marks(b)' = Marks(b) /\ \A j \in Marks(b) : truth'[j] = truth[j]
  BY MarksSame
<1>2. \A b \in Known : Floor(b)' /\ Stamp(b)'
  BY <1>0, <1>1, StillRemembered DEF Remembering
<1>3. ASSUME Unreset(pos - 1)' PROVE \A b \in Known : Twin(b)'
  <2>1. \A b \in Known : Twin(b)
    BY <1>3, UnresetOnward DEF Twinned
  <2>2. \A b \in Known : Lost(b) => Lost(b)'
    BY LostKept
  <2> QED BY <1>0, <1>1, <2>1, <2>2, StillTwin
<1> QED BY <1>2, <1>3 DEF Remembering, Twinned

LEMMA PushesRemembered ==
  ASSUME Typed, Clocked, Events, Remembering, Twinned, Advance, NEW p, Pushed(p),
         Remembered(cpu, load_pcap_packets(Item), cpu')
  PROVE  Remembering' /\ Twinned'
<1>1. PICK b : b = Item.bms
  OBVIOUS
<1>2. /\ b \in Known /\ Chosen /\ P!TypeOK /\ cpu \in Detector /\ Playing /\ OnTheWire(Item)
      /\ p = Parse(Item) /\ Item \in ItemType /\ FlowOf(Item) \in Flows /\ Item.kind # "reset"
      /\ setup' = setup /\ now' = now
  BY <1>1, TypedParts, PushMarks DEF Advance, Pushed, OnTheWire
<1>3. Floor(b)' /\ Stamp(b)'
  BY <1>1, <1>2, PushRemembered DEF Remembering
<1>4. ASSUME NEW c \in Known, c # b
      PROVE  /\ Marks(c)' = Marks(c) /\ \A j \in Marks(c) : truth'[j] = truth[j]
             /\ lastSeen'[c] = lastSeen[c] /\ maxVersion'[c] = maxVersion[c]
             /\ cpu'.last[c] = cpu.last[c] /\ cpu'.max[c] = cpu.max[c]
             /\ Lost(c) => Lost(c)'
  <2>1. PICK e : e = EventOf(p)
    OBVIOUS
  <2>2. e.item = pos /\ e.flow = FlowOf(Item) /\ e \in Event /\ truth' = Append(truth, e)
    BY <1>2, <2>1, Parsed DEF EventOf, Pushed
  <2>3. ~Counts(e, c)
    BY <1>1, <1>4, <2>2 DEF Counts, FlowOf
  <2>4. Marks(c)' = Marks(c) /\ \A j \in Marks(c) : truth'[j] = truth[j]
    BY <1>2, <2>2, <2>3, MarksSame
  <2>5. lastSeen'[c] = lastSeen[c] /\ maxVersion'[c] = maxVersion[c]
    <3>1. lastSeen' = [lastSeen EXCEPT ![b] = P!OddOf(coarse)]
      BY <1>1, <1>2, PacketWrites DEF Pushed
    <3>2. maxVersion' = maxVersion \/ maxVersion' = [maxVersion EXCEPT ![b] = Item.version]
      BY <1>1, <1>2, PacketWrites DEF Pushed
    <3> QED BY <1>2, <1>4, <3>1, <3>2 DEF P!TypeOK
  <2>6. cpu'.last[c] = cpu.last[c] /\ cpu'.max[c] = cpu.max[c]
    <3>1. PICK f : f = load_pcap_packets(Item)
      OBVIOUS
    <3>2. f.bms = b /\ CpuCounts(f)
      BY <1>1, <1>2, <3>1, FrameTyped, SameCounts DEF Pushed
    <3>3. /\ cpu'.last = [cpu.last EXCEPT ![b] = f.at]
          /\ cpu'.max = cpu.max \/ cpu'.max = [cpu.max EXCEPT ![b] = f.version]
      BY <3>1, <3>2 DEF Remembered
    <3>4. cpu.last \in [Bms -> Int] /\ cpu.max \in [Bms -> Nat] /\ c \in Bms
      BY <1>2, <1>4 DEF Detector, Bms
    <3> QED BY <1>4, <3>3, <3>4
  <2>7. Lost(c) => Lost(c)'
    BY <2>2, LostKept
  <2> QED BY <2>4, <2>5, <2>6, <2>7
<1>5. Remembering'
  <2>1. ASSUME NEW c \in Known PROVE Floor(c)' /\ Stamp(c)'
    <3>1. CASE c = b
      BY <1>3, <3>1
    <3>2. CASE c # b
      BY <1>2, <1>4, <3>2, StillRemembered DEF Remembering
    <3> QED BY <3>1, <3>2
  <2> QED BY <2>1 DEF Remembering
<1>6. ASSUME Unreset(pos - 1)' PROVE \A c \in Known : Twin(c)'
  <2>1. \A c \in Known : Twin(c)
    BY <1>6, UnresetOnward DEF Twinned
  <2>2. ASSUME NEW c \in Known PROVE Twin(c)'
    <3>1. CASE c = b
      BY <1>1, <2>1, <3>1, PushTwin
    <3>2. CASE c # b
      BY <1>2, <1>4, <2>1, <3>2, StillTwin
    <3> QED BY <3>1, <3>2
  <2> QED BY <2>2
<1> QED BY <1>5, <1>6 DEF Twinned

LEMMA MissRemembered ==
  ASSUME Typed, Events, Remembering, Twinned, Advance, Item.kind # "reset",
         NEW e \in Event, truth' = Append(truth, e), e.item = pos, \A b \in Known : ~Counts(e, b),
         NEW f \in Frame, CpuCounts(f), f.bms = Item.bms, f.at = now, Misses(e, Item.bms),
         Remembered(cpu, f, cpu'), lastSeen' = lastSeen, maxVersion' = maxVersion
  PROVE  Remembering' /\ Twinned'
<1>0. setup' = setup /\ now' = now /\ cpu \in Detector
  BY TypedParts DEF Advance
<1>1. \A b \in Known : Marks(b)' = Marks(b) /\ \A j \in Marks(b) : truth'[j] = truth[j]
  BY MarksSame
<1>2. \A b \in Known : Floor(b)' /\ Stamp(b)'
  BY <1>0, <1>1, StillRemembered DEF Remembering
<1>3. ASSUME Unreset(pos - 1)', NEW b \in Known PROVE Twin(b)'
  <2>1. Twin(b)
    BY <1>3, UnresetOnward DEF Twinned
  <2>2. CASE b = Item.bms
    <3>1. Lost(b)'
      <4>1. truth \in Seq(Event)
        BY TypedParts
      <4>2. Len(truth) + 1 \in 1..Len(truth') /\ truth'[Len(truth) + 1] = e
        BY ONLY <4>1, truth' = Append(truth, e), e \in Event
      <4> QED BY <2>2, <4>2 DEF Lost, Misses
    <3> QED BY <1>1, <2>1, <2>2, <3>1, MissTwin
  <2>3. CASE b # Item.bms
    <3>1. cpu'.last[b] = cpu.last[b] /\ cpu'.max[b] = cpu.max[b]
      <4>1. /\ cpu'.last = [cpu.last EXCEPT ![Item.bms] = f.at]
            /\ cpu'.max = cpu.max \/ cpu'.max = [cpu.max EXCEPT ![Item.bms] = f.version]
        BY DEF Remembered
      <4>2. cpu.last \in [Bms -> Int] /\ cpu.max \in [Bms -> Nat] /\ b \in Bms
        BY <1>0, <1>3 DEF Detector, Bms
      <4> QED BY <2>3, <4>1, <4>2
    <3>2. Lost(b) => Lost(b)'
      BY LostKept
    <3> QED BY <1>0, <1>1, <2>1, <3>1, <3>2, StillTwin
  <2> QED BY <2>2, <2>3
<1> QED BY <1>2, <1>3 DEF Remembering, Twinned

LEMMA SendRemembered ==
  ASSUME Typed, Clocked, Traced, Remembering, Twinned, Send
  PROVE  Remembering' /\ Twinned'
<1>0. Chosen /\ Advance /\ Events /\ cpu \in Detector /\ truth \in Seq(Event)
  BY TypedParts, Advances DEF Traced
<1>1. PICK p, w : Sent(p, w)
  BY <1>0, SendSteps
<1>2. /\ OnTheWire(Item) /\ Playing /\ Item.kind # "reset" /\ Item \in ItemType
      /\ FlowOf(Item) \in Flows /\ p = Parse(Item) /\ P!Packet(p)
  BY <1>0, <1>1, SendSteps, ItemPlayed DEF Sent, OnTheWire
<1>3. PICK f : f = load_pcap_packets(Item)
  OBVIOUS
<1>4. /\ f \in Frame /\ f.bms = Item.bms /\ f.at = now
      /\ CpuCounts(f) <=> Item.kind = "push" /\ Item.bms \in Known /\ Item.src \in Authorized
      /\ P!Commits(p) <=> CpuCounts(f) /\ P!OtaPush(p)
  BY <1>0, <1>2, <1>3, FrameTyped, SameCounts
<1>5. Remembered(cpu, f, cpu')
  BY <1>0, <1>1, <1>3, <1>4, CpuRemembers DEF Sent
<1>6. truth' = truth \/ (truth' = Append(truth, EventOf(p)) /\ EventOf(p) \in Event)
  <2>1. CASE truth' = truth
    BY <2>1
  <2>2. CASE truth' = Append(truth, EventOf(p))
    <3>1. truth' \in Seq(Event)
      BY SendTyped DEF Typed
    <3>2. PICK e : e = EventOf(p)
      OBVIOUS
    <3>3. Len(truth) + 1 \in 1..Len(truth') /\ truth'[Len(truth) + 1] = e
      BY <1>0, <2>2, <3>1, <3>2
    <3> QED BY <2>2, <3>1, <3>2, <3>3
  <2> QED BY <1>1, <2>1, <2>2 DEF Sent
<1>7. CASE P!Commits(p)
  <2>1. Item.kind = "push"
    BY <1>2, <1>7, PacketClass DEF HeaderRead
  <2>2. truth' = Append(truth, EventOf(p))
    BY <1>1, <2>1 DEF Sent
  <2>3. truth' # truth
    BY <1>0, <1>6, <2>2
  <2>4. EventOf(p) \in Event
    BY <1>6, <2>3
  <2>5. Pushed(p)
    BY <1>2, <1>7, <2>2, <2>4 DEF Pushed
  <2> QED BY <1>0, <1>3, <1>5, <2>5, PushesRemembered
<1>8. CASE ~P!Commits(p)
  <2>1. lastSeen' = lastSeen /\ maxVersion' = maxVersion
    BY <1>2, <1>8, PacketWrites
  <2>2. PICK e : e = EventOf(p)
    OBVIOUS
  <2>3. e.item = pos /\ e.flow[1] = Item.src /\ e.flow[2] = Item.bms /\ (e.parsed <=> P!OtaPush(p))
    <3>1. p.flow = FlowOf(Item) /\ FlowOf(Item)[1] = Item.src /\ FlowOf(Item)[2] = Item.bms
      BY <1>2, Parsed DEF FlowOf
    <3> QED BY <2>2, <3>1 DEF EventOf
  <2>4. \A b \in Known : ~Counts(e, b)
    <3>1. ~(P!OtaPush(p) /\ Item.bms \in Known /\ Item.src # ATTACK_SRC)
      BY <1>2, <1>8, PacketClass
    <3> QED BY <2>3, <3>1 DEF Counts
  <2>5. \/ truth' = truth
        \/ \E d \in Event : truth' = Append(truth, d) /\ d.item = pos /\ \A b \in Known : ~Counts(d, b)
    BY <1>6, <2>2, <2>3, <2>4
  <2>6. CASE ~CpuCounts(f)
    <3>1. cpu'.last = cpu.last /\ cpu'.max = cpu.max
      BY <1>5, <2>6 DEF Remembered
    <3> QED BY <1>0, <1>2, <2>1, <2>5, <3>1, QuietRemembered
  <2>7. CASE CpuCounts(f)
    <3>1. truth' = Append(truth, e) /\ e \in Event
      <4>1. truth' = Append(truth, e)
        BY <1>1, <1>4, <2>2, <2>7 DEF Sent
      <4>2. truth' # truth
        BY <1>0, <1>6, <2>2, <4>1
      <4> QED BY <1>6, <2>2, <4>1, <4>2
    <3>2. Misses(e, Item.bms)
      BY <1>4, <1>8, <2>3, <2>7 DEF Misses
    <3> QED BY <1>0, <1>2, <1>4, <1>5, <2>1, <2>3, <2>4, <2>7, <3>1, <3>2, MissRemembered
  <2> QED BY <2>6, <2>7
<1> QED BY <1>7, <1>8

LEMMA RestRemembered ==
  ASSUME Typed, Traced, Remembering, Twinned, Rest
  PROVE  Remembering' /\ Twinned'
<1>0. Chosen /\ Advance /\ Events
  BY TypedParts, Advances DEF Traced
<1>1. /\ lastSeen' = lastSeen /\ maxVersion' = maxVersion /\ cpu' = cpu /\ Item.kind # "reset" /\ Playing
      /\ truth' = truth \/ truth' = Append(truth, MarkerEvent)
  BY RestSteps DEF pipeline
<1>2. \/ truth' = truth
      \/ \E e \in Event : truth' = Append(truth, e) /\ e.item = pos /\ \A b \in Known : ~Counts(e, b)
  <2>1. PICK e : e = MarkerEvent
    OBVIOUS
  <2>2. e \in Event /\ e.item = pos /\ ~e.parsed
    BY <1>0, <1>1, <2>1, MarkerTyped DEF MarkerEvent
  <2> QED BY <1>1, <2>1, <2>2 DEF Counts
<1> QED BY <1>0, <1>1, <1>2, QuietRemembered

LEMMA ResetRemembered ==
  ASSUME Typed, Traced, ResetDetector
  PROVE  Remembering' /\ Twinned'
<1>0. Advance /\ Events /\ Item.kind = "reset" /\ truth' = truth
  BY Advances DEF Traced, ResetDetector
<1>1. \A b : Marks(b)' = {}
  BY <1>0, MarksNone
<1>2. ~Unreset(pos - 1)'
  BY <1>0, UnresetOnward
<1>3. Remembering'
  BY <1>1 DEF Remembering, Floor, Stamp
<1> QED BY <1>2, <1>3 DEF Twinned

LEMMA NothingRemembered ==
  ASSUME Remembering, Twinned, UNCHANGED <<setup, now, pos, truth, lastSeen, maxVersion, cpu>>
  PROVE  Remembering' /\ Twinned'
<1>1. \A b : Marks(b)' = Marks(b) /\ \A j \in Marks(b) : truth'[j] = truth[j]
  BY DEF Marks, Wiped, Script
<1>2. \A b \in Known : Floor(b)' /\ Stamp(b)'
  BY <1>1, StillRemembered DEF Remembering
<1>3. Unreset(pos - 1)' => Unreset(pos - 1)
  BY DEF Unreset, Script
<1>4. ASSUME Unreset(pos - 1)' PROVE \A b \in Known : Twin(b)'
  <2>1. \A b \in Known : Twin(b)
    BY <1>3, <1>4 DEF Twinned
  <2>2. \A b \in Known : Lost(b) => Lost(b)'
    BY DEF Lost, Misses
  <2> QED BY <1>1, <2>1, <2>2, StillTwin
<1> QED BY <1>2, <1>4 DEF Remembering, Twinned

(* While time passes the slots may be seeded, which no mark outlives. *)
LEMMA WaitRemembered ==
  ASSUME Typed, Traced, Remembering, Twinned, Wait
  PROVE  Remembering' /\ Twinned'
<1>0. Chosen /\ now \in Nat /\ Events /\ truth \in Seq(Event)
  BY TypedParts DEF Chosen, Traced
<1>1. /\ now' \in Nat /\ now < now' /\ UNCHANGED <<setup, pos, truth, maxVersion, cpu>> /\ Script' = Script
      /\ ReseedRun(now') > now => lastSeen' = [b \in Known |-> SeedOf(ReseedRun(now'))]
      /\ ~(ReseedRun(now') > now) => lastSeen' = lastSeen
  BY WaitSteps DEF Script
<1>2. PICK n \in Nat : n = now' /\ now <= n
  BY <1>0, <1>1
<1>3. PICK o \in Nat : o = now
  BY <1>0
<1>4. \A b : Marks(b)' = Marks(b) /\ \A j \in Marks(b) : j \in 1..Len(truth) /\ truth'[j] = truth[j]
  BY <1>1 DEF Marks, Wiped
<1>5. ReseedRun(n) \in Int /\ ReseedRun(o) \in Int /\ ReseedRun(n)' = ReseedRun(n)
  <2>1. ReseedRun(n) \in Int /\ ReseedRun(o) \in Int
    BY ONLY <1>0, ThreadRuns
  <2>2. ReseedRun(n)' = ReseedRun(n)
    BY <1>1, SameClock
  <2> QED BY <2>1, <2>2
<1>6. ReseedRun(now)' = ReseedRun(n)
  <2>1. ReseedRun(now)' = ReseedRun(n)'
    BY <1>2, SMT DEF ReseedRun
  <2> QED BY <1>5, <2>1
<1>7. \A j \in 1..Len(truth) : truth[j].at \in Nat /\ truth[j].at <= now
  <2>1. ASSUME NEW j \in 1..Len(truth) PROVE truth[j].at \in Nat /\ truth[j].at <= now
    <3>1. truth[j] \in Event /\ TracedEvent(truth[j])
      BY <1>0, <2>1 DEF Events
    <3> QED BY <3>1 DEF Event, TracedEvent
  <2> QED BY <2>1
<1>8. ASSUME NEW b, \E j \in Marks(b) : Current(j)' PROVE ~(ReseedRun(n) > now)
  <2>1. PICK j \in Marks(b) : ReseedRun(n) <= truth[j].at
    BY <1>1, <1>4, <1>6, <1>8 DEF Current
  <2>2. truth[j].at \in Nat /\ truth[j].at <= now
    BY <1>4, <1>7, <2>1
  <2> QED BY ONLY <1>0, <1>5, <2>1, <2>2
<1>9. ASSUME ~(ReseedRun(n) > now) PROVE ReseedRun(n) = ReseedRun(o) /\ lastSeen' = lastSeen
  <2>1. ReseedRun(n) <= o
    BY <1>3, <1>5, <1>9
  <2>2. setup.reseed \in Nat
    BY <1>0 DEF Chosen
  <2>3. ReseedRun(n) = ReseedRun(o)
    BY <1>2, <1>3, <2>1, <2>2, RunsLater DEF ReseedRun
  <2> QED BY <1>1, <1>2, <1>9, <2>3
<1>10. \A b \in Known : Floor(b)'
  BY <1>1, <1>4 DEF Remembering, Floor
<1>11. ASSUME NEW b \in Known PROVE Stamp(b)'
  <2>1. SUFFICES ASSUME \E j \in Marks(b) : Current(j)'
                 PROVE  \E k \in Marks(b) : Current(k)' /\ lastSeen'[b] = P!OddOf(CoarseAt(truth[k].at)')
    BY <1>4 DEF Stamp
  <2>2. ReseedRun(n) = ReseedRun(o) /\ lastSeen' = lastSeen
    BY <1>8, <1>9, <2>1
  <2>3. \A j : Current(j)' <=> Current(j)
    BY <1>1, <1>3, <1>6, <2>2 DEF Current
  <2>4. PICK k \in Marks(b) : Current(k) /\ lastSeen[b] = P!OddOf(CoarseAt(truth[k].at))
    BY <1>11, <2>1, <2>3 DEF Remembering, Stamp
  <2>5. PICK t : t = truth[k].at
    OBVIOUS
  <2>6. CoarseAt(t)' = CoarseAt(t)
    BY <1>1, SameClock
  <2>7. CoarseAt(truth[k].at)' = CoarseAt(t)'
    BY <1>1, <2>5, SMT DEF CoarseAt, Second, ReseedRun, ClockRun
  <2> QED BY <2>2, <2>3, <2>4, <2>5, <2>6, <2>7
<1>12. ASSUME Unreset(pos - 1)', NEW b \in Known PROVE Twin(b)'
  <2>1. Unreset(pos - 1)
    BY <1>1, <1>12 DEF Unreset
  <2>2. Twin(b)
    BY <1>12, <2>1 DEF Twinned
  <2>3. PICK m : m = Seeding(n)
    OBVIOUS
  <2>4. SeedOf(Seeding(now))' = SeedOf(m)
    <3>1. Seeding(n)' = m /\ SeedOf(m)' = SeedOf(m)
      BY <1>1, <2>3, SameClock
    <3>2. SeedOf(Seeding(now))' = SeedOf(m)'
      <4>1. Seeding(now)' = Seeding(n)'
        BY <1>2, SMT DEF Seeding, ReseedRun
      <4> QED BY <3>1, <4>1, SMT DEF SeedOf, Second
    <3> QED BY <3>1, <3>2
  <2>5. ASSUME Marks(b) = {} PROVE lastSeen'[b] = SeedOf(m)
    <3>1. CASE ReseedRun(n) > now
      <4>1. ReseedRun(n) > 0
        BY <1>0, <1>5, <3>1
      <4>2. m = ReseedRun(n)
        BY <2>3, <4>1 DEF Seeding
      <4> QED BY <1>1, <1>2, <3>1, <4>2
    <3>2. CASE ~(ReseedRun(n) > now)
      <4>1. Seeding(n) = Seeding(o) /\ lastSeen' = lastSeen
        BY <1>9, <3>2, SMT DEF Seeding
      <4> QED BY <1>3, <2>2, <2>3, <2>5, <4>1 DEF Twin
    <3> QED BY <3>1, <3>2
  <2>6. Lost(b)' <=> Lost(b)
    BY <1>1 DEF Lost, Misses
  <2> QED BY <1>1, <1>4, <2>2, <2>4, <2>5, <2>6 DEF Twin
<1> QED BY <1>10, <1>11, <1>12 DEF Remembering, Twinned

LEMMA RememberedKept ==
  ASSUME Typed, Traced, Clocked, Remembering, Twinned, [Next]_vars
  PROVE  Remembering' /\ Twinned'
<1>1. CASE Decide
  <2>1. UNCHANGED <<setup, now, pos, truth, lastSeen, maxVersion, cpu>>
    BY <1>1, TypedParts, DecideSteps
  <2> QED BY <2>1, NothingRemembered
<1>2. CASE UNCHANGED vars \/ Finished
  <2>1. UNCHANGED <<setup, now, pos, truth, lastSeen, maxVersion, cpu>>
    BY <1>2 DEF vars, pipeline, Finished
  <2> QED BY <2>1, NothingRemembered
<1> QED
  BY <1>1, <1>2, SendRemembered, RestRemembered, ResetRemembered, WaitRemembered DEF Next

-----------------------------------------------------------------------------
(* A push finds its port as new: no row, and no more than one mebibyte.    *)
LEMMA FreshFlow ==
  ASSUME Typed, Ported, Playing, now = due, Item.kind = "push", NEW f, f = FlowOf(Item)
  PROVE  /\ f \in Flows /\ override[f] = "none" /\ Item.len \in Nat /\ Item.len <= MIB
         /\ Item.len + FrameHeaders \in Nat /\ Item.len + FrameHeaders <= MIB
         /\ bytes[f] \in Nat /\ bytes[f] <= MIB /\ cpu.bytes[f] \in Nat /\ cpu.bytes[f] <= MIB
<1>0. /\ Chosen /\ P!TypeOK /\ cpu \in Detector /\ heap \subseteq [flow : Flows, due : Nat]
      /\ now \in Nat /\ due \in Nat /\ setup.latency \in Nat /\ setup.latency <= SlowestDecision
  BY TypedParts DEF Chosen
<1>1. /\ Item \in ItemType /\ Item.len \in Nat /\ Small(Item) /\ f \in Flows
      /\ FreshPort(Script.items, pos) /\ Before(f) = Uses(Script.items, pos)
  BY <1>0, ItemPlayed, BeforeIsUses DEF OnTheWire, ItemType
<1>6. Item.len <= MIB /\ Item.len + FrameHeaders \in Nat /\ Item.len + FrameHeaders <= MIB
  <2>1. Item.len \in Nat /\ Item.len + FrameHeaders <= MIB
    BY <1>1 DEF Small
  <2> QED BY ONLY <2>1, SMT DEF FrameHeaders, MIB
<1>2. \A m \in Before(f) : Rested(Script.items, m, pos) /\ Small(Script.items[m]) /\ Before(f) = {m}
  BY <1>1 DEF FreshPort
<1>3. bytes[f] \in Nat /\ cpu.bytes[f] \in Nat /\ CountedFlow(f) /\ 0 <= MIB
  BY <1>0, <1>1, SMT DEF P!TypeOK, Detector, Ported, Counted, MIB
<1>4. bytes[f] <= MIB /\ cpu.bytes[f] <= MIB
  BY <1>2, <1>3 DEF CountedFlow
<1>5. ASSUME override[f] # "none" PROVE FALSE
  <2>1. PICK h \in heap : h.flow = f
    BY <1>1, <1>5 DEF Ported, Rows
  <2>2. h.due \in Nat /\ now < h.due
    BY <1>0, <2>1 DEF Ported, Rows, TracedRow
  <2>3. PICK m \in Before(f) : Rested(Script.items, m, pos) => h.due + RolloutPause <= due + setup.latency + 5000
    BY <2>1 DEF Ported, Rows, TracedRow
  <2>4. h.due + RolloutPause <= due + setup.latency + 5000
    BY <1>2, <2>3
  <2> QED BY ONLY <1>0, <2>2, <2>4, now = due, SMT DEF RolloutPause, SlowestDecision
<1> QED BY <1>1, <1>3, <1>4, <1>5, <1>6

Bulky(n) == n \div 65536 > 32
LEMMA FewBytes ==
  ASSUME NEW a \in Nat, NEW b \in Nat, a <= MIB, b <= MIB
  PROVE  ~Bulky((a + b) % Bits30) /\ ~(a + b > O!CPU_R4_BYTES)
<1>1. PICK x \in Nat : x = a + b
  OBVIOUS
<1>2. x <= 2 * MIB
  BY ONLY <1>1, a \in Nat, b \in Nat, a <= MIB, b <= MIB, MIB \in Nat, SMT DEF MIB
<1>3. x % Bits30 = x
  BY ONLY <1>2, x \in Nat, SMT DEF MIB, Bits30
<1>4. ~Bulky(x)
  BY ONLY <1>2, x \in Nat, SMT DEF MIB, Bulky
<1>5. ~(x > O!CPU_R4_BYTES)
  BY ONLY <1>2, x \in Nat, SMT DEF MIB, O!CPU_R4_BYTES
<1> QED BY ONLY <1>1, <1>3, <1>4, <1>5

(* So neither of the two finds a session of more than two mebibytes. *)
LEMMA NoBulk ==
  ASSUME Typed, Ported, Playing, now = due, Item.kind = "push", NEW p, p = Parse(Item)
  PROVE  ~P!R4(p) /\ ~CpuR4(cpu, load_pcap_packets(Item)) /\ override[p.flow] = "none"
<1>1. PICK f : f = FlowOf(Item)
  OBVIOUS
<1>2. /\ f \in Flows /\ override[f] = "none" /\ Item.len \in Nat /\ Item.len <= MIB
      /\ Item.len + FrameHeaders \in Nat /\ Item.len + FrameHeaders <= MIB
      /\ bytes[f] \in Nat /\ bytes[f] <= MIB /\ cpu.bytes[f] \in Nat /\ cpu.bytes[f] <= MIB
  BY <1>1, FreshFlow
<1>3. Chosen /\ Item \in ItemType
  BY TypedParts, ItemPlayed
<1>4. p.flow = f /\ p.len = Item.len /\ P!Slot(p) = f
  BY <1>1, <1>2, <1>3, Parsed, PacketClass
<1>5. P!BytesNow(p) = (bytes[f] + Item.len) % Bits30
  BY <1>4 DEF P!BytesNow
<1>6. ~P!R4(p)
  <2>1. ~Bulky(P!BytesNow(p))
    BY ONLY <1>2, <1>5, FewBytes
  <2> QED BY ONLY <2>1, SMT DEF P!R4, Bulky
<1>7. PICK g : g = load_pcap_packets(Item)
  OBVIOUS
<1>8. g.flow = f /\ g.len = Item.len + FrameHeaders
  BY <1>1, <1>3, <1>7, FrameTyped DEF OnTheWire
<1>9. ~CpuR4(cpu, g)
  <2>1. ~(cpu.bytes[f] + (Item.len + FrameHeaders) > O!CPU_R4_BYTES)
    BY ONLY <1>2, FewBytes
  <2> QED BY ONLY <1>8, <2>1 DEF CpuR4
<1> QED BY <1>2, <1>4, <1>6, <1>7, <1>9

(* The verdict of the pipeline on a push. *)
LEMMA Unarmored ==
  ASSUME Clocked, NEW item \in ItemType, FlowOf(item) \in Flows, NEW p, p = Parse(item)
  PROVE  /\ P!Action(p) = P!Overridden(p)
         /\ override[p.flow] = "none" => P!Action(p) = P!Policy(p)
<1>1. ~P!ArmEligible(p) /\ armed = {}
  BY Unarmed DEF Clocked
<1> QED BY <1>1 DEF P!Action, P!ArmedNow, P!Overridden

LEMMA PolicyOf ==
  ASSUME NEW item \in ItemType, FlowOf(item) \in Flows, NEW p, p = Parse(item)
  PROVE  /\ P!R2(p) => P!Policy(p) = "DROP"
         /\ ~P!R2(p) /\ (P!R1(p) \/ P!R4(p) \/ P!R6(p)) => P!Policy(p) = "HOLD"
         /\ ~P!R2(p) /\ ~P!R1(p) /\ ~P!R4(p) /\ ~P!R6(p) => P!Policy(p) = "PASS"
<1>1. P!R2(p) <=> item.kind = "push" /\ item.src = ATTACK_SRC
  BY PacketClass
<1>2. ~P!R2(p) => ~P!R5(p)
  <2>1. ~P!Monitored(p) => ~P!R5(p)
    BY SMT DEF P!R5, P!CountNow
  <2> QED BY <2>1 DEF P!Monitored
<1>3. P!R1(p) => "R1" \in P!Fired(p)
  BY DEF P!Fired, P!Rules
<1>4. P!R4(p) => "R4" \in P!Fired(p)
  BY DEF P!Fired, P!Rules
<1>5. P!R6(p) => "R6" \in P!Fired(p)
  BY DEF P!Fired, P!Rules
<1>6. ~P!R1(p) /\ ~P!R2(p) /\ ~P!R4(p) /\ ~P!R5(p) /\ ~P!R6(p) => P!Fired(p) = {}
  BY DEF P!Fired, P!Rules
<1> QED BY <1>2, <1>3, <1>4, <1>5, <1>6 DEF P!Policy

-----------------------------------------------------------------------------
(* What was found of an event stays so. *)
LEMMA EarlierKept ==
  ASSUME setup' = setup, truth \in Seq(Event), NEW i \in 1..Len(truth),
         \A j \in 1..Len(truth) : truth'[j] = truth[j]
  PROVE  /\ Earlier(i)' = Earlier(i)
         /\ \A j \in Earlier(i) : Since(i, j)' = Since(i, j) /\ (Reseeded(i, j)' <=> Reseeded(i, j))
<1>1. Script' = Script
  BY DEF Script
<1>2. 1..(i - 1) \subseteq 1..Len(truth)
  OBVIOUS
<1>3. Earlier(i)' = Earlier(i)
  BY <1>1, <1>2 DEF Earlier, Wiped
<1>4. PICK t : t = truth[i].at
  OBVIOUS
<1>5. ReseedRun(truth[i].at)' = ReseedRun(truth[i].at)
  <2>1. ReseedRun(t)' = ReseedRun(t)
    BY SameClock
  <2>2. ReseedRun(truth[i].at)' = ReseedRun(t)'
    BY <1>4, SMT DEF ReseedRun
  <2> QED BY <1>4, <2>1, <2>2
<1>6. \A j \in Earlier(i) : truth'[j] = truth[j]
  BY <1>2 DEF Earlier
<1> QED BY <1>3, <1>5, <1>6 DEF Since, Reseeded

SoundEvent(i) == Stopped(i) /\ AsLabelled(i) /\ Agrees(i)
LEMMA SoundKept ==
  ASSUME setup' = setup, truth \in Seq(Event), NEW i \in 1..Len(truth),
         \A j \in 1..Len(truth) : truth'[j] = truth[j], judged'[i] = judged[i], SoundEvent(i)
  PROVE  SoundEvent(i)'
<1>1. /\ Earlier(i)' = Earlier(i) /\ Script' = Script /\ truth'[i] = truth[i]
      /\ \A j \in Earlier(i) : Since(i, j)' = Since(i, j) /\ (Reseeded(i, j)' <=> Reseeded(i, j))
      /\ \A j \in Earlier(i) : truth'[j] = truth[j]
  BY EarlierKept DEF Script, Earlier
<1>2. Visible(i)' <=> Visible(i)
  BY <1>1 DEF Visible
<1>3. R1Differs(i)' <=> R1Differs(i)
  BY <1>1 DEF R1Differs
<1>4. Stopped(i)'
  BY <1>1, <1>2 DEF Stopped, SoundEvent
<1>5. AsLabelled(i)'
  BY <1>1 DEF AsLabelled, SoundEvent
<1>7. Missed(i)' <=> Missed(i)
  <2>1. 1..i \subseteq 1..Len(truth)
    OBVIOUS
  <2> QED BY <1>1, <2>1 DEF Missed
<1>6. Agrees(i)'
  BY <1>1, <1>3, <1>7 DEF Agrees, SoundEvent, Unreset
<1> QED BY <1>4, <1>5, <1>6 DEF SoundEvent

(* The earlier pushes of a new event are the marks of its BMS. *)
NewEvent(i, b, e) ==
  /\ Earlier(i)' = Marks(b) /\ truth'[i] = e
  /\ \A j \in Marks(b) : /\ truth'[j] = truth[j] /\ Since(i, j)' = e.at - truth[j].at
                         /\ Reseeded(i, j)' <=> ReseedRun(e.at) > truth[j].at
LEMMA EarlierNew ==
  ASSUME Typed, Advance, NEW e \in Event, truth' = Append(truth, e), e.item = pos,
         NEW i, i = Len(truth) + 1, NEW b, b = e.flow[2]
  PROVE  NewEvent(i, b, e)
<1>1. truth \in Seq(Event) /\ Script' = Script /\ setup' = setup
  BY TypedParts DEF Advance
<1>2. /\ truth'[i] = e /\ 1..(i - 1) = 1..Len(truth)
      /\ \A j \in 1..Len(truth) : truth'[j] = truth[j]
  BY ONLY <1>1, truth' = Append(truth, e), i = Len(truth) + 1
<1>3. Earlier(i)' = Marks(b)
  BY <1>1, <1>2 DEF Earlier, Marks, Wiped
<1>4. \A j \in Marks(b) : truth'[j] = truth[j]
  BY <1>2 DEF Marks
<1>5. PICK t : t = e.at
  OBVIOUS
<1>6. ReseedRun(truth[i].at)' = ReseedRun(t)
  <2>1. ReseedRun(truth[i].at)' = ReseedRun(t)'
    BY <1>2, <1>5, SMT DEF ReseedRun
  <2>2. ReseedRun(t)' = ReseedRun(t)
    BY <1>1, SameClock
  <2> QED BY <2>1, <2>2
<1> QED BY <1>2, <1>3, <1>4, <1>5, <1>6 DEF Since, Reseeded, NewEvent

(* R1 fires on a push two seconds or more after one that still counts. *)
LEMMA CloseFires ==
  ASSUME Typed, Traced, Clocked, NEW b \in Known, Stamp(b), NEW p, P!BmsPush(p), P!Dst(p) = b,
         \E j \in Marks(b) : Current(j), \A j \in Marks(b) : now - truth[j].at >= 2000
  PROVE  P!R1(p)
<1>1. PICK k \in Marks(b) : Current(k) /\ lastSeen[b] = P!OddOf(CoarseAt(truth[k].at))
  BY DEF Stamp
<1>2. PICK t : t = truth[k].at
  OBVIOUS
<1>3. Chosen /\ now \in Nat /\ truth \in Seq(Event)
  BY TypedParts DEF Chosen
<1>4. t \in Nat
  <2>1. k \in 1..Len(truth)
    BY DEF Marks
  <2>2. truth[k] \in Event
    BY ONLY <1>3, <2>1
  <2> QED BY <1>2, <2>2 DEF Event
<1>5. now - t >= 2000 /\ ReseedRun(now) <= t
  BY <1>1, <1>2 DEF Current
<1>6. Distance(CoarseAt(now), P!OddOf(CoarseAt(t))) < 14400
  BY ONLY <1>3, <1>4, <1>5, MarkNear
<1>7. P!Since(b) = Distance(CoarseAt(now), P!OddOf(CoarseAt(t)))
  BY <1>1, <1>2 DEF P!Since, Distance, Clocked
<1>8. P!Since(b) < 14400
  BY <1>6, <1>7
<1> QED BY <1>8 DEF P!R1

(* An attack that can be seen is stopped. *)
LEMMA PushStopped ==
  ASSUME Typed, Traced, Clocked, Denying, Remembering, Advance, Script.stopped,
         Item.kind = "push", NEW p, p = Parse(Item), NEW e \in Event, e = EventOf(p),
         truth' = Append(truth, e), NEW i, i = Len(truth) + 1, Visible(i)'
  PROVE  P!Action(p) # "PASS"
<1>0. /\ Chosen /\ Playing /\ Item \in ItemType /\ FlowOf(Item) \in Flows /\ P!TypeOK
      /\ Script' = Script /\ Item = Script.items[pos]
  BY TypedParts, ItemPlayed DEF Advance, OnTheWire, Item
<1>1. e.item = pos /\ e.at = now /\ e.flow = FlowOf(Item) /\ (e.parsed <=> P!OtaPush(p))
  BY <1>0, Parsed DEF EventOf
<1>2. PICK b : b = Item.bms
  OBVIOUS
<1>3. b = e.flow[2]
  BY <1>1, <1>2 DEF FlowOf
<1>4. NewEvent(i, b, e)
  BY <1>1, <1>3, EarlierNew
<1>5. SUFFICES P!R1(p) \/ P!R2(p) \/ P!R6(p)
  <2>1. P!Policy(p) # "PASS"
    BY <1>0, <1>5, PolicyOf
  <2>2. override[p.flow] # "allow"
    BY <1>0, Parsed DEF Denying
  <2>3. P!Overridden(p) # "PASS"
    BY <2>1, <2>2 DEF P!Overridden
  <2> QED BY <1>0, <2>3, Unarmored
<1>6. CASE Item.src = ATTACK_SRC
  BY <1>0, <1>6, PacketClass
<1>7. CASE Item.src # ATTACK_SRC
  <2>1. /\ P!OtaPush(p) /\ b \in Known
        /\ \/ \E j \in Marks(b) : Script.items[truth[j].item].version > Item.version
           \/ /\ \E j \in Marks(b) : ~(ReseedRun(now) > truth[j].at)
              /\ \A j \in Marks(b) : now - truth[j].at >= 2000
    <3>1. Script'.items[truth'[i].item] = Item /\ truth'[i] = e /\ Item.src # ATTACK_SRC
      BY <1>0, <1>1, <1>4, <1>7 DEF NewEvent
    <3>0. PICK it : it = Script'.items[truth'[i].item]
      OBVIOUS
    <3>a. \/ it.src = ATTACK_SRC
          \/ /\ truth'[i].parsed /\ it.bms \in Known
             /\ \/ \E j \in Earlier(i)' : Script'.items[truth'[j].item].version > it.version
                \/ /\ \E j \in Earlier(i)' : ~Reseeded(i, j)'
                   /\ \A j \in Earlier(i)' : Since(i, j)' >= 2000
      <4>1. \/ Script'.items[truth'[i].item].src = ATTACK_SRC
            \/ /\ truth'[i].parsed /\ Script'.items[truth'[i].item].bms \in Known
               /\ \/ \E j \in Earlier(i)' :
                       Script'.items[truth'[j].item].version > Script'.items[truth'[i].item].version
                  \/ /\ \E j \in Earlier(i)' : ~Reseeded(i, j)'
                     /\ \A j \in Earlier(i)' : Since(i, j)' >= 2000
        BY ONLY Visible(i)', Zenon DEF Visible
      <4> QED BY ONLY <3>0, <4>1
    <3>b. it = Item
      BY ONLY <3>0, <3>1
    <3>2. /\ truth'[i].parsed /\ Item.bms \in Known
          /\ \/ \E j \in Earlier(i)' : Script'.items[truth'[j].item].version > Item.version
             \/ /\ \E j \in Earlier(i)' : ~Reseeded(i, j)'
                /\ \A j \in Earlier(i)' : Since(i, j)' >= 2000
      BY ONLY <3>1, <3>a, <3>b
    <3>3. P!OtaPush(p)
      BY <1>1, <3>1, <3>2
    <3>4. /\ Earlier(i)' = Marks(b) /\ Script' = Script
          /\ \A j \in Marks(b) : /\ truth'[j] = truth[j] /\ Since(i, j)' = now - truth[j].at
                                 /\ Reseeded(i, j)' <=> ReseedRun(e.at) > truth[j].at
      BY <1>0, <1>1, <1>4 DEF NewEvent
    <3>5. ReseedRun(e.at) = ReseedRun(now)
      BY <1>1
    <3>6. CASE \E j \in Earlier(i)' : Script'.items[truth'[j].item].version > Item.version
      BY ONLY <1>2, <3>2, <3>3, <3>4, <3>6
    <3>7. CASE /\ \E j \in Earlier(i)' : ~Reseeded(i, j)'
               /\ \A j \in Earlier(i)' : Since(i, j)' >= 2000
      <4>1. \E j \in Marks(b) : ~(ReseedRun(now) > truth[j].at)
        BY ONLY <3>4, <3>5, <3>7
      <4>2. \A j \in Marks(b) : now - truth[j].at >= 2000
        BY ONLY <3>4, <3>7
      <4> QED BY ONLY <1>2, <3>2, <3>3, <4>1, <4>2
    <3> QED BY <3>2, <3>6, <3>7
  <2>2. P!BmsPush(p) /\ P!Dst(p) = b /\ p.version = Item.version
    <3>1. P!Dst(p) = b /\ (P!BmsPush(p) <=> P!OtaPush(p) /\ Item.bms \in Known)
      BY <1>0, <1>2, PacketClass
    <3>2. p.version = Item.version
      BY <1>0, Parsed
    <3> QED BY <1>2, <2>1, <3>1, <3>2
  <2>3. Floor(b) /\ Stamp(b)
    BY <2>1 DEF Remembering
  <2>4. CASE \E j \in Marks(b) : Script.items[truth[j].item].version > Item.version
    <3>1. PICK j \in Marks(b) : Script.items[truth[j].item].version > Item.version
      BY <2>4
    <3>2. PICK m : m = truth[j].item
      OBVIOUS
    <3>3. Script.items[m].version \in Nat
      <4>1. m \in 1..(pos - 1) /\ pos \in 1..Len(Script.items) /\ pos \in Int
        BY <1>0, <3>1, <3>2, ItemPlayed DEF Traced, Events, TracedEvent, Played, Marks
      <4>2. m \in 1..Len(Script.items)
        BY ONLY <4>1
      <4> QED BY <1>0, <4>2, ItemGiven DEF ItemType
    <3>4. Item.version \in Nat /\ maxVersion[b] \in Nat
      BY <1>0, <2>1 DEF ItemType, P!TypeOK
    <3>5. Script.items[m].version <= maxVersion[b] /\ Script.items[m].version > Item.version
      BY <2>3, <3>1, <3>2 DEF Floor
    <3>6. Item.version < maxVersion[b]
      BY ONLY <3>3, <3>4, <3>5
    <3> QED BY <2>2, <3>6 DEF P!R6
  <2>5. CASE /\ \E j \in Marks(b) : ~(ReseedRun(now) > truth[j].at)
             /\ \A j \in Marks(b) : now - truth[j].at >= 2000
    <3>1. \E j \in Marks(b) : Current(j)
      <4>1. PICK j \in Marks(b) : ~(ReseedRun(now) > truth[j].at)
        BY <2>5
      <4>2. ReseedRun(now) \in Int
        BY ONLY <1>0, ThreadRuns, now \in Nat, TypedParts, Typed DEF Chosen
      <4>3. truth[j].at \in Nat
        <5>1. truth \in Seq(Event) /\ j \in 1..Len(truth)
          BY TypedParts DEF Marks
        <5>2. truth[j] \in Event
          BY ONLY <5>1
        <5> QED BY <5>2 DEF Event
      <4>4. ReseedRun(now) <= truth[j].at
        BY ONLY <4>1, <4>2, <4>3
      <4> QED BY <4>4 DEF Current
    <3> QED BY <2>1, <2>2, <2>3, <2>5, <3>1, CloseFires
  <2> QED BY <2>1, <2>4, <2>5
<1> QED BY <1>6, <1>7

(* A variant of E18 is read if the ground truth says so. *)
LEMMA VariantsRead ==
  ASSUME NEW v \in DOMAIN E18Variants, NEW form,
         form = [tlen |-> E18Variants[v].tlen, qos |-> E18Variants[v].qos]
  PROVE  E18Variants[v].parsed <=> SentAt(form) = ReadAt(form)
<1>1. v \in 1..8
  BY DEF E18Variants
<1>2. v = 1 \/ v = 2 \/ v = 3 \/ v = 4 \/ v = 5 \/ v = 6 \/ v = 7 \/ v = 8
  BY ONLY <1>1
<1>3. E18Variants[v].tlen \in {16, 32, 64} /\ (E18Variants[v].parsed <=> E18Variants[v].tlen = 32)
  BY <1>2 DEF E18Variants, Variant
<1>4. form.tlen = E18Variants[v].tlen /\ PacketId(form) \in Nat
  BY DEF PacketId
<1> QED BY <1>3, <1>4 DEF SentAt, ReadAt

LEMMA PushLabelled ==
  ASSUME Typed, Advance, Item.kind = "push", NEW p, p = Parse(Item), P!OtaPush(p) \in BOOLEAN
  PROVE  /\ Item.scen = "e18_parsed" => P!OtaPush(p)
         /\ Item.scen = "e18_parser_miss" => ~P!OtaPush(p)
<1>1. /\ Item \in ItemType /\ FlowOf(Item) \in Flows
      /\ Item.scen \in {"e18_parsed", "e18_parser_miss"} => E18Event(Item)
  BY TypedParts, ItemPlayed DEF Advance, OnTheWire
<1>2. P!OtaPush(p) <=> SentAt(Item.form) = ReadAt(Item.form)
  BY <1>1, PacketClass DEF HeaderRead
<1>3. ASSUME E18Event(Item)
      PROVE  (Item.scen = "e18_parsed" /\ P!OtaPush(p)) \/ (Item.scen = "e18_parser_miss" /\ ~P!OtaPush(p))
  <2>1. PICK v \in DOMAIN E18Variants :
          /\ Item.form = [tlen |-> E18Variants[v].tlen, qos |-> E18Variants[v].qos]
          /\ Item.scen = E18Label(E18Variants[v])
    BY <1>3 DEF E18Event
  <2>2. E18Variants[v].parsed <=> SentAt(Item.form) = ReadAt(Item.form)
    BY <2>1, VariantsRead
  <2> QED BY <1>2, <2>1, <2>2 DEF E18Label
<1> QED BY <1>1, <1>3

(* R1 does not fire on a push to a BMS that no push came before. *)
LEMMA FirstIsQuiet ==
  ASSUME Typed, Clocked, NEW b \in Known, lastSeen[b] = SeedOf(Seeding(now)), NEW p, P!Dst(p) = b
  PROVE  ~P!R1(p)
<1>1. Chosen /\ now \in Nat
  BY TypedParts DEF Chosen
<1>2. Distance(CoarseAt(now), SeedOf(Seeding(now))) >= 14400
  BY ONLY <1>1, SeedFar
<1>3. P!Since(b) = Distance(CoarseAt(now), SeedOf(Seeding(now)))
  BY DEF P!Since, Distance, Clocked
<1>4. P!Since(b) \in Int
  <2>1. P!TypeOK /\ Bits16 \in Nat
    BY TypedParts, Widths
  <2>2. coarse \in 0..(Bits16 - 1) /\ lastSeen[b] \in 0..(Bits16 - 1)
    BY <2>1 DEF P!TypeOK
  <2> QED BY ONLY <2>1, <2>2, SMT DEF P!Since
<1>5. ~(P!Since(b) < 14400)
  BY <1>2, <1>3, <1>4
<1> QED BY <1>5 DEF P!R1

(* The detector fires R1 and R6 wherever the pipeline does, and, if no      *)
(* header was missed, nowhere else.                                        *)
LEMMA SameR1 ==
  ASSUME Typed, Traced, Clocked, NEW b \in Known, Stamp(b), Twin(b),
         NEW p, P!BmsPush(p), P!Dst(p) = b, NEW f \in Frame, f.bms = b, f.at = now,
         \A j \in Marks(b) : now - truth[j].at >= 2000 /\ Current(j)
  PROVE  /\ P!R1(p) => CpuR1(cpu, f)
         /\ Lost(b) \/ (CpuR1(cpu, f) => P!R1(p))
<1>0. Chosen /\ now \in Nat /\ truth \in Seq(Event) /\ cpu \in Detector
  BY TypedParts DEF Chosen
<1>1. CASE Marks(b) = {}
  <2>1. (Lost(b) \/ cpu.last[b] = O!NotSeen) /\ lastSeen[b] = SeedOf(Seeding(now))
    BY <1>1 DEF Twin
  <2>2. ~P!R1(p)
    BY <2>1, FirstIsQuiet
  <2> QED BY <2>1, <2>2 DEF CpuR1
<1>2. CASE Marks(b) # {}
  <2>1. P!R1(p)
    BY <1>2, CloseFires
  <2>2. PICK k \in Marks(b) : truth[k].at <= cpu.last[b]
    BY <1>2 DEF Twin
  <2>3. truth[k].at \in Nat
    <3>1. k \in 1..Len(truth)
      BY DEF Marks
    <3>2. truth[k] \in Event
      BY ONLY <1>0, <3>1
    <3> QED BY <3>2 DEF Event
  <2>4. ReseedRun(now) \in Int /\ now - 3600000 < ReseedRun(now)
    BY ONLY <1>0, ThreadRuns, SMT
  <2>5. ReseedRun(now) <= truth[k].at
    BY DEF Current
  <2>6. cpu.last[b] \in Int
    BY <1>0 DEF Detector, Bms
  <2>7. cpu.last[b] # O!NotSeen /\ now - cpu.last[b] < O!CPU_R1_INTERVAL
    BY ONLY <1>0, <2>2, <2>3, <2>4, <2>5, <2>6, SMT DEF O!NotSeen, O!CPU_R1_INTERVAL
  <2>8. CpuR1(cpu, f)
    BY ONLY <2>7, f.bms = b, f.at = now DEF CpuR1
  <2> QED BY <2>1, <2>8
<1> QED BY <1>1, <1>2

LEMMA SameR6 ==
  ASSUME Typed, NEW b \in Known, Twin(b), NEW p, P!BmsPush(p), P!Dst(p) = b,
         NEW f \in Frame, f.bms = b, f.version = p.version
  PROVE  /\ P!R6(p) => CpuR6(cpu, f)
         /\ Lost(b) \/ (CpuR6(cpu, f) => P!R6(p))
<1>1. maxVersion[b] \in Nat /\ cpu.max[b] \in Nat /\ p.version \in Nat
  <2>1. P!TypeOK /\ cpu \in Detector
    BY TypedParts
  <2> QED BY <2>1 DEF P!TypeOK, Detector, Bms, Frame
<1>2. maxVersion[b] <= cpu.max[b] /\ (Lost(b) \/ cpu.max[b] = maxVersion[b])
  BY DEF Twin
<1>3. /\ P!R6(p) <=> p.version < maxVersion[b]
      /\ CpuR6(cpu, f) <=> p.version < cpu.max[b]
  BY DEF P!R6, CpuR6
<1> QED BY ONLY <1>1, <1>2, <1>3

(* The two verdicts on a push. *)
LEMMA PushAgreed ==
  ASSUME Typed, Traced, Clocked, Ported, Remembering, Advance, Item.kind = "push",
         NEW p, p = Parse(Item), NEW f, f = load_pcap_packets(Item),
         NEW w, w = O!process(cpu, f, Authorized, Known),
         NEW b, b = Item.bms, b \in Known => Twin(b)
  PROVE  /\ Item.src = ATTACK_SRC => w.label = P!Action(p)
         /\ Item.src # ATTACK_SRC /\ (\A j \in Marks(b) : now - truth[j].at >= 2000 /\ Current(j)) =>
              /\ Lost(b) \/ ~P!OtaPush(p) \/ w.label = P!Action(p)
              /\ w.label = "PASS" => P!Action(p) = "PASS"
<1>0. Chosen /\ Playing /\ OnTheWire(Item) /\ cpu \in Detector /\ now = due /\ P!TypeOK
  BY TypedParts DEF Advance, OnTheWire
<1>1. Item \in ItemType /\ FlowOf(Item) \in Flows
  BY <1>0, ItemPlayed
<1>2. f \in Frame /\ f.ota /\ f.bms = b /\ f.src = Item.src /\ f.at = now
      /\ f.version = Item.version /\ (f.src \in Authorized <=> f.src # ATTACK_SRC)
  <2>1. /\ f \in Frame /\ f.ota /\ f.bms = b /\ f.src = Item.src /\ f.at = now
        /\ f.version = Item.version
    BY <1>0, FrameTyped
  <2>2. f.src \in Authorized <=> f.src # ATTACK_SRC
    BY <1>0, <2>1, SameCounts
  <2> QED BY <2>1, <2>2
<1>3. /\ P!Dst(p) = b /\ p.version = Item.version
      /\ (P!BmsPush(p) <=> P!OtaPush(p) /\ b \in Known)
      /\ (P!R2(p) <=> Item.src = ATTACK_SRC)
  <2>1. P!Dst(p) = b /\ (P!R2(p) <=> Item.src = ATTACK_SRC)
    BY <1>1, PacketClass
  <2>2. P!BmsPush(p) <=> P!OtaPush(p) /\ b \in Known
    BY <1>1, PacketClass
  <2>3. p.version = Item.version
    BY ONLY <1>1, p = Parse(Item), Parsed
  <2> QED BY <2>1, <2>2, <2>3
<1>4. ~P!R4(p) /\ ~CpuR4(cpu, f) /\ P!Action(p) = P!Policy(p)
  <2>1. ~P!R4(p) /\ ~CpuR4(cpu, f) /\ override[p.flow] = "none"
    BY <1>0, NoBulk
  <2> QED BY <1>1, <2>1, Unarmored
<1>5. /\ P!R2(p) => P!Policy(p) = "DROP"
      /\ ~P!R2(p) /\ (P!R1(p) \/ P!R6(p)) => P!Policy(p) = "HOLD"
      /\ ~P!R2(p) /\ ~P!R1(p) /\ ~P!R6(p) => P!Policy(p) = "PASS"
  BY <1>1, <1>4, PolicyOf
<1>6. w.label = IF f.src \notin Authorized THEN "DROP"
                ELSE IF f.bms \notin Known THEN "PASS"
                ELSE IF CpuR1(cpu, f) \/ CpuR6(cpu, f) THEN "HOLD" ELSE "PASS"
  <2>1. w.label = IF ~f.ota THEN "PASS"
                  ELSE IF f.src \notin Authorized THEN "DROP"
                  ELSE IF f.bms \notin Known THEN "PASS"
                  ELSE IF CpuR1(cpu, f) \/ CpuR4(cpu, f) \/ CpuR6(cpu, f) THEN "HOLD" ELSE "PASS"
    BY <1>0, <1>2, CpuLabel
  <2> QED BY <1>2, <1>4, <2>1
<1>7. ASSUME P!BmsPush(p), Item.src # ATTACK_SRC,
             \A j \in Marks(b) : now - truth[j].at >= 2000 /\ Current(j)
      PROVE  /\ Lost(b) \/ w.label = P!Action(p)
             /\ w.label = "PASS" => P!Action(p) = "PASS"
  <2>1. b \in Known /\ Twin(b) /\ Stamp(b)
    BY <1>3, <1>7 DEF Remembering
  <2>2. (P!R1(p) => CpuR1(cpu, f)) /\ (Lost(b) \/ (CpuR1(cpu, f) => P!R1(p)))
    BY <1>2, <1>3, <1>7, <2>1, SameR1
  <2>3. (P!R6(p) => CpuR6(cpu, f)) /\ (Lost(b) \/ (CpuR6(cpu, f) => P!R6(p)))
    BY <1>2, <1>3, <1>7, <2>1, SameR6
  <2>4. w.label = IF CpuR1(cpu, f) \/ CpuR6(cpu, f) THEN "HOLD" ELSE "PASS"
    BY <1>2, <1>6, <1>7, <2>1
  <2>5. P!Action(p) = IF P!R1(p) \/ P!R6(p) THEN "HOLD" ELSE "PASS"
    BY <1>3, <1>4, <1>5, <1>7
  <2> QED BY ONLY <2>2, <2>3, <2>4, <2>5
<1>8. ASSUME ~P!BmsPush(p), Item.src # ATTACK_SRC
      PROVE  P!Action(p) = "PASS" /\ (P!OtaPush(p) => w.label = "PASS")
  <2>1. ~P!R1(p) /\ ~P!R6(p)
    BY <1>8 DEF P!R1, P!R6
  <2>2. P!Action(p) = "PASS"
    BY <1>3, <1>4, <1>5, <1>8, <2>1
  <2>3. P!OtaPush(p) => w.label = "PASS"
    BY <1>2, <1>3, <1>6, <1>8
  <2> QED BY <2>2, <2>3
<1>9. CASE Item.src = ATTACK_SRC
  <2>1. w.label = "DROP"
    BY <1>2, <1>6, <1>9
  <2>2. P!Action(p) = "DROP"
    BY <1>3, <1>4, <1>5, <1>9
  <2> QED BY <1>9, <2>1, <2>2
<1>10. CASE Item.src # ATTACK_SRC
  BY <1>7, <1>8, <1>10
<1> QED BY <1>9, <1>10

-----------------------------------------------------------------------------
(* Every event is sound if the new one is. *)
LEMMA SoundOnward ==
  ASSUME Typed, Sound, setup' = setup,
         \/ truth' = truth /\ judged' = judged
         \/ \E e \in Event, l \in Verdicts :
              /\ truth' = Append(truth, e) /\ judged' = Append(judged, l)
              /\ \A i : i = Len(truth) + 1 => SoundEvent(i)'
  PROVE  Sound'
<1>0. truth \in Seq(Event) /\ judged \in Seq(Verdicts) /\ Len(judged) = Len(truth)
  BY TypedParts
<1>1. SUFFICES ASSUME NEW i \in 1..Len(truth') PROVE SoundEvent(i)'
  BY DEF Sound, SoundEvent
<1>2. CASE truth' = truth /\ judged' = judged
  <2>1. SoundEvent(i) /\ i \in 1..Len(truth) /\ judged'[i] = judged[i]
    BY <1>1, <1>2 DEF Sound, SoundEvent
  <2> QED BY <1>0, <1>2, <2>1, SoundKept
<1>3. ASSUME NEW e \in Event, NEW l \in Verdicts,
             truth' = Append(truth, e), judged' = Append(judged, l),
             \A k : k = Len(truth) + 1 => SoundEvent(k)'
      PROVE  SoundEvent(i)'
  <2>1. /\ i \in 1..Len(truth) \/ i = Len(truth) + 1
        /\ \A j \in 1..Len(truth) : truth'[j] = truth[j] /\ judged'[j] = judged[j]
    BY ONLY <1>0, <1>1, <1>3
  <2>2. CASE i \in 1..Len(truth)
    <3>1. SoundEvent(i)
      BY <2>2 DEF Sound, SoundEvent
    <3> QED BY <1>0, <2>1, <2>2, <3>1, SoundKept
  <2> QED BY <1>3, <2>1, <2>2
<1> QED BY <1>2, <1>3

LEMMA PushSound ==
  ASSUME Typed, Traced, Clocked, Denying, Ported, Remembering, Twinned, Advance, Item.kind = "push",
         NEW p, p = Parse(Item), NEW w, w = O!process(cpu, load_pcap_packets(Item), Authorized, Known),
         NEW e \in Event, e = EventOf(p), truth' = Append(truth, e), judged' = Append(judged, w.label),
         NEW i, i = Len(truth) + 1
  PROVE  SoundEvent(i)'
<1>0. /\ Chosen /\ Playing /\ Item \in ItemType /\ FlowOf(Item) \in Flows /\ Script' = Script
      /\ Item = Script.items[pos] /\ truth \in Seq(Event) /\ judged \in Seq(Verdicts)
      /\ Len(judged) = Len(truth) /\ pos' = pos + 1
  BY TypedParts, ItemPlayed DEF Advance, OnTheWire, Item
<1>1. /\ e.item = pos /\ e.at = now /\ e.flow = FlowOf(Item) /\ e.act = P!Action(p)
      /\ (e.parsed <=> P!OtaPush(p))
  <2>1. p.flow = FlowOf(Item)
    BY ONLY <1>0, p = Parse(Item), Parsed
  <2> QED BY <2>1 DEF EventOf
<1>2. PICK b : b = Item.bms
  OBVIOUS
<1>3. b = e.flow[2]
  BY <1>1, <1>2 DEF FlowOf
<1>4. NewEvent(i, b, e)
  BY <1>1, <1>3, EarlierNew
<1>5. truth'[i] = e /\ judged'[i] = w.label /\ Script'.items[truth'[i].item] = Item
  <2>1. truth'[i] = e /\ judged'[i] = w.label
    BY ONLY <1>0, i = Len(truth) + 1, truth' = Append(truth, e), judged' = Append(judged, w.label)
  <2> QED BY <1>0, <1>1, <2>1
<1>6. Stopped(i)'
  <2>1. ASSUME Script.stopped, Visible(i)' PROVE P!Action(p) # "PASS"
    BY <2>1, PushStopped
  <2> QED BY <1>0, <1>1, <1>5, <2>1 DEF Stopped
<1>7. AsLabelled(i)'
  <2>1. P!OtaPush(p) \in BOOLEAN
    BY ONLY <1>0, p = Parse(Item), VerdictTyped
  <2>2. /\ Item.scen = "e18_parsed" => P!OtaPush(p)
        /\ Item.scen = "e18_parser_miss" => ~P!OtaPush(p)
    BY <2>1, PushLabelled
  <2> QED BY <1>1, <1>5, <2>2 DEF AsLabelled
<1>8. ASSUME \A k \in 1..pos : Script.items[k].kind # "reset"
      PROVE  /\ Item.src = ATTACK_SRC => w.label = P!Action(p)
             /\ Item.src # ATTACK_SRC /\ ~R1Differs(i)' =>
                  /\ Missed(i)' \/ w.label = P!Action(p)
                  /\ w.label = "PASS" => P!Action(p) = "PASS"
  <2>1. b \in Known => Twin(b)
    <3>0. pos \in Int
      BY <1>0 DEF Chosen
    <3>1. 1..(pos - 1) \subseteq 1..pos
      BY ONLY <3>0
    <3>2. Unreset(pos - 1)
      BY <1>8, <3>1 DEF Unreset
    <3> QED BY <3>2 DEF Twinned
  <2>2. PICK f : f = load_pcap_packets(Item)
    OBVIOUS
  <2>3. /\ Item.src = ATTACK_SRC => w.label = P!Action(p)
        /\ Item.src # ATTACK_SRC /\ (\A j \in Marks(b) : now - truth[j].at >= 2000 /\ Current(j)) =>
             /\ Lost(b) \/ ~P!OtaPush(p) \/ w.label = P!Action(p)
             /\ w.label = "PASS" => P!Action(p) = "PASS"
    BY <1>2, <2>1, <2>2, PushAgreed
  <2>4. ASSUME ~R1Differs(i)', NEW j \in Marks(b) PROVE now - truth[j].at >= 2000 /\ Current(j)
    <3>1. j \in Earlier(i)' /\ Since(i, j)' = now - truth[j].at
          /\ (Reseeded(i, j)' <=> ReseedRun(e.at) > truth[j].at)
      BY <1>1, <1>4, <2>4 DEF NewEvent
    <3>2. ~(Since(i, j)' < 2000) /\ ~Reseeded(i, j)'
      BY <2>4, <3>1 DEF R1Differs
    <3>3. now \in Nat /\ ReseedRun(now) \in Int
      <4>1. now \in Nat
        BY <1>0 DEF Chosen
      <4> QED BY ONLY <1>0, <4>1, ThreadRuns
    <3>4. truth[j].at \in Nat
      <4>1. j \in 1..Len(truth)
        BY <2>4 DEF Marks
      <4>2. truth[j] \in Event
        BY ONLY <1>0, <4>1
      <4> QED BY <4>2 DEF Event
    <3>5. ~(ReseedRun(now) > truth[j].at)
      BY <1>1, <3>1, <3>2
    <3>6. ReseedRun(now) <= truth[j].at
      BY ONLY <3>3, <3>4, <3>5
    <3>7. now - truth[j].at >= 2000
      BY ONLY <3>1, <3>2, <3>3, <3>4
    <3> QED BY <3>6, <3>7 DEF Current
  <2>5. ASSUME Lost(b) PROVE Missed(i)'
    <3>1. PICK j \in 1..Len(truth) : Misses(truth[j], b)
      BY <2>5 DEF Lost
    <3>2. j \in 1..i /\ truth'[j] = truth[j]
      BY ONLY <1>0, <3>1, i = Len(truth) + 1, truth' = Append(truth, e), e \in Event
    <3> QED BY <1>3, <1>5, <3>1, <3>2 DEF Misses, Missed
  <2>6. ASSUME ~P!OtaPush(p), Item.src # ATTACK_SRC PROVE Missed(i)'
    <3>1. Item.src \in Authorized
      BY <1>0, <2>2, <2>6, SameCounts DEF OnTheWire
    <3>2. ~e.parsed /\ e.flow[1] \in Authorized
      BY <1>1, <2>6, <3>1 DEF FlowOf
    <3>3. i \in 1..i
      BY <1>0
    <3> QED BY <1>5, <3>2, <3>3 DEF Missed
  <2> QED BY <2>3, <2>4, <2>5, <2>6
<1>9. Agrees(i)'
  <2>1. ASSUME Unreset(truth[i].item)' PROVE \A k \in 1..pos : Script.items[k].kind # "reset"
    BY <1>0, <1>1, <1>5, <2>1 DEF Unreset
  <2> QED BY <1>0, <1>1, <1>5, <1>8, <2>1 DEF Agrees
<1> QED BY <1>6, <1>7, <1>9 DEF SoundEvent

LEMMA MarkerSound ==
  ASSUME Typed, Playing, Item.kind = "marker", Script' = Script, NEW i, truth'[i] = MarkerEvent
  PROVE  SoundEvent(i)'
<1>1. /\ Item = Script.items[pos] /\ Item.label # "ATTACK"
      /\ Item.scen \notin {"e18_parsed", "e18_parser_miss"}
  BY TypedParts, ItemPlayed DEF E18Event
<1>2. truth'[i].item = pos /\ truth'[i].label = Item.label
  BY DEF MarkerEvent
<1>3. Script'.items[truth'[i].item] = Item
  BY <1>1, <1>2
<1>4. Stopped(i)'
  BY <1>1, <1>2 DEF Stopped
<1>5. AsLabelled(i)'
  BY <1>1, <1>3 DEF AsLabelled
<1>6. Agrees(i)'
  BY <1>3 DEF Agrees
<1> QED BY <1>4, <1>5, <1>6 DEF SoundEvent

LEMMA SendSound ==
  ASSUME Typed, Traced, Clocked, Denying, Ported, Remembering, Twinned, Sound, Send
  PROVE  Sound'
<1>0. Chosen /\ Advance /\ truth \in Seq(Event) /\ judged \in Seq(Verdicts) /\ setup' = setup
  BY TypedParts, Advances DEF Advance
<1>1. PICK p, w : Sent(p, w)
  BY <1>0, SendSteps
<1>2. CASE truth' = truth /\ judged' = judged
  BY <1>0, <1>2, SoundOnward
<1>3. CASE /\ Item.kind = "push" /\ truth' = Append(truth, EventOf(p))
           /\ judged' = Append(judged, w.label)
  <2>1. PICK e : e = EventOf(p)
    OBVIOUS
  <2>2. truth' \in Seq(Event) /\ judged' \in Seq(Verdicts)
    BY SendTyped DEF Typed
  <2>3. PICK l : l = w.label
    OBVIOUS
  <2>4. e \in Event /\ l \in Verdicts /\ truth' = Append(truth, e) /\ judged' = Append(judged, l)
    <3>1. truth' = Append(truth, e) /\ judged' = Append(judged, l)
      BY <1>3, <2>1, <2>3
    <3>2. /\ Len(truth) + 1 \in 1..Len(truth') /\ truth'[Len(truth) + 1] = e
          /\ Len(judged) + 1 \in 1..Len(judged') /\ judged'[Len(judged) + 1] = l
      BY ONLY <1>0, <2>2, <3>1
    <3> QED BY <2>2, <3>1, <3>2
  <2>5. p = Parse(Item) /\ w = O!process(cpu, load_pcap_packets(Item), Authorized, Known)
    BY <1>1 DEF Sent
  <2>6. ASSUME NEW i, i = Len(truth) + 1 PROVE SoundEvent(i)'
    BY <1>0, <1>3, <2>1, <2>3, <2>4, <2>5, <2>6, PushSound
  <2> QED BY <1>0, <2>4, <2>6, SoundOnward
<1> QED BY <1>1, <1>2, <1>3 DEF Sent

LEMMA RestSound ==
  ASSUME Typed, Sound, Rest
  PROVE  Sound'
<1>0. Chosen /\ Playing /\ truth \in Seq(Event) /\ setup' = setup /\ Script' = Script
  BY TypedParts, RestSteps DEF Script
<1>1. CASE truth' = truth /\ judged' = judged
  BY <1>0, <1>1, SoundOnward
<1>2. CASE truth' = Append(truth, MarkerEvent) /\ judged' = Append(judged, "PASS") /\ Item.kind = "marker"
  <2>1. PICK e : e = MarkerEvent
    OBVIOUS
  <2>2. e \in Event /\ "PASS" \in Verdicts
    BY <1>0, <2>1, MarkerTyped DEF Verdicts
  <2>3. ASSUME NEW i, i = Len(truth) + 1 PROVE SoundEvent(i)'
    <3>1. truth'[i] = e
      BY ONLY <1>0, <1>2, <2>1, <2>2, <2>3
    <3> QED BY <1>0, <1>2, <2>1, <3>1, MarkerSound
  <2> QED BY <1>0, <1>2, <2>1, <2>2, <2>3, SoundOnward
<1> QED BY <1>1, <1>2, RestSteps

LEMMA SoundStep ==
  ASSUME Typed, Traced, Clocked, Denying, Ported, Remembering, Twinned, Sound, [Next]_vars
  PROVE  Sound'
<1>1. CASE ResetDetector \/ Decide \/ Wait \/ Finished \/ UNCHANGED vars
  <2>1. setup' = setup /\ truth' = truth /\ judged' = judged
    <3>1. CASE ResetDetector
      BY <3>1 DEF ResetDetector
    <3>2. CASE Decide
      BY <3>2 DEF Decide
    <3>3. CASE Wait
      BY <3>3 DEF Wait
    <3>4. CASE Finished \/ UNCHANGED vars
      BY <3>4 DEF Finished, vars
    <3> QED BY <1>1, <3>1, <3>2, <3>3, <3>4
  <2> QED BY <2>1, SoundOnward
<1> QED BY <1>1, SendSound, RestSound DEF Next

LEMMA TracedKept ==
  ASSUME Typed, Traced, [Next]_vars
  PROVE  Traced'
<1>1. CASE UNCHANGED vars \/ Finished
  BY <1>1 DEF vars, Finished, Traced, Events, TracedEvent, Digests, TracedDigest, Decisions, Played, Script
<1> QED BY <1>1, SendTraced, RestTraced, ResetTraced, DecideTraced, WaitTraced DEF Next

-----------------------------------------------------------------------------
(* The inductive invariant as a whole. *)
Inv == /\ Typed /\ Traced /\ Clocked /\ Denying /\ Ported /\ Remembering /\ Twinned /\ Sound
LEMMA InitInv ==
  ASSUME Init
  PROVE  Inv
<1>0. Typed /\ Chosen
  BY InitTyped, TypedParts
<1>1. /\ truth = <<>> /\ queue = <<>> /\ log = <<>> /\ heap = {} /\ armed = {} /\ pos = 1 /\ now = 0
      /\ coarse = CoarseAt(0) /\ lastSeen = [b \in Known |-> SeedOf(0)]
      /\ maxVersion = [b \in Known |-> 0] /\ bytes = [f \in Flows |-> 0]
      /\ override = [f \in Flows |-> "none"]
      /\ cpu.last = [b \in Bms |-> O!NotSeen] /\ cpu.max = [b \in Bms |-> 0]
      /\ cpu.bytes = [f \in Flows |-> 0]
  BY DEF Init, O!CpuInit
<1>2. 1..Len(truth) = {} /\ 1..Len(queue) = {} /\ 1..Len(log) = {} /\ 1..(pos - 1) = {}
  BY ONLY <1>1
<1>3. Traced
  BY <1>2 DEF Traced, Events, Digests, Decisions
<1>4. Clocked
  <2>1. CoarseAt(now) = CoarseAt(0)
    BY <1>1
  <2> QED BY <1>1, <2>1 DEF Clocked
<1>5. Denying
  BY <1>1, <1>2 DEF Denying
<1>6. Ported
  BY <1>1, <1>2 DEF Ported, Counted, CountedFlow, Rows, Before
<1>7. \A b : Marks(b) = {}
  BY <1>2 DEF Marks
<1>8. Remembering
  BY <1>7 DEF Remembering, Floor, Stamp
<1>9. Twinned
  <2>1. Seeding(now) = 0
    <3>1. ReseedRun(0) <= 0 /\ ReseedRun(0) \in Int
      BY ONLY <1>0, ThreadRuns
    <3>2. ReseedRun(now) = ReseedRun(0)
      BY <1>1
    <3> QED BY ONLY <3>1, <3>2 DEF Seeding
  <2>2. \A b \in Known : b \in Bms
    BY DEF Bms
  <2> QED BY <1>1, <1>7, <2>1, <2>2 DEF Twinned, Twin
<1>10. Sound
  BY <1>2 DEF Sound
<1> QED BY <1>0, <1>3, <1>4, <1>5, <1>6, <1>8, <1>9, <1>10 DEF Inv

LEMMA StepInv ==
  ASSUME Inv, [Next]_vars
  PROVE  Inv'
<1>0. Typed /\ Traced /\ Clocked /\ Denying /\ Ported /\ Remembering /\ Twinned /\ Sound
  BY DEF Inv
<1>1. Typed'
  BY <1>0, StepTyped
<1>2. Traced'
  BY <1>0, TracedKept
<1>3. Clocked'
  BY <1>0, ClockedKept
<1>4. Denying'
  BY <1>0, DenyingKept
<1>5. Ported'
  BY <1>0, PortedKept
<1>6. Remembering' /\ Twinned'
  BY <1>0, RememberedKept
<1>7. Sound'
  BY <1>0, SoundStep
<1> QED BY <1>1, <1>2, <1>3, <1>4, <1>5, <1>6, <1>7 DEF Inv

LEMMA TrialInv == Spec => []Inv
  BY InitInv, StepInv, PTL DEF Spec

(* An attack the rules can see is never let through by a trial whose       *)
(* manifest does not cover it: not by the pipeline, whatever was sent      *)
(* before and whenever the clock ticked, nor by the arbiter.               *)
THEOREM AttacksStopped == Spec => []AttackStopped
<1>1. Inv => AttackStopped
  <2> SUFFICES ASSUME Inv, Script.stopped
               PROVE  /\ \A i \in NewestEvent :
                           truth[i].label = "ATTACK" /\ Visible(i) => truth[i].act # "PASS"
                      /\ \A i \in NewestDecision :
                           Script.items[log[i].item].label = "ATTACK" => log[i].decision = "DROP"
    BY DEF AttackStopped
  <2>1. truth \in Seq(Event) /\ log \in Seq(Decision) /\ Sound /\ Denying
    BY TypedParts DEF Inv
  <2>2. NewestEvent \subseteq 1..Len(truth) /\ NewestDecision \subseteq 1..Len(log)
    BY <2>1 DEF NewestEvent, NewestDecision
  <2> QED BY <2>1, <2>2 DEF Sound, Stopped, Denying
<1> QED BY <1>1, TrialInv, PTL

(* The CPU baseline and the policy engine come to the same verdict on      *)
(* every push, whatever the script, but for what TwinAgrees names; and the *)
(* baseline lets nothing pass that the policy engine holds or drops, even  *)
(* when the switch has missed headers that the baseline has found.         *)
THEOREM BaselineAgrees == Spec => []TwinAgrees
<1>1. Inv => TwinAgrees
  <2> SUFFICES ASSUME Inv PROVE TwinAgrees
    OBVIOUS
  <2>1. truth \in Seq(Event) /\ Sound
    BY TypedParts DEF Inv
  <2>2. NewestEvent \subseteq 1..Len(truth)
    BY <2>1 DEF NewestEvent
  <2> QED BY <2>1, <2>2 DEF Sound, Agrees, TwinAgrees, Unreset
<1> QED BY <1>1, TrialInv, PTL

(* The parser reads the header of an E18 variant if and only if its ground *)
(* truth says so.                                                          *)
THEOREM ParserLabelled == Spec => []ParserAsLabelled
<1>1. Inv => ParserAsLabelled
  <2> SUFFICES ASSUME Inv PROVE ParserAsLabelled
    OBVIOUS
  <2>1. truth \in Seq(Event) /\ Sound
    BY TypedParts DEF Inv
  <2>2. NewestEvent \subseteq 1..Len(truth)
    BY <2>1 DEF NewestEvent
  <2> QED BY <2>1, <2>2 DEF Sound, AsLabelled, ParserAsLabelled
<1> QED BY <1>1, TrialInv, PTL
=============================================================================
