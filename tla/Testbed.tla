------------------------------- MODULE Testbed -------------------------------
(***************************************************************************)
(* A trial from end to end: the traffic host plays a scenario, the         *)
(* pipeline (DataPlane) judges each packet, the controller's threads write *)
(* the clock and clear the R5 window on their own schedule, the arbiter    *)
(* (Arbiter) decides on the HOLD digests after a latency, and the offline  *)
(* tools (Offline) score the result.  Widths and thresholds are the real   *)
(* ones; hashes do not collide here (DataPlane lets them).                 *)
(*                                                                         *)
(* Time is in milliseconds and moves from one event to the next.  Once the *)
(* script, the phases of the two threads and the latency of the controller *)
(* are chosen, a trial has one course: the initial states are what differs. *)
(***************************************************************************)
EXTENDS FleetScenarios

CONSTANTS
  Scripts,        \* sequence of [items, rat, released, stopped]
  Flows,          \* the flows of all their packets: <<source, BMS, source port>>
  Bases,          \* second of the wall clock at the start of a trial
  ClockPhases,    \* ms since the clock thread last wrote
  WindowPhases,   \* ms since the R5 window was last cleared
  ReseedPhases,   \* ms since the R1 slots were last seeded by their thread
  Latencies,      \* ms from a packet to the decision on it
  SendTime        \* ms a send takes

Sources == {AUTH_SRC, SECOND_SRC, ATTACK_SRC}
Known == 0..(FLEET - 1)                     \* bms_ip_to_idx
Authorized == {AUTH_SRC, SECOND_SRC}        \* r2_authorized_sources
FlowOf(item) == <<item.src, item.bms, item.sport>>
Bms == Known \cup {f[2] : f \in Flows}
OneEach == [f \in Flows |-> f]
OwnCells == [i \in 1..3 |-> [b \in Bms |-> b]]
OwnSlot == [s \in Sources |-> s]
SrcOf == [f \in Flows |-> f[1]]
DstOf == [f \in Flows |-> f[2]]

(* What the generators write: a push has a source port of its own, or one  *)
(* that was used once before, ahead of the pause of 70 s between two       *)
(* rollouts; an event of E18 is one of its variants; only a push is called *)
(* an attack.  A trial whose attacks are to be stopped runs under a        *)
(* manifest none of whose windows is open.                                 *)
ItemType ==
  [kind : {"push", "filler", "pause", "marker", "reset"}, src : Nat, bms : Nat, sport : Nat,
   version : Nat, size : Nat, len : Nat, form : [tlen : Nat, qos : 0..2],
   label : STRING, scen : STRING, wait : Nat]
RolloutPause == 70000
SlowestDecision == 60000
FrameHeaders == 14 + 20 + 20                \* Ethernet, IP and TCP of a generated packet
Small(item) == item.len + FrameHeaders <= MIB
OnTheWire(item) == item.kind \in {"push", "filler"}
Uses(items, n) ==
  {m \in 1..(n - 1) : OnTheWire(items[m]) /\ FlowOf(items[m]) = FlowOf(items[n])}
Rested(items, m, n) ==
  \E k \in m..(n - 1) : items[k].kind # "reset" /\ items[k].wait >= RolloutPause
FreshPort(items, n) ==
  /\ \A m \in Uses(items, n) : Rested(items, m, n) /\ Small(items[m])
  /\ \A l, m \in Uses(items, n) : l = m
E18Label(v) == IF v.parsed THEN "e18_parsed" ELSE "e18_parser_miss"
E18Event(item) ==
  /\ item.kind = "push"
  /\ \E v \in DOMAIN E18Variants :
       /\ item.form = [tlen |-> E18Variants[v].tlen, qos |-> E18Variants[v].qos]
       /\ item.scen = E18Label(E18Variants[v])
ItemsAssumption(items) ==
  /\ items \in Seq(ItemType)
  /\ \A n \in 1..Len(items) : LET item == items[n] IN
       /\ OnTheWire(item) => FlowOf(item) \in Flows
       /\ item.kind = "push" => Small(item) /\ FreshPort(items, n)
       /\ item.label = "ATTACK" => item.kind = "push"
       /\ item.scen \in {"e18_parsed", "e18_parser_miss"} => E18Event(item)

ASSUME HostAssumption ==
  /\ Flows \subseteq Sources \X Nat \X Nat
  /\ Bases \subseteq Nat /\ ClockPhases \subseteq Nat /\ WindowPhases \subseteq Nat
  /\ ReseedPhases \subseteq Nat /\ SendTime \in Nat
  /\ Latencies \subseteq Nat /\ \A l \in Latencies : l <= SlowestDecision
ASSUME ScriptAssumption ==
  \A k \in DOMAIN Scripts :
    /\ ItemsAssumption(Scripts[k].items)
    /\ \A n \in 1..Len(Scripts[k].rat) : Scripts[k].rat[n].rollout \in STRING
    /\ Scripts[k].stopped => \A n \in 1..Len(Scripts[k].rat) : Scripts[k].rat[n].window = {}

VARIABLES
  coarse, lastSeen, maxVersion, bytes, opened, bloom, count, armed, override, accepted,
  setup,      \* [script, base, clock, window, reseed, latency]
  now,        \* time
  due, pos,   \* when the next item is played, and which
  queue,      \* digests the controller has not decided yet
  slots,      \* sessions that count against a cap
  heap,       \* rows that expire
  truth,      \* ground truth: [at, flow, label, item, act]
  log,        \* decisions: [at, flow, decision, reason, item]
  cpu, judged \* the CPU baseline: its state, its label per packet of truth

pipeline == <<coarse, lastSeen, maxVersion, bytes, opened, bloom, count, armed,
              override, accepted>>
vars == <<pipeline, setup, now, due, pos, queue, slots, heap, truth, log, cpu, judged>>

Bits16 == 65536                 \* of the clock and of the R5 counter
Bits30 == 1073741824            \* for the 32 bits of the byte counter
P == INSTANCE DataPlane WITH
       Indexed <- Known, Packets <- {}, Slots <- Flows, SlotOf <- OneEach,
       Cells <- Bms, CellOf <- OwnCells, ArmSlots <- Sources, ArmSlotOf <- OwnSlot,
       ClockMod <- Bits16, R1Interval <- 14400, UnitBytes <- 65536, R4MaxUnits <- 32,
       BytesMod <- Bits30, R5Threshold <- 4, CountMod <- Bits16, OverrideSize <- 256
A == INSTANCE Arbiter WITH
       Rollouts <- {}, Manifests <- {}, Digests <- {}, Capacity <- 256, TTL <- 5000,
       DisableRat <- FALSE, DisableR6 <- FALSE, MaxTime <- 0, MaxDigests <- 0,
       manifest <- {}, main <- {}, row <- override, seen <- 0, ticket <- {}
O == INSTANCE Offline

Script == Scripts[setup.script]
Item == Script.items[pos]

-----------------------------------------------------------------------------
(* The parser: the PUBLISH header has a 32-byte topic slot and a packet    *)
(* identifier unless the QoS is 0; the OTA header is read right behind.    *)
PacketId(form) == IF form.qos = 0 THEN 0 ELSE 2
SentAt(form) == 2 + form.tlen + PacketId(form)
ReadAtFixed(form) == 2 + 32 + 2                       \* mutant of ReadAt
ReadAt(form) == 2 + 32 + PacketId(form)
Parse(item) ==
  [flow |-> FlowOf(item), proto |-> "mqtt", publish |-> item.kind = "push",
   topic |-> item.kind = "push",
   magic |-> item.kind = "push" /\ SentAt(item.form) = ReadAt(item.form),
   version |-> item.version, len |-> item.len, fin |-> FALSE]

(* What the CPU detector reads of the same packet in the capture: the magic *)
(* wherever it is in the payload (each push bears it once, the filler does *)
(* not), and the size of the whole frame.                                  *)
load_pcap_packets(item) ==
  [at |-> now, flow |-> FlowOf(item), src |-> item.src, bms |-> item.bms,
   ota |-> item.kind = "push", version |-> item.version, len |-> item.len + FrameHeaders]

-----------------------------------------------------------------------------
(* _window_loop, _coarse_time_loop and _r1_reseed_loop: when each last ran  *)
(* before a time t of the trial, and the second it then read.              *)
LastRun(t, phase, period) == t - ((t + phase) % period)
SecondUnmasked(t) == setup.base + t \div 1000          \* mutant of Second
Second(t) == (setup.base + t \div 1000) % Bits16
SeedOf(t) == (Second(t) + Bits16 \div 2) % Bits16
ClockRun(t) == LastRun(t, setup.clock, 1000)
WindowRun(t) == LastRun(t, setup.window, 60000)
ReseedRun(t) == LastRun(t, setup.reseed, 3600000)
CoarseAt(t) == Second(IF ReseedRun(t) > ClockRun(t) THEN ReseedRun(t) ELSE ClockRun(t))

Init ==
  /\ \E k \in DOMAIN Scripts, b \in Bases, c \in ClockPhases, w \in WindowPhases,
        r \in ReseedPhases, l \in Latencies :
       setup = [script |-> k, base |-> b, clock |-> c, window |-> w, reseed |-> r,
                latency |-> l]
  /\ coarse = CoarseAt(0)
  /\ lastSeen = [b \in Known |-> SeedOf(0)]
  /\ maxVersion = [b \in Known |-> 0]
  /\ bytes = [f \in Flows |-> 0] /\ opened = {}
  /\ bloom = [i \in 1..3 |-> {}] /\ count = 0 /\ armed = {}
  /\ override = [f \in Flows |-> "none"]
  /\ accepted = [b \in Known |-> {}]
  /\ now = 0 /\ due = 0 /\ pos = 1
  /\ queue = <<>> /\ slots = {} /\ heap = {} /\ truth = <<>> /\ log = <<>>
  /\ cpu = O!CpuInit(Bms, Flows) /\ judged = <<>>

Playing == pos <= Len(Script.items)
DigestOf(item, p) ==
  [flow |-> p.flow, code |-> P!Action(p), rules |-> P!Fired(p), size |-> item.size,
   version |-> item.version, item |-> pos, at |-> now]

(* One packet, or one batch of filler segments, reaches the pipeline; only *)
(* a held or dropped one is put before evaluate_hold.                      *)
Send ==
  /\ Playing /\ now = due /\ Item.kind \in {"push", "filler"}
  /\ \E p \in {Parse(Item)} :
       \E verdict \in {O!process(cpu, load_pcap_packets(Item), Authorized, Known)} :
          /\ P!Packet(p)
          /\ queue' = IF P!Digest(p) = "hold" THEN Append(queue, DigestOf(Item, p)) ELSE queue
          /\ cpu' = verdict.state
          /\ IF Item.kind = "filler" THEN UNCHANGED <<truth, judged>>
             ELSE /\ truth' = Append(truth, [at |-> now, flow |-> p.flow, label |-> Item.label,
                                             item |-> pos, act |-> P!Action(p),
                                             rules |-> P!Fired(p), parsed |-> P!OtaPush(p)])
                  /\ judged' = Append(judged, verdict.label)
  /\ pos' = pos + 1
  /\ due' = now + SendTime + Item.wait
  /\ UNCHANGED <<setup, now, slots, heap, log>>

(* A pause, or the marker of E12b, which is an event that sends nothing.   *)
Rest ==
  /\ Playing /\ now = due /\ Item.kind \in {"pause", "marker"}
  /\ pos' = pos + 1 /\ due' = now + Item.wait
  /\ truth' = IF Item.kind = "pause" THEN truth
              ELSE Append(truth, [at |-> now, flow |-> FlowOf(Item), label |-> Item.label,
                                  item |-> pos, act |-> "PASS", rules |-> {},
                                  parsed |-> FALSE])
  /\ judged' = IF Item.kind = "pause" THEN judged ELSE Append(judged, "PASS")
  /\ UNCHANGED <<pipeline, setup, now, queue, slots, heap, log, cpu>>

(* handle_reset as a whole; MainLoop has its steps.                        *)
ResetDetector ==
  /\ Playing /\ now = due /\ Item.kind = "reset"
  /\ lastSeen' = [b \in Known |-> SeedOf(now)]
  /\ maxVersion' = [b \in Known |-> 0] /\ accepted' = [b \in Known |-> {}]
  /\ bytes' = [f \in Flows |-> 0] /\ opened' = {}
  /\ bloom' = [i \in 1..3 |-> {}] /\ count' = 0 /\ armed' = {}
  /\ override' = [f \in Flows |-> "none"] /\ heap' = {}
  /\ pos' = pos + 1 /\ due' = now + 20000
  /\ UNCHANGED <<coarse, setup, now, queue, slots, truth, log, cpu, judged>>

(* evaluate_hold on the oldest digest, its latency after the packet.       *)
Decide ==
  /\ queue # <<>> /\ Head(queue).at + setup.latency <= now
  /\ \E d \in {Head(queue)} : \E g \in {A!Gate(d, Script.rat, now)} :
     \E v \in {IF g.pc = "match" THEN A!Match(d, Script.rat, now) ELSE g} :
       LET charged == v.pc = "record"
           entry == CHOOSE e \in v.entry : TRUE
           kept == A!Prune(entry.rollout)
           fits == charged /\ A!Admits(entry, kept)
           act == IF charged /\ ~fits THEN "deny" ELSE v.act
       IN
       /\ slots' = IF ~charged THEN slots
                   ELSE IF ~fits THEN kept
                   ELSE kept \cup {[id |-> d.item, rollout |-> entry.rollout,
                                    flow |-> d.flow, due |-> now + 5000]}
       /\ override' = [override EXCEPT ![d.flow] = act]
       /\ heap' = heap \cup {[flow |-> d.flow, due |-> now + 5000]}
       /\ log' = Append(log,
            [at |-> now, flow |-> d.flow, item |-> d.item,
             decision |-> IF act = "allow" THEN "PASS" ELSE "DROP",
             reason |-> IF charged /\ ~fits THEN A!CapReason(v.reason) ELSE v.reason])
  /\ queue' = Tail(queue)
  /\ UNCHANGED <<coarse, lastSeen, maxVersion, bytes, opened, bloom, count, armed,
                 accepted, setup, now, due, pos, truth, cpu, judged>>

(* Time moves to the next item or the next decision, whichever is first;   *)
(* meanwhile the clock is written, the window cleared, the slots seeded    *)
(* anew, and old rows expire.                                              *)
Wait ==
  /\ IF queue = <<>> THEN now < due ELSE now < Head(queue).at + setup.latency
  /\ now' = IF queue = <<>> THEN due
            ELSE IF Playing /\ now < due /\ due < Head(queue).at + setup.latency THEN due
            ELSE Head(queue).at + setup.latency
  /\ Playing => now < due
  /\ coarse' = CoarseAt(now')
  /\ lastSeen' = IF ReseedRun(now') > now THEN [b \in Known |-> SeedOf(ReseedRun(now'))]
                                          ELSE lastSeen
  /\ IF WindowRun(now') <= now THEN UNCHANGED <<bloom, count>>
     ELSE bloom' = [i \in 1..3 |-> {}] /\ count' = 0
  /\ heap' = {h \in heap : h.due > now'}
  /\ override' = [f \in Flows |-> IF \E h \in heap : h.flow = f /\ h.due <= now'
                                  THEN "none" ELSE override[f]]
  /\ UNCHANGED <<maxVersion, bytes, opened, armed, accepted, setup, due, pos,
                 queue, slots, truth, log, cpu, judged>>

Done == ~Playing /\ queue = <<>>
Finished == Done /\ UNCHANGED vars

Next == Send \/ Rest \/ ResetDetector \/ Decide \/ Wait \/ Finished
Spec == Init /\ [][Next]_vars

-----------------------------------------------------------------------------
TypeOK ==
  /\ P!TypeOK
  /\ now \in Nat /\ due \in Nat /\ pos \in 1..(Len(Script.items) + 1)
  /\ Len(judged) = Len(truth) /\ Len(log) + Len(queue) <= pos
  /\ slots \subseteq [id : Nat, rollout : STRING, flow : Flows, due : Nat]
  /\ heap \subseteq [flow : Flows, due : Nat]

(* (Events stay as they are once recorded: the newest one is looked at.)   *)
NewestEvent == {Len(truth)} \ {0}
NewestDecision == {Len(log)} \ {0}

(* A rollout the manifest covers is released: whatever rules it trips,     *)
(* every event the scenario calls LEGIT is let through, by the pipeline or *)
(* by the arbiter, and no cap of the manifest is hit on the way.           *)
LegitReleased ==
  Script.released =>
    \A i \in NewestDecision : Script.items[log[i].item].label = "LEGIT" => log[i].decision = "PASS"

(* An attack the rules can see is stopped under a manifest that does not   *)
(* cover it, whichever generator sent it: any push of a rogue source; and, *)
(* if its header is read, a push older than one the BMS got before, and a  *)
(* replay that comes after the clock has moved on from the push before it  *)
(* and before the R1 slots are seeded anew.  A reset wipes what came before.*)
Wiped(m, n) == \E k \in (m + 1)..(n - 1) : Script.items[k].kind = "reset"
Earlier(i) == {j \in 1..(i - 1) : /\ truth[j].flow[2] = truth[i].flow[2]
                                  /\ truth[j].flow[1] # ATTACK_SRC /\ truth[j].parsed
                                  /\ ~Wiped(truth[j].item, truth[i].item)}
Since(i, j) == truth[i].at - truth[j].at
Reseeded(i, j) == ReseedRun(truth[i].at) > truth[j].at
Visible(i) ==
  LET item == Script.items[truth[i].item] IN
  \/ item.src = ATTACK_SRC
  \/ /\ truth[i].parsed /\ item.bms \in Known
     /\ \/ \E j \in Earlier(i) : Script.items[truth[j].item].version > item.version
        \/ /\ \E j \in Earlier(i) : ~Reseeded(i, j)
           /\ \A j \in Earlier(i) : Since(i, j) >= 2000
AttackStopped ==
  Script.stopped =>
    /\ \A i \in NewestEvent :
         truth[i].label = "ATTACK" /\ Visible(i) => truth[i].act # "PASS"
    /\ \A i \in NewestDecision :
         Script.items[log[i].item].label = "ATTACK" => log[i].decision = "DROP"

(* E18: the parser finds the OTA header in the variants whose ground truth *)
(* says PARSED, and in no other.                                           *)
ParserAsLabelled ==
  \A i \in NewestEvent :
    LET scen == Script.items[truth[i].item].scen IN
    /\ scen = "e18_parsed" => truth[i].parsed
    /\ scen = "e18_parser_miss" => ~truth[i].parsed

(* The reconciler gives an event the decision its own packet caused, gives *)
(* it one whenever there is one within the window, and leaves over only    *)
(* decisions on filler segments, which no event stands for.                *)
ReconcileIsCausal ==
  Done =>
    \A row \in Range(O!reconcile(truth, log, 100)) :
      /\ row.event # 0 /\ row.decision # 0 =>
           log[row.decision].item = truth[row.event].item
      /\ row.event # 0 /\ row.decision = 0 =>
           \A j \in DOMAIN log : log[j].item # truth[row.event].item
      /\ row.event = 0 =>
           Script.items[log[row.decision].item].kind = "filler"

(* "The exact same R1..R6 logic": the CPU detector and the policy engine   *)
(* come to the same verdict on every push of a rogue source and, as long as *)
(* the switch has read the header of each push an authorised source sent   *)
(* to that BMS, on those of authorised sources; and whatever headers the   *)
(* switch has missed, what the detector lets pass the switch lets pass.    *)
(* Not so for a push so soon after another that the one-second clock       *)
(* decides, one between whose predecessor and itself the R1 slots were     *)
(* seeded anew, and after a reset, of which the detector does not know.    *)
R1Differs(i) == \E j \in Earlier(i) : Since(i, j) < 2000 \/ Reseeded(i, j)
Missed(i) == \E j \in 1..i : /\ truth[j].flow[2] = truth[i].flow[2]
                             /\ truth[j].flow[1] \in Authorized /\ ~truth[j].parsed
TwinAgrees ==
  \A i \in NewestEvent :
    LET item == Script.items[truth[i].item] IN
    (item.kind = "push" /\ \A j \in 1..(truth[i].item) : Script.items[j].kind # "reset") =>
      /\ item.src = ATTACK_SRC => judged[i] = truth[i].act
      /\ item.src # ATTACK_SRC /\ ~R1Differs(i) =>
           /\ Missed(i) \/ judged[i] = truth[i].act
           /\ judged[i] = "PASS" => truth[i].act = "PASS"

(* E22: an event whose ground truth expects DROP is denied, one whose      *)
(* ground truth expects PASS is not.                                       *)
E22AsExpected ==
  Done =>
    \A i \in DOMAIN truth :
      LET scen == Script.items[truth[i].item].scen
          denied == \E j \in DOMAIN log : log[j].item = truth[i].item /\ log[j].decision = "DROP"
      IN  scen \in E22Scenarios => (denied <=> E22Expected(scen).decision = "DROP")
=============================================================================
