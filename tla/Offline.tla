------------------------------- MODULE Offline -------------------------------
(***************************************************************************)
(* What the experiments compute from a recorded trial, away from the       *)
(* switch: reconcile_decisions.py joins the ground truth with the          *)
(* controller's decisions, cpu_baseline_otashield.py judges the packets a  *)
(* second time.  Times are in milliseconds, a flow stands for a 5-tuple.   *)
(***************************************************************************)
EXTENDS Integers, SequencesExt, FiniteSetsExt

-----------------------------------------------------------------------------
(* reconcile_decisions.py.  An event is [at, flow, label, ...], a decision *)
(* [at, flow, decision, ...], in the order of the decision log.            *)

NON_DECISION_LABELS == {"BROKER_RELAY"}
(* _is_attack_label wants the prefix "ATTACK_" or "MIMICRY_"; the plain    *)
(* "ATTACK" of the scenarios has neither.                                  *)
PrefixedLabels == {"ATTACK_A1", "ATTACK_A5", "MIMICRY_R1"}
_is_attack_label(label) == label \in PrefixedLabels
_outcome_for_attack(d) == IF d = "DROP" THEN "TP" ELSE "FN"
_outcome_for_legit(d) == IF d \in {"PASS", "none"} THEN "TN" ELSE "FP"
Outcome(label, d) ==
  IF _is_attack_label(label) THEN _outcome_for_attack(d) ELSE _outcome_for_legit(d)

(* Five-tuple and time window: the records that may be joined at all.      *)
Lag(ev, dec) == IF ev.at < dec.at THEN dec.at - ev.at ELSE ev.at - dec.at
match_5tuple(ev, dec, window) == ev.flow = dec.flow /\ Lag(ev, dec) <= window

(* The decisions of a flow by time, ties in log order; bisect_left and the *)
(* neighbours on either side of the event.                                 *)
Before(decs, i, j) == decs[i].at < decs[j].at \/ (decs[i].at = decs[j].at /\ i < j)
Neighbours(ev, decs) ==
  LET Sooner(j) == decs[j].flow = ev.flow /\ decs[j].at < ev.at
      Later(j) == decs[j].flow = ev.flow /\ decs[j].at >= ev.at
      LastSooner(j) == Sooner(j) /\ ~\E i \in DOMAIN decs : Sooner(i) /\ Before(decs, j, i)
      FirstLater(j) == Later(j) /\ ~\E i \in DOMAIN decs : Later(i) /\ Before(decs, i, j)
  IN  {j \in DOMAIN decs : LastSooner(j) \/ FirstLater(j)}

(* The free neighbour in the window that is nearer, the sooner of two that *)
(* are equally near; 0 if there is none.                                   *)
BestAnyFlow(ev, decs, used, window) ==               \* mutant of Best
  LET free == {j \in DOMAIN decs \ used : Lag(ev, decs[j]) <= window}
  IN  IF free = {} THEN 0 ELSE CHOOSE j \in free : \A k \in free : j <= k
Best(ev, decs, used, window) ==
  LET near == {j \in Neighbours(ev, decs) \ used : Lag(ev, decs[j]) <= window}
      Nearer(i, j) == Lag(ev, decs[i]) < Lag(ev, decs[j])
  IN  IF near = {} THEN 0
      ELSE CHOOSE i \in near : \A j \in near \ {i} :
             Nearer(i, j) \/ (~Nearer(j, i) /\ Before(decs, i, j))

(* One row per event, then one per decision no event has taken.            *)
Row(ev, j, d, outcome) == [event |-> ev, decision |-> j, pred |-> d, outcome |-> outcome]
JoinOne(truth, decs, window, acc, e) ==
  LET ev == truth[e]
      j == Best(ev, decs, acc.used, window)
      d == IF j = 0 THEN "none" ELSE decs[j].decision
  IN  IF ev.label \in NON_DECISION_LABELS
      THEN [acc EXCEPT !.rows = Append(@, Row(e, 0, "none", "ND"))]
      ELSE [used |-> IF j = 0 THEN acc.used ELSE acc.used \cup {j},
            rows |-> Append(acc.rows, Row(e, j, d, Outcome(ev.label, d)))]
reconcile(truth, decs, window) ==
  LET joined == FoldLeft(LAMBDA acc, e : JoinOne(truth, decs, window, acc, e),
                         [used |-> {}, rows |-> <<>>], [e \in 1..Len(truth) |-> e])
      orphans == SelectSeq([j \in 1..Len(decs) |-> j], LAMBDA j : j \notin joined.used)
      Orphan(j) == Row(0, j, decs[j].decision, IF decs[j].decision = "PASS" THEN "ND" ELSE "FP")
  IN  joined.rows \o [i \in 1..Len(orphans) |-> Orphan(orphans[i])]

(* load_decisions: the lines of the log that are decisions; digests and    *)
(* barrier markers have none.                                              *)
load_decisions(lines) == SelectSeq(lines, LAMBDA line : line.decision # "none")

-----------------------------------------------------------------------------
(* cpu_baseline_otashield.CpuDetector: the state it keeps per packet.      *)

CPU_R1_SECONDS == 14400                              \* mutant of CPU_R1_INTERVAL
CPU_R1_INTERVAL == 14400 * 1000
CPU_R4_BYTES == 2 * 1024 * 1024
CPU_R5_THRESHOLD == 4
CPU_R5_WINDOW == 60 * 1000
NotSeen == -1

CpuInit(bms, flows) ==
  [last |-> [b \in bms |-> NotSeen], max |-> [b \in bms |-> 0],
   bytes |-> [f \in flows |-> 0], targets |-> {}, start |-> NotSeen]

(* reset_r5_window_if_needed: windows are counted from the first packet.   *)
reset_r5_window_if_needed(cpu, t) ==
  IF cpu.start = NotSeen THEN [cpu EXCEPT !.start = t]
  ELSE IF t - cpu.start >= CPU_R5_WINDOW THEN [cpu EXCEPT !.targets = {}, !.start = t]
  ELSE cpu

(* process, on a packet p = [at, flow, src, bms, ota, version, len]: the   *)
(* new state, the rules and the label.  A BMS it does not know ends it.    *)
process(before, p, authorized, known) ==
  LET cpu == reset_r5_window_if_needed(before, p.at)
      r2 == p.src \notin authorized
      now == cpu.bytes[p.flow] + p.len
      seen == IF r2 THEN cpu.targets \cup {p.bms} ELSE cpu.targets
      fires == [R1 |-> cpu.last[p.bms] # NotSeen
                       /\ p.at - cpu.last[p.bms] < CPU_R1_INTERVAL,
                R2 |-> r2,
                R4 |-> now > CPU_R4_BYTES,
                R5 |-> r2 /\ Cardinality(seen) > CPU_R5_THRESHOLD,
                R6 |-> p.version < cpu.max[p.bms]]
      fired == {r \in DOMAIN fires : fires[r]}
  IN  IF ~p.ota THEN [state |-> cpu, rules |-> {}, label |-> "PASS"]
      ELSE IF p.bms \notin known
      THEN [state |-> cpu, rules |-> IF r2 THEN {"R2"} ELSE {},
            label |-> IF r2 THEN "DROP" ELSE "PASS"]
      ELSE [state |-> [cpu EXCEPT
                !.last[p.bms] = IF r2 THEN @ ELSE p.at,
                !.bytes[p.flow] = now,
                !.targets = seen,
                !.max[p.bms] = IF r2 \/ fires.R6 THEN @ ELSE p.version],
            rules |-> fired,
            label |-> IF r2 THEN "DROP" ELSE IF fired # {} THEN "HOLD" ELSE "PASS"]

(* score: a HOLD counts as an alarm. *)
CpuAlarm(label) == label \in {"HOLD", "DROP"}
=============================================================================
