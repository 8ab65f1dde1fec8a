--------------------------- MODULE FleetScenarios ---------------------------
(***************************************************************************)
(* The generators that write a trace or a plan to be sent later:           *)
(* scenarios_m4.py (MQTT variants, fleets of 200 and more), scenarios_e22  *)
(* (the five RAT lifecycle cases) and scenarios_e7b.py (slow cadence).     *)
(* Arrival processes and draws are parameters, as in Scenarios.            *)
(***************************************************************************)
EXTENDS Scenarios, FiniteSets

-----------------------------------------------------------------------------
(* scenarios_m4.py: E18, one PUBLISH per MQTT form, and what the parser of *)
(* the current program is expected to make of it.                          *)

Variant(tlen, qos, parsed) == [tlen |-> tlen, qos |-> qos, parsed |-> parsed]
E18Variants ==               \* in order; the sixth sets the retain flag
  << Variant(32, 1, TRUE), Variant(16, 1, FALSE), Variant(64, 1, FALSE),
     Variant(32, 0, TRUE), Variant(32, 2, TRUE), Variant(32, 1, TRUE),
     Variant(16, 0, FALSE), Variant(64, 0, FALSE) >>

_publish_bytes(tlen, qos, sz) ==
  LET var == 2 + tlen + (IF qos > 0 THEN 2 ELSE 0) + 20 + OnWire(sz, 1300)
  IN  1 + VarintBytes(var) + var

pack_e18_qos0_portability(gap) ==
  [i \in 1..Len(E18Variants) |->
    LET v == E18Variants[i]
    IN  [_send(AUTH_SRC, 0, 45000 + i - 1, 48, 1024, "LEGIT",
               IF v.parsed THEN "e18_parsed" ELSE "e18_parser_miss", gap)
           EXCEPT !.form = [tlen |-> v.tlen, qos |-> v.qos],
                  !.len = _publish_bytes(v.tlen, v.qos, 1024)]]

(* Arrivals of n independent Poisson streams: [gap, bms] records drawn for *)
(* the whole trace; replays and unauths are the drawn attack positions.    *)
Arrival == [gap : Nat, bms : Nat]

(* The position counts as a replay only if an earlier one was a baseline.  *)
(* version and size are by position, ips the addresses.                    *)
FleetTrace(arrivals, replays, unauths, version, size, ips) ==
  LET Baseline[i \in 0..Len(arrivals)] ==          \* BMS that have had one
        IF i = 0 THEN {}
        ELSE IF i \in unauths \/ (i \in replays /\ arrivals[i].bms \in Baseline[i - 1])
             THEN Baseline[i - 1] ELSE Baseline[i - 1] \cup {arrivals[i].bms}
      Kind(i) == IF i \in replays /\ arrivals[i].bms \in Baseline[i - 1] THEN "replay"
                 ELSE IF i \in unauths THEN "unauthorized" ELSE "baseline"
  IN  [i \in 1..Len(arrivals) |->
        _send(IF Kind(i) = "unauthorized" THEN ATTACK_SRC ELSE AUTH_SRC,
              ips[i], 49151 + i, version[i], size[i],
              IF Kind(i) = "baseline" THEN "LEGIT" ELSE "ATTACK", Kind(i),
              arrivals[i].gap)]

Column(x, arrivals) == [i \in 1..Len(arrivals) |-> x]
_bms_ip(b) == b                                    \* 10.0.2.(10 + b)
pack_e1_200bms_extrapolation(arrivals, replays, unauths) ==
  FleetTrace(arrivals, replays, unauths,
    Column(48, arrivals), Column(1024, arrivals), [i \in 1..Len(arrivals) |-> _bms_ip(arrivals[i].bms)])

pack_e8_200bms_extrapolation(arrivals, replays, unauths, bumps, sizes) ==
  FleetTrace(arrivals, replays, unauths,
    [i \in 1..Len(arrivals) |->
       48 + Cardinality({j \in bumps : j <= i /\ arrivals[j].bms = arrivals[i].bms})],
    sizes, [i \in 1..Len(arrivals) |-> _bms_ip(arrivals[i].bms)])

(* _fleet_ip skips the host numbers 0 and 246..255 of each /24, and starts *)
(* at 10.0.2.11: a BMS of the fleet is not at the address it has elsewhere. *)
_fleet_ip(b) == 256 * ((10 + b) \div 245) + ((10 + b) % 245) - 9
pack_fleet_scaling(arrivals, replays, unauths) ==
  FleetTrace(arrivals, replays, unauths,
    Column(48, arrivals), Column(1024, arrivals), [i \in 1..Len(arrivals) |-> _fleet_ip(arrivals[i].bms)])

-----------------------------------------------------------------------------
(* scenarios_e22.py: the RAT and the packets of each lifecycle case, and   *)
(* the decision and reason the ground truth expects for an event.          *)

E22Sizes == 512..2097152
E22Range == 0..19                                  \* 10.0.2.10 .. 10.0.2.29
E22Rollout(id, window, cap) ==
  [rollout |-> id, window |-> window, srcs |-> {AUTH_SRC}, bms |-> E22Range,
   sizes |-> E22Sizes, rollback |-> {}, cap |-> cap]
e22_rat_fixture(window, cap) ==
  <<E22Rollout("e22-capped", window, cap), E22Rollout("e22-active", window, 50)>>

E22Burst(targets, sizes, gap, label, scen) ==
  [i \in 1..Len(targets) |->
     _send(AUTH_SRC, targets[i], 49151 + i, 48, sizes[i], label, scen, gap)]
HalfMib(targets) == [i \in 1..Len(targets) |-> 512 * 1024]

pack_e22_pre_rollout(targets, gap) ==
  E22Burst(targets, HalfMib(targets), gap, "ATTACK", "e22_pre_rollout")
pack_e22_active_authorized(targets, sizes, gap) ==
  E22Burst(targets, sizes, gap, "LEGIT", "e22_active_authorized")
pack_e22_post_expiry(targets, gap) ==
  E22Burst(targets, HalfMib(targets), gap, "ATTACK", "e22_post_expiry")

(* draws: [mode, bms, size]; "src" a rogue source, "dst" a BMS off the     *)
(* list, "size" more than the entry allows.                                *)
pack_e22_active_unauthorized(draws, gap) ==
  [i \in 1..Len(draws) |->
    LET d == draws[i] IN
    CASE d.mode = "src" -> _send(ATTACK_SRC, d.bms, 49151 + i, 48, 512 * 1024, "ATTACK",
                                 "e22_active_unauthorized_src", gap)
      [] d.mode = "dst" -> _send(AUTH_SRC, d.bms, 49151 + i, 48, 512 * 1024, "ATTACK",
                                 "e22_active_unauthorized_dst", gap)
      [] d.mode = "size" -> _send(AUTH_SRC, d.bms, 49151 + i, 48, d.size, "ATTACK",
                                  "e22_active_unauthorized_size", gap)]

pack_e22_max_concurrent(chosen, cap, gap) ==
  LET burst == E22Burst(chosen, HalfMib(chosen), gap, "LEGIT", "e22_max_concurrent_admitted")
  IN  SubSeq(burst, 1, cap)
      \o Labelled(SubSeq(burst, cap + 1, Len(burst)), "ATTACK", "e22_max_concurrent_overflow")

E22Scenarios ==
  {"e22_pre_rollout", "e22_active_authorized", "e22_post_expiry", "e22_max_concurrent_admitted",
   "e22_max_concurrent_overflow", "e22_active_unauthorized_src",
   "e22_active_unauthorized_dst", "e22_active_unauthorized_size"}
E22Expected(scen) ==
  CASE scen \in {"e22_active_authorized", "e22_max_concurrent_admitted"}
         -> [decision |-> "PASS", reason |-> "rat_match"]
    [] scen \in {"e22_pre_rollout", "e22_post_expiry", "e22_active_unauthorized_dst"}
         -> [decision |-> "DROP", reason |-> "rat_miss"]
    [] scen \in {"e22_active_unauthorized_src", "e22_active_unauthorized_size"}
         -> [decision |-> "DROP", reason |-> "terminal_fire"]
    [] scen = "e22_max_concurrent_overflow"
         -> [decision |-> "DROP", reason |-> "rat_max_concurrent"]

(* run_e22 replays one event at a time, settles, and resets the detector.  *)
Reset == [Pause(0) EXCEPT !.kind = "reset"]
PerEventReset(s) == FlattenSeq([i \in 1..Len(s) |->
                      IF i = 1 THEN <<s[i]>> ELSE <<Pause(5000), Reset, s[i]>>])

-----------------------------------------------------------------------------
(* scenarios_e7b.py: benign updates of each BMS 5 to 6 hours apart, each a *)
(* version higher, and rollbacks injected in between.                      *)

(* schedule: [at, kind, bms, size, delta] in time order, benign first at a *)
(* tie; times are in milliseconds.                                         *)
(* What the two schedulers may draw for a run of that many milliseconds.   *)
BenignAt(schedule, b) ==
  {schedule[i].at : i \in {j \in 1..Len(schedule) :
     schedule[j].kind = "benign_update" /\ schedule[j].bms = b}}
_benign_schedule(schedule, b, duration) ==
  LET times == BenignAt(schedule, b)
  IN  /\ \E t \in times : t <= 900000
      /\ \A t \in times :
           \/ t + 22000000 >= duration
           \/ \E u \in times : u - t \in 18000000..22000000
_attack_schedule(schedule, duration) ==
  \A i \in 1..Len(schedule) :
    schedule[i].kind = "rollback_attack" => schedule[i].at \in 60000..(duration - 60000)

pack_e7b_slow_cadence(schedule) ==
  LET Benign(i) == schedule[i].kind = "benign_update"
      HighWater(i) == 48 + Cardinality({j \in 1..i : Benign(j) /\ schedule[j].bms = schedule[i].bms})
      Victim(i) == IF HighWater(i) - schedule[i].delta > 1
                   THEN HighWater(i) - schedule[i].delta ELSE 1
  IN  [i \in 1..Len(schedule) |->
        _send(AUTH_SRC, schedule[i].bms, 50000 + i - 1,
              IF Benign(i) THEN HighWater(i) ELSE Victim(i), schedule[i].size,
              IF Benign(i) THEN "LEGIT" ELSE "ATTACK",
              IF Benign(i) THEN "benign_update"
              ELSE IF Victim(i) >= HighWater(i) THEN "rollback_attack_skipped"
              ELSE "rollback_attack",
              IF i = Len(schedule) THEN 0 ELSE schedule[i + 1].at - schedule[i].at)]

(* summarize_plan: the gaps between successive benign updates of a BMS.    *)
BenignIntervals(schedule, b) ==
  LET times == BenignAt(schedule, b)
  IN  {p[2] - p[1] : p \in {q \in times \X times :
         q[1] < q[2] /\ {w \in times : q[1] < w /\ w < q[2]} = {}}}
=============================================================================
