----------------------------- MODULE Scenarios -----------------------------
(***************************************************************************)
(* The traffic generators of src/experiments/scenarios.py, and the signed  *)
(* rollout of scenarios_e12b.py built from them: which packets a scenario  *)
(* sends, in which order, with which sleeps between them, and the label it *)
(* writes in the ground truth.                                             *)
(*                                                                         *)
(* A scenario is a sequence of items.  An item is one packet and the pause *)
(* that follows it, in milliseconds, or only a pause or a marker.  What a  *)
(* generator draws at random (orders, samples, gaps, deltas) is one of its *)
(* parameters; a fresh source port is the next free one.  Topics and notes *)
(* are left out: nothing downstream tells them apart.                      *)
(***************************************************************************)
EXTENDS Integers, SequencesExt

AUTH_SRC   == 10                 \* 10.0.1.10
SECOND_SRC == 11                 \* 10.0.1.11
ATTACK_SRC == 99                 \* 10.0.1.99
FLEET == 50                      \* BMS 0..49 are 10.0.2.10 .. 10.0.2.59
MIB == 1024 * 1024

(* _varint: bytes of an MQTT remaining length.                             *)
VarintBytes(n) == IF n < 128 THEN 1 ELSE IF n < 16384 THEN 2
                                    ELSE IF n < 2097152 THEN 3 ELSE 4
(* _publish: bytes on the wire of a push that advertises sz bytes.         *)
OnWire(sz, max) == IF sz < 20 THEN 0 ELSE IF sz < max THEN sz - 20 ELSE max - 20
PublishBytes(sz) ==
  LET var == 2 + 32 + 2 + 20 + OnWire(sz, 1300) IN 1 + VarintBytes(var) + var

(* A 32-byte topic at QoS 1 is what the parser of the switch expects.      *)
Standard == [tlen |-> 32, qos |-> 1]

_send(src, b, sport, v, sz, label, scen, wait) ==
  [kind |-> "push", src |-> src, bms |-> b, sport |-> sport, version |-> v,
   size |-> sz, len |-> PublishBytes(sz), form |-> Standard,
   label |-> label, scen |-> scen, wait |-> wait]

Pause(ms) == [kind |-> "pause", src |-> 0, bms |-> 0, sport |-> 0, version |-> 0,
              size |-> 0, len |-> 0, form |-> Standard,
              label |-> "none", scen |-> "none", wait |-> ms]
Marker(scen) == [Pause(0) EXCEPT !.kind = "marker", !.label = "SIGFAIL_EXPECTED",
                                 !.scen = scen]
Sleep(ms) == <<Pause(ms)>>

Labelled(s, label, scen) == [i \in 1..Len(s) |-> [s[i] EXCEPT !.label = label, !.scen = scen]]
Waves(waves, gap) ==
  FlattenSeq([w \in 1..Len(waves) |->
    waves[w] \o (IF w < Len(waves) THEN Sleep(gap) ELSE <<>>)])

-----------------------------------------------------------------------------
(* The building blocks. *)

legit_rollout(n, start, size, v, gap, base, scen) ==
  [i \in 1..n |-> _send(AUTH_SRC, start + i - 1, base + i - 1, v, size, "LEGIT", scen, gap)]

a5_replay(targets, gap, size, v, base) ==
  [i \in 1..Len(targets) |->
     _send(AUTH_SRC, targets[i], base + i - 1, v, size, "ATTACK", "a5_replay", gap)]

a3_unauthorized(targets, size, v, base) ==
  [i \in 1..Len(targets) |->
     _send(ATTACK_SRC, targets[i], base + i - 1, v, size, "ATTACK", "a3_unauthorized", 20)]

(* One PUBLISH header and then filler segments of the same flow, sent 200  *)
(* at a time, until the advertised size is reached.  A batch is one item,  *)
(* a millisecond a segment: nothing else happens between its packets.      *)
a4_oversize(b, total, per, sport) ==
  LET header == [_send(AUTH_SRC, b, sport, 11, total, "ATTACK", "a4_oversize", 0)
                   EXCEPT !.len = per]
      segments == (total - 1) \div per                  \* after the first
      Batch(n) == [header EXCEPT !.kind = "filler", !.len = n * per, !.label = "none",
                                   !.wait = n]
  IN  <<header>> \o [i \in 1..(segments \div 200) |-> Batch(200)]
                 \o (IF segments % 200 = 0 THEN <<>> ELSE <<Batch(segments % 200)>>)

a1_fleet_fanout(n, start, gap, size, v, base) ==
  legit_rollout(n, start, size, v, gap, base, "a1_fleet_fanout")

-----------------------------------------------------------------------------
(* Attack sweeps. *)

pack_attack_sweep(targets, unauth) ==
  [i \in 1..Len(targets) |->
     _send(AUTH_SRC, targets[i], 51000 + i - 1, 48, 1024, "LEGIT", "baseline", 50)]
  \o a5_replay(targets, 50, 1024, 48, 52000)
  \o a3_unauthorized(unauth, 1024, 48, 55000)

Fanouts(sizes, base) ==
  FlattenSeq([k \in 1..Len(sizes) |->
    LET start == FoldLeft(+, 0, SubSeq(sizes, 1, k - 1))
    IN  IF start + sizes[k] > FLEET THEN <<>>
        ELSE a1_fleet_fanout(sizes[k], start, 50, 1024, 48, base + sizes[k] * 100)
             \o Sleep(65000)])
pack_adversarial_near_threshold == Fanouts(<<3, 4, 5, 6, 7>>, 56000)
pack_evasion_r5(fanouts) == Fanouts(fanouts, 59000)

pack_stochastic_e1(targets, replayed, unauth, gap) ==
  LET n == Len(targets)
      Burst(src, order, first, label, scen) ==
        [i \in 1..Len(order) |->
           _send(src, order[i], first + i, 48, 1024, label, scen, gap)]
  IN  Burst(AUTH_SRC, targets, 49152, "LEGIT", "baseline")
      \o Burst(AUTH_SRC, replayed, 49152 + n, "ATTACK", "a5_replay")
      \o Burst(ATTACK_SRC, unauth, 49152 + 2 * n, "ATTACK", "a3_unauthorized")

(* Pairs of pushes to one BMS, a replay if less than four hours apart.     *)
pack_evasion_r1(intervals) ==
  FlattenSeq([i \in 1..Len(intervals) |->
    LET Probe(k, label, wait) ==
          _send(AUTH_SRC, i - 1, 57000 + 2 * (i - 1) + k, 48, 1024, label, "r1_evasion", wait)
    IN  << Probe(0, "LEGIT", intervals[i] * 1000),
           Probe(1, IF intervals[i] < 14400 THEN "ATTACK" ELSE "LEGIT", 0) >>])

pack_evasion_r4(sizes) ==
  FlattenSeq([i \in 1..Len(sizes) |->
    LET flow == a4_oversize(i - 1, sizes[i], 1400, 58000 + i - 1)
        label == IF sizes[i] > 2 * MIB THEN "ATTACK" ELSE "LEGIT"
    IN  <<[flow[1] EXCEPT !.label = label, !.scen = "r4_evasion"]>>
        \o Tail(flow) \o Sleep(5000)])

(* Random pushes; bumps are the positions where the BMS got a new version. *)
pack_long_baseline(targets, sizes, bumps, gap) ==
  [i \in 1..Len(targets) |->
     _send(AUTH_SRC, targets[i], 49151 + i,
           48 + Cardinality({j \in bumps : j <= i /\ targets[j] = targets[i]}),
           sizes[i], "LEGIT", "long_baseline", gap)]

-----------------------------------------------------------------------------
(* Benign rollouts (E12, E12b). *)

benign_staged_rollout(waves, per, waveGap, gap) ==
  Waves([w \in 1..waves |->
           legit_rollout(per, (w - 1) * per, 512 * 1024, 48, gap,
                         60000 + (w - 1) * per, "benign_staged")], waveGap)

benign_emergency_patch(n) ==
  legit_rollout(n, 0, 768 * 1024, 48, 5, 61000, "benign_emergency")

benign_source_migration(n) ==
  LET half == n \div 2
  IN  legit_rollout(half, 0, MIB, 48, 30, 62000, "benign_migration_src1")
      \o Sleep(10000)
      \o [i \in 1..(n - half) |->
            _send(SECOND_SRC, half + i - 1, 62000 + half + i - 1, 48, MIB,
                  "LEGIT", "benign_migration_src2", 30)]

benign_delayed_window(n, delay) ==
  Sleep(delay) \o legit_rollout(n, 0, 640 * 1024, 48, 40, 63000, "benign_delayed")

benign_authorized_rollback(n) ==
  legit_rollout(n, 0, 512 * 1024, 48, 30, 64000, "benign_rollback_preamble")
  \o Sleep(70000)
  \o legit_rollout(n, 0, 512 * 1024, 47, 30, 64100, "benign_authorized_rollback")

pack_benign_rollout_stress(gap) ==
  Sleep(3000) \o benign_staged_rollout(5, 10, 30000, gap)
  \o Sleep(70000) \o benign_emergency_patch(FLEET)
  \o Sleep(70000) \o benign_source_migration(10)
  \o Sleep(70000) \o benign_delayed_window(20, 15000)
  \o Sleep(70000) \o benign_authorized_rollback(10)

(* Phase A is the stress pack; in phase B the signature is corrupted while *)
(* the scenario sleeps, and the last good manifest must still release.     *)
pack_benign_rollout_signed(gap, inject) ==
  pack_benign_rollout_stress(gap)
  \o IF ~inject THEN <<>>
     ELSE Sleep(70000) \o <<Marker("e12b_phaseB_inject_marker")>> \o Sleep(5000)
          \o Labelled(benign_emergency_patch(8), "LEGIT", "e12b_phaseB_lastgood")

-----------------------------------------------------------------------------
(* Mimicry near the thresholds (E17). *)

Groups(order, cycles, per, size, gap, base, scen) ==
  Waves([c \in 1..cycles |->
           LET group == SubSeq(order, (c - 1) * per + 1, c * per)
           IN  [i \in 1..Len(group) |->
                  _send(AUTH_SRC, group[i], base + (c - 1) * per + i - 1, 48, size,
                        "ATTACK", scen, gap)]], 65000)
mimicry_fanout_sub_threshold(order, base) ==
  Groups(order, 6, 4, 1024, 40, base, "mimicry_fanout_sub")
mimicry_fanout_three(order, base) ==
  Groups(order, 6, 3, 1024, 40, base, "mimicry_fanout_three")
mimicry_combined_evasion(order, base) ==
  Groups(order, 3, 4, 2105344, 50, base, "mimicry_combined")

mimicry_r4_deadzone(base) ==
  LET sizes == <<2097152, 2113536, 2162688>>
  IN  [i \in 1..3 |-> _send(AUTH_SRC, i - 1, base + i - 1, 48, sizes[i],
                            "ATTACK", "mimicry_r4_deadzone", 500)]

mimicry_r1_late_replay(base) ==
  [r \in 1..2 |-> _send(AUTH_SRC, 0, base + r - 1, 48, 1024, "ATTACK", "mimicry_r1_late", 2000)]

SportOffset(seed) == (seed % 200) * 100
pack_mimicry_e17(seed, o1, o2, o3) ==
  LET off == SportOffset(seed)
  IN  mimicry_fanout_sub_threshold(o1, 40000 + off)
      \o Sleep(65000) \o mimicry_fanout_three(o2, 43000 + off)
      \o Sleep(65000) \o mimicry_r4_deadzone(41000 + off)
      \o Sleep(5000) \o mimicry_combined_evasion(o3, 44000 + off)
      \o Sleep(65000) \o mimicry_r1_late_replay(42000 + off)

mimicry_single(name, seed, order) ==
  LET off == SportOffset(seed)
  IN  CASE name = "mimicry_fanout_sub" -> mimicry_fanout_sub_threshold(order, 40000 + off)
        [] name = "mimicry_fanout_three" -> mimicry_fanout_three(order, 43000 + off)
        [] name = "mimicry_r4_deadzone" -> mimicry_r4_deadzone(41000 + off)
        [] name = "mimicry_combined" -> mimicry_combined_evasion(order, 44000 + off)
        [] name = "mimicry_r1_late" -> mimicry_r1_late_replay(42000 + off)

-----------------------------------------------------------------------------
(* Rollbacks (E19). *)

pack_rollback_e19(n, baseline, rollback, gap) ==
  legit_rollout(n, 0, 512 * 1024, baseline, gap, 64000, "e19_baseline")
  \o Sleep(65000)
  \o Labelled(legit_rollout(n, 0, 512 * 1024, rollback, gap, 65000, "e19"),
              "ATTACK", "e19_rollback")

(* Cyclic over a shuffled order, so a BMS may be reached twice in a phase; *)
(* legit is the drawn number of baselines, 1..n of the 2 n events.         *)
pack_rollback_e19_stochastic(n, legit, delta, order, attacks, gap) ==
  LET Burst(k, perm, base, v, label, scen) ==
        [i \in 1..k |-> _send(AUTH_SRC, perm[((i - 1) % n) + 1], base + i - 1, v,
                              512 * 1024, label, scen, gap)]
  IN  Burst(legit, order, 64000, 48, "LEGIT", "e19s_baseline")
      \o Sleep(65000)
      \o Burst(2 * n - legit, attacks, 65000, 48 - delta, "ATTACK", "e19s_rollback")
=============================================================================
