----------------------------- MODULE MCTestbed -----------------------------
(* The scenarios TLC plays, small where a scenario is a loop over its      *)
(* argument and as the experiments run it where a bound is at stake (50    *)
(* BMS against a cap of 50, four against a cap of four).                   *)
EXTENDS Testbed

Always == 0..1000000000
Sizes == 512..2097152
Entry(id, srcs, bms, cap, rollback) ==
  [rollout |-> id, window |-> Always, srcs |-> srcs, bms |-> bms, sizes |-> Sizes,
   rollback |-> rollback, cap |-> cap]
(* rat_e12.json, rat.json, rat_stale_e12.json and rat_e7b.json.            *)
RatE12 == << Entry("e12-primary-source", {AUTH_SRC}, 0..49, 50, {}),
             Entry("e12-authorized-rollback", {AUTH_SRC}, 0..9, 50, 40..47),
             Entry("e12-secondary-source-migration", {SECOND_SRC}, 0..19, 50, {}) >>
RatStale == << [Entry("stale-window-e12b", {AUTH_SRC}, 0..49, 5, {}) EXCEPT !.window = {}] >>
RatE7b == << Entry("e12-primary-source", {AUTH_SRC}, 0..49, 50, {}) >>

(* Source ports only tell the flows of two addresses apart: the n-th port  *)
(* of a pair stands for itself.                                            *)
Renumbered(items) ==
  [i \in DOMAIN items |->
     [items[i] EXCEPT !.sport =
        Cardinality({items[j].sport : j \in {k \in DOMAIN items :
          /\ items[k].src = items[i].src /\ items[k].bms = items[i].bms
          /\ items[k].sport <= items[i].sport}})]] \o <<>>
AllBms == 0..61
MCFlows == ({AUTH_SRC} \X AllBms \X (1..8)) \cup ({SECOND_SRC, ATTACK_SRC} \X AllBms \X {1})

Covered(items, rat) == [items |-> Renumbered(items), rat |-> rat, released |-> TRUE, stopped |-> FALSE]
Uncovered(items) == [items |-> Renumbered(items), rat |-> RatStale, released |-> FALSE, stopped |-> TRUE]

Draw(gap, b) == [gap |-> gap, bms |-> b]
Arrivals == <<Draw(700, 3), Draw(2500, 60), Draw(900, 3), Draw(400, 7), Draw(2600, 3), Draw(300, 60)>>
E7b(kind, at, b, delta) == [kind |-> kind, at |-> at * 1000, bms |-> b, size |-> 600000, delta |-> delta]
E7bSchedule == << E7b("benign_update", 100, 0, 0), E7b("benign_update", 400, 1, 0),
                  E7b("rollback_attack", 9000, 0, 3), E7b("rollback_attack", 17000, 1, 1),
                  E7b("benign_update", 18600, 0, 0), E7b("benign_update", 22300, 1, 0),
                  E7b("rollback_attack", 22400, 0, 6) >>
Mode(m, b, sz) == [mode |-> m, bms |-> b, size |-> sz]

Played == <<
  Covered(pack_benign_rollout_signed(20, TRUE), RatE12),
  Uncovered(pack_attack_sweep(<<4, 17, 30>>, <<17, 2, 9>>)),
  Uncovered(pack_adversarial_near_threshold),
  Uncovered(pack_evasion_r5(<<3, 6, 10, 20, 15>>)),
  Uncovered(pack_stochastic_e1(<<4, 17, 30>>, <<30, 4, 17>>, <<1, 2, 3, 4, 5, 6>>, 900)),
  Uncovered(pack_evasion_r1(<<1, 60, 14000, 14399, 14400, 14401, 14500>>)),
  Uncovered(pack_evasion_r4(<<1572864, 2097152, 2107638, 4194304>>)),
  Covered(pack_long_baseline(<<5, 6, 5, 5>>, <<300000, 400000, 500000, 600000>>, {3}, 2000), RatE12),
  Uncovered(pack_mimicry_e17(3, [i \in 1..FLEET |-> i - 1], [i \in 1..FLEET |-> FLEET - i],
                             [i \in 1..FLEET |-> (7 * i) % FLEET])),
  Uncovered(pack_rollback_e19(5, 48, 47, 20)),
  Uncovered(pack_rollback_e19_stochastic(4, 3, 9, <<2, 0, 3, 1>>, <<1, 3, 0, 2>>, 30)),
  Uncovered(pack_e18_qos0_portability(200)),
  Uncovered(pack_e1_200bms_extrapolation(Arrivals, {3, 5}, {4})),
  Uncovered(pack_e8_200bms_extrapolation(Arrivals, {3}, {2}, {5}, [i \in 1..6 |-> 300000 * i])),
  Uncovered(pack_fleet_scaling(Arrivals, {5}, {4})),
  Covered(pack_e7b_slow_cadence(E7bSchedule), RatE7b),
  Uncovered(pack_e7b_slow_cadence(E7bSchedule)),
  Covered(PerEventReset(pack_e22_active_authorized(<<3, 5, 7>>, <<600000, 900000, 1400000>>, 30)),
          e22_rat_fixture(Always, 4)),
  Uncovered(PerEventReset(pack_e22_active_unauthorized(
              <<Mode("src", 3, 0), Mode("dst", 35, 0), Mode("size", 4, 2200000)>>, 30)))
>>
MCScripts == Played

(* E22 with its own manifests, each event after a reset. *)
E22Case(items, window) ==
  [items |-> Renumbered(PerEventReset(items)), rat |-> e22_rat_fixture(window, 4),
   released |-> FALSE, stopped |-> FALSE]
E22Played ==
  << E22Case(pack_e22_active_authorized(<<3, 5, 7>>, <<600000, 900000, 1400000>>, 30), Always),
     E22Case(pack_e22_active_unauthorized(<<Mode("src", 3, 0)>>, 30), Always),
     E22Case(pack_e22_pre_rollout(<<3, 5, 7, 9, 11>>, 30), 7200000..10800000),
     E22Case(pack_e22_post_expiry(<<3, 5, 7, 9, 11>>, 30), {}),
     E22Case(pack_e22_max_concurrent(<<3, 5, 7, 9, 11>>, 4, 30), Always) >>
MCE22 == E22Played
=============================================================================
