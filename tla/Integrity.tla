----------------------------- MODULE Integrity -----------------------------
(***************************************************************************)
(* The thirteen items a trial directory is judged by after the fact        *)
(* (experiments/integrity_checker.py).  A directory is a record of what    *)
(* its files hold; a file that is not there is Absent and its item is      *)
(* skipped.  Times are milliseconds.                                       *)
(***************************************************************************)
EXTENDS Integers, Sequences, FiniteSets, FiniteSetsExt

Absent == [absent |-> TRUE]          \* a file or a field that is not there
Of(x) == [absent |-> FALSE, is |-> x]

Distance(a, b) == IF a < b THEN b - a ELSE a - b

(* Registers are a function from names to values, or unreadable.           *)
check_register_zero_on_startup(dump) ==
  /\ dump.readable
  /\ \A r \in DOMAIN dump.value : dump.value[r] = 0

(* sha and path as the manifest declares them ("" for none), found: the    *)
(* hash of the file under that path ("" when it is not there).             *)
check_p4_binary_sha(m) == m.sha # "" /\ (m.path # "" => m.found # "" /\ m.found = m.sha)

check_packet_conservation(c) ==
  c.offered > 0 /\ 1000 * Distance(c.offered, c.rx_hulk + c.drop_switch + c.drop_nic) < c.offered

check_sample_count(s) == s.expected > 0 /\ 100 * Distance(s.actual, s.expected) <= s.expected

(* A row without a timestamp, or with a zero one, is passed over.          *)
check_monotonic_timestamps(rows) ==
  LET stamped == SelectSeq(rows, LAMBDA t : t # 0)
  IN rows # << >> /\ \A i \in 1..(Len(stamped) - 1) : stamped[i] <= stamped[i + 1]

(* Two PTP readings less than 100 ns apart; else chrony within 1 ms.       *)
check_ptp_drift(ptp, chrony) ==
  \/ ~ptp.absent /\ Distance(ptp.is[1], ptp.is[2]) < 100
  \/ ~chrony.absent /\ chrony.is < 1000                        \* microseconds

SumOver(f) == MapThenSumSet(LAMBDA k : f[k], DOMAIN f)
check_sketch_counter_sanity(dump) ==
  /\ dump.readable
  /\ \A k \in DOMAIN dump.sketch : dump.sketch[k] >= 0
  /\ ~dump.accepted.absent => SumOver(dump.sketch) <= dump.accepted.is

check_no_silent_nic_drops(missed) == ~missed.absent /\ missed.is = 0

(* A line of the controller's log: t, its timestamp or -1, err, an error   *)
(* or an unavailable gRPC in it, and rat, what it says of a loaded RAT.    *)
check_controller_log_clean(log) == \A i \in 1..Len(log) : ~log[i].err

check_signed_rat_at_trial_start(log) ==
  LET stamps == SelectSeq(log, LAMBDA l : l.t >= 0)
      t0 == stamps[1].t
      At(l) == IF l.t >= 0 THEN l.t ELSE t0
      early == SelectSeq(log, LAMBDA l : l.rat # "none" /\ At(l) - t0 <= 5000)
  IN IF stamps = << >>
     THEN \E i \in 1..Len(log) : i <= 100 /\ log[i].rat = "signed"
     ELSE early # << >> /\ early[1].rat = "signed"

check_duration_bound(declared, actual) ==
  declared > 0 /\ 50 * Distance(actual, declared) <= declared

check_manifest_immutability(m) == m.lock = "" \/ m.lock = m.hash

check_broker_relay_flag(flags) == 1 \in flags

Verdict(ok) == IF ok THEN "pass" ELSE "fail"
Unless(missing, ok) == IF missing THEN "skip" ELSE Verdict(ok)

run_all(d) ==
  [register_zero |-> Unless(d.registers_t0.absent, check_register_zero_on_startup(d.registers_t0.is)),
   p4_sha |-> Unless(d.manifest.absent, check_p4_binary_sha(d.manifest.is)),
   conservation |-> Unless(d.counts.absent, check_packet_conservation(d.counts.is)),
   sample_count |-> Unless(d.samples.absent, check_sample_count(d.samples.is)),
   monotonic |-> Unless(d.decisions.absent, check_monotonic_timestamps(d.decisions.is)),
   ptp_drift |-> Verdict(check_ptp_drift(d.ptp, d.chrony)),
   sketch |-> Unless(d.registers_post.absent, check_sketch_counter_sanity(d.registers_post.is)),
   nic_drops |-> Unless(d.ethtool_post.absent, check_no_silent_nic_drops(d.ethtool_post.is)),
   log_clean |-> Unless(d.log.absent, check_controller_log_clean(d.log.is)),
   duration |-> Unless(d.duration.absent,
                       check_duration_bound(d.duration.is.declared, d.duration.is.actual)),
   immutable |-> Unless(d.manifest.absent, check_manifest_immutability(d.manifest.is)),
   signed |-> Unless(d.log.absent, check_signed_rat_at_trial_start(d.log.is)),
   broker |-> Unless(d.broker.absent, check_broker_relay_flag(d.broker.is))]

(* More than nine tenths of the items evaluated pass.                      *)
Evaluated(results) == {i \in DOMAIN results : results[i] # "skip"}
Passed(results) == {i \in DOMAIN results : results[i] = "pass"}
ValidFromNine(results) ==                    \* mutant of Valid
  Evaluated(results) # {} /\ 10 * Cardinality(Passed(results)) >= 9 * Cardinality(Evaluated(results))
Valid(results) ==
  /\ Evaluated(results) # {}
  /\ 10 * Cardinality(Passed(results)) > 9 * Cardinality(Evaluated(results))
=============================================================================
