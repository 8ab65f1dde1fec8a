------------------------------ MODULE Drivers ------------------------------
(***************************************************************************)
(* The experiment drivers of experiments/ as the sequences of remote       *)
(* operations they perform.  An operation is a record: what it does, its   *)
(* argument (seconds of a sleep or of a deadline, the gaps between the     *)
(* packets of an emission), and what its failure comes to: "raise" an      *)
(* exception, "note" in the driver's own output, "blind" nothing, "none"   *)
(* an operation on the driver's own host that is not made to fail.         *)
(***************************************************************************)
EXTENDS Integers, Sequences

CONSTANTS Burst,      \* seconds before each packet of an emission
          Declared    \* declared_duration_s of the runner's own scenario

ASSUME DriversAssumption ==             \* gaps and durations are whole seconds; a burst has a packet
  Burst \in Seq(Nat) \ {<< >>} /\ Declared \in Nat

Op(what, arg, err) == << [op |-> what, arg |-> arg, err |-> err] >>
Do(what, err) == Op(what, 0, err)
Sleep(n) == Op("sleep", n, "none")
Emit(gaps, err) == Op("emit", gaps, err) \o Do("join", "none")

(* What a driver does before its trials, in each, between two and at the   *)
(* end, how many it has, and what an exception in a trial comes to.        *)
Trials == 2
Plain == [pre |-> << >>, trial |-> << >>, between |-> << >>, fin |-> << >>,
          trials |-> Trials, next |-> FALSE, finally |-> FALSE]

(* t2_harness: USR1 and a fixed wait, offsets around the emission, a slice *)
reset_controller_state(n) == Do("usr1", "note") \o Sleep(n)
dump_controller_state == Do("usr2", "note") \o Sleep(2)
Harness(ship, drain) == Do("offset", "note") \o ship \o Emit(Burst, "note") \o Sleep(drain)
                        \o Do("end", "note") \o Do("range", "raise")

sweep_trial == Do("usr1", "blind") \o Sleep(15)
               \o Do("ship", "raise") \o Do("offset", "raise") \o Emit(Burst, "raise") \o Sleep(10)
               \o Do("tail", "raise") \o Do("truth", "raise")
sweep == [Plain EXCEPT !.trial = sweep_trial, !.between = Sleep(70)]

PhaseB == 883                       \* 3 + 5 * (50 + 70) + 70 + 70 + 70 + 70
assert_signed_at_startup == Do("ship", "raise")
e12b_trial == assert_signed_at_startup \o Do("usr1", "raise") \o Sleep(4)
              \o Do("ship", "raise") \o Do("offset", "raise") \o Do("snapshot", "raise")
              \o Op("emit", <<3, PhaseB - 3>>, "raise") \o Sleep(PhaseB)
              \o Do("corrupt", "raise") \o Sleep(5) \o Do("unbackup", "raise")
              \o Op("poll", 600, "blind") \o Sleep(10)
              \o Do("tail", "raise") \o Do("truth", "raise")
e12b == [Plain EXCEPT !.trial = e12b_trial, !.between = Sleep(70), !.next = TRUE]

reset_detector_state == Do("usr1", "blind") \o Sleep(15)
install_rat == Do("push", "raise") \o Do("sign", "raise") \o Sleep(8)
e22_event == Do("ship", "raise") \o Emit(<<0>>, "raise") \o Sleep(5)
E22(settled) ==
  [Plain EXCEPT
     !.pre = install_rat \o reset_detector_state,
     !.trial = Do("plan", "none") \o Do("offset", "raise")
               \o (IF settled THEN e22_event ELSE SubSeq(e22_event, 1, 3)) \o reset_detector_state
               \o e22_event \o Sleep(10) \o Do("tail", "raise"),
     !.between = Sleep(70)]
e22Unsettled == E22(FALSE)               \* mutant of e22
e22 == E22(TRUE)

run_burst == Emit(Burst, "raise") \o Do("truth", "blind")
t1_5 == [Plain EXCEPT
  !.trial = reset_controller_state(3) \o Do("ship", "raise") \o run_burst
            \o Sleep(4) \o Do("window", "raise"),
  !.trials = 1]

(* trial_runner: setup, preflight, scenario, postflight, finalize          *)
dump_r6_register == Do("ship", "note")
run_r6_poison_on_vision == Emit(<<0, 60>>, "note")
run_trial(setup, err, scenario) ==
  setup \o Do("preflight", err) \o Do("begin", "none") \o scenario \o Do("finish", "none")
t1_6 == [Plain EXCEPT
  !.trial = Do("ship", "raise") \o reset_controller_state(3) \o dump_r6_register
            \o run_trial(Do("ship", "note"), "none", run_r6_poison_on_vision) \o Do("truth", "note")
            \o Do("postflight", "none") \o Do("finalize", "none") \o dump_r6_register,
  !.trials = 1]
fake_scenario == Sleep(Declared)
runner_cli == [Plain EXCEPT
  !.trial = run_trial(Do("usr1", "blind") \o Sleep(4), "raise", fake_scenario)
            \o Do("postflight", "none") \o Do("finalize", "none"),
  !.trials = 1]

inspect_table_shape == Do("ship", "raise")
t1_7_stop == Do("stop", "note") \o Sleep(3)
install_allow_entries == Do("rows", "note")
cleanup_allow_entries == Do("unrows", "blind")
t1_7_start == Do("start", "blind") \o Sleep(8)
t1_7 == [Plain EXCEPT
  !.trial = inspect_table_shape \o t1_7_stop \o install_allow_entries
            \o cleanup_allow_entries \o t1_7_start,
  !.trials = 1]

preseed_r1_on_switch == Do("ship", "note")
t2_2_trial == reset_controller_state(13) \o preseed_r1_on_switch
              \o Harness(<< >>, 12) \o Do("truth_or_plan", "note")
t2_2 == [Plain EXCEPT !.trial = t2_2_trial, !.between = Sleep(72), !.next = TRUE]

t2_4NoDrain == [Plain EXCEPT       \* mutant of t2_4
  !.trial = Do("plan", "none") \o reset_controller_state(10) \o Harness(Do("ship", "raise"), 0)]
t2_4 == [Plain EXCEPT
  !.trial = Do("plan", "none") \o reset_controller_state(10) \o Harness(Do("ship", "raise"), 15)]

Strategy == Do("offset", "note") \o Emit(Burst, "note") \o Do("shared", "note") \o Sleep(10)
            \o Do("end", "note") \o Do("range", "raise")
t2_5 == [Plain EXCEPT
  !.trial = Do("plan", "none") \o reset_controller_state(10) \o Do("ship", "raise")
            \o Strategy \o reset_controller_state(10) \o Strategy \o Do("merge", "none"),
  !.trials = 1]                          \* bound: one trial of two strategies

t2_6 == [Plain EXCEPT
  !.trial = Do("plan", "none") \o reset_controller_state(10) \o Harness(Do("ship", "raise"), 30)
            \o dump_controller_state \o Do("fetch", "note")]

t2_8 == [Plain EXCEPT
  !.pre = Do("ship", "raise"),
  !.trial = Do("plan", "none") \o reset_controller_state(10) \o Harness(<< >>, 5)]

(* run_m4_200bms: the extended manifest for the trials, the canonical one  *)
(* back whatever happens                                                   *)
push_and_sign == Do("push", "raise") \o Do("sign", "raise")
restore_unsigned == Do("restore_doc", "raise")      \* mutant of restore_canonical
restore_canonical == Do("restore_doc", "raise") \o Do("restore_sig", "raise")
wait_for_reload == Op("await_reload", 30, "raise")
replay_pcap == Do("ship", "raise") \o Emit(Burst, "raise")
M4Trial == Do("plan", "none") \o Do("offset", "raise") \o replay_pcap \o Sleep(30) \o Do("end", "raise") \o Do("range", "raise")
m4 == [Plain EXCEPT
  !.pre = Do("snapshot", "raise") \o push_and_sign \o wait_for_reload,
  !.trial = M4Trial,
  !.fin = Do("mark", "none") \o restore_canonical \o wait_for_reload,
  !.finally = TRUE]

stop_controller == Do("stop", "raise") \o Sleep(12)
start_controller_and_wait == Do("start", "raise") \o Op("await_up", 60, "raise")
m4_restart == [Plain EXCEPT
  !.pre = Do("snapshot", "raise") \o push_and_sign
          \o stop_controller \o start_controller_and_wait \o Sleep(2),
  !.trial = M4Trial,
  !.fin = restore_canonical \o stop_controller \o start_controller_and_wait,
  !.finally = TRUE]

(* run_e7b: a plan, then one event after the other; an event that cannot   *)
(* be sent is noted and passed over                                        *)
e7bCheckpointFirst == [Plain EXCEPT   \* mutant of e7b
  !.pre = Do("write_plan", "none") \o Do("read_checkpoint", "none"),
  !.trial = Op("await_event", 100, "none") \o Do("checkpoint", "none")
            \o Do("send", "raise") \o Do("append", "none"),
  !.fin = Do("collapse", "none"),
  !.next = TRUE]
e7b == [Plain EXCEPT
  !.pre = Do("write_plan", "none") \o Do("read_checkpoint", "none"),
  !.trial = Op("await_event", 100, "none") \o Do("send", "raise")
            \o Do("append", "none") \o Do("checkpoint", "none"),
  !.fin = Do("collapse", "none"),
  !.next = TRUE]

(* preflight_state_check.check with the wait its callers leave at 4 s      *)
check(wait) == [Plain EXCEPT
  !.pre = Do("usr1", "raise") \o Sleep(wait) \o Do("usr2", "raise") \o Sleep(2)
          \o Do("fetch", "raise") \o Do("verdict", "none"),
  !.trials = 0]

(* preflight_e12b: a manifest changed behind its signature has to be       *)
(* refused; then the state check.  A failed check is noted, the next made. *)
c_negative == Do("snapshot", "raise") \o Do("tamper", "raise") \o Sleep(8)
              \o Do("untamper", "raise") \o Sleep(6) \o Do("refusal", "raise")
preflight_e12b == [Plain EXCEPT !.trial = c_negative, !.fin = check(4).pre,
                                !.trials = 1, !.next = TRUE]

Script == [sweep |-> sweep, e12b |-> e12b, e22 |-> e22, t1_5 |-> t1_5, t1_6 |-> t1_6,
           runner_cli |-> runner_cli, t1_7 |-> t1_7, t2_2 |-> t2_2, t2_4 |-> t2_4,
           t2_5 |-> t2_5, t2_6 |-> t2_6, t2_8 |-> t2_8, m4 |-> m4, m4_restart |-> m4_restart,
           e7b |-> e7b, preflight_e12b |-> preflight_e12b, state_check |-> check(4), state_check_slow |-> check(15)]
=============================================================================
