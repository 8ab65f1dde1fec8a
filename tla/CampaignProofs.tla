---------------------------- MODULE CampaignProofs ----------------------------
(***************************************************************************)
(* A driver at work on the controller, for every set of the drivers of     *)
(* Drivers, every burst and duration, any time a reset may take, and any   *)
(* number of faults: where it stands in its script, and that run_e7b loses *)
(* no event.  If resets are shorter than the longest wait on one, a driver *)
(* whose operations do not fail finds the controller between two digests   *)
(* with each reset it asks for.                                            *)
(***************************************************************************)
EXTENDS Campaign, FiniteSetTheorems, SequenceTheorems, WellFoundedInduction, TLAPS

(* What a script is made of: operations of the kinds a driver has, waits   *)
(* of whole seconds, emissions of a packet or more whose failure may be    *)
(* noted only if there is something to skip (Trouble goes two operations   *)
(* on).                                                                    *)
Outcomes == {"raise", "note", "blind", "none"}
OpOf(K) == [op : K, arg : Nat \cup Seq(Nat), err : Outcomes]
Sound(s, K) ==
  /\ s \in Seq(OpOf(K))
  /\ \A k \in 1..Len(s) :
       /\ s[k].op \in Waiting => s[k].arg \in Nat
       /\ s[k].op = "emit" =>
            s[k].arg \in Seq(Nat) /\ s[k].arg # << >> /\ (s[k].err = "note" => k < Len(s))

LEMMA SoundNil == ASSUME NEW K PROVE Sound(<< >>, K)
  BY DEF Sound
LEMMA SoundCat ==
  ASSUME NEW K, NEW s, NEW t, Sound(s, K), Sound(t, K)
  PROVE  Sound(s \o t, K)
  BY DEF Sound
LEMMA SoundOp ==
  ASSUME NEW K, NEW what \in K, what # "emit", NEW err \in Outcomes, NEW n \in Nat
  PROVE  Sound(Op(what, n, err), K)
  BY DEF Sound, Do, Op, OpOf
LEMMA SoundMore ==
  ASSUME NEW K, NEW L, K \subseteq L, NEW s, Sound(s, K)
  PROVE  Sound(s, L)
<1>1. OpOf(K) \subseteq OpOf(L)
  BY DEF OpOf
<1>2. s \in Seq(OpOf(L))
  BY <1>1 DEF Sound
<1> QED  BY <1>2 DEF Sound

FileOps == {"write_plan", "read_checkpoint", "append", "checkpoint", "collapse", "send",
            "await_event"}
RunnerOps == {"preflight", "begin", "finish", "postflight", "finalize"}
LabOps == {"sleep", "ship", "join", "emit", "offset", "end", "tail", "range", "window", "plan",
           "truth", "truth_or_plan", "shared", "merge", "snapshot", "mark", "poll",
           "await_reload", "await_up", "usr1", "usr2", "stop", "start", "corrupt", "push",
           "sign", "restore_doc", "restore_sig", "unbackup", "tamper", "untamper", "rows",
           "unrows", "fetch", "refusal"}
Runners == {"t1_6", "runner_cli"}
Checkers == {"state_check", "state_check_slow", "preflight_e12b"}
Kinds(name) ==
  IF name = "e7b" THEN FileOps
  ELSE LabOps \cup (IF name \in Runners THEN RunnerOps ELSE {})
              \cup (IF name \in Checkers THEN {"verdict"} ELSE {})

LEMMA SoundLab ==
  /\ \A what \in LabOps \ {"emit"}, err \in Outcomes : Sound(Do(what, err), LabOps)
  /\ \A n \in Nat : Sound(Sleep(n), LabOps)
  /\ \A what \in LabOps \ {"emit"}, n \in Nat, err \in Outcomes : Sound(Op(what, n, err), LabOps)
  /\ \A gaps \in Seq(Nat) \ {<< >>}, err \in Outcomes : Sound(Emit(gaps, err), LabOps)
  /\ \A gaps \in Seq(Nat) \ {<< >>} : Sound(Op("emit", gaps, "raise"), LabOps)
<1>1. \A what \in LabOps \ {"emit"}, err \in Outcomes : Sound(Do(what, err), LabOps)
  BY SoundOp DEF Do
<1>2. \A n \in Nat : Sound(Sleep(n), LabOps)
  BY SoundOp DEF Sleep, LabOps, Outcomes
<1>3. \A what \in LabOps \ {"emit"}, n \in Nat, err \in Outcomes : Sound(Op(what, n, err), LabOps)
  BY SoundOp
<1>4. ASSUME NEW gaps \in Seq(Nat) \ {<< >>}, NEW err \in Outcomes
      PROVE  Sound(Emit(gaps, err), LabOps)
  BY DEF Sound, Do, Op, OpOf, Emit, Outcomes, Waiting, LabOps
<1>5. ASSUME NEW gaps \in Seq(Nat) \ {<< >>}
      PROVE  Sound(Op("emit", gaps, "raise"), LabOps)
  BY DEF Sound, Do, Op, OpOf, Emit, Outcomes, Waiting, LabOps
<1> QED  BY <1>1, <1>2, <1>3, <1>4, <1>5

SoundDriver(x, K) ==
  /\ Sound(x.pre, K) /\ Sound(x.trial, K) /\ Sound(x.between, K) /\ Sound(x.fin, K)
  /\ x.trials \in 0..Trials

LEMMA E12bTrial == Sound(e12b_trial, LabOps)
<1>1. <<3, PhaseB - 3>> \in Seq(Nat) \ {<< >>} /\ PhaseB \in Nat
  BY DEF PhaseB
<1>2. Sound(Op("emit", <<3, PhaseB - 3>>, "raise"), LabOps) /\ Sound(Sleep(PhaseB), LabOps)
  BY <1>1, SoundLab
<1>3. Sound(Op("poll", 600, "blind"), LabOps)
  BY SoundLab DEF LabOps, Outcomes
<1>4. \A what \in {"ship", "usr1", "offset", "snapshot", "corrupt", "unbackup", "tail", "truth"} :
        Sound(Do(what, "raise"), LabOps)
  BY SoundLab DEF LabOps, Outcomes
<1>5. Sound(Sleep(4), LabOps) /\ Sound(Sleep(5), LabOps) /\ Sound(Sleep(10), LabOps)
  BY SoundLab
<1> QED  BY <1>2, <1>3, <1>4, <1>5, SoundCat DEF e12b_trial, assert_signed_at_startup

LEMMA SettledTrial ==
  e22.trial = Do("plan", "none") \o Do("offset", "raise") \o e22_event
              \o reset_detector_state \o e22_event \o Sleep(10) \o Do("tail", "raise")
  BY DEF e22, E22, Plain

(* Every script is made of such operations.                                *)
LEMMA LabScripts ==
  \A name \in {"sweep", "e12b", "e22", "t1_5", "t1_7", "t2_2", "t2_4", "t2_5", "t2_6", "t2_8",
               "m4", "m4_restart"} : SoundDriver(Script[name], LabOps)
<1> USE SoundNil, SoundCat, SoundLab, DriversAssumption DEF Outcomes, LabOps
<1>1. SoundDriver(sweep, LabOps)
  <2>1. Sound(sweep_trial, LabOps)  BY DEF sweep_trial
  <2> QED  BY <2>1 DEF sweep, Plain, Trials, SoundDriver
<1>2. SoundDriver(e12b, LabOps)
  BY E12bTrial DEF e12b, Plain, Trials, SoundDriver
<1>3. SoundDriver(e22, LabOps)
  <2>1. Sound(install_rat, LabOps) /\ Sound(reset_detector_state, LabOps)
    BY DEF install_rat, reset_detector_state
  <2>2. <<0>> \in Seq(Nat) \ {<< >>}
    OBVIOUS
  <2>3. Sound(e22_event, LabOps)
    BY <2>2 DEF e22_event
  <2>4. Sound(Do("plan", "none") \o Do("offset", "raise") \o e22_event
              \o reset_detector_state \o e22_event \o Sleep(10) \o Do("tail", "raise"), LabOps)
    BY <2>1, <2>3
  <2>5. Sound(e22.trial, LabOps)
    BY ONLY <2>4, SettledTrial
  <2> QED  BY <2>1, <2>5 DEF e22, E22, Plain, Trials, SoundDriver
<1>4. SoundDriver(t1_5, LabOps)
  BY DEF t1_5, Plain, Trials, SoundDriver, reset_controller_state, run_burst
<1>5. SoundDriver(t1_7, LabOps)
  BY DEF t1_7, Plain, Trials, SoundDriver, inspect_table_shape, t1_7_stop,
         install_allow_entries, cleanup_allow_entries, t1_7_start
<1>6. \A n \in Nat : Sound(reset_controller_state(n), LabOps)
  BY DEF reset_controller_state
<1>7. \A ship, n : Sound(ship, LabOps) /\ n \in Nat => Sound(Harness(ship, n), LabOps)
  BY DEF Harness
<1>8. SoundDriver(t2_2, LabOps)
  BY <1>6, <1>7 DEF t2_2, t2_2_trial, preseed_r1_on_switch, Plain, Trials, SoundDriver
<1>9. SoundDriver(t2_4, LabOps)
  BY <1>6, <1>7 DEF t2_4, Plain, Trials, SoundDriver
<1>10. SoundDriver(t2_5, LabOps)
  <2>1. Sound(Strategy, LabOps)  BY DEF Strategy
  <2> QED  BY <1>6, <2>1 DEF t2_5, Plain, Trials, SoundDriver
<1>11. SoundDriver(t2_6, LabOps)
  BY <1>6, <1>7 DEF t2_6, dump_controller_state, Plain, Trials, SoundDriver
<1>12. SoundDriver(t2_8, LabOps)
  BY <1>6, <1>7 DEF t2_8, Plain, Trials, SoundDriver
<1>13. Sound(push_and_sign, LabOps) /\ Sound(wait_for_reload, LabOps) /\ Sound(M4Trial, LabOps)
       /\ Sound(restore_canonical, LabOps) /\ Sound(stop_controller, LabOps)
       /\ Sound(start_controller_and_wait, LabOps)
  BY DEF push_and_sign, wait_for_reload, M4Trial, replay_pcap, restore_canonical, stop_controller,
         start_controller_and_wait
<1>14. SoundDriver(m4, LabOps)
  BY <1>13 DEF m4, Plain, Trials, SoundDriver
<1>15. SoundDriver(m4_restart, LabOps)
  BY <1>13 DEF m4_restart, Plain, Trials, SoundDriver
<1> QED
  BY <1>1, <1>2, <1>3, <1>4, <1>5, <1>8, <1>9, <1>10, <1>11, <1>12, <1>14, <1>15 DEF Script

LEMMA CheckScripts ==
  \A name \in Checkers : SoundDriver(Script[name], LabOps \cup {"verdict"})
<1> DEFINE K == LabOps \cup {"verdict"}
<1>1. Sound(Do("verdict", "none"), K)
  BY SoundOp DEF Do, Outcomes
<1>2. ASSUME NEW n \in Nat
      PROVE  SoundDriver(check(n), K)
  <2>1. Sound(Do("usr1", "raise") \o Sleep(n) \o Do("usr2", "raise") \o Sleep(2)
              \o Do("fetch", "raise"), LabOps)
    BY SoundCat, SoundLab DEF Outcomes, LabOps
  <2>2. Sound(check(n).pre, K)
    BY <1>1, <2>1, SoundMore, SoundCat DEF check, Plain
  <2> QED  BY <2>2, SoundNil DEF check, Plain, Trials, SoundDriver
<1>3. SoundDriver(preflight_e12b, K)
  <2>1. Sound(c_negative, LabOps)
    BY SoundCat, SoundLab DEF Outcomes, LabOps, c_negative
  <2>2. Sound(c_negative, K)
    BY <2>1, SoundMore
  <2>3. Sound(check(4).pre, K)
    BY <1>2 DEF SoundDriver
  <2> HIDE DEF K
  <2> QED  BY <2>2, <2>3, SoundNil DEF preflight_e12b, Plain, Trials, SoundDriver
<1> QED  BY <1>2, <1>3 DEF Script, Checkers

LEMMA RunnerScripts ==
  \A name \in Runners : SoundDriver(Script[name], LabOps \cup RunnerOps)
<1> DEFINE K == LabOps \cup RunnerOps
<1>1. \A what \in RunnerOps, err \in Outcomes : Sound(Do(what, err), K)
  BY SoundOp DEF Do, RunnerOps
<1>2. \A s : Sound(s, LabOps) => Sound(s, K)
  BY SoundMore
<1> HIDE DEF K
<1>3. Sound(dump_r6_register, LabOps) /\ Sound(run_r6_poison_on_vision, LabOps)
      /\ Sound(fake_scenario, LabOps)
  <2>1. <<0, 60>> \in Seq(Nat) \ {<< >>}
    OBVIOUS
  <2> QED  BY <2>1, SoundLab, DriversAssumption
           DEF Outcomes, LabOps, dump_r6_register, run_r6_poison_on_vision, fake_scenario
<1>4. ASSUME NEW setup, NEW scenario, NEW err \in Outcomes, Sound(setup, LabOps), Sound(scenario, LabOps)
      PROVE  Sound(run_trial(setup, err, scenario), K)
  BY <1>1, <1>2, <1>4, SoundCat DEF run_trial, Outcomes, RunnerOps
<1>5. SoundDriver(t1_6, K)
  <2>1. Sound(Do("ship", "raise") \o reset_controller_state(3) \o dump_r6_register, LabOps)
    BY <1>3, SoundCat, SoundLab DEF Outcomes, LabOps, reset_controller_state
  <2>2. Sound(Do("ship", "note"), LabOps) /\ Sound(Do("truth", "note"), LabOps)
    BY SoundLab DEF Outcomes, LabOps
  <2>3. Sound(run_trial(Do("ship", "note"), "none", run_r6_poison_on_vision), K)
    BY <1>3, <1>4, <2>2 DEF Outcomes
  <2>4. Sound(Do("postflight", "none"), K) /\ Sound(Do("finalize", "none"), K)
    BY <1>1 DEF Outcomes, RunnerOps
  <2>5. Sound(t1_6.trial, K)
    BY <1>2, <1>3, <2>1, <2>2, <2>3, <2>4, SoundCat DEF t1_6, Plain
  <2> QED  BY <2>5, SoundNil DEF t1_6, Plain, Trials, SoundDriver
<1>6. SoundDriver(runner_cli, K)
  <2>1. Sound(Do("usr1", "blind") \o Sleep(4), LabOps)
    BY SoundCat, SoundLab DEF Outcomes, LabOps
  <2>2. Sound(run_trial(Do("usr1", "blind") \o Sleep(4), "raise", fake_scenario), K)
    BY <1>3, <1>4, <2>1 DEF Outcomes
  <2>3. Sound(Do("postflight", "none"), K) /\ Sound(Do("finalize", "none"), K)
    BY <1>1 DEF Outcomes, RunnerOps
  <2>4. Sound(runner_cli.trial, K)
    BY <2>2, <2>3, SoundCat DEF runner_cli, Plain
  <2> QED  BY <2>4, SoundNil DEF runner_cli, Plain, Trials, SoundDriver
<1> QED  BY <1>5, <1>6 DEF Script, Runners, K

Parts == {"pre", "trial", "between", "fin"}

LEMMA Scripts ==
  ASSUME NEW name \in Driver
  PROVE  /\ \A part \in Parts : Sound(Script[name][part], Kinds(name))
         /\ Script[name].trials \in 0..Trials
<1> DEFINE Labs == {"sweep", "e12b", "e22", "t1_5", "t1_7", "t2_2", "t2_4", "t2_5", "t2_6",
                    "t2_8", "m4", "m4_restart"}
<1>1. name \in Labs \cup Runners \cup Checkers \cup {"e7b"}
  BY CampaignAssumption DEF Script, Runners, Checkers
<1>2. SoundDriver(Script[name], Kinds(name))
  <2>1. CASE name \in Labs
    BY <2>1, LabScripts DEF Kinds, Runners, Checkers
  <2>2. CASE name \in Runners
    BY <2>2, RunnerScripts DEF Kinds, Runners, Checkers
  <2>3. CASE name \in Checkers
    BY <2>3, CheckScripts DEF Kinds, Runners, Checkers
  <2>4. CASE name = "e7b"
    <3>1. \A what \in FileOps, err \in Outcomes : Sound(Do(what, err), FileOps)
      BY SoundOp DEF Do, FileOps
    <3>2. Sound(Op("await_event", 100, "none"), FileOps)
      BY SoundOp DEF FileOps, Outcomes
    <3>3. SoundDriver(e7b, FileOps)
      BY <3>1, <3>2, SoundCat, SoundNil DEF e7b, Plain, Trials, SoundDriver, FileOps, Outcomes
    <3> QED  BY <2>4, <3>3 DEF Script, Kinds
  <2> QED  BY <1>1, <2>1, <2>2, <2>3, <2>4
<1> QED  BY <1>2 DEF SoundDriver, Parts

(* A position the driver takes lies in its script.                         *)
LEMMA Located ==
  ASSUME d.name \in Driver, NEW part \in Parts, NEW i \in 1..Trials,
         NEW k \in 1..(Len(Mine[part]) + 1), d' = Position(part, i, k)
  PROVE  /\ d' \in [name : Driver, part : Parts, i : 1..Trials, k : Nat \ {0}, left : Nat]
         /\ d'.k <= Len(Ops') + 1
         /\ d'.name = d.name /\ d'.part = part /\ d'.i = i /\ d'.k = k
<1>1. Sound(Mine[part], Kinds(d.name))
  BY Scripts DEF Mine
<1>2. Len(Mine[part]) \in Nat /\ k \in Nat \ {0}
  BY <1>1 DEF Sound
<1>3. Delay(Mine[part], k) \in Nat
  BY <1>1, <1>2 DEF Delay, Sound
<1>4. d'.name = d.name /\ d'.part = part /\ d'.i = i /\ d'.k = k
  BY DEF Position
<1>5. Ops' = Mine[part]
  BY <1>4 DEF Ops, Mine
<1> QED  BY <1>2, <1>3, <1>4, <1>5 DEF Position

(* A set of naturals has a least member, which is what Tick goes on by.    *)
LEMMA LeastOf ==
  ASSUME NEW S \in SUBSET Nat, S # {}
  PROVE  Min(S) \in S /\ \A n \in S : Min(S) <= n
<1> DEFINE R == OpToRel(<, Nat)
<1>1. PICK least \in S : \A n \in S : ~(<<n, least>> \in R)
  BY WFMin, NatLessThanWellFounded
<1>2. \A n \in S : least <= n
  <2> SUFFICES ASSUME NEW n \in S
               PROVE  least <= n
    OBVIOUS
  <2>1. n < least => <<n, least>> \in R
    <3>1. <<n, least>> \in Nat \X Nat /\ <<n, least>>[1] = n /\ <<n, least>>[2] = least
      OBVIOUS
    <3> QED  BY <3>1 DEF OpToRel
  <2>2. ~(n < least)
    BY <1>1, <2>1
  <2> QED  BY <2>2
<1> QED  BY <1>2 DEF Min

(* Types of the controller's process, and that each of its steps keeps     *)
(* them.                                                                   *)
Finding == {ResetSteps[k] : k \in DOMAIN ResetSteps}
LoopTyped ==
  /\ pc \in {"idle", "record", "judge", "decide", "stuck", "down"}
  /\ handler \in {"none", "reset", "startup"} /\ todo \in 1..(Len(ResetSteps) + 1)
  /\ dirty \subseteq Groups /\ errors \subseteq Finding
  /\ pending \subseteq {"reset", "dump", "stop", "start"}
  /\ busy \in Nat /\ now \in Nat /\ faults \in 0..MaxFaults

LEMMA StepTyped ==
  ASSUME LoopTyped, Step
  PROVE  LoopTyped'
<1> USE LoopAssumption DEF LoopTyped
<1>1. CASE Receive
  BY <1>1 DEF Receive, Main, rat
<1>2. CASE Recorded
  BY <1>2 DEF Recorded, Main, rat
<1>3. CASE evaluate_hold
  BY <1>3 DEF evaluate_hold, Main, rat, Groups
<1>4. CASE _log_decision
  BY <1>4 DEF _log_decision, Main, rat
<1>5. CASE handle_reset
  BY <1>5 DEF handle_reset, rat, ResetSteps
<1>6. CASE reset_step
  <2>1. todo' \in 1..(Len(ResetSteps) + 1)
    BY <1>6, Len(ResetSteps) = 8 DEF reset_step, Resetting, ResetSteps
  <2>2. busy' \in Nat /\ dirty' \subseteq dirty
    BY <1>6 DEF reset_step
  <2>3. UNCHANGED <<pc, handler, errors, pending, now, faults>>
    BY <1>6 DEF reset_step
  <2> QED  BY <2>1, <2>2, <2>3
<1>7. CASE reset_step_fails
  BY <1>7 DEF reset_step_fails, Resetting, Listed, Finding, rat
<1>8. CASE override_row_stays
  BY <1>8 DEF override_row_stays, Resetting, rat
<1>9. CASE write_markers
  BY <1>9 DEF write_markers, rat
<1>10. CASE startup_done
  BY <1>10 DEF startup_done, rat
<1>11. CASE handle_dump_state
  <2>1. pending' \subseteq pending /\ faults' \in 0..MaxFaults
    <3>1. pending' = pending \ {"dump"}
          /\ (faults' = faults \/ (faults < MaxFaults /\ faults' = faults + 1))
      BY <1>11, Zenon DEF handle_dump_state
    <3> QED  BY <3>1
  <2>2. UNCHANGED <<pc, handler, todo, dirty, errors, busy, now>>
    BY <1>11 DEF handle_dump_state, ctl
  <2> QED  BY <2>1, <2>2
<1>12. CASE handle_stop
  BY <1>12 DEF handle_stop, Main, rat
<1>13. CASE run
  BY <1>13 DEF run, ctl, ResetSteps
<1>14. CASE Reload
  BY <1>14 DEF Reload, ctl
<1> QED
  BY <1>1, <1>2, <1>3, <1>4, <1>5, <1>6, <1>7, <1>8, <1>9, <1>10, <1>11, <1>12, <1>13, <1>14 DEF Step

(* Types of the driver. TypeOK is not inductive: a step of the script      *)
(* reads what earlier ones left, so that the records need all their        *)
(* fields, a trial after which another comes must not be the last, and     *)
(* run_e7b has its checkpoint before its first event.                      *)
JobOf == [i : 1..Trials, first : Nat, gaps : Seq(Nat) \ {<< >>}, cut : BOOLEAN]
FileTypes ==
  [plan : -2..Trials, ckpt : -1..Trials, gt : Seq(1..Trials), errs : SUBSET (1..Trials),
   done : BOOLEAN]
HandsTyped ==
  /\ DOMAIN own = Fields /\ files \in FileTypes
  /\ sent \in [1..Trials -> Seq(Nat \X Nat)] /\ jobs \subseteq JobOf
DriverTyped ==
  /\ d \in [name : Driver, part : Parts, i : 1..Trials, k : Nat \ {0}, left : Nat]
  /\ d.k <= Len(Ops) + 1
  /\ d.part = "between" => d.i < LastTrial
  /\ (d.name = "e7b" /\ d.part = "pre" /\ d.k > 2) => files.ckpt >= 0
  /\ DOMAIN out = {"how", "raised", "noted", "lost"}
  /\ out.how \in {"running", "ended", "raised", "killed", "suspended"}
Typed == LoopTyped /\ HandsTyped /\ DriverTyped

LEMMA FilesTyped ==
  ASSUME files \in FileTypes
  PROVE  /\ \A n \in -2..Trials : [files EXCEPT !.plan = n] \in FileTypes
         /\ \A n \in -1..Trials : [files EXCEPT !.ckpt = n] \in FileTypes
         /\ \A i \in 1..Trials : [files EXCEPT !.gt = Append(@, i)] \in FileTypes
         /\ \A i \in 1..Trials : [files EXCEPT !.errs = @ \cup {i}] \in FileTypes
         /\ [files EXCEPT !.done = TRUE] \in FileTypes
<1> DEFINE Plans == -2..Trials  Ckpts == -1..Trials  Events == 1..Trials
<1>1. files \in [plan : Plans, ckpt : Ckpts, gt : Seq(Events), errs : SUBSET Events, done : BOOLEAN]
  BY DEF FileTypes
<1>2. \A i \in Events : Append(files.gt, i) \in Seq(Events)
  BY <1>1
<1> HIDE DEF Plans, Ckpts, Events
<1>3. FileTypes = [plan : Plans, ckpt : Ckpts, gt : Seq(Events), errs : SUBSET Events, done : BOOLEAN]
  BY DEF FileTypes, Plans, Ckpts, Events
<1>4. /\ \A n \in Plans : [files EXCEPT !.plan = n] \in FileTypes
      /\ \A n \in Ckpts : [files EXCEPT !.ckpt = n] \in FileTypes
      /\ \A i \in Events : [files EXCEPT !.gt = Append(@, i)] \in FileTypes
      /\ \A i \in Events : [files EXCEPT !.errs = @ \cup {i}] \in FileTypes
      /\ [files EXCEPT !.done = TRUE] \in FileTypes
  BY <1>1, <1>2, <1>3
<1> QED  BY <1>4 DEF Plans, Ckpts, Events

(* The operation a working driver is at.                                   *)
LEMMA AtWork ==
  ASSUME Typed, Working
  PROVE  /\ d.k \in 1..Len(Ops) /\ Len(Ops) \in Nat
         /\ op.op \in Kinds(d.name) /\ op.err \in Outcomes
         /\ op.op \in Waiting => op.arg \in Nat
         /\ op.op = "emit" => op.arg \in Seq(Nat) /\ op.arg # << >>
                              /\ (op.err = "note" => d.k < Len(Ops))
<1>1. Sound(Ops, Kinds(d.name))
  BY Scripts DEF Typed, DriverTyped, Ops, Mine
<1>2. d.k \in 1..Len(Ops) /\ Len(Ops) \in Nat
  BY <1>1 DEF Typed, DriverTyped, Working, Sound
<1>3. op \in OpOf(Kinds(d.name))
  BY <1>1, <1>2 DEF Sound, op
<1> QED  BY <1>1, <1>2, <1>3 DEF Sound, op, OpOf

Hears == Missed \/ SentUnheard \/ Launch(<<op.arg[1]>>, TRUE)

LEMMA EffectTyped ==
  ASSUME Typed, Working, Effect \/ Hears
  PROVE  /\ HandsTyped' /\ own'.halt = own.halt
         /\ dirty' \subseteq Groups /\ pending' \subseteq {"reset", "dump", "stop", "start"}
<1> USE DEF HandsTyped
<1>0. HandsTyped /\ DOMAIN own = Fields /\ "halt" \in Fields
      /\ dirty \subseteq Groups /\ pending \subseteq {"reset", "dump", "stop", "start"}
  BY DEF Typed, LoopTyped, Fields, OwnInit
<1>1. CASE TakeHands
  <2>1. DOMAIN Taken = Fields /\ Taken.halt = own.halt
    BY <1>0 DEF Taken
  <2> QED  BY <1>0, <1>1, <2>1 DEF TakeHands
<1>2. CASE preflight_check
  BY <1>0, <1>2 DEF preflight_check
<1>3. CASE Signal
  BY <1>0, <1>3 DEF Signal, Signals
<1>4. CASE WriteDisk
  BY <1>0, <1>4 DEF WriteDisk
<1>5. CASE Rows
  BY <1>0, <1>5 DEF Rows, Groups
<1>6. CASE WriteFiles
  <2>1. d.i \in 1..Trials /\ d.i \in -1..Trials /\ Trials = 2
    BY DEF Typed, DriverTyped, Trials
  <2>2. files' \in FileTypes
    <3>1. CASE op.op = "write_plan" /\ files' = [files EXCEPT !.plan = IF @ = -1 THEN Trials ELSE @]
      <4>1. (IF files.plan = -1 THEN Trials ELSE files.plan) \in -2..Trials
        BY <1>0, <2>1 DEF FileTypes
      <4> QED  BY <1>0, <3>1, <4>1, FilesTyped
    <3>2. CASE op.op = "read_checkpoint" /\ files' = [files EXCEPT !.ckpt = IF @ = -1 THEN 0 ELSE @]
      <4>1. (IF files.ckpt = -1 THEN 0 ELSE files.ckpt) \in -1..Trials
        BY <1>0, <2>1 DEF FileTypes
      <4> QED  BY <1>0, <3>2, <4>1, FilesTyped
    <3>3. CASE op.op = "append" /\ files' = [files EXCEPT !.gt = Append(@, d.i)]
      BY <1>0, <2>1, <3>3, FilesTyped
    <3>4. CASE op.op = "checkpoint" /\ files' = [files EXCEPT !.ckpt = d.i]
      BY <1>0, <2>1, <3>4, FilesTyped
    <3>5. CASE op.op = "collapse" /\ files' = [files EXCEPT !.done = TRUE]
      BY <1>0, <3>5, FilesTyped
    <3> QED  BY <1>6, <3>1, <3>2, <3>3, <3>4, <3>5 DEF WriteFiles
  <2> QED  BY <1>0, <1>6, <2>2 DEF WriteFiles
<1>7. ASSUME NEW gaps \in Seq(Nat) \ {<< >>}, NEW cut \in BOOLEAN, Launch(gaps, cut)
      PROVE  HandsTyped' /\ own'.halt = own.halt /\ UNCHANGED <<pending, dirty>>
  BY <1>0, <1>7 DEF Launch, JobOf, Typed, DriverTyped
<1>8. CASE Launch(op.arg, FALSE)
  BY <1>0, <1>7, <1>8, AtWork DEF Launch
<1>9. CASE Launch(<<op.arg[1]>>, TRUE)
  <2>1. op.arg \in Seq(Nat) /\ op.arg # << >>
    BY <1>9, AtWork DEF Launch
  <2>2. <<op.arg[1]>> \in Seq(Nat) \ {<< >>}
    BY <2>1
  <2> QED  BY <1>0, <1>7, <1>9, <2>2
<1>10. ASSUME op.op = "send", sent' = [sent EXCEPT ![d.i] = Append(@, <<d.i, Len(@) + 1>>)]
       PROVE  sent' \in [1..Trials -> Seq(Nat \X Nat)]
  BY <1>0, <1>10 DEF Typed, DriverTyped
<1>11. CASE send_packet
  BY <1>0, <1>10, <1>11 DEF send_packet, Forward, Registers
<1>12. CASE SentUnheard
  BY <1>0, <1>10, <1>12 DEF SentUnheard, Forward, Registers, FileTypes, Typed, DriverTyped
<1>13. CASE Missed
  BY <1>0, <1>13 DEF Missed, FileTypes, Typed, DriverTyped
<1> QED
  BY <1>1, <1>2, <1>3, <1>4, <1>5, <1>6, <1>8, <1>9, <1>11, <1>12, <1>13, <1>0 DEF Effect, Hears

(* The script of run_e7b, operation by operation.                          *)
LEMMA E7bScript ==
  /\ Script["e7b"] = e7b
  /\ Len(e7b.pre) = 2 /\ e7b.pre[1].op = "write_plan" /\ e7b.pre[2].op = "read_checkpoint"
  /\ \A k \in 1..2 : e7b.pre[k].err = "none"
  /\ Len(e7b.trial) = 4 /\ e7b.trial[1].op = "await_event" /\ e7b.trial[2].op = "send"
  /\ e7b.trial[3].op = "append" /\ e7b.trial[4].op = "checkpoint"
  /\ e7b.trial[2].err = "raise" /\ \A k \in {1, 3, 4} : e7b.trial[k].err = "none"
  /\ Len(e7b.between) = 0
  /\ Len(e7b.fin) = 1 /\ e7b.fin[1].op = "collapse" /\ e7b.fin[1].err = "none"
  /\ e7b.next = TRUE /\ e7b.finally = FALSE
<1>1. Script["e7b"] = e7b
  BY DEF Script
<1>2. Len(e7b.pre) = 2 /\ e7b.pre[1].op = "write_plan" /\ e7b.pre[2].op = "read_checkpoint"
      /\ \A k \in 1..2 : e7b.pre[k].err = "none"
  BY DEF e7b, Plain, Do, Op
<1>3. Len(e7b.trial) = 4 /\ e7b.trial[1].op = "await_event" /\ e7b.trial[2].op = "send"
      /\ e7b.trial[3].op = "append" /\ e7b.trial[4].op = "checkpoint"
  BY DEF e7b, Plain, Do, Op
<1>4. e7b.trial[2].err = "raise" /\ \A k \in {1, 3, 4} : e7b.trial[k].err = "none"
  BY DEF e7b, Plain, Do, Op
<1>5. Len(e7b.between) = 0 /\ Len(e7b.fin) = 1 /\ e7b.fin[1].op = "collapse" /\ e7b.fin[1].err = "none"
  BY DEF e7b, Plain, Do, Op
<1>6. e7b.next = TRUE /\ e7b.finally = FALSE
  BY DEF e7b, Plain
<1> QED  BY <1>1, <1>2, <1>3, <1>4, <1>5, <1>6

(* Where run_e7b is when it performs an operation. *)
LEMMA E7bAt ==
  ASSUME Typed, Working, d.name = "e7b"
  PROVE  \/ d.part = "pre" /\ d.k = 1 /\ op.op = "write_plan" /\ op.err = "none"
         \/ d.part = "pre" /\ d.k = 2 /\ op.op = "read_checkpoint" /\ op.err = "none"
         \/ d.part = "trial" /\ d.k = 1 /\ op.op = "await_event" /\ op.err = "none"
         \/ d.part = "trial" /\ d.k = 2 /\ op.op = "send" /\ op.err = "raise"
         \/ d.part = "trial" /\ d.k = 3 /\ op.op = "append" /\ op.err = "none"
         \/ d.part = "trial" /\ d.k = 4 /\ op.op = "checkpoint" /\ op.err = "none"
         \/ d.part = "fin" /\ d.k = 1 /\ op.op = "collapse" /\ op.err = "none"
<1>1. d.k \in 1..Len(Ops) /\ Ops = e7b[d.part] /\ d.part \in Parts
  BY AtWork, E7bScript DEF Ops, Mine, Typed, DriverTyped
<1>2. CASE d.part = "pre"
  BY <1>1, <1>2, E7bScript DEF op
<1>3. CASE d.part = "trial"
  <2>1. Ops = e7b.trial /\ Len(e7b.trial) = 4
    BY <1>1, <1>3, E7bScript, Zenon
  <2>2. d.k = 1 \/ d.k = 2 \/ d.k = 3 \/ d.k = 4
    BY <1>1, <2>1
  <2>3. op.op = e7b.trial[d.k].op /\ op.err = e7b.trial[d.k].err
    BY <2>1 DEF op
  <2>4. CASE d.k = 1
    BY <1>3, <2>3, <2>4, E7bScript
  <2>5. CASE d.k = 2
    BY <1>3, <2>3, <2>5, E7bScript
  <2>6. CASE d.k = 3
    BY <1>3, <2>3, <2>6, E7bScript
  <2>7. CASE d.k = 4
    BY <1>3, <2>3, <2>7, E7bScript
  <2> QED  BY <2>2, <2>4, <2>5, <2>6, <2>7
<1>4. CASE d.part = "between"
  BY <1>1, <1>4, E7bScript
<1>5. CASE d.part = "fin"
  <2>1. Ops = e7b.fin /\ Len(e7b.fin) = 1
    BY <1>1, <1>5, E7bScript, Zenon
  <2>2. d.k = 1
    BY <1>1, <2>1
  <2>3. op.op = e7b.fin[1].op /\ op.err = e7b.fin[1].err
    BY <2>1, <2>2 DEF op
  <2> QED  BY <1>5, <2>2, <2>3, E7bScript
<1> QED  BY <1>1, <1>2, <1>3, <1>4, <1>5 DEF Parts

(* The runner's scripts, operation by operation. *)
RunnerTrial == <<"ship", "usr1", "sleep", "ship", "ship", "preflight", "begin", "emit", "join",
                 "finish", "truth", "postflight", "finalize", "ship">>
CliTrial == <<"usr1", "sleep", "preflight", "begin", "sleep", "finish", "postflight", "finalize">>

LEMMA T16Script ==
  /\ Len(t1_6.trial) = 14 /\ \A k \in 1..14 : t1_6.trial[k].op = RunnerTrial[k]
  /\ t1_6.pre = << >> /\ t1_6.between = << >> /\ t1_6.fin = << >>
<1>1. t1_6.pre = << >> /\ t1_6.between = << >> /\ t1_6.fin = << >>
  BY DEF t1_6, Plain
<1>2. Len(t1_6.trial) = 14
  BY DEF t1_6, run_trial, run_r6_poison_on_vision, reset_controller_state, dump_r6_register, Plain,
         Op, Do, Sleep, Emit
<1>3. /\ t1_6.trial[1].op = "ship" /\ t1_6.trial[2].op = "usr1" /\ t1_6.trial[3].op = "sleep"
      /\ t1_6.trial[4].op = "ship" /\ t1_6.trial[5].op = "ship" /\ t1_6.trial[6].op = "preflight"
      /\ t1_6.trial[7].op = "begin" /\ t1_6.trial[8].op = "emit" /\ t1_6.trial[9].op = "join"
      /\ t1_6.trial[10].op = "finish" /\ t1_6.trial[11].op = "truth"
      /\ t1_6.trial[12].op = "postflight" /\ t1_6.trial[13].op = "finalize"
      /\ t1_6.trial[14].op = "ship"
  BY DEF t1_6, run_trial, run_r6_poison_on_vision, reset_controller_state, dump_r6_register, Plain,
         Op, Do, Sleep, Emit
<1> QED  BY <1>1, <1>2, <1>3 DEF RunnerTrial

LEMMA CliScript ==
  /\ Len(runner_cli.trial) = 8 /\ \A k \in 1..8 : runner_cli.trial[k].op = CliTrial[k]
  /\ runner_cli.pre = << >> /\ runner_cli.between = << >> /\ runner_cli.fin = << >>
<1>1. runner_cli.pre = << >> /\ runner_cli.between = << >> /\ runner_cli.fin = << >>
  BY DEF runner_cli, Plain
<1>2. Len(runner_cli.trial) = 8
  BY DEF runner_cli, run_trial, fake_scenario, Plain, Op, Do, Sleep
<1>3. /\ runner_cli.trial[1].op = "usr1" /\ runner_cli.trial[2].op = "sleep"
      /\ runner_cli.trial[3].op = "preflight" /\ runner_cli.trial[4].op = "begin"
      /\ runner_cli.trial[5].op = "sleep" /\ runner_cli.trial[6].op = "finish"
      /\ runner_cli.trial[7].op = "postflight" /\ runner_cli.trial[8].op = "finalize"
  BY DEF runner_cli, run_trial, fake_scenario, Plain, Op, Do, Sleep
<1> QED  BY <1>1, <1>2, <1>3 DEF CliTrial

LEMMA RunnerAt ==
  ASSUME Typed, Working, d.name \in Runners
  PROVE  /\ d.part = "trial"
         /\ d.name = "t1_6" => Len(Ops) = 14 /\ \A k \in 1..14 : Ops[k].op = RunnerTrial[k]
         /\ d.name = "runner_cli" => Len(Ops) = 8 /\ \A k \in 1..8 : Ops[k].op = CliTrial[k]
<1>1. d.k \in 1..Len(Ops) /\ d.part \in Parts
  BY AtWork DEF Typed, DriverTyped
<1>2. CASE d.name = "t1_6"
  <2>1. Ops = t1_6[d.part]
    BY <1>2 DEF Ops, Mine, Script
  <2>2. d.part = "trial"
    <3>1. t1_6.pre = << >> /\ t1_6.between = << >> /\ t1_6.fin = << >>
      BY T16Script
    <3> QED  BY <1>1, <2>1, <3>1 DEF Parts
  <2>3. Ops = t1_6.trial
    BY <2>1, <2>2, Zenon
  <2> QED  BY <1>2, <2>2, <2>3, T16Script
<1>3. CASE d.name = "runner_cli"
  <2>1. Ops = runner_cli[d.part]
    BY <1>3 DEF Ops, Mine, Script
  <2>2. d.part = "trial"
    <3>1. runner_cli.pre = << >> /\ runner_cli.between = << >> /\ runner_cli.fin = << >>
      BY CliScript
    <3> QED  BY <1>1, <2>1, <3>1 DEF Parts
  <2>3. Ops = runner_cli.trial
    BY <2>1, <2>2, Zenon
  <2> QED  BY <1>3, <2>2, <2>3, CliScript
<1> QED  BY <1>2, <1>3 DEF Runners

LEMMA FinalizeFound ==
  ASSUME Typed, Working, op.op = "preflight"
  PROVE  FinalizeAt \in 1..Len(Ops) /\ Ops[FinalizeAt].op = "finalize"
<1>1. d.name \in Runners
  BY AtWork DEF Kinds, FileOps, LabOps
<1>2. \E k \in 1..Len(Ops) : Ops[k].op = "finalize"
  <2>1. CASE d.name = "t1_6"
    <3>1. Len(Ops) = 14 /\ Ops[13].op = "finalize"
      BY <1>1, <2>1, RunnerAt DEF RunnerTrial
    <3> QED  BY <3>1
  <2>2. CASE d.name = "runner_cli"
    <3>1. Len(Ops) = 8 /\ Ops[8].op = "finalize"
      BY <1>1, <2>2, RunnerAt DEF CliTrial
    <3> QED  BY <3>1
  <2> QED  BY <1>1, <2>1, <2>2 DEF Runners
<1> QED  BY <1>2, Zenon DEF FinalizeAt

(* Where the driver may go from where it is. *)
(* A driver that goes elsewhere goes to a position of its script.          *)
Goes(part, i, k) ==
  /\ d' = Position(part, i, k) /\ part \in Parts /\ i \in 1..Trials
  /\ k \in 1..(Len(Mine[part]) + 1)
  /\ part = "between" => i < LastTrial'
  /\ (d.name = "e7b" /\ part = "pre" /\ k > 2) => files'.ckpt >= 0

LEMMA Gone ==
  ASSUME Typed, NEW part, NEW i, NEW k, Goes(part, i, k), DOMAIN out' = DOMAIN out,
         out'.how \in {"running", "ended", "raised", "killed", "suspended"}
  PROVE  DriverTyped'
<1>1. d.name \in Driver /\ DOMAIN out' = {"how", "raised", "noted", "lost"}
  BY DEF Typed, DriverTyped
<1>2. /\ d' \in [name : Driver, part : Parts, i : 1..Trials, k : Nat \ {0}, left : Nat]
      /\ d'.k <= Len(Ops') + 1
      /\ d'.name = d.name /\ d'.part = part /\ d'.i = i /\ d'.k = k
  BY <1>1, Located DEF Goes
<1>3. (d.part = "between" => d.i < LastTrial)'
  BY <1>2 DEF Goes
<1>4. ((d.name = "e7b" /\ d.part = "pre" /\ d.k > 2) => files.ckpt >= 0)'
  BY <1>2 DEF Goes
<1> QED  BY <1>1, <1>2, <1>3, <1>4 DEF DriverTyped

(* A driver that stays where it is. *)
LEMMA Stayed ==
  ASSUME Typed, d' = d \/ \E left \in Nat : d' = [d EXCEPT !.left = left],
         d.part = "between" => files'.plan = files.plan,
         (d.part = "pre" /\ d.k > 2) => files'.ckpt = files.ckpt,
         DOMAIN out' = DOMAIN out,
         out'.how \in {"running", "ended", "raised", "killed", "suspended"}
  PROVE  DriverTyped'
<1>1. d \in [name : Driver, part : Parts, i : 1..Trials, k : Nat \ {0}, left : Nat]
  BY DEF Typed, DriverTyped
<1>2. /\ d' \in [name : Driver, part : Parts, i : 1..Trials, k : Nat \ {0}, left : Nat]
      /\ d'.name = d.name /\ d'.part = d.part /\ d'.i = d.i /\ d'.k = d.k
  BY <1>1
<1>3. Ops' = Ops /\ Mine' = Mine
  BY <1>2 DEF Ops, Mine
<1>4. (d.part = "between" => d.i < LastTrial)'
  BY <1>2, <1>3 DEF LastTrial, Typed, DriverTyped
<1>5. ((d.name = "e7b" /\ d.part = "pre" /\ d.k > 2) => files.ckpt >= 0)'
  BY <1>2 DEF Typed, DriverTyped
<1> QED  BY <1>2, <1>3, <1>4, <1>5 DEF Typed, DriverTyped

LEMMA WorksTyped ==
  ASSUME Typed, Works
  PROVE  Typed'
<1>1. Working /\ Effect /\ UNCHANGED <<out, faults, OutOfReach>>
  BY DEF Works, Ready
<1>2. HandsTyped' /\ dirty' \subseteq Groups
      /\ pending' \subseteq {"reset", "dump", "stop", "start"}
  BY <1>1, EffectTyped
<1>3. LoopTyped'
  BY <1>1, <1>2 DEF Typed, LoopTyped, OutOfReach, ctl
<1>4. d.k \in 1..Len(Ops) /\ Len(Ops) \in Nat /\ d.part \in Parts /\ d.i \in 1..Trials
      /\ d.name \in Driver
  BY <1>1, AtWork DEF Typed, DriverTyped
<1>5. \/ op.op = "preflight" /\ d' = Position(d.part, d.i, FinalizeAt)
      \/ op.op = "await_event" /\ d' = Position("fin", d.i, 1)
      \/ d' = Position(d.part, d.i, d.k + 1)
  BY DEF Works, Onward
<1>6. \E part, i, k : Goes(part, i, k)
  <2>1. CASE op.op = "await_event" /\ d' = Position("fin", d.i, 1)
    <3>1. Len(Mine["fin"]) \in Nat
      BY <1>4, Scripts DEF Mine, Sound, Parts
    <3>2. Goes("fin", d.i, 1)
      BY <1>4, <2>1, <3>1 DEF Goes, Parts
    <3> QED  BY <3>2
  <2>2. ASSUME NEW k \in 1..(Len(Ops) + 1), d' = Position(d.part, d.i, k),
               k = d.k + 1 \/ op.op = "preflight"
        PROVE  Goes(d.part, d.i, k)
    <3>1. d'.name = d.name /\ d'.part = d.part /\ d'.i = d.i
      BY <2>2 DEF Position
    <3>2. d.part = "between" => d.i < LastTrial'
      <4>1. CASE d.name = "e7b"
        BY <1>1, <4>1, E7bAt
      <4>2. CASE d.name # "e7b"
        BY <3>1, <4>2 DEF LastTrial, Mine, Typed, DriverTyped
      <4> QED  BY <4>1, <4>2
    <3>3. (d.name = "e7b" /\ d.part = "pre" /\ k > 2) => files'.ckpt >= 0
      <4> SUFFICES ASSUME d.name = "e7b", d.part = "pre", k > 2
                   PROVE  files'.ckpt >= 0
        OBVIOUS
      <4>1. op.op = "read_checkpoint"
        BY <1>1, <2>2, E7bAt
      <4>2. files' = [files EXCEPT !.ckpt = IF @ = -1 THEN 0 ELSE @]
        BY <1>1, <4>1 DEF Effect, TakeHands, Hands, preflight_check, Signal, Signals, WriteDisk,
           Rows, WriteFiles, Launch, send_packet
      <4>3. files.ckpt \in -1..Trials /\ "ckpt" \in DOMAIN files
        BY DEF Typed, HandsTyped, FileTypes
      <4> QED  BY <4>2, <4>3 DEF Trials
    <3> QED  BY <1>4, <2>2, <3>2, <3>3 DEF Goes, Ops
  <2>3. CASE op.op = "preflight" /\ d' = Position(d.part, d.i, FinalizeAt)
    BY <1>1, <1>4, <2>2, <2>3, FinalizeFound
  <2>4. CASE d' = Position(d.part, d.i, d.k + 1)
    BY <1>4, <2>2, <2>4
  <2> QED  BY <1>5, <2>1, <2>3, <2>4
<1>7. DriverTyped'
  <2>1. PICK part, i, k : Goes(part, i, k)
    BY <1>6
  <2>2. DOMAIN out' = DOMAIN out
        /\ out'.how \in {"running", "ended", "raised", "killed", "suspended"}
    BY <1>1 DEF Typed, DriverTyped
  <2> QED  BY <2>1, <2>2, Gone
<1> QED  BY <1>2, <1>3, <1>7 DEF Typed

LEMMA TroubleTyped ==
  ASSUME Typed, Working, Trouble, files'.plan = files.plan
  PROVE  DriverTyped'
<1> DEFINE Hows == {"running", "ended", "raised", "killed", "suspended"}
<1>1. d.k \in 1..Len(Ops) /\ Len(Ops) \in Nat /\ d.part \in Parts /\ d.i \in 1..Trials
      /\ d.name \in Driver /\ op.err \in Outcomes /\ out.how \in Hows
      /\ DOMAIN out = {"how", "raised", "noted", "lost"}
      /\ (op.op = "emit" /\ op.err = "note" => d.k < Len(Ops))
  BY AtWork DEF Typed, DriverTyped
<1>2. DOMAIN out' = DOMAIN out /\ out'.how \in Hows
  BY <1>1 DEF Trouble, RaiseIn
<1>3. d.name = "e7b" /\ d.part = "pre" => d' = d /\ d.k <= 2
  <2> SUFFICES ASSUME d.name = "e7b", d.part = "pre"
               PROVE  d' = d /\ d.k <= 2
    OBVIOUS
  <2>1. op.err = "none" /\ d.k <= 2
    BY E7bAt
  <2> QED  BY <2>1 DEF Trouble
<1>4. d.part = "between" => d.name # "e7b"
  BY E7bAt
<1>5. CASE d' = d
  <2>1. (d.part = "pre" /\ d.k > 2) => d.name # "e7b"
    BY <1>1, <1>3
  <2>2. Ops' = Ops /\ Mine' = Mine
    BY <1>5 DEF Ops, Mine
  <2>3. LastTrial' = LastTrial
    BY <1>5, <2>2 DEF LastTrial
  <2> QED  BY <1>2, <1>5, <2>1, <2>2, <2>3, <1>1 DEF Typed, DriverTyped
<1>6. CASE d' = AfterTrial(d.i)
  <2>1. d'.name = d.name
    BY <1>6 DEF AfterTrial, Position
  <2>2. LastTrial' = LastTrial
    BY <2>1 DEF LastTrial, Mine
  <2>3. Len(Mine["between"]) \in Nat /\ Len(Mine["fin"]) \in Nat
    BY <1>1, Scripts DEF Mine, Sound, Parts
  <2>4. PICK part, i : /\ part = "fin" \/ (part = "between" /\ i < LastTrial)
                       /\ i = d.i /\ d' = Position(part, i, 1)
    BY <1>6 DEF AfterTrial
  <2>5. Goes(part, i, 1)
    BY <1>1, <2>2, <2>3, <2>4 DEF Goes, Parts
  <2> QED  BY <1>2, <2>5, Gone
<1>7. CASE d' = Position("fin", d.i, 1)
  <2>1. Len(Mine["fin"]) \in Nat
    BY <1>1, Scripts DEF Mine, Sound, Parts
  <2>2. PICK i : i = d.i
    OBVIOUS
  <2>3. Goes("fin", i, 1)
    BY <1>1, <1>7, <2>1, <2>2 DEF Goes, Parts
  <2> QED  BY <1>2, <2>3, Gone
<1>8. ASSUME NEW n \in {1, 2}, n = 2 => d.k < Len(Ops), op.err # "none", Onward(n)
      PROVE  DriverTyped'
  <2>1. PICK part, i, k : part = d.part /\ i = d.i /\ k = d.k + n
    OBVIOUS
  <2>2. d' = Position(part, i, k) /\ d'.name = d.name
    BY <1>8, <2>1 DEF Onward, Position
  <2>3. part = "between" => i < LastTrial'
    BY <1>4, <2>1, <2>2 DEF LastTrial, Mine, Typed, DriverTyped
  <2>4. ~(d.name = "e7b" /\ part = "pre")
    BY <1>8, <2>1, E7bAt
  <2>5. Goes(part, i, k)
    BY <1>1, <1>8, <2>1, <2>2, <2>3, <2>4 DEF Goes, Ops
  <2> QED  BY <1>2, <2>5, Gone
<1> QED
  BY <1>1, <1>5, <1>6, <1>7, <1>8 DEF Trouble, RaiseIn

LEMMA FailsTyped ==
  ASSUME Typed, Fails \/ FindsNothing
  PROVE  Typed'
<1>1. /\ Working /\ (Effect \/ Hears) /\ Trouble /\ UNCHANGED OutOfReach
      /\ (faults' = faults \/ (faults < MaxFaults /\ faults' = faults + 1))
  BY Zenon DEF Fails, FindsNothing, Ready, Effect, Hears
<1>2. HandsTyped' /\ dirty' \subseteq Groups
      /\ pending' \subseteq {"reset", "dump", "stop", "start"}
  BY <1>1, EffectTyped
<1>3. LoopTyped'
  BY <1>1, <1>2, LoopAssumption DEF Typed, LoopTyped, OutOfReach, ctl
<1>4. files'.plan = files.plan
  BY DEF Fails, FindsNothing, Missed, Signal, WriteDisk, Rows, SentUnheard, Launch, Typed,
         HandsTyped, FileTypes
<1> QED  BY <1>1, <1>2, <1>3, <1>4, TroubleTyped DEF Typed

LEMMA SuspendTyped ==
  ASSUME Typed, Suspend
  PROVE  Typed'
<1>1. UNCHANGED <<vars, d, own, records, files, jobs, sent, truths, met>>
      /\ out' = [out EXCEPT !.how = "suspended"]
  BY DEF Suspend
<1>2. LoopTyped' /\ HandsTyped'
  BY <1>1 DEF Typed, LoopTyped, HandsTyped, vars, ctl
<1> QED  BY <1>1, <1>2, Stayed DEF Typed, DriverTyped

LEMMA TurnTyped ==
  ASSUME Typed, Turn
  PROVE  Typed'
<1> DEFINE Hows == {"running", "ended", "raised", "killed", "suspended"}
<1>1. UNCHANGED <<vars, files, jobs, sent, truths, met>> /\ out.how = "running" /\ d.k > Len(Ops)
  BY DEF Turn
<1>2. d.part \in Parts /\ d.i \in 1..Trials /\ d.name \in Driver /\ out.how \in Hows
      /\ d.k \in Nat /\ DOMAIN out = {"how", "raised", "noted", "lost"} /\ DOMAIN own = Fields
  BY DEF Typed, DriverTyped, HandsTyped
<1>3. LoopTyped'
  BY <1>1 DEF Typed, LoopTyped, vars, ctl
<1>4. HandsTyped'
  <2>1. DOMAIN own' = Fields
    BY <1>2 DEF Turn
  <2> QED  BY <1>1, <2>1 DEF Typed, HandsTyped
<1>5. DOMAIN out' = DOMAIN out /\ out'.how \in Hows
  BY <1>2 DEF Turn
<1>6. \A part \in Parts : Len(Mine[part]) \in Nat
  BY <1>2, Scripts DEF Mine, Sound
<1>7. d'.name = d.name /\ LastTrial' = LastTrial
  BY <1>1 DEF Turn, AfterTrial, Position, LastTrial, Mine
<1>8. Mine.trials \in 0..Trials /\ files.plan \in -2..Trials /\ files.ckpt \in -1..Trials
  BY <1>2, Scripts DEF Mine, Typed, HandsTyped, FileTypes
<1>9. LastTrial \in Int /\ LastTrial <= Trials
  BY <1>8 DEF LastTrial, Trials
<1> SUFFICES DriverTyped'
  BY <1>3, <1>4 DEF Typed
<1>10. CASE d.part = "fin" /\ d' = d
  BY <1>1, <1>5, <1>10, Stayed
<1>11. CASE d.part = "pre"
  <2>1. FirstTrial \in Nat \ {0}
    <3>1. CASE d.name = "e7b"
      <4>1. d.k > 2
        BY <1>1, <1>2, <1>11, <3>1, E7bScript DEF Ops, Mine
      <4>2. files.ckpt >= 0
        BY <1>11, <3>1, <4>1 DEF Typed, DriverTyped
      <4> QED  BY <1>8, <3>1, <4>2 DEF FirstTrial
    <3>2. CASE d.name # "e7b"
      BY <3>2 DEF FirstTrial
    <3> QED  BY <3>1, <3>2
  <2>2. CASE FirstTrial <= LastTrial
    <3>1. PICK i : i = FirstTrial
      OBVIOUS
    <3>2. d' = Position("trial", i, 1)
      BY <1>11, <2>2, <3>1 DEF Turn
    <3>3. Goes("trial", i, 1)
      BY <1>6, <1>9, <2>1, <2>2, <3>1, <3>2 DEF Goes, Parts, Trials
    <3> QED  BY <1>5, <3>3, Gone
  <2>3. CASE ~(FirstTrial <= LastTrial)
    <3>1. PICK i : i = d.i
      OBVIOUS
    <3>2. d' = Position("fin", i, 1)
      BY <1>11, <2>3, <3>1 DEF Turn
    <3>3. Goes("fin", i, 1)
      BY <1>2, <1>6, <3>1, <3>2 DEF Goes, Parts
    <3> QED  BY <1>5, <3>3, Gone
  <2> QED  BY <2>2, <2>3
<1>12. CASE d.part = "trial"
  <2>1. PICK part, i : /\ part = "fin" \/ (part = "between" /\ i < LastTrial)
                       /\ i = d.i /\ d' = Position(part, i, 1)
    BY <1>12 DEF Turn, AfterTrial
  <2>2. Goes(part, i, 1)
    BY <1>2, <1>6, <1>7, <2>1 DEF Goes, Parts
  <2> QED  BY <1>5, <2>2, Gone
<1>13. CASE d.part = "between"
  <2>1. d.i < LastTrial
    BY <1>13 DEF Typed, DriverTyped
  <2>2. PICK i : i = d.i + 1
    OBVIOUS
  <2>3. d' = Position("trial", i, 1)
    BY <1>13, <2>2 DEF Turn
  <2>4. Goes("trial", i, 1)
    BY <1>2, <1>6, <1>9, <2>1, <2>2, <2>3 DEF Goes, Parts, Trials
  <2> QED  BY <1>5, <2>4, Gone
<1>14. d.part = "fin" => d' = d
  BY DEF Turn
<1> QED  BY <1>2, <1>10, <1>11, <1>12, <1>13, <1>14 DEF Parts

LEMMA PacketTyped ==
  ASSUME Typed, Packet
  PROVE  Typed'
<1>1. UNCHANGED <<d, out, own, records, files, faults, now>>
  BY DEF Packet
<1>2. PICK j \in jobs :
        /\ Forward(<<j.i, Len(sent[j.i]) + 1>>)
        /\ sent' = [sent EXCEPT ![j.i] = Append(@, <<j.i, Len(sent[j.i]) + 1>>)]
        /\ jobs' = (jobs \ {j}) \cup (IF Len(j.gaps) = 1 THEN {} ELSE {[j EXCEPT !.gaps = Tail(@)]})
  BY DEF Packet
<1>3. j \in JobOf /\ jobs \subseteq JobOf /\ sent \in [1..Trials -> Seq(Nat \X Nat)]
  BY DEF Typed, HandsTyped
<1>4. LoopTyped'
  BY <1>1, <1>2 DEF Typed, LoopTyped, Forward, ctl, Registers
<1>5. sent' \in [1..Trials -> Seq(Nat \X Nat)]
  BY <1>2, <1>3 DEF JobOf
<1>6. jobs' \subseteq JobOf
  <2>1. Len(j.gaps) # 1 => Tail(j.gaps) \in Seq(Nat) \ {<< >>}
    <3>1. j.gaps \in Seq(Nat) /\ j.gaps # << >>
      BY <1>3 DEF JobOf
    <3>2. Len(j.gaps) \in Nat \ {0}
      BY <3>1
    <3>3. Tail(j.gaps) \in Seq(Nat) /\ Len(Tail(j.gaps)) = Len(j.gaps) - 1
      BY <3>1
    <3>4. Len(j.gaps) # 1 => Len(Tail(j.gaps)) # 0
      BY <3>2, <3>3
    <3>5. Len(<< >>) = 0
      OBVIOUS
    <3>6. Len(j.gaps) # 1 => Tail(j.gaps) # << >>
      BY <3>4, <3>5, Zenon
    <3> QED  BY <3>3, <3>6
  <2>2. Len(j.gaps) # 1 => [j EXCEPT !.gaps = Tail(@)] \in JobOf
    BY <1>3, <2>1 DEF JobOf
  <2> QED  BY <1>2, <1>3, <2>2
<1>7. HandsTyped'
  BY <1>1, <1>5, <1>6 DEF Typed, HandsTyped
<1>8. DriverTyped'
  BY <1>1, Stayed DEF Typed, DriverTyped
<1> QED  BY <1>4, <1>7, <1>8 DEF Typed

LEMMA TickTyped ==
  ASSUME Typed, Tick
  PROVE  Typed'
<1> DEFINE step == Min(Deadlines \ {0})
           Less(n) == IF n > 0 THEN n - step ELSE 0
<1>1. /\ \A j \in jobs : j.gaps[1] > 0
      /\ Deadlines \ {0} # {} /\ now' = now + step
      /\ d' = [d EXCEPT !.left = IF out.how = "running" THEN Less(@) ELSE @]
      /\ busy' = Less(busy) /\ jobs' = {[j EXCEPT !.gaps[1] = @ - step] : j \in jobs}
  BY DEF Tick
<1>2. UNCHANGED <<pc, handler, todo, errors, pending, dirty, faults, out, own, files, sent>>
  BY DEF Tick
<1>3. d.left \in Nat /\ busy \in Nat /\ now \in Nat /\ jobs \subseteq JobOf
  BY DEF Typed, LoopTyped, HandsTyped, DriverTyped
<1>4. \A j \in jobs : j.gaps \in Seq(Nat) \ {<< >>} /\ j.gaps[1] \in Nat
  BY <1>3 DEF JobOf
<1>5. Deadlines \ {0} \subseteq Nat
  BY <1>3, <1>4 DEF Deadlines
<1>6. step \in Nat /\ \A n \in Deadlines \ {0} : step <= n
  BY <1>1, <1>5, LeastOf
<1>7. /\ busy \in Deadlines /\ \A j \in jobs : j.gaps[1] \in Deadlines
      /\ out.how = "running" => d.left \in Deadlines
  BY DEF Deadlines
<1> HIDE DEF step
<1>8. now' \in Nat
  BY <1>1, <1>3, <1>6
<1>9. busy' \in Nat
  BY <1>1, <1>3, <1>6, <1>7
<1>10. \E left \in Nat : d' = [d EXCEPT !.left = left]
  <2>1. (IF out.how = "running" THEN Less(d.left) ELSE d.left) \in Nat
    BY <1>3, <1>6, <1>7
  <2> QED  BY <1>1, <2>1
<1>11. jobs' \subseteq JobOf
  <2>1. ASSUME NEW j \in jobs
        PROVE  [j EXCEPT !.gaps[1] = @ - step] \in JobOf
    <3>1. j.gaps[1] - step \in Nat
      BY <1>1, <1>4, <1>6, <1>7
    <3>2. [j.gaps EXCEPT ![1] = j.gaps[1] - step] \in Seq(Nat) \ {<< >>}
      BY <1>4, <3>1
    <3> QED  BY <1>3, <3>2 DEF JobOf
  <2> QED  BY <1>1, <2>1
<1>12. LoopTyped' /\ HandsTyped'
  BY <1>2, <1>8, <1>9, <1>11 DEF Typed, LoopTyped, HandsTyped
<1>13. DriverTyped'
  BY <1>2, <1>10, Stayed DEF Typed, DriverTyped
<1> QED  BY <1>12, <1>13 DEF Typed

LEMMA KillTyped ==
  ASSUME Typed, Kill
  PROVE  Typed'
<1>1. /\ UNCHANGED <<ctl, pending, queue, dirty, log, dump, rat, now,
                     d, own, records, jobs, sent, truths, met>>
      /\ faults < MaxFaults /\ faults' = faults + 1 /\ out.how = "running"
      /\ out' = [out EXCEPT !.how = "killed"]
  BY DEF Kill
<1>2. \/ files' = files
      \/ At("write_plan") /\ \E n \in -2..Trials : files' = [files EXCEPT !.plan = n]
  BY DEF Kill
<1>3. files' \in FileTypes
  BY <1>2, FilesTyped DEF Typed, HandsTyped
<1>4. LoopTyped' /\ HandsTyped'
  BY <1>1, <1>3, LoopAssumption DEF Typed, LoopTyped, HandsTyped, ctl
<1>5. d.part = "between" => LastTrial' = LastTrial
  <2>1. At("write_plan") => d.name = "e7b" /\ d.part # "between"
    <3> SUFFICES ASSUME Working, op.op = "write_plan"
                 PROVE  d.name = "e7b" /\ d.part # "between"
      BY DEF At
    <3>1. d.name = "e7b"
      BY AtWork DEF Kinds, LabOps, RunnerOps
    <3> QED  BY <3>1, E7bAt
  <2> QED  BY <1>1, <1>2, <2>1 DEF LastTrial, Mine
<1>6. files'.ckpt = files.ckpt
  BY <1>2 DEF Typed, HandsTyped, FileTypes
<1> QED  BY <1>1, <1>4, <1>5, <1>6 DEF Typed, DriverTyped, Ops, Mine

LEMMA RestTyped ==
  ASSUME Typed, Resume \/ Halt \/ Over \/ Controller
  PROVE  Typed'
<1>1. CASE Resume
  <2>1. /\ d.name = "e7b" /\ d.name \in Driver /\ out' = [out EXCEPT !.how = "running"]
        /\ own' = OwnInit /\ d' = Position("pre", 1, 1)
        /\ UNCHANGED <<vars, records, files, jobs, sent, truths, met>>
    BY <1>1 DEF Resume, Typed, DriverTyped
  <2>2. LoopTyped' /\ HandsTyped'
    BY <2>1 DEF Typed, LoopTyped, HandsTyped, vars, ctl, Fields
  <2>3. Len(Mine["pre"]) \in Nat
    BY <2>1, Scripts DEF Mine, Sound, Parts
  <2>4. Goes("pre", 1, 1)
    BY <2>1, <2>3 DEF Goes, Parts, Trials
  <2>5. DOMAIN out' = DOMAIN out /\ out'.how = "running"
    BY <2>1 DEF Typed, DriverTyped
  <2> QED  BY <2>2, <2>4, <2>5, Gone DEF Typed
<1>2. CASE Halt
  <2>1. LoopTyped' /\ HandsTyped'
    BY <1>2, LoopAssumption DEF Halt, Typed, LoopTyped, HandsTyped, ctl
  <2>2. UNCHANGED <<d, out, files>>
    BY <1>2 DEF Halt
  <2> QED  BY <2>1, <2>2, Stayed DEF Typed, DriverTyped
<1>3. CASE Over
  BY <1>3, Stayed DEF Over, allVars, vars, drvVars, ctl, Typed, LoopTyped, HandsTyped, DriverTyped
<1>4. CASE Controller
  <2>1. LoopTyped' /\ UNCHANGED drvVars
    BY <1>4, StepTyped DEF Controller, Typed
  <2> QED  BY <2>1, Stayed DEF drvVars, Typed, HandsTyped, DriverTyped
<1> QED  BY <1>1, <1>2, <1>3, <1>4

LEMMA TypedInit == Init => Typed
<1> SUFFICES ASSUME Init
             PROVE  Typed
  OBVIOUS
<1>1. PICK name \in Driver :
        d = [name |-> name, part |-> "pre", i |-> 1, k |-> 1, left |-> Delay(Script[name].pre, 1)]
  BY DEF Init
<1>2. LoopTyped
  BY LoopAssumption DEF Init, LoopInit, LoopTyped, ResetSteps
<1>3. HandsTyped
  BY DEF Init, HandsTyped, FileTypes, Fields, Trials
<1>4. d \in [name : Driver, part : Parts, i : 1..Trials, k : Nat \ {0}, left : Nat]
      /\ d.k <= Len(Ops) + 1 /\ d.part = "pre" /\ d.k = 1
  <2>1. Sound(Script[name]["pre"], Kinds(name))
    BY Scripts DEF Parts
  <2>2. Len(Script[name].pre) \in Nat /\ Delay(Script[name].pre, 1) \in Nat
    BY <2>1 DEF Sound, Delay
  <2> QED  BY <1>1, <2>2 DEF Ops, Mine, Parts, Trials
<1>5. DriverTyped
  BY <1>4 DEF Init, DriverTyped
<1> QED  BY <1>2, <1>3, <1>5 DEF Typed

LEMMA TypedStep ==
  ASSUME Typed, [Next]_allVars
  PROVE  Typed'
<1>1. CASE Next
  BY <1>1, WorksTyped, SuspendTyped, FailsTyped, TurnTyped, PacketTyped, TickTyped, KillTyped,
     RestTyped DEF Next
<1>2. CASE UNCHANGED allVars
  BY <1>2, Stayed DEF allVars, vars, drvVars, ctl, Typed, LoopTyped, HandsTyped, DriverTyped
<1> QED  BY <1>1, <1>2

LEMMA TypedHolds == Spec => []Typed
  BY TypedInit, TypedStep, PTL DEF Spec

(* Whatever fails and whenever it is killed, a driver stands at an         *)
(* operation of its script and in one of its trials, a plan and a          *)
(* checkpoint of run_e7b stay within the trials, and what the controller's *)
(* handlers write has its type.                                            *)
THEOREM CampaignTypes == Spec => []TypeOK
<1>1. Typed => TypeOK
  <2> SUFFICES ASSUME Typed
               PROVE  TypeOK
    OBVIOUS
  <2>1. Len(Ops) \in Nat
    BY Scripts DEF Typed, DriverTyped, Ops, Mine, Sound
  <2> QED
    BY <2>1 DEF Typed, LoopTyped, HandsTyped, DriverTyped, TypeOK, Parts, FileTypes, Finding
<1> QED  BY <1>1, TypedHolds, PTL

-----------------------------------------------------------------------------
(* An event is handled when the ground truth has it or its sending was     *)
(* reported; it is done in this life of the driver once that has written   *)
(* its line. A life that was killed or told to stop has cost a fault.      *)
Handled(e) == Times(e) > 0 \/ e \in files.errs
ThisLife(e) ==
  \/ d.part = "fin" \/ (d.part = "between" /\ e <= d.i)
  \/ d.part = "trial" /\ (e < d.i \/ (e = d.i /\ d.k > 3))
Paid == IF own.halt \/ out.how \in {"killed", "suspended"} THEN 1 ELSE 0
Share(e) == IF ThisLife(e) THEN 1 ELSE 0

(* ResumeComplete is not inductive. What the checkpoint covers is handled, *)
(* and so is what this life has been through; at the end that is the whole *)
(* plan, unless the driver was told to stop. Each life writes an event     *)
(* once at most, and each but the first was paid with a fault; between     *)
(* packet and line a packet is ahead.                                      *)
Resumable ==
  /\ d.part # "pre" \/ d.k > 1 => files.plan >= 0
  /\ \A e \in 1..files.ckpt : Handled(e)
  /\ \A e \in 1..Trials :
       ThisLife(e) /\ (d.part = "fin" => ~own.halt /\ e <= files.plan) => Handled(e)
  /\ files.done => files.plan >= 0 /\ \A e \in 1..files.plan : Handled(e)
  /\ \A e \in 1..Trials : Times(e) + Paid <= faults + Share(e)
  /\ \A e \in 1..Trials : Times(e) <= Len(sent[e])
  /\ d.part = "trial" /\ d.k = 3 => Times(d.i) < Len(sent[d.i])

Kept == IF d.name = "e7b" THEN Resumable ELSE files.gt = << >> /\ ~files.done

LEMMA TimesTyped ==
  ASSUME Typed
  PROVE  \A e : Times(e) \in Nat
<1>1. DOMAIN files.gt = 1..Len(files.gt) /\ Len(files.gt) \in Nat
  BY DEF Typed, HandsTyped, FileTypes
<1>2. IsFiniteSet(1..Len(files.gt))
  BY <1>1, FS_Interval
<1> QED  BY <1>1, <1>2, FS_Subset, FS_CardinalityType DEF Times

LEMMA TimesAppended ==
  ASSUME Typed, NEW i \in 1..Trials, files' = [files EXCEPT !.gt = Append(@, i)]
  PROVE  \A e : Times(e)' = Times(e) + (IF e = i THEN 1 ELSE 0)
<1> DEFINE gt == files.gt
           Lines(e) == {n \in DOMAIN gt : gt[n] = e}
<1>1. gt \in Seq(1..Trials) /\ files'.gt = Append(gt, i) /\ Len(gt) \in Nat
  BY DEF Typed, HandsTyped, FileTypes
<1>2. DOMAIN gt = 1..Len(gt) /\ DOMAIN files'.gt = 1..(Len(gt) + 1)
      /\ \A n \in 1..Len(gt) : files'.gt[n] = gt[n]
      /\ files'.gt[Len(gt) + 1] = i
  BY <1>1
<1>3. ASSUME NEW e
      PROVE  Times(e)' = Times(e) + (IF e = i THEN 1 ELSE 0)
  <2>1. IsFiniteSet(Lines(e)) /\ Len(gt) + 1 \notin Lines(e)
    BY <1>1, <1>2, FS_Interval, FS_Subset
  <2>2. {n \in DOMAIN files'.gt : files'.gt[n] = e}
          = IF e = i THEN Lines(e) \cup {Len(gt) + 1} ELSE Lines(e)
    BY <1>1, <1>2
  <2>3. Times(e) = Cardinality(Lines(e)) /\ Times(e) \in Nat
    BY TimesTyped DEF Times
  <2>4. Times(e)' = Cardinality(IF e = i THEN Lines(e) \cup {Len(gt) + 1} ELSE Lines(e))
    BY <2>2 DEF Times
  <2>5. Cardinality(Lines(e) \cup {Len(gt) + 1}) = Cardinality(Lines(e)) + 1
    BY <2>1, FS_AddElement
  <2> HIDE DEF Lines, gt
  <2> QED  BY <2>3, <2>4, <2>5
<1> QED  BY <1>3

LEMMA TimesSame ==
  ASSUME files'.gt = files.gt
  PROVE  \A e : Times(e)' = Times(e)
  BY DEF Times

(* A driver keeps its name. *)
LEMMA NameKept ==
  ASSUME Typed, [Next]_allVars
  PROVE  d'.name = d.name
<1>1. CASE d' = d
  BY <1>1
<1>2. CASE Works
  BY <1>2 DEF Works, Onward, Position
<1>3. CASE Fails \/ FindsNothing
  <2>1. Trouble
    BY <1>3, Zenon DEF Fails, FindsNothing
  <2> QED  BY <2>1 DEF Trouble, RaiseIn, AfterTrial, Onward, Position
<1>4. CASE Turn
  BY <1>4 DEF Turn, AfterTrial, Position
<1>5. CASE Tick
  BY <1>5 DEF Tick, Typed, DriverTyped
<1>6. CASE Resume
  BY <1>6 DEF Resume, Position
<1>7. (Suspend \/ Packet \/ Kill \/ Halt \/ Controller \/ Over \/ UNCHANGED allVars) => d' = d
  BY DEF Suspend, Packet, Kill, Halt, Controller, Over, drvVars, allVars
<1> QED  BY <1>1, <1>2, <1>3, <1>4, <1>5, <1>6, <1>7 DEF Next

(* No other driver has a ground truth.                                     *)
LEMMA OthersKept ==
  ASSUME Typed, d.name # "e7b", files.gt = << >>, ~files.done, [Next]_allVars
  PROVE  files'.gt = << >> /\ ~files'.done
<1>1. CASE UNCHANGED <<files>>
  BY <1>1
<1>2. ASSUME Working
      PROVE  op.op \notin FileOps
  BY <1>2, AtWork DEF Kinds, FileOps, LabOps, RunnerOps
<1>3. ASSUME Working, Effect \/ Hears
      PROVE  UNCHANGED files
  BY <1>2, <1>3 DEF FileOps, Effect, Hears, TakeHands, preflight_check, Signal, WriteDisk, Rows,
     WriteFiles, Launch, send_packet, Missed, SentUnheard
<1>4. Works => UNCHANGED files
  BY <1>3 DEF Works, Ready
<1>5. Fails \/ FindsNothing => UNCHANGED files
  BY <1>3, Zenon DEF Fails, FindsNothing, Ready, Effect, Hears
<1>6. Kill => UNCHANGED files
  BY <1>2 DEF Kill, At, FileOps
<1>7. Suspend \/ Turn \/ Packet \/ Tick \/ Resume \/ Halt \/ Controller \/ Over \/ UNCHANGED allVars
        => UNCHANGED files
  BY DEF Suspend, Turn, Packet, Tick, Resume, Halt, Controller, Over, drvVars, allVars
<1> QED  BY <1>1, <1>4, <1>5, <1>6, <1>7 DEF Next

(* Nothing of the campaign moves but packets and time. *)
LEMMA IdleKept ==
  ASSUME Typed, Resumable, UNCHANGED files, own.halt => own'.halt,
         d'.part = d.part, d'.i = d.i, d'.k = d.k,
         faults' \in Nat, Paid' + faults <= Paid + faults',
         \A e \in 1..Trials : Len(sent'[e]) \in Nat /\ Len(sent[e]) <= Len(sent'[e])
  PROVE  Resumable'
<1>1. \A e : Times(e)' = Times(e) /\ Times(e) \in Nat
  BY TimesSame, TimesTyped
<1>2. \A e : Handled(e)' <=> Handled(e)
  BY <1>1 DEF Handled
<1>3. (\A e : ThisLife(e)' <=> ThisLife(e)) /\ (\A e : Share(e)' = Share(e) /\ Share(e) \in Nat)
      /\ Paid \in Nat /\ Paid' \in Nat
  BY DEF ThisLife, Paid, Share
<1>4. faults \in Nat /\ d.i \in 1..Trials
  BY LoopAssumption DEF Typed, LoopTyped, DriverTyped
<1>5. \A e \in 1..Trials : Len(sent[e]) \in Nat
  BY DEF Typed, HandsTyped
<1>6. /\ (d.part # "pre" \/ d.k > 1 => files.plan >= 0)'
      /\ (\A e \in 1..files.ckpt : Handled(e))'
      /\ (files.done => files.plan >= 0 /\ \A e \in 1..files.plan : Handled(e))'
  BY <1>2 DEF Resumable
<1>7. (\A e \in 1..Trials :
         ThisLife(e) /\ (d.part = "fin" => ~own.halt /\ e <= files.plan) => Handled(e))'
  BY <1>2, <1>3 DEF Resumable
<1>8. (\A e \in 1..Trials : Times(e) + Paid <= faults + Share(e))'
  <2>1. ASSUME NEW e \in 1..Trials
        PROVE  Times(e)' + Paid' <= faults' + Share(e)'
    <3>1. Times(e) + Paid <= faults + Share(e)
      BY DEF Resumable
    <3>2. Times(e)' = Times(e) /\ Times(e) \in Nat /\ Share(e)' = Share(e) /\ Share(e) \in Nat
      BY <1>1, <1>3
    <3>3. PICK p \in Nat, q \in Nat, f \in Nat, g \in Nat, n \in Nat, s \in Nat :
                 /\ p = Paid /\ q = Paid' /\ f = faults /\ g = faults'
                 /\ n = Times(e) /\ s = Share(e)
      BY <1>3, <1>4, <3>2
    <3>4. q + f <= p + g /\ n + p <= f + s
      BY <3>1, <3>3
    <3>5. n + q <= g + s
      BY <3>4
    <3> QED  BY <3>2, <3>3, <3>5
  <2> QED  BY <2>1
<1>9. (\A e \in 1..Trials : Times(e) <= Len(sent[e]))'
  BY <1>1, <1>5 DEF Resumable
<1>10. (d.part = "trial" /\ d.k = 3 => Times(d.i) < Len(sent[d.i]))'
  BY <1>1, <1>4, <1>5 DEF Resumable
<1> QED  BY <1>6, <1>7, <1>8, <1>9, <1>10 DEF Resumable

LEMMA OthersResumable ==
  ASSUME Typed, Resumable, Packet \/ Tick \/ Controller \/ Over \/ UNCHANGED allVars
  PROVE  Resumable'
<1>1. UNCHANGED <<files, own, out>> /\ d'.part = d.part /\ d'.i = d.i /\ d'.k = d.k
  BY DEF Packet, Tick, Controller, Over, drvVars, allVars, Typed, DriverTyped
<1>2. faults \in Nat /\ faults' \in Nat /\ faults <= faults'
  <2>1. faults \in Nat
    BY LoopAssumption DEF Typed, LoopTyped
  <2>2. CASE faults' = faults
    BY <2>1, <2>2
  <2>3. CASE Step
    <3>1. faults' = faults \/ faults' = faults + 1
      BY <2>3, Zenon
         DEF Step, Receive, Recorded, evaluate_hold, _log_decision, handle_reset, reset_step,
             reset_step_fails, override_row_stays, write_markers, startup_done, handle_dump_state,
             handle_stop, run, Reload
    <3> QED  BY <2>1, <3>1
  <2> QED  BY <2>2, <2>3 DEF Packet, Tick, Controller, Over, allVars, vars
<1>3. \A e \in 1..Trials : Len(sent'[e]) \in Nat /\ Len(sent[e]) <= Len(sent'[e])
  <2>1. sent \in [1..Trials -> Seq(Nat \X Nat)]
    BY DEF Typed, HandsTyped
  <2>2. CASE sent' = sent
    BY <2>1, <2>2
  <2>3. CASE Packet
    <3>1. PICK j \in jobs : sent' = [sent EXCEPT ![j.i] = Append(@, <<j.i, Len(sent[j.i]) + 1>>)]
      BY <2>3 DEF Packet
    <3> QED  BY <2>1, <3>1
  <2> QED  BY <2>2, <2>3 DEF Tick, Controller, Over, drvVars, allVars
<1>4. Paid' = Paid /\ Paid \in Nat
  BY <1>1 DEF Paid
<1> QED  BY <1>1, <1>2, <1>3, <1>4, IdleKept

(* The operations of run_e7b, one by one. *)
(* What keeps it, action by action: an operation that works, one that      *)
(* fails, a stop, a kill, a new life, and the way from one event to the    *)
(* next.                                                                   *)
LEMMA E7bWorks ==
  ASSUME Typed, Resumable, d.name = "e7b", Works
  PROVE  Resumable'
<1> USE DEF Resumable, ThisLife, Paid, Share, Handled
<1>1. Working /\ Effect /\ UNCHANGED <<out, faults>> /\ own'.halt = own.halt
      /\ ~Refused /\ ~(op.op = "collapse" /\ Suspends)
  BY EffectTyped DEF Works, Ready
<1>2. files \in FileTypes /\ sent \in [1..Trials -> Seq(Nat \X Nat)] /\ d.i \in 1..Trials
      /\ d.part \in Parts /\ d.k \in Nat
  BY DEF Typed, HandsTyped, DriverTyped
<1>3. files.plan \in -2..Trials /\ files.ckpt \in -1..Trials
      /\ DOMAIN files = {"plan", "ckpt", "gt", "errs", "done"}
  BY <1>2 DEF FileTypes
<1>4. (\A e : Times(e) \in Nat) /\ faults \in Nat /\ \A e \in 1..Trials : Len(sent[e]) \in Nat
  BY <1>2, TimesTyped, LoopAssumption DEF Typed, LoopTyped
<1>5. \/ op.op = "await_event" /\ own.halt /\ d' = Position("fin", d.i, 1)
      \/ ~(op.op = "await_event" /\ own.halt) /\ (op.op # "preflight" => d' = Position(d.part, d.i, d.k + 1))
  BY DEF Works, Onward
<1>6. ASSUME NEW what, op.op = what, what \in FileOps \ {"send", "await_event"}
      PROVE  WriteFiles
  BY <1>1, <1>6 DEF FileOps, Effect, TakeHands, Hands, preflight_check, Signal, Signals, WriteDisk,
     Rows, Launch, send_packet
<1>7. CASE op.op = "write_plan"
  <2>1. files' = [files EXCEPT !.plan = IF @ = -1 THEN Trials ELSE @] /\ sent' = sent
        /\ files.plan # -2
    BY <1>1, <1>6, <1>7 DEF WriteFiles, FileOps, Refused
  <2>2. d.part = "pre" /\ d.k = 1 /\ d'.part = "pre" /\ d'.k = 2 /\ d'.i = d.i
    BY <1>1, <1>5, <1>7, E7bAt DEF Position
  <2>3. \A e : Times(e)' = Times(e)
    BY <1>3, <2>1, TimesSame
  <2> QED  BY <1>1, <1>3, <1>4, <2>1, <2>2, <2>3 DEF Trials
<1>8. CASE op.op = "read_checkpoint"
  <2>1. files' = [files EXCEPT !.ckpt = IF @ = -1 THEN 0 ELSE @] /\ sent' = sent
    BY <1>1, <1>6, <1>8 DEF WriteFiles, FileOps
  <2>2. d.part = "pre" /\ d.k = 2 /\ d'.part = "pre" /\ d'.k = 3 /\ d'.i = d.i
    BY <1>1, <1>5, <1>8, E7bAt DEF Position
  <2>3. \A e : Times(e)' = Times(e)
    BY <1>3, <2>1, TimesSame
  <2> QED  BY <1>1, <1>3, <1>4, <2>1, <2>2, <2>3
<1>9. CASE op.op = "await_event"
  <2>1. files' = files /\ sent' = sent
    BY <1>1, <1>9 DEF Effect, TakeHands, Hands, preflight_check, Signal, Signals, WriteDisk,
       Rows, WriteFiles, Launch, send_packet
  <2>2. d.part = "trial" /\ d.k = 1 /\ d'.i = d.i
        /\ IF own.halt THEN d'.part = "fin" /\ d'.k = 1 ELSE d'.part = "trial" /\ d'.k = 2
    BY <1>1, <1>5, <1>9, E7bAt DEF Position
  <2>3. \A e : Times(e)' = Times(e)
    BY <2>1, TimesSame
  <2>4. (\A e : Handled(e)' <=> Handled(e)) /\ Paid' = Paid
    BY <1>1, <2>1, <2>3
  <2>5. \A e \in 1..Trials : ThisLife(e)' /\ (d'.part = "fin" => ~own.halt) => ThisLife(e)
    BY <1>2, <2>2
  <2>6. \A e \in 1..Trials : Share(e) <= Share(e)' /\ Share(e) \in Nat /\ Share(e)' \in Nat /\ Paid \in Nat
    BY <1>2, <2>2
  <2>7. d'.part # "pre" /\ d.part # "pre" /\ d.part # "fin" /\ ~(d'.part = "trial" /\ d'.k = 3)
    BY <2>2
  <2>8. (\A e \in 1..Trials : Times(e) + Paid <= faults + Share(e))'
    BY <1>1, <1>4, <2>3, <2>4, <2>6
  <2> HIDE DEF ThisLife, Handled, Paid, Share
  <2> QED  BY <1>1, <2>1, <2>3, <2>4, <2>5, <2>7, <2>8
<1>10. CASE op.op = "send"
  <2>1. files' = files /\ sent' = [sent EXCEPT ![d.i] = Append(@, <<d.i, Len(@) + 1>>)]
    BY <1>1, <1>10 DEF Effect, TakeHands, Hands, preflight_check, Signal, Signals, WriteDisk,
       Rows, WriteFiles, Launch, send_packet
  <2>2. d.part = "trial" /\ d.k = 2 /\ d'.i = d.i /\ d'.part = "trial" /\ d'.k = 3
    BY <1>1, <1>5, <1>10, E7bAt DEF Position
  <2>3. \A e : Times(e)' = Times(e)
    BY <2>1, TimesSame
  <2>4. Len(sent'[d.i]) = Len(sent[d.i]) + 1 /\ \A e \in 1..Trials : e # d.i => sent'[e] = sent[e]
    BY <1>2, <2>1
  <2>5. (\A e : Handled(e)' <=> Handled(e)) /\ Paid' = Paid
    BY <1>1, <2>1, <2>3
  <2>6. \A e \in 1..Trials : (ThisLife(e)' <=> ThisLife(e)) /\ Share(e)' = Share(e)
    BY <1>2, <2>2
  <2>7. (\A e \in 1..Trials : Times(e) + Paid <= faults + Share(e))'
    BY <1>1, <2>3, <2>5, <2>6
  <2>8. (\A e \in 1..Trials : Times(e) <= Len(sent[e]))' /\ (Times(d.i) < Len(sent[d.i]))'
    <3>1. \A e \in 1..Trials : Times(e) <= Len(sent[e])
      OBVIOUS
    <3>2. PICK i \in 1..Trials : i = d.i
      BY <1>2
    <3> HIDE DEF Resumable
    <3>3. Times(i)' < Len(sent'[i])
      BY <1>4, <2>3, <2>4, <3>1, <3>2
    <3>4. ASSUME NEW e \in 1..Trials
          PROVE  Times(e)' <= Len(sent'[e])
      <4>1. CASE e = i
        BY <1>4, <2>3, <2>4, <3>1, <3>2, <4>1
      <4>2. CASE e # i
        BY <2>3, <2>4, <3>1, <3>2, <4>2
      <4> QED  BY <4>1, <4>2
    <3>5. d'.i = i
      BY <2>2, <3>2
    <3> QED  BY <3>3, <3>4, <3>5
  <2> HIDE DEF ThisLife, Handled, Paid, Share
  <2> QED  BY <1>2, <2>1, <2>2, <2>5, <2>6, <2>7, <2>8
<1>11. CASE op.op = "append"
  <2>1. files' = [files EXCEPT !.gt = Append(@, d.i)] /\ sent' = sent
    BY <1>1, <1>6, <1>11 DEF WriteFiles, FileOps
  <2>2. d.part = "trial" /\ d.k = 3 /\ d'.i = d.i /\ d'.part = "trial" /\ d'.k = 4
    BY <1>1, <1>5, <1>11, E7bAt DEF Position
  <2>3. PICK i \in 1..Trials : i = d.i
    BY <1>2
  <2>4. \A e : Times(e)' = Times(e) + (IF e = i THEN 1 ELSE 0)
    BY <2>1, <2>3, TimesAppended
  <2>5. \A e : Handled(e) => Handled(e)'
    BY <1>3, <1>4, <2>1, <2>4
  <2>6. Times(i)' > 0 /\ \A e : e # i => Times(e)' = Times(e)
    BY <1>4, <2>4
  <2>7. UNCHANGED <<files.plan, files.ckpt, files.done>>
    BY <1>3, <2>1
  <2>8. (\A e \in 1..Trials :
           ThisLife(e) /\ (d.part = "fin" => ~own.halt /\ e <= files.plan) => Handled(e))'
    <3>1. ASSUME NEW e \in 1..Trials, ThisLife(e)'
          PROVE  Handled(e)'
      <4>1. e = i \/ e < i
        BY <1>2, <2>2, <2>3, <3>1
      <4>2. CASE e = i
        BY <2>6, <4>2
      <4>3. CASE e < i
        <5>1. ThisLife(e) /\ d.part # "fin"
          BY <2>2, <2>3, <4>3
        <5> QED  BY <2>5, <5>1
      <4> QED  BY <4>1, <4>2, <4>3
    <3> QED  BY <3>1
  <2>9. (\A e \in 1..Trials : Times(e) + Paid <= faults + Share(e))'
    <3>1. Paid' = Paid /\ Paid \in Nat
      BY <1>1
    <3>2. Share(i)' = 1 /\ Share(i) = 0 /\ \A e \in 1..Trials : e # i => Share(e)' = Share(e)
      BY <1>2, <2>2, <2>3
    <3>3. \A e \in 1..Trials : Times(e) + Paid <= faults + Share(e)
      OBVIOUS
    <3>4. \A e \in 1..Trials : Share(e) \in Nat
      OBVIOUS
    <3> HIDE DEF Resumable, Share, Paid
    <3>5. ASSUME NEW e \in 1..Trials
          PROVE  Times(e)' + Paid' <= faults' + Share(e)'
      <4>1. CASE e = i
        BY <1>1, <1>4, <2>4, <3>1, <3>2, <3>3, <4>1
      <4>2. CASE e # i
        BY <1>1, <1>4, <2>4, <3>1, <3>2, <3>3, <4>2
      <4> QED  BY <4>1, <4>2
    <3> QED  BY <3>5
  <2>10. (\A e \in 1..Trials : Times(e) <= Len(sent[e]))'
    <3>1. \A e \in 1..Trials : Times(e) <= Len(sent[e])
      OBVIOUS
    <3>2. Times(i) < Len(sent[i])
      BY <2>2, <2>3
    <3> HIDE DEF Resumable
    <3> QED  BY <1>4, <2>1, <2>4, <3>1, <3>2
  <2>11. d'.part = "trial" /\ d'.k # 3 /\ d.part # "pre" /\ files'.plan >= 0
    BY <2>2, <2>7
  <2> HIDE DEF ThisLife, Handled, Paid, Share
  <2> QED  BY <2>5, <2>7, <2>8, <2>9, <2>10, <2>11
<1>12. CASE op.op = "checkpoint"
  <2>1. files' = [files EXCEPT !.ckpt = d.i] /\ sent' = sent
    BY <1>1, <1>6, <1>12 DEF WriteFiles, FileOps
  <2>2. d.part = "trial" /\ d.k = 4 /\ d'.i = d.i /\ d'.part = "trial" /\ d'.k = 5
    BY <1>1, <1>5, <1>12, E7bAt DEF Position
  <2>3. \A e : Times(e)' = Times(e)
    BY <1>3, <2>1, TimesSame
  <2>4. \A e \in 1..d.i : Handled(e)
    BY <1>2, <2>2 DEF Trials
  <2>5. UNCHANGED <<files.plan, files.gt, files.errs, files.done>> /\ files'.ckpt = d.i
    BY <1>3, <2>1
  <2>6. (\A e : Handled(e)' <=> Handled(e)) /\ Paid' = Paid
    BY <1>1, <2>3, <2>5
  <2>7. \A e \in 1..Trials : (ThisLife(e)' <=> ThisLife(e)) /\ Share(e)' = Share(e)
    BY <1>2, <2>2
  <2>8. (\A e \in 1..Trials : Times(e) + Paid <= faults + Share(e))'
    BY <1>1, <2>3, <2>6, <2>7
  <2> HIDE DEF ThisLife, Handled, Paid, Share
  <2> QED  BY <2>1, <2>2, <2>3, <2>4, <2>5, <2>6, <2>7, <2>8
<1>13. CASE op.op = "collapse"
  <2>1. files' = [files EXCEPT !.done = TRUE] /\ sent' = sent
    BY <1>1, <1>6, <1>13 DEF WriteFiles, FileOps
  <2>2. d.part = "fin" /\ d.k = 1 /\ d'.i = d.i /\ d'.part = "fin" /\ d'.k = 2
    BY <1>1, <1>5, <1>13, E7bAt DEF Position
  <2>3. \A e : Times(e)' = Times(e)
    BY <1>3, <2>1, TimesSame
  <2>4. files.plan >= 0 /\ \A e \in 1..files.plan : Handled(e)
    <3>1. files.plan >= 0
      BY <2>2
    <3>2. CASE own.halt
      <4>1. files.plan <= files.ckpt
        BY <1>1, <1>3, <1>13, <3>2 DEF Suspends
      <4> QED  BY <1>3, <3>1, <4>1
    <3>3. CASE ~own.halt
      BY <1>3, <2>2, <3>1, <3>3 DEF Trials
    <3> QED  BY <3>2, <3>3
  <2>5. UNCHANGED <<files.plan, files.ckpt, files.gt, files.errs>>
    BY <1>3, <2>1
  <2>6. (\A e : Handled(e)' <=> Handled(e)) /\ (\A e : ThisLife(e) /\ ThisLife(e)')
        /\ Paid' = Paid /\ \A e : Share(e)' = Share(e)
    BY <1>1, <2>2, <2>3, <2>5
  <2> HIDE DEF ThisLife, Handled, Paid, Share
  <2> QED  BY <1>1, <2>1, <2>2, <2>3, <2>4, <2>5, <2>6
<1> QED  BY <1>1, <1>7, <1>8, <1>9, <1>10, <1>11, <1>12, <1>13, E7bAt

(* A packet that is not sent, or whose answer is lost, is reported.  *)
LEMMA E7bFails ==
  ASSUME Typed, Resumable, d.name = "e7b", Fails
  PROVE  Resumable'
<1>1. Working /\ Trouble /\ op.err # "none" /\ faults' = faults + 1
      /\ (Missed \/ Signal \/ WriteDisk \/ Rows \/ SentUnheard
          \/ Launch(op.arg, FALSE) \/ Launch(<<op.arg[1]>>, TRUE))
  BY Zenon DEF Fails, Ready
<1>2. d.part = "trial" /\ d.k = 2 /\ op.op = "send" /\ op.err = "raise"
  BY <1>1, E7bAt
<1>3. own' = own /\ files' = [files EXCEPT !.errs = @ \cup {d.i}]
      /\ (sent' = sent \/ sent' = [sent EXCEPT ![d.i] = Append(@, <<d.i, Len(@) + 1>>)])
  <2>1. Missed \/ SentUnheard
    BY <1>1, <1>2 DEF Signal, Signals, WriteDisk, Rows, Launch
  <2> QED  BY <2>1, <1>2 DEF Missed, SentUnheard
<1>4. Mine.next = TRUE /\ Mine.finally = FALSE
  BY E7bScript DEF Mine
<1>5. out'.how = out.how /\ out.how = "running" /\ d' = AfterTrial(d.i)
  <2>1. RaiseIn
    BY <1>1, <1>2 DEF Trouble
  <2>2. out' = [out EXCEPT !.noted = Noted] /\ d' = AfterTrial(d.i)
    BY <1>2, <1>4, <2>1 DEF RaiseIn
  <2> QED  BY <1>1, <2>2 DEF Working, Typed, DriverTyped
<1>6. PICK i \in 1..Trials : i = d.i
  BY DEF Typed, DriverTyped
<1>7. files \in FileTypes /\ sent \in [1..Trials -> Seq(Nat \X Nat)]
  BY DEF Typed, HandsTyped
<1>8. files.plan \in -2..Trials /\ UNCHANGED <<files.plan, files.ckpt, files.gt, files.done>>
      /\ files'.errs = files.errs \cup {i}
  BY <1>3, <1>6, <1>7 DEF FileTypes
<1>9. (\A e : Times(e)' = Times(e) /\ Times(e) \in Nat) /\ faults \in Nat
  BY <1>8, TimesSame, TimesTyped, LoopAssumption DEF Typed, LoopTyped
<1>10. (\A e : Handled(e) => Handled(e)') /\ Handled(i)'
  BY <1>8, <1>9 DEF Handled
<1>11. \/ d'.part = "between" /\ d'.i = i
       \/ d'.part = "fin" /\ files.plan <= i
  BY <1>5, <1>6, <1>8 DEF AfterTrial, LastTrial, Position
<1>12. \A e \in 1..Trials : e < i => ThisLife(e) /\ d.part # "fin"
  BY <1>2, <1>6 DEF ThisLife
<1>13. (\A e \in 1..Trials :
          ThisLife(e) /\ (d.part = "fin" => ~own.halt /\ e <= files.plan) => Handled(e))'
  <2>1. ASSUME NEW e \in 1..Trials, ThisLife(e)', d'.part = "fin" => e <= files'.plan
        PROVE  Handled(e)'
    <3>1. e <= i
      BY <1>8, <1>11, <2>1 DEF ThisLife
    <3>2. CASE e = i
      BY <1>10, <3>2
    <3>3. CASE e < i
      BY <1>10, <1>12, <3>3 DEF Resumable
    <3> QED  BY <3>1, <3>2, <3>3
  <2> QED  BY <2>1
<1>14. (\A e \in 1..Trials : Times(e) + Paid <= faults + Share(e))'
  <2>1. Paid' = Paid /\ Paid \in Nat /\ \A e : Share(e) \in 0..1 /\ Share(e)' \in 0..1
    BY <1>3, <1>5 DEF Paid, Share
  <2> QED  BY <1>1, <1>9, <2>1 DEF Resumable
<1>15. (\A e \in 1..Trials : Times(e) <= Len(sent[e]))'
  <2>1. ASSUME NEW e \in 1..Trials
        PROVE  Len(sent[e]) \in Nat /\ Len(sent'[e]) \in Nat /\ Len(sent[e]) <= Len(sent'[e])
    <3>1. sent[e] \in Seq(Nat \X Nat)
      BY <1>7
    <3>2. \/ sent'[e] = sent[e]
          \/ sent'[e] = Append(sent[e], <<i, Len(sent[e]) + 1>>)
      BY <1>3, <1>6, <1>7
    <3> QED  BY <3>1, <3>2
  <2> QED  BY <1>9, <2>1 DEF Resumable
<1>16. files.plan >= 0 /\ d'.part # "pre" /\ d'.part # "trial"
  BY <1>2, <1>11 DEF Resumable
<1> QED  BY <1>8, <1>10, <1>13, <1>14, <1>15, <1>16 DEF Resumable

(* Nothing but the way it ends, the order to halt, or a fault.  *)
LEMMA E7bStops ==
  ASSUME Typed, Resumable, d.name = "e7b",
         FindsNothing \/ Suspend \/ Halt \/ (Kill /\ UNCHANGED files)
  PROVE  Resumable'
<1>1. faults \in Nat
  BY LoopAssumption DEF Typed, LoopTyped
<1>2. DOMAIN out = {"how", "raised", "noted", "lost"} /\ "halt" \in DOMAIN own
  BY DEF Typed, DriverTyped, HandsTyped, Fields, OwnInit
<1>3. \A e \in 1..Trials : Len(sent[e]) \in Nat
  BY DEF Typed, HandsTyped
<1>4. CASE FindsNothing
  <2>1. Working /\ Refused /\ Missed /\ Trouble /\ faults' = faults
    BY <1>4 DEF FindsNothing, Ready
  <2>2. op.op = "write_plan" /\ op.err = "none"
    BY <2>1, E7bAt DEF Refused
  <2>3. UNCHANGED <<own, files, sent, d>> /\ out'.how = "raised" /\ out.how = "running"
    BY <1>2, <2>1, <2>2 DEF Missed, Trouble, Working
  <2>4. Paid' = Paid /\ Paid \in Nat
    BY <2>3 DEF Paid
  <2> QED  BY <1>1, <1>3, <2>1, <2>3, <2>4, IdleKept
<1>5. CASE Suspend
  <2>1. UNCHANGED <<own, files, sent, d, faults>> /\ own.halt
    BY <1>5 DEF Suspend, Suspends, vars
  <2>2. Paid' = Paid /\ Paid \in Nat
    BY <2>1 DEF Paid
  <2> QED  BY <1>1, <1>3, <2>1, <2>2, IdleKept
<1>6. CASE Halt
  <2>1. UNCHANGED <<files, sent, d>> /\ own'.halt /\ faults' = faults + 1
    BY <1>2, <1>6 DEF Halt
  <2>2. PICK p \in 0..1, q \in 0..1, n \in Nat, m \in Nat :
               p = Paid /\ q = Paid' /\ n = faults /\ m = faults' /\ m = n + 1
    BY <1>1, <2>1 DEF Paid
  <2>3. q + n <= p + (n + 1)
    OBVIOUS
  <2>4. faults' \in Nat /\ Paid' + faults <= Paid + faults'
    BY <2>2, <2>3, Zenon
  <2> QED  BY <1>3, <2>1, <2>4, IdleKept
<1>7. CASE Kill /\ UNCHANGED files
  <2>1. UNCHANGED <<files, sent, d, own>> /\ faults' = faults + 1
    BY <1>7 DEF Kill
  <2>2. PICK p \in 0..1, q \in 0..1, n \in Nat, m \in Nat :
               p = Paid /\ q = Paid' /\ n = faults /\ m = faults' /\ m = n + 1
    BY <1>1, <2>1 DEF Paid
  <2>3. q + n <= p + (n + 1)
    OBVIOUS
  <2>4. faults' \in Nat /\ Paid' + faults <= Paid + faults'
    BY <2>2, <2>3, Zenon
  <2> QED  BY <1>3, <2>1, <2>4, IdleKept
<1> QED  BY <1>4, <1>5, <1>6, <1>7

(* A kill while the plan is written: there is no event yet.  *)
LEMMA E7bCut ==
  ASSUME Typed, Resumable, d.name = "e7b", Kill, files' # files
  PROVE  Resumable'
<1>1. At("write_plan") /\ files.plan = -1 /\ faults' = faults + 1 /\ UNCHANGED <<d, own, sent>>
  BY DEF Kill
<1>2. PICK n \in -2..Trials : files' = [files EXCEPT !.plan = n]
  BY <1>1 DEF Kill
<1>3. d.part = "pre" /\ d.k = 1
  BY <1>1, E7bAt DEF At
<1>4. UNCHANGED <<files.ckpt, files.gt, files.errs, files.done>>
  BY <1>2 DEF Typed, HandsTyped, FileTypes
<1>5. (\A e : Times(e)' = Times(e) /\ Times(e) \in Nat) /\ faults \in Nat
  BY <1>4, TimesSame, TimesTyped, LoopAssumption DEF Typed, LoopTyped
<1>6. \A e : (Handled(e)' <=> Handled(e)) /\ ~ThisLife(e) /\ ~ThisLife(e)'
  BY <1>1, <1>3, <1>4, <1>5 DEF Handled, ThisLife
<1>7. \A e : Share(e) = 0 /\ Share(e)' = 0
  BY <1>6 DEF Share
<1>8. ~files.done
  BY <1>1 DEF Resumable
<1>9. (\A e \in 1..Trials : Times(e) + Paid <= faults + Share(e))'
  <2>1. Paid \in 0..1 /\ Paid' \in 0..1
    BY DEF Paid
  <2>2. \A e \in 1..Trials : Times(e) + Paid <= faults
    BY <1>5, <1>7 DEF Resumable
  <2>3. \A e \in 1..Trials : Times(e) <= faults
    BY <1>5, <2>1, <2>2
  <2> QED  BY <1>1, <1>5, <1>7, <2>1, <2>3
<1> QED  BY <1>1, <1>3, <1>4, <1>5, <1>6, <1>8, <1>9 DEF Resumable

(* Started again, it has forgotten what it did after the checkpoint.  *)
LEMMA E7bResumes ==
  ASSUME Typed, Resumable, Resume
  PROVE  Resumable'
<1>1. UNCHANGED <<files, sent, faults>> /\ own'.halt = FALSE /\ out.how \in {"killed", "suspended"}
  BY DEF Resume, vars, OwnInit
<1>2. out'.how = "running" /\ d'.part = "pre" /\ d'.k = 1
  BY DEF Resume, Typed, DriverTyped, Position
<1>3. (\A e : Times(e)' = Times(e) /\ Times(e) \in Nat) /\ faults \in Nat
  BY <1>1, TimesSame, TimesTyped, LoopAssumption DEF Typed, LoopTyped
<1>4. \A e : (Handled(e)' <=> Handled(e)) /\ ~ThisLife(e)'
  BY <1>1, <1>2, <1>3 DEF Handled, ThisLife
<1>5. Paid = 1 /\ Paid' = 0 /\ \A e : Share(e) \in 0..1 /\ Share(e)' = 0
  BY <1>1, <1>2, <1>4 DEF Paid, Share
<1>6. (\A e \in 1..Trials : Times(e) + Paid <= faults + Share(e))'
  <2>1. \A e \in 1..Trials : Times(e) + 1 <= faults + Share(e)
    BY <1>5 DEF Resumable
  <2>2. \A e \in 1..Trials : Times(e) <= faults
    BY <1>3, <1>5, <2>1
  <2> QED  BY <1>1, <1>3, <1>5, <2>2
<1> QED  BY <1>1, <1>2, <1>3, <1>4, <1>6 DEF Resumable

(* From one part of the script to the next.  *)
LEMMA E7bTurns ==
  ASSUME Typed, Resumable, d.name = "e7b", Turn
  PROVE  Resumable'
<1>1. UNCHANGED <<files, sent, faults>> /\ out.how = "running" /\ d.k > Len(Ops)
  BY DEF Turn, vars
<1>2. own'.halt = own.halt
  BY DEF Turn, Typed, HandsTyped, Fields, OwnInit
<1>3. files.plan \in -2..Trials /\ files.ckpt \in -1..Trials /\ d.k \in Nat
  BY DEF Typed, HandsTyped, FileTypes, DriverTyped
<1>4. (\A e : Times(e)' = Times(e) /\ Times(e) \in Nat) /\ faults \in Nat
  BY <1>1, TimesSame, TimesTyped, LoopAssumption DEF Typed, LoopTyped
<1>5. \A e : Handled(e)' <=> Handled(e)
  BY <1>1, <1>4 DEF Handled
<1>6. PICK i \in 1..Trials : i = d.i
  BY DEF Typed, DriverTyped
<1>7. CASE d.part = "fin"
  <2>1. UNCHANGED <<own, d>> /\ out'.how \in {"raised", "ended"}
    BY <1>7 DEF Turn, Typed, DriverTyped
  <2>2. Paid' = Paid /\ Paid \in Nat
    BY <1>1, <2>1 DEF Paid
  <2>3. \A e \in 1..Trials : Len(sent[e]) \in Nat
    BY DEF Typed, HandsTyped
  <2> QED  BY <1>1, <1>4, <2>1, <2>2, <2>3, IdleKept
<1>8. CASE d.part # "fin"
  <2>1. out'.how = "running"
    BY <1>1, <1>8 DEF Turn
  <2>2. Paid' = Paid /\ Paid \in Nat
    BY <1>1, <1>2, <2>1 DEF Paid
  <2>3. files.plan >= 0 /\ d'.part # "pre" /\ ~(d'.part = "trial" /\ d'.k = 3)
        /\ \A e \in 1..Trials :
             ThisLife(e)' /\ (d'.part = "fin" => e <= files.plan) => Handled(e)
    <3>1. CASE d.part = "pre"
      <4>1. d.k > 2
        <5>1. Ops = e7b.pre /\ Len(e7b.pre) = 2
          BY <3>1, E7bScript DEF Ops, Mine
        <5> QED  BY <1>1, <5>1
      <4>2. files.ckpt >= 0 /\ files.plan >= 0
        BY <1>3, <3>1, <4>1 DEF Typed, DriverTyped, Resumable
      <4>3. \/ d'.part = "trial" /\ d'.i = files.ckpt + 1 /\ d'.k = 1
            \/ d'.part = "fin" /\ files.plan <= files.ckpt
        BY <1>3, <3>1 DEF Turn, FirstTrial, LastTrial, Position
      <4>4. \A e \in 1..Trials :
              ThisLife(e)' /\ (d'.part = "fin" => e <= files.plan) => e <= files.ckpt
        BY <1>3, <4>3 DEF ThisLife
      <4> QED  BY <1>3, <4>2, <4>3, <4>4 DEF Resumable
    <3>2. CASE d.part = "trial"
      <4>1. d.k > 4
        <5>1. Ops = e7b.trial /\ Len(e7b.trial) = 4
          BY <3>2, E7bScript DEF Ops, Mine
        <5> QED  BY <1>1, <5>1
      <4>2. \/ d'.part = "between" /\ d'.i = i
            \/ d'.part = "fin" /\ files.plan <= i
        BY <1>3, <1>6, <3>2 DEF Turn, AfterTrial, LastTrial, Position
      <4>3. \A e \in 1..Trials :
              ThisLife(e)' /\ (d'.part = "fin" => e <= files.plan) => ThisLife(e)
        BY <1>3, <1>6, <3>2, <4>1, <4>2 DEF ThisLife
      <4> QED  BY <3>2, <4>2, <4>3 DEF Resumable
    <3>3. CASE d.part = "between"
      <4>1. d'.part = "trial" /\ d'.i = i + 1 /\ d'.k = 1
        BY <1>6, <3>3 DEF Turn, Position
      <4>2. \A e \in 1..Trials : ThisLife(e)' => ThisLife(e)
        BY <1>6, <3>3, <4>1 DEF ThisLife
      <4> QED  BY <3>3, <4>1, <4>2 DEF Resumable
    <3> QED  BY <1>8, <3>1, <3>2, <3>3 DEF Turn
  <2>4. \A e \in 1..Trials : Times(e)' + Paid' <= faults' + Share(e)'
    <3>1. ASSUME NEW e \in 1..Trials
          PROVE  Share(e) <= Share(e)' /\ Share(e) \in 0..1 /\ Share(e)' \in 0..1
      <4>1. ThisLife(e) => ThisLife(e)'
        BY <1>3, <1>6, <1>8 DEF Turn, ThisLife, AfterTrial, LastTrial, Position
      <4> QED  BY <4>1 DEF Share
    <3> QED  BY <1>1, <1>4, <2>2, <3>1 DEF Resumable
  <2>5. (\A e \in 1..Trials : Times(e) <= Len(sent[e]))'
    BY <1>1, <1>4 DEF Resumable
  <2>6. files'.done => files'.plan >= 0 /\ \A e \in 1..files'.plan : Handled(e)'
    BY <1>1, <1>5 DEF Resumable
  <2> QED  BY <1>1, <1>5, <2>3, <2>4, <2>5, <2>6 DEF Resumable
<1> QED  BY <1>7, <1>8

LEMMA KeptInit == Init => Kept
<1> SUFFICES ASSUME Init
             PROVE  Kept
  OBVIOUS
<1>1. files = [plan |-> -1, ckpt |-> -1, gt |-> << >>, errs |-> {}, done |-> FALSE]
      /\ sent = [i \in 1..Trials |-> << >>] /\ out.how = "running" /\ own.halt = FALSE
      /\ d.part = "pre" /\ d.k = 1 /\ faults = 0
  <2>1. files = [plan |-> -1, ckpt |-> -1, gt |-> << >>, errs |-> {}, done |-> FALSE]
        /\ sent = [i \in 1..Trials |-> << >>]
        /\ out = [how |-> "running", raised |-> FALSE, noted |-> {}, lost |-> {}]
        /\ own = OwnInit /\ faults = 0
    BY Zenon DEF Init, LoopInit
  <2>2. d.part = "pre" /\ d.k = 1
    BY DEF Init
  <2> QED  BY <2>1, <2>2 DEF OwnInit
<1>2. \A e : Times(e) = 0
  <2>1. \A e : {n \in DOMAIN files.gt : files.gt[n] = e} = {}
    BY <1>1
  <2> QED  BY <2>1, FS_EmptySet DEF Times
<1>3. \A e : ~ThisLife(e) /\ Share(e) = 0
  BY <1>1 DEF ThisLife, Share
<1>4. Paid = 0
  BY <1>1 DEF Paid
<1>5. files.gt = << >> /\ ~files.done /\ files.ckpt = -1
  BY <1>1
<1>6. Resumable
  BY <1>1, <1>2, <1>3, <1>4, <1>5 DEF Resumable
<1> QED  BY <1>5, <1>6 DEF Kept

LEMMA KeptStep ==
  ASSUME Typed, Kept, [Next]_allVars
  PROVE  Kept'
<1>1. d'.name = d.name
  BY NameKept
<1>2. CASE d.name # "e7b"
  BY <1>1, <1>2, OthersKept DEF Kept
<1>3. CASE d.name = "e7b"
  <2>1. Resumable
    BY <1>3 DEF Kept
  <2>2. Kill => (Kill /\ UNCHANGED files) \/ files' # files
    OBVIOUS
  <2>3. Resumable'
    BY <1>3, <2>1, <2>2, E7bWorks, E7bFails, E7bStops, E7bCut, E7bResumes, E7bTurns, OthersResumable
       DEF Next
  <2> QED  BY <1>1, <1>3, <2>3 DEF Kept
<1> QED  BY <1>2, <1>3

LEMMA KeptHolds == Spec => []Kept
  BY TypedHolds, KeptInit, KeptStep, PTL DEF Spec

(* run_e7b, however often it is killed or told to stop, between any two of *)
(* packet, line and checkpoint, or with its plan half written: when it     *)
(* closes its ground truth every planned event is in it or reported as not *)
(* sent, no line is without its packet, and an event has no more lines     *)
(* than the driver had lives.                                              *)
THEOREM EventsKept == Spec => []ResumeComplete
<1>1. Typed /\ Kept => ResumeComplete
  <2> SUFFICES ASSUME Typed, Kept
               PROVE  ResumeComplete
    OBVIOUS
  <2>1. faults \in Nat /\ (\A e : Times(e) \in Nat) /\ \A e \in 1..Trials : Len(sent[e]) \in Nat
    BY TimesTyped, LoopAssumption DEF Typed, LoopTyped, HandsTyped
  <2>2. CASE d.name = "e7b"
    <3>1. Resumable
      BY <2>2 DEF Kept
    <3>2. \A e \in 1..Trials : Times(e) <= 1 + faults
      <4>1. Paid \in 0..1 /\ \A e : Share(e) \in 0..1
        BY DEF Paid, Share
      <4> QED  BY <2>1, <3>1, <4>1 DEF Resumable
    <3> QED  BY <3>1, <3>2 DEF Resumable, ResumeComplete, Handled
  <2>3. CASE d.name # "e7b"
    <3>1. files.gt = << >> /\ ~files.done
      BY <2>3 DEF Kept
    <3>2. \A e : Times(e) = 0
      <4>1. \A e : {n \in DOMAIN files.gt : files.gt[n] = e} = {}
        BY <3>1
      <4> QED  BY <4>1, FS_EmptySet DEF Times
    <3> QED  BY <2>1, <3>1, <3>2 DEF ResumeComplete
  <2> QED  BY <2>2, <2>3
<1> QED  BY <1>1, TypedHolds, KeptHolds, PTL

-----------------------------------------------------------------------------
(* A chart of a part of a script says of each position how many seconds    *)
(* the driver sleeps from there on until it signals the next reset, and -1 *)
(* where no reset follows.  A reset is signalled when there is none left,  *)
(* is followed by a sleep, and the next one comes 15 s later or more.      *)
AnyKind == LabOps \cup RunnerOps \cup FileOps \cup {"verdict"}
AnyOp == OpOf(AnyKind)
Strange == {"stop", "start", "send", "await_event"}
Arc(s, e, k) ==
  LET o == s[k]
      here == e[k]
      next == e[k + 1]
  IN
  /\ o.op \notin Strange /\ here >= -1
  /\ o.op = "usr1" =>
       /\ here = 0 /\ (next = -1 \/ next >= 15)
       /\ k < Len(s) /\ s[k + 1].op = "sleep" /\ s[k + 1].arg \in Nat \ {0}
  /\ o.op = "sleep" =>
       /\ o.arg \in Nat
       /\ (here = -1 /\ next = -1) \/ (next >= 0 /\ here = o.arg + next)
  /\ o.op \notin {"usr1", "sleep"} => next = here
  /\ o.op \in {"preflight", "finalize"} => here = -1
  /\ o.op \in {"emit", "join"} => here # 0
  /\ o.op = "emit" /\ here # -1 =>
       \/ k < Len(s) /\ s[k + 1].op = "join"
       \/ Len(o.arg) = 2 /\ o.arg[1] + o.arg[2] < here
IsChart(s, e) ==
  /\ e \in [1..(Len(s) + 1) -> Int]
  /\ \A k \in 1..Len(s) : Arc(s, e, k)
Charted(s, a, z) ==
  /\ s \in Seq(AnyOp)
  /\ \E e : IsChart(s, e) /\ e[1] = a /\ e[Len(s) + 1] = z

LEMMA ChartNil == ASSUME NEW a \in Int PROVE Charted(<< >>, a, a)
<1> DEFINE e == [k \in 1..1 |-> a]
<1>1. IsChart(<< >>, e) /\ e[1] = a
  BY DEF IsChart
<1> HIDE DEF e
<1> QED BY <1>1 DEF Charted

LEMMA ChartCat ==
  ASSUME NEW s, NEW t, NEW a, NEW b, NEW z, Charted(s, a, b), Charted(t, b, z)
  PROVE  Charted(s \o t, a, z)
<1>1. s \in Seq(AnyOp) /\ t \in Seq(AnyOp)
  BY DEF Charted
<1>2. PICK f : IsChart(s, f) /\ f[1] = a /\ f[Len(s) + 1] = b
  BY DEF Charted
<1>3. PICK g : IsChart(t, g) /\ g[1] = b /\ g[Len(t) + 1] = z
  BY DEF Charted
<1> DEFINE m == Len(s)
           n == Len(t)
           e == [k \in 1..(m + n + 1) |-> IF k <= m THEN f[k] ELSE g[k - m]]
<1>4. m \in Nat /\ n \in Nat /\ s \o t \in Seq(AnyOp) /\ Len(s \o t) = m + n
  BY <1>1
<1>5. /\ \A k \in 1..m : (s \o t)[k] = s[k]
      /\ \A k \in (m + 1)..(m + n) : (s \o t)[k] = t[k - m]
  BY <1>1
<1>6. f \in [1..(m + 1) -> Int] /\ g \in [1..(n + 1) -> Int] /\ b \in Int
  BY <1>2, <1>3, <1>4 DEF IsChart
<1>7. e \in [1..(m + n + 1) -> Int]
  BY <1>4, <1>6
<1>8. /\ \A k \in 1..(m + 1) : e[k] = f[k]
      /\ \A k \in (m + 1)..(m + n + 1) : e[k] = g[k - m]
  BY <1>2, <1>3, <1>4, <1>6
<1> HIDE DEF m, n, e
<1>9. ASSUME NEW k \in 1..m
      PROVE  Arc(s \o t, e, k)
  <2>1. Arc(s, f, k)
    BY <1>2, <1>9 DEF IsChart, m
  <2>2. k \in 1..(m + 1) /\ k + 1 \in 1..(m + 1) /\ (k < m => k + 1 \in 1..m /\ k < m + n)
    BY ONLY <1>4, <1>9
  <2>3. (s \o t)[k] = s[k] /\ e[k] = f[k] /\ e[k + 1] = f[k + 1]
    BY ONLY <1>5, <1>8, <1>9, <2>2, Zenon
  <2>4. k < m => k < Len(s \o t) /\ (s \o t)[k + 1] = s[k + 1]
    BY ONLY <1>4, <1>5, <2>2
  <2> QED BY ONLY <2>1, <2>3, <2>4 DEF Arc, m
<1>10. ASSUME NEW k \in (m + 1)..(m + n)
       PROVE  Arc(s \o t, e, k)
  <2>1. k - m \in 1..n /\ (k - m) + 1 = (k + 1) - m /\ k \in Int /\ m \in Int
    BY <1>4
  <2>2. Arc(t, g, k - m)
    BY <1>3, <2>1 DEF IsChart, n
  <2>3. /\ k \in (m + 1)..(m + n + 1) /\ k + 1 \in (m + 1)..(m + n + 1)
        /\ k - m < n => k + 1 \in (m + 1)..(m + n) /\ k < m + n
    BY ONLY <1>4, <1>10
  <2>4. (s \o t)[k] = t[k - m] /\ e[k] = g[k - m]
    BY ONLY <1>5, <1>8, <1>10, <2>3, Zenon
  <2>5. e[k + 1] = g[(k - m) + 1]
    BY ONLY <1>8, <2>1, <2>3
  <2>6. k - m < n => k < Len(s \o t) /\ (s \o t)[k + 1] = t[(k - m) + 1]
    BY ONLY <1>4, <1>5, <2>1, <2>3
  <2> QED BY ONLY <2>2, <2>4, <2>5, <2>6 DEF Arc, n
<1>11. \A k \in 1..Len(s \o t) : Arc(s \o t, e, k)
  BY <1>4, <1>9, <1>10
<1>12. IsChart(s \o t, e)
  BY <1>4, <1>7, <1>11 DEF IsChart
<1>13. e[1] = a /\ e[Len(s \o t) + 1] = z
  BY <1>2, <1>3, <1>4, <1>8 DEF m, n
<1> QED BY <1>4, <1>12, <1>13 DEF Charted

(* The charts of the pieces that scripts are made of.                      *)
Calls == {"ship", "offset", "end", "tail", "range", "window", "plan", "truth", "truth_or_plan",
          "shared", "merge", "snapshot", "begin", "finish", "postflight", "poll", "usr2", "corrupt",
          "push", "sign", "unbackup", "tamper", "untamper", "fetch", "refusal", "verdict"}
Slacks == Nat \cup {-1}

LEMMA OneOp ==
  ASSUME NEW what \in AnyKind, NEW arg \in Nat \cup Seq(Nat), NEW err \in Outcomes
  PROVE  /\ Op(what, arg, err) \in Seq(AnyOp) /\ Len(Op(what, arg, err)) = 1
         /\ Op(what, arg, err)[1] = [op |-> what, arg |-> arg, err |-> err]
<1> DEFINE o == [op |-> what, arg |-> arg, err |-> err]
<1>1. o \in AnyOp
  BY DEF AnyOp, OpOf
<1> HIDE DEF o
<1>2. <<o>> \in Seq(AnyOp) /\ Len(<<o>>) = 1 /\ <<o>>[1] = o
  BY <1>1
<1> QED BY <1>2 DEF Op, o

LEMMA SecondAt ==
  ASSUME NEW s \in Seq(AnyOp), NEW t \in Seq(AnyOp)
  PROVE  \A k \in (Len(s) + 1)..(Len(s) + Len(t)) : (s \o t)[k] = t[k - Len(s)]
  OBVIOUS

LEMMA TwoOps ==
  ASSUME NEW s \in Seq(AnyOp), NEW t \in Seq(AnyOp), Len(s) = 1, Len(t) = 1
  PROVE  /\ s \o t \in Seq(AnyOp) /\ Len(s \o t) = 2
         /\ (s \o t)[1] = s[1] /\ (s \o t)[2] = t[1]
<1>1. s \o t \in Seq(AnyOp) /\ Len(s \o t) = 2
  OBVIOUS
<1>2. (s \o t)[1] = s[1]
  OBVIOUS
<1>3. (s \o t)[2] = t[1]
  <2>1. 2 \in (Len(s) + 1)..(Len(s) + Len(t)) /\ 2 - Len(s) = 1
    OBVIOUS
  <2>2. \A k \in (Len(s) + 1)..(Len(s) + Len(t)) : (s \o t)[k] = t[k - Len(s)]
    BY SecondAt
  <2> QED BY ONLY <2>1, <2>2
<1> QED BY <1>1, <1>2, <1>3

LEMMA SomeKinds ==
  /\ Calls \subseteq AnyKind
  /\ {"usr1", "sleep", "emit", "join", "preflight", "finalize"} \subseteq AnyKind
  /\ "none" \in Outcomes /\ "raise" \in Outcomes
  BY DEF Calls, AnyKind, LabOps, RunnerOps, Outcomes

LEMMA ChartOp ==
  ASSUME NEW what \in Calls, NEW n \in Nat, NEW err \in Outcomes, NEW a \in Slacks
  PROVE  Charted(Op(what, n, err), a, a)
<1> DEFINE s == Op(what, n, err)
           e == [k \in 1..2 |-> a]
<1>1. s \in Seq(AnyOp) /\ Len(s) = 1 /\ s[1] = [op |-> what, arg |-> n, err |-> err]
  BY OneOp, SomeKinds
<1>2. e \in [1..(Len(s) + 1) -> Int] /\ e[1] = a /\ e[2] = a /\ a >= -1
  BY <1>1 DEF Slacks
<1>3. what \notin Strange \cup {"usr1", "sleep", "preflight", "finalize", "emit", "join"}
  BY DEF Calls, Strange
<1> HIDE DEF s, e
<1>4. Arc(s, e, 1)
  BY ONLY <1>1, <1>2, <1>3 DEF Arc
<1> QED BY <1>1, <1>2, <1>4 DEF Charted, IsChart, s

LEMMA ChartDo ==
  ASSUME NEW what \in Calls, NEW err \in Outcomes, NEW a \in Slacks
  PROVE  Charted(Do(what, err), a, a)
  BY ChartOp DEF Do

LEMMA ChartLate ==
  ASSUME NEW what \in {"preflight", "finalize"}, NEW err \in Outcomes
  PROVE  Charted(Do(what, err), -1, -1)
<1> DEFINE s == Do(what, err)
           e == [k \in 1..2 |-> -1]
<1>1. s \in Seq(AnyOp) /\ Len(s) = 1 /\ s[1] = [op |-> what, arg |-> 0, err |-> err]
  BY OneOp, SomeKinds DEF Do
<1>2. e \in [1..(Len(s) + 1) -> Int] /\ e[1] = -1 /\ e[2] = -1
  BY <1>1
<1> HIDE DEF s, e
<1>3. Arc(s, e, 1)
  BY ONLY <1>1, <1>2 DEF Arc, Strange
<1> QED BY <1>1, <1>2, <1>3 DEF Charted, IsChart, s

LEMMA ChartSleep ==
  ASSUME NEW n \in Nat
  PROVE  Charted(Sleep(n), -1, -1) /\ \A z \in Nat : Charted(Sleep(n), n + z, z)
<1>1. ASSUME NEW a \in Slacks, NEW z \in Slacks, (a = -1 /\ z = -1) \/ (z \in Nat /\ a = n + z)
      PROVE  Charted(Sleep(n), a, z)
  <2> DEFINE s == Sleep(n)
             e == [k \in 1..2 |-> IF k = 1 THEN a ELSE z]
  <2>1. s \in Seq(AnyOp) /\ Len(s) = 1 /\ s[1] = [op |-> "sleep", arg |-> n, err |-> "none"]
    BY OneOp, SomeKinds DEF Sleep
  <2>2. e \in [1..(Len(s) + 1) -> Int] /\ e[1] = a /\ e[2] = z /\ a >= -1
    BY <2>1 DEF Slacks
  <2> HIDE DEF s, e
  <2>3. Arc(s, e, 1)
    BY ONLY <1>1, <2>1, <2>2 DEF Arc, Strange
  <2> QED BY <2>1, <2>2, <2>3 DEF Charted, IsChart, s
<1> QED BY <1>1 DEF Slacks

LEMMA ChartReset ==
  ASSUME NEW n \in Nat \ {0}, NEW err \in Outcomes
  PROVE  /\ Charted(Do("usr1", err) \o Sleep(n), 0, -1)
         /\ \A z \in Nat : n + z >= 15 => Charted(Do("usr1", err) \o Sleep(n), 0, z)
<1>1. ASSUME NEW b \in Slacks, NEW z \in Slacks,
             (b = -1 /\ z = -1) \/ (z \in Nat /\ b = n + z /\ b >= 15)
      PROVE  Charted(Do("usr1", err) \o Sleep(n), 0, z)
  <2> DEFINE s == Do("usr1", err) \o Sleep(n)
             e == [k \in 1..3 |-> IF k = 1 THEN 0 ELSE IF k = 2 THEN b ELSE z]
  <2>1. s \in Seq(AnyOp) /\ Len(s) = 2 /\ s[1] = [op |-> "usr1", arg |-> 0, err |-> err]
        /\ s[2] = [op |-> "sleep", arg |-> n, err |-> "none"]
    <3>1. Do("usr1", err) \in Seq(AnyOp) /\ Len(Do("usr1", err)) = 1
          /\ Do("usr1", err)[1] = [op |-> "usr1", arg |-> 0, err |-> err]
      BY OneOp, SomeKinds DEF Do
    <3>2. Sleep(n) \in Seq(AnyOp) /\ Len(Sleep(n)) = 1
          /\ Sleep(n)[1] = [op |-> "sleep", arg |-> n, err |-> "none"]
      BY OneOp, SomeKinds DEF Sleep
    <3> QED BY <3>1, <3>2, TwoOps
  <2>2. e \in [1..(Len(s) + 1) -> Int] /\ e[1] = 0 /\ e[2] = b /\ e[3] = z /\ b >= -1
    BY <2>1 DEF Slacks
  <2> HIDE DEF s, e
  <2>3. Arc(s, e, 1)
    BY ONLY <1>1, <2>1, <2>2 DEF Arc, Strange
  <2>4. Arc(s, e, 2)
    BY ONLY <1>1, <2>1, <2>2 DEF Arc, Strange
  <2>5. IsChart(s, e)
    BY <2>1, <2>2, <2>3, <2>4 DEF IsChart
  <2> QED BY <2>1, <2>2, <2>5 DEF Charted, s
<1> QED BY <1>1 DEF Slacks

LEMMA ChartEmit ==
  ASSUME NEW gaps \in Seq(Nat), NEW err \in Outcomes, NEW a \in Slacks \ {0}
  PROVE  Charted(Emit(gaps, err), a, a)
<1> DEFINE s == Emit(gaps, err)
           e == [k \in 1..3 |-> a]
<1>1. s \in Seq(AnyOp) /\ Len(s) = 2 /\ s[1] = [op |-> "emit", arg |-> gaps, err |-> err]
      /\ s[2] = [op |-> "join", arg |-> 0, err |-> "none"]
  <2>1. Op("emit", gaps, err) \in Seq(AnyOp) /\ Len(Op("emit", gaps, err)) = 1
        /\ Op("emit", gaps, err)[1] = [op |-> "emit", arg |-> gaps, err |-> err]
    <3>1. "emit" \in AnyKind /\ gaps \in Nat \cup Seq(Nat)
      BY SomeKinds
    <3> QED BY ONLY <3>1, err \in Outcomes, OneOp
  <2>2. Do("join", "none") \in Seq(AnyOp) /\ Len(Do("join", "none")) = 1
        /\ Do("join", "none")[1] = [op |-> "join", arg |-> 0, err |-> "none"]
    BY OneOp, SomeKinds DEF Do
  <2> QED BY <2>1, <2>2, TwoOps DEF Emit
<1>2. e \in [1..(Len(s) + 1) -> Int] /\ e[1] = a /\ e[2] = a /\ e[3] = a /\ a >= -1 /\ a # 0
  BY <1>1 DEF Slacks
<1> HIDE DEF s, e
<1>3. Arc(s, e, 1)
  BY ONLY <1>1, <1>2 DEF Arc, Strange
<1>4. Arc(s, e, 2)
  BY ONLY <1>1, <1>2 DEF Arc, Strange
<1> QED BY <1>1, <1>2, <1>3, <1>4 DEF Charted, IsChart, s

(* run_e12b does not wait for its benign traffic to end.                   *)
Within(gaps, a) == Len(gaps) = 2 /\ gaps[1] + gaps[2] < a
LEMMA ChartPhase ==
  ASSUME NEW gaps \in Seq(Nat), NEW a \in Nat \ {0}, Within(gaps, a)
  PROVE  Charted(Op("emit", gaps, "raise"), a, a)
<1> DEFINE s == Op("emit", gaps, "raise")
           e == [k \in 1..2 |-> a]
<1>1. s \in Seq(AnyOp) /\ Len(s) = 1 /\ s[1] = [op |-> "emit", arg |-> gaps, err |-> "raise"]
  <2>1. "emit" \in AnyKind /\ gaps \in Nat \cup Seq(Nat) /\ "raise" \in Outcomes
    BY SomeKinds
  <2> QED BY ONLY <2>1, OneOp
<1>2. e \in [1..(Len(s) + 1) -> Int] /\ e[1] = a /\ e[2] = a /\ a # 0 /\ a >= -1
  BY <1>1
<1> HIDE DEF s, e
<1>3. Arc(s, e, 1)
  BY ONLY <1>1, <1>2, Within(gaps, a) DEF Arc, Strange, Within
<1>4. IsChart(s, e)
  BY <1>1, <1>2, <1>3 DEF IsChart
<1>5. Charted(s, a, a)
  BY ONLY <1>1, <1>2, <1>4 DEF Charted
<1> QED BY <1>5 DEF s

(* The charts of the four parts of a script, and how they join.            *)
Linked(x, c) ==
  /\ \A part \in Parts : x[part] \in Seq(AnyOp) /\ IsChart(x[part], c[part])
  /\ LET first(part) == c[part][1]
         last(part) == c[part][Len(x[part]) + 1]
     IN /\ x.trials = 0 => last("pre") = first("fin")
        /\ x.trials > 0 => last("pre") = first("trial")
        /\ first("fin") \in {-1, last("trial")}
        /\ x.trials > 1 => last("trial") = first("between") /\ last("between") = first("trial")
        /\ first("pre") >= -1
  /\ ~x.finally
LEMMA LinkedUp ==
  ASSUME NEW x, NEW p0, NEW p1, NEW t0, NEW t1, NEW b0, NEW b1, NEW f0, NEW f1,
         Charted(x.pre, p0, p1), Charted(x.trial, t0, t1),
         Charted(x.between, b0, b1), Charted(x.fin, f0, f1),
         x.trials = 0 => p1 = f0, x.trials > 0 => p1 = t0, f0 \in {-1, t1},
         x.trials > 1 => t1 = b0 /\ b1 = t0, p0 >= -1, ~x.finally
  PROVE  \E c : Linked(x, c)
<1>1. PICK p : IsChart(x.pre, p) /\ p[1] = p0 /\ p[Len(x.pre) + 1] = p1
  BY DEF Charted
<1>2. PICK t : IsChart(x.trial, t) /\ t[1] = t0 /\ t[Len(x.trial) + 1] = t1
  BY DEF Charted
<1>3. PICK b : IsChart(x.between, b) /\ b[1] = b0 /\ b[Len(x.between) + 1] = b1
  BY DEF Charted
<1>4. PICK f : IsChart(x.fin, f) /\ f[1] = f0 /\ f[Len(x.fin) + 1] = f1
  BY DEF Charted
<1> DEFINE c == [pre |-> p, trial |-> t, between |-> b, fin |-> f]
<1>5. x.pre \in Seq(AnyOp) /\ x.trial \in Seq(AnyOp) /\ x.between \in Seq(AnyOp) /\ x.fin \in Seq(AnyOp)
  BY DEF Charted
<1>6. c["pre"] = p /\ c["trial"] = t /\ c["between"] = b /\ c["fin"] = f
  OBVIOUS
<1> HIDE DEF c
<1>7. \A part \in Parts : x[part] \in Seq(AnyOp) /\ IsChart(x[part], c[part])
  BY ONLY <1>1, <1>2, <1>3, <1>4, <1>5, <1>6, Zenon DEF Parts
<1>8. Linked(x, c)
  BY <1>1, <1>2, <1>3, <1>4, <1>6, <1>7 DEF Linked
<1> QED BY <1>8

(* Each driver that resets the controller has a route: a chart of its      *)
(* whole script.                                                           *)
Resetters == {"sweep", "e12b", "e22", "t1_5", "t1_6", "runner_cli", "t2_2", "t2_4", "t2_5", "t2_6",
              "t2_8", "state_check", "state_check_slow", "preflight_e12b"}

LEMMA Asleep ==
  ASSUME NEW n \in Nat, NEW a \in Slacks, NEW z \in Slacks,
         (a = -1 /\ z = -1) \/ (z # -1 /\ a = n + z)
  PROVE  Charted(Sleep(n), a, z)
  BY ChartSleep DEF Slacks
LEMMA ResetAt ==
  ASSUME NEW n \in Nat \ {0}, NEW err \in Outcomes, NEW z \in Slacks, z = -1 \/ n + z >= 15
  PROVE  Charted(Do("usr1", err) \o Sleep(n), 0, z)
  BY ChartReset DEF Slacks
LEMMA BurstAt ==
  ASSUME NEW err \in Outcomes, NEW a \in Slacks \ {0}
  PROVE  Charted(Emit(Burst, err), a, a)
  BY ChartEmit, DriversAssumption

LEMMA RouteSweep == \E c : Linked(sweep, c)
<1> USE DEF Slacks, Outcomes
<1>1. Charted(Do("usr1", "blind") \o Sleep(15), 0, 80)
  BY ResetAt
<1>2. Charted(Do("ship", "raise"), 80, 80) /\ Charted(Do("offset", "raise"), 80, 80)
  BY ChartDo DEF Calls
<1>3. Charted(Emit(Burst, "raise"), 80, 80)
  BY BurstAt
<1>4. Charted(Sleep(10), 80, 70) /\ Charted(Sleep(70), 70, 0)
  BY Asleep
<1>5. Charted(Do("tail", "raise"), 70, 70) /\ Charted(Do("truth", "raise"), 70, 70)
  BY ChartDo DEF Calls
<1>6. Charted(sweep_trial, 0, 70)
  BY ONLY <1>1, <1>2, <1>3, <1>4, <1>5, ChartCat DEF sweep_trial
<1>7. Charted(<< >>, 0, 0) /\ Charted(<< >>, -1, -1)
  BY ChartNil
<1>8. /\ sweep.pre = << >> /\ sweep.trial = sweep_trial /\ sweep.between = Sleep(70)
      /\ sweep.fin = << >> /\ sweep.trials = 2 /\ sweep.finally = FALSE
  BY DEF sweep, Plain, Trials
<1>9. /\ Charted(sweep.pre, 0, 0) /\ Charted(sweep.trial, 0, 70)
      /\ Charted(sweep.between, 70, 0) /\ Charted(sweep.fin, -1, -1)
      /\ sweep.trials = 2 /\ ~sweep.finally
  BY <1>4, <1>6, <1>7, <1>8
<1> QED BY ONLY <1>9, LinkedUp

LEMMA CatAssoc ==
  ASSUME NEW r \in Seq(AnyOp), NEW s \in Seq(AnyOp), NEW t \in Seq(AnyOp)
  PROVE  (r \o s) \o t = r \o (s \o t)
  BY ConcatAssociative

LEMMA HarnessAt ==
  ASSUME NEW ship, NEW n \in Nat, NEW a \in Slacks \ {0}, NEW z \in Slacks, Charted(ship, a, a),
         (a = -1 /\ z = -1) \/ (z # -1 /\ a = n + z)
  PROVE  Charted(Harness(ship, n), a, z)
<1>1. Charted(Do("offset", "note"), a, a) /\ Charted(Do("end", "note"), z, z)
      /\ Charted(Do("range", "raise"), z, z)
  BY ChartDo DEF Calls, Outcomes
<1>2. Charted(Emit(Burst, "note"), a, a) /\ Charted(Sleep(n), a, z)
  BY BurstAt, Asleep DEF Outcomes
<1> QED BY ONLY <1>1, <1>2, Charted(ship, a, a), ChartCat DEF Harness

LEMMA RouteE12bTrial == Charted(e12b_trial, 0, 70)
<1> USE DEF Slacks, Outcomes
<1>1. PhaseB = 883 /\ PhaseB - 3 = 880
  BY DEF PhaseB
<1>2. Charted(Do("ship", "raise"), 0, 0)
  BY ChartDo DEF Calls
<1>3. Charted(Do("usr1", "raise") \o Sleep(4), 0, 968)
  BY ResetAt
<1>4. /\ Charted(Do("ship", "raise"), 968, 968) /\ Charted(Do("offset", "raise"), 968, 968)
      /\ Charted(Do("snapshot", "raise"), 968, 968)
  BY ChartDo DEF Calls
<1>5. Charted(Op("emit", <<3, PhaseB - 3>>, "raise"), 968, 968)
  <2>1. PICK gaps : gaps = <<3, 880>>
    OBVIOUS
  <2>2. gaps \in Seq(Nat) /\ Within(gaps, 968)
    BY <2>1 DEF Within
  <2>3. Charted(Op("emit", gaps, "raise"), 968, 968)
    BY <2>2, ChartPhase
  <2> QED BY ONLY <1>1, <2>1, <2>3
<1>6. Charted(Sleep(PhaseB), 968, 85) /\ Charted(Sleep(5), 85, 80) /\ Charted(Sleep(10), 80, 70)
  BY <1>1, Asleep
<1>7. Charted(Do("corrupt", "raise"), 85, 85) /\ Charted(Do("unbackup", "raise"), 80, 80)
  BY ChartDo DEF Calls
<1>8. Charted(Op("poll", 600, "blind"), 80, 80)
  BY ChartOp DEF Calls
<1>9. Charted(Do("tail", "raise"), 70, 70) /\ Charted(Do("truth", "raise"), 70, 70)
  BY ChartDo DEF Calls
<1>10. Charted(assert_signed_at_startup \o Do("usr1", "raise") \o Sleep(4), 0, 968)
  <2>1. /\ assert_signed_at_startup \in Seq(AnyOp) /\ Do("usr1", "raise") \in Seq(AnyOp)
        /\ Sleep(4) \in Seq(AnyOp)
    <3> HIDE DEF Outcomes
    <3>1. \A what \in {"ship", "usr1"} : Op(what, 0, "raise") \in Seq(AnyOp)
      BY OneOp, SomeKinds DEF Calls
    <3>2. Op("sleep", 4, "none") \in Seq(AnyOp)
      BY OneOp, SomeKinds
    <3> QED BY <3>1, <3>2 DEF assert_signed_at_startup, Do, Sleep
  <2>2. Charted(assert_signed_at_startup \o (Do("usr1", "raise") \o Sleep(4)), 0, 968)
    BY ONLY <1>2, <1>3, ChartCat DEF assert_signed_at_startup
  <2> QED BY <2>1, <2>2, CatAssoc
<1> QED
  BY ONLY <1>4, <1>5, <1>6, <1>7, <1>8, <1>9, <1>10, ChartCat DEF e12b_trial

LEMMA RouteE12b == \E c : Linked(e12b, c)
<1> USE DEF Slacks, Outcomes
<1>1. Charted(e12b_trial, 0, 70)
  BY RouteE12bTrial
<1>2. Charted(Sleep(70), 70, 0)
  BY Asleep
<1>3. /\ e12b.pre = << >>
      /\ e12b.trial = e12b_trial
      /\ e12b.between = Sleep(70)
      /\ e12b.fin = << >>
      /\ e12b.trials = 2 /\ e12b.finally = FALSE
  BY DEF e12b, Plain, Trials
<1>4. /\ Charted(e12b.pre, 0, 0)
      /\ Charted(e12b.trial, 0, 70)
      /\ Charted(e12b.between, 70, 0)
      /\ Charted(e12b.fin, -1, -1)
      /\ e12b.trials = 2 /\ ~e12b.finally
  BY <1>1, <1>2, <1>3, ChartNil
<1> QED BY ONLY <1>4, LinkedUp

LEMMA RouteE22 == \E c : Linked(e22, c)
<1> USE DEF Slacks, Outcomes
<1>1. /\ Charted(Do("push", "raise"), 8, 8)
      /\ Charted(Do("sign", "raise"), 8, 8)
      /\ Charted(Do("plan", "none"), 5, 5)
      /\ Charted(Do("offset", "raise"), 5, 5)
      /\ Charted(Do("ship", "raise"), 5, 5)
      /\ Charted(Do("ship", "raise"), 90, 90)
      /\ Charted(Do("tail", "raise"), 75, 75)
  BY ChartDo DEF Calls
<1>2. /\ Charted(Sleep(8), 8, 0)
      /\ Charted(Sleep(5), 5, 0)
      /\ Charted(Sleep(5), 90, 85)
      /\ Charted(Sleep(10), 85, 75)
      /\ Charted(Sleep(70), 75, 5)
  BY Asleep
<1>3. /\ Charted(Emit(<<0>>, "raise"), 5, 5)
      /\ Charted(Emit(<<0>>, "raise"), 90, 90)
  <2>0. <<0>> \in Seq(Nat)
    OBVIOUS
  <2>1. PICK gaps \in Seq(Nat) : gaps = <<0>>
    BY <2>0
  <2>2. Charted(Emit(gaps, "raise"), 5, 5) /\ Charted(Emit(gaps, "raise"), 90, 90)
    BY ChartEmit
  <2> QED BY ONLY <2>1, <2>2
<1>4. /\ Charted(reset_detector_state, 0, 5)
      /\ Charted(reset_detector_state, 0, 90)
  BY ResetAt DEF reset_detector_state
<1>5. /\ Charted(install_rat, 8, 0)
      /\ Charted(e22_event, 5, 0)
      /\ Charted(e22_event, 90, 85)
  BY ONLY <1>1, <1>2, <1>3, ChartCat DEF install_rat, e22_event
<1>6. Charted(install_rat \o reset_detector_state, 8, 5)
  BY ONLY <1>4, <1>5, ChartCat
<1>7. Charted(e22.trial, 5, 75)
  BY ONLY <1>1, <1>2, <1>4, <1>5, ChartCat, SettledTrial
<1>8. /\ e22.pre = install_rat \o reset_detector_state
      /\ e22.between = Sleep(70)
      /\ e22.fin = << >>
      /\ e22.trials = 2 /\ e22.finally = FALSE
  BY DEF e22, E22, Plain, Trials
<1>9. /\ Charted(e22.pre, 8, 5) /\ Charted(e22.trial, 5, 75)
      /\ Charted(e22.between, 75, 5)
      /\ Charted(e22.fin, -1, -1)
      /\ e22.trials = 2 /\ ~e22.finally
  BY <1>1, <1>2, <1>3, <1>4, <1>5, <1>6, <1>7, <1>8, ChartNil
<1> QED BY ONLY <1>9, LinkedUp

LEMMA RouteT15 == \E c : Linked(t1_5, c)
<1> USE DEF Slacks, Outcomes
<1>1. /\ Charted(Do("ship", "raise"), -1, -1)
      /\ Charted(Do("truth", "blind"), -1, -1)
      /\ Charted(Do("window", "raise"), -1, -1)
  BY ChartDo DEF Calls
<1>2. Charted(Sleep(4), -1, -1)
  BY Asleep
<1>3. Charted(Emit(Burst, "raise"), -1, -1)
  BY BurstAt
<1>4. Charted(run_burst, -1, -1)
  BY ONLY <1>1, <1>3, ChartCat DEF run_burst
<1>5. Charted(reset_controller_state(3), 0, -1)
  BY ResetAt DEF reset_controller_state
<1>6. Charted(t1_5.trial, 0, -1)
  BY ONLY <1>1, <1>2, <1>4, <1>5, ChartCat DEF t1_5, Plain
<1>7. /\ t1_5.pre = << >>
      /\ t1_5.between = << >>
      /\ t1_5.fin = << >>
      /\ t1_5.trials = 1 /\ t1_5.finally = FALSE
  BY DEF t1_5, Plain, Trials
<1>8. /\ Charted(t1_5.pre, 0, 0) /\ Charted(t1_5.trial, 0, -1)
      /\ Charted(t1_5.between, -1, -1)
      /\ Charted(t1_5.fin, -1, -1)
      /\ t1_5.trials = 1 /\ ~t1_5.finally
  BY <1>1, <1>2, <1>3, <1>4, <1>5, <1>6, <1>7, ChartNil
<1> QED BY ONLY <1>8, LinkedUp

LEMMA RouteT16 == \E c : Linked(t1_6, c)
<1> USE DEF Slacks, Outcomes
<1>1. /\ Charted(Do("ship", "raise"), 0, 0)
      /\ Charted(Do("ship", "note"), -1, -1)
      /\ Charted(Do("begin", "none"), -1, -1)
      /\ Charted(Do("finish", "none"), -1, -1)
      /\ Charted(Do("truth", "note"), -1, -1)
      /\ Charted(Do("postflight", "none"), -1, -1)
  BY ChartDo DEF Calls
<1>2. /\ Charted(Do("preflight", "none"), -1, -1)
      /\ Charted(Do("finalize", "none"), -1, -1)
  BY ChartLate
<1>3. Charted(run_r6_poison_on_vision, -1, -1)
  <2>0. <<0, 60>> \in Seq(Nat)
    OBVIOUS
  <2>1. PICK gaps \in Seq(Nat) : gaps = <<0, 60>>
    BY <2>0
  <2>2. Charted(Emit(gaps, "note"), -1, -1)
    BY ChartEmit
  <2> QED BY ONLY <2>1, <2>2 DEF run_r6_poison_on_vision
<1>4. Charted(reset_controller_state(3), 0, -1)
  BY ResetAt DEF reset_controller_state
<1>5. Charted(run_trial(Do("ship", "note"), "none", run_r6_poison_on_vision), -1, -1)
  BY ONLY <1>1, <1>2, <1>3, ChartCat DEF run_trial
<1>6. Charted(t1_6.trial, 0, -1)
  BY ONLY <1>1, <1>2, <1>4, <1>5, ChartCat DEF t1_6, Plain, dump_r6_register
<1>7. /\ t1_6.pre = << >>
      /\ t1_6.between = << >>
      /\ t1_6.fin = << >>
      /\ t1_6.trials = 1 /\ t1_6.finally = FALSE
  BY DEF t1_6, Plain, Trials
<1>8. /\ Charted(t1_6.pre, 0, 0) /\ Charted(t1_6.trial, 0, -1)
      /\ Charted(t1_6.between, -1, -1)
      /\ Charted(t1_6.fin, -1, -1)
      /\ t1_6.trials = 1 /\ ~t1_6.finally
  BY <1>1, <1>2, <1>3, <1>4, <1>5, <1>6, <1>7, ChartNil
<1> QED BY ONLY <1>8, LinkedUp

LEMMA RouteCli == \E c : Linked(runner_cli, c)
<1> USE DEF Slacks, Outcomes
<1>1. /\ Charted(Do("begin", "none"), -1, -1)
      /\ Charted(Do("finish", "none"), -1, -1)
      /\ Charted(Do("postflight", "none"), -1, -1)
  BY ChartDo DEF Calls
<1>2. /\ Charted(Do("preflight", "raise"), -1, -1)
      /\ Charted(Do("finalize", "none"), -1, -1)
  BY ChartLate
<1>3. Charted(fake_scenario, -1, -1)
  BY Asleep, DriversAssumption DEF fake_scenario
<1>4. Charted(Do("usr1", "blind") \o Sleep(4), 0, -1)
  BY ResetAt
<1>5. Charted(run_trial(Do("usr1", "blind") \o Sleep(4), "raise", fake_scenario), 0, -1)
  BY ONLY <1>1, <1>2, <1>3, <1>4, ChartCat DEF run_trial
<1>6. Charted(runner_cli.trial, 0, -1)
  BY ONLY <1>1, <1>2, <1>5, ChartCat DEF runner_cli, Plain
<1>7. /\ runner_cli.pre = << >>
      /\ runner_cli.between = << >>
      /\ runner_cli.fin = << >>
      /\ runner_cli.trials = 1 /\ runner_cli.finally = FALSE
  BY DEF runner_cli, Plain, Trials
<1>8. /\ Charted(runner_cli.pre, 0, 0) /\ Charted(runner_cli.trial, 0, -1)
      /\ Charted(runner_cli.between, -1, -1)
      /\ Charted(runner_cli.fin, -1, -1)
      /\ runner_cli.trials = 1 /\ ~runner_cli.finally
  BY <1>1, <1>2, <1>3, <1>4, <1>5, <1>6, <1>7, ChartNil
<1> QED BY ONLY <1>8, LinkedUp

LEMMA RouteT22 == \E c : Linked(t2_2, c)
<1> USE DEF Slacks, Outcomes
<1>1. /\ Charted(Do("ship", "note"), 84, 84)
      /\ Charted(Do("truth_or_plan", "note"), 72, 72)
  BY ChartDo DEF Calls
<1>2. Charted(Sleep(72), 72, 0)
  BY Asleep
<1>3. Charted(Harness(<< >>, 12), 84, 72)
  BY ChartNil, HarnessAt
<1>4. Charted(reset_controller_state(13), 0, 84)
  BY ResetAt DEF reset_controller_state
<1>5. Charted(t2_2_trial, 0, 72)
  BY ONLY <1>1, <1>3, <1>4, ChartCat DEF t2_2_trial, preseed_r1_on_switch
<1>6. /\ t2_2.pre = << >>
      /\ t2_2.trial = t2_2_trial
      /\ t2_2.between = Sleep(72)
      /\ t2_2.fin = << >>
      /\ t2_2.trials = 2 /\ t2_2.finally = FALSE
  BY DEF t2_2, Plain, Trials
<1>7. /\ Charted(t2_2.pre, 0, 0)
      /\ Charted(t2_2.trial, 0, 72)
      /\ Charted(t2_2.between, 72, 0)
      /\ Charted(t2_2.fin, -1, -1)
      /\ t2_2.trials = 2 /\ ~t2_2.finally
  BY <1>1, <1>2, <1>3, <1>4, <1>5, <1>6, ChartNil
<1> QED BY ONLY <1>7, LinkedUp

LEMMA RouteT24 == \E c : Linked(t2_4, c)
<1> USE DEF Slacks, Outcomes
<1>1. /\ Charted(Do("plan", "none"), 0, 0)
      /\ Charted(Do("ship", "raise"), 15, 15)
  BY ChartDo DEF Calls
<1>2. Charted(Harness(Do("ship", "raise"), 15), 15, 0)
  BY <1>1, HarnessAt
<1>3. Charted(reset_controller_state(10), 0, 15)
  BY ResetAt DEF reset_controller_state
<1>4. Charted(t2_4.trial, 0, 0)
  BY ONLY <1>1, <1>2, <1>3, ChartCat DEF t2_4, Plain
<1>5. /\ t2_4.pre = << >>
      /\ t2_4.between = << >>
      /\ t2_4.fin = << >>
      /\ t2_4.trials = 2 /\ t2_4.finally = FALSE
  BY DEF t2_4, Plain, Trials
<1>6. /\ Charted(t2_4.pre, 0, 0) /\ Charted(t2_4.trial, 0, 0)
      /\ Charted(t2_4.between, 0, 0)
      /\ Charted(t2_4.fin, -1, -1)
      /\ t2_4.trials = 2 /\ ~t2_4.finally
  BY <1>1, <1>2, <1>3, <1>4, <1>5, ChartNil
<1> QED BY ONLY <1>6, LinkedUp

LEMMA RouteT25 == \E c : Linked(t2_5, c)
<1> USE DEF Slacks, Outcomes
<1>1. /\ Charted(Do("plan", "none"), 0, 0)
      /\ Charted(Do("ship", "raise"), 10, 10)
      /\ Charted(Do("merge", "none"), -1, -1)
      /\ Charted(Do("offset", "note"), 10, 10)
      /\ Charted(Do("shared", "note"), 10, 10)
      /\ Charted(Do("end", "note"), 0, 0)
      /\ Charted(Do("range", "raise"), 0, 0)
      /\ Charted(Do("offset", "note"), -1, -1)
      /\ Charted(Do("shared", "note"), -1, -1)
      /\ Charted(Do("end", "note"), -1, -1)
      /\ Charted(Do("range", "raise"), -1, -1)
  BY ChartDo DEF Calls
<1>2. /\ Charted(Sleep(10), 10, 0)
      /\ Charted(Sleep(10), -1, -1)
  BY Asleep
<1>3. /\ Charted(Emit(Burst, "note"), 10, 10)
      /\ Charted(Emit(Burst, "note"), -1, -1)
  BY BurstAt
<1>4. Charted(Strategy, 10, 0)
  BY ONLY <1>1, <1>2, <1>3, ChartCat DEF Strategy
<1>5. Charted(Strategy, -1, -1)
  BY ONLY <1>1, <1>2, <1>3, ChartCat DEF Strategy
<1>6. /\ Charted(reset_controller_state(10), 0, 10)
      /\ Charted(reset_controller_state(10), 0, -1)
  BY ResetAt DEF reset_controller_state
<1>7. Charted(t2_5.trial, 0, -1)
  BY ONLY <1>1, <1>4, <1>5, <1>6, ChartCat DEF t2_5, Plain
<1>8. /\ t2_5.pre = << >>
      /\ t2_5.between = << >>
      /\ t2_5.fin = << >>
      /\ t2_5.trials = 1 /\ t2_5.finally = FALSE
  BY DEF t2_5, Plain, Trials
<1>9. /\ Charted(t2_5.pre, 0, 0) /\ Charted(t2_5.trial, 0, -1)
      /\ Charted(t2_5.between, -1, -1)
      /\ Charted(t2_5.fin, -1, -1)
      /\ t2_5.trials = 1 /\ ~t2_5.finally
  BY <1>1, <1>2, <1>3, <1>4, <1>5, <1>6, <1>7, <1>8, ChartNil
<1> QED BY ONLY <1>9, LinkedUp

LEMMA RouteT26 == \E c : Linked(t2_6, c)
<1> USE DEF Slacks, Outcomes
<1>1. /\ Charted(Do("plan", "none"), 0, 0)
      /\ Charted(Do("ship", "raise"), 32, 32)
      /\ Charted(Do("usr2", "note"), 2, 2)
      /\ Charted(Do("fetch", "note"), 0, 0)
  BY ChartDo DEF Calls
<1>2. Charted(Sleep(2), 2, 0)
  BY Asleep
<1>3. Charted(Harness(Do("ship", "raise"), 30), 32, 2)
  BY <1>1, HarnessAt
<1>4. Charted(reset_controller_state(10), 0, 32)
  BY ResetAt DEF reset_controller_state
<1>5. Charted(dump_controller_state, 2, 0)
  BY ONLY <1>1, <1>2, ChartCat DEF dump_controller_state
<1>6. Charted(t2_6.trial, 0, 0)
  BY ONLY <1>1, <1>3, <1>4, <1>5, ChartCat DEF t2_6, Plain
<1>7. /\ t2_6.pre = << >>
      /\ t2_6.between = << >>
      /\ t2_6.fin = << >>
      /\ t2_6.trials = 2 /\ t2_6.finally = FALSE
  BY DEF t2_6, Plain, Trials
<1>8. /\ Charted(t2_6.pre, 0, 0) /\ Charted(t2_6.trial, 0, 0)
      /\ Charted(t2_6.between, 0, 0)
      /\ Charted(t2_6.fin, -1, -1)
      /\ t2_6.trials = 2 /\ ~t2_6.finally
  BY <1>1, <1>2, <1>3, <1>4, <1>5, <1>6, <1>7, ChartNil
<1> QED BY ONLY <1>8, LinkedUp

LEMMA RouteT28 == \E c : Linked(t2_8, c)
<1> USE DEF Slacks, Outcomes
<1>1. /\ Charted(Do("plan", "none"), 0, 0)
      /\ Charted(Do("ship", "raise"), 0, 0)
  BY ChartDo DEF Calls
<1>2. Charted(Harness(<< >>, 5), 5, 0)
  BY ChartNil, HarnessAt
<1>3. Charted(reset_controller_state(10), 0, 5)
  BY ResetAt DEF reset_controller_state
<1>4. Charted(t2_8.trial, 0, 0)
  BY ONLY <1>1, <1>2, <1>3, ChartCat DEF t2_8, Plain
<1>5. /\ t2_8.pre = Do("ship", "raise")
      /\ t2_8.between = << >>
      /\ t2_8.fin = << >>
      /\ t2_8.trials = 2 /\ t2_8.finally = FALSE
  BY DEF t2_8, Plain, Trials
<1>6. /\ Charted(t2_8.pre, 0, 0) /\ Charted(t2_8.trial, 0, 0)
      /\ Charted(t2_8.between, 0, 0)
      /\ Charted(t2_8.fin, -1, -1)
      /\ t2_8.trials = 2 /\ ~t2_8.finally
  BY <1>1, <1>2, <1>3, <1>4, <1>5, ChartNil
<1> QED BY ONLY <1>6, LinkedUp

LEMMA CheckChart == \A wait \in Nat \ {0} : Charted(check(wait).pre, 0, -1)
<1> USE DEF Slacks, Outcomes
<1> TAKE wait \in Nat \ {0}
<1>1. /\ Charted(Do("usr2", "raise"), -1, -1) /\ Charted(Do("fetch", "raise"), -1, -1)
      /\ Charted(Do("verdict", "none"), -1, -1)
  BY ChartDo DEF Calls
<1>2. Charted(Sleep(2), -1, -1)
  BY Asleep
<1>3. Charted(Do("usr1", "raise") \o Sleep(wait), 0, -1)
  BY ResetAt
<1> QED BY ONLY <1>1, <1>2, <1>3, ChartCat DEF check, Plain

LEMMA RouteCheck == \A wait \in Nat \ {0} : \E c : Linked(check(wait), c)
<1> TAKE wait \in Nat \ {0}
<1>1. /\ check(wait).trial = << >> /\ check(wait).between = << >> /\ check(wait).fin = << >>
      /\ check(wait).trials = 0 /\ check(wait).finally = FALSE
  BY DEF check, Plain
<1>2. /\ Charted(check(wait).pre, 0, -1) /\ Charted(check(wait).trial, -1, -1)
      /\ Charted(check(wait).between, -1, -1) /\ Charted(check(wait).fin, -1, -1)
      /\ check(wait).trials = 0 /\ ~check(wait).finally
  BY <1>1, CheckChart, ChartNil
<1> QED BY ONLY <1>2, LinkedUp

LEMMA RoutePreflightE12b == \E c : Linked(preflight_e12b, c)
<1> USE DEF Slacks, Outcomes
<1>1. /\ Charted(Do("snapshot", "raise"), 14, 14)
      /\ Charted(Do("tamper", "raise"), 14, 14)
      /\ Charted(Do("untamper", "raise"), 6, 6)
      /\ Charted(Do("refusal", "raise"), 0, 0)
  BY ChartDo DEF Calls
<1>2. /\ Charted(Sleep(8), 14, 6)
      /\ Charted(Sleep(6), 6, 0)
  BY Asleep
<1>3. Charted(c_negative, 14, 0)
  BY ONLY <1>1, <1>2, ChartCat DEF c_negative
<1>4. Charted(check(4).pre, 0, -1)
  BY CheckChart
<1>5. /\ preflight_e12b.pre = << >>
      /\ preflight_e12b.trial = c_negative
      /\ preflight_e12b.between = << >>
      /\ preflight_e12b.fin = check(4).pre
      /\ preflight_e12b.trials = 1 /\ preflight_e12b.finally = FALSE
  BY DEF preflight_e12b, Plain, Trials
<1>6. /\ Charted(preflight_e12b.pre, 14, 14)
      /\ Charted(preflight_e12b.trial, 14, 0)
      /\ Charted(preflight_e12b.between, 0, 0)
      /\ Charted(preflight_e12b.fin, 0, -1)
      /\ preflight_e12b.trials = 1 /\ ~preflight_e12b.finally
  BY <1>1, <1>2, <1>3, <1>4, <1>5, ChartNil
<1> QED BY ONLY <1>6, LinkedUp

LEMMA Routes == \A name \in Resetters : \E c : Linked(Script[name], c)
<1>1. (\E c : Linked(check(4), c)) /\ \E c : Linked(check(15), c)
  BY RouteCheck
<1>2. /\ Script["sweep"] = sweep /\ Script["e12b"] = e12b /\ Script["e22"] = e22
      /\ Script["t1_5"] = t1_5 /\ Script["t1_6"] = t1_6 /\ Script["runner_cli"] = runner_cli
      /\ Script["t2_2"] = t2_2 /\ Script["t2_4"] = t2_4 /\ Script["t2_5"] = t2_5
      /\ Script["t2_6"] = t2_6 /\ Script["t2_8"] = t2_8
      /\ Script["preflight_e12b"] = preflight_e12b
      /\ Script["state_check"] = check(4) /\ Script["state_check_slow"] = check(15)
  BY DEF Script
<1> QED
  BY ONLY <1>1, <1>2, RouteSweep, RouteE12b, RouteE22, RouteT15, RouteT16, RouteCli, RouteT22,
     RouteT24, RouteT25, RouteT26, RouteT28, RoutePreflightE12b, Zenon DEF Resetters

-----------------------------------------------------------------------------
(* Where the driver stands on its route: how far ahead of it the next      *)
(* reset is, as time passes only while the driver sleeps, and whether      *)
(* there is one to come at all.                                            *)
Route(name) == CHOOSE c : Linked(Script[name], c)
Slack == Route(d.name)[d.part][d.k]
Ahead == IF At("sleep") THEN Slack - op.arg + d.left ELSE Slack
Going == out.how = "running" /\ Slack # -1

(* The controller is idle and no packet is under way.                      *)
Calm == pc = "idle" /\ handler = "none" /\ queue = << >> /\ jobs = {} /\ "reset" \notin pending
Due(j) == IF Len(j.gaps) = 2 THEN j.gaps[1] + j.gaps[2] ELSE j.gaps[1]
Joining(j) == At("join") /\ j.i = d.i
Soon(j) == Len(j.gaps) <= 2 /\ Due(j) < Ahead

(* A reset that was asked for finds an idle controller, and the driver at  *)
(* the start of its wait.                                                  *)
AskedIdle ==
  "reset" \in pending =>
    /\ pc = "idle" /\ handler = "none" /\ queue = << >> /\ jobs = {}
    /\ out.how = "running" => At("sleep") /\ d.left > 0
    /\ Going => Ahead >= 15

(* A reset is over before the next one is asked for.                       *)
Sweeping ==
  handler = "reset" =>
    /\ pc = "idle"
    /\ Going => IF todo <= 6 THEN Ahead >= 15 ELSE busy < Ahead

(* So are the emissions, and what they send is judged.                     *)
Timed ==
  Going =>
    /\ Ahead \in Nat
    /\ Ahead = 0 => Calm
    /\ \A j \in jobs : Joining(j) \/ Soon(j)

(* Every record the controller has in hand or on the log bears the epoch   *)
(* in which its digest was taken.                                          *)
InStep ==
  /\ pc # "stuck"
  /\ pc \in {"record", "judge", "decide"} => handler = "none" /\ rec.seen = epoch /\ rec.epoch = epoch
  /\ log # << >> => LastLine.seen = LastLine.epoch
Logged == (\E S : log \in Seq(S)) /\ DOMAIN rec = {"tag", "seen", "epoch"}

(* These drivers neither stop nor start the controller, and of its reset   *)
(* only one step takes time.                                               *)
Alone == pending \subseteq {"reset", "dump"} /\ pc # "down" /\ handler # "startup"
Tidy == busy > 0 => todo = 7 /\ handler # "none"
OnTime == Alone /\ Tidy /\ AskedIdle /\ Sweeping /\ Timed

(* The longest wait of a driver on its reset is made for one of about 10 s *)
(* and leaves some 5 s more (sweep.py).                                    *)
ShortResets == \A r \in ResetTimes : r < 15

LEMMA Steps == ResetSteps[6] = "SESSION_RPCS" /\ Len(ResetSteps) = 8
               /\ \A k \in 1..8 : ResetSteps[k] = "SESSION_RPCS" => k = 6
  BY DEF ResetSteps

(* Nothing the controller does moves the driver.                           *)
LEMMA DriverStill ==
  ASSUME UNCHANGED <<d, out>>
  PROVE  /\ Slack' = Slack /\ (Going' <=> Going) /\ Ahead' = Ahead
         /\ \A what : At(what)' <=> At(what)
<1>1. op' = op /\ (Working' <=> Working)
  BY DEF op, Ops, Mine, Working
<1>2. \A what : At(what)' <=> At(what)
  BY <1>1 DEF At
<1>3. Slack' = Slack /\ (Going' <=> Going)
  BY DEF Slack, Going
<1>4. Ahead' = Ahead
  BY <1>1, <1>2, <1>3 DEF Ahead
<1> QED BY <1>2, <1>3, <1>4

LEMMA LogGrows ==
  ASSUME Logged, InStep, NEW line, line.seen = line.epoch, log' = Append(log, line)
  PROVE  (\E S : log' \in Seq(S)) /\ LastLine'.seen = LastLine'.epoch
<1>1. PICK S : log \in Seq(S)
  BY DEF Logged
<1>2. log \in Seq(S \cup {line})
  BY <1>1
<1>3. log' \in Seq(S \cup {line}) /\ log'[Len(log')] = line
  BY <1>2
<1> QED BY <1>3 DEF LastLine

(* The controller's steps between two digests.                             *)
LEMMA StepInStep ==
  ASSUME Typed, Logged, InStep, Step,
         handle_reset => pc = "idle",
         write_markers => pc = "idle"
  PROVE  Logged' /\ InStep'
<1>1. CASE Receive
  BY <1>1 DEF Receive, Main, rat, Logged, InStep, LastLine
<1>2. CASE Recorded
  BY <1>2 DEF Recorded, Main, rat, Logged, InStep, LastLine
<1>3. CASE evaluate_hold
  BY <1>3 DEF evaluate_hold, Main, rat, Logged, InStep, LastLine
<1>4. CASE _log_decision
  <2>1. PICK line : log' = Append(log, line) /\ line.seen = rec.seen /\ line.epoch = rec.epoch
    BY <1>4 DEF _log_decision
  <2>2. line.seen = line.epoch
    BY <1>4, <2>1 DEF _log_decision, Main, InStep
  <2>3. (\E S : log' \in Seq(S)) /\ LastLine'.seen = LastLine'.epoch
    BY <2>1, <2>2, LogGrows
  <2>4. pc' = "idle" /\ rec' = NoDigest
    BY <1>4 DEF _log_decision
  <2> QED BY <2>3, <2>4 DEF Logged, InStep, NoDigest
<1>5. CASE handle_reset
  BY <1>5 DEF handle_reset, rat, Logged, InStep, LastLine
<1>6. CASE reset_step
  <2>1. UNCHANGED <<pc, rec, handler, epoch, log>>
    BY <1>6 DEF reset_step
  <2> QED BY <2>1 DEF Logged, InStep, LastLine
<1>7. CASE reset_step_fails
  BY <1>7 DEF reset_step_fails, rat, Logged, InStep, LastLine
<1>8. CASE override_row_stays
  BY <1>8 DEF override_row_stays, rat, Logged, InStep, LastLine
<1>9. CASE write_markers
  <2>1. pc = "idle" /\ pc' = "idle" /\ rec' = rec
    BY <1>9 DEF write_markers
  <2>2. PICK line : log' = Append(log, line) /\ line.seen = line.epoch
    BY <1>9, <2>1 DEF write_markers, Marker
  <2>3. (\E S : log' \in Seq(S)) /\ LastLine'.seen = LastLine'.epoch
    BY <2>2, LogGrows
  <2> QED BY <2>1, <2>3 DEF Logged, InStep
<1>10. CASE startup_done
  BY <1>10 DEF startup_done, rat, Logged, InStep, LastLine
<1>11. CASE handle_dump_state
  BY <1>11 DEF handle_dump_state, ctl, Logged, InStep, LastLine
<1>12. CASE handle_stop
  BY <1>12 DEF handle_stop, Main, rat, Logged, InStep, LastLine
<1>13. CASE run
  <2>1. log' = log /\ (rec' = rec \/ rec' = NoDigest)
    BY <1>13 DEF run, ctl
  <2>2. \/ pc' = "idle"
        \/ UNCHANGED <<pc, handler, rec, epoch>>
    BY <1>13 DEF run, ctl
  <2> QED BY <2>1, <2>2 DEF Logged, InStep, LastLine, NoDigest
<1>14. CASE Reload
  BY <1>14 DEF Reload, ctl, Logged, InStep, LastLine
<1> QED
  BY <1>1, <1>2, <1>3, <1>4, <1>5, <1>6, <1>7, <1>8, <1>9, <1>10, <1>11, <1>12, <1>13, <1>14 DEF Step

(* While the controller works and the driver waits.                        *)
LEMMA StepOnTime ==
  ASSUME Typed, OnTime, InStep, Step, UNCHANGED <<d, out, jobs>>, ShortResets
  PROVE  OnTime'
<1>1. /\ (Going' <=> Going) /\ Ahead' = Ahead /\ \A what : At(what)' <=> At(what)
  BY DriverStill
<1>2. jobs' = jobs /\ d' = d /\ out' = out
  OBVIOUS
<1>3. busy \in Nat /\ todo \in 1..9 /\ pc \in {"idle", "record", "judge", "decide", "stuck", "down"}
      /\ handler \in {"none", "reset", "startup"} /\ (Going => Ahead \in Nat)
  BY Steps DEF Typed, LoopTyped, OnTime, Timed
<1>4. Going => \A j \in jobs : (Joining(j) \/ Soon(j))'
  <2>1. ASSUME NEW j \in jobs, Joining(j) \/ Soon(j)
        PROVE  (Joining(j) \/ Soon(j))'
    BY <1>1, <1>2, <2>1 DEF Joining, Soon, Due
  <2> QED BY <2>1 DEF OnTime, Timed
<1>5. (Ahead = 0 /\ Going => Calm') => Timed'
  BY <1>1, <1>2, <1>3, <1>4 DEF Timed
<1>6. (Ahead = 0 /\ Going => Calm)
  BY DEF OnTime, Timed
<1>7. CASE Receive
  <2>1. queue # << >> /\ handler = "none" /\ pc = "idle" /\ pc' = "record"
        /\ UNCHANGED <<handler, todo, busy, pending>>
    BY <1>7 DEF Receive, Main
  <2>2. "reset" \notin pending /\ ~Calm
    BY <2>1 DEF OnTime, AskedIdle, Calm
  <2>3. Timed'
    BY <1>5, <1>6, <2>2
  <2> QED BY <2>1, <2>2, <2>3 DEF OnTime, Alone, Tidy, AskedIdle, Sweeping
<1>8. CASE Recorded \/ evaluate_hold \/ _log_decision
  <2>1. handler = "none" /\ pc \in {"record", "judge", "decide"} /\ pc' \in {"judge", "decide", "idle"}
        /\ UNCHANGED <<handler, todo, busy, pending>>
    BY <1>8 DEF Recorded, evaluate_hold, _log_decision, Main
  <2>2. "reset" \notin pending /\ ~Calm
    BY <2>1 DEF OnTime, AskedIdle, Calm
  <2>3. Timed'
    BY <1>5, <1>6, <2>2
  <2> QED BY <2>1, <2>2, <2>3 DEF OnTime, Alone, Tidy, AskedIdle, Sweeping
<1>9. CASE handle_reset
  <2>1. "reset" \in pending /\ handler = "none" /\ handler' = "reset" /\ todo' = 1
        /\ pending' = pending \ {"reset"} /\ UNCHANGED <<pc, busy, queue>>
    BY <1>9 DEF handle_reset
  <2>2. pc = "idle" /\ (Going => Ahead >= 15) /\ busy = 0
    BY <1>3, <2>1 DEF OnTime, AskedIdle, Tidy
  <2>3. Timed'
    BY <1>3, <1>5, <2>2
  <2> QED BY <1>1, <2>1, <2>2, <2>3 DEF OnTime, Alone, Tidy, AskedIdle, Sweeping
<1>10. CASE reset_step \/ reset_step_fails \/ override_row_stays
  <2>1. /\ handler # "none" /\ busy = 0 /\ todo \in 1..8 /\ todo' = todo + 1
        /\ UNCHANGED <<pc, handler, pending, queue>>
    BY <1>3, <1>10, Steps DEF reset_step, reset_step_fails, override_row_stays, Resetting
  <2>2. busy' = 0 \/ (todo = 6 /\ busy' \in ResetTimes)
    <3>1. CASE reset_step
      BY <2>1, <3>1, Steps DEF reset_step
    <3>2. CASE reset_step_fails \/ override_row_stays
      BY <2>1, <3>2 DEF reset_step_fails, override_row_stays
    <3> QED BY <1>10, <3>1, <3>2
  <2>3. handler = "reset" /\ "reset" \notin pending /\ pc = "idle"
    BY <1>3, <2>1 DEF OnTime, Alone, AskedIdle, Sweeping
  <2>4. Going => IF todo <= 6 THEN Ahead >= 15 ELSE 0 < Ahead
    BY <2>1, <2>3 DEF OnTime, Sweeping
  <2>5. busy' < 15 /\ busy' \in Nat
    <3>1. ResetTimes \subseteq Nat /\ \A r \in ResetTimes : r < 15
      BY LoopAssumption DEF ShortResets
    <3>2. CASE busy' \in ResetTimes
      <4>1. PICK r \in ResetTimes : r = busy'
        BY <3>2
      <4>2. r \in Nat /\ r < 15
        BY ONLY <3>1, <4>1
      <4> QED BY ONLY <4>1, <4>2
    <3>3. CASE busy' = 0
      BY <3>3
    <3> QED BY ONLY <2>2, <3>2, <3>3
  <2>6. Going => IF todo' <= 6 THEN Ahead >= 15 ELSE busy' < Ahead
    <3>1. todo \in Int /\ (Going => Ahead \in Int)
      BY ONLY <1>3
    <3>2. CASE todo <= 6
      BY ONLY <2>1, <2>4, <2>5, <3>1, <3>2
    <3>3. CASE todo > 6
      BY ONLY <2>1, <2>2, <2>4, <3>1, <3>3
    <3> QED BY ONLY <3>1, <3>2, <3>3
  <2>7. Timed'
    BY <1>3, <1>5, <2>1, <2>4
  <2> QED BY <1>1, <2>1, <2>2, <2>3, <2>5, <2>6, <2>7 DEF OnTime, Alone, Tidy, AskedIdle, Sweeping
<1>11. CASE write_markers
  <2>1. handler = "reset" /\ handler' = "none" /\ todo > 8 /\ UNCHANGED <<todo, busy, pending, queue>>
    BY <1>11, Steps DEF write_markers, ResetDone
  <2>2. pc = "idle" /\ pc' = "idle" /\ "reset" \notin pending /\ (Going => busy < Ahead) /\ busy = 0
    BY <1>3, <1>11, <2>1 DEF OnTime, Sweeping, AskedIdle, Tidy, write_markers
  <2>3. Timed'
    BY <1>3, <1>5, <2>2
  <2> QED BY <2>1, <2>2, <2>3 DEF OnTime, Alone, Tidy, AskedIdle, Sweeping
<1>12. CASE handle_dump_state
  <2>1. pending' = pending \ {"dump"} /\ UNCHANGED <<pc, handler, todo, busy, queue>>
    BY <1>12 DEF handle_dump_state, ctl
  <2>2. Timed'
    BY <1>2, <1>5, <1>6, <2>1 DEF Calm
  <2> QED BY <1>1, <1>2, <2>1, <2>2 DEF OnTime, Alone, Tidy, AskedIdle, Sweeping
<1>13. CASE startup_done \/ handle_stop \/ run
  BY <1>13 DEF startup_done, handle_stop, run, OnTime, Alone
<1>14. CASE Reload
  <2>1. UNCHANGED <<pc, handler, todo, busy, queue, pending>>
    BY <1>14 DEF Reload, ctl
  <2>2. Timed'
    BY <1>2, <1>5, <1>6, <2>1 DEF Calm
  <2> QED BY <1>1, <1>2, <2>1, <2>2 DEF OnTime, Alone, Tidy, AskedIdle, Sweeping
<1> QED BY <1>7, <1>8, <1>9, <1>10, <1>11, <1>12, <1>13, <1>14 DEF Step

(* What the route says of the operation the driver is at, and where it     *)
(* stands when it goes elsewhere.                                          *)
SlackAt(part, k) == Route(d.name)[part][k]
LEMMA RouteFound ==
  ASSUME d.name \in Resetters
  PROVE  Linked(Mine, Route(d.name))
  BY Routes, Zenon DEF Route, Mine

LEMMA ArcHere ==
  ASSUME Typed, d.name \in Resetters
  PROVE  /\ Slack = SlackAt(d.part, d.k) /\ Slack \in Int
         /\ Working => /\ d.k \in 1..Len(Ops) /\ Arc(Ops, Route(d.name)[d.part], d.k)
                       /\ SlackAt(d.part, d.k + 1) \in Int
<1> DEFINE e == Route(d.name)[d.part]
<1>1. d.part \in Parts /\ d.k \in Nat \ {0} /\ d.k <= Len(Ops) + 1
  BY DEF Typed, DriverTyped
<1>2. Ops \in Seq(AnyOp) /\ IsChart(Ops, e)
  BY <1>1, RouteFound DEF Linked, Ops
<1>3. e \in [1..(Len(Ops) + 1) -> Int] /\ Len(Ops) \in Nat
      /\ \A k \in 1..Len(Ops) : Arc(Ops, e, k)
  BY <1>2 DEF IsChart
<1> HIDE DEF e
<1>4. d.k \in 1..(Len(Ops) + 1) /\ e[d.k] \in Int
  BY <1>1, <1>3
<1>5. Slack = e[d.k] /\ SlackAt(d.part, d.k) = e[d.k] /\ SlackAt(d.part, d.k + 1) = e[d.k + 1]
  BY DEF Slack, SlackAt, e
<1>6. Working => d.k \in 1..Len(Ops) /\ d.k + 1 \in 1..(Len(Ops) + 1)
  BY <1>3, <1>4 DEF Working
<1> QED BY <1>3, <1>4, <1>5, <1>6 DEF e

LEMMA Arrives ==
  ASSUME Typed, d.name \in Resetters, NEW part \in Parts, NEW i \in 1..Trials,
         NEW k \in 1..(Len(Mine[part]) + 1), d' = Position(part, i, k)
  PROVE  /\ Slack' = SlackAt(part, k) /\ Slack' \in Int /\ Ahead' = Slack'
         /\ d'.name = d.name /\ d'.part = part /\ d'.i = i /\ d'.k = k /\ Ops' = Mine[part]
         /\ d'.left = Delay(Mine[part], k)
<1> DEFINE e == Route(d.name)[part]
           s == Mine[part]
<1>1. d'.name = d.name /\ d'.part = part /\ d'.i = i /\ d'.k = k /\ d'.left = Delay(s, k)
  BY DEF Position
<1>2. Ops' = s /\ Slack' = e[k] /\ SlackAt(part, k) = e[k]
  BY <1>1 DEF Ops, Mine, Slack, SlackAt
<1>3. s \in Seq(AnyOp) /\ IsChart(s, e)
  BY RouteFound DEF Linked
<1>4. e[k] \in Int /\ Len(s) \in Nat
  BY <1>3 DEF IsChart
<1>5. Sound(s, Kinds(d.name))
  BY Scripts DEF Typed, DriverTyped, Mine
<1> HIDE DEF s, e
<1>6. At("sleep")' => k \in 1..Len(s) /\ s[k].op = "sleep" /\ op' = s[k]
  BY <1>1, <1>2, <1>4 DEF At, Working, op, s
<1>7. At("sleep")' => d'.left = op'.arg /\ op'.arg \in Nat
  BY <1>1, <1>5, <1>6 DEF Delay, Waiting, Sound
<1>8. Ahead' = Slack'
  <2>1. CASE At("sleep")'
    <3>1. Slack' - op'.arg + d'.left = Slack'
      BY <1>2, <1>4, <1>7, <2>1
    <3> QED BY <2>1, <3>1 DEF Ahead
  <2>2. CASE ~At("sleep")'
    BY <2>2 DEF Ahead
  <2> QED BY <2>1, <2>2
<1> QED BY <1>1, <1>2, <1>4, <1>8 DEF s

LEMMA Moves ==
  ASSUME Typed, d.name \in Resetters, Ready, Onward(1), out' = out
  PROVE  /\ op.op \notin Strange
         /\ op.op # "usr1" => (Going' <=> Going) /\ (Going => Ahead' = Ahead)
         /\ op.op = "usr1" => /\ Going /\ Ahead = 0
                              /\ At("sleep")' /\ d'.left > 0
                              /\ Ahead' \in Int /\ (Going' => Ahead' >= 15)
         /\ op.op \in {"emit", "join"} /\ Going => Ahead # 0
         /\ op.op = "emit" /\ Going => \/ At("join")' /\ d'.i = d.i
                                       \/ Len(op.arg) = 2 /\ op.arg[1] + op.arg[2] < Ahead
<1> DEFINE e == Route(d.name)[d.part]
           next == SlackAt(d.part, d.k + 1)
<1>1. Working /\ d.k \in 1..Len(Ops) /\ Len(Ops) \in Nat /\ out.how = "running"
      /\ d.part \in Parts /\ d.i \in 1..Trials
  BY AtWork DEF Ready, Working, Typed, DriverTyped
<1>2. Arc(Ops, e, d.k) /\ Slack = e[d.k] /\ next = e[d.k + 1] /\ Slack \in Int /\ next \in Int
  BY <1>1, ArcHere DEF SlackAt
<1>3. d.k + 1 \in 1..(Len(Ops) + 1) /\ d' = Position(d.part, d.i, d.k + 1)
  BY <1>1 DEF Onward
<1>4. /\ Slack' = next /\ Ahead' = next /\ d'.name = d.name /\ d'.part = d.part /\ d'.i = d.i
      /\ d'.k = d.k + 1 /\ Ops' = Ops /\ d'.left = Delay(Ops, d.k + 1)
  <2>1. PICK part, i, k : /\ part = d.part /\ i = d.i /\ k = d.k + 1
                          /\ part \in Parts /\ i \in 1..Trials /\ k \in 1..(Len(Mine[part]) + 1)
    BY <1>1, <1>3 DEF Ops
  <2>2. d' = Position(part, i, k)
    BY <1>3, <2>1
  <2>3. /\ Slack' = SlackAt(part, k) /\ Ahead' = Slack' /\ d'.name = d.name /\ d'.part = part
        /\ d'.i = i /\ d'.k = k /\ Ops' = Mine[part] /\ d'.left = Delay(Mine[part], k)
    BY <2>1, <2>2, Arrives
  <2> QED BY <2>1, <2>3 DEF Ops
<1> HIDE DEF e, next
<1>5. Working' <=> d.k < Len(Ops)
  BY <1>1, <1>4 DEF Working
<1>6. d.k < Len(Ops) => op' = Ops[d.k + 1]
  BY <1>4 DEF op
<1>7. Going' <=> next # -1
  BY <1>1, <1>4 DEF Going
<1>8. Going <=> Slack # -1
  BY <1>1 DEF Going
<1>9. op = Ops[d.k]
  BY DEF op
<1>10. op.op = "sleep" => d.left = 0 /\ Ahead = Slack - op.arg
  <2>1. op.op = "sleep" => d.left = 0
    BY DEF Ready, Satisfied, At
  <2>2. op.op = "sleep" => At("sleep") /\ op.arg \in Int
    BY <1>1, <1>2, <1>9 DEF At, Arc
  <2> QED BY <1>2, <2>1, <2>2 DEF Ahead
<1>11. op.op # "sleep" => Ahead = Slack
  BY DEF Ahead, At
<1>12. op.op \notin Strange
  BY <1>2, <1>9 DEF Arc
<1>13. op.op # "usr1" => (Going' <=> Going) /\ (Going => Ahead' = Ahead)
  <2>1. CASE op.op = "sleep"
    <3>1. /\ op.arg \in Nat
          /\ (Slack = -1 /\ next = -1) \/ (next >= 0 /\ Slack = op.arg + next)
      BY ONLY <1>2, <1>9, <2>1 DEF Arc
    <3> QED BY ONLY <1>2, <1>4, <1>7, <1>8, <1>10, <2>1, <3>1
  <2>2. CASE op.op \notin {"sleep", "usr1"}
    <3>1. next = Slack
      BY ONLY <1>2, <1>9, <2>2 DEF Arc
    <3> QED BY ONLY <1>4, <1>7, <1>8, <1>11, <2>2, <3>1
  <2> QED BY <2>1, <2>2
<1>14. op.op = "usr1" => /\ Going /\ Ahead = 0
                         /\ At("sleep")' /\ d'.left > 0
                         /\ Ahead' \in Int /\ (Going' => Ahead' >= 15)
  <2> SUFFICES ASSUME op.op = "usr1"
               PROVE  /\ Going /\ Ahead = 0
                      /\ At("sleep")' /\ d'.left > 0
                      /\ Ahead' \in Int /\ (Going' => Ahead' >= 15)
    OBVIOUS
  <2>1. /\ Slack = 0 /\ (next = -1 \/ next >= 15)
        /\ d.k < Len(Ops) /\ Ops[d.k + 1].op = "sleep" /\ Ops[d.k + 1].arg \in Nat \ {0}
    BY ONLY <1>2, <1>9, op.op = "usr1" DEF Arc
  <2>2. At("sleep")' /\ d'.left > 0
    BY <1>1, <1>4, <1>5, <1>6, <2>1 DEF At, Delay, Waiting
  <2> QED BY <1>2, <1>4, <1>7, <1>8, <1>11, <2>1, <2>2
<1>15. op.op \in {"emit", "join"} /\ Going => Ahead # 0
  BY <1>2, <1>9, <1>11 DEF Arc
<1>16. op.op = "emit" /\ Going => \/ At("join")' /\ d'.i = d.i
                                  \/ Len(op.arg) = 2 /\ op.arg[1] + op.arg[2] < Ahead
  <2> SUFFICES ASSUME op.op = "emit", Going
               PROVE  \/ At("join")' /\ d'.i = d.i
                      \/ Len(op.arg) = 2 /\ op.arg[1] + op.arg[2] < Ahead
    OBVIOUS
  <2>1. \/ d.k < Len(Ops) /\ Ops[d.k + 1].op = "join"
        \/ Len(op.arg) = 2 /\ op.arg[1] + op.arg[2] < Slack
    BY ONLY <1>2, <1>8, <1>9, op.op = "emit", Going DEF Arc
  <2>2. d.k < Len(Ops) /\ Ops[d.k + 1].op = "join" => At("join")'
    BY <1>5, <1>6 DEF At
  <2> QED BY <1>4, <1>11, <2>1, <2>2
<1> QED BY <1>12, <1>13, <1>14, <1>15, <1>16

(* What an operation of such a driver does to the controller and to the    *)
(* emissions, whether it is answered or not.                               *)
Job(first, gaps, cut) == [i |-> d.i, first |-> first, gaps |-> gaps, cut |-> cut]
LEMMA Effects ==
  ASSUME op.op \notin Strange, Effect \/ Hears
  PROVE  /\ queue' = queue
         /\ \/ op.op = "usr1" /\ jobs' = jobs /\ pending' \in {pending, pending \cup {"reset"}}
            \/ op.op # "usr1" /\ jobs' = jobs /\ pending' \in {pending, pending \cup {"dump"}}
            \/ /\ op.op = "emit" /\ pending' = pending
               /\ \E gaps, first, cut : /\ jobs' = jobs \cup {Job(first, gaps, cut)}
                                        /\ Effect => gaps = op.arg
<1>1. CASE Signal
  <2>1. op.op \in {"usr1", "usr2"}
    BY <1>1 DEF Signal, Signals, Strange
  <2>2. /\ UNCHANGED <<jobs, queue>>
        /\ pending' = pending \/ pending' = pending \cup {Signals[op.op]}
    BY <1>1 DEF Signal
  <2>3. Signals["usr1"] = "reset" /\ Signals["usr2"] = "dump"
    BY DEF Signals
  <2> QED BY <2>1, <2>2, <2>3
<1>2. CASE TakeHands \/ preflight_check \/ WriteDisk \/ Rows \/ WriteFiles \/ Missed
  <2>1. UNCHANGED <<jobs, queue, pending>>
    BY <1>2 DEF TakeHands, preflight_check, WriteDisk, Rows, WriteFiles, Missed
  <2> QED BY <2>1
<1>3. CASE Launch(op.arg, FALSE)
  BY <1>3 DEF Launch, Job
<1>4. CASE Launch(<<op.arg[1]>>, TRUE) /\ ~Effect
  BY <1>4 DEF Launch, Job
<1>5. CASE Launch(<<op.arg[1]>>, TRUE) /\ Effect
  <2>1. op.op = "emit"
    BY <1>5 DEF Launch
  <2>2. Launch(op.arg, FALSE)
    BY <1>5, <2>1 DEF Effect, TakeHands, Hands, preflight_check, Signal, Signals, WriteDisk, Rows,
       WriteFiles, send_packet
  <2> QED BY <1>3, <2>2
<1>6. ~send_packet /\ ~SentUnheard
  BY DEF send_packet, SentUnheard, Strange
<1> QED BY <1>1, <1>2, <1>3, <1>4, <1>5, <1>6 DEF Effect, Hears

LEMMA InStepSame ==
  ASSUME UNCHANGED <<pc, rec, handler, epoch, log>>, Logged
  PROVE  Logged' /\ (InStep => InStep')
  BY DEF Logged, InStep, LastLine

(* A driver at work does not wait on a reset it asked for.                 *)
LEMMA NotAsked ==
  ASSUME AskedIdle, Ready, out.how = "running"
  PROVE  "reset" \notin pending
  BY DEF AskedIdle, Ready, Satisfied, At

LEMMA WorksOnTime ==
  ASSUME Typed, OnTime, d.name \in Resetters, Works
  PROVE  OnTime'
<1>1. /\ Ready /\ Effect /\ Working /\ out.how = "running"
      /\ UNCHANGED <<out, pc, handler, todo, busy>>
  BY DEF Works, Ready, Working, OutOfReach, ctl
<1>2. "reset" \notin pending
  BY <1>1, NotAsked DEF OnTime
<1>3. op.op \notin Strange
  BY <1>1, ArcHere DEF Arc, op
<1>4. /\ queue' = queue
      /\ \/ op.op = "usr1" /\ jobs' = jobs /\ pending' \in {pending, pending \cup {"reset"}}
         \/ op.op # "usr1" /\ jobs' = jobs /\ pending' \in {pending, pending \cup {"dump"}}
         \/ /\ op.op = "emit" /\ pending' = pending
            /\ \E gaps, first, cut : /\ jobs' = jobs \cup {Job(first, gaps, cut)}
                                     /\ Effect => gaps = op.arg
  BY <1>1, <1>3, Effects
<1>5. Alone' /\ Tidy'
  BY <1>1, <1>4 DEF OnTime, Alone, Tidy
<1>6. CASE op.op = "preflight" /\ d' = Position(d.part, d.i, FinalizeAt)
  <2>1. Slack = -1
    BY <1>1, <1>6, ArcHere DEF Arc, op, SlackAt
  <2>2. FinalizeAt \in 1..Len(Ops) /\ Ops[FinalizeAt].op = "finalize" /\ d.part \in Parts
        /\ d.i \in 1..Trials /\ Len(Ops) \in Nat
    BY <1>1, <1>6, FinalizeFound, AtWork DEF Typed, DriverTyped
  <2>3. PICK part, i, k : /\ part = d.part /\ i = d.i /\ k = FinalizeAt
                          /\ part \in Parts /\ i \in 1..Trials /\ k \in 1..Len(Mine[part])
    BY <2>2 DEF Ops
  <2>4. Slack' = SlackAt(part, k)
    BY <1>6, <2>2, <2>3, Arrives DEF Ops
  <2>5. SlackAt(part, k) = -1
    <3>1. IsChart(Ops, Route(d.name)[d.part])
      BY <2>2, RouteFound DEF Linked, Ops
    <3>2. Arc(Ops, Route(d.name)[d.part], FinalizeAt)
      BY <2>2, <3>1 DEF IsChart
    <3> QED BY <2>2, <2>3, <3>2 DEF Arc, SlackAt
  <2>6. ~Going /\ ~Going'
    BY <2>1, <2>4, <2>5 DEF Going
  <2>7. "reset" \notin pending'
    BY <1>2, <1>4, <1>6
  <2> QED BY <1>1, <1>5, <2>6, <2>7 DEF OnTime, AskedIdle, Sweeping, Timed
<1>7. CASE Onward(1)
  <2>1. /\ op.op # "usr1" => (Going' <=> Going) /\ (Going => Ahead' = Ahead)
        /\ op.op = "usr1" => /\ Going /\ Ahead = 0
                             /\ At("sleep")' /\ d'.left > 0
                             /\ Ahead' \in Int /\ (Going' => Ahead' >= 15)
        /\ op.op \in {"emit", "join"} /\ Going => Ahead # 0
    BY <1>1, <1>7, Moves
  <2>2. op.op = "emit" /\ Going => \/ At("join")' /\ d'.i = d.i
                                   \/ Len(op.arg) = 2 /\ op.arg[1] + op.arg[2] < Ahead
    BY <1>1, <1>7, Moves
  <2>3. CASE op.op = "usr1"
    <3>1. Calm /\ Going /\ Ahead = 0
      BY <2>1, <2>3 DEF OnTime, Timed
    <3>2. jobs' = {} /\ pc' = "idle" /\ handler' = "none" /\ queue' = << >>
      BY <1>1, <1>4, <2>3, <3>1 DEF Calm
    <3>3. AskedIdle' /\ Sweeping'
      BY <2>1, <2>3, <3>2 DEF AskedIdle, Sweeping
    <3>4. Timed'
      BY <2>1, <2>3, <3>2 DEF Timed
    <3> QED BY <1>5, <3>3, <3>4 DEF OnTime
  <2>4. CASE op.op # "usr1"
    <3>1. "reset" \notin pending'
      BY <1>2, <1>4, <2>4
    <3>2. Sweeping'
      BY <1>1, <2>1, <2>4 DEF OnTime, Sweeping
    <3>3. AskedIdle'
      BY <3>1 DEF AskedIdle
    <3>4. \A j \in jobs : Going => Soon(j)
      <4> SUFFICES ASSUME NEW j \in jobs, Going
                   PROVE  Soon(j)
        OBVIOUS
      <4>1. Joining(j) \/ Soon(j)
        BY DEF OnTime, Timed
      <4>2. ~Joining(j)
        BY <1>1 DEF Joining, At, Ready, Joined
      <4> QED BY <4>1, <4>2
    <3>5. \A j \in jobs : Going => Soon(j)'
      <4> SUFFICES ASSUME NEW j \in jobs, Going
                   PROVE  Soon(j)'
        OBVIOUS
      <4> QED BY <2>1, <2>4, <3>4 DEF Soon, Due
    <3>6. CASE jobs' = jobs
      <4>1. Going => (Ahead' = 0 => Calm')
        BY <1>1, <1>4, <2>1, <2>4, <3>1, <3>6 DEF OnTime, Timed, Calm
      <4>2. Timed'
        BY <2>1, <2>4, <3>5, <3>6, <4>1 DEF OnTime, Timed
      <4> QED BY <1>5, <3>2, <3>3, <4>2 DEF OnTime
    <3>7. CASE jobs' # jobs
      <4>1. op.op = "emit"
        BY <1>4, <3>7
      <4>2. PICK j : jobs' = jobs \cup {j} /\ j.i = d.i /\ j.gaps = op.arg
        <5>1. PICK gaps, first, cut : /\ jobs' = jobs \cup {Job(first, gaps, cut)}
                                      /\ Effect => gaps = op.arg
          BY <1>4, <3>7
        <5>2. Job(first, gaps, cut).i = d.i /\ Job(first, gaps, cut).gaps = gaps
          BY DEF Job
        <5> QED BY <1>1, <5>1, <5>2
      <4>3. Going => (Joining(j) \/ Soon(j))'
        <5>1. CASE At("join")' /\ d'.i = d.i
          BY <4>2, <5>1 DEF Joining
        <5>2. CASE Going /\ Len(op.arg) = 2 /\ op.arg[1] + op.arg[2] < Ahead
          BY <2>1, <4>1, <4>2, <5>2 DEF Soon, Due
        <5> QED BY <2>2, <4>1, <5>1, <5>2
      <4>4. Timed'
        BY <2>1, <2>4, <3>5, <4>1, <4>2, <4>3 DEF OnTime, Timed
      <4> QED BY <1>5, <3>2, <3>3, <4>4 DEF OnTime
    <3> QED BY <3>6, <3>7
  <2> QED BY <2>3, <2>4
<1>8. (op.op = "preflight" /\ d' = Position(d.part, d.i, FinalizeAt)) \/ Onward(1)
  BY <1>3 DEF Works, Strange
<1> QED BY <1>6, <1>7, <1>8

(* Under Quiet an operation fails only by ending the driver.               *)
LEMMA TroubleOnTime ==
  ASSUME Typed, OnTime, d.name \in Resetters, Fails \/ FindsNothing, Quiet'
  PROVE  OnTime'
<1>1. /\ Ready /\ Working /\ out.how = "running" /\ (Effect \/ Hears) /\ Trouble
      /\ UNCHANGED <<pc, handler, todo, busy>>
  BY Zenon DEF Fails, FindsNothing, Ready, Working, Effect, Hears, OutOfReach, ctl
<1>2. "reset" \notin pending
  BY <1>1, NotAsked DEF OnTime
<1>3. op.op \notin Strange
  BY <1>1, ArcHere DEF Arc, op
<1>4. /\ queue' = queue
      /\ \/ op.op = "usr1" /\ jobs' = jobs /\ pending' \in {pending, pending \cup {"reset"}}
         \/ op.op # "usr1" /\ jobs' = jobs /\ pending' \in {pending, pending \cup {"dump"}}
         \/ op.op = "emit" /\ pending' = pending
  BY <1>1, <1>3, Effects
<1>5. ~Mine.finally
  BY RouteFound DEF Linked
<1>6. out'.noted = {} /\ out'.lost = {} /\ DOMAIN out = {"how", "raised", "noted", "lost"}
  BY DEF Quiet, Typed, DriverTyped
<1>7. out'.how = "raised" /\ d' = d
  BY <1>1, <1>5, <1>6 DEF Trouble, RaiseIn, Noted
<1>8. op.op = "usr1" => Calm
  <2> SUFFICES ASSUME op.op = "usr1"
               PROVE  Calm
    OBVIOUS
  <2>1. Slack = 0
    BY <1>1, ArcHere DEF Arc, op, SlackAt
  <2>2. Going /\ Ahead = 0
    BY <1>1, <2>1 DEF Going, Ahead, At
  <2> QED BY <2>2 DEF OnTime, Timed
<1>9. ~Going'
  BY <1>7 DEF Going
<1>10. Alone' /\ Tidy'
  BY <1>1, <1>4 DEF OnTime, Alone, Tidy
<1>11. AskedIdle'
  <2>1. "reset" \in pending' => op.op = "usr1" /\ jobs' = jobs
    BY <1>2, <1>4
  <2> QED BY <1>1, <1>4, <1>7, <1>8, <1>9, <2>1 DEF AskedIdle, Calm
<1>12. Sweeping' /\ Timed'
  BY <1>1, <1>9 DEF OnTime, Sweeping, Timed
<1> QED BY <1>10, <1>11, <1>12 DEF OnTime

(* From one part of the script to the next the route goes on, or ends.     *)
LEMMA TurnOnTime ==
  ASSUME Typed, OnTime, d.name \in Resetters, Turn
  PROVE  OnTime'
<1>1. /\ out.how = "running" /\ d.k > Len(Ops)
      /\ UNCHANGED <<pc, handler, todo, busy, queue, pending, jobs>>
  BY DEF Turn, vars, ctl
<1>2. /\ d.part \in Parts /\ d.i \in 1..Trials /\ d.k = Len(Ops) + 1 /\ Len(Ops) \in Nat
      /\ d.part = "between" => d.i < LastTrial
  <2>1. Sound(Ops, Kinds(d.name))
    BY Scripts DEF Typed, DriverTyped, Ops, Mine
  <2>2. Len(Ops) \in Nat
    BY <2>1 DEF Sound
  <2> QED BY <1>1, <2>2 DEF Typed, DriverTyped
<1>3. \A what : ~At(what)
  BY <1>1, <1>2 DEF At, Working
<1>4. "reset" \notin pending
  BY <1>1, <1>3 DEF OnTime, AskedIdle
<1>5. Ahead = Slack /\ Slack \in Int /\ Slack = SlackAt(d.part, Len(Ops) + 1)
  BY <1>2, <1>3, ArcHere DEF Ahead
<1>6. Alone' /\ Tidy' /\ AskedIdle'
  BY <1>1, <1>4 DEF OnTime, Alone, Tidy, AskedIdle
<1>7. CASE ~Going'
  BY <1>1, <1>6, <1>7 DEF OnTime, Sweeping, Timed
<1>8. CASE out' = out /\ Slack' = Slack /\ Ahead' = Slack
  <2>1. (Going' <=> Going) /\ Ahead' = Ahead
    BY <1>5, <1>8 DEF Going
  <2>2. Going => \A j \in jobs : Soon(j)
    BY <1>3 DEF OnTime, Timed, Joining
  <2>3. \A j \in jobs : Going => Soon(j)'
    BY <2>1, <2>2 DEF Soon, Due
  <2>4. Timed'
    BY <1>1, <2>1, <2>3 DEF OnTime, Timed, Calm
  <2> QED BY <1>1, <1>6, <2>1, <2>4 DEF OnTime, Sweeping
<1>9. CASE d.part = "fin"
  <2>1. out'.how \in {"raised", "ended"}
    BY <1>9 DEF Turn, Typed, DriverTyped
  <2> QED BY <1>7, <2>1 DEF Going
<1>10. ASSUME NEW part \in Parts, NEW i \in 1..Trials, d' = Position(part, i, 1), out' = out,
              SlackAt(part, 1) \in {-1, SlackAt(d.part, Len(Ops) + 1)}
       PROVE  OnTime'
  <2>1. 1 \in 1..(Len(Mine[part]) + 1)
    BY Scripts DEF Mine, Sound, Typed, DriverTyped
  <2>2. Slack' = SlackAt(part, 1) /\ Ahead' = Slack'
    BY <1>10, <2>1, Arrives
  <2>3. Slack' = -1 => ~Going'
    BY DEF Going
  <2> QED BY <1>5, <1>7, <1>8, <1>10, <2>2, <2>3
<1>11. /\ Mine.trials = 0 => SlackAt("pre", Len(Mine["pre"]) + 1) = SlackAt("fin", 1)
       /\ Mine.trials > 0 => SlackAt("pre", Len(Mine["pre"]) + 1) = SlackAt("trial", 1)
       /\ SlackAt("fin", 1) \in {-1, SlackAt("trial", Len(Mine["trial"]) + 1)}
       /\ Mine.trials > 1 =>
            /\ SlackAt("trial", Len(Mine["trial"]) + 1) = SlackAt("between", 1)
            /\ SlackAt("between", Len(Mine["between"]) + 1) = SlackAt("trial", 1)
  BY RouteFound DEF Linked, SlackAt
<1>12. LastTrial = Mine.trials /\ FirstTrial = 1 /\ Mine.trials \in 0..2
  <2>1. d.name # "e7b"
    BY DEF Resetters
  <2> QED BY <2>1, Scripts DEF LastTrial, FirstTrial, Mine, Typed, DriverTyped, Trials
<1>13. CASE d.part = "pre"
  <2>1. out' = out /\ Len(Ops) = Len(Mine["pre"])
    BY <1>13 DEF Turn, Ops
  <2>2. CASE Mine.trials > 0
    <3>1. d' = Position("trial", 1, 1)
      BY <1>12, <1>13, <2>2 DEF Turn
    <3>2. SlackAt("trial", 1) = SlackAt(d.part, Len(Ops) + 1)
      BY <1>11, <1>13, <2>1, <2>2
    <3> QED BY <1>10, <2>1, <3>1, <3>2 DEF Parts, Trials
  <2>3. CASE Mine.trials = 0
    <3>1. PICK i \in 1..Trials : d' = Position("fin", i, 1)
      BY <1>2, <1>12, <1>13, <2>3 DEF Turn
    <3>2. SlackAt("fin", 1) = SlackAt(d.part, Len(Ops) + 1)
      BY <1>11, <1>13, <2>1, <2>3
    <3> QED BY <1>10, <2>1, <3>1, <3>2 DEF Parts
  <2> QED BY <1>12, <2>2, <2>3
<1>14. CASE d.part = "trial"
  <2>1. out' = out /\ Len(Ops) = Len(Mine["trial"]) /\ d' = AfterTrial(d.i)
    BY <1>14 DEF Turn, Ops
  <2>2. CASE d.i < Mine.trials
    <3>1. PICK i \in 1..Trials : d' = Position("between", i, 1)
      BY <1>2, <1>12, <2>1, <2>2 DEF AfterTrial
    <3>2. Mine.trials > 1
      BY <1>2, <1>12, <2>2 DEF Trials
    <3>3. SlackAt("between", 1) = SlackAt(d.part, Len(Ops) + 1)
      BY <1>11, <1>14, <2>1, <3>2
    <3> QED BY <1>10, <2>1, <3>1, <3>3 DEF Parts
  <2>3. CASE ~(d.i < Mine.trials)
    <3>1. PICK i \in 1..Trials : d' = Position("fin", i, 1)
      BY <1>2, <1>12, <2>1, <2>3 DEF AfterTrial
    <3>2. SlackAt("fin", 1) \in {-1, SlackAt(d.part, Len(Ops) + 1)}
      BY <1>11, <1>14, <2>1
    <3> QED BY <1>10, <2>1, <3>1, <3>2 DEF Parts
  <2> QED BY <2>2, <2>3
<1>15. CASE d.part = "between"
  <2>1. out' = out /\ Len(Ops) = Len(Mine["between"]) /\ d' = Position("trial", d.i + 1, 1)
    BY <1>15 DEF Turn, Ops
  <2>2. Mine.trials > 1 /\ d.i + 1 \in 1..Trials
    BY <1>2, <1>12, <1>15 DEF Trials
  <2>3. PICK i \in 1..Trials : d' = Position("trial", i, 1)
    BY <2>1, <2>2
  <2>4. SlackAt("trial", 1) = SlackAt(d.part, Len(Ops) + 1)
    BY <1>11, <1>15, <2>1, <2>2
  <2> QED BY <1>10, <2>1, <2>3, <2>4 DEF Parts
<1> QED BY <1>2, <1>9, <1>13, <1>14, <1>15 DEF Parts

LEMMA TailOfTwo ==
  ASSUME NEW g \in Seq(Nat), Len(g) = 2
  PROVE  Len(Tail(g)) = 1 /\ Tail(g)[1] = g[2] /\ g[2] \in Nat
<1>1. g # << >>
  <2>1. Len(<< >>) = 0
    OBVIOUS
  <2> SUFFICES ASSUME g = << >>
               PROVE  FALSE
    OBVIOUS
  <2>2. Len(g) = 0
    BY Zenon, <2>1
  <2> QED BY ONLY <2>2, Len(g) = 2
<1>2. Len(Tail(g)) = Len(g) - 1 /\ \A k \in 1..Len(Tail(g)) : Tail(g)[k] = g[k + 1]
  BY <1>1, HeadTailProperties, Zenon
<1>3. PICK t, n, m : t = Tail(g) /\ n = Len(g) /\ m = Len(t) /\ m = n - 1 /\ n = 2
                     /\ \A k \in 1..m : t[k] = g[k + 1]
  BY <1>2
<1>4. m = 1 /\ t[1] = g[2]
  BY ONLY <1>3
<1>5. 2 \in 1..Len(g)
  BY ONLY Len(g) = 2
<1>6. g[2] \in Nat
  BY ONLY <1>5, g \in Seq(Nat), ElementOfSeq
<1> QED BY <1>3, <1>4, <1>6, Zenon

LEMMA PacketOnTime ==
  ASSUME Typed, OnTime, d.name \in Resetters, Packet
  PROVE  OnTime'
<1>1. UNCHANGED <<d, out>>
  BY DEF Packet
<1>2. PICK job \in jobs :
        /\ job.gaps[1] = 0
        /\ Forward(<<job.i, Len(sent[job.i]) + 1>>)
        /\ jobs' = (jobs \ {job}) \cup (IF Len(job.gaps) = 1 THEN {} ELSE {[job EXCEPT !.gaps = Tail(@)]})
  BY DEF Packet
<1>3. UNCHANGED <<pc, handler, todo, busy, pending>>
  BY <1>2 DEF Forward, ctl
<1>4. /\ (Going' <=> Going) /\ Ahead' = Ahead /\ \A what : At(what)' <=> At(what)
  BY <1>1, DriverStill
<1>5. "reset" \notin pending /\ ~Calm
  BY <1>2 DEF OnTime, AskedIdle, Calm
<1>6. Alone' /\ Tidy' /\ AskedIdle' /\ Sweeping'
  BY <1>3, <1>4, <1>5 DEF OnTime, Alone, Tidy, AskedIdle, Sweeping
<1>7. ASSUME Going, NEW j \in jobs
      PROVE  (Joining(j) \/ Soon(j))'
  <2>1. Joining(j) \/ Soon(j)
    BY <1>7 DEF OnTime, Timed
  <2> QED BY <1>1, <1>4, <2>1 DEF Joining, Soon, Due
<1>8. ASSUME Going, Len(job.gaps) # 1, NEW rest, rest = [job EXCEPT !.gaps = Tail(@)]
      PROVE  (Joining(rest) \/ Soon(rest))'
  <2>1. job.gaps \in Seq(Nat) \ {<< >>} /\ job \in JobOf
    BY DEF Typed, HandsTyped, JobOf
  <2>2. rest.i = job.i /\ rest.gaps = Tail(job.gaps)
    BY <1>8, <2>1 DEF JobOf
  <2>3. CASE Joining(job)
    BY <1>1, <1>4, <2>2, <2>3 DEF Joining
  <2>4. CASE Soon(job)
    <3>1. PICK g \in Seq(Nat) : g = job.gaps
      BY <2>1
    <3>2. Len(g) \in Nat /\ Len(g) # 0 /\ Len(g) # 1
      BY <1>8, <2>1, <3>1
    <3>3. Len(g) <= 2
      BY <2>4, <3>1 DEF Soon
    <3>4. Len(g) = 2
      <4>1. PICK n \in Nat : n = Len(g)
        BY <3>2
      <4> QED BY ONLY <3>2, <3>3, <4>1
    <3>5. Len(Tail(g)) = 1 /\ Tail(g)[1] = g[2] /\ g[2] \in Nat
      BY <3>4, TailOfTwo
    <3>6. g[1] = 0 /\ g[1] + g[2] < Ahead
      BY <1>2, <2>4, <3>1, <3>4 DEF Soon, Due
    <3>7. rest.gaps = Tail(g)
      BY <2>2, <3>1
    <3>8. Len(rest.gaps) = 1 /\ rest.gaps[1] < Ahead'
      BY ONLY <1>4, <3>5, <3>6, <3>7
    <3> QED BY <3>8 DEF Soon, Due
  <2> QED BY <1>8, <2>3, <2>4 DEF OnTime, Timed
<1>9. Going => \A j \in jobs' : (Joining(j) \/ Soon(j))'
  BY <1>2, <1>7, <1>8
<1>10. Timed'
  BY <1>4, <1>5, <1>9 DEF OnTime, Timed
<1> QED BY <1>6, <1>10 DEF OnTime

LEMMA JobTicks ==
  ASSUME NEW j \in JobOf, NEW step \in Nat, step <= j.gaps[1],
         NEW later, later = [j EXCEPT !.gaps[1] = @ - step]
  PROVE  /\ later.i = j.i /\ Len(later.gaps) = Len(j.gaps)
         /\ Due(j) \in Nat /\ Due(later) \in Nat /\ Due(later) = Due(j) - step
<1>1. j.gaps \in Seq(Nat) \ {<< >>} /\ later = [j EXCEPT !.gaps = [j.gaps EXCEPT ![1] = j.gaps[1] - step]]
  BY DEF JobOf
<1>2. PICK g, h : g \in Seq(Nat) /\ g = j.gaps /\ g # << >> /\ h = [g EXCEPT ![1] = g[1] - step]
  BY <1>1
<1>3. later.i = j.i /\ later.gaps = h
  BY <1>1, <1>2 DEF JobOf
<1>4. Len(g) \in Nat /\ Len(g) # 0 /\ g[1] \in Nat /\ step <= g[1]
  BY <1>2
<1>5. g[1] - step \in Nat
  BY <1>4
<1>6. h \in Seq(Nat) /\ Len(h) = Len(g) /\ h[1] = g[1] - step
  BY <1>2, <1>4, <1>5
<1>7. Len(g) = 2 => h[2] = g[2] /\ g[2] \in Nat
  BY <1>2, <1>4
<1>8. Due(j) = (IF Len(g) = 2 THEN g[1] + g[2] ELSE g[1])
      /\ Due(later) = (IF Len(g) = 2 THEN h[1] + h[2] ELSE h[1])
  BY <1>2, <1>3, <1>6 DEF Due
<1>9. CASE Len(g) = 2
  <2>1. PICK p, q : p = g[1] /\ q = g[2]
    OBVIOUS
  <2>2. /\ p \in Nat /\ q \in Nat /\ p - step \in Nat
        /\ Due(j) = p + q /\ Due(later) = (p - step) + q
    BY ONLY <1>4, <1>5, <1>6, <1>7, <1>8, <1>9, <2>1
  <2>3. Due(j) \in Nat /\ Due(later) \in Nat /\ Due(later) = Due(j) - step
    BY ONLY <2>2, step \in Nat
  <2> QED BY <1>2, <1>3, <1>6, <2>3
<1>10. CASE Len(g) # 2
  <2>1. Due(j) \in Nat /\ Due(later) \in Nat /\ Due(later) = Due(j) - step
    BY ONLY <1>4, <1>5, <1>6, <1>8, <1>10
  <2> QED BY <1>2, <1>3, <1>6, <2>1
<1> QED BY <1>9, <1>10

(* Time goes on for the reset, the emissions and the driver alike.         *)
LEMMA TickOnTime ==
  ASSUME Typed, OnTime, InStep, d.name \in Resetters, Tick
  PROVE  OnTime'
<1> DEFINE step == Min(Deadlines \ {0})
           Less(n) == IF n > 0 THEN n - step ELSE 0
<1>1. /\ \A j \in jobs : j.gaps[1] > 0
      /\ Deadlines \ {0} # {} /\ Settled /\ Blocked
      /\ d' = [d EXCEPT !.left = IF out.how = "running" THEN Less(@) ELSE @]
      /\ busy' = Less(busy) /\ jobs' = {[j EXCEPT !.gaps[1] = @ - step] : j \in jobs}
  BY DEF Tick
<1>2. UNCHANGED <<pc, handler, todo, pending, queue, out>>
  BY DEF Tick
<1>3. d.left \in Nat /\ busy \in Nat /\ jobs \subseteq JobOf /\ todo \in 1..9
      /\ pc \in {"idle", "record", "judge", "decide", "stuck", "down"}
      /\ handler \in {"none", "reset", "startup"}
  BY Steps DEF Typed, LoopTyped, HandsTyped, DriverTyped
<1>4. \A j \in jobs : j.gaps \in Seq(Nat) \ {<< >>} /\ j.gaps[1] \in Nat
  BY <1>3 DEF JobOf
<1>5. Deadlines \ {0} \subseteq Nat
  BY <1>3, <1>4 DEF Deadlines
<1>6. step \in Nat /\ step # 0 /\ \A n \in Deadlines \ {0} : step <= n
  BY <1>1, <1>5, LeastOf
<1>7. /\ busy \in Deadlines /\ \A j \in jobs : j.gaps[1] \in Deadlines
      /\ out.how = "running" => d.left \in Deadlines
  BY DEF Deadlines
<1> HIDE DEF step
<1>8. /\ busy > 0 => step <= busy /\ busy' = busy - step
      /\ busy = 0 => busy' = 0
      /\ out.how = "running" /\ d.left > 0 => step <= d.left /\ d'.left = d.left - step
      /\ \A j \in jobs : step <= j.gaps[1]
  BY <1>1, <1>3, <1>4, <1>6, <1>7 DEF Typed, DriverTyped
<1>9. d'.name = d.name /\ d'.part = d.part /\ d'.i = d.i /\ d'.k = d.k
  BY <1>1 DEF Typed, DriverTyped
<1>10. /\ op' = op /\ Slack' = Slack /\ (Working' <=> Working) /\ (\A what : At(what)' <=> At(what))
       /\ Going' <=> Going
  <2>1. Ops' = Ops /\ op' = op
    BY <1>9 DEF Ops, op, Mine
  <2>2. Working' <=> Working
    BY <1>2, <1>9, <2>1 DEF Working
  <2>3. Slack' = Slack
    BY <1>9 DEF Slack
  <2>4. \A what : At(what)' <=> At(what)
    BY <2>1, <2>2 DEF At
  <2>5. Going' <=> Going
    BY <1>2, <2>3 DEF Going
  <2> QED BY <2>1, <2>2, <2>3, <2>4, <2>5
<1>11. pc \notin {"stuck", "down"} /\ "reset" \notin pending
  <2>1. pc \notin {"stuck", "down"} /\ pending \subseteq {"reset", "dump"}
    BY DEF OnTime, Alone, InStep
  <2>2. pending = {} \/ (pending = {"reset"} /\ handler # "none")
    BY <1>1, <2>1 DEF Settled
  <2> QED BY <2>1, <2>2 DEF OnTime, AskedIdle
<1>12. (handler = "none" /\ pc = "idle" /\ queue = << >>) \/ (busy > 0 /\ handler = "reset" /\ todo = 7)
  <2>1. (handler = "none" /\ pc = "idle" /\ queue = << >>) \/ busy > 0
    BY <1>1, <1>11 DEF Settled, Running
  <2>2. busy > 0 => todo = 7 /\ handler = "reset"
    BY <1>3 DEF OnTime, Tidy, Alone
  <2> QED BY <2>1, <2>2
<1>13. Alone' /\ Tidy' /\ AskedIdle'
  <2>1. busy' > 0 => busy > 0
    BY <1>3, <1>8
  <2> QED BY <1>2, <1>11, <2>1 DEF OnTime, Alone, Tidy, AskedIdle
<1>14. CASE ~Going
  BY <1>2, <1>10, <1>13, <1>14 DEF OnTime, Sweeping, Timed
<1>15. CASE Going
  <2>1. Ahead \in Nat /\ out.how = "running" /\ Slack \in Int
    BY <1>15, ArcHere DEF OnTime, Timed, Going
  <2>2. busy = 0 \/ busy < Ahead
    <3>1. CASE handler = "none"
      BY <1>3, <3>1 DEF OnTime, Tidy
    <3>2. CASE handler = "reset" /\ todo = 7
      BY <1>15, <3>2 DEF OnTime, Sweeping
    <3> QED BY <1>12, <3>1, <3>2
  <2>3. CASE At("sleep")
    <3>1. d.left > 0
      BY <1>1, <1>3, <2>1, <2>3 DEF Blocked, At, Satisfied
    <3>2. Ahead = Slack - op.arg + d.left /\ Ahead' = Slack - op.arg + d'.left
      BY <1>10, <2>3 DEF Ahead
    <3>3. op.arg \in Nat /\ Slack - op.arg \in Nat
      <4>1. Slack # -1 /\ Arc(Ops, Route(d.name)[d.part], d.k) /\ op.op = "sleep"
            /\ Slack = Route(d.name)[d.part][d.k]
            /\ Route(d.name)[d.part][d.k + 1] \in Int
        BY <1>15, <2>3, ArcHere DEF Going, At, SlackAt
      <4>2. op.arg \in Nat /\ Route(d.name)[d.part][d.k + 1] >= 0
            /\ Slack = op.arg + Route(d.name)[d.part][d.k + 1]
        BY ONLY <4>1 DEF Arc, op
      <4> QED BY ONLY <4>1, <4>2
    <3>4. PICK rest \in Nat, ahead \in Nat, left \in Nat, then \in Nat :
            /\ rest = Slack - op.arg /\ ahead = Ahead /\ left = d.left /\ then = d'.left
            /\ ahead = rest + left /\ then = left - step /\ step <= left
      BY <1>3, <1>6, <1>8, <2>1, <3>1, <3>2, <3>3
    <3>5. Ahead' = Ahead - step /\ Ahead' \in Nat
      BY <1>6, <3>2, <3>4
    <3>6. busy' = 0 \/ busy' < Ahead'
      BY <1>3, <1>6, <1>8, <2>1, <2>2, <3>5
    <3>7. handler = "reset" => busy' < Ahead'
      BY <1>3, <1>6, <1>8, <1>12, <2>1, <2>2, <3>5
    <3>8. Sweeping'
      BY <1>2, <1>12, <3>7 DEF OnTime, Sweeping
    <3>9. \A later \in jobs' : Due(later) \in Nat /\ Soon(later)'
      <4> SUFFICES ASSUME NEW later \in jobs'
                   PROVE  Due(later) \in Nat /\ Soon(later)'
        OBVIOUS
      <4>1. PICK j \in jobs : later = [j EXCEPT !.gaps[1] = @ - step]
        BY <1>1
      <4>2. Soon(j)
        BY <1>15, <2>3 DEF OnTime, Timed, Joining, At
      <4>3. /\ Len(later.gaps) = Len(j.gaps)
            /\ Due(j) \in Nat /\ Due(later) \in Nat /\ Due(later) = Due(j) - step
        BY <1>3, <1>6, <1>8, <4>1, JobTicks
      <4>4. Due(later) < Ahead'
        BY <1>6, <2>1, <3>5, <4>2, <4>3 DEF Soon
      <4>5. Due(later)' = Due(later)
        BY DEF Due
      <4> QED BY <4>2, <4>3, <4>4, <4>5 DEF Soon
    <3>10. Ahead' = 0 => Calm'
      <4> SUFFICES ASSUME Ahead' = 0
                   PROVE  Calm'
        OBVIOUS
      <4>1. handler = "none" /\ pc = "idle" /\ queue = << >>
        BY <1>3, <1>8, <1>12, <3>7, <1>1, <1>6
      <4>2. jobs' = {}
        <5>1. \A later \in jobs' : Due(later) \in Nat /\ Due(later) < 0
          BY <3>9 DEF Soon, Due
        <5> QED BY <5>1
      <4> QED BY <1>2, <1>11, <4>1, <4>2 DEF Calm
    <3>11. Timed'
      BY <3>5, <3>9, <3>10 DEF Timed
    <3> QED BY <1>13, <3>8, <3>11 DEF OnTime
  <2>4. CASE ~At("sleep")
    <3>1. Ahead' = Ahead
      BY <1>10, <2>4 DEF Ahead
    <3>2. Sweeping'
      <4>1. handler = "reset" => busy < Ahead /\ busy' < Ahead
        BY <1>3, <1>6, <1>8, <1>12, <2>1, <2>2
      <4> QED BY <1>2, <1>12, <3>1, <4>1 DEF OnTime, Sweeping
    <3>3. \A later \in jobs' : (Joining(later) \/ Soon(later))'
      <4> SUFFICES ASSUME NEW later \in jobs'
                   PROVE  (Joining(later) \/ Soon(later))'
        OBVIOUS
      <4>1. PICK j \in jobs : later = [j EXCEPT !.gaps[1] = @ - step]
        BY <1>1
      <4>2. /\ later.i = j.i /\ Len(later.gaps) = Len(j.gaps)
            /\ Due(j) \in Nat /\ Due(later) \in Nat /\ Due(later) = Due(j) - step
        BY <1>3, <1>6, <1>8, <4>1, JobTicks
      <4>3. CASE Joining(j)
        BY <1>9, <1>10, <4>2, <4>3 DEF Joining
      <4>4. CASE Soon(j)
        <5>1. Due(later) < Ahead'
          BY <1>6, <2>1, <3>1, <4>2, <4>4 DEF Soon
        <5>2. Due(later)' = Due(later)
          BY DEF Due
        <5> QED BY <4>2, <4>4, <5>1, <5>2 DEF Soon
      <4> QED BY <1>15, <4>3, <4>4 DEF OnTime, Timed
    <3>4. Ahead' = 0 => Calm'
      <4>1. Ahead = 0 => Calm
        BY <1>15 DEF OnTime, Timed
      <4>2. jobs = {} => jobs' = {}
        BY <1>1
      <4> QED BY <1>2, <3>1, <4>1, <4>2 DEF Calm
    <3>5. Timed'
      BY <2>1, <3>1, <3>3, <3>4 DEF Timed
    <3> QED BY <1>13, <3>2, <3>5 DEF OnTime
  <2> QED BY <2>3, <2>4
<1> QED BY <1>14, <1>15

-----------------------------------------------------------------------------
(* The other drivers ask for no reset.                                     *)
OtherOps == LabOps \ {"usr1"}
LEMMA SoundOther ==
  /\ \A what \in OtherOps \ {"emit"}, err \in Outcomes : Sound(Do(what, err), OtherOps)
  /\ \A n \in Nat : Sound(Sleep(n), OtherOps)
  /\ \A what \in OtherOps \ {"emit"}, n \in Nat, err \in Outcomes : Sound(Op(what, n, err), OtherOps)
  /\ \A err \in Outcomes : Sound(Emit(Burst, err), OtherOps)
<1>1. \A what \in OtherOps \ {"emit"}, err \in Outcomes : Sound(Do(what, err), OtherOps)
  BY SoundOp DEF Do
<1>2. \A n \in Nat : Sound(Sleep(n), OtherOps)
  BY SoundOp DEF Sleep, OtherOps, LabOps, Outcomes
<1>3. \A what \in OtherOps \ {"emit"}, n \in Nat, err \in Outcomes : Sound(Op(what, n, err), OtherOps)
  BY SoundOp
<1>4. ASSUME NEW gaps \in Seq(Nat) \ {<< >>}, NEW err \in Outcomes
      PROVE  Sound(Emit(gaps, err), OtherOps)
  BY DEF Sound, Do, Op, OpOf, Emit, Outcomes, Waiting, OtherOps, LabOps
<1> QED BY <1>1, <1>2, <1>3, <1>4, DriversAssumption

LEMMA OtherScripts ==
  \A name \in {"t1_7", "m4", "m4_restart"} : SoundDriver(Script[name], OtherOps)
<1> USE SoundNil, SoundCat, SoundOther, DriversAssumption DEF Outcomes, OtherOps, LabOps
<1>1. SoundDriver(t1_7, OtherOps)
  BY DEF t1_7, Plain, Trials, SoundDriver, inspect_table_shape, t1_7_stop,
         install_allow_entries, cleanup_allow_entries, t1_7_start
<1>2. /\ Sound(push_and_sign, OtherOps) /\ Sound(wait_for_reload, OtherOps)
      /\ Sound(M4Trial, OtherOps) /\ Sound(restore_canonical, OtherOps)
      /\ Sound(stop_controller, OtherOps) /\ Sound(start_controller_and_wait, OtherOps)
  BY DEF push_and_sign, wait_for_reload, M4Trial, replay_pcap, restore_canonical, stop_controller,
         start_controller_and_wait
<1>3. SoundDriver(m4, OtherOps)
  BY <1>2 DEF m4, Plain, Trials, SoundDriver
<1>4. SoundDriver(m4_restart, OtherOps)
  BY <1>2 DEF m4_restart, Plain, Trials, SoundDriver
<1> QED BY <1>1, <1>3, <1>4 DEF Script

LEMMA NoReset ==
  ASSUME Typed, Working, d.name \notin Resetters
  PROVE  op.op # "usr1"
<1>1. d.name \in {"t1_7", "m4", "m4_restart", "e7b"} /\ d.part \in Parts
  BY CampaignAssumption DEF Typed, DriverTyped, Script, Resetters
<1>2. CASE d.name = "e7b"
  BY <1>2, AtWork DEF Kinds, FileOps
<1>3. CASE d.name \in {"t1_7", "m4", "m4_restart"}
  <2>1. Sound(Ops, OtherOps)
    BY <1>1, <1>3, OtherScripts DEF SoundDriver, Ops, Mine, Parts
  <2>2. d.k \in 1..Len(Ops)
    BY AtWork
  <2>3. op \in OpOf(OtherOps)
    BY <2>1, <2>2 DEF Sound, op
  <2> QED BY <2>3 DEF OpOf, OtherOps
<1> QED BY <1>1, <1>2, <1>3

LEMMA NotAskedFor ==
  ASSUME Typed, Working, d.name \notin Resetters, "reset" \notin pending, Effect \/ Hears
  PROVE  "reset" \notin pending'
<1>1. CASE Signal
  <2>1. op.op \in {"usr2", "stop", "start"}
    BY <1>1, NoReset DEF Signal, Signals
  <2>2. Signals[op.op] # "reset"
    BY <2>1 DEF Signals
  <2> QED BY <1>1, <2>2 DEF Signal
<1>2. CASE ~Signal
  BY <1>2 DEF Effect, Hears, TakeHands, preflight_check, WriteDisk, Rows, WriteFiles, Launch,
     send_packet, Forward, Missed, SentUnheard
<1> QED BY <1>1, <1>2

(* Only the controller's own steps touch what it judges by; a failure that *)
(* is shown, or lost, stays so.                                            *)
LEMMA DriverApart ==
  ASSUME [Next]_allVars, ~Controller
  PROVE  UNCHANGED <<pc, rec, handler, epoch, log>>
<1>1. CASE Works
  BY <1>1 DEF Works, OutOfReach, ctl
<1>2. CASE Fails \/ FindsNothing
  BY <1>2, Zenon DEF Fails, FindsNothing, OutOfReach, ctl
<1>3. CASE Packet
  <2>1. \E tag : Forward(tag)
    BY <1>3, Zenon DEF Packet
  <2> QED BY <2>1 DEF Forward, ctl
<1>4. CASE Tick
  BY <1>4 DEF Tick
<1>5. CASE Suspend \/ Turn \/ Kill \/ Resume \/ Halt \/ Over \/ UNCHANGED allVars
  BY <1>5 DEF Suspend, Turn, Kill, Resume, Halt, Over, allVars, vars, ctl
<1> QED BY <1>1, <1>2, <1>3, <1>4, <1>5 DEF Next

LEMMA QuietBefore ==
  ASSUME Typed, [Next]_allVars, Quiet'
  PROVE  Quiet
<1>1. DOMAIN out = {"how", "raised", "noted", "lost"}
  BY DEF Typed, DriverTyped
<1>2. CASE Fails \/ FindsNothing
  <2>1. Trouble
    BY <1>2, Zenon DEF Fails, FindsNothing
  <2>2. out.noted \subseteq out'.noted /\ out.lost \subseteq out'.lost
    BY <1>1, <2>1 DEF Trouble, RaiseIn, Noted
  <2> QED BY <2>2 DEF Quiet
<1>3. CASE Suspend \/ Turn \/ Kill \/ Resume
  <2>1. out'.noted = out.noted /\ out'.lost = out.lost
    BY <1>1, <1>3 DEF Suspend, Turn, Kill, Resume
  <2> QED BY <2>1 DEF Quiet
<1>4. CASE Works \/ Packet \/ Tick \/ Halt \/ Controller \/ Over \/ UNCHANGED allVars
  <2>1. out' = out
    BY <1>4 DEF Works, Packet, Tick, Halt, Controller, Over, allVars, drvVars
  <2> QED BY <2>1 DEF Quiet
<1> QED BY <1>2, <1>3, <1>4 DEF Next

(* As long as no failure is shown or lost, a driver that resets keeps to   *)
(* its route, and the controller is in step with it; with any other there  *)
(* is no reset at all.                                                     *)
OnRoute == OnTime /\ Logged /\ InStep
ResetFree == handler # "reset" /\ "reset" \notin pending /\ Logged /\ InStep
Unhurried ==
  /\ d.name \in Resetters /\ Quiet => OnRoute
  /\ d.name \notin Resetters => ResetFree

LEMMA RouteKept ==
  ASSUME ShortResets, Typed, OnRoute, d.name \in Resetters, [Next]_allVars, Quiet'
  PROVE  OnRoute'
<1>1. OnTime /\ Logged /\ InStep
  BY DEF OnRoute
<1>2. CASE Controller
  <2>1. Step /\ UNCHANGED <<d, out, jobs>>
    BY <1>2 DEF Controller, drvVars
  <2>2. handle_reset => pc = "idle"
    BY <1>1 DEF handle_reset, OnTime, AskedIdle
  <2>3. write_markers => pc = "idle"
    BY <1>1 DEF write_markers, OnTime, Sweeping
  <2>4. OnTime'
    BY <1>1, <2>1, StepOnTime
  <2>5. Logged' /\ InStep'
    BY <1>1, <2>1, <2>2, <2>3, StepInStep
  <2> QED BY <2>4, <2>5 DEF OnRoute
<1>3. CASE ~Controller
  <2>1. Logged' /\ InStep'
    BY <1>1, <1>3, DriverApart, InStepSame
  <2>2. Works => OnTime'
    BY <1>1, WorksOnTime
  <2>3. Fails \/ FindsNothing => OnTime'
    BY <1>1, TroubleOnTime
  <2>4. Turn \/ Packet \/ Tick => OnTime'
    BY <1>1, TurnOnTime, PacketOnTime, TickOnTime
  <2>5. Kill \/ Suspend => OnTime'
    <3> SUFFICES ASSUME Kill \/ Suspend
                 PROVE  OnTime'
      OBVIOUS
    <3>1. /\ UNCHANGED <<pc, handler, todo, busy, queue, pending, jobs>>
          /\ out'.how \in {"killed", "suspended"}
      BY DEF Kill, Suspend, vars, ctl, Typed, DriverTyped
    <3>2. ~Going' /\ out'.how # "running"
      BY <3>1 DEF Going
    <3>3. Alone' /\ Tidy'
      BY <1>1, <3>1 DEF OnTime, Alone, Tidy
    <3>4. AskedIdle' /\ Sweeping' /\ Timed'
      BY <1>1, <3>1, <3>2 DEF OnTime, AskedIdle, Sweeping, Timed
    <3> QED BY <3>3, <3>4 DEF OnTime
  <2>6. ~Resume /\ ~Halt
    BY DEF Resume, Halt, Resetters
  <2>7. Over \/ UNCHANGED allVars => OnTime'
    <3> SUFFICES ASSUME Over \/ UNCHANGED allVars
                 PROVE  OnTime'
      OBVIOUS
    <3>1. UNCHANGED <<pc, handler, todo, busy, queue, pending, jobs, d, out>>
      BY DEF Over, allVars, vars, drvVars, ctl
    <3>2. /\ (Going' <=> Going) /\ Ahead' = Ahead /\ \A what : At(what)' <=> At(what)
      BY <3>1, DriverStill
    <3>3. Alone' /\ Tidy' /\ AskedIdle' /\ Sweeping'
      BY <1>1, <3>1, <3>2 DEF OnTime, Alone, Tidy, AskedIdle, Sweeping
    <3>4. ASSUME NEW j \in jobs, Joining(j) \/ Soon(j)
          PROVE  (Joining(j) \/ Soon(j))'
      BY <3>1, <3>2, <3>4 DEF Joining, Soon, Due
    <3>5. Timed'
      BY <1>1, <3>1, <3>2, <3>4 DEF OnTime, Timed, Calm
    <3> QED BY <3>3, <3>5 DEF OnTime
  <2>8. OnTime'
    BY <1>3, <2>2, <2>3, <2>4, <2>5, <2>6, <2>7 DEF Next
  <2> QED BY <2>1, <2>8 DEF OnRoute
<1> QED BY <1>2, <1>3

LEMMA ResetFreeKept ==
  ASSUME Typed, ResetFree, d.name \notin Resetters, [Next]_allVars
  PROVE  ResetFree'
<1>1. handler # "reset" /\ "reset" \notin pending /\ Logged /\ InStep
  BY DEF ResetFree
<1>2. CASE Controller
  <2>1. Step /\ ~handle_reset /\ ~write_markers
    BY <1>1, <1>2 DEF Controller, handle_reset, write_markers
  <2>2. Logged' /\ InStep'
    BY <1>1, <2>1, StepInStep
  <2>3. handler' \in {handler, "none", "startup"} /\ pending' \subseteq pending
    BY <2>1 DEF Step, Receive, Recorded, evaluate_hold, _log_decision, reset_step, reset_step_fails,
       override_row_stays, startup_done, handle_dump_state, handle_stop, run, Reload, ctl
  <2> QED BY <1>1, <2>2, <2>3 DEF ResetFree
<1>3. CASE ~Controller
  <2>1. Logged' /\ InStep' /\ handler' = handler
    BY <1>1, <1>3, DriverApart, InStepSame
  <2>2. Works => "reset" \notin pending'
    BY <1>1, NotAskedFor DEF Works, Ready
  <2>3. ASSUME Fails \/ FindsNothing
        PROVE  "reset" \notin pending'
    <3>1. Working /\ (Effect \/ Hears)
      BY <2>3, Zenon DEF Fails, FindsNothing, Ready, Effect, Hears
    <3> QED BY <1>1, <3>1, NotAskedFor
  <2>4. ASSUME Packet
        PROVE  pending' = pending
    <3>1. \E tag : Forward(tag)
      BY <2>4, Zenon DEF Packet
    <3> QED BY <3>1 DEF Forward
  <2>5. Suspend \/ Turn \/ Tick \/ Kill \/ Resume \/ Halt \/ Over \/ UNCHANGED allVars
          => pending' = pending
    BY DEF Suspend, Turn, Tick, Kill, Resume, Halt, Over, allVars, vars
  <2>6. "reset" \notin pending'
    BY <1>1, <1>3, <2>2, <2>3, <2>4, <2>5 DEF Next
  <2> QED BY <1>1, <2>1, <2>6 DEF ResetFree
<1> QED BY <1>2, <1>3

LEMMA UnhurriedInit == Init => Unhurried
<1> SUFFICES ASSUME Init
             PROVE  Unhurried
  OBVIOUS
<1>1. /\ pc = "idle" /\ handler = "none" /\ queue = << >> /\ pending = {} /\ jobs = {} /\ busy = 0
      /\ log = << >> /\ rec = NoDigest
  BY Zenon DEF Init, LoopInit
<1>2. Logged /\ InStep
  <2>1. log \in Seq({})
    BY <1>1
  <2> QED BY <1>1, <2>1 DEF Logged, InStep, NoDigest
<1>3. ResetFree
  BY <1>1, <1>2 DEF ResetFree
<1>4. ASSUME d.name \in Resetters
      PROVE  OnTime
  <2>1. Typed
    BY TypedInit
  <2>2. d.part = "pre" /\ d.k = 1 /\ d.left = Delay(Ops, 1)
    <3>1. PICK name \in Driver :
            d = [name |-> name, part |-> "pre", i |-> 1, k |-> 1, left |-> Delay(Script[name].pre, 1)]
      BY DEF Init
    <3> QED BY <3>1 DEF Ops, Mine
  <2>3. Slack \in Int /\ Slack >= -1 /\ (Working => Arc(Ops, Route(d.name)[d.part], 1))
    <3>1. Linked(Mine, Route(d.name))
      BY <1>4, RouteFound
    <3> QED BY <1>4, <2>1, <2>2, <3>1, ArcHere DEF Linked, SlackAt
  <2>4. Ahead = Slack
    <3>1. CASE At("sleep")
      <4>1. op.op = "sleep" /\ op = Ops[1] /\ Working /\ d.left = op.arg
        BY <2>2, <3>1 DEF At, Working, op, Delay, Waiting
      <4>2. op.arg \in Nat
        BY <2>3, <4>1 DEF Arc
      <4> QED BY <2>3, <3>1, <4>1, <4>2 DEF Ahead
    <3>2. CASE ~At("sleep")
      BY <3>2 DEF Ahead
    <3> QED BY <3>1, <3>2
  <2>5. Timed
    BY <1>1, <2>3, <2>4 DEF Timed, Going, Calm
  <2> QED BY <1>1, <2>5 DEF OnTime, Alone, Tidy, AskedIdle, Sweeping
<1> QED BY <1>2, <1>3, <1>4 DEF Unhurried, OnRoute

LEMMA UnhurriedStep ==
  ASSUME ShortResets, Typed, Unhurried, [Next]_allVars
  PROVE  Unhurried'
<1>1. d'.name = d.name
  BY NameKept
<1>2. CASE d.name \in Resetters
  <2>1. Quiet' => OnRoute'
    BY <1>2, QuietBefore, RouteKept DEF Unhurried
  <2> QED BY <1>1, <1>2, <2>1 DEF Unhurried
<1>3. CASE d.name \notin Resetters
  BY <1>1, <1>3, ResetFreeKept DEF Unhurried
<1> QED BY <1>2, <1>3

(* When the writes of the session slots take less than the 15 s that the   *)
(* longest of the drivers' waits was made for (sweep.py), a reset that a   *)
(* driver asks for finds the controller between two digests and is over    *)
(* before the driver asks for another, unless an operation failed: no      *)
(* controller hangs in handle_reset's locks, and no decision is stamped    *)
(* with another epoch than its digest.                                     *)
THEOREM ResetsFound ==
  ASSUME ShortResets
  PROVE  Spec => []ResetsQuiet
<1>1. Unhurried => ResetsQuiet
  BY DEF Unhurried, OnRoute, ResetFree, InStep, ResetsQuiet
<1>2. Typed /\ Unhurried /\ [Next]_allVars => Unhurried'
  BY UnhurriedStep
<1> QED BY <1>1, <1>2, UnhurriedInit, TypedHolds, PTL DEF Spec
===============================================================================
