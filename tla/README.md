# OTA-Shield: specifications and proofs

OTA-Shield guards over-the-air firmware updates of a fleet of battery management
systems (BMSs). A P4 pipeline on a Tofino switch (`src/p4src`) watches MQTT pushes,
fires rules R1 to R6 and passes, holds or drops each packet; a Python controller
(`src/controller`) decides on the held ones against a signed rollout manifest (the
*RAT*) and writes short-lived override rows back into the switch. `src/experiments`
drives both for the measurements of the paper.

This directory holds TLA+ modules of the pipeline, the controller, the traffic, the
experiment drivers and the offline tools, TLC configurations that check them, and
proofs of the main properties of pipeline and controller.

    tlc -workers 2 -config DataPlane.cfg MCDataPlane     # one run
    tlapm DataPlaneProofs.tla                            # one set of proofs

`PROJECT.json` lists every run, property, theorem and finding, and gives for each
definition the lines of source it stands for.

## 1. Inventory

| Component | State | Operations | What makes it correct |
|---|---|---|---|
| Ingress pipeline (`ingress_control`, `policy_engine`, `parser`) | match tables, `hold_armed_reg` | one per packet | verdict follows the rules in the stated order; an override is the only way round them |
| Session manager, R4 | `session_bytes_reg`, `session_first_ts_reg` by CRC32 slot | add, clear on FIN/RST | other flows reach a session's bytes only by a hash collision |
| Fleet monitor, R5 | `bf_r0..2`, `r5_count_reg` | test-and-set, count; cleared every window | counts unauthorised fan-out only |
| R1 | `coarse_time_reg`, `r1_last_seen_reg` | probe, gated commit | fires on a replay within 4 h and on nothing else |
| R6 | `r6_bms_max_version_reg` | probe, gated commit | exactly the highest authorised version |
| Clock, reseed, window threads | (write the registers above) | periodic RPCs, may fail | a stale write neither hides nor invents a replay |
| HOLD arbiter (`evaluate_hold`) | manifest cache, concurrency slots | one per HOLD/DROP digest | an ALLOW is justified by one entry; caps hold |
| Off-switch arbiter (`rat_arbiter`) | none | `arbitrate` | decides as `evaluate_hold` does |
| Override scheduler | override table, `_expiry_heap` | install, expire, drain on signals | no row outstays its entry for ever, none is forgotten |
| RAT lifecycle (`rat_lifecycle`) | `_entries`, `_last_signed`, `_active`; three files | load, hot reload, prune | only vetted manifests in force; a bad reload changes nothing |
| Startup tables | `r2_authorized_sources`, `bms_ip_to_idx` | filled once per life | each BMS has an index of its own |
| Detector reset, trial epoch, state dump, logs | epoch, error list, JSONL files | signal handlers on the main thread | a trial starts from a clean detector or says it does not; records say which trial they are of |
| Traffic scenarios | none (what is drawn is a parameter) | packs of pushes, pauses, markers, resets | the label of an event is what the detector can be expected to do with it |
| Experiment drivers (`sweep`, `run_*`, `t2_harness`) | offsets, backups, checkpoints, ground truth files | ssh operations, waits, slices, one after the other | a trial has its own decisions and its own ground truth; the lab is left as it was found |
| State check, preflights | none | reset, wait, dump, verdict; probe of a tampered manifest | a check that passes found a clean switch |
| Trial runner, manifest, integrity checker | trial directory | preflight, body, postflight, finalise; thirteen items | what the runner calls invalid is called valid later only when ten items outvote it |
| Reconciler, decision derivation, CPU detector | none | one pass over a recorded trial | a decision is joined to the packet that caused it; a second implementation decides alike |

**Interactions.** Packets and controller RPCs meet in the registers and tables of the
switch. Digests flow up (one per packet, in lists), rows and register values flow
down, one RPC at a time. Inside the controller the main thread takes digests and runs
the *signal handlers* (Python runs them between two bytecodes of the main thread);
the expiry, clock, window, reseed, watcher and pruner threads share state with it
under three locks. Operators write the manifest, its signature and its key as three
files. The switch keeps its tables and registers when the controller dies. The drivers
run on a third host: they signal the controller, write the manifest, start the traffic and
cut trials out of `decisions.jsonl`, by ssh, and mostly wait a fixed time for each effect.

**Hard behaviours.** RPCs between the packets of a rollout; a time read before an RPC
and written after it; a manifest swapped in the middle of a decision; a heap entry that
outlives the row it was made for; a signal handler that wants the lock its own thread
holds; a crash with rows in the switch; files read while they are written; 16-bit
clocks that go round; tables at their size; a driver that waits 4, 10 or 15 s for a reset
that takes about ten; an ssh command that took effect although its answer was lost; a
driver that dies with the lab changed or its plan half written. `hazards` in `PROJECT.json` lists them by
line with the properties that cover them.

## 2. Modules

`EXTENDS` or `INSTANCE` as indicated; each `MC*` module gives small sets to TLC.

| Module | Models | Runs | Proofs |
|---|---|---|---|
| `DataPlane` | the pipeline: one action per packet, one per kind of controller RPC | `data_plane`, `data_plane_cascade` (beside a twin) | `DataPlaneProofs` |
| `Poisoning` (EXTENDS and INSTANCEs `DataPlane`) | two pipelines, one of which sees no unauthorised packet | `data_plane`, `data_plane_cascade` | `DataPlaneProofs` |
| `ReplayWindow` | R1 against the threads that write its clock | `replay` | `ReplayWindowProofs` |
| `Arbiter` | `evaluate_hold`, caps, and `rat_arbiter` and `decision_derivation` beside it | `arbiter` | `ArbiterProofs` |
| `OverrideLease` | what an override promises: granted, never rewritten, ends | (abstract) | |
| `Overrides` (implements `OverrideLease`) | the threads, locks, signals and crashes behind it | `overrides`, `overrides_lease`, `overrides_stop` | `OverridesProofs` |
| `RatLifecycle` | files, loads, watcher, startup tables, restarts | `rat_lifecycle` | `RatLifecycleProofs` |
| `Scenarios`, `FleetScenarios` (EXTENDS it) | the traffic generators and their labels, as sequences | in `Testbed` | |
| `Offline` | reconciler, CPU detector | in `Testbed` | |
| `Testbed` (EXTENDS `FleetScenarios`, INSTANCEs `DataPlane`, `Arbiter`, `Offline`) | a trial from end to end, in milliseconds | `testbed`, `testbed_e22` | `TestbedProofs` |
| `MainLoop` | the controller's process as a driver sees it: digest loop, signals, reset, dump, reload | in `Campaign` | |
| `Drivers` | eighteen drivers as sequences of operations with their waits and error handling | in `Campaign` | |
| `Integrity` | the thirteen items of `integrity_checker` and its verdict | in `Campaign` | |
| `Campaign` (EXTENDS `MainLoop`, `Drivers`, INSTANCEs `Integrity`) | a driver at work on controller and traffic host, with faults | `campaign`, `campaign_e12b` | `CampaignProofs`, `OutcomeProofs` (EXTENDS it) |

### How state and actions correspond to the code

*DataPlane.* The variables are the registers and the override table. `Packet(p)` is the
whole apply block: `R1` .. `R6` are the range tables and SALU outputs, `Commits` the
`r2_fired == 0` gate of the commits of R1 and R6, `Policy`, `Overridden`, `Action` the
stages 9b to 9d, `Digest` the priority chain of stage 10. One packet is one step: a
register array is accessed in one stage of the pipeline, so packets are serial on each
register. Every register or row the controller can write is an action of its own that may
happen at any time, so what holds here holds for any schedule of the controller.
Addresses are model values, hashes are constants (collisions are chosen by the run),
bytes are counted in chunks. `accepted` is a history variable. The registers of the
unindexed BMSs are absent, as `bms_known = 0` keeps packets from them.

*ReplayWindow.* `coarse` is the 32-bit clock register, `lastSeen` the slots. `clock` is
`_coarse_time_loop` between reading the time and its RPC; `seed` is `init_r1_register`
on the reseed thread and on the main thread (a reset), with its two RPCs apart and each
of them failing or not.

*Arbiter.* A decision goes `Take` (digest, R6 gate, terminal rules, R1 gate) ->
`LookUp` (the HOLD path's own lookup and clock reading) -> `check_and_record` ->
`Install`. Time windows, size ranges and rollback windows are sets. `Gate`, `Match`
are pure, so that `EvaluateHold` and `Arbitrate` can be compared as functions.

*Overrides.* `EntryDel`, `EntryAdd`, `Acquire`, `PushExpiry` are
`install_session_override` an RPC or lock operation at a time, `ExpiryPop` and
`ExpiryDelete` the two halves of `_expiry_loop`, `Drain` and `Remove` those of the
handlers, which hold off the main thread (`OnMain`). Which way `evaluate_hold`
decides is left open. The binary heap is a sequence in due order, which the type
invariant justifies. `OverrideLease` is implemented with the identity on `row`.

*RatLifecycle.* A document is a model value; what parsing makes of it (good, rejected,
an entry that is no object, a torn write) is which set it belongs to. A signature stands
for the document it signs. A load is five steps, `Exists` .. `Parse`, between any two of
which the operator may begin or end a write or remove a file.

*Scenarios, FleetScenarios.* A generator is an operator that returns the sequence of its
items: a push with source, BMS, port, version, advertised size, bytes on the wire, label and
the pause that follows it. What the code draws at random is a parameter, so the MC module
chooses it. Where a scenario loops over an argument the MC module keeps it short; where a
bound is at stake (50 targets against a cap of 50) it has the size of the experiments.

*Testbed.* `Send` is one packet through `DataPlane!Packet` with the real widths, thresholds
and clock; the CPU detector (`Offline!process`) sees the same frame. `Wait` moves time to the
next event and does what the clock, window and reseed threads and the expiry thread do until
then. `Decide` is `evaluate_hold` on the oldest digest, by `Arbiter!Gate`, `Match`, `Prune` and
`Admits`. The course of a trial is determined by its initial state (script, phases of the
threads, latency): the interleavings of the same parts are in `Arbiter`, `Overrides`,
`ReplayWindow`.

*MainLoop.* One digest is four steps of the main thread, `Receive`, `Recorded`,
`evaluate_hold` and `_log_decision`, the second and the last under a log lock
each; signal handlers run between any two of them. A reset is one action per `_step` of
`_reset_detector_state` and takes time only while it clears 64 session slots; it ends with
`write_markers`, which is stuck when its own thread holds a log lock. Registers are "clear" or
"dirty" by group.

*Drivers, Campaign.* A driver is a record of operation sequences (before, in, between and
after trials) and says where an exception is caught. `Works` performs the next operation,
`Fails` performs it or not and loses the answer, `FindsNothing` is an operation that cannot
succeed as things are (a wait that ran out, a file that is not there), `Trouble` and `RaiseIn`
are what the code then does: raise, note, or not look. `Packet` is the traffic host, `Tick`
time, `Kill`, `Halt` and `Resume` the end and restart of a driver.

## 3. Runs and bounds

All bounds are constants of the configurations. States are distinct states.

| Run | States | Shows | Why the bound is enough |
|---|---|---|---|
| `data_plane` | 143 000 | `RollbackFloor`, `PassIsFresh`, `NotPoisoned`, `SameVerdict`, `Agreement`, widths | the pipeline and its twin, so that one state space serves both; three versions, so that a rollback and a rogue push above the floor occur; an authorised flow with a session slot of its own and one that shares it with rogue flows, Bloom cells and a hold_armed slot all share; R5's threshold of 0 is passed at once; clock, bytes and counter wrap after 4, 4 and 2 values; packets carry bytes and end sessions |
| `replay` | 1.6 M | `NoFalseAlarm`, `ReplaySeen`, widths | the clock has 18 values and is started at each; time runs 24 s at most, past the wrap; all the inequalities of the timing assumption are met tightly enough that an old push comes round |
| `arbiter` | 164 000 | `AllowJustified`, `SlotsWithinCap`, `AllowHasSlot`, `OfflineAgrees` | two digests, enough for two decisions that compete for a cap of 1; two manifests, the second with a lower cap and an entry less; windows that end while a decision runs |
| `overrides` | 844 000 | `Scheduled`, heap order | two flows on a table of one row, both signals, one crash, one refused deletion: every pair of threads meets on one key |
| `overrides_lease` | 99 000 | `LeaseSpec`: refinement, and every row ends | two flows on a table of two rows with a TTL of 2, without signals; the full table is in `overrides`; fairness below |
| `rat_lifecycle` | 360 000 | `Vetted`, `KeepsLastGood`, `HotReload`, `BootApart` | three edits are needed to replace a manifest and its signature with one to spare; two lives, two fleets that overlap in one BMS at different positions |
| `testbed` | 42 000 | `LegitReleased`, `AttackStopped`, `ParserAsLabelled`, `ReconcileIsCausal`, `TwinAgrees` | nineteen scenarios, up to 173 items; clock phases 0 and 400 ms and window phases 0 and 59 s put a tick or a clearing into a burst or not, reseed phases 0 and 3595 s put the hourly reseed into a trial or not; a wall clock 6 s before its 16 bits wrap; decisions 3 and 90 ms after the packet, faster and slower than the gap of a burst |
| `campaign` | 2.1 M | `OwnFiles`, `MarkerHonest`, `ResetsQuiet`, `LabRestored`, `ResumeComplete`, `DumpHonest`, `OutvotedAlone` | two trials, so that one can spoil the next (`t2_5` one, of two strategies that share a file); bursts of two packets; resets of 9 and 11 s, shorter and longer than the 10 s several drivers wait; two faults: one to leave something behind and one to miss it; a switch clean or not, with or without the state dump of an earlier run; when the driver has ended, every subset of eight further artefacts in the directory of an invalid trial, so that up to thirteen items are evaluated |

The remaining four runs each refute one statement of a comment, docstring or scenario with
a counterexample:

| Run | Statement | What the code does |
|---|---|---|
| `data_plane_cascade` | once a source's packet is held, `hold_armed_reg` is armed and all its later packets are dropped before the arbiter is asked (`run_e22.py:34-38`, 258-266, 485-491, `decision_derivation.py:39-43`, 67-69, `policy_engine.p4:55`) | the arming entry needs R5 without R2, and R5 counts only packets R2 fired on: the next packet of the source gets the verdict of its own rules |
| `overrides_stop` | `handle_stop` lets the process exit cleanly | it blocks for ever when the signal interrupts the main thread inside `with self._expiry_cv` |
| `testbed_e22` | E22's ground truth: pushes before and after the window, and beyond the cap, are dropped | they pass without a digest: R5 counts only what R2 has fired on, and the reset between events keeps R1 quiet |
| `campaign_e12b` | one flipped byte makes ed25519 reject the signature | after a trial whose restoration failed the byte is flipped back |

Deadlock is checked in `testbed` and `campaign`, whose only final states are a trial that is
over and a driver that has ended with the controller at rest (`Finished`, `Over`). It is not
checked in the others: they have bounds at which they stop, and `Overrides` and
`RatLifecycle` model an orderly stop.

In `Campaign` `handle_stop` runs at the end of the main loop only (`Overrides` has it
everywhere), and `LabRestored` speaks of the state when the controller has settled. `OwnFiles`
claims nothing of a trial once the driver has shown a failure in it or an earlier one: packets
of the failed trial may then still be on their way into the next (in E12b they are).

Where a model caps something unbounded the cap is a `Max...` constant in a guard. In
`DataPlane` and `Poisoning` nothing is capped but the sets: the state space is finite
because registers have widths.

### Fairness and timing

`Overrides!Fairness` is weak fairness of the main thread once it has a digest in hand, of
a running signal handler, of the expiry thread and of time. OS threads and the 1 s bounded
wait of `_expiry_loop` justify it; no digest, signal, crash or restart is assumed to come.
In `RatLifecycle` the loads, the startup and the watcher are weakly fair (threads, and a
blocking read of inotify that returns when there are events), the operator is not.

`ReplayWindow!Timely` is an assumption, not a promise of the code: an RPC lands within
`Lag` seconds of the clock reading it carries, the clock register is at most `Lag`
behind, and a seed succeeds at least every `Gap` seconds. With the code's values
(clock 2^16, interval 14 400, reseed 3600) it allows a lag of minutes and seven failed
reseeds in a row. `ClockAssumption` says which values make R1 sound: the seed, half the
clock ahead, must be out of the interval until the next seed.

## 4. What is proved

Every theorem holds for all values of the constants that meet the named assumptions:
any number of BMSs, flows, sources, any hashes, widths, caps and bounds. TLC checked the
invariants first.

- **DataPlaneProofs**: `TypeCorrect`; `FloorIsHighest` (R6's register is the highest
  authorised version, inductive with types); `NoStalePass`, an action property from it;
  `CascadeUnreachable`: `set_hold_arm` needs R5 without R2, but R5's count is 0 for a packet
  that R2 did not fire on, so `hold_armed_reg` is never set (what `data_plane_cascade`
  refutes for one packet, this refutes for every traffic).
  Its second half is about `Poisoning`: `TwinsAgree`, the inductive invariant (the two
  pipelines agree on R1's and R6's registers and on the bytes of every slot no unauthorised
  flow maps to, and neither is armed); `RulesNotPoisoned` and `VerdictNotPoisoned` follow.
- **ReplayWindowProofs**: `TypeCorrect`, `FalseAlarmFree`, `ReplaysSeen`. The invariant says
  of each slot where its value comes from (a push at `last[b]`, or a seed at a time within
  `Gap` of now), and that every pending write carries a recent time; modular arithmetic
  is confined to lemmas on `Since`.
- **ArbiterProofs**: `TypeCorrect`; `AllowRowsJustified` (strengthened with: a decision under
  way to allow is justified already); `CapsHold` (the count is taken and the slot added
  under one lock; slots are only removed elsewhere); `RowsHaveSlots` (a decision past
  `check_and_record` has its slot); `OfflineArbiterAgrees`, from the lemma
  `ArbitersAgree` on the two functions.
- **OverridesProofs**: `HeapInOrder`, `NoRowForgotten` (`Scheduled`), and `RowsAreLeases`, the
  safety part of `LeaseSpec`: the initial states are those of `OverrideLease` and every step
  of threads, signals and crashes is one of its steps or a stutter, under `row`. It needs
  `Renewing`: between the deletion and the addition of a renewal the flow has no row.
- **RatLifecycleProofs**: `ManifestVetted`, strengthened with the provenance of the buffer
  of a load: past `Verify` its bytes are a signed document; `LastGoodKept`; `RatTypes` and
  `FleetApart` (`BootApart`). `Threads` says which thread a load belongs to, `Indexing` that
  what a life has still to write is the rest of its fleet in its order, that what it has
  written bears its position, and that no index goes beyond the registers. A fleet naming no
  BMS twice is an assumption (`RatAssumption`), as `ota_shield_controller.py` goes through
  the keys of a dict.
- **CampaignProofs**: `CampaignTypes`: every position a driver takes lies in its script, for
  all eighteen scripts and whatever fails (`Typed`; `Scripts` says what a script consists of,
  proved from the scripts themselves); `EventsKept` (`ResumeComplete`). Its invariant
  `Resumable` says that what the checkpoint covers is handled, that this life has handled what
  it has been through, that one life writes an event once at most and every further life was
  paid with a fault, and that between packet and line the packets are one ahead.
  `ResetsFound` (`ResetsQuiet`), for resets of less than 15 s (`ShortResets`; `sweep.py:184`
  measured about 10 s and made its wait of 15 s for it, `run_e22.py:268` about 9 s; the comments at
  `ota_shield_controller.py:804` and `preflight_state_check.py:154` speak of about 30 s, and of
  resets that long the theorem says nothing: none of the drivers' waits of 3 to 15 s covers
  them), every burst and any number of faults of the controller: a `Route` is a chart of a
  script that says at each operation how many
  seconds of waiting lie `Ahead` until the next reset; that each of the fourteen drivers that
  reset has one in which two resets are 15 s apart or more and no emission is outlasted by
  what is left (`Routes`) is proved from the scripts. `Calm` is then what the driver finds
  when nothing is ahead: `AskedIdle` (a signal reaches an idle controller), `Sweeping` (a reset
  is over in time), `Timed` (so is what is under way) and `InStep` (the records bear the epoch
  their digest was taken in) are what time, driver and controller keep. The other four
  drivers ask for no reset. Fifteen is the least such bound: at 15 s, with bursts of one packet
  sent at once, `t2_8` (waits of 10 and 5 s) meets its own reset.
- **OutcomeProofs**: `InvalidOutvoted` (`OutvotedAlone`): a trial the runner fails has a duration
  out of the checker's 2 % (`Judged`), so one of at most thirteen items fails; a second failure
  would make 11 of 13 at best, and a single one needs ten passed items beside it to be less
  than a tenth. `CleanIsClean` (`DumpHonest`): `Cleared` says
  that a swept controller holds only what its list of errors names and that nothing gets
  dirty after a dump, `Asked` that the only dump of this run is written between the
  request and the end of the wait after it. It holds for resets of any length: a dump taken
  within a reset is one of `reset # "none"`. A file of an earlier run (`Stale`) is excluded
  by the premise only, since the check does not look at its age.
  `LabLeftAsFound` (`LabRestored`) has one invariant per driver under `Lab`, each about where
  in the script the manifest is in which state: `Probed` and `Flipped` (the copy is in hand
  while the disk differs from it), `Down` (each wait of `run_t1_7` outlasts the signal before
  it), `Pushed` (`run_m4_200bms` has a copy from its first operation on, and its last part
  cannot fail unseen), with `Hot` (the controller stays up) or `Cold` (a second of the wait
  after the stop suffices for the watcher, so that what answers at the end was started after
  it). `Aware` connects them to the controller: up, and with nothing left to see, it works
  with the manifest on disk when that one verifies. `LabRestored` leaves out the failures a
  driver's output shows, and a start of the controller that is lost; the `*Slips` lemmas go
  through what else may fail.

- **TestbedProofs**: `TrialTyped`, `AttacksStopped`, `BaselineAgrees`, `ParserLabelled`, for
  scripts of any length, any phases, any second the wall clock starts at. What an event says
  of earlier ones is only true because registers, slots and rows remember them, so the
  invariant `Inv` says what each remembers:
  - `Traced`: events, digests and decisions are of items that were played, digests are
    decided in order and within the latency. `Clocked`: the clock register is the one the
    threads last wrote. `Denying`: no row allows when no window is open.
  - `Ported`: a flow's bytes, in the switch and in the detector, come from one push and its
    fillers at most; a row exists only for a flow used before, and is gone by the time the
    port is used again, as 60 s of latency and a TTL of 5 s are less than the 70 s between
    rollouts. Without it R4 or a stale row could decide on a push.
  - `Remembering`: R6's register is at least every version that counts for the BMS, and R1's
    slot bears the clock of some push since the last seed, unless there is none.
    `Twinned`: until the first reset the detector's dictionaries say the same.
  - `Sound`: the three properties, of all events and not of the newest only.

  The steps on the clock are lemmas about `Second` and its 16 bits: a replay 2 s to 4 h after
  a push is in the interval whichever second the clock wraps in. `HostAssumption` and
  `ScriptAssumption` say what the generators write (a source port is new or rested for 70 s,
  an E18 event is one of its variants, only a push is an attack) and TLC evaluates them on
  the nineteen scripts. The proof corrected the properties where no script of the run could
  tell: a replay is seen only when *no* push of the BMS came within the last 2 s (a push in
  between moves the slot on, and R1 does not fire in the same even second); a push whose
  header is not read is no replay or rollback for the switch, but one of a rogue source still
  fires R2 by its topic; and what came before a reset does not count, since the reset wipes R1
  and R6. `BaselineAgrees` compares the switch with a detector that reads the capture itself
  (`load_pcap_packets`): it finds the header anywhere in the payload and counts whole frames. On
  rogue pushes the two always agree, as R2 needs no header. On authorised ones they agree until
  the switch misses a header (`Missed`); from then on the detector may remember a push the
  switch has not seen, so it can hold what the switch passes, never the reverse (`MissTwin`,
  `MissRemembered`).

In **ArbiterProofs** the lemmas `ArbitersAgree` and `DerivationAgrees` say of all digests,
manifests and times that `rat_arbiter.arbitrate` and `decision_derivation.derive_decision`
decide as `evaluate_hold` does before caps; `OfflineArbiterAgrees` lifts them to the specification.

Assumptions on the constants of `Campaign`, each named in its module: a burst has a packet and
gaps of whole seconds, durations are whole seconds (`DriversAssumption`), resets take
a natural number of seconds (`LoopAssumption`), the drivers are some of the eighteen
(`CampaignAssumption`). The number of trials is fixed in `Drivers`.

Only model-checked, and why:

- `HotReload`, `StopExits` and the part of `LeaseSpec` that says every row ends: liveness.
- `MarkerHonest`: it also speaks of drivers whose operations fail, and is false for bursts long
  enough, whatever a reset takes: `t2_2` that has lost the answer to an emission goes on, and
  with gaps of 5 and 97 s the burst's last packet meets the first of the next trial.
- `OwnFiles`: a slice is cut out of the log by position and kind of line (`SelectSeq`), and what
  it holds is induction over the log. With resets longer than the waits it is false.
- `LegitReleased`: whether a cap is hit depends on how many digests of one script fall into
  a TTL, a fold over that script. `ReconcileIsCausal`: the reconciler is a fold over events
  and log. Both are induction over data.
- The four counterexamples.

## 5. Observations

Met while modelling, not stated as runs:

- A push in the same even second as an accepted one does not fire R1: the stored
  `t | 1` is ahead of the clock and the difference is 65 535. `secondary_rules.p4` counts on
  an error of one second. `ReplaySeen` therefore begins a second later.
- An ALLOW row masks R4 for its TTL: bytes beyond 2 MB of the allowed flow pass.
- A session's slot is charged before its row is installed and is not returned when the
  table is full or a reset wipes the row: slots and rows are not in lockstep.
- Several digests of a flow that wait in one list take a slot each.
- An edit of the manifest between the first load and the arming of the watch is not
  noticed until the next edit; an entry that is no object ends the watcher thread.
- Rows of `r2_authorized_sources` of an earlier life stay, too.
- `rat_arbiter` and `derive_decision` know neither caps nor the ablation flags.

Also met, and for two of them checked while modelling and then dropped as runs:

- A renewal leaves the heap entry of the replaced row; expiry deletes by key, so the new row
  goes before its `HOLD_OVERRIDE_TTL_S` is over. An orderly stop leaves rows added after
  the drain.
- The hourly reseed writes over R1's slots: `src/experiments/README.md:80-82` calls the
  4-hour window load-bearing, but a replay is seen only between two seeds.
- Rows of BMSs that left the manifest survive a restart and share an index with a new BMS
  (`ingress_control.p4:132` calls the index collision-free). BMSs from the 65th on have none,
  and the fleets of 200 and more use addresses of which only the first 50 are indexed;
  `_fleet_ip` also starts one address later than `_bms_ip`.
- The emergency patch of E12 meets the cap of its entry exactly (50 of 50).
- The reconciler counts a plain `ATTACK` as legitimate (it wants a prefix `ATTACK_`), and tries
  only the two decisions nearest in time; fillers of an oversized push are left over as orphans.
- The CPU detector, described as the same logic (`cpu_baseline_otashield.py:14-18`), differs in
  the R5 window (from the first packet), in unknown BMSs, in fillers, knows no reseed, and
  searches the payload for the header: the first E18 push that the switch's parser misses
  (`short_16_q1`) it holds as a replay of the one before, and the switch passes it.
- E19's stochastic pack may label a rollback of a BMS that never had a baseline an attack.
- Waits for a reset: `run_e12b`, `runner_cli` and the state check 4 s, `run_t1_5` and `run_t1_6`
  3 s, `t2_*` 10 to 13 s, `sweep` and `run_e22` 15 s. A dump taken within a reset may show
  the rows clean and the sessions not; the state check looks at neither `hold_armed` nor
  sessions, and not at the age of the dump.
- The reset handler deadlocks when it interrupts the main thread within a log lock. The drivers
  avoid it by letting the controller settle first (`ResetsQuiet`; the mutant that drops one
  settling sleep of `run_e22` runs into it).
- The integrity checker accepts more than nine tenths, so it tolerates one failed item once
  eleven are evaluated, as in the directory `experiments/tests/test_integrity_checker.py:193-246`
  builds: a trial whose duration the runner has failed is then valid for the checker. An
  empty `decisions.jsonl` fails its fifth item, so a valid trial of the runner's own
  scenario is invalid for it. `run_t1_6` allows its duration 10 %, the checker 2 %.
- `run_m4_200bms` waits for a reload with 5 s of slack: a restoration right after the push takes
  the extended manifest's own line for it. With a restart it waits for a line printed
  before the reset.
- `run_e22` never restores the manifest and signals every `python3` of the host. `run_t1_7` and
  the restart of m4 find their own remote shell when they look for the controller.
- `run_t2_5` uses one ground truth file for all; `run_t1_5` does not look whether the ground
  truth was fetched, and its slice ends before slow decisions. `run_t2_4` hashes with a salt, so
  its held-out set differs between processes.
- `run_e7b` writes its checkpoint after the packet, its docs say before: the documented order
  would lose an event in a crash (the mutant of `ResumeComplete`). A plan cut at the end of a
  line is taken for a whole one.
- `trial_runner` promises a status "degraded" that nothing sets.

## 6. Not modelled

Packet bytes, the MQTT varint on the receiving side, digest fields, egress, the gRPC
connection, wording of logs, command lines, key generation; the P4 compiler's faults the
comments tell of (the model follows the source as written). Of the preflights the questions
that change nothing. The load generators (`shaped_adversary_f1`, `throughput_stress`,
`override_capacity*`, `collision_e15`, `portability_e18`), the wrappers of Suricata and Zeek,
`aggregate*`, `figures`, `extract_paper_numbers` and the rest of the statistics: one-pass
scripts without state to check.

Done is what the first plan called `DetectorReset`, `TrialRun` and `Reconcile` (as `MainLoop`,
`Campaign`, `Integrity`, `Offline`) and `OtaShield` (as `Testbed`, on played scenarios).

## 7. Plan

1. Proof: `MarkerHonest` under an assumption that bounds a burst by the waits of the scripts,
   on the routes of `ResetsFound`.
2. A free composition of `DataPlane` and `Overrides`: what passes in the gap of a renewal and
   after an expiry, for any packets. Abstract specification: a denied flow stays denied until
   its row is due.
3. The load generators against the table of 256 rows.
