------------------------------ MODULE MainLoop ------------------------------
(***************************************************************************)
(* The controller's process as the experiment drivers see it               *)
(* (controller/ota_shield_controller.py): the main thread takes a digest,  *)
(* records it, judges it and records its decision; the handlers of USR1    *)
(* (reset), USR2 (state dump) and TERM run on the same thread, between any *)
(* two of its steps; the RAT on disk is loaded at the start and whenever   *)
(* it changes.  A reset takes time only while it clears the session slots. *)
(***************************************************************************)
EXTENDS Integers, Sequences, FiniteSets

CONSTANTS ResetTimes,   \* seconds the 64 writes of the session slots take
          MaxFaults     \* bound: faults in a behaviour

ASSUME LoopAssumption == ResetTimes \subseteq Nat /\ MaxFaults \in Nat

VARIABLES
  pc,        \* main thread: idle, record, judge, decide; stuck, down
  rec,       \* [tag, seen, epoch] of the digest in hand
  handler,   \* "none", "reset", or "startup" for the reset of run()
  todo,      \* next step of the reset
  busy,      \* seconds the step in hand still takes
  errors,    \* _last_reset_errors
  epoch,     \* _trial_epoch
  pending,   \* signals sent and not yet handled
  queue,     \* digests the switch has sent
  dirty,     \* state groups of the detector that are not clear
  log,       \* decisions.jsonl: decisions and barrier markers
  dump,      \* the state dump: what of it SIGUSR2 wrote last
  disk,      \* [doc, good]: the RAT on disk, whether its signature verifies
  touched,   \* the watcher has an event of it to handle
  loaded,    \* the RAT the controller works with, when it loaded it and last refused one
  now, faults

ctl == <<pc, rec, handler, todo, busy, errors, epoch>>
rat == <<disk, touched, loaded>>
vars == <<ctl, pending, queue, dirty, log, dump, rat, now, faults>>

Groups == {"R1", "R5_COUNT", "R5_BLOOM", "R6", "HOLD_ARMED", "SESSION", "OVERRIDE"}
Registers == Groups \ {"OVERRIDE"}
ResetSteps == <<"R1", "R5_COUNT", "R5_BLOOM", "R6", "HOLD_ARMED", "SESSION_RPCS", "SESSION",
                "OVERRIDE">>

NoDigest == [tag |-> <<0, 0>>, seen |-> 0, epoch |-> 0]
Marker(e, errs) == [tag |-> <<0, 0>>, seen |-> e, epoch |-> e, errors |-> errs, t |-> now]
IsMarker(line) == line.tag = <<0, 0>>
Fresh == [at |-> -1, errors |-> {}, dirty |-> {}, reset |-> "none", readable |-> TRUE]
Stale == [Fresh EXCEPT !.at = -3600]           \* the file an earlier run of the controller left

Up == pc # "down"
Running == pc \notin {"down", "stuck"}

LoopInit ==
  /\ pc = "idle" /\ rec = NoDigest /\ handler = "none" /\ todo = 1 /\ busy = 0
  /\ errors = {} /\ epoch = 0 /\ pending = {} /\ queue = << >>
  /\ dirty \in {{}, Groups}
  /\ log = << >> /\ dump \in {Fresh, Stale}
  /\ disk = [doc |-> "canonical", good |-> TRUE] /\ touched = FALSE
  /\ loaded = [doc |-> "canonical", at |-> -3600, refused |-> -3600]
  /\ now = 0 /\ faults = 0

(* A packet of an attack passes the pipeline: it leaves state in every     *)
(* register group and a digest, if there is a controller to take it.       *)
Forward(tag) ==
  /\ dirty' = dirty \cup Registers
  /\ queue' = IF Up THEN Append(queue, tag) ELSE queue
  /\ UNCHANGED <<ctl, pending, log, dump, rat>>

Main(label) == pc = label /\ handler = "none"

Receive ==                                     \* the record of a digest bears the epoch of now
  /\ Main("idle") /\ queue # << >>
  /\ pc' = "record" /\ rec' = [tag |-> Head(queue), seen |-> epoch, epoch |-> epoch]
  /\ queue' = Tail(queue)
  /\ UNCHANGED <<handler, todo, busy, errors, epoch, pending, dirty, log, dump, rat, now, faults>>

Recorded ==                                    \* _digest_log_lock is let go
  /\ Main("record") /\ pc' = "judge"
  /\ UNCHANGED <<rec, handler, todo, busy, errors, epoch, pending, queue, dirty, log, dump, rat,
                 now, faults>>

evaluate_hold ==                               \* the verdict's row, then the line of the decision
  /\ Main("judge") /\ pc' = "decide"
  /\ dirty' = dirty \cup {"OVERRIDE"}
  /\ rec' = [rec EXCEPT !.epoch = epoch]
  /\ UNCHANGED <<handler, todo, busy, errors, epoch, pending, queue, log, dump, rat, now, faults>>

_log_decision ==                               \* under _decision_log_lock
  /\ Main("decide") /\ pc' = "idle"
  /\ log' = Append(log, [tag |-> rec.tag, seen |-> rec.seen, epoch |-> rec.epoch,
                         errors |-> {}, t |-> now])
  /\ rec' = NoDigest
  /\ UNCHANGED <<handler, todo, busy, errors, epoch, pending, queue, dirty, dump, rat, now, faults>>

handle_reset ==                                \* USR1, blocked while its handler runs
  /\ "reset" \in pending /\ Running /\ handler = "none"
  /\ handler' = "reset" /\ todo' = 1 /\ errors' = {} /\ epoch' = epoch + 1
  /\ pending' = pending \ {"reset"}
  /\ UNCHANGED <<pc, rec, busy, queue, dirty, log, dump, rat, now, faults>>

Resetting == Running /\ handler # "none" /\ busy = 0 /\ todo <= Len(ResetSteps)

reset_step ==
  /\ Resetting
  /\ todo' = todo + 1
  /\ \/ /\ ResetSteps[todo] = "SESSION_RPCS"
        /\ busy' \in ResetTimes
        /\ UNCHANGED dirty
     \/ /\ ResetSteps[todo] # "SESSION_RPCS"
        /\ dirty' = dirty \ {ResetSteps[todo]}
        /\ UNCHANGED busy
  /\ UNCHANGED <<pc, rec, handler, errors, epoch, pending, queue, log, dump, rat, now, faults>>

Unlisted(step) == {}                           \* mutant of Listed
Listed(step) == {step}                         \* _step: the failure goes on the list

reset_step_fails ==
  /\ Resetting /\ faults < MaxFaults /\ ResetSteps[todo] # "SESSION_RPCS"
  /\ todo' = todo + 1 /\ faults' = faults + 1
  /\ errors' = errors \cup Listed(ResetSteps[todo])
  /\ UNCHANGED <<pc, rec, handler, busy, epoch, pending, queue, dirty, log, dump, rat, now>>

override_row_stays ==                          \* a refused deletion is swallowed
  /\ Resetting /\ faults < MaxFaults /\ ResetSteps[todo] = "OVERRIDE"
  /\ todo' = todo + 1 /\ faults' = faults + 1
  /\ UNCHANGED <<pc, rec, handler, busy, errors, epoch, pending, queue, dirty, log, dump, rat, now>>

ResetDone == Running /\ handler # "none" /\ todo > Len(ResetSteps)

write_markers ==                               \* both logs, under the locks of their writers
  /\ ResetDone /\ handler = "reset"
  /\ handler' = "none"
  /\ \/ pc \in {"record", "decide"} /\ pc' = "stuck" /\ UNCHANGED log
     \/ pc \notin {"record", "decide"} /\ log' = Append(log, Marker(epoch, errors)) /\ UNCHANGED pc
  /\ UNCHANGED <<rec, todo, busy, errors, epoch, pending, queue, dirty, dump, rat, now, faults>>

startup_done ==                                \* the main loop begins
  /\ ResetDone /\ handler = "startup" /\ handler' = "none"
  /\ UNCHANGED <<pc, rec, todo, busy, errors, epoch, pending, queue, dirty, log, dump, rat, now,
                 faults>>

DumpNow(ok) == [at |-> now, errors |-> errors, dirty |-> dirty, reset |-> handler, readable |-> ok]

handle_dump_state ==                           \* USR2 may nest in a reset
  /\ "dump" \in pending /\ Running
  /\ pending' = pending \ {"dump"}
  /\ \/ dump' = DumpNow(TRUE) /\ UNCHANGED faults
     \/ faults < MaxFaults /\ faults' = faults + 1 /\ dump' \in {DumpNow(FALSE), dump}
  /\ UNCHANGED <<ctl, queue, dirty, log, rat, now>>

handle_stop ==                                 \* the loop ends; the rows on the heap are deleted
  /\ "stop" \in pending /\ Main("idle")
  /\ pc' = "down" /\ pending' = {}
  /\ dirty' \in {dirty \ {"OVERRIDE"}, dirty}
  /\ UNCHANGED <<rec, handler, todo, busy, errors, epoch, queue, log, dump, rat, now, faults>>

(* A controller is started with --require-signed-rat: no signature, no     *)
(* start.  What it says of its reset it says before it.                    *)
run ==
  /\ "start" \in pending
  /\ pending' = pending \ {"start"}
  /\ \/ /\ pc = "down" /\ disk.good
        /\ pc' = "idle" /\ rec' = NoDigest /\ handler' = "startup" /\ todo' = 1 /\ busy' = 0
        /\ errors' = {} /\ epoch' = 0 /\ queue' = << >>
        /\ dirty' = dirty \ {"OVERRIDE"}
        /\ loaded' = [loaded EXCEPT !.doc = disk.doc, !.at = now] /\ touched' = FALSE
     \/ ~(pc = "down" /\ disk.good) /\ UNCHANGED <<ctl, queue, dirty, loaded, touched>>
  /\ UNCHANGED <<log, dump, disk, now, faults>>

Reload ==                                      \* the watcher; a bad signature keeps the old RAT
  /\ touched /\ touched' = FALSE
  /\ loaded' = IF ~Up THEN loaded
               ELSE IF disk.good THEN [loaded EXCEPT !.doc = disk.doc, !.at = now]
               ELSE [loaded EXCEPT !.refused = now]
  /\ UNCHANGED <<ctl, pending, queue, dirty, log, dump, disk, now, faults>>

Step ==
  \/ Receive \/ Recorded \/ evaluate_hold \/ _log_decision
  \/ handle_reset \/ reset_step \/ reset_step_fails \/ override_row_stays
  \/ write_markers \/ startup_done \/ handle_dump_state \/ handle_stop \/ run \/ Reload

(* Nothing the controller does before time goes on.                        *)
Settled ==
  /\ ~touched
  /\ pending = {} \/ pc = "stuck" \/ (pending = {"stop"} /\ handler # "none")
                  \/ (pending = {"reset"} /\ handler # "none")
  /\ \/ ~Running
     \/ handler = "none" /\ pc = "idle" /\ queue = << >>
     \/ busy > 0
=============================================================================
