------------------------------ MODULE Campaign ------------------------------
(***************************************************************************)
(* An experiment driver (Drivers) at work on the controller (MainLoop) and *)
(* on the host that sends the traffic.  It performs the operations of its  *)
(* script one after the other; an operation may fail, with or without      *)
(* having taken effect, and the driver may be killed.  Packets, signals,   *)
(* resets and the driver interleave; time goes on when all of them wait.   *)
(***************************************************************************)
EXTENDS MainLoop, Drivers, FiniteSetsExt

CONSTANTS Driver        \* the drivers that are run, names of Script

ASSUME CampaignAssumption == Driver \subseteq DOMAIN Script

VARIABLES
  d,         \* where the driver is: [name, part, i (trial), k (operation), left (seconds)]
  out,       \* [how, raised, noted, lost]: how it ends; failures it shows, and does not show
  own,       \* what the driver holds in hand (OwnInit)
  records,   \* the trials it has written: [slice, truth]
  files,     \* run_e7b: [plan, ckpt, gt, errs, done]
  jobs,      \* emissions under way: [i, first, gaps, cut]
  sent,      \* packets sent for each trial
  truths,    \* ground truth files of the sending host, by trial; 0: one for all
  met        \* what the first packet of the last emission met

drvVars == <<d, out, own, records, files, jobs, sent, truths, met>>
allVars == <<vars, drvVars>>

Mine == Script[d.name]
Ops == Mine[d.part]
op == Ops[d.k]
Working == out.how = "running" /\ d.k <= Len(Ops)
At(what) == Working /\ op.op = what
Waiting == {"sleep", "poll", "await_reload", "await_up", "await_event"}
Delay(ops, k) == IF k <= Len(ops) /\ ops[k].op \in Waiting THEN ops[k].arg ELSE 0
Position(part, i, k) ==
  [name |-> d.name, part |-> part, i |-> i, k |-> k, left |-> Delay(Mine[part], k)]
Onward(n) == d' = Position(d.part, d.i, d.k + n)

None == [doc |-> "none", good |-> FALSE]
OwnInit ==
  [from |-> 0, to |-> 0, slice |-> << >>, live |-> << >>, truth |-> << >>, begin |-> 0,
   since |-> 0, backup |-> None, halt |-> FALSE,
   actual |-> 0, sha |-> "", failed |-> FALSE, manifest |-> FALSE, verdict |-> "none"]
Fields == DOMAIN OwnInit

Init ==
  /\ LoopInit
  /\ \E name \in Driver :
       d = [name |-> name, part |-> "pre", i |-> 1, k |-> 1, left |-> Delay(Script[name].pre, 1)]
  /\ out = [how |-> "running", raised |-> FALSE, noted |-> {}, lost |-> {}]
  /\ own = OwnInit
  /\ records = [i \in 1..Trials |-> [slice |-> << >>, truth |-> << >>]]
  /\ files = [plan |-> -1, ckpt |-> -1, gt |-> << >>, errs |-> {}, done |-> FALSE]
  /\ jobs = {} /\ sent = [i \in 1..Trials |-> << >>] /\ truths = [i \in 0..Trials |-> << >>]
  /\ met = [marked |-> FALSE, dirt |-> {}, errors |-> {}]

-----------------------------------------------------------------------------
(* What is cut out of the log, and the ground truth a script knows before. *)
Decisions(lines) == [j \in 1..Len(SelectSeq(lines, LAMBDA l : ~IsMarker(l))) |->
                       SelectSeq(lines, LAMBDA l : ~IsMarker(l))[j].tag]
Emitted(ops) ==
  LET launches == {k \in DOMAIN ops : ops[k].op = "emit"}
  IN MapThenSumSet(LAMBDA k : Len(ops[k].arg), launches)
Planned(i) == [n \in 1..Emitted(Mine.trial) |-> <<i, n>>]
TruthKey(i) == IF d.name = "t2_5" THEN 0 ELSE i

(* The runner's items: tolerance in hundredths, what its scenario declares.*)
Tolerance == IF d.name = "t1_6" THEN 10 ELSE 2
check_duration == 100 * (IF own.actual < Declared THEN Declared - own.actual
                         ELSE own.actual - Declared) <= Tolerance * Declared

StateCleanBlind ==         \* mutant of StateClean
  dump.readable /\ dump.dirty \cap {"R5_COUNT", "R5_BLOOM", "R6", "OVERRIDE"} = {}
StateClean == dump.readable /\ dump.errors = {}
              /\ dump.dirty \cap {"R5_COUNT", "R5_BLOOM", "R6", "OVERRIDE"} = {}

(* An operation that only fills the driver's own hands.                    *)
Taken ==
  CASE op.op = "offset"   -> [own EXCEPT !.from = Len(log)]
    [] op.op = "end"      -> [own EXCEPT !.to = Len(log)]
    [] op.op = "tail"     -> [own EXCEPT !.slice = Decisions(SubSeq(log, own.from + 1, Len(log)))]
    [] op.op = "range"    -> [own EXCEPT !.slice = @ \o Decisions(SubSeq(log, own.from + 1, own.to))]
    [] op.op = "window"   -> [own EXCEPT !.slice =
                                Decisions(SelectSeq(log, LAMBDA l : l.t >= own.begin - 5))]
    [] op.op = "plan"     -> [own EXCEPT !.truth = Planned(d.i)]
    [] op.op = "truth"    -> [own EXCEPT !.truth = truths[d.i]]
    [] op.op = "truth_or_plan" ->
         [own EXCEPT !.truth = IF truths[d.i] # << >> THEN truths[d.i] ELSE Planned(d.i)]
    [] op.op = "shared"   -> [own EXCEPT !.live = @ \o truths[0]]
    [] op.op = "merge"    -> [own EXCEPT !.truth = IF own.live # << >> THEN own.live ELSE @]
    [] op.op = "snapshot" -> [own EXCEPT !.backup = disk]
    [] op.op = "mark"     -> [own EXCEPT !.since = now]
    [] op.op = "begin"    -> [own EXCEPT !.begin = now]
    [] op.op = "finish"   -> [own EXCEPT !.actual = now - own.begin]
    [] op.op = "postflight" -> [own EXCEPT !.failed = @ \/ (Declared > 0 /\ ~check_duration)]
    [] op.op = "finalize" -> [own EXCEPT !.manifest = TRUE,
                                         !.verdict = IF own.failed THEN "invalid" ELSE "valid"]
    [] op.op = "verdict"  -> [own EXCEPT !.verdict = IF StateClean THEN "clean" ELSE "dirty"]
    [] OTHER -> own

Hands == {"sleep", "ship", "join", "offset", "end", "tail", "range", "window", "plan", "truth",
          "truth_or_plan", "shared", "merge", "snapshot", "mark", "begin", "finish", "postflight",
          "finalize", "fetch", "verdict", "refusal", "poll", "await_reload", "await_up", "await_event"}
TakeHands ==
  /\ op.op \in Hands
  /\ own' = Taken
  /\ UNCHANGED <<files, jobs, sent, pending, queue, dirty, disk, touched>>

preflight_check ==         \* a manifest of a switch that cannot be asked bears no hash
  /\ op.op = "preflight"
  /\ \E sha \in {"", "conf"}, ok \in (IF d.name = "t1_6" THEN {TRUE} ELSE BOOLEAN) :
       own' = [own EXCEPT !.sha = sha, !.failed = ~ok]
  /\ UNCHANGED <<files, jobs, sent, pending, queue, dirty, disk, touched>>

Signals == [usr1 |-> "reset", usr2 |-> "dump", stop |-> "stop", start |-> "start"]
NoPid == d.name = "t1_7" /\ <<"stop", d.i>> \in out.noted
Signal ==                  \* a controller that was not found is not started again
  /\ op.op \in DOMAIN Signals
  /\ pending' = IF (Up \/ op.op = "start") /\ ~(op.op = "start" /\ NoPid)
                THEN pending \cup {Signals[op.op]} ELSE pending
  /\ own' = IF op.op = "start" THEN [own EXCEPT !.since = now] ELSE own
  /\ UNCHANGED <<files, jobs, sent, queue, dirty, disk, touched>>

Back(doc) == [doc |-> doc, good |-> disk.good /\ disk.doc = doc]
WriteDisk ==
  /\ \/ op.op = "corrupt" /\ disk' = [disk EXCEPT !.good = ~@] /\ own' = own
     \/ op.op = "push" /\ disk' = Back("extended") /\ own' = [own EXCEPT !.since = now]
     \/ /\ op.op = "tamper" /\ own' = [own EXCEPT !.since = now]
        /\ disk' = [doc |-> "probe", good |-> FALSE]
     \/ op.op = "untamper" /\ disk' = own.backup /\ own' = own
     \/ op.op = "sign" /\ disk' = [disk EXCEPT !.good = TRUE] /\ own' = own
     \/ op.op = "restore_doc" /\ disk' = Back(own.backup.doc) /\ own' = own
     \/ /\ op.op = "restore_sig" /\ own' = own
        /\ disk' = [disk EXCEPT !.good = own.backup.good /\ disk.doc = own.backup.doc]
     \/ /\ op.op = "unbackup"
        /\ disk' = [disk EXCEPT !.good = own.backup.good] /\ own' = [own EXCEPT !.backup = None]
  /\ touched' = TRUE
  /\ UNCHANGED <<files, jobs, sent, pending, queue, dirty>>

Rows ==                    \* the synthetic rows go, the controller's stay
  /\ \/ op.op = "rows" /\ dirty' = dirty \cup {"OVERRIDE"}
     \/ op.op = "unrows" /\ dirty' \in {dirty, dirty \ {"OVERRIDE"}}
  /\ UNCHANGED <<own, files, jobs, sent, pending, queue, disk, touched>>

Launch(gaps, cut) ==
  /\ op.op = "emit"
  /\ jobs' = jobs \cup {[i |-> d.i, first |-> Len(sent[d.i]) + 1, gaps |-> gaps, cut |-> cut]}
  /\ own' = IF d.name = "t1_5" THEN [own EXCEPT !.begin = now] ELSE own
  /\ UNCHANGED <<files, sent, pending, queue, dirty, disk, touched>>

send_packet ==
  /\ op.op = "send"
  /\ Forward(<<d.i, Len(sent[d.i]) + 1>>)
  /\ sent' = [sent EXCEPT ![d.i] = Append(@, <<d.i, Len(@) + 1>>)]
  /\ UNCHANGED <<own, files, jobs>>

WriteFiles ==
  /\ \/ op.op = "write_plan" /\ files' = [files EXCEPT !.plan = IF @ = -1 THEN Trials ELSE @]
     \/ op.op = "read_checkpoint" /\ files' = [files EXCEPT !.ckpt = IF @ = -1 THEN 0 ELSE @]
     \/ op.op = "append" /\ files' = [files EXCEPT !.gt = Append(@, d.i)]
     \/ op.op = "checkpoint" /\ files' = [files EXCEPT !.ckpt = d.i]
     \/ op.op = "collapse" /\ files' = [files EXCEPT !.done = TRUE]
  /\ UNCHANGED <<own, jobs, sent, pending, queue, dirty, disk, touched>>

Effect ==
  \/ TakeHands \/ preflight_check \/ Signal \/ WriteDisk \/ Rows \/ WriteFiles
  \/ Launch(op.arg, FALSE) \/ send_packet

OutOfReach == <<ctl, log, dump, loaded, now>>   \* no operation touches these itself

-----------------------------------------------------------------------------
(* An operation that waits is over when what it waits for is there; a      *)
(* sleep when its time is.                                                 *)
Satisfied ==
  \/ At("poll") /\ truths[d.i] # << >>
  \/ At("await_reload") /\ loaded.at >= own.since - 5
  \/ At("await_up") /\ Up /\ loaded.at >= own.since
  \/ At("await_event") /\ own.halt
Joined == ~\E j \in jobs : j.i = d.i
Ready == Working /\ (d.left = 0 \/ Satisfied) /\ (op.op = "join" => Joined)

(* An operation that cannot succeed as things are.                         *)
Refused ==
  \/ op.op = "truth" /\ truths[d.i] = << >>
  \/ op.op = "shared" /\ truths[0] = << >>
  \/ op.op = "range" /\ own.from = -1 /\ own.to > own.from
  \/ op.op = "fetch" /\ d.name # "t2_6" /\ dump.at = -1
  \/ op.op = "refusal" /\ loaded.refused < own.since
  \/ op.op \in {"await_reload", "await_up"} /\ ~Satisfied
  \/ op.op = "write_plan" /\ files.plan = -2

FinalizeAt == CHOOSE k \in 1..Len(Ops) : Ops[k].op = "finalize"
Suspends == own.halt /\ files.ckpt < files.plan      \* run_e7b: told to stop, and not through

Works ==
  /\ Ready /\ ~Refused /\ Effect
  /\ \/ op.op = "preflight" /\ own'.failed /\ d' = Position(d.part, d.i, FinalizeAt)
     \/ op.op = "await_event" /\ own.halt /\ d' = Position("fin", d.i, 1)
     \/ ~(op.op = "preflight" /\ own'.failed) /\ ~(op.op = "await_event" /\ own.halt) /\ Onward(1)
  /\ ~(op.op = "collapse" /\ Suspends)
  /\ UNCHANGED <<out, records, truths, met, faults, OutOfReach>>

Suspend ==
  /\ Ready /\ op.op = "collapse" /\ Suspends
  /\ out' = [out EXCEPT !.how = "suspended"]
  /\ UNCHANGED <<vars, d, own, records, files, jobs, sent, truths, met>>

LastTrial == IF d.name = "e7b" THEN files.plan ELSE Mine.trials
AfterTrialOneMore(i) ==    \* mutant of AfterTrial
  IF i <= LastTrial THEN Position("trial", i + 1, 1) ELSE Position("fin", i, 1)
AfterTrial(i) == IF i < LastTrial THEN Position("between", i, 1) ELSE Position("fin", i, 1)
Noted == out.noted \cup {<<op.op, d.i>>}
RaiseIn ==                 \* where an exception is caught, if it is
  \/ /\ d.part = "trial" /\ Mine.next
     /\ out' = [out EXCEPT !.noted = Noted] /\ d' = AfterTrial(d.i)
  \/ /\ d.part # "fin" /\ Mine.finally /\ own.backup # None
     /\ out' = [out EXCEPT !.raised = TRUE] /\ d' = Position("fin", d.i, 1)
  \/ /\ d.part = "fin" /\ Mine.finally
     /\ out' = [out EXCEPT !.noted = Noted, !.how = IF out.raised THEN "raised" ELSE "ended"]
     /\ d' = d
  \/ /\ ~(d.part = "trial" /\ Mine.next)
     /\ ~(Mine.finally /\ (d.part = "fin" \/ own.backup # None))
     /\ out' = [out EXCEPT !.how = "raised"] /\ d' = d

Trouble ==
  \/ op.err = "raise" /\ RaiseIn
  \/ /\ op.err = "note" /\ out' = [out EXCEPT !.noted = Noted]
     /\ Onward(IF op.op = "emit" THEN 2 ELSE 1)
  \/ op.err = "blind" /\ out' = [out EXCEPT !.lost = @ \cup {op.op}] /\ Onward(1)
  \/ op.err = "none" /\ out' = [out EXCEPT !.how = "raised"] /\ d' = d

(* Nothing happens, or all of it and the answer is lost.                   *)
Missed ==
  /\ own' = CASE op.op = "offset" -> [own EXCEPT !.from = -1]
              [] op.op = "end"    -> [own EXCEPT !.to = -1]
              [] OTHER -> own
  /\ UNCHANGED <<jobs, sent, pending, queue, dirty, disk, touched>>
  /\ files' = IF op.op = "send" THEN [files EXCEPT !.errs = @ \cup {d.i}] ELSE files
SentUnheard ==
  /\ op.op = "send"
  /\ Forward(<<d.i, Len(sent[d.i]) + 1>>)
  /\ sent' = [sent EXCEPT ![d.i] = Append(@, <<d.i, Len(@) + 1>>)]
  /\ files' = [files EXCEPT !.errs = @ \cup {d.i}]
  /\ UNCHANGED <<own, jobs>>

Fails ==
  /\ Ready /\ ~Refused /\ op.err # "none" /\ faults < MaxFaults /\ faults' = faults + 1
  /\ \/ Missed
     \/ Signal \/ WriteDisk \/ Rows \/ SentUnheard
     \/ Launch(op.arg, FALSE) \/ Launch(<<op.arg[1]>>, TRUE)
  /\ Trouble
  /\ UNCHANGED <<records, truths, met, OutOfReach>>

FindsNothing ==
  /\ Ready /\ Refused /\ Missed /\ Trouble
  /\ UNCHANGED <<records, truths, met, faults, OutOfReach>>

(* From one part of a script to the next.                                  *)
FirstTrial == IF d.name = "e7b" THEN files.ckpt + 1 ELSE 1
Turn ==
  /\ out.how = "running" /\ d.k > Len(Ops)
  /\ \/ /\ d.part = "pre" /\ UNCHANGED <<out, own, records>>
        /\ d' = IF FirstTrial <= LastTrial THEN Position("trial", FirstTrial, 1)
                ELSE Position("fin", d.i, 1)
     \/ /\ d.part = "trial" /\ UNCHANGED out
        /\ records' = [records EXCEPT ![d.i] = [slice |-> own.slice, truth |-> own.truth]]
        /\ own' = [own EXCEPT !.slice = << >>, !.live = << >>, !.truth = << >>]
        /\ d' = AfterTrial(d.i)
     \/ /\ d.part = "between" /\ UNCHANGED <<out, own, records>>
        /\ d' = Position("trial", d.i + 1, 1)
     \/ /\ d.part = "fin" /\ UNCHANGED <<own, records, d>>
        /\ out' = [out EXCEPT !.how = IF out.raised THEN "raised" ELSE "ended"]
  /\ UNCHANGED <<vars, files, jobs, sent, truths, met>>

-----------------------------------------------------------------------------
LastLine == log[Len(log)]
Marked == /\ log # << >> /\ IsMarker(LastLine) /\ LastLine.epoch = epoch /\ handler = "none"

Packet ==                  \* the ground truth is written when all are sent
  /\ \E j \in jobs :
       LET tag == <<j.i, Len(sent[j.i]) + 1>>
           tags == SubSeq(sent[j.i], j.first, Len(sent[j.i])) \o <<tag>>
           over == Len(j.gaps) = 1
       IN /\ j.gaps[1] = 0
          /\ Forward(tag)
          /\ sent' = [sent EXCEPT ![j.i] = Append(@, tag)]
          /\ jobs' = (jobs \ {j}) \cup (IF over THEN {} ELSE {[j EXCEPT !.gaps = Tail(@)]})
          /\ truths' = IF over /\ ~j.cut THEN [truths EXCEPT ![TruthKey(j.i)] = tags] ELSE truths
          /\ met' = IF Len(sent[j.i]) + 1 = j.first
                    THEN [marked |-> Marked, dirt |-> dirty, errors |-> errors] ELSE met
  /\ UNCHANGED <<d, out, own, records, files, faults, now>>

Blocked ==
  \/ out.how # "running"
  \/ Working /\ d.left > 0 /\ ~Satisfied
  \/ At("join") /\ ~Joined
Deadlines ==
  (IF out.how = "running" THEN {d.left} ELSE {}) \cup {busy} \cup {j.gaps[1] : j \in jobs}
Tick ==
  /\ Settled /\ Blocked /\ \A j \in jobs : j.gaps[1] > 0
  /\ Deadlines \ {0} # {}
  /\ LET step == Min(Deadlines \ {0})
         Less(n) == IF n > 0 THEN n - step ELSE 0
     IN /\ now' = now + step
        /\ d' = [d EXCEPT !.left = IF out.how = "running" THEN Less(@) ELSE @]
        /\ busy' = Less(busy)
        /\ jobs' = {[j EXCEPT !.gaps[1] = @ - step] : j \in jobs}
  /\ UNCHANGED <<pc, rec, handler, todo, errors, epoch, pending, queue, dirty, log, dump, rat, faults,
                 out, own, records, files, sent, truths, met>>

(* The driver dies; its plan may be cut anywhere, most often in a line.    *)
Kill ==
  /\ out.how = "running" /\ faults < MaxFaults /\ faults' = faults + 1
  /\ out' = [out EXCEPT !.how = "killed"]
  /\ files' \in IF At("write_plan") /\ files.plan = -1
                THEN {[files EXCEPT !.plan = n] : n \in -2..Trials} ELSE {files}
  /\ UNCHANGED <<ctl, pending, queue, dirty, log, dump, rat, now,
                 d, own, records, jobs, sent, truths, met>>

Resume ==                  \* run_e7b is started again
  /\ d.name = "e7b" /\ out.how \in {"killed", "suspended"}
  /\ out' = [out EXCEPT !.how = "running"]
  /\ own' = OwnInit /\ d' = Position("pre", 1, 1)
  /\ UNCHANGED <<vars, records, files, jobs, sent, truths, met>>

Halt ==                    \* run_e7b: _handle_sig
  /\ d.name = "e7b" /\ Working /\ d.part = "trial" /\ ~own.halt
  /\ faults < MaxFaults /\ faults' = faults + 1
  /\ own' = [own EXCEPT !.halt = TRUE]
  /\ UNCHANGED <<ctl, pending, queue, dirty, log, dump, rat, now,
                 d, out, records, files, jobs, sent, truths, met>>

Controller == Step /\ UNCHANGED drvVars
Over ==
  /\ out.how \in {"ended", "raised"} \/ (out.how = "killed" /\ d.name # "e7b")
  /\ Settled /\ jobs = {} /\ UNCHANGED allVars

Next == Controller \/ Works \/ Suspend \/ Fails \/ FindsNothing \/ Turn \/ Packet \/ Tick
        \/ Kill \/ Resume \/ Halt \/ Over
Spec == Init /\ [][Next]_allVars

-----------------------------------------------------------------------------
(* Everything has its type: positions lie in the script, tags are those of *)
(* packets sent, a reset holds no step twice.                              *)
TypeOK ==
  /\ d.part \in {"pre", "trial", "between", "fin"} /\ d.k \in 1..(Len(Ops) + 1)
  /\ d.i \in 1..Trials /\ d.left \in Nat
  /\ out.how \in {"running", "ended", "raised", "killed", "suspended"}
  /\ files.plan \in -2..Trials /\ files.ckpt \in -1..Trials
  /\ pc \in {"idle", "record", "judge", "decide", "stuck", "down"}
  /\ handler \in {"none", "reset", "startup"} /\ todo \in 1..(Len(ResetSteps) + 1)
  /\ dirty \subseteq Groups /\ errors \subseteq {ResetSteps[k] : k \in DOMAIN ResetSteps}
  /\ pending \subseteq {"reset", "dump", "stop", "start"}
  /\ busy \in Nat /\ now \in Nat /\ faults \in 0..MaxFaults
  /\ DOMAIN own = Fields

(* A barrier marker tells the truth: when the first packet of an emission  *)
(* finds the marker of the last reset at the end of the log, whatever the  *)
(* registers still hold is on that marker's list of errors                 *)
(* (_reset_detector_state, handle_reset).  The R1 slot that run_t2_2 fills *)
(* on purpose after its reset is left aside.                               *)
MarkerHonest == met.marked => met.dirt \cap Registers \subseteq met.errors

(* The slice of the log that a trial is given holds the decisions of the   *)
(* packets sent for it, in the order they were sent and no others, and so  *)
(* does its ground truth (slice_decisions, tail -c in run_trial), unless   *)
(* the driver's own output shows a failure in this trial or an earlier one.*)
Sliced == {"sweep", "e12b", "e22", "t2_2", "t2_4", "t2_5", "t2_6", "t2_8"}
MustOwn == Sliced \cup {"m4", "m4_restart"}
Clean(i) == ~\E n \in out.noted : n[2] <= i
Quiet == out.noted = {} /\ out.lost = {}
OwnFiles ==
  \A i \in 1..Trials :
    (d.name \in MustOwn /\ Clean(i) /\ records[i].truth # << >>)
      => records[i].slice = sent[i] /\ records[i].truth = sent[i]

(* A reset that the driver sends finds the controller between two digests: *)
(* as long as no operation fails the controller never stops for good in    *)
(* handle_reset's locks, and no decision bears another epoch than its      *)
(* digest.                                                                 *)
ResetsQuiet ==
  Quiet => /\ pc # "stuck"
           /\ log # << >> => LastLine.seen = LastLine.epoch

(* A driver leaves the lab as it found it: when it has ended, its output   *)
(* shows no failure and the controller has settled, the manifest on the    *)
(* switch is the canonical one with a signature that verifies              *)
(* (run_m4_200bms, also after an exception in its trials, and the          *)
(* controller works with it; run_e12b restores the signature), and a       *)
(* controller that was stopped is up again, with no row of the capacity    *)
(* test (run_t1_7); the preflight of E12b leaves nothing of its probe.     *)
Canonical == disk.good /\ disk.doc = "canonical"
LabRestored ==
  (out.how \in {"ended", "raised"} /\ out.noted = {} /\ "start" \notin out.lost /\ Settled) =>
    /\ (d.name \in {"m4", "m4_restart"} /\ (out.how = "ended" \/ out.raised)) =>
         Canonical /\ Up /\ loaded.doc = "canonical"
    /\ d.name = "preflight_e12b" => Canonical /\ loaded.doc = "canonical"
    /\ (d.name = "e12b" /\ out.how = "ended") => Canonical
    /\ (d.name = "t1_7" /\ out.how = "ended") => Up /\ "OVERRIDE" \notin dirty

(* run_e7b, killed or told to stop and started again any number of times,  *)
(* never closes its ground truth with a planned event neither in it nor    *)
(* reported as not sent; a line of the ground truth was sent; an event     *)
(* stands there twice only if the driver was restarted in between.         *)
Times(e) == Cardinality({n \in DOMAIN files.gt : files.gt[n] = e})
ResumeComplete ==
  /\ files.done => \A e \in 1..files.plan : Times(e) > 0 \/ e \in files.errs
  /\ \A e \in 1..Trials : Times(e) <= Len(sent[e]) /\ Times(e) <= 1 + faults

(* A state check that passes on a dump it asked for itself found a clean   *)
(* switch: windows, versions and overrides are clear, and when the reset   *)
(* was over, everything it clears is (preflight_state_check.check).        *)
DumpHonest ==
  (own.verdict = "clean" /\ dump.at >= own.since) =>
    /\ dirty \cap {"R5_COUNT", "R5_BLOOM", "R6", "OVERRIDE"} = {}
    /\ dump.reset = "none" => dirty = {}

(* A trial that the runner calls invalid is called valid by the integrity  *)
(* checker, run when the driver has ended and the controller is at rest,   *)
(* only if its duration alone failed and was outvoted by ten or more items *)
(* that passed, whatever else was put into its directory, a decision log   *)
(* over the runner's empty one included (TrialRunner.finalize, run_all).   *)
I == INSTANCE Integrity
Holds(S, name, x) == IF name \in S THEN I!Of(x) ELSE I!Absent
SignedLine == [t |-> 0, err |-> FALSE, rat |-> "signed"]
Directory(extras, ptp) ==
  [registers_t0 |-> Holds(extras, "registers_t0", [readable |-> TRUE, value |-> [r \in {"R1"} |-> 0]]),
   registers_post |-> Holds(extras, "registers_post",
                            [readable |-> TRUE, sketch |-> [r \in {"s"} |-> 1], accepted |-> I!Absent]),
   ethtool_post |-> Holds(extras, "ethtool_post", I!Of(0)),
   log |-> Holds(extras, "log", <<SignedLine>>),
   manifest |-> I!Of([sha |-> own.sha, path |-> "", found |-> "", lock |-> "lock", hash |-> "lock"]),
   counts |-> Holds(extras, "counts",
                    [offered |-> 1000, rx_hulk |-> 600, drop_switch |-> 350, drop_nic |-> 50]),
   samples |-> Holds(extras, "samples", [actual |-> 1000, expected |-> 1000]),
   broker |-> Holds(extras, "broker", {1}), chrony |-> I!Absent,
   decisions |-> IF "decisions" \notin extras /\ d.name = "runner_cli" /\ own.actual > 0
                 THEN I!Of(<< >>) ELSE Holds(extras, "decisions", <<1, 2>>),
   ptp |-> IF ptp THEN I!Of(<<0, 1>>) ELSE I!Absent,
   duration |-> I!Of([declared |-> 1000 * Declared, actual |-> 1000 * own.actual])]
Extras == {"registers_t0", "registers_post", "ethtool_post", "log", "counts", "samples", "broker",
           "decisions"}
Outvoted(results) ==
  /\ Cardinality(I!Passed(results)) >= 10
  /\ I!Evaluated(results) \ I!Passed(results) = {"duration"}
OutvotedAlone ==
  (out.how # "running" /\ Settled /\ own.manifest /\ own.verdict = "invalid") =>
    \A extras \in SUBSET Extras, ptp \in BOOLEAN :
      \A results \in {I!run_all(Directory(extras, ptp))} :
        I!Valid(results) => Outvoted(results)

(* What run_e12b says of its phase B: the byte it flips makes ed25519      *)
(* reject the signature (run_e12b.py, corrupt_sig).                        *)
CorruptMeansBad ==
  (At("sleep") /\ d.k > 1 /\ Ops[d.k - 1].op = "corrupt") => ~disk.good
=============================================================================
