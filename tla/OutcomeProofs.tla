----------------------------- MODULE OutcomeProofs -----------------------------
(***************************************************************************)
(* What the outcome of an experiment is worth: a trial called invalid      *)
(* stays so unless it is outvoted, a switch called clean is clean, and a   *)
(* driver leaves the lab as it found it.  All three rest on where in its   *)
(* script a driver performs an operation, and on what it then has in hand. *)
(***************************************************************************)
EXTENDS CampaignProofs

(* No more than the thirteen items are evaluated. *)
Items == {"register_zero", "p4_sha", "conservation", "sample_count", "monotonic", "ptp_drift",
          "sketch", "nic_drops", "log_clean", "duration", "immutable", "signed", "broker"}
LEMMA AtMostThirteen ==
  ASSUME NEW E, E \subseteq Items
  PROVE  IsFiniteSet(E) /\ Cardinality(E) \in 0..13
<1> DEFINE f == [i \in 1..13 |->
                   <<"register_zero", "p4_sha", "conservation", "sample_count", "monotonic",
                     "ptp_drift", "sketch", "nic_drops", "log_clean", "duration", "immutable",
                     "signed", "broker">>[i]]
<1>1. IsFiniteSet(1..13) /\ Cardinality(1..13) = 13
  <2>1. IsFiniteSet(1..13) /\ Cardinality(1..13) = IF 1 > 13 THEN 0 ELSE 13 - 1 + 1
    BY FS_Interval, 1 \in Int, 13 \in Int, Zenon
  <2> QED  BY <2>1
<1>2. f \in Surjection(1..13, Items)
  <2>1. f \in [1..13 -> Items]
    BY DEF Items
  <2>2. \A x \in Items : \E i \in 1..13 : f[i] = x
    <3>1. /\ f[1] = "register_zero" /\ f[2] = "p4_sha" /\ f[3] = "conservation"
          /\ f[4] = "sample_count" /\ f[5] = "monotonic" /\ f[6] = "ptp_drift" /\ f[7] = "sketch"
          /\ f[8] = "nic_drops" /\ f[9] = "log_clean" /\ f[10] = "duration"
          /\ f[11] = "immutable" /\ f[12] = "signed" /\ f[13] = "broker"
      OBVIOUS
    <3>2. \A i \in {1, 2, 3, 4, 5, 6, 7, 8, 9, 10, 11, 12, 13} : i \in 1..13
      OBVIOUS
    <3> HIDE DEF f
    <3> QED  BY <3>1, <3>2 DEF Items
  <2> QED  BY <2>1, <2>2 DEF Surjection
<1>3. IsFiniteSet(Items) /\ Cardinality(Items) <= 13
  <2> HIDE DEF f
  <2> QED  BY <1>1, <1>2, FS_Surjection
<1>4. IsFiniteSet(E) /\ Cardinality(E) <= Cardinality(Items)
  <2> HIDE DEF f
  <2> QED  BY <1>3, FS_Subset
<1>5. Cardinality(E) \in Nat /\ Cardinality(Items) \in Nat
  BY <1>3, <1>4, FS_CardinalityType
<1> QED  BY <1>3, <1>4, <1>5

(* More than nine tenths of at most thirteen: at most one item failed, and *)
(* if one did, ten passed.                                                 *)
LEMMA OneOfEleven ==
  ASSUME NEW E, NEW P, E \subseteq Items, P \subseteq E \ {"duration"}, "duration" \in E,
         10 * Cardinality(P) > 9 * Cardinality(E)
  PROVE  Cardinality(P) >= 10 /\ E \ P = {"duration"}
<1>1. IsFiniteSet(E) /\ Cardinality(E) \in 0..13
  BY AtMostThirteen, Zenon
<1>2. Cardinality(E \ {"duration"}) = Cardinality(E) - 1 /\ IsFiniteSet(E \ {"duration"})
  BY <1>1, FS_RemoveElement, Zenon
<1>3. /\ Cardinality(P) <= Cardinality(E \ {"duration"}) /\ IsFiniteSet(P)
      /\ Cardinality(E \ {"duration"}) = Cardinality(P) => E \ {"duration"} = P
  BY <1>2, FS_Subset, Zenon
<1>4. Cardinality(P) \in Nat
  BY <1>3, FS_CardinalityType, Zenon
<1>5. Cardinality(P) >= 10 /\ Cardinality(P) = Cardinality(E) - 1
  <2>1. PICK p \in Nat : p = Cardinality(P)
    BY <1>4
  <2>2. PICK e \in 0..13 : e = Cardinality(E)
    BY <1>1
  <2>3. p <= e - 1 /\ 10 * p > 9 * e
    BY <1>2, <1>3, <2>1, <2>2
  <2>4. p >= 10 /\ p = e - 1
    BY ONLY <2>3, p \in Nat, e \in 0..13, SMT
  <2> QED  BY <2>1, <2>2, <2>4
<1>6. P = E \ {"duration"}
  BY <1>2, <1>3, <1>5
<1> QED  BY <1>5, <1>6

(* The checker counts with the same operator. *)
LEMMA CountedAlike == ASSUME NEW S PROVE I!Cardinality(S) = Cardinality(S)
  BY Zenon DEF I!Cardinality, Cardinality

(* A trial whose duration is out of the checker's bound is valid only when *)
(* nothing else fails and ten items pass.                                  *)
LEMMA OverlongOutvoted ==
  ASSUME NEW extras, NEW ptp, NEW r, r = I!run_all(Directory(extras, ptp)),
         ~I!check_duration_bound(1000 * Declared, 1000 * own.actual), I!Valid(r)
  PROVE  Outvoted(r)
<1>1. PICK dir : dir = Directory(extras, ptp)
  OBVIOUS
<1>2. /\ ~dir.duration.absent /\ dir.duration.is.declared = 1000 * Declared
      /\ dir.duration.is.actual = 1000 * own.actual
  BY <1>1 DEF Directory, I!Of
<1>3. r = I!run_all(dir)
  BY <1>1
<1>4. DOMAIN r = Items
  BY <1>3 DEF I!run_all, Items
<1>5. r.duration = "fail"
  <2>1. r.duration = I!Unless(dir.duration.absent,
                              I!check_duration_bound(dir.duration.is.declared,
                                                     dir.duration.is.actual))
    BY <1>3 DEF I!run_all
  <2>2. ~I!check_duration_bound(dir.duration.is.declared, dir.duration.is.actual)
    BY <1>2
  <2> QED  BY <1>2, <2>1, <2>2 DEF I!Unless, I!Verdict
<1>6. PICK E, P : E = I!Evaluated(r) /\ P = I!Passed(r)
  OBVIOUS
<1>7. E \subseteq Items /\ P \subseteq E \ {"duration"} /\ "duration" \in E
  <2>1. "duration" \in Items
    BY DEF Items
  <2> QED  BY <1>4, <1>5, <1>6, <2>1 DEF I!Evaluated, I!Passed
<1>8. 10 * Cardinality(P) > 9 * Cardinality(E)
  <2>1. 10 * I!Cardinality(P) > 9 * I!Cardinality(E)
    BY <1>6, Zenon DEF I!Valid
  <2>2. I!Cardinality(P) = Cardinality(P) /\ I!Cardinality(E) = Cardinality(E)
    BY CountedAlike
  <2> QED  BY <2>1, <2>2, Zenon
<1>9. Cardinality(P) >= 10 /\ E \ P = {"duration"}
  BY <1>7, <1>8, OneOfEleven
<1> QED  BY <1>6, <1>9 DEF Outvoted

(* OutvotedAlone is not inductive: a runner that has failed has left its   *)
(* actual duration out of the bound of 2 %, be it 0 because the preflight  *)
(* failed before the scenario began, or by what postflight found; and it   *)
(* fails nowhere else.                                                     *)
FinishAt == IF d.name = "t1_6" THEN 10 ELSE 6
PostAt == IF d.name = "t1_6" THEN 12 ELSE 7
Judged ==
  /\ own.begin \in Nat /\ own.actual \in Int
  /\ d.name \notin Runners => ~own.manifest
  /\ d.name \in Runners =>
       /\ (d.part = "pre" \/ (d.part = "trial" /\ d.k <= FinishAt)) => own.actual = 0
       /\ own.failed => /\ d.part = "fin" \/ (d.part = "trial" /\ d.k > PostAt)
                        /\ ~I!check_duration_bound(1000 * Declared, 1000 * own.actual)
       /\ own.verdict = "invalid" => own.failed

(* No exception is caught in the runner's trials, and they have but one.   *)
LEMMA RunnerPlain ==
  \A name \in Runners :
    Script[name].next = FALSE /\ Script[name].finally = FALSE /\ Script[name].trials = 1
<1>1. t1_6.next = FALSE /\ t1_6.finally = FALSE /\ t1_6.trials = 1
  BY DEF t1_6, Plain
<1>2. runner_cli.next = FALSE /\ runner_cli.finally = FALSE /\ runner_cli.trials = 1
  BY DEF runner_cli, Plain
<1>3. Script["t1_6"] = t1_6 /\ Script["runner_cli"] = runner_cli
  BY DEF Script
<1> QED  BY <1>1, <1>2, <1>3 DEF Runners

(* The driver goes forward and keeps what the verdict rests on.  *)
LEMMA JudgedForward ==
  ASSUME Typed, Judged, d'.name = d.name, own'.begin \in Nat,
         own'.actual = own.actual, own'.failed = own.failed, own'.manifest = own.manifest,
         own'.verdict = own.verdict,
         d.name \in Runners => \/ d'.part = "fin"
                               \/ d'.part = d.part /\ d'.k \in Nat /\ d.k <= d'.k
                               \/ d.part = "pre" /\ d'.part = "trial"
  PROVE  Judged'
<1>1. d.k \in Nat /\ FinishAt \in Nat /\ FinishAt' = FinishAt /\ PostAt \in Nat /\ PostAt' = PostAt
  BY DEF Typed, DriverTyped, FinishAt, PostAt
<1>2. I!check_duration_bound(1000 * Declared, 1000 * own.actual)'
        = I!check_duration_bound(1000 * Declared, 1000 * own.actual)
  BY DEF I!check_duration_bound, I!Distance
<1>3. CASE d.name \notin Runners
  BY <1>3 DEF Judged
<1>4. CASE d.name \in Runners
  BY <1>1, <1>2, <1>4 DEF Judged
<1> QED  BY <1>3, <1>4

LEMMA JudgedStill ==
  ASSUME Typed, Judged, own' = own, d'.name = d.name, d'.part = d.part, d'.k = d.k
  PROVE  Judged'
  BY JudgedForward DEF Judged, Typed, DriverTyped

(* An operation that fails fills nothing the verdict rests on.             *)
LEMMA JudgedFails ==
  ASSUME Typed, Judged, Fails \/ FindsNothing
  PROVE  Judged'
<1>1. Working /\ Trouble
      /\ (Missed \/ Signal \/ WriteDisk \/ Rows \/ SentUnheard
          \/ Launch(op.arg, FALSE) \/ Launch(<<op.arg[1]>>, TRUE))
  BY Zenon DEF Fails, FindsNothing, Ready
<1>2. own'.begin \in Nat /\ own'.actual = own.actual /\ own'.failed = own.failed
      /\ own'.manifest = own.manifest /\ own'.verdict = own.verdict
  <2>1. DOMAIN own = Fields /\ now \in Nat /\ own.begin \in Nat
    BY DEF Typed, HandsTyped, LoopTyped, Judged
  <2>2. \/ own' = own
        \/ \E x : own' = [own EXCEPT !.since = x] \/ own' = [own EXCEPT !.from = x]
                 \/ own' = [own EXCEPT !.to = x] \/ own' = [own EXCEPT !.backup = x]
        \/ own' = [own EXCEPT !.begin = now]
    BY <1>1 DEF Missed, Signal, WriteDisk, Rows, SentUnheard, Launch
  <2> QED  BY <2>1, <2>2 DEF Fields, OwnInit
<1>3. d'.name = d.name
  BY NameKept DEF Next
<1>4. d.name \in Runners => d'.part = d.part /\ d'.k \in Nat /\ d.k <= d'.k
  <2> SUFFICES ASSUME d.name \in Runners
               PROVE  d'.part = d.part /\ d'.k \in Nat /\ d.k <= d'.k
    OBVIOUS
  <2>1. Mine.next = FALSE /\ Mine.finally = FALSE /\ d.k \in Nat
    BY RunnerPlain DEF Mine, Typed, DriverTyped
  <2>2. d' = d \/ \E n \in {1, 2} : Onward(n)
    BY <1>1, <2>1 DEF Trouble, RaiseIn
  <2> QED  BY <2>1, <2>2 DEF Onward, Position
<1> QED  BY <1>2, <1>3, <1>4, JudgedForward

LEMMA JudgedTurns ==
  ASSUME Typed, Judged, Turn
  PROVE  Judged'
<1>1. own'.begin \in Nat /\ own'.actual = own.actual /\ own'.failed = own.failed
      /\ own'.manifest = own.manifest /\ own'.verdict = own.verdict
  <2>1. own' = own \/ own' = [own EXCEPT !.slice = << >>, !.live = << >>, !.truth = << >>]
    BY Zenon DEF Turn
  <2>2. DOMAIN own = Fields /\ own.begin \in Nat
    BY DEF Judged, Typed, HandsTyped
  <2> QED  BY <2>1, <2>2 DEF Fields, OwnInit
<1>2. d'.name = d.name
  BY NameKept DEF Next
<1>3. d.name \in Runners => \/ d'.part = "fin"
                            \/ d'.part = d.part /\ d'.k \in Nat /\ d.k <= d'.k
                            \/ d.part = "pre" /\ d'.part = "trial"
  <2> SUFFICES ASSUME d.name \in Runners
               PROVE  \/ d'.part = "fin"
                      \/ d'.part = d.part /\ d'.k \in Nat /\ d.k <= d'.k
                      \/ d.part = "pre" /\ d'.part = "trial"
    OBVIOUS
  <2>1. Mine.trials = 1 /\ d.name # "e7b" /\ d.i \in 1..Trials /\ d.k \in Nat
    BY RunnerPlain DEF Mine, Typed, DriverTyped, Runners
  <2>2. LastTrial = 1 /\ ~(d.i < LastTrial)
    BY <2>1 DEF LastTrial
  <2>3. d.part # "between"
    BY <2>2 DEF Typed, DriverTyped
  <2> QED  BY <2>1, <2>2, <2>3 DEF Turn, AfterTrial, Position
<1> QED  BY <1>1, <1>2, <1>3, JudgedForward

(* One that works does so at its place: preflight before begin, finish     *)
(* before postflight, finalize after both.                                 *)
LEMMA JudgedWorks ==
  ASSUME Typed, Judged, Works
  PROVE  Judged'
<1>1. Working /\ Effect
  BY DEF Works, Ready
<1>2. d'.name = d.name
  BY NameKept DEF Next
<1>3. DOMAIN own = Fields /\ now \in Nat /\ own.begin \in Nat /\ own.actual \in Int
      /\ d.k \in Nat /\ d.k \in 1..Len(Ops) /\ op.op \in Kinds(d.name)
  <2>1. d.k \in 1..Len(Ops) /\ op.op \in Kinds(d.name)
    BY <1>1, AtWork, Zenon
  <2> QED  BY <2>1 DEF Typed, HandsTyped, LoopTyped, DriverTyped, Judged
<1>4. d.name \in Runners =>
        /\ d.part = "trial"
        /\ \/ op.op = "preflight" /\ own'.failed /\ d' = Position("trial", d.i, FinalizeAt)
           \/ ~(op.op = "preflight" /\ own'.failed) /\ d' = Position("trial", d.i, d.k + 1)
  <2> SUFFICES ASSUME d.name \in Runners
               PROVE  /\ d.part = "trial"
                      /\ \/ op.op = "preflight" /\ own'.failed
                            /\ d' = Position("trial", d.i, FinalizeAt)
                         \/ ~(op.op = "preflight" /\ own'.failed)
                            /\ d' = Position("trial", d.i, d.k + 1)
    OBVIOUS
  <2>1. d.part = "trial"
    BY <1>1, RunnerAt
  <2>2. op.op # "await_event"
    BY <1>3 DEF Kinds, Runners, LabOps, RunnerOps, Checkers
  <2> QED  BY <2>1, <2>2 DEF Works, Onward
<1>5. d.name \in Runners =>
        /\ d.name = "t1_6" => Len(Ops) = 14 /\ \A k \in 1..14 : Ops[k].op = RunnerTrial[k]
        /\ d.name = "runner_cli" => Len(Ops) = 8 /\ \A k \in 1..8 : Ops[k].op = CliTrial[k]
  BY <1>1, RunnerAt
<1>6. CASE op.op \notin RunnerOps \cup {"verdict"}
  <2>1. own'.begin \in Nat /\ own'.actual = own.actual /\ own'.failed = own.failed
        /\ own'.manifest = own.manifest /\ own'.verdict = own.verdict
    <3>1. CASE TakeHands
      BY <1>3, <1>6, <3>1 DEF TakeHands, Taken, RunnerOps, Fields, OwnInit
    <3>2. CASE ~TakeHands
      <4>1. \/ own' = own
            \/ \E x : own' = [own EXCEPT !.since = x] \/ own' = [own EXCEPT !.backup = x]
            \/ own' = [own EXCEPT !.begin = now]
        <5>1. preflight_check \/ Signal \/ WriteDisk \/ Rows \/ WriteFiles \/ Launch(op.arg, FALSE)
              \/ send_packet
          BY <1>1, <3>2, Zenon DEF Effect
        <5>2. ~preflight_check
          BY <1>6 DEF preflight_check, RunnerOps
        <5> QED
          BY <5>1, <5>2 DEF Signal, WriteDisk, Rows, WriteFiles, Launch, send_packet
      <4> QED  BY <1>3, <4>1 DEF Fields, OwnInit
    <3> QED  BY <3>1, <3>2
  <2>2. d.name \in Runners => d'.part = d.part /\ d'.k \in Nat /\ d.k <= d'.k
    BY <1>3, <1>4, <1>6 DEF Position, RunnerOps
  <2> QED  BY <1>2, <2>1, <2>2, JudgedForward
<1>7. CASE op.op = "verdict"
  <2>1. own' = [own EXCEPT !.verdict = IF StateClean THEN "clean" ELSE "dirty"]
    BY <1>1, <1>7 DEF Effect, TakeHands, Hands, Taken, preflight_check, Signal, Signals, WriteDisk,
       Rows, WriteFiles, Launch, send_packet
  <2>2. d.name \notin Runners
    BY <1>3, <1>7 DEF Kinds, Runners, Checkers, LabOps, RunnerOps
  <2> QED  BY <1>2, <1>3, <2>1, <2>2 DEF Judged, Fields, OwnInit
<1>8. CASE op.op \in RunnerOps
  <2>1. d.name \in Runners
    BY <1>3, <1>8 DEF Kinds, FileOps, LabOps, RunnerOps
  <2>2. d.part = "trial" /\ d'.part = "trial"
        /\ (op.op # "preflight" => d'.k = d.k + 1)
        /\ (op.op = "preflight" => d'.k = IF own'.failed THEN FinalizeAt ELSE d.k + 1)
    BY <1>4, <2>1 DEF Position
  <2>3. FinishAt' = FinishAt /\ PostAt' = PostAt /\ FinishAt \in Nat /\ PostAt \in Nat
    BY <1>2 DEF FinishAt, PostAt
  <2>4. CASE op.op = "preflight"
    <3>1. \E sha \in {"", "conf"}, ok \in (IF d.name = "t1_6" THEN {TRUE} ELSE BOOLEAN) :
            own' = [own EXCEPT !.sha = sha, !.failed = ~ok]
      BY <1>1, <2>4 DEF Effect, TakeHands, Hands, preflight_check, Signal, Signals, WriteDisk,
         Rows, WriteFiles, Launch, send_packet
    <3>2. d.k <= 6 /\ (d.name = "runner_cli" => d.k = 3)
      <4>1. CASE d.name = "t1_6"
        <5>1. d.k \in 1..14 /\ RunnerTrial[d.k] = "preflight"
          BY <1>3, <1>5, <2>1, <2>4, <4>1 DEF op
        <5> QED  BY <4>1, <5>1 DEF RunnerTrial
      <4>2. CASE d.name = "runner_cli"
        <5>1. d.k \in 1..8 /\ CliTrial[d.k] = "preflight"
          BY <1>3, <1>5, <2>1, <2>4, <4>2 DEF op
        <5> QED  BY <5>1 DEF CliTrial
      <4> QED  BY <2>1, <4>1, <4>2 DEF Runners
    <3>3. own.actual = 0 /\ ~own.failed /\ own.verdict # "invalid"
      BY <1>3, <2>1, <2>2, <3>2 DEF Judged, FinishAt, PostAt, Runners
    <3>4. own'.begin = own.begin /\ own'.actual = 0 /\ own'.verdict = own.verdict
          /\ (own'.failed => d.name = "runner_cli")
      BY <1>3, <2>1, <3>1, <3>3 DEF Fields, OwnInit, Runners
    <3>5. own'.failed => d'.k = 8
      <4> SUFFICES ASSUME own'.failed
                   PROVE  d'.k = 8
        OBVIOUS
      <4>1. d.name = "runner_cli" /\ d'.k = FinalizeAt /\ FinalizeAt \in 1..Len(Ops)
            /\ Ops[FinalizeAt].op = "finalize"
        BY <1>1, <2>2, <2>4, <3>4, FinalizeFound
      <4>2. FinalizeAt \in 1..8 /\ CliTrial[FinalizeAt] = "finalize"
        BY <1>5, <2>1, <4>1
      <4> QED  BY <4>1, <4>2 DEF CliTrial
    <3>6. ~I!check_duration_bound(1000 * Declared, 1000 * 0)
      BY DriversAssumption DEF I!check_duration_bound, I!Distance
    <3>7. I!check_duration_bound(1000 * Declared, 1000 * own.actual)'
            = I!check_duration_bound(1000 * Declared, 1000 * 0)
      BY <3>4 DEF I!check_duration_bound, I!Distance
    <3> QED
      BY <1>2, <1>3, <2>1, <2>2, <2>3, <3>3, <3>4, <3>5, <3>6, <3>7 DEF Judged, PostAt, Runners
  <2>5. CASE op.op # "preflight"
    <3>1. own' = Taken
      BY <1>1, <1>8, <2>5 DEF RunnerOps, Effect, TakeHands, preflight_check, Signal, Signals,
         WriteDisk, Rows, WriteFiles, Launch, send_packet
    <3>2. d'.k = d.k + 1
      BY <2>2, <2>5
    <3>3. CASE op.op = "begin"
      <4>1. own' = [own EXCEPT !.begin = now]
        BY <3>1, <3>3 DEF Taken
      <4>2. own'.begin = now /\ own'.actual = own.actual /\ own'.failed = own.failed
            /\ own'.manifest = own.manifest /\ own'.verdict = own.verdict
        BY <1>3, <4>1 DEF Fields, OwnInit
      <4> QED  BY <1>2, <1>3, <2>2, <3>2, <4>2, JudgedForward
    <3>4. CASE op.op = "finish"
      <4>1. own' = [own EXCEPT !.actual = now - own.begin]
        BY <3>1, <3>4 DEF Taken
      <4>2. d.k = FinishAt /\ FinishAt < PostAt
        <5>1. CASE d.name = "t1_6"
          <6>1. d.k \in 1..14 /\ RunnerTrial[d.k] = "finish"
            BY <1>3, <1>5, <2>1, <3>4, <5>1 DEF op
          <6> QED  BY <5>1, <6>1 DEF RunnerTrial, FinishAt, PostAt
        <5>2. CASE d.name = "runner_cli"
          <6>1. d.k \in 1..8 /\ CliTrial[d.k] = "finish"
            BY <1>3, <1>5, <2>1, <3>4, <5>2 DEF op
          <6> QED  BY <5>2, <6>1 DEF CliTrial, FinishAt, PostAt
        <5> QED  BY <2>1, <5>1, <5>2 DEF Runners
      <4>3. ~own.failed /\ own.verdict # "invalid"
        BY <1>3, <2>1, <2>2, <2>3, <4>2 DEF Judged
      <4>4. own'.begin = own.begin /\ own'.actual \in Int /\ own'.failed = own.failed
            /\ own'.verdict = own.verdict
        BY <1>3, <4>1 DEF Fields, OwnInit
      <4> QED  BY <1>2, <1>3, <2>1, <2>2, <2>3, <3>2, <4>2, <4>3, <4>4 DEF Judged
    <3>5. CASE op.op = "postflight"
      <4>1. own' = [own EXCEPT !.failed = @ \/ (Declared > 0 /\ ~check_duration)]
        BY <3>1, <3>5 DEF Taken
      <4>2. d.k = PostAt /\ FinishAt < PostAt
        <5>1. CASE d.name = "t1_6"
          <6>1. d.k \in 1..14 /\ RunnerTrial[d.k] = "postflight"
            BY <1>3, <1>5, <2>1, <3>5, <5>1 DEF op
          <6> QED  BY <5>1, <6>1 DEF RunnerTrial, FinishAt, PostAt
        <5>2. CASE d.name = "runner_cli"
          <6>1. d.k \in 1..8 /\ CliTrial[d.k] = "postflight"
            BY <1>3, <1>5, <2>1, <3>5, <5>2 DEF op
          <6> QED  BY <5>2, <6>1 DEF CliTrial, FinishAt, PostAt
        <5> QED  BY <2>1, <5>1, <5>2 DEF Runners
      <4>3. ~own.failed /\ own.verdict # "invalid"
        BY <1>3, <2>1, <2>2, <2>3, <4>2 DEF Judged
      <4>4. own'.begin = own.begin /\ own'.actual = own.actual /\ own'.verdict = own.verdict
            /\ (own'.failed => ~check_duration)
        BY <1>3, <4>1, <4>3 DEF Fields, OwnInit
      <4>5. ~check_duration => ~I!check_duration_bound(1000 * Declared, 1000 * own.actual)
        <5>1. PICK a \in Int, n \in Nat : a = own.actual /\ n = Declared
          BY <1>3, DriversAssumption
        <5> DEFINE gap == IF a < n THEN n - a ELSE a - n
        <5>2. PICK g \in Nat : g = gap
          BY <5>1
        <5>3. check_duration \/ 100 * g > 2 * n
          BY <5>1, <5>2 DEF check_duration, Tolerance
        <5>4. I!Distance(1000 * n, 1000 * a) = 1000 * g /\ I!Distance(1000 * a, 1000 * n) = 1000 * g
          BY <5>1, <5>2 DEF I!Distance
        <5>5. 100 * g > 2 * n => ~(50 * (1000 * g) <= 1000 * n)
          BY <5>2
        <5> QED  BY <5>1, <5>3, <5>4, <5>5 DEF I!check_duration_bound
      <4>6. I!check_duration_bound(1000 * Declared, 1000 * own.actual)'
              = I!check_duration_bound(1000 * Declared, 1000 * own.actual)
        BY <4>4 DEF I!check_duration_bound, I!Distance
      <4> QED
        BY <1>2, <1>3, <2>1, <2>2, <2>3, <3>2, <4>2, <4>3, <4>4, <4>5, <4>6 DEF Judged
    <3>6. CASE op.op = "finalize"
      <4>1. own' = [own EXCEPT !.manifest = TRUE,
                               !.verdict = IF own.failed THEN "invalid" ELSE "valid"]
        BY <3>1, <3>6 DEF Taken
      <4>2. own'.begin = own.begin /\ own'.actual = own.actual /\ own'.failed = own.failed
            /\ (own'.verdict = "invalid" => own.failed)
        BY <1>3, <4>1 DEF Fields, OwnInit
      <4>3. I!check_duration_bound(1000 * Declared, 1000 * own.actual)'
              = I!check_duration_bound(1000 * Declared, 1000 * own.actual)
        BY <4>2 DEF I!check_duration_bound, I!Distance
      <4> QED
        BY <1>2, <1>3, <2>1, <2>2, <2>3, <3>2, <4>2, <4>3 DEF Judged
    <3> QED  BY <1>8, <2>5, <3>3, <3>4, <3>5, <3>6 DEF RunnerOps
  <2> QED  BY <2>4, <2>5
<1> QED  BY <1>6, <1>7, <1>8

LEMMA HandsEmpty ==
  OwnInit.begin = 0 /\ OwnInit.actual = 0 /\ OwnInit.failed = FALSE /\ OwnInit.manifest = FALSE
  /\ OwnInit.verdict = "none" /\ OwnInit.since = 0
  BY DEF OwnInit

LEMMA JudgedInit == Init => Judged
<1> SUFFICES ASSUME Init
             PROVE  Judged
  OBVIOUS
<1>1. own = OwnInit
  BY DEF Init
<1>2. own.begin = 0 /\ own.actual = 0 /\ own.failed = FALSE /\ own.manifest = FALSE
      /\ own.verdict = "none"
  BY <1>1, HandsEmpty
<1> QED  BY <1>2 DEF Judged

LEMMA JudgedStep ==
  ASSUME Typed, Judged, [Next]_allVars
  PROVE  Judged'
<1>1. CASE Halt \/ Resume
  <2>1. d.name = "e7b" /\ d'.name = d.name
    BY <1>1, NameKept DEF Halt, Resume, Next
  <2>2. own'.begin \in Nat /\ own'.actual \in Int /\ ~own'.manifest
    <3>1. own' = OwnInit \/ own' = [own EXCEPT !.halt = TRUE]
      BY <1>1 DEF Halt, Resume
    <3>2. own.begin \in Nat /\ own.actual \in Int /\ ~own.manifest /\ DOMAIN own = Fields
      BY <2>1 DEF Judged, Runners, Typed, HandsTyped
    <3>3. own' = OwnInit \/ (own'.begin = own.begin /\ own'.actual = own.actual
                             /\ own'.manifest = own.manifest)
      BY <3>1, <3>2 DEF OwnInit, Fields
    <3> QED  BY <3>2, <3>3, HandsEmpty
  <2> QED  BY <2>1, <2>2 DEF Judged, Runners
<1>2. CASE Suspend \/ Packet \/ Tick \/ Kill \/ Controller \/ Over \/ UNCHANGED allVars
  <2>1. own' = own /\ d'.name = d.name /\ d'.part = d.part /\ d'.k = d.k
    BY <1>2 DEF Suspend, Packet, Tick, Kill, Controller, Over, allVars, drvVars, Typed, DriverTyped
  <2> QED  BY <2>1, JudgedStill
<1> QED  BY <1>1, <1>2, JudgedWorks, JudgedFails, JudgedTurns DEF Next

LEMMA JudgedHolds == Spec => []Judged
  BY TypedHolds, JudgedInit, JudgedStep, PTL DEF Spec

(* A trial that the runner finalizes as invalid is valid for the integrity *)
(* checker only if nothing but its duration fails and ten items pass,      *)
(* whatever other artefacts its directory holds, for every declared        *)
(* duration and every actual one.                                          *)
THEOREM InvalidOutvoted == Spec => []OutvotedAlone
<1>1. Judged => OutvotedAlone
  <2> SUFFICES ASSUME Judged, own.manifest, own.verdict = "invalid",
                      NEW extras \in SUBSET Extras, NEW ptp \in BOOLEAN,
                      NEW results, results = I!run_all(Directory(extras, ptp)), I!Valid(results)
               PROVE  Outvoted(results)
    BY DEF OutvotedAlone
  <2>1. ~I!check_duration_bound(1000 * Declared, 1000 * own.actual)
    BY DEF Judged
  <2> QED  BY <2>1, OverlongOutvoted
<1> QED  BY <1>1, JudgedHolds, PTL

-----------------------------------------------------------------------------
(* The state check. Early: it has not asked for its dump; Waited: it has   *)
(* asked and waited. Behind: what the reset under way has been at.         *)
Early == IF d.name = "preflight_e12b" THEN d.part # "fin" \/ d.k <= 3
         ELSE d.part = "pre" /\ d.k <= 3
Late == d.k >= 5 \/ (d.k = 4 /\ d.left = 0)
Waited == IF d.name = "preflight_e12b" THEN d.part = "fin" /\ Late ELSE d.part # "pre" \/ Late
Behind == {ResetSteps[k] : k \in 1..(todo - 1)}
Swept(set, errs) == set \subseteq errs \cup {"OVERRIDE"} \/ Registers \subseteq set
(* While a check goes on nothing is sent, so that the controller only      *)
(* sweeps and dumps: what is not clear when a reset is through is on its   *)
(* list of errors, and nothing gets dirty after a dump.                    *)
Cleared ==
  /\ pc = "idle" /\ queue = << >> /\ jobs = {} /\ pending \subseteq {"reset", "dump"}
  /\ handler = "none" => Swept(dirty, errors)
  /\ handler # "none" => dirty \cap Behind \subseteq errors \cup {"OVERRIDE"}
  /\ dump.at \in Int
  /\ dump.at >= 0 => /\ dirty \subseteq dump.dirty
                     /\ dump.reset = "none" => Swept(dump.dirty, dump.errors)
(* DumpHonest is not inductive: there is one dump of this run at most, it  *)
(* is taken between the request and the end of the wait, and a verdict     *)
(* comes after that, so that the file the check has read is not written    *)
(* again.                                                                  *)
Asked ==
  /\ own.since \in Nat
  /\ "dump" \in pending => dump.at < 0
  /\ (Early /\ out.how = "running") => dump.at < 0 /\ "dump" \notin pending
  /\ Waited => "dump" \notin pending
  /\ own.verdict = "clean" => Waited /\ StateClean
Honest == IF d.name \in Checkers THEN Cleared /\ Asked ELSE own.verdict # "clean"

(* A reset that is through has been at every group.  *)
LEMMA BehindAll ==
  ASSUME LoopTyped, todo > Len(ResetSteps)
  PROVE  Groups \subseteq Behind
<1>1. todo = 9
  BY DEF LoopTyped, ResetSteps
<1>2. \A k \in 1..8 : ResetSteps[k] \in Behind
  BY <1>1 DEF Behind
<1>3. /\ ResetSteps[1] = "R1" /\ ResetSteps[2] = "R5_COUNT" /\ ResetSteps[3] = "R5_BLOOM"
      /\ ResetSteps[4] = "R6" /\ ResetSteps[5] = "HOLD_ARMED" /\ ResetSteps[7] = "SESSION"
      /\ ResetSteps[8] = "OVERRIDE"
  BY DEF ResetSteps
<1>4. \A k \in {1, 2, 3, 4, 5, 7, 8} : ResetSteps[k] \in Behind
  BY <1>2
<1> QED  BY <1>3, <1>4 DEF Groups

LEMMA BehindNext ==
  ASSUME LoopTyped, todo' = todo + 1
  PROVE  Behind' = Behind \cup {ResetSteps[todo]}
<1>1. todo \in Nat \ {0}
  BY DEF LoopTyped
<1>2. \A k : k \in 1..(todo' - 1) <=> k \in 1..(todo - 1) \/ k = todo
  BY <1>1
<1> QED  BY <1>2 DEF Behind

(* What the controller does of its own while a check goes on: it sweeps,   *)
(* and it dumps.                                                           *)
LEMMA ClearedStep ==
  ASSUME Typed, Cleared, Step, UNCHANGED jobs
  PROVE  /\ Cleared'
         /\ pending' \subseteq pending
         /\ dump' = dump \/ ("dump" \in pending /\ "dump" \notin pending')
<1>1. LoopTyped
  BY DEF Typed
<1>2. CASE handle_reset
  <2>1. pc' = pc /\ handler' = "reset" /\ todo' = 1 /\ UNCHANGED <<queue, dirty, dump, jobs>>
        /\ pending' = pending \ {"reset"}
    BY <1>2 DEF handle_reset
  <2>2. Behind' = {}
    BY <2>1 DEF Behind
  <2> QED  BY <2>1, <2>2 DEF Cleared
<1>3. CASE reset_step \/ reset_step_fails \/ override_row_stays
  <2>1. todo' = todo + 1 /\ handler # "none" /\ todo \in 1..8
    BY <1>1, <1>3 DEF reset_step, reset_step_fails, override_row_stays, Resetting, LoopTyped,
       ResetSteps
  <2>2. UNCHANGED <<pc, queue, pending, handler, dump, jobs>>
    BY <1>3 DEF reset_step, reset_step_fails, override_row_stays
  <2>3. ResetSteps[todo] # "SESSION_RPCS" \/ ResetSteps[todo] \notin Groups
    BY DEF Groups
  <2>4. /\ dirty' \subseteq dirty /\ errors \subseteq errors'
        /\ ResetSteps[todo] \in dirty' => ResetSteps[todo] \in errors' \cup {"OVERRIDE"}
    BY <1>1, <1>3, <2>3 DEF reset_step, reset_step_fails, override_row_stays, Listed, LoopTyped
  <2>5. Behind' = Behind \cup {ResetSteps[todo]}
    BY <1>1, <2>1, BehindNext
  <2> QED  BY <2>1, <2>2, <2>4, <2>5 DEF Cleared
<1>4. CASE write_markers \/ startup_done
  <2>1. handler # "none" /\ todo > Len(ResetSteps) /\ handler' = "none"
        /\ UNCHANGED <<errors, pending, queue, dirty, dump, jobs>>
    BY <1>4 DEF write_markers, startup_done, ResetDone
  <2>2. pc' = pc
    BY <1>4 DEF write_markers, startup_done, Cleared
  <2>3. dirty \subseteq errors \cup {"OVERRIDE"}
    BY <1>1, <2>1, BehindAll DEF Cleared, LoopTyped
  <2> QED  BY <2>1, <2>2, <2>3 DEF Cleared, Swept
<1>5. CASE handle_dump_state
  <2>1. UNCHANGED <<pc, handler, todo, errors, queue, dirty, jobs>> /\ "dump" \in pending
        /\ pending' = pending \ {"dump"}
        /\ (dump' = DumpNow(TRUE) \/ dump' = DumpNow(FALSE) \/ dump' = dump)
    BY <1>5, Zenon DEF handle_dump_state, ctl
  <2>2. dump' = dump \/ (dump'.at = now /\ dump'.errors = errors /\ dump'.dirty = dirty
                         /\ dump'.reset = handler)
    BY <2>1 DEF DumpNow
  <2>3. now \in Nat /\ Behind' = Behind
    BY <1>1, <2>1 DEF LoopTyped, Behind
  <2> QED  BY <2>1, <2>2, <2>3 DEF Cleared
<1>6. CASE Reload
  <2>1. UNCHANGED <<pc, handler, todo, errors, pending, queue, dirty, dump, jobs>>
    BY <1>6 DEF Reload, ctl
  <2>2. Behind' = Behind
    BY <2>1 DEF Behind
  <2> QED  BY <2>1, <2>2 DEF Cleared
<1>7. ~(Receive \/ Recorded \/ evaluate_hold \/ _log_decision \/ handle_stop \/ run)
  BY DEF Cleared, Receive, Recorded, evaluate_hold, _log_decision, handle_stop, run, Main
<1> QED  BY <1>2, <1>3, <1>4, <1>5, <1>6, <1>7 DEF Step

(* The state check and the probe of the manifest, operation by operation.  *)
CheckOps == <<"usr1", "sleep", "usr2", "sleep", "fetch", "verdict">>
ProbeOps == <<"snapshot", "tamper", "sleep", "untamper", "sleep", "refusal">>
CheckPart == IF d.name = "preflight_e12b" THEN "fin" ELSE "pre"

LEMMA CheckScript ==
  ASSUME NEW n
  PROVE  /\ Len(check(n).pre) = 6
         /\ \A k \in 1..6 : check(n).pre[k].op = CheckOps[k]
         /\ \A k \in 1..6 : check(n).pre[k].err \in {"raise", "none"}
         /\ check(n).pre[4].op = "sleep" /\ check(n).pre[4].arg = 2
         /\ check(n).trial = << >> /\ check(n).between = << >> /\ check(n).fin = << >>
         /\ check(n).trials = 0 /\ check(n).next = FALSE /\ check(n).finally = FALSE
<1>1. Len(check(n).pre) = 6
  BY DEF check, Plain, Op, Do, Sleep
<1>2. LET s == check(n).pre IN
      /\ s[1].op = "usr1" /\ s[2].op = "sleep" /\ s[3].op = "usr2" /\ s[4].op = "sleep"
      /\ s[5].op = "fetch" /\ s[6].op = "verdict"
  BY DEF check, Plain, Op, Do, Sleep
<1>3. LET s == check(n).pre IN
      /\ s[1].err = "raise" /\ s[2].err = "none" /\ s[3].err = "raise" /\ s[4].err = "none"
      /\ s[5].err = "raise" /\ s[6].err = "none"
  BY DEF check, Plain, Op, Do, Sleep
<1>4. check(n).trial = << >> /\ check(n).between = << >> /\ check(n).fin = << >>
      /\ check(n).trials = 0 /\ check(n).next = FALSE /\ check(n).finally = FALSE
  BY DEF check, Plain
<1>5. check(n).pre[4].arg = 2
  BY DEF check, Plain, Op, Do, Sleep
<1> QED  BY <1>1, <1>2, <1>3, <1>4, <1>5 DEF CheckOps

LEMMA ProbeScript ==
  /\ Len(preflight_e12b.trial) = 6
  /\ \A k \in 1..6 : preflight_e12b.trial[k].op = ProbeOps[k]
  /\ \A k \in 1..6 : preflight_e12b.trial[k].err \in {"raise", "none"}
  /\ preflight_e12b.pre = << >> /\ preflight_e12b.between = << >>
  /\ preflight_e12b.fin = check(4).pre
  /\ preflight_e12b.trials = 1 /\ preflight_e12b.finally = FALSE
<1>1. Len(preflight_e12b.trial) = 6
  BY DEF preflight_e12b, c_negative, Plain, Op, Do, Sleep
<1>2. LET s == preflight_e12b.trial IN
      /\ s[1].op = "snapshot" /\ s[2].op = "tamper" /\ s[3].op = "sleep" /\ s[4].op = "untamper"
      /\ s[5].op = "sleep" /\ s[6].op = "refusal"
  BY DEF preflight_e12b, c_negative, Plain, Op, Do, Sleep
<1>3. LET s == preflight_e12b.trial IN
      /\ s[1].err = "raise" /\ s[2].err = "raise" /\ s[3].err = "none" /\ s[4].err = "raise"
      /\ s[5].err = "none" /\ s[6].err = "raise"
  BY DEF preflight_e12b, c_negative, Plain, Op, Do, Sleep
<1>4. preflight_e12b.pre = << >> /\ preflight_e12b.between = << >>
      /\ preflight_e12b.fin = check(4).pre
      /\ preflight_e12b.trials = 1 /\ preflight_e12b.finally = FALSE
  BY DEF preflight_e12b, Plain
<1> QED  BY <1>1, <1>2, <1>3, <1>4 DEF ProbeOps

LEMMA CheckerAt ==
  ASSUME Typed, Working, d.name \in Checkers
  PROVE  /\ op.err \in {"raise", "none"}
         /\ d.k \in 1..6
         /\ \/ d.part = CheckPart /\ op.op = CheckOps[d.k]
            \/ d.name = "preflight_e12b" /\ d.part = "trial" /\ op.op = ProbeOps[d.k]
         /\ d.part = CheckPart => Len(Ops) = 6 /\ Ops[4].op = "sleep" /\ Ops[4].arg = 2
<1>1. d.k \in 1..Len(Ops) /\ d.part \in Parts /\ op.op = Ops[d.k].op /\ op.err = Ops[d.k].err
  BY AtWork DEF Typed, DriverTyped, op
<1>2. ASSUME NEW n, Mine = check(n), d.name # "preflight_e12b"
      PROVE  /\ op.err \in {"raise", "none"} /\ d.k \in 1..6
             /\ d.part = CheckPart /\ op.op = CheckOps[d.k]
             /\ Len(Ops) = 6 /\ Ops[4].op = "sleep" /\ Ops[4].arg = 2
  <2>1. Ops = check(n)[d.part]
    BY <1>2 DEF Ops
  <2>2. d.part = "pre"
    <3>1. Len(check(n).trial) = 0 /\ Len(check(n).between) = 0 /\ Len(check(n).fin) = 0
      <4>1. check(n).trial = << >> /\ check(n).between = << >> /\ check(n).fin = << >>
        BY CheckScript, Zenon
      <4>2. Len(<< >>) = 0
        OBVIOUS
      <4> QED  BY <4>1, <4>2, Zenon
    <3>2. Ops # check(n).trial /\ Ops # check(n).between /\ Ops # check(n).fin
      BY <1>1, <3>1
    <3>3. /\ d.part = "trial" => Ops = check(n).trial
          /\ d.part = "between" => Ops = check(n).between
          /\ d.part = "fin" => Ops = check(n).fin
      BY <2>1
    <3> QED  BY <1>1, <3>2, <3>3 DEF Parts
  <2>3. Ops = check(n).pre
    BY <2>1, <2>2, Zenon
  <2>4. /\ Len(Ops) = 6 /\ Ops[4].op = "sleep" /\ Ops[4].arg = 2
        /\ \A k \in 1..6 : Ops[k].op = CheckOps[k] /\ Ops[k].err \in {"raise", "none"}
    BY <2>3, CheckScript, Zenon
  <2>5. d.k \in 1..6
    BY <1>1, <2>4
  <2> QED  BY <1>1, <1>2, <2>2, <2>4, <2>5 DEF CheckPart
<1>3. CASE d.name = "preflight_e12b"
  <2>1. Ops = preflight_e12b[d.part]
    BY <1>3 DEF Ops, Mine, Script
  <2>2. d.part = "trial" \/ d.part = "fin"
    BY <1>1, <2>1, ProbeScript DEF Parts
  <2>3. CASE d.part = "trial"
    <3>1. Ops = preflight_e12b.trial
      BY <2>1, <2>3, Zenon
    <3> QED  BY <1>1, <1>3, <2>3, <3>1, ProbeScript DEF CheckPart
  <2>4. CASE d.part = "fin"
    <3>1. Ops = check(4).pre
      BY <2>1, <2>4, ProbeScript, Zenon
    <3>2. Len(Ops) = 6 /\ \A k \in 1..6 : Ops[k].op = CheckOps[k] /\ Ops[k].err \in {"raise", "none"}
      BY <3>1, CheckScript
    <3>3. Ops[4].op = "sleep" /\ Ops[4].arg = 2
      BY <3>1, CheckScript, Zenon
    <3> QED  BY <1>1, <1>3, <2>4, <3>2, <3>3 DEF CheckPart
  <2> QED  BY <2>2, <2>3, <2>4
<1>4. CASE d.name # "preflight_e12b"
  <2>1. Mine = check(4) \/ Mine = check(15)
    BY <1>4 DEF Mine, Script, Checkers
  <2> QED  BY <1>2, <1>4, <2>1
<1> QED  BY <1>3, <1>4

(* What the driver of a check does to the controller: it asks.  *)
LEMMA CheckerEffect ==
  ASSUME Typed, Working, d.name \in Checkers, Effect \/ Hears
  PROVE  /\ UNCHANGED <<jobs, queue, dirty>>
         /\ \/ pending' = pending
            \/ op.op = "usr1" /\ pending' = pending \cup {"reset"}
            \/ op.op = "usr2" /\ pending' = pending \cup {"dump"}
         /\ op.op = "verdict" \/ own'.verdict = own.verdict
         /\ op.op = "verdict" => \/ own'.verdict = own.verdict
                                 \/ own'.verdict = IF StateClean THEN "clean" ELSE "dirty"
         /\ own'.since \in {own.since, now}
<1>1. op.op \in {"usr1", "sleep", "usr2", "fetch", "verdict", "snapshot", "tamper", "untamper",
                 "refusal"}
  BY CheckerAt DEF CheckOps, ProbeOps
<1>2. DOMAIN own = Fields
  BY DEF Typed, HandsTyped
<1>3. TakeHands \/ Signal \/ WriteDisk \/ Missed
  BY <1>1 DEF Effect, Hears, preflight_check, Rows, WriteFiles, Launch, send_packet, SentUnheard
<1>4. UNCHANGED <<jobs, queue, dirty>>
  BY <1>3 DEF TakeHands, Signal, WriteDisk, Missed
<1>5. \/ pending' = pending
      \/ op.op = "usr1" /\ pending' = pending \cup {"reset"}
      \/ op.op = "usr2" /\ pending' = pending \cup {"dump"}
  <2>1. CASE Signal
    <3>1. pending' = pending \/ pending' = pending \cup {Signals[op.op]}
      BY <2>1 DEF Signal
    <3>2. op.op = "usr1" \/ op.op = "usr2"
      BY <1>1, <2>1 DEF Signal, Signals
    <3>3. Signals["usr1"] = "reset" /\ Signals["usr2"] = "dump"
      BY DEF Signals
    <3> QED  BY <3>1, <3>2, <3>3
  <2> QED  BY <1>3, <2>1 DEF TakeHands, WriteDisk, Missed
<1>6. CASE op.op # "verdict"
  <2>1. \/ own' = own
        \/ own' = [own EXCEPT !.since = now]
        \/ \E x : own' = [own EXCEPT !.backup = x]
    BY <1>1, <1>3, <1>6 DEF TakeHands, Taken, Signal, WriteDisk, Missed
  <2> QED  BY <1>2, <1>4, <1>5, <1>6, <2>1 DEF Fields, OwnInit
<1>7. CASE op.op = "verdict"
  <2>1. own' = own \/ own' = [own EXCEPT !.verdict = IF StateClean THEN "clean" ELSE "dirty"]
    BY <1>3, <1>7 DEF TakeHands, Taken, Signal, Signals, WriteDisk, Missed
  <2> QED  BY <1>2, <1>4, <1>5, <1>7, <2>1 DEF Fields, OwnInit
<1> QED  BY <1>6, <1>7

(* Steps that change neither a dump nor a verdict.  *)
LEMMA AskedForward ==
  ASSUME Asked, UNCHANGED dump, own'.verdict = own.verdict, own'.since \in Nat,
         "dump" \in pending' => "dump" \in pending,
         (Early /\ out.how = "running")' => Early /\ out.how = "running",
         Waited' => Waited \/ "dump" \notin pending', own.verdict = "clean" /\ Waited => Waited'
  PROVE  Asked'
<1>1. StateClean' = StateClean
  BY DEF StateClean
<1> QED  BY <1>1 DEF Asked

LEMMA ClearedForward ==
  ASSUME Cleared, UNCHANGED <<pc, queue, jobs, handler, todo, errors, dirty, dump>>,
         pending' \subseteq {"reset", "dump"}
  PROVE  Cleared'
<1>1. Behind' = Behind
  BY DEF Behind
<1> QED  BY <1>1 DEF Cleared

(* The steps of the check itself: only its usr2 asks for a dump, and the   *)
(* wait that follows it ends with no request pending.                      *)
LEMMA HonestWorks ==
  ASSUME Typed, Cleared, Asked, d.name \in Checkers, Works
  PROVE  Cleared' /\ Asked'
<1>1. Working /\ Effect /\ ~Refused /\ UNCHANGED <<out, OutOfReach>>
  BY DEF Works, Ready
<1>2. out.how = "running" /\ out'.how = "running"
  BY <1>1 DEF Working
<1>3. UNCHANGED <<ctl, dump, jobs, queue, dirty>>
      /\ \/ pending' = pending
         \/ op.op = "usr1" /\ pending' = pending \cup {"reset"}
         \/ op.op = "usr2" /\ pending' = pending \cup {"dump"}
      /\ own'.since \in {own.since, now}
  BY <1>1, CheckerEffect DEF OutOfReach
<1>4. pending' \subseteq {"reset", "dump"} /\ own'.since \in Nat
  BY <1>3 DEF Cleared, Asked, Typed, LoopTyped
<1>5. Cleared'
  BY <1>3, <1>4, ClearedForward DEF ctl
<1>6. d.k \in 1..6 /\ \/ d.part = CheckPart /\ op.op = CheckOps[d.k]
                      \/ d.name = "preflight_e12b" /\ d.part = "trial" /\ op.op = ProbeOps[d.k]
  BY <1>1, CheckerAt
<1>7. op.op # "preflight" /\ op.op # "await_event"
  BY <1>6 DEF CheckOps, ProbeOps
<1>8. d'.name = d.name /\ d'.part = d.part /\ d'.k = d.k + 1
  BY <1>7 DEF Works, Onward, Position
<1>9. Early' => Early /\ op.op # "usr2"
  <2>1. CASE d.part = CheckPart
    <3>1. Early' => d.k + 1 <= 3
      BY <1>8, <2>1 DEF Early, CheckPart
    <3>2. Early' => d.k \in {1, 2}
      BY <1>6, <3>1
    <3>3. Early' => Early
      BY <2>1, <3>2 DEF Early, CheckPart
    <3>4. d.part = "fin" \/ d.name # "preflight_e12b"
      BY <2>1 DEF CheckPart
    <3>5. op.op = CheckOps[d.k]
      BY <1>6, <2>1 DEF CheckPart
    <3> QED  BY <3>2, <3>3, <3>5 DEF CheckOps
  <2>2. CASE d.name = "preflight_e12b" /\ d.part = "trial"
    <3>1. op.op = ProbeOps[d.k]
      BY <1>6, <2>2 DEF CheckPart
    <3> QED  BY <1>6, <2>2, <3>1 DEF Early, ProbeOps
  <2> QED  BY <1>6, <2>1, <2>2
<1>10. op.op = "usr2" => Early
  <2> SUFFICES ASSUME op.op = "usr2"
               PROVE  Early
    OBVIOUS
  <2>1. d.part = CheckPart /\ CheckOps[d.k] = "usr2"
    BY <1>6 DEF ProbeOps
  <2>2. d.k = 3
    BY <1>6, <2>1 DEF CheckOps
  <2> QED  BY <2>1, <2>2 DEF Early, CheckPart
<1>11. Waited => Waited'
  BY <1>6, <1>8 DEF Waited, Late
<1>12. Waited' => "dump" \notin pending'
  <2>1. CASE Waited
    <3>1. op.op # "usr2"
      BY <1>6, <2>1 DEF Waited, Late, CheckPart, CheckOps, ProbeOps
    <3> QED  BY <1>3, <2>1, <3>1 DEF Asked
  <2>2. CASE Waited' /\ ~Waited
    <3>1. d.part = CheckPart /\ op.op = CheckOps[d.k] /\ d.k \in {3, 4}
      BY <1>6, <1>8, <2>2 DEF Waited, Late, CheckPart
    <3>2. d.k # 3
      <4>0. SUFFICES ASSUME d.k = 3
                   PROVE  FALSE
        OBVIOUS
      <4>1. d' = Position(d.part, d.i, 4)
        <5>1. d' = Position(d.part, d.i, d.k + 1)
          BY <1>1, <1>7, Zenon DEF Works, Onward
        <5>2. d.k + 1 = 4
          BY <4>0
        <5> QED  BY <5>1, <5>2, Zenon
    <4>2. Mine[d.part] = Ops
        BY DEF Ops
      <4>3. Len(Ops) = 6 /\ Ops[4].op = "sleep" /\ Ops[4].arg = 2
        BY <1>1, <3>1, CheckerAt
      <4>4. d'.left = 2
        BY <4>1, <4>2, <4>3 DEF Position, Delay, Waiting
      <4> QED  BY <1>8, <2>2, <3>1, <4>0, <4>4 DEF Waited, Late, CheckPart
    <3>3. op.op = "sleep" /\ d.k = 4
      BY <3>1, <3>2 DEF CheckOps
    <3>4. d.left = 0
      BY <3>3 DEF Works, Ready, Satisfied, At
    <3> QED  BY <2>2, <3>1, <3>3, <3>4 DEF Waited, Late, CheckPart
  <2> QED  BY <2>1, <2>2
<1>13. own'.verdict = "clean" => Waited' /\ StateClean'
  <2>1. StateClean' = StateClean
    BY <1>3 DEF StateClean
  <2>2. CASE own'.verdict = own.verdict
    BY <1>11, <2>1, <2>2 DEF Asked
  <2>3. CASE op.op = "verdict" /\ own'.verdict # own.verdict
    <3>1. d.part = CheckPart /\ CheckOps[d.k] = "verdict"
      BY <1>6, <2>3 DEF ProbeOps
    <3>2. d.k = 6
      BY <1>6, <3>1 DEF CheckOps
    <3>3. Waited
      BY <3>1, <3>2 DEF Waited, Late, CheckPart
    <3>4. own'.verdict = IF StateClean THEN "clean" ELSE "dirty"
      BY <1>1, <2>3, CheckerEffect
    <3> QED  BY <1>11, <2>1, <3>3, <3>4
  <2> QED  BY <1>1, <2>2, <2>3, CheckerEffect
<1>14. "dump" \in pending' => dump'.at < 0
  BY <1>2, <1>3, <1>10 DEF Asked
<1>15. Early' => dump'.at < 0 /\ "dump" \notin pending'
  BY <1>2, <1>3, <1>9 DEF Asked
<1> QED  BY <1>2, <1>4, <1>5, <1>12, <1>13, <1>14, <1>15 DEF Asked

LEMMA HonestFails ==
  ASSUME Typed, Cleared, Asked, d.name \in Checkers, Fails \/ FindsNothing
  PROVE  Cleared' /\ Asked'
<1>1. Working /\ (Effect \/ Hears) /\ Trouble /\ UNCHANGED OutOfReach
      /\ (Missed \/ Signal \/ WriteDisk \/ Rows \/ SentUnheard
          \/ Launch(op.arg, FALSE) \/ Launch(<<op.arg[1]>>, TRUE))
  BY Zenon DEF Fails, FindsNothing, Ready, Effect, Hears
<1>2. out.how = "running" /\ DOMAIN out = {"how", "raised", "noted", "lost"}
  BY <1>1 DEF Working, Typed, DriverTyped
<1>3. UNCHANGED <<ctl, dump, jobs, queue, dirty>>
      /\ \/ pending' = pending
         \/ op.op = "usr1" /\ pending' = pending \cup {"reset"}
         \/ op.op = "usr2" /\ pending' = pending \cup {"dump"}
      /\ own'.since \in {own.since, now}
  BY <1>1, CheckerEffect DEF OutOfReach
<1>4. own'.verdict = own.verdict /\ own'.since \in Nat
  <2>0. own'.since \in Nat
    BY <1>3 DEF Asked, Typed, LoopTyped
  <2>1. DOMAIN own = Fields
    BY DEF Typed, HandsTyped
  <2>2. \/ own' = own
        \/ \E x : own' = [own EXCEPT !.since = x] \/ own' = [own EXCEPT !.from = x]
                 \/ own' = [own EXCEPT !.to = x] \/ own' = [own EXCEPT !.backup = x]
                 \/ own' = [own EXCEPT !.begin = x]
    BY <1>1 DEF Missed, Signal, WriteDisk, Rows, SentUnheard, Launch
  <2> QED  BY <2>0, <2>1, <2>2 DEF Fields, OwnInit
<1>5. Cleared'
  BY <1>3, ClearedForward DEF ctl, Cleared
<1>6. /\ op.err \in {"raise", "none"} /\ d.k \in 1..6
      /\ \/ d.part = CheckPart /\ op.op = CheckOps[d.k]
         \/ d.name = "preflight_e12b" /\ d.part = "trial" /\ op.op = ProbeOps[d.k]
  BY <1>1, CheckerAt
<1>7. Mine.finally = FALSE /\ (d.name # "preflight_e12b" => Mine.next = FALSE)
      /\ (d.name = "preflight_e12b" => Mine.trials = 1)
  <2>1. CASE d.name = "preflight_e12b"
    BY <2>1, ProbeScript DEF Mine, Script
  <2>2. CASE d.name # "preflight_e12b"
    <3>1. Mine = check(4) \/ Mine = check(15)
      BY <2>2 DEF Mine, Script, Checkers
    <3>2. \A n : check(n).next = FALSE /\ check(n).finally = FALSE
      BY CheckScript, Zenon
    <3> QED  BY <2>2, <3>1, <3>2, Zenon
  <2> QED  BY <2>1, <2>2
<1>8. \/ d' = d /\ out'.how = "raised"
      \/ d.part = "trial" /\ d.name = "preflight_e12b" /\ d' = AfterTrial(d.i)
  <2>1. (op.err = "raise" /\ RaiseIn) \/ (op.err = "none" /\ out' = [out EXCEPT !.how = "raised"] /\ d' = d)
    <3>1. Trouble
      BY <1>1, Zenon
    <3> QED  BY <1>6, <3>1 DEF Trouble
  <2>2. CASE op.err = "none" /\ out' = [out EXCEPT !.how = "raised"] /\ d' = d
    BY <1>2, <2>2
  <2>3. CASE RaiseIn
    <3>1. \/ d.part = "trial" /\ Mine.next /\ d' = AfterTrial(d.i)
          \/ out' = [out EXCEPT !.how = "raised"] /\ d' = d
      BY <1>7, <2>3, Zenon DEF RaiseIn
    <3>2. CASE d.part = "trial" /\ Mine.next /\ d' = AfterTrial(d.i)
      BY <1>7, <3>2, Zenon
    <3>3. CASE out' = [out EXCEPT !.how = "raised"] /\ d' = d
      BY <1>2, <3>3
    <3> QED  BY <3>1, <3>2, <3>3, Zenon
  <2> QED  BY <2>1, <2>2, <2>3, Zenon
<1>9. CASE d' = d /\ out'.how = "raised"
  <2>1. op.op = "usr2" => Early
    <3> SUFFICES ASSUME op.op = "usr2"
                 PROVE  Early
      OBVIOUS
    <3>1. d.part = CheckPart /\ CheckOps[d.k] = "usr2"
      BY <1>6 DEF ProbeOps
    <3>2. d.k = 3
      BY <1>6, <3>1 DEF CheckOps
    <3> QED  BY <3>1, <3>2 DEF Early, CheckPart
  <2>2. Waited' = Waited /\ StateClean' = StateClean
    BY <1>3, <1>9 DEF Waited, Late, StateClean
  <2>3. "dump" \in pending' => dump'.at < 0
    BY <1>2, <1>3, <2>1 DEF Asked
  <2>4. Waited' => "dump" \notin pending'
    <3>1. Waited => op.op # "usr2"
      BY <1>6 DEF Waited, Late, CheckPart, CheckOps, ProbeOps
    <3> QED  BY <1>3, <2>2, <3>1 DEF Asked
  <2> QED  BY <1>3, <1>4, <1>5, <1>9, <2>2, <2>3, <2>4 DEF Asked
<1>10. CASE d.part = "trial" /\ d.name = "preflight_e12b" /\ d' = AfterTrial(d.i)
  <2>1. d.i \in 1..Trials /\ LastTrial = 1
    BY <1>7, <1>10 DEF LastTrial, Typed, DriverTyped
  <2>2. d'.name = d.name /\ d'.part = "fin" /\ d'.k = 1
    BY <2>1, <1>10 DEF AfterTrial, Position
  <2>3. op.op # "usr2"
    BY <1>6, <1>10 DEF CheckPart, ProbeOps
  <2>4. Early /\ ~Waited /\ ~Waited'
    BY <1>10, <2>2 DEF Early, Waited, Late
  <2>5. "dump" \in pending' => "dump" \in pending
    BY <1>3, <2>3
  <2> QED  BY <1>2, <1>3, <1>4, <1>5, <2>4, <2>5, AskedForward
<1> QED  BY <1>8, <1>9, <1>10

LEMMA HonestTurns ==
  ASSUME Typed, Cleared, Asked, d.name \in Checkers, Turn
  PROVE  Cleared' /\ Asked'
<1>1. UNCHANGED vars /\ UNCHANGED jobs /\ out.how = "running" /\ d.k > Len(Ops)
  BY DEF Turn
<1>2. Cleared'
  BY <1>1, ClearedForward DEF vars, ctl, Cleared
<1>3. d'.name = d.name
  BY NameKept DEF Next
<1>4. own'.verdict = own.verdict /\ own'.since \in Nat
  <2>1. own' = own \/ own' = [own EXCEPT !.slice = << >>, !.live = << >>, !.truth = << >>]
    BY Zenon DEF Turn
  <2>2. DOMAIN own = Fields
    BY DEF Typed, HandsTyped
  <2>3. own.since \in Nat
    BY DEF Asked
  <2> QED  BY <2>1, <2>2, <2>3 DEF Fields, OwnInit
<1>5. d.k \in Nat /\ d.part \in Parts
  BY DEF Typed, DriverTyped
<1>6. CASE d' = d
  <2>1. Waited' = Waited /\ Early' = Early
    BY <1>6 DEF Waited, Late, Early
  <2> QED  BY <1>1, <1>2, <1>4, <2>1, AskedForward DEF vars
<1>7. CASE d' # d /\ d.name = "preflight_e12b"
  <2>1. d.part # "fin" /\ (d'.part = "fin" => d'.k = 1)
    BY <1>7 DEF Turn, AfterTrial, Position
  <2>2. Early /\ ~Waited /\ ~Waited'
    BY <1>3, <1>7, <2>1 DEF Early, Waited, Late
  <2> QED  BY <1>1, <1>2, <1>4, <2>2, AskedForward DEF vars
<1>8. CASE d' # d /\ d.name # "preflight_e12b"
  <2>1. d'.part # "pre"
    BY <1>8 DEF Turn, AfterTrial, Position
  <2>2. Waited
    <3>1. CASE d.part = "pre"
      <4>1. Mine = check(4) \/ Mine = check(15)
        BY <1>8 DEF Mine, Script, Checkers
      <4>2. Ops = check(4).pre \/ Ops = check(15).pre
        BY <3>1, <4>1 DEF Ops
      <4>3. Len(check(4).pre) = 6 /\ Len(check(15).pre) = 6
        BY CheckScript, Zenon
      <4>4. d.k > 6
        BY <1>1, <4>2, <4>3
      <4> QED  BY <1>5, <1>8, <4>4 DEF Waited, Late
    <3>2. CASE d.part # "pre"
      BY <1>8, <3>2 DEF Waited, Late
    <3> QED  BY <3>1, <3>2
  <2>3. Waited' /\ ~Early'
    BY <1>3, <1>8, <2>1 DEF Waited, Late, Early
  <2> QED  BY <1>1, <1>2, <1>4, <2>2, <2>3, AskedForward DEF vars
<1> QED  BY <1>6, <1>7, <1>8

(* No other driver ever says clean.  *)
LEMMA OthersHonest ==
  ASSUME Typed, d.name \notin Checkers, own.verdict # "clean", [Next]_allVars
  PROVE  own'.verdict # "clean"
<1>1. DOMAIN own = Fields
  BY DEF Typed, HandsTyped
<1>2. CASE Works
  <2>1. Working /\ Effect
    BY <1>2 DEF Works, Ready
  <2>2. op.op # "verdict"
    BY <2>1, AtWork DEF Kinds, Checkers, Runners, FileOps, LabOps, RunnerOps
  <2>3. CASE TakeHands
    <3>1. \/ own'.verdict = own.verdict
          \/ own' = [own EXCEPT !.manifest = TRUE,
                                !.verdict = IF own.failed THEN "invalid" ELSE "valid"]
      BY <1>1, <2>2, <2>3 DEF TakeHands, Taken, Fields, OwnInit
    <3> QED  BY <1>1, <3>1 DEF Fields, OwnInit
  <2>4. CASE preflight_check
    <3>1. PICK sha, ok : own' = [own EXCEPT !.sha = sha, !.failed = ~ok]
      BY <2>4 DEF preflight_check
    <3> QED  BY <1>1, <3>1 DEF Fields, OwnInit
  <2>5. CASE Signal \/ WriteDisk \/ Rows \/ WriteFiles \/ Launch(op.arg, FALSE) \/ send_packet
    <3>1. \/ own' = own
          \/ \E x : own' = [own EXCEPT !.since = x] \/ own' = [own EXCEPT !.backup = x]
                    \/ own' = [own EXCEPT !.begin = x]
      BY <2>5 DEF Signal, WriteDisk, Rows, WriteFiles, Launch, send_packet
    <3> QED  BY <1>1, <3>1 DEF Fields, OwnInit
  <2> QED  BY <2>1, <2>3, <2>4, <2>5, Zenon DEF Effect
<1>3. CASE Fails \/ FindsNothing
  <2>1. Missed \/ Signal \/ WriteDisk \/ Rows \/ SentUnheard
        \/ Launch(op.arg, FALSE) \/ Launch(<<op.arg[1]>>, TRUE)
    BY <1>3, Zenon DEF Fails, FindsNothing
  <2>2. \/ own' = own
        \/ \E x : own' = [own EXCEPT !.since = x] \/ own' = [own EXCEPT !.from = x]
                 \/ own' = [own EXCEPT !.to = x] \/ own' = [own EXCEPT !.backup = x]
                 \/ own' = [own EXCEPT !.begin = x]
    BY <2>1 DEF Missed, Signal, WriteDisk, Rows, SentUnheard, Launch
  <2> QED  BY <1>1, <2>2 DEF Fields, OwnInit
<1>4. CASE Turn
  <2>1. own' = own \/ own' = [own EXCEPT !.slice = << >>, !.live = << >>, !.truth = << >>]
    BY <1>4, Zenon DEF Turn
  <2> QED  BY <1>1, <2>1 DEF Fields, OwnInit
<1>5. CASE Resume \/ Halt
  <2>1. own' = OwnInit \/ own' = [own EXCEPT !.halt = TRUE]
    BY <1>5 DEF Resume, Halt
  <2>2. CASE own' = OwnInit
    BY <2>2, HandsEmpty
  <2>3. CASE own' = [own EXCEPT !.halt = TRUE]
    BY <1>1, <2>3 DEF Fields, OwnInit
  <2> QED  BY <2>1, <2>2, <2>3
<1>6. CASE Suspend \/ Packet \/ Tick \/ Kill \/ Controller \/ Over \/ UNCHANGED allVars
  <2>1. own' = own
    BY <1>6 DEF Suspend, Packet, Tick, Kill, Controller, Over, allVars, drvVars
  <2> QED  BY <2>1
<1> QED  BY <1>2, <1>3, <1>4, <1>5, <1>6 DEF Next

(* A dump comes only after it was asked for, and once: what the check has  *)
(* fetched does not change under it.                                       *)
LEMMA HonestController ==
  ASSUME Typed, Cleared, Asked, d.name \in Checkers, Controller
  PROVE  Cleared' /\ Asked'
<1>1. Step /\ UNCHANGED <<jobs, d, out, own>>
  BY DEF Controller, drvVars
<1>2. Cleared' /\ pending' \subseteq pending
      /\ (dump' = dump \/ ("dump" \in pending /\ "dump" \notin pending'))
  BY <1>1, ClearedStep
<1>3. Waited' = Waited /\ Early' = Early
  BY <1>1 DEF Waited, Late, Early
<1>4. CASE dump' = dump
  <2>1. own'.since \in Nat
    BY <1>1 DEF Asked
  <2> QED  BY <2>1, <1>1, <1>2, <1>3, <1>4, AskedForward
<1>5. CASE "dump" \in pending /\ "dump" \notin pending'
  <2>1. ~Waited /\ own.verdict # "clean" /\ ~(Early /\ out.how = "running")
    BY <1>5 DEF Asked
  <2> QED  BY <1>1, <1>2, <1>3, <1>5, <2>1 DEF Asked
<1> QED  BY <1>2, <1>4, <1>5

LEMMA HonestTicks ==
  ASSUME Typed, Cleared, Asked, d.name \in Checkers,
         Tick \/ Kill \/ Suspend \/ Over \/ UNCHANGED allVars
  PROVE  Cleared' /\ Asked'
<1>1. UNCHANGED <<pc, handler, todo, errors, pending, queue, dirty, dump>> /\ own' = own
      /\ own.since \in Nat
  BY DEF Asked, Tick, Kill, Suspend, Over, allVars, drvVars, vars, ctl
<1>2. jobs' = {}
  BY DEF Tick, Kill, Suspend, Over, allVars, drvVars, Cleared
<1>3. Cleared'
  BY <1>1, <1>2, ClearedForward DEF Cleared
<1>4. d'.name = d.name /\ d'.part = d.part /\ d'.k = d.k /\ (out'.how = "running" => out' = out)
  BY DEF Tick, Kill, Suspend, Over, allVars, drvVars, Typed, DriverTyped
<1>5. Early' = Early
  BY <1>4 DEF Early
<1>6. (Waited' => Waited \/ "dump" \notin pending') /\ (Waited => Waited')
  <2>1. CASE d' = d
    BY <2>1 DEF Waited, Late
  <2>2. CASE Tick
    <3>1. "dump" \notin pending
      BY <2>2 DEF Tick, Settled, Cleared
    <3>2. d.left = 0 => d'.left = 0
      BY <2>2 DEF Tick, Typed, DriverTyped
    <3> QED  BY <1>1, <1>4, <3>1, <3>2 DEF Waited, Late
  <2> QED  BY <2>1, <2>2 DEF Kill, Suspend, Over, allVars, drvVars
<1> QED  BY <1>1, <1>3, <1>4, <1>5, <1>6, AskedForward

LEMMA HonestInit == Init => Honest
<1> SUFFICES ASSUME Init
             PROVE  Honest
  OBVIOUS
<1>1. own.verdict = "none" /\ own.since = 0
  BY HandsEmpty DEF Init
<1>2. pc = "idle" /\ queue = << >> /\ jobs = {} /\ pending = {} /\ handler = "none"
      /\ dirty \in {{}, Groups} /\ dump.at \in Int /\ dump.at < 0
  <2>1. Fresh.at = -1 /\ Stale.at = -3600
    BY DEF Fresh, Stale
  <2> QED  BY <2>1 DEF Init, LoopInit
<1>3. Swept(dirty, errors)
  BY <1>2 DEF Swept, Registers
<1>4. Cleared
  BY <1>2, <1>3 DEF Cleared
<1>5. d.part = "pre" /\ d.k = 1
  BY DEF Init
<1>6. Asked
  BY <1>1, <1>2, <1>5 DEF Asked, Waited
<1> QED  BY <1>1, <1>4, <1>6 DEF Honest

LEMMA HonestStep ==
  ASSUME Typed, Honest, [Next]_allVars
  PROVE  Honest'
<1>1. d'.name = d.name
  BY NameKept
<1>2. CASE d.name \notin Checkers
  BY <1>1, <1>2, OthersHonest DEF Honest
<1>3. CASE d.name \in Checkers
  <2>1. Cleared /\ Asked
    BY <1>3 DEF Honest
  <2>2. ~Resume /\ ~Halt
    BY <1>3 DEF Checkers, Resume, Halt
  <2>3. ~Packet
    BY <2>1 DEF Cleared, Packet
  <2>4. Cleared' /\ Asked'
    BY <1>3, <2>1, <2>2, <2>3, HonestWorks, HonestFails, HonestTurns, HonestController, HonestTicks
       DEF Next
  <2> QED  BY <1>1, <1>3, <2>4 DEF Honest
<1> QED  BY <1>2, <1>3

LEMMA HonestHolds == Spec => []Honest
  BY TypedHolds, HonestInit, HonestStep, PTL DEF Spec

(* A state check that passes on a dump taken since it began, one of an     *)
(* earlier run aside, has found the switch clean, for resets of any length *)
(* and any faults: the R5 window, R6 and the overrides are clear, and when *)
(* no reset was under way so is every register it clears.                  *)
THEOREM CleanIsClean == Spec => []DumpHonest
<1>1. Typed /\ Honest => DumpHonest
  <2> SUFFICES ASSUME Typed, Honest, own.verdict = "clean", dump.at >= own.since
               PROVE  /\ dirty \cap {"R5_COUNT", "R5_BLOOM", "R6", "OVERRIDE"} = {}
                      /\ dump.reset = "none" => dirty = {}
    BY DEF DumpHonest
  <2>1. Cleared /\ StateClean /\ dump.at >= 0
    BY DEF Honest, Asked, Cleared
  <2>2. dirty \subseteq dump.dirty
    BY <2>1 DEF Cleared
  <2>3. dump.errors = {} /\ dump.dirty \cap {"R5_COUNT", "R5_BLOOM", "R6", "OVERRIDE"} = {}
    BY <2>1 DEF StateClean
  <2>4. dump.reset = "none" => dirty = {}
    <3> SUFFICES ASSUME dump.reset = "none"
                 PROVE  dirty = {}
      OBVIOUS
    <3>1. dump.dirty \subseteq {"OVERRIDE"} \/ Registers \subseteq dump.dirty
      BY <2>1, <2>3 DEF Cleared, Swept
    <3>2. "R6" \in Registers
      BY DEF Registers, Groups
    <3> QED  BY <2>2, <2>3, <3>1, <3>2
  <2> QED  BY <2>2, <2>3, <2>4
<1> QED  BY <1>1, TypedHolds, HonestHolds, PTL

-----------------------------------------------------------------------------
(* What a driver leaves behind.  Operations that write the manifest; the   *)
(* manifest as it belongs on the switch; what the controller knows of it.  *)
DiskOps == {"corrupt", "push", "tamper", "untamper", "sign", "restore_doc", "restore_sig", "unbackup"}
Canon == [doc |-> "canonical", good |-> TRUE]
Paper(x) == DOMAIN x = {"doc", "good"}
(* A controller that is up and has seen the last change works with what is *)
(* on disk, if its signature verifies; one that is down can only be        *)
(* started.                                                                *)
Aware ==
  /\ Paper(disk) /\ Paper(own.backup)
  /\ DOMAIN loaded = {"doc", "at", "refused"} /\ loaded.at \in Int /\ loaded.at <= now
  /\ (~touched /\ Up /\ disk.good) => loaded.doc = disk.doc
  /\ pc = "down" => pending \subseteq {"start"}
(* A driver that has ended is in its last part, and so is one that has an  *)
(* exception to raise when it gets there.                                  *)
Closing ==
  /\ out.how = "ended" => d.part = "fin"
  /\ (d.name # "e7b" /\ out.raised) => d.part = "fin"

(* What an operation does to the manifest, to the copy of it in hand and   *)
(* to the signals under way, answered or not.                              *)
LEMMA DiskEffect ==
  ASSUME Typed, Aware, Working, Effect \/ Hears
  PROVE  /\ Paper(disk') /\ Paper(own'.backup)
         /\ UNCHANGED <<disk, touched>> \/ (op.op \in DiskOps /\ touched' = TRUE)
         /\ \/ own'.backup = own.backup
            \/ op.op = "snapshot" /\ own'.backup = disk
            \/ op.op = "unbackup" /\ own'.backup = None
         /\ \/ pending' = pending
            \/ op.op \in DOMAIN Signals /\ pending' = pending \cup {Signals[op.op]}
               /\ (Up \/ op.op = "start")
<1>1. DOMAIN own = Fields /\ Paper(disk) /\ Paper(own.backup)
  BY DEF Typed, HandsTyped, Aware
<1>2. CASE TakeHands
  <2>1. UNCHANGED <<disk, touched, pending>>
    BY <1>2 DEF TakeHands
  <2>2. own'.backup = own.backup \/ (op.op = "snapshot" /\ own'.backup = disk)
    BY <1>1, <1>2 DEF TakeHands, Taken, Fields, OwnInit
  <2> QED  BY <1>1, <2>1, <2>2
<1>3. CASE preflight_check
  <2>1. PICK sha, ok : own' = [own EXCEPT !.sha = sha, !.failed = ~ok]
    BY <1>3 DEF preflight_check
  <2>2. UNCHANGED <<disk, touched, pending>>
    BY <1>3 DEF preflight_check
  <2>3. own'.backup = own.backup
    BY <1>1, <2>1 DEF Fields, OwnInit
  <2> QED  BY <1>1, <2>2, <2>3
<1>4. CASE Signal
  <2>1. UNCHANGED <<disk, touched>> /\ op.op \in DOMAIN Signals
        /\ (own' = own \/ own' = [own EXCEPT !.since = now])
        /\ (pending' = pending \/ (pending' = pending \cup {Signals[op.op]}
                                   /\ (Up \/ op.op = "start")))
    BY <1>4 DEF Signal
  <2>2. own'.backup = own.backup
    BY <1>1, <2>1 DEF Fields, OwnInit
  <2> QED  BY <1>1, <2>1, <2>2
<1>5. CASE WriteDisk
  <2>1. touched' = TRUE /\ pending' = pending /\ op.op \in DiskOps
    BY <1>5 DEF WriteDisk, DiskOps
  <2>2. \/ own' = own \/ own' = [own EXCEPT !.since = now]
        \/ op.op = "unbackup" /\ own' = [own EXCEPT !.backup = None]
    BY <1>5 DEF WriteDisk
  <2>3. own'.backup = own.backup \/ (op.op = "unbackup" /\ own'.backup = None)
    BY <1>1, <2>2 DEF Fields, OwnInit
  <2>5. Paper(disk')
    BY <1>1, <1>5 DEF WriteDisk, Paper, Back
  <2>6. Paper(None)
    BY DEF Paper, None
  <2> QED  BY <1>1, <2>1, <2>3, <2>5, <2>6
<1>6. CASE Rows \/ WriteFiles \/ send_packet \/ SentUnheard
  <2>1. UNCHANGED <<disk, touched, pending, own>>
    BY <1>6 DEF Rows, WriteFiles, send_packet, SentUnheard, Forward, rat
  <2> QED  BY <1>1, <2>1
<1>7. CASE Missed
  <2>1. UNCHANGED <<disk, touched, pending>>
        /\ (own' = own \/ own' = [own EXCEPT !.from = -1] \/ own' = [own EXCEPT !.to = -1])
    BY <1>7 DEF Missed
  <2>2. own'.backup = own.backup
    BY <1>1, <2>1 DEF Fields, OwnInit
  <2> QED  BY <1>1, <2>1, <2>2
<1>8. ASSUME NEW gaps, NEW cut, Launch(gaps, cut)
      PROVE  UNCHANGED <<disk, touched, pending>> /\ own'.backup = own.backup
  <2>1. UNCHANGED <<disk, touched, pending>>
        /\ (own' = own \/ own' = [own EXCEPT !.begin = now])
    BY <1>8 DEF Launch
  <2> QED  BY <1>1, <2>1 DEF Fields, OwnInit
<1>9. CASE Launch(op.arg, FALSE) \/ Launch(<<op.arg[1]>>, TRUE)
  <2>1. UNCHANGED <<disk, touched, pending>> /\ own'.backup = own.backup
    BY <1>8, <1>9, Zenon
  <2> QED  BY <1>1, <2>1
<1> QED
  BY <1>2, <1>3, <1>4, <1>5, <1>6, <1>7, <1>9, Zenon DEF Effect, Hears

(* No step makes the controller work with another manifest than the one on *)
(* disk, once it has seen it and the signature verifies.                   *)
LEMMA AwareWorks ==
  ASSUME Typed, Aware, Works \/ Fails \/ FindsNothing
  PROVE  Aware'
<1>1. Working /\ (Effect \/ Hears) /\ UNCHANGED OutOfReach
  BY Zenon DEF Works, Fails, FindsNothing, Ready, Effect, Hears
<1>2. UNCHANGED <<pc, loaded, now>>
  BY <1>1 DEF OutOfReach, ctl
<1>3. /\ Paper(disk') /\ Paper(own'.backup)
      /\ UNCHANGED <<disk, touched>> \/ touched' = TRUE
  BY <1>1, DiskEffect
<1>4. pc = "down" => pending' \subseteq {"start"}
  <2>1. \/ pending' = pending
        \/ op.op \in DOMAIN Signals /\ pending' = pending \cup {Signals[op.op]}
           /\ (Up \/ op.op = "start")
    BY <1>1, DiskEffect
  <2>2. Signals["start"] = "start"
    BY DEF Signals
  <2> QED  BY <2>1, <2>2 DEF Aware, Up
<1> QED  BY <1>2, <1>3, <1>4 DEF Aware, Up, Paper

LEMMA AwareController ==
  ASSUME Typed, Aware, Step, UNCHANGED own
  PROVE  Aware'
<1>1. CASE Reload
  <2>1. UNCHANGED <<pc, pending, disk, now>>
        /\ \/ ~Up /\ loaded' = loaded
           \/ Up /\ disk.good /\ loaded' = [loaded EXCEPT !.doc = disk.doc, !.at = now]
           \/ Up /\ ~disk.good /\ loaded' = [loaded EXCEPT !.refused = now]
    BY <1>1 DEF Reload, ctl
  <2>2. now \in Nat /\ DOMAIN loaded = {"doc", "at", "refused"} /\ loaded.at \in Int
        /\ loaded.at <= now
    BY DEF Typed, LoopTyped, Aware
  <2>3. DOMAIN loaded' = {"doc", "at", "refused"} /\ loaded'.at \in Int /\ loaded'.at <= now
        /\ (Up /\ disk.good => loaded'.doc = disk.doc)
    <3>1. CASE ~Up /\ loaded' = loaded
      BY <2>2, <3>1
    <3>2. CASE Up /\ disk.good /\ loaded' = [loaded EXCEPT !.doc = disk.doc, !.at = now]
      BY <2>2, <3>2
    <3>3. CASE Up /\ ~disk.good /\ loaded' = [loaded EXCEPT !.refused = now]
      BY <2>2, <3>3
    <3> QED  BY <2>1, <3>1, <3>2, <3>3
  <2> QED  BY <2>1, <2>3 DEF Aware, Up, Paper
<1>2. CASE run
  <2>1. UNCHANGED <<disk, now>> /\ pending' = pending \ {"start"}
    BY <1>2 DEF run
  <2>2. \/ UNCHANGED <<pc, loaded, touched>>
        \/ pc' = "idle" /\ loaded' = [loaded EXCEPT !.doc = disk.doc, !.at = now] /\ touched' = FALSE
    BY <1>2 DEF run, ctl
  <2>3. now \in Nat /\ DOMAIN loaded = {"doc", "at", "refused"}
    BY DEF Typed, LoopTyped, Aware
  <2>4. \/ UNCHANGED <<pc, loaded, touched>>
        \/ /\ pc' = "idle" /\ DOMAIN loaded' = {"doc", "at", "refused"} /\ loaded'.at = now
           /\ loaded'.doc = disk.doc
    BY <2>2, <2>3
  <2> QED  BY <2>1, <2>3, <2>4 DEF Aware, Up, Paper
<1>3. CASE handle_stop
  <2>1. UNCHANGED <<disk, touched, loaded, now>> /\ pc' = "down" /\ pending' = {}
    BY <1>3 DEF handle_stop, rat
  <2> QED  BY <2>1 DEF Aware, Up
<1>4. CASE ~(Reload \/ run \/ handle_stop)
  <2>1. UNCHANGED <<disk, touched, loaded, now>> /\ pc # "down" /\ pc' # "down"
    BY <1>4 DEF Step, Receive, Recorded, evaluate_hold, _log_decision, handle_reset, reset_step,
       reset_step_fails, override_row_stays, write_markers, startup_done, handle_dump_state,
       Main, Running, Resetting, ResetDone, rat, ctl
  <2> QED  BY <2>1 DEF Aware, Up
<1> QED  BY <1>1, <1>2, <1>3, <1>4

(* Time goes on by a least deadline that is not over. *)
LEMMA TickGoesOn ==
  ASSUME Typed, Tick
  PROVE  now' \in Nat /\ now < now'
<1>1. Deadlines \subseteq Nat
  <2>1. \A j \in jobs : j.gaps[1] \in Nat
    BY DEF Typed, HandsTyped, JobOf
  <2> QED  BY <2>1 DEF Deadlines, Typed, LoopTyped, DriverTyped
<1>2. Min(Deadlines \ {0}) \in Deadlines \ {0} /\ now' = now + Min(Deadlines \ {0})
  BY <1>1, LeastOf DEF Tick
<1>3. PICK n \in Deadlines \ {0} : now' = now + n
  BY <1>2, Zenon
<1>4. now \in Nat /\ n \in Nat \ {0}
  BY <1>1 DEF Typed, LoopTyped
<1> QED  BY <1>3, <1>4

LEMMA AwareStep ==
  ASSUME Typed, Aware, [Next]_allVars
  PROVE  Aware'
<1>1. CASE Works \/ Fails \/ FindsNothing
  BY <1>1, AwareWorks
<1>2. CASE Controller
  BY <1>2, AwareController DEF Controller, drvVars
<1>3. CASE Suspend \/ Turn \/ Packet \/ Kill \/ Resume \/ Halt \/ Over \/ UNCHANGED allVars
  <2>1. UNCHANGED <<pc, pending, disk, touched, loaded, now>>
    BY <1>3 DEF Suspend, Turn, Packet, Forward, Kill, Resume, Halt, Over, allVars, vars, ctl, rat
  <2>2. \/ own' = own \/ own' = OwnInit \/ own' = [own EXCEPT !.halt = TRUE]
        \/ own' = [own EXCEPT !.slice = << >>, !.live = << >>, !.truth = << >>]
    BY <1>3 DEF Suspend, Turn, Packet, Kill, Resume, Halt, Over, allVars, drvVars
  <2>3. own'.backup \in {own.backup, None}
    <3>1. DOMAIN own = Fields
      BY DEF Typed, HandsTyped
    <3>2. OwnInit.backup = None
      BY DEF OwnInit
    <3> QED  BY <2>2, <3>1, <3>2 DEF Fields, OwnInit
  <2>4. Paper(own'.backup)
    BY <2>3 DEF Aware, Paper, None
  <2> QED  BY <2>1, <2>4 DEF Aware, Up, Paper
<1>4. CASE Tick
  <2>1. UNCHANGED <<pc, pending, disk, touched, loaded, own>>
    BY <1>4 DEF Tick, rat
  <2>2. now \in Nat /\ now' \in Nat /\ now <= now'
    BY <1>4, TickGoesOn DEF Typed, LoopTyped
  <2>3. loaded.at \in Int /\ loaded.at <= now'
    BY <2>2 DEF Aware
  <2> QED  BY <2>1, <2>3 DEF Aware, Up, Paper
<1> QED  BY <1>1, <1>2, <1>3, <1>4 DEF Next

LEMMA AwareInit == Init => Aware
<1> SUFFICES ASSUME Init
             PROVE  Aware
  OBVIOUS
<1>1. own.backup = None
  BY DEF Init, OwnInit
<1>2. disk = [doc |-> "canonical", good |-> TRUE] /\ pc = "idle" /\ now = 0
      /\ loaded = [doc |-> "canonical", at |-> -3600, refused |-> -3600]
  BY DEF Init, LoopInit
<1> QED  BY <1>1, <1>2 DEF Aware, Paper, None

(* The scripts of the drivers that change something in the lab. *)
FlipOps == <<"ship", "usr1", "sleep", "ship", "offset", "snapshot", "emit", "sleep", "corrupt",
             "sleep", "unbackup", "poll", "sleep", "tail", "truth">>
LEMMA FlipScript ==
  /\ Script["e12b"] = e12b
  /\ Len(e12b.trial) = 15 /\ \A k \in 1..15 : e12b.trial[k].op = FlipOps[k]
  /\ e12b.pre = << >> /\ e12b.fin = << >> /\ e12b.between = Sleep(70)
  /\ e12b.trials = Trials /\ e12b.next = TRUE /\ e12b.finally = FALSE
<1>1. Script["e12b"] = e12b
  BY DEF Script
<1>2. Len(e12b_trial) = 15
  BY DEF e12b_trial, assert_signed_at_startup, Op, Do, Sleep
<1>3. /\ e12b_trial[1].op = "ship" /\ e12b_trial[2].op = "usr1" /\ e12b_trial[3].op = "sleep"
      /\ e12b_trial[4].op = "ship" /\ e12b_trial[5].op = "offset" /\ e12b_trial[6].op = "snapshot"
      /\ e12b_trial[7].op = "emit" /\ e12b_trial[8].op = "sleep" /\ e12b_trial[9].op = "corrupt"
      /\ e12b_trial[10].op = "sleep" /\ e12b_trial[11].op = "unbackup"
      /\ e12b_trial[12].op = "poll" /\ e12b_trial[13].op = "sleep" /\ e12b_trial[14].op = "tail"
      /\ e12b_trial[15].op = "truth"
  BY DEF e12b_trial, assert_signed_at_startup, Op, Do, Sleep
<1>4. e12b.trial = e12b_trial /\ e12b.pre = << >> /\ e12b.fin = << >> /\ e12b.between = Sleep(70)
      /\ e12b.trials = Trials /\ e12b.next = TRUE /\ e12b.finally = FALSE
  BY DEF e12b, Plain
<1> QED  BY <1>1, <1>2, <1>3, <1>4 DEF FlipOps

DownOps == <<"ship", "stop", "sleep", "rows", "unrows", "start", "sleep">>
LEMMA DownScript ==
  /\ Script["t1_7"] = t1_7
  /\ Len(t1_7.trial) = 7 /\ \A k \in 1..7 : t1_7.trial[k].op = DownOps[k]
  /\ t1_7.trial[3].arg = 3 /\ t1_7.trial[7].arg = 8
  /\ t1_7.trial[2].err = "note" /\ t1_7.trial[6].err = "blind"
  /\ t1_7.pre = << >> /\ t1_7.fin = << >> /\ t1_7.between = << >>
  /\ t1_7.trials = 1 /\ t1_7.next = FALSE /\ t1_7.finally = FALSE
<1>1. Script["t1_7"] = t1_7
  BY DEF Script
<1>2. Len(t1_7.trial) = 7
  BY DEF t1_7, Plain, inspect_table_shape, t1_7_stop, install_allow_entries,
         cleanup_allow_entries, t1_7_start, Op, Do, Sleep
<1>3. /\ t1_7.trial[1].op = "ship" /\ t1_7.trial[2].op = "stop" /\ t1_7.trial[3].op = "sleep"
      /\ t1_7.trial[4].op = "rows" /\ t1_7.trial[5].op = "unrows" /\ t1_7.trial[6].op = "start"
      /\ t1_7.trial[7].op = "sleep" /\ t1_7.trial[3].arg = 3 /\ t1_7.trial[7].arg = 8
      /\ t1_7.trial[2].err = "note" /\ t1_7.trial[6].err = "blind"
  BY DEF t1_7, Plain, inspect_table_shape, t1_7_stop, install_allow_entries,
         cleanup_allow_entries, t1_7_start, Op, Do, Sleep
<1>4. t1_7.pre = << >> /\ t1_7.fin = << >> /\ t1_7.between = << >>
      /\ t1_7.trials = 1 /\ t1_7.next = FALSE /\ t1_7.finally = FALSE
  BY DEF t1_7, Plain
<1> QED  BY <1>1, <1>2, <1>3, <1>4 DEF DownOps

(* run_m4_200bms without a restart of the controller, and with one.        *)
HotPre == <<"snapshot", "push", "sign", "await_reload">>
HotFin == <<"mark", "restore_doc", "restore_sig", "await_reload">>
ColdPre == <<"snapshot", "push", "sign", "stop", "sleep", "start", "await_up", "sleep">>
ColdFin == <<"restore_doc", "restore_sig", "stop", "sleep", "start", "await_up">>
M4Ops == {"plan", "offset", "ship", "emit", "join", "sleep", "end", "range"}
LEMMA M4Script ==
  /\ Script["m4"] = m4 /\ Script["m4_restart"] = m4_restart
  /\ Len(m4.pre) = 4 /\ \A k \in 1..4 : m4.pre[k].op = HotPre[k] /\ m4.pre[k].err = "raise"
  /\ Len(m4.fin) = 4 /\ \A k \in 1..4 : m4.fin[k].op = HotFin[k]
                                        /\ (k > 1 => m4.fin[k].err = "raise")
  /\ Len(m4_restart.pre) = 8 /\ \A k \in 1..8 : m4_restart.pre[k].op = ColdPre[k]
  /\ Len(m4_restart.fin) = 6 /\ \A k \in 1..6 : m4_restart.fin[k].op = ColdFin[k]
                                        /\ (k # 4 => m4_restart.fin[k].err = "raise")
  /\ m4_restart.fin[4].arg = 12
  /\ m4.trial = M4Trial /\ m4_restart.trial = M4Trial
  /\ m4.between = << >> /\ m4_restart.between = << >>
  /\ m4.next = FALSE /\ m4_restart.next = FALSE /\ m4.finally = TRUE /\ m4_restart.finally = TRUE
<1>1. Script["m4"] = m4 /\ Script["m4_restart"] = m4_restart
  BY DEF Script
<1> USE DEF Op, Do, Sleep, Plain, push_and_sign, restore_canonical, wait_for_reload,
        stop_controller, start_controller_and_wait
<1>2. Len(m4.pre) = 4 /\ Len(m4.fin) = 4
  BY DEF m4
<1>3. Len(m4_restart.pre) = 8 /\ Len(m4_restart.fin) = 6
  BY DEF m4_restart
<1>4. /\ m4.pre[1].op = "snapshot" /\ m4.pre[2].op = "push" /\ m4.pre[3].op = "sign"
      /\ m4.pre[4].op = "await_reload" /\ m4.pre[1].err = "raise" /\ m4.pre[2].err = "raise"
      /\ m4.pre[3].err = "raise" /\ m4.pre[4].err = "raise"
  BY DEF m4
<1>5. /\ m4.fin[1].op = "mark" /\ m4.fin[2].op = "restore_doc" /\ m4.fin[3].op = "restore_sig"
      /\ m4.fin[4].op = "await_reload" /\ m4.fin[2].err = "raise"
      /\ m4.fin[3].err = "raise" /\ m4.fin[4].err = "raise"
  BY DEF m4
<1>6. /\ m4_restart.pre[1].op = "snapshot" /\ m4_restart.pre[2].op = "push"
      /\ m4_restart.pre[3].op = "sign" /\ m4_restart.pre[4].op = "stop"
      /\ m4_restart.pre[5].op = "sleep" /\ m4_restart.pre[6].op = "start"
      /\ m4_restart.pre[7].op = "await_up" /\ m4_restart.pre[8].op = "sleep"
  BY DEF m4_restart
<1>7. /\ m4_restart.fin[1].op = "restore_doc" /\ m4_restart.fin[2].op = "restore_sig"
      /\ m4_restart.fin[3].op = "stop" /\ m4_restart.fin[4].op = "sleep"
      /\ m4_restart.fin[5].op = "start" /\ m4_restart.fin[6].op = "await_up"
      /\ m4_restart.fin[4].arg = 12
  BY DEF m4_restart
<1>8. /\ m4_restart.fin[1].err = "raise" /\ m4_restart.fin[2].err = "raise"
      /\ m4_restart.fin[3].err = "raise" /\ m4_restart.fin[5].err = "raise"
      /\ m4_restart.fin[6].err = "raise"
  BY DEF m4_restart
<1>9. /\ m4.trial = M4Trial /\ m4_restart.trial = M4Trial
      /\ m4.between = << >> /\ m4_restart.between = << >>
      /\ m4.next = FALSE /\ m4_restart.next = FALSE /\ m4.finally = TRUE /\ m4_restart.finally = TRUE
  BY DEF m4, m4_restart
<1> QED  BY <1>1, <1>2, <1>3, <1>4, <1>5, <1>6, <1>7, <1>8, <1>9 DEF HotPre, HotFin, ColdPre, ColdFin

(* What run_m4_200bms does in a trial. *)
LEMMA M4Trials == \A k \in 1..Len(M4Trial) : M4Trial[k].op \in M4Ops
<1> DEFINE K == [op : M4Ops, arg : Nat \cup Seq(Nat), err : Outcomes]
<1>1. M4Trial \in Seq(K)
  BY DriversAssumption DEF M4Trial, replay_pcap, Op, Do, Sleep, Emit, M4Ops, Outcomes
<1>2. \A x \in K : x.op \in M4Ops
  OBVIOUS
<1> HIDE DEF K
<1>3. \A k \in 1..Len(M4Trial) : M4Trial[k] \in K
  BY <1>1
<1> QED  BY <1>2, <1>3

(* What an operation that works does to the manifest and to the copy.      *)
LEMMA DiskWorks ==
  ASSUME Typed, Aware, Working, Effect
  PROVE  /\ op.op \notin DiskOps => disk' = disk
         /\ op.op \notin {"snapshot", "unbackup"} => own'.backup = own.backup
         /\ op.op = "snapshot" => own'.backup = disk
         /\ op.op = "tamper" => disk' = [doc |-> "probe", good |-> FALSE]
         /\ op.op = "untamper" => disk' = own.backup
         /\ op.op = "corrupt" => disk' = [disk EXCEPT !.good = ~@]
         /\ op.op = "unbackup" => disk' = [disk EXCEPT !.good = own.backup.good]
         /\ op.op = "restore_doc" => disk' = Back(own.backup.doc)
         /\ op.op = "restore_sig" =>
              disk' = [disk EXCEPT !.good = own.backup.good /\ disk.doc = own.backup.doc]
<1>1. /\ UNCHANGED disk \/ op.op \in DiskOps
      /\ \/ own'.backup = own.backup
         \/ op.op = "snapshot" /\ own'.backup = disk
         \/ op.op = "unbackup" /\ own'.backup = None
  BY DiskEffect
<1>2. CASE op.op = "snapshot"
  <2>1. own' = [own EXCEPT !.backup = disk]
    BY <1>2 DEF Effect, TakeHands, Taken, preflight_check, Signal, Signals, WriteDisk, Rows,
       WriteFiles, Launch, send_packet
  <2>2. DOMAIN own = Fields
    BY DEF Typed, HandsTyped
  <2>3. own'.backup = disk
    BY <2>1, <2>2 DEF Fields, OwnInit
  <2> QED  BY <1>1, <1>2, <2>3 DEF DiskOps
<1>3. CASE op.op \in DiskOps
  <2>1. WriteDisk
    BY <1>3 DEF DiskOps, Effect, TakeHands, Hands, preflight_check, Signal, Signals, Rows,
       WriteFiles, Launch, send_packet
  <2> QED  BY <1>1, <1>3, <2>1 DEF WriteDisk, DiskOps
<1>4. CASE op.op \notin DiskOps \cup {"snapshot"}
  BY <1>1, <1>4 DEF DiskOps
<1> QED  BY <1>2, <1>3, <1>4

(* A driver of the lab goes on to the next operation; one that slips and   *)
(* shows nothing has gone to its end, given up, or not noticed.            *)
LabDrivers == {"m4", "m4_restart", "t1_7", "e12b", "preflight_e12b"}
LEMMA LabGoesOn ==
  ASSUME Typed, d.name \in LabDrivers, Works
  PROVE  /\ Working /\ Effect /\ ~Refused /\ UNCHANGED <<out, OutOfReach>>
         /\ d.k \in 1..Len(Ops) /\ op.op \notin FileOps
         /\ d' = Position(d.part, d.i, d.k + 1)
         /\ d'.name = d.name /\ d'.part = d.part /\ d'.i = d.i /\ d'.k = d.k + 1
         /\ op.op = "sleep" => d.left = 0
<1>1. Working /\ Effect /\ ~Refused /\ UNCHANGED <<out, OutOfReach>>
  BY DEF Works, Ready
<1>2. d.k \in 1..Len(Ops) /\ op.op \in Kinds(d.name)
  BY <1>1, AtWork, Zenon
<1>3. op.op \notin {"preflight", "await_event"} \cup FileOps
  BY <1>2 DEF Kinds, LabDrivers, Runners, Checkers, LabOps, FileOps
<1>4. d' = Position(d.part, d.i, d.k + 1)
  BY <1>3 DEF Works, Onward
<1>5. d'.name = d.name /\ d'.part = d.part /\ d'.i = d.i /\ d'.k = d.k + 1
  BY <1>4 DEF Position
<1>6. op.op = "sleep" => d.left = 0
  BY DEF Works, Ready, Satisfied, At
<1> QED  BY <1>1, <1>2, <1>3, <1>4, <1>5, <1>6

LEMMA LabSlips ==
  ASSUME Typed, d.name \in LabDrivers, Fails \/ FindsNothing, out'.noted = {}
  PROVE  /\ Working /\ (Effect \/ Hears) /\ UNCHANGED OutOfReach
         /\ out.noted = {} /\ out.how = "running" /\ d.k \in 1..Len(Ops)
         /\ \/ /\ op.err = "raise" /\ d.part # "fin" /\ Mine.finally /\ own.backup # None
               /\ d' = Position("fin", d.i, 1)
               /\ out'.how = "running" /\ out'.raised = TRUE /\ out'.lost = out.lost
            \/ /\ \/ /\ op.err = "raise" /\ ~(d.part = "trial" /\ Mine.next)
                     /\ ~(Mine.finally /\ (d.part = "fin" \/ own.backup # None))
                  \/ op.err = "none" /\ Refused /\ Missed
               /\ d' = d /\ out'.how = "raised" /\ out'.raised = out.raised /\ out'.lost = out.lost
            \/ /\ op.err = "blind" /\ d' = Position(d.part, d.i, d.k + 1)
               /\ out'.how = "running" /\ out'.raised = out.raised
               /\ out'.lost = out.lost \cup {op.op}
<1>1. /\ Working /\ (Effect \/ Hears) /\ UNCHANGED OutOfReach
      /\ Trouble /\ (op.err # "none" \/ (Refused /\ Missed))
  BY Zenon DEF Fails, FindsNothing, Ready, Effect, Hears
<1>2. out.how = "running" /\ DOMAIN out = {"how", "raised", "noted", "lost"}
      /\ d.k \in 1..Len(Ops) /\ op.err \in Outcomes
  BY <1>1, AtWork DEF Working, Typed, DriverTyped
<1>3. [out EXCEPT !.noted = Noted].noted # {}
      /\ \A how : [out EXCEPT !.noted = Noted, !.how = how].noted # {}
  BY <1>2 DEF Noted
<1>4. CASE op.err = "raise"
  <2>1. RaiseIn
    BY <1>1, <1>4 DEF Trouble
  <2>2. \/ /\ d.part # "fin" /\ Mine.finally /\ own.backup # None
           /\ out' = [out EXCEPT !.raised = TRUE] /\ d' = Position("fin", d.i, 1)
        \/ /\ ~(d.part = "trial" /\ Mine.next)
           /\ ~(Mine.finally /\ (d.part = "fin" \/ own.backup # None))
           /\ out' = [out EXCEPT !.how = "raised"] /\ d' = d
    BY <1>3, <2>1, Zenon DEF RaiseIn
  <2>3. CASE out' = [out EXCEPT !.raised = TRUE]
    BY <1>1, <1>2, <1>4, <2>2, <2>3
  <2>4. CASE out' = [out EXCEPT !.how = "raised"]
    BY <1>1, <1>2, <1>4, <2>2, <2>4
  <2> QED  BY <2>2, <2>3, <2>4
<1>5. op.err # "note"
  BY <1>1, <1>3, Zenon DEF Trouble
<1>6. CASE op.err = "blind"
  <2>1. out' = [out EXCEPT !.lost = @ \cup {op.op}] /\ d' = Position(d.part, d.i, d.k + 1)
    BY <1>1, <1>6, Zenon DEF Trouble, Onward
  <2> QED  BY <1>1, <1>2, <1>6, <2>1
<1>7. CASE op.err = "none"
  <2>1. out' = [out EXCEPT !.how = "raised"] /\ d' = d
    BY <1>1, <1>7, Zenon DEF Trouble
  <2> QED  BY <1>1, <1>2, <1>7, <2>1
<1> QED  BY <1>2, <1>4, <1>5, <1>6, <1>7 DEF Outcomes

(* From one part of a script of the lab to the next. *)
LEMMA LabTurns ==
  ASSUME Typed, d.name \in LabDrivers, Turn
  PROVE  /\ UNCHANGED <<vars, jobs>> /\ own'.backup = own.backup /\ own'.since = own.since
         /\ out.how = "running" /\ d.k > Len(Ops) /\ d'.name = d.name
         /\ out'.noted = out.noted /\ out'.raised = out.raised /\ out'.lost = out.lost
         /\ \/ /\ d.part = "fin" /\ d' = d /\ out'.how = IF out.raised THEN "raised" ELSE "ended"
            \/ /\ out' = out /\ d'.k = 1
               /\ \/ d.part = "pre" /\ d'.part = IF 1 <= Mine.trials THEN "trial" ELSE "fin"
                  \/ d.part = "trial" /\ d'.part = IF d.i < Mine.trials THEN "between" ELSE "fin"
                  \/ d.part = "between" /\ d'.part = "trial"
<1>1. UNCHANGED <<vars, jobs>> /\ out.how = "running" /\ d.k > Len(Ops)
  BY DEF Turn
<1>2. own'.backup = own.backup /\ own'.since = own.since
  <2>1. own' = own \/ own' = [own EXCEPT !.slice = << >>, !.live = << >>, !.truth = << >>]
    BY Zenon DEF Turn
  <2>2. DOMAIN own = Fields
    BY DEF Typed, HandsTyped
  <2> QED  BY <2>1, <2>2 DEF Fields, OwnInit
<1>3. LastTrial = Mine.trials /\ FirstTrial = 1
  BY DEF LabDrivers, LastTrial, FirstTrial
<1>4. \/ d.part = "fin" /\ d' = d /\ out' = [out EXCEPT !.how = IF out.raised THEN "raised" ELSE "ended"]
      \/ d.part = "pre" /\ out' = out
         /\ d' = IF 1 <= Mine.trials THEN Position("trial", 1, 1) ELSE Position("fin", d.i, 1)
      \/ d.part = "trial" /\ out' = out
         /\ d' = IF d.i < Mine.trials THEN Position("between", d.i, 1) ELSE Position("fin", d.i, 1)
      \/ d.part = "between" /\ out' = out /\ d' = Position("trial", d.i + 1, 1)
  BY <1>3 DEF Turn, AfterTrial
<1>5. DOMAIN out = {"how", "raised", "noted", "lost"}
  BY DEF Typed, DriverTyped
<1>6. CASE d.part = "fin" /\ d' = d /\ out' = [out EXCEPT !.how = IF out.raised THEN "raised" ELSE "ended"]
  BY <1>1, <1>2, <1>5, <1>6
<1>7. CASE out' = out /\ d.part # "fin"
  BY <1>1, <1>2, <1>4, <1>7 DEF Position
<1> QED  BY <1>4, <1>6, <1>7

(* The steps there are while a driver of the lab is run. *)
LEMMA LabCases ==
  ASSUME Typed, d.name \in LabDrivers, [Next]_allVars
  PROVE  \/ Works \/ Fails \/ FindsNothing \/ Turn \/ Controller \/ Tick
         \/ Packet \/ Kill \/ Over \/ UNCHANGED allVars
<1>1. ~Resume /\ ~Halt
  BY DEF LabDrivers, Resume, Halt
<1>2. ~Suspend
  <2>1. Suspend => Working /\ op.op = "collapse"
    BY DEF Suspend, Ready
  <2>2. Working => op.op \in Kinds(d.name)
    BY AtWork, Zenon
  <2> QED  BY <2>1, <2>2 DEF Kinds, LabDrivers, Runners, Checkers, LabOps
<1> QED  BY <1>1, <1>2 DEF Next

(* Steps that leave the driver where it is. *)
LEMMA LabStill ==
  ASSUME Typed, d.name \in LabDrivers, Packet \/ Kill \/ Over \/ UNCHANGED allVars
  PROVE  /\ UNCHANGED <<d, own, disk, touched, loaded, pc, pending, handler, now>>
         /\ out'.noted = out.noted /\ out'.raised = out.raised /\ out'.lost = out.lost
         /\ out'.how \in {out.how, "killed"}
<1>1. UNCHANGED <<d, own, disk, touched, loaded, pc, pending, handler, now>>
  BY DEF Packet, Forward, Kill, Over, allVars, drvVars, vars, ctl, rat
<1>2. out' = out \/ out' = [out EXCEPT !.how = "killed"]
  BY DEF Packet, Kill, Over, allVars, drvVars
<1>3. DOMAIN out = {"how", "raised", "noted", "lost"}
  BY DEF Typed, DriverTyped
<1> QED  BY <1>1, <1>2, <1>3

(* Time goes on only when the controller has nothing left to do. *)
LEMMA LabTicks ==
  ASSUME Typed, d.name \in LabDrivers, Tick
  PROVE  /\ UNCHANGED <<out, own, disk, touched, loaded, pc, pending, handler, dirty, queue>>
         /\ Settled /\ now' \in Nat /\ now < now'
         /\ d'.name = d.name /\ d'.part = d.part /\ d'.i = d.i /\ d'.k = d.k
         /\ jobs = {} => jobs' = {}
<1>1. UNCHANGED <<out, own, disk, touched, loaded, pc, pending, handler, dirty, queue>>
      /\ Settled /\ (jobs = {} => jobs' = {})
  BY DEF Tick, rat
<1>2. d'.name = d.name /\ d'.part = d.part /\ d'.i = d.i /\ d'.k = d.k
  BY DEF Tick, Typed, DriverTyped
<1> QED  BY <1>1, <1>2, TickGoesOn

(* A driver that has ended is at its end, and so is one that has an        *)
(* exception to raise.                                                     *)
LEMMA ClosingStep ==
  ASSUME Typed, Closing, [Next]_allVars
  PROVE  Closing'
<1>0. d'.name = d.name /\ DOMAIN out = {"how", "raised", "noted", "lost"} /\ d.part \in Parts
  BY NameKept DEF Typed, DriverTyped
<1>1. CASE Works
  <2>1. out' = out /\ out.how = "running" /\ (d'.part = d.part \/ d'.part = "fin")
    BY <1>1 DEF Works, Ready, Working, Onward, Position
  <2> QED  BY <1>0, <2>1 DEF Closing
<1>2. CASE Fails \/ FindsNothing
  <2>1. Trouble /\ out.how = "running"
    BY <1>2, Zenon DEF Fails, FindsNothing, Ready, Working
  <2>2. \/ op.err # "raise" /\ d'.part = d.part /\ out'.raised = out.raised /\ out'.how # "ended"
        \/ op.err = "raise" /\ RaiseIn
    <3>1. CASE op.err # "raise"
      <4>1. \/ out' = [out EXCEPT !.noted = Noted] \/ out' = [out EXCEPT !.lost = @ \cup {op.op}]
            \/ out' = [out EXCEPT !.how = "raised"]
        BY <2>1, <3>1, Zenon DEF Trouble
      <4>2. d'.part = d.part
        BY <2>1, <3>1 DEF Trouble, Onward, Position
      <4> QED  BY <1>0, <2>1, <3>1, <4>1, <4>2
    <3>2. CASE op.err = "raise"
      BY <2>1, <3>2, Zenon DEF Trouble
    <3> QED  BY <3>1, <3>2
  <2>3. CASE RaiseIn
    <3>1. CASE d.part = "trial" /\ Mine.next /\ out' = [out EXCEPT !.noted = Noted] /\ d' = AfterTrial(d.i)
      <4>1. out'.how = "running" /\ out'.raised = out.raised
        BY <1>0, <2>1, <3>1
      <4> QED  BY <1>0, <3>1, <4>1 DEF Closing
    <3>2. CASE out' = [out EXCEPT !.raised = TRUE] /\ d' = Position("fin", d.i, 1)
      BY <1>0, <3>2 DEF Closing, Position
    <3>3. CASE d.part = "fin" /\ d' = d
      BY <3>3 DEF Closing
    <3>4. CASE out' = [out EXCEPT !.how = "raised"] /\ d' = d
      BY <1>0, <3>4 DEF Closing
    <3> QED  BY <2>3, <3>1, <3>2, <3>3, <3>4, Zenon DEF RaiseIn
  <2> QED  BY <1>0, <2>2, <2>3 DEF Closing
<1>3. CASE Turn
  <2>1. \/ out' = out /\ out.how = "running" /\ d.part # "fin"
        \/ d' = d /\ d.part = "fin"
    BY <1>3 DEF Turn
  <2> QED  BY <1>0, <2>1 DEF Closing
<1>4. CASE Suspend \/ Packet \/ Tick \/ Kill \/ Halt \/ Controller \/ Over \/ UNCHANGED allVars
  <2>1. \/ out' = out \/ out' = [out EXCEPT !.how = "killed"] \/ out' = [out EXCEPT !.how = "suspended"]
    BY <1>4 DEF Suspend, Packet, Tick, Kill, Halt, Controller, Over, drvVars, allVars
  <2>2. d'.part = d.part
    BY <1>4 DEF Suspend, Packet, Tick, Kill, Halt, Controller, Over, drvVars, allVars, Typed, DriverTyped
  <2> QED  BY <1>0, <2>1, <2>2 DEF Closing
<1>5. CASE Resume
  <2>1. d.name = "e7b" /\ out' = [out EXCEPT !.how = "running"]
    BY <1>5 DEF Resume
  <2> QED  BY <1>0, <2>1 DEF Closing
<1> QED  BY <1>1, <1>2, <1>3, <1>4, <1>5 DEF Next

(* What the controller works with is what it had or what is on disk with a *)
(* signature that verifies.                                                *)
LEMMA LoadedStep ==
  ASSUME Typed, Aware, Step
  PROVE  /\ disk' = disk
         /\ loaded'.doc = loaded.doc \/ (loaded'.doc = disk.doc /\ disk.good)
<1>1. DOMAIN loaded = {"doc", "at", "refused"}
  BY DEF Aware
<1>2. CASE Reload
  <2>1. disk' = disk
        /\ \/ loaded' = loaded
           \/ disk.good /\ loaded' = [loaded EXCEPT !.doc = disk.doc, !.at = now]
           \/ loaded' = [loaded EXCEPT !.refused = now]
    BY <1>2 DEF Reload
  <2> QED  BY <1>1, <2>1
<1>3. CASE run
  <2>1. disk' = disk
        /\ (loaded' = loaded \/ (disk.good /\ loaded' = [loaded EXCEPT !.doc = disk.doc, !.at = now]))
    BY <1>3 DEF run
  <2> QED  BY <1>1, <2>1
<1>4. CASE ~Reload /\ ~run
  <2>1. UNCHANGED <<disk, loaded>>
    BY <1>4 DEF Step, Receive, Recorded, evaluate_hold, _log_decision, handle_reset, reset_step,
       reset_step_fails, override_row_stays, write_markers, startup_done, handle_dump_state,
       handle_stop, rat
  <2> QED  BY <2>1
<1> QED  BY <1>2, <1>3, <1>4

-----------------------------------------------------------------------------
InTrial(K) == d.part = "trial" /\ d.k \in K

(* preflight_e12b: between the change behind the signature and its undoing *)
(* the copy of the manifest is there, and an exception on the way is noted.*)
Probe == [doc |-> "probe", good |-> FALSE]
Probed ==
  /\ disk = IF InTrial({3, 4}) THEN Probe ELSE Canon
  /\ InTrial(2..6) => own.backup = Canon
  /\ InTrial({3, 4}) => out.how # "raised"
  /\ loaded.doc = "canonical"

LEMMA ProbedWorks ==
  ASSUME Typed, Aware, d.name = "preflight_e12b", Probed, Works
  PROVE  Probed'
<1>1. /\ Working /\ Effect /\ UNCHANGED <<out, loaded>>
      /\ d'.part = d.part /\ d'.k = d.k + 1
  BY LabGoesOn DEF LabDrivers, OutOfReach
<1>2. d.k \in 1..6 /\ \/ d.part = "fin" /\ op.op = CheckOps[d.k]
                      \/ d.part = "trial" /\ op.op = ProbeOps[d.k]
  BY <1>1, CheckerAt DEF Checkers, CheckPart
<1>3. /\ op.op \notin DiskOps => disk' = disk
      /\ op.op \notin {"snapshot", "unbackup"} => own'.backup = own.backup
      /\ op.op = "snapshot" => own'.backup = disk
      /\ op.op = "tamper" => disk' = Probe
      /\ op.op = "untamper" => disk' = own.backup
  BY <1>1, DiskWorks DEF Probe
<1>4. out'.how # "raised"
  BY <1>1 DEF Working
<1>5. CASE d.part = "fin"
  <2>1. op.op \in {"usr1", "sleep", "usr2", "fetch", "verdict"}
    BY <1>2, <1>5 DEF CheckOps
  <2> QED  BY <1>1, <1>3, <1>5, <2>1 DEF Probed, InTrial, DiskOps
<1>6. CASE d.part = "trial"
  <2>1. op.op = ProbeOps[d.k]
    BY <1>2, <1>6
  <2>2. CASE d.k = 1
    BY <1>1, <1>3, <1>6, <2>1, <2>2 DEF ProbeOps, Probed, InTrial, DiskOps
  <2>3. CASE d.k = 2
    BY <1>1, <1>3, <1>4, <1>6, <2>1, <2>3 DEF ProbeOps, Probed, InTrial, DiskOps
  <2>4. CASE d.k = 3
    BY <1>1, <1>3, <1>4, <1>6, <2>1, <2>4 DEF ProbeOps, Probed, InTrial, DiskOps
  <2>5. CASE d.k = 4
    BY <1>1, <1>3, <1>6, <2>1, <2>5 DEF ProbeOps, Probed, InTrial, DiskOps
  <2>6. CASE d.k \in {5, 6}
    BY <1>1, <1>3, <1>6, <2>1, <2>6 DEF ProbeOps, Probed, InTrial, DiskOps
  <2> QED  BY <1>2, <2>2, <2>3, <2>4, <2>5, <2>6
<1> QED  BY <1>2, <1>5, <1>6

LEMMA ProbedSlips ==
  ASSUME Typed, Aware, d.name = "preflight_e12b", Probed, Fails \/ FindsNothing,
         out'.noted = {}
  PROVE  Probed'
<1>1. /\ Working /\ (Effect \/ Hears) /\ UNCHANGED loaded /\ d.k \in 1..Len(Ops)
      /\ \/ op.err = "raise" /\ Mine.finally
         \/ op.err = "raise" /\ ~(d.part = "trial" /\ Mine.next) /\ d' = d
         \/ op.err = "none" /\ Refused /\ Missed /\ d' = d
         \/ op.err = "blind"
  BY LabSlips DEF LabDrivers, OutOfReach
<1>2. Mine.finally = FALSE /\ Mine.next = TRUE
  <2>1. Mine = preflight_e12b
    BY DEF Mine, Script
  <2> QED  BY <2>1 DEF preflight_e12b, Plain
<1>3. /\ op.err \in {"raise", "none"} /\ d.k \in 1..6
      /\ \/ d.part = "fin" /\ op.op = CheckOps[d.k]
         \/ d.part = "trial" /\ op.op = ProbeOps[d.k]
  BY <1>1, CheckerAt DEF Checkers, CheckPart
<1>4. d' = d /\ (d.part = "fin" \/ (Refused /\ Missed))
  BY <1>1, <1>2, <1>3
<1>5. disk' = disk /\ own'.backup = own.backup
  <2>1. /\ UNCHANGED disk \/ op.op \in DiskOps
        /\ own'.backup = own.backup \/ op.op \in {"snapshot", "unbackup"}
    BY <1>1, DiskEffect
  <2>2. CASE d.part = "fin"
    <3>1. op.op \in {"usr1", "sleep", "usr2", "fetch", "verdict"}
      BY <1>3, <2>2 DEF CheckOps
    <3> QED  BY <2>1, <3>1 DEF DiskOps
  <2>3. CASE Refused /\ Missed
    <3>1. op.op \notin DiskOps \cup {"snapshot"}
      BY <2>3 DEF Refused, DiskOps
    <3> QED  BY <2>1, <3>1 DEF DiskOps
  <2> QED  BY <1>4, <2>2, <2>3
<1>6. ~InTrial({3, 4})
  <2>1. CASE d.part = "fin"
    BY <2>1 DEF InTrial
  <2>2. CASE d.part = "trial" /\ Refused
    <3>1. op.op \notin {"sleep", "untamper"}
      BY <2>2 DEF Refused
    <3>2. op.op = ProbeOps[d.k]
      BY <1>3, <2>2
    <3> QED  BY <3>1, <3>2 DEF InTrial, ProbeOps
  <2> QED  BY <1>3, <1>4, <2>1, <2>2
<1> QED  BY <1>1, <1>4, <1>5, <1>6 DEF Probed, InTrial

LEMMA ProbedStep ==
  ASSUME Typed, Aware, Closing, d.name = "preflight_e12b", Probed, [Next]_allVars,
         out'.noted = {}
  PROVE  Probed'
<1>1. CASE Turn
  <2>1. /\ UNCHANGED <<disk, loaded>> /\ own'.backup = own.backup /\ d.k > Len(Ops)
        /\ \/ d.part = "fin" /\ d' = d
           \/ d'.k = 1 /\ d.part # "fin"
    BY <1>1, LabTurns DEF LabDrivers, vars, rat
  <2>2. ASSUME d.part = "trial"
        PROVE  d.k \notin {3, 4}
    <3>1. Len(Ops) = 6
      BY <2>2, ProbeScript DEF Ops, Mine, Script
    <3>2. d.k \in Nat
      BY DEF Typed, DriverTyped
    <3> QED  BY <2>1, <3>1, <3>2
  <2> QED  BY <2>1, <2>2 DEF Probed, InTrial
<1>2. CASE Controller
  <2>1. Step /\ UNCHANGED <<d, own, out>>
    BY <1>2 DEF Controller, drvVars
  <2>2. disk' = disk
        /\ (loaded'.doc = loaded.doc \/ (loaded'.doc = disk.doc /\ disk.good))
    BY <2>1, LoadedStep
  <2>3. Canon.doc = "canonical" /\ ~Probe.good
    BY DEF Canon, Probe
  <2> QED  BY <2>1, <2>2, <2>3 DEF Probed, InTrial
<1>3. CASE Tick
  BY <1>3, LabTicks DEF LabDrivers, Probed, InTrial
<1>4. CASE Packet \/ Kill \/ Over \/ UNCHANGED allVars
  <2>1. UNCHANGED <<d, own, disk, loaded>> /\ out'.how \in {out.how, "killed"}
    BY <1>4, LabStill DEF LabDrivers
  <2> QED  BY <2>1 DEF Probed, InTrial
<1> QED
  BY <1>1, <1>2, <1>3, <1>4, ProbedWorks, ProbedSlips, LabCases DEF LabDrivers

(* The only failure of run_e12b that nobody sees is that of its polling.   *)
LEMMA FlipErrs ==
  /\ \A k \in 1..15 : e12b_trial[k].err = "blind" => k = 12
  /\ \A n : Len(Sleep(n)) = 1 /\ Sleep(n)[1].op = "sleep" /\ Sleep(n)[1].err = "none"
<1>1. /\ e12b_trial[1].err = "raise" /\ e12b_trial[2].err = "raise" /\ e12b_trial[3].err = "none"
      /\ e12b_trial[4].err = "raise" /\ e12b_trial[5].err = "raise" /\ e12b_trial[6].err = "raise"
      /\ e12b_trial[7].err = "raise" /\ e12b_trial[8].err = "none" /\ e12b_trial[9].err = "raise"
      /\ e12b_trial[10].err = "none" /\ e12b_trial[11].err = "raise"
      /\ e12b_trial[13].err = "none" /\ e12b_trial[14].err = "raise"
      /\ e12b_trial[15].err = "raise"
  BY DEF e12b_trial, assert_signed_at_startup, Op, Do, Sleep
<1>2. \A n : Len(Sleep(n)) = 1 /\ Sleep(n)[1].op = "sleep" /\ Sleep(n)[1].err = "none"
  BY DEF Sleep, Op
<1>3. \A k \in 1..15 : k = 12 \/ e12b_trial[k].err # "blind"
  BY <1>1
<1> QED  BY <1>2, <1>3

(* Where run_e12b is when it performs an operation. *)
LEMMA FlipAt ==
  ASSUME Typed, Working, d.name = "e12b"
  PROVE  /\ \/ d.part = "between" /\ op.op = "sleep"
            \/ d.part = "trial" /\ d.k \in 1..15 /\ op.op = FlipOps[d.k]
         /\ d.part = "between" => op.err = "none"
         /\ op.err = "blind" => op.op = "poll" /\ d.k = 12
<1>1. d.k \in 1..Len(Ops) /\ d.part \in Parts /\ Ops = e12b[d.part]
  BY AtWork, FlipScript DEF Typed, DriverTyped, Ops, Mine
<1>2. d.part \in {"between", "trial"}
  <2>1. e12b.pre = << >> /\ e12b.fin = << >>
    BY FlipScript
  <2> QED  BY <1>1, <2>1 DEF Parts
<1>3. CASE d.part = "between"
  <2>1. Ops = Sleep(70)
    BY <1>1, <1>3, FlipScript, Zenon
  <2>2. d.k = 1 /\ op = Sleep(70)[1]
    BY <1>1, <2>1, FlipErrs DEF op
  <2>3. op.op = "sleep" /\ op.err = "none"
    BY <2>2, FlipErrs
  <2> QED  BY <1>3, <2>3
<1>4. CASE d.part = "trial"
  <2>1. Ops = e12b_trial
    BY <1>1, <1>4 DEF e12b, Plain
  <2>2. e12b.trial = e12b_trial
    BY DEF e12b, Plain
  <2>3. Len(Ops) = 15 /\ \A k \in 1..15 : Ops[k].op = FlipOps[k]
    BY <2>1, <2>2, FlipScript, Zenon
  <2>4. d.k \in 1..15 /\ op.op = FlipOps[d.k] /\ (op.err = "blind" => d.k = 12)
    BY <1>1, <2>1, <2>3, FlipErrs DEF op
  <2>5. FlipOps[12] = "poll"
    BY DEF FlipOps
  <2> QED  BY <1>4, <2>4, <2>5
<1> QED  BY <1>2, <1>3, <1>4

(* run_e12b: the byte that was flipped comes back from the copy, within    *)
(* the trial; an exception in between is noted.                            *)
Flipped ==
  /\ disk = [doc |-> "canonical", good |-> ~InTrial({10, 11})]
  /\ InTrial(7..11) => own.backup = Canon

LEMMA FlippedWorks ==
  ASSUME Typed, Aware, d.name = "e12b", Flipped, Works
  PROVE  Flipped'
<1>1. /\ Working /\ Effect
      /\ d'.part = d.part /\ d'.k = d.k + 1 /\ d.k \in 1..Len(Ops)
  BY LabGoesOn DEF LabDrivers
<1>2. \/ d.part = "between" /\ op.op = "sleep"
      \/ d.part = "trial" /\ d.k \in 1..15 /\ op.op = FlipOps[d.k]
  BY <1>1, FlipAt
<1>3. /\ op.op \notin DiskOps => disk' = disk
      /\ op.op \notin {"snapshot", "unbackup"} => own'.backup = own.backup
      /\ op.op = "snapshot" => own'.backup = disk
      /\ op.op = "corrupt" => disk' = [disk EXCEPT !.good = ~@]
      /\ op.op = "unbackup" => disk' = [disk EXCEPT !.good = own.backup.good]
  BY <1>1, DiskWorks
<1>4. CASE d.part = "between"
  <2>1. op.op = "sleep"
    BY <1>2, <1>4
  <2>2. disk' = disk
    BY <1>3, <2>1 DEF DiskOps
  <2>3. ~InTrial({10, 11}) /\ ~InTrial({10, 11})' /\ ~InTrial(7..11)'
    BY <1>1, <1>4 DEF InTrial
  <2> QED  BY <2>2, <2>3 DEF Flipped
<1>5. CASE d.part = "trial"
  <2>1. op.op = FlipOps[d.k] /\ d.k \in 1..15
    BY <1>2, <1>5
  <2>2. CASE d.k \in {1, 2, 3, 4, 5, 12, 13, 14, 15}
    <3>1. op.op \notin DiskOps /\ op.op # "snapshot"
      BY <2>1, <2>2 DEF FlipOps, DiskOps
    <3>2. d.k \notin {10, 11} /\ d.k + 1 \notin 7..11
      BY ONLY <2>2
    <3>3. d'.k \notin 7..11 /\ d'.k \notin {10, 11}
      BY <1>1, <3>2
    <3>4. disk' = disk
      BY <1>3, <3>1
    <3>5. disk' = disk /\ ~InTrial({10, 11}) /\ ~InTrial({10, 11})' /\ ~InTrial(7..11)'
      BY <3>2, <3>3, <3>4 DEF InTrial
    <3> QED  BY <3>5 DEF Flipped
  <2>3. CASE d.k = 6
    <3>1. op.op = "snapshot"
      BY <2>1, <2>3 DEF FlipOps
    <3>2. disk' = disk /\ own'.backup = disk /\ ~InTrial({10, 11}) /\ ~InTrial({10, 11})'
      BY <1>1, <1>3, <2>3, <3>1 DEF InTrial, DiskOps
    <3>3. disk = Canon
      BY <3>2 DEF Flipped, Canon
    <3> QED  BY <3>2, <3>3 DEF Flipped
  <2>4. CASE d.k \in {7, 8, 10}
    <3>1. op.op \notin DiskOps /\ op.op # "snapshot"
      BY <2>1, <2>4 DEF FlipOps, DiskOps
    <3>2. disk' = disk /\ own'.backup = own.backup /\ InTrial(7..11)
          /\ (InTrial({10, 11})' <=> InTrial({10, 11}))
      BY <1>1, <1>3, <1>5, <2>4, <3>1 DEF InTrial, DiskOps
    <3> QED  BY <3>2 DEF Flipped
  <2>5. CASE d.k = 9
    <3>1. op.op = "corrupt"
      BY <2>1, <2>5 DEF FlipOps
    <3>2. disk' = [disk EXCEPT !.good = ~@] /\ own'.backup = own.backup /\ InTrial(7..11)
          /\ ~InTrial({10, 11}) /\ InTrial({10, 11})'
      BY <1>1, <1>3, <1>5, <2>5, <3>1 DEF InTrial, DiskOps
    <3>3. disk = [doc |-> "canonical", good |-> TRUE]
      BY <3>2 DEF Flipped
    <3>4. disk' = [doc |-> "canonical", good |-> FALSE]
      BY <3>2, <3>3
    <3> QED  BY <3>2, <3>4 DEF Flipped
  <2>6. CASE d.k = 11
    <3>1. op.op = "unbackup"
      BY <2>1, <2>6 DEF FlipOps
    <3>2. disk' = [disk EXCEPT !.good = own.backup.good] /\ own.backup = Canon
          /\ InTrial({10, 11}) /\ ~InTrial({10, 11})' /\ ~InTrial(7..11)'
      BY <1>1, <1>3, <1>5, <2>6, <3>1 DEF InTrial, Flipped
    <3>3. disk = [doc |-> "canonical", good |-> FALSE]
      BY <3>2 DEF Flipped
    <3>4. own.backup.good = TRUE
      BY <3>2 DEF Canon
    <3>5. disk' = [disk EXCEPT !.good = TRUE]
      BY <3>2, <3>4
    <3>6. disk' = [doc |-> "canonical", good |-> TRUE]
      BY <3>3, <3>5
    <3> QED  BY <3>2, <3>6 DEF Flipped
  <2> QED  BY <2>1, <2>2, <2>3, <2>4, <2>5, <2>6
<1> QED  BY <1>2, <1>4, <1>5

LEMMA FlippedSlips ==
  ASSUME Typed, Aware, d.name = "e12b", Flipped, Fails \/ FindsNothing, out'.noted = {}
  PROVE  Flipped'
<1>1. /\ Working /\ (Effect \/ Hears) /\ d.k \in 1..Len(Ops)
      /\ \/ op.err = "raise" /\ Mine.finally
         \/ op.err = "raise" /\ ~(d.part = "trial" /\ Mine.next)
         \/ op.err = "none" /\ Refused /\ d' = d
         \/ op.err = "blind" /\ d' = Position(d.part, d.i, d.k + 1)
  BY LabSlips DEF LabDrivers
<1>2. Mine.finally = FALSE /\ Mine.next = TRUE
  BY FlipScript DEF Mine
<1>3. /\ \/ d.part = "between" /\ op.op = "sleep"
         \/ d.part = "trial" /\ d.k \in 1..15 /\ op.op = FlipOps[d.k]
      /\ d.part = "between" => op.err = "none"
      /\ op.err = "blind" => op.op = "poll" /\ d.k = 12
  BY <1>1, FlipAt
<1>4. (d' = d /\ Refused) \/ (d.part = "trial" /\ d.k = 12 /\ op.op = "poll" /\ d'.part = "trial" /\ d'.k = 13)
  BY <1>1, <1>2, <1>3 DEF Position
<1>5. disk' = disk /\ own'.backup = own.backup
  <2>1. op.op \notin DiskOps \cup {"snapshot"}
    BY <1>4 DEF Refused, DiskOps
  <2> QED  BY <1>1, <2>1, DiskEffect DEF DiskOps
<1> QED  BY <1>4, <1>5 DEF Flipped, InTrial

LEMMA FlippedStep ==
  ASSUME Typed, Aware, d.name = "e12b", Flipped, [Next]_allVars, out'.noted = {}
  PROVE  Flipped'
<1>1. CASE Turn
  <2>1. /\ UNCHANGED disk /\ own'.backup = own.backup /\ d.k > Len(Ops)
        /\ (d.part = "fin" /\ d' = d) \/ d'.k = 1
    BY <1>1, LabTurns DEF LabDrivers, vars, rat
  <2>2. ASSUME d.part = "trial"
        PROVE  d.k \notin {10, 11}
    <3>1. Len(Ops) = 15
      BY <2>2, FlipScript DEF Ops, Mine
    <3>2. d.k \in Nat
      BY DEF Typed, DriverTyped
    <3> QED  BY <2>1, <3>1, <3>2
  <2> QED  BY <2>1, <2>2 DEF Flipped, InTrial
<1>2. CASE Controller
  <2>1. Step /\ UNCHANGED <<d, own>>
    BY <1>2 DEF Controller, drvVars
  <2> QED  BY <2>1, LoadedStep DEF Flipped, InTrial
<1>3. CASE Tick
  BY <1>3, LabTicks DEF LabDrivers, Flipped, InTrial
<1>4. CASE Packet \/ Kill \/ Over \/ UNCHANGED allVars
  <2>1. UNCHANGED <<d, own, disk>>
    BY <1>4, LabStill DEF LabDrivers
  <2> QED  BY <2>1 DEF Flipped, InTrial
<1> QED
  BY <1>1, <1>2, <1>3, <1>4, FlippedWorks, FlippedSlips, LabCases DEF LabDrivers

(* Where run_t1_7 is when it performs an operation. *)
DownErrs == <<"raise", "note", "none", "note", "blind", "blind", "none">>
LEMMA DownAt ==
  ASSUME Typed, Working, d.name = "t1_7"
  PROVE  d.part = "trial" /\ d.k \in 1..7 /\ op.op = DownOps[d.k] /\ op.err = DownErrs[d.k]
<1>1. d.k \in 1..Len(Ops) /\ d.part \in Parts /\ Ops = t1_7[d.part]
  BY AtWork, DownScript DEF Typed, DriverTyped, Ops, Mine
<1>2. d.part = "trial"
  <2>1. t1_7.pre = << >> /\ t1_7.fin = << >> /\ t1_7.between = << >>
    BY DownScript
  <2> QED  BY <1>1, <2>1 DEF Parts
<1>3. Ops = t1_7.trial
  BY <1>1, <1>2, Zenon
<1>4. /\ t1_7.trial[1].err = "raise" /\ t1_7.trial[2].err = "note" /\ t1_7.trial[3].err = "none"
      /\ t1_7.trial[4].err = "note" /\ t1_7.trial[5].err = "blind" /\ t1_7.trial[6].err = "blind"
      /\ t1_7.trial[7].err = "none"
  BY DEF t1_7, Plain, inspect_table_shape, t1_7_stop, install_allow_entries,
         cleanup_allow_entries, t1_7_start, Op, Do, Sleep
<1>5. \A k \in 1..7 : t1_7.trial[k].err = DownErrs[k]
  BY <1>4 DEF DownErrs
<1>6. d.k \in 1..7
  BY <1>1, <1>3, DownScript
<1>7. op.op = DownOps[d.k] /\ op.err = DownErrs[d.k]
  BY <1>3, <1>5, <1>6, DownScript DEF op
<1> QED  BY <1>2, <1>6, <1>7

(* run_t1_7 waits for the controller it has stopped and for the one it has *)
(* started: a second does not pass while either is under way, so that each *)
(* wait ends with the controller down, or up.                              *)
Clear == "OVERRIDE" \notin dirty /\ pending = {}
Down ==
  /\ queue = << >> /\ jobs = {} /\ disk = Canon /\ pc \in {"idle", "down"}
  /\ d.part # "between"
  /\ d.part = "pre" \/ InTrial({1, 2}) => pc = "idle" /\ handler = "none" /\ pending = {}
  /\ InTrial({3}) => /\ handler = "none"
                     /\ IF pc = "idle" THEN pending = {"stop"} /\ d.left > 0 ELSE pending = {}
  /\ InTrial({4, 5, 6}) => pc = "down" /\ pending = {}
  /\ InTrial({7}) => IF pc = "down" THEN pending = {"start"} /\ d.left > 0 ELSE Clear
  /\ InTrial({8}) \/ d.part = "fin" => pc = "idle" /\ Clear

(* What the operations of run_t1_7 do. *)
LEMMA DownEffect ==
  ASSUME Typed, Working, d.name = "t1_7", Effect \/ Hears
  PROVE  /\ UNCHANGED <<queue, jobs, disk>>
         /\ op.op \in {"ship", "sleep", "rows", "unrows"} => pending' = pending
         /\ op.op \in {"ship", "sleep", "stop", "start"} => dirty' = dirty
<1>1. op.op \in {"ship", "stop", "sleep", "rows", "unrows", "start"}
  BY DownAt DEF DownOps
<1> QED
  BY <1>1 DEF Effect, Hears, TakeHands, Hands, preflight_check, Signal, Signals, WriteDisk, Rows,
     WriteFiles, Launch, send_packet, Missed, SentUnheard

LEMMA DownWorks ==
  ASSUME Typed, d.name = "t1_7", out.noted = {}, Down, Works
  PROVE  Down'
<1>1. /\ Working /\ Effect /\ UNCHANGED <<out, pc, handler>> /\ d' = Position(d.part, d.i, d.k + 1)
      /\ d'.part = d.part /\ d'.k = d.k + 1 /\ (op.op = "sleep" => d.left = 0)
  BY LabGoesOn DEF LabDrivers, OutOfReach, ctl
<1>2. d.part = "trial" /\ d.k \in 1..7 /\ op.op = DownOps[d.k]
  BY <1>1, DownAt
<1>3. /\ UNCHANGED <<queue, jobs, disk>>
      /\ op.op \in {"ship", "sleep", "rows", "unrows"} => pending' = pending
      /\ op.op \in {"ship", "sleep", "stop", "start"} => dirty' = dirty
  BY <1>1, DownEffect
<1>4. (d'.part = "pre" \/ d'.part = "fin" \/ d'.part = "between") <=> FALSE
  BY <1>1, <1>2
<1>5. Ops = t1_7.trial /\ Mine[d.part] = Ops /\ Len(Ops) = 7
  BY <1>2, DownScript DEF Ops, Mine
<1> USE <1>1, <1>2, <1>3 DEF Down, InTrial
<1>6. CASE d.k = 1
  BY <1>6 DEF DownOps
<1>7. CASE d.k = 2
  <2>1. op.op = "stop"
    BY <1>7 DEF DownOps
  <2>2. pending' = {"stop"}
    <3>1. Signal
      BY <2>1 DEF Effect, TakeHands, Hands, preflight_check, WriteDisk, Rows, WriteFiles, Launch,
         send_packet
    <3> QED  BY <1>7, <2>1, <3>1 DEF Signal, Signals, Up
  <2>3. d'.left = 3
    <3>1. Ops[3].op = "sleep" /\ Ops[3].arg = 3
      BY <1>5, DownScript DEF DownOps
    <3>2. d' = Position(d.part, d.i, 3)
      BY <1>7
    <3> QED  BY <1>5, <3>1, <3>2 DEF Position, Delay, Waiting
  <2> QED  BY <1>7, <2>2, <2>3
<1>8. CASE d.k = 3
  BY <1>8 DEF DownOps
<1>9. CASE d.k \in {4, 5}
  BY <1>9 DEF DownOps
<1>10. CASE d.k = 6
  <2>1. op.op = "start"
    BY <1>10 DEF DownOps
  <2>2. pending' = {"start"}
    <3>1. Signal
      BY <2>1 DEF Effect, TakeHands, Hands, preflight_check, WriteDisk, Rows, WriteFiles, Launch,
         send_packet
    <3>2. ~NoPid
      BY DEF NoPid
    <3> QED  BY <1>10, <2>1, <3>1, <3>2 DEF Signal, Signals, Up
  <2>3. d'.left = 8
    <3>1. Ops[7].op = "sleep" /\ Ops[7].arg = 8
      BY <1>5, DownScript DEF DownOps
    <3>2. d' = Position(d.part, d.i, 7)
      BY <1>10
    <3> QED  BY <1>5, <3>1, <3>2 DEF Position, Delay, Waiting
  <2> QED  BY <1>10, <2>2, <2>3
<1>11. CASE d.k = 7
  BY <1>11 DEF DownOps, Clear
<1> QED  BY <1>6, <1>7, <1>8, <1>9, <1>10, <1>11

LEMMA DownSlips ==
  ASSUME Typed, d.name = "t1_7", Down, Fails \/ FindsNothing,
         out'.noted = {}, "start" \notin out'.lost
  PROVE  Down'
<1>1. /\ Working /\ (Effect \/ Hears) /\ UNCHANGED <<pc, handler>>
      /\ \/ op.err = "raise" /\ Mine.finally
         \/ op.err = "raise" /\ d' = d
         \/ op.err = "none" /\ Refused /\ d' = d
         \/ op.err = "blind" /\ d' = Position(d.part, d.i, d.k + 1)
            /\ out'.lost = out.lost \cup {op.op}
  BY LabSlips DEF LabDrivers, OutOfReach, ctl
<1>2. Mine.finally = FALSE
  BY DownScript DEF Mine
<1>3. d.part = "trial" /\ d.k \in 1..7 /\ op.op = DownOps[d.k] /\ op.err = DownErrs[d.k]
  BY <1>1, DownAt
<1>4. op.op \in {"ship", "unrows"} /\ (op.op = "ship" => d.k = 1) /\ (op.op = "unrows" => d.k = 5)
      /\ (d' = d \/ (op.op = "unrows" /\ d'.part = d.part /\ d'.k = d.k + 1))
  <2>0. Refused => op.op # "sleep"
    BY DEF Refused
  <2>1. op.err # "note"
    BY <1>1
  <2>2. d.k \notin {3, 7}
    <3>1. d.k \in {3, 7} => op.op = "sleep" /\ op.err = "none"
      BY <1>3 DEF DownOps, DownErrs
    <3> QED  BY <1>1, <2>0, <3>1
  <2>3. d.k # 6
    <3>1. d.k = 6 => op.op = "start" /\ op.err = "blind"
      BY <1>3 DEF DownOps, DownErrs
    <3> QED  BY <1>1, <3>1
  <2>4. d.k \in {1, 5}
    BY <1>3, <2>1, <2>2, <2>3 DEF DownErrs
  <2> QED  BY <1>1, <1>2, <1>3, <2>4 DEF DownOps, DownErrs, Position
<1>5. UNCHANGED <<queue, jobs, disk, pending>> /\ (op.op = "ship" => dirty' = dirty)
  BY <1>1, <1>4, DownEffect
<1>6. CASE op.op = "ship"
  BY <1>1, <1>3, <1>4, <1>5, <1>6 DEF Down, InTrial
<1>7. CASE op.op = "unrows"
  BY <1>1, <1>3, <1>4, <1>5, <1>7 DEF Down, InTrial
<1> QED  BY <1>4, <1>6, <1>7

(* What the controller does while no digest comes. *)
LEMMA QuietStep ==
  ASSUME Step, queue = << >>, pc \in {"idle", "down"}
  PROVE  /\ queue' = << >>
         /\ \/ UNCHANGED <<pc, pending>> /\ dirty' \subseteq dirty
               /\ (handler = "none" => handler' = "none") 
            \/ pending \cap {"reset", "dump"} # {}
            \/ "stop" \in pending /\ pc = "idle" /\ pc' = "down" /\ pending' = {}
               /\ handler' = handler
            \/ /\ "start" \in pending /\ pending' = pending \ {"start"}
               /\ \/ pc = "down" /\ disk.good /\ pc' = "idle" /\ dirty' = dirty \ {"OVERRIDE"}
                  \/ ~(pc = "down" /\ disk.good) /\ pc' = pc
<1>1. CASE handle_reset \/ handle_dump_state
  BY <1>1 DEF handle_reset, handle_dump_state
<1>2. CASE reset_step
  <2>1. UNCHANGED <<pc, pending, queue, handler>> /\ dirty' \subseteq dirty
    BY <1>2 DEF reset_step
  <2> QED  BY <2>1
<1>3. CASE reset_step_fails \/ override_row_stays \/ write_markers \/ startup_done \/ Reload
  <2>1. UNCHANGED <<pc, pending, queue, dirty>> /\ (handler = "none" => handler' = "none")
    BY <1>3 DEF reset_step_fails, override_row_stays, write_markers, startup_done, Reload, ctl
  <2> QED  BY <2>1
<1>4. CASE handle_stop
  BY <1>4 DEF handle_stop, Main
<1>5. CASE run
  BY <1>5 DEF run, ctl
<1>6. ~Receive /\ ~Recorded /\ ~evaluate_hold /\ ~_log_decision
  BY DEF Receive, Recorded, evaluate_hold, _log_decision, Main
<1> QED  BY <1>1, <1>2, <1>3, <1>4, <1>5, <1>6 DEF Step

LEMMA DownStep ==
  ASSUME Typed, d.name = "t1_7", out.noted = {}, Down, [Next]_allVars,
         out'.noted = {}, "start" \notin out'.lost
  PROVE  Down'
<1>1. CASE Turn
  <2>1. /\ UNCHANGED <<queue, jobs, disk, pc, handler, pending, dirty>> /\ d.k > Len(Ops)
        /\ \/ d.part = "fin" /\ d' = d
           \/ d'.k = 1
              /\ \/ d.part = "pre" /\ d'.part = IF 1 <= Mine.trials THEN "trial" ELSE "fin"
                 \/ d.part = "trial" /\ d'.part = IF d.i < Mine.trials THEN "between" ELSE "fin"
                 \/ d.part = "between" /\ d'.part = "trial"
    BY <1>1, LabTurns DEF LabDrivers, vars, rat, ctl
  <2>2. Mine.trials = 1 /\ d.i \in 1..Trials /\ d.k \in Nat /\ d.k <= Len(Ops) + 1
    BY DownScript DEF Mine, Typed, DriverTyped
  <2>3. ASSUME d.part = "trial"
        PROVE  d.k = 8
    <3>1. Len(Ops) = 7
      BY <2>3, DownScript DEF Ops, Mine
    <3> QED  BY <2>1, <2>2, <3>1
  <2>4. \/ d.part = "fin" /\ d' = d
        \/ d.part = "pre" /\ d'.part = "trial" /\ d'.k = 1
        \/ d.part = "trial" /\ d.k = 8 /\ d'.part = "fin"
    BY <2>1, <2>2, <2>3 DEF Down
  <2> QED  BY <2>1, <2>4 DEF Down, InTrial, Clear
<1>2. CASE Controller
  <2>1. Step /\ UNCHANGED <<d, jobs>>
    BY <1>2 DEF Controller, drvVars
  <2>2. disk' = disk
    BY <2>1 DEF Step, Receive, Recorded, evaluate_hold, _log_decision, handle_reset, reset_step,
       reset_step_fails, override_row_stays, write_markers, startup_done, handle_dump_state,
       handle_stop, run, Reload, rat
  <2>3. /\ queue' = << >>
        /\ \/ UNCHANGED <<pc, pending>> /\ dirty' \subseteq dirty
              /\ (handler = "none" => handler' = "none") 
           \/ pending \cap {"reset", "dump"} # {}
           \/ "stop" \in pending /\ pc = "idle" /\ pc' = "down" /\ pending' = {}
              /\ handler' = handler
           \/ /\ "start" \in pending /\ pending' = pending \ {"start"}
              /\ \/ pc = "down" /\ disk.good /\ pc' = "idle" /\ dirty' = dirty \ {"OVERRIDE"}
                 \/ ~(pc = "down" /\ disk.good) /\ pc' = pc
    BY <2>1, QuietStep DEF Down
  <2>4. disk.good /\ d.k \in Nat \ {0} /\ d.part \in Parts
    BY DEF Down, Canon, Typed, DriverTyped
  <2>5. d.part = "pre" \/ InTrial({1, 2}) \/ InTrial({3}) \/ InTrial({4, 5, 6}) \/ InTrial({7})
        \/ InTrial({8}) \/ d.part = "fin"
    <3>1. ASSUME d.part = "trial"
          PROVE  d.k \in 1..8
      <4>1. Len(Ops) = 7
        BY <3>1, DownScript DEF Ops, Mine
      <4>2. d.k <= Len(Ops) + 1
        BY DEF Typed, DriverTyped
      <4> QED  BY <2>4, <4>1, <4>2
    <3> QED  BY <2>4, <3>1 DEF Down, InTrial, Parts
  <2> USE <2>1, <2>2, <2>3, <2>4 DEF Down, InTrial
  <2>6. CASE d.part = "pre" \/ InTrial({1, 2})
    BY <2>6
  <2>7. CASE InTrial({3})
    BY <2>7
  <2>8. CASE InTrial({4, 5, 6})
    BY <2>8
  <2>9. CASE InTrial({7})
    BY <2>9 DEF Clear
  <2>10. CASE InTrial({8}) \/ d.part = "fin"
    BY <2>10 DEF Clear
  <2> QED  BY ONLY <2>5, <2>6, <2>7, <2>8, <2>9, <2>10
<1>3. CASE Tick
  <2>1. /\ UNCHANGED <<disk, pc, pending, handler, dirty, queue>> /\ Settled
        /\ d'.part = d.part /\ d'.k = d.k /\ jobs' = {}
    BY <1>3, LabTicks DEF LabDrivers, Down
  <2>2. InTrial({3}) => pc # "idle"
    BY <2>1 DEF Settled, Down
  <2>3. InTrial({7}) => pc # "down"
    BY <2>1 DEF Settled, Down
  <2> QED  BY <2>1, <2>2, <2>3 DEF Down, InTrial, Clear
<1>4. CASE Packet \/ Kill \/ Over \/ UNCHANGED allVars
  <2>1. ~Packet
    BY DEF Packet, Down
  <2>2. UNCHANGED <<d, queue, jobs, disk, pc, pending, handler, dirty>>
    BY <1>4, <2>1 DEF Kill, Over, allVars, drvVars, vars, ctl, rat
  <2> QED  BY <2>2 DEF Down, InTrial, Clear
<1> QED
  BY <1>1, <1>2, <1>3, <1>4, DownWorks, DownSlips, LabCases DEF LabDrivers

(* Where run_m4_200bms is when it performs an operation. *)
LEMMA M4At ==
  ASSUME Typed, Working, d.name \in {"m4", "m4_restart"}
  PROVE  /\ Mine.next = FALSE /\ Mine.finally = TRUE
         /\ \/ d.part = "trial" /\ op.op \in M4Ops
            \/ d.name = "m4" /\ d.part = "pre" /\ d.k \in 1..4 /\ op.op = HotPre[d.k]
            \/ d.name = "m4_restart" /\ d.part = "pre" /\ d.k \in 1..8 /\ op.op = ColdPre[d.k]
            \/ d.name = "m4" /\ d.part = "fin" /\ d.k \in 1..4 /\ op.op = HotFin[d.k]
               /\ (d.k > 1 => op.err = "raise")
            \/ d.name = "m4_restart" /\ d.part = "fin" /\ d.k \in 1..6 /\ op.op = ColdFin[d.k]
               /\ (d.k # 4 => op.err = "raise")
<1>1. d.k \in 1..Len(Ops) /\ d.part \in Parts
  BY AtWork DEF Typed, DriverTyped
<1>2. Mine.next = FALSE /\ Mine.finally = TRUE /\ (Mine = m4 \/ Mine = m4_restart)
  BY M4Script DEF Mine
<1>3. d.part # "between"
  <2>1. m4.between = << >> /\ m4_restart.between = << >>
    BY M4Script
  <2> QED  BY <1>1, <1>2, <2>1 DEF Ops
<1>4. CASE d.part = "trial"
  <2>1. Ops = M4Trial
    BY <1>2, <1>4, M4Script DEF Ops
  <2>2. op.op \in M4Ops
    BY <1>1, <2>1, M4Trials DEF op
  <2> QED  BY <1>2, <1>4, <2>2
<1>5. CASE d.part = "pre" /\ d.name = "m4"
  <2>1. Ops = m4.pre
    BY <1>5, M4Script DEF Ops, Mine
  <2>2. Len(Ops) = 4 /\ \A k \in 1..4 : Ops[k].op = HotPre[k]
    BY <2>1, M4Script
  <2>3. d.k \in 1..4
    BY <1>1, <2>2
  <2> QED  BY <1>2, <1>5, <2>2, <2>3 DEF op
<1>6. CASE d.part = "pre" /\ d.name = "m4_restart"
  <2>1. Ops = m4_restart.pre
    BY <1>6, M4Script DEF Ops, Mine
  <2>2. Len(Ops) = 8 /\ \A k \in 1..8 : Ops[k].op = ColdPre[k]
    BY <2>1, M4Script
  <2>3. d.k \in 1..8
    BY <1>1, <2>2
  <2> QED  BY <1>2, <1>6, <2>2, <2>3 DEF op
<1>7. CASE d.part = "fin" /\ d.name = "m4"
  <2>1. Ops = m4.fin
    BY <1>7, M4Script DEF Ops, Mine
  <2>2. Len(Ops) = 4 /\ \A k \in 1..4 : Ops[k].op = HotFin[k] /\ (k > 1 => Ops[k].err = "raise")
    BY <2>1, M4Script
  <2>3. d.k \in 1..4
    BY <1>1, <2>2
  <2> QED  BY <1>2, <1>7, <2>2, <2>3 DEF op
<1>8. CASE d.part = "fin" /\ d.name = "m4_restart"
  <2>1. Ops = m4_restart.fin
    BY <1>8, M4Script DEF Ops, Mine
  <2>2. Len(Ops) = 6 /\ \A k \in 1..6 : Ops[k].op = ColdFin[k] /\ (k # 4 => Ops[k].err = "raise")
    BY <2>1, M4Script
  <2>3. d.k \in 1..6
    BY <1>1, <2>2
  <2> QED  BY <1>2, <1>8, <2>2, <2>3 DEF op
<1> QED  BY <1>1, <1>3, <1>4, <1>5, <1>6, <1>7, <1>8 DEF Parts

(* run_m4_200bms has a copy of the canonical manifest from its first       *)
(* operation on, and what its last part does cannot fail unseen: the       *)
(* manifest is back before the controller is, in its file and in its       *)
(* signature.                                                              *)
M4 == {"m4", "m4_restart"}
Ending(n) == d.part = "fin" /\ d.k >= n
DocAt == IF d.name = "m4" THEN 3 ELSE 2       \* the file is back from here on
Pushed ==
  /\ d.part = "pre" /\ d.k = 1 => own.backup = None \/ own.backup = Canon
  /\ d.part = "pre" /\ d.k = 1 /\ out.how = "running" => disk = Canon
  /\ d.part # "pre" \/ d.k > 1 => own.backup = Canon
  /\ Ending(DocAt) => disk.doc = "canonical"
  /\ Ending(DocAt + 1) => disk = Canon
  /\ (out.how \in {"ended", "raised"} /\ d.part = "fin") => d.k > Len(Ops)

LEMMA PushedWorks ==
  ASSUME Typed, Aware, d.name \in M4, Pushed, Works
  PROVE  Pushed'
<1>1. /\ Working /\ Effect /\ UNCHANGED out
      /\ d'.name = d.name /\ d'.part = d.part /\ d'.k = d.k + 1 /\ d.k \in Nat \ {0}
  BY LabGoesOn DEF LabDrivers, M4, Typed, DriverTyped
<1>2. \/ d.part = "trial" /\ op.op \in M4Ops
      \/ d.name = "m4" /\ d.part = "pre" /\ d.k \in 1..4 /\ op.op = HotPre[d.k]
      \/ d.name = "m4_restart" /\ d.part = "pre" /\ d.k \in 1..8 /\ op.op = ColdPre[d.k]
      \/ d.name = "m4" /\ d.part = "fin" /\ d.k \in 1..4 /\ op.op = HotFin[d.k]
      \/ d.name = "m4_restart" /\ d.part = "fin" /\ d.k \in 1..6 /\ op.op = ColdFin[d.k]
  BY <1>1, M4At DEF M4
<1>3. /\ op.op \notin DiskOps => disk' = disk
      /\ op.op \notin {"snapshot", "unbackup"} => own'.backup = own.backup
      /\ op.op = "snapshot" => own'.backup = disk
      /\ op.op = "restore_doc" => disk' = Back(own.backup.doc)
      /\ op.op = "restore_sig" =>
           disk' = [disk EXCEPT !.good = own.backup.good /\ disk.doc = own.backup.doc]
  BY <1>1, DiskWorks
<1>4. out.how = "running" /\ out'.how = "running" /\ DocAt' = DocAt
  BY <1>1 DEF Working, DocAt
<1>5. CASE d.part = "trial"
  <2>1. own'.backup = own.backup
    BY <1>2, <1>3, <1>5 DEF M4Ops
  <2> QED  BY <1>1, <1>4, <1>5, <2>1 DEF Pushed, Ending
<1>6. CASE d.part = "pre"
  <2>1. IF d.k = 1 THEN op.op = "snapshot" ELSE op.op \notin {"snapshot", "unbackup"}
    BY <1>2, <1>6 DEF HotPre, ColdPre
  <2>2. own'.backup = Canon
    <3>1. CASE d.k = 1
      BY <1>3, <1>4, <1>6, <2>1, <3>1 DEF Pushed
    <3>2. CASE d.k # 1
      BY <1>1, <1>3, <1>6, <2>1, <3>2 DEF Pushed
    <3> QED  BY <3>1, <3>2
  <2>3. d'.k # 1
    BY <1>1
  <2> QED  BY <1>1, <1>4, <1>6, <2>2, <2>3 DEF Pushed, Ending
<1>7. CASE d.part = "fin"
  <2>1. op.op \notin {"snapshot", "unbackup"}
        /\ (op.op = "restore_doc" <=> d.k = DocAt - 1) /\ (op.op = "restore_sig" <=> d.k = DocAt)
        /\ (d.k > DocAt => op.op \notin DiskOps)
    BY <1>2, <1>7 DEF HotFin, ColdFin, DocAt, DiskOps
  <2>2. own.backup = Canon /\ own'.backup = Canon
    BY <1>3, <1>7, <2>1 DEF Pushed
  <2>3. DocAt \in {2, 3}
    BY DEF DocAt
  <2>4. Ending(DocAt)' => disk'.doc = "canonical"
    <3>1. CASE d.k = DocAt - 1
      BY <1>3, <2>1, <2>2, <3>1 DEF Back, Canon
    <3>2. CASE d.k = DocAt
      <4>1. disk.doc = "canonical" /\ DOMAIN disk = {"doc", "good"}
        BY <1>1, <1>7, <2>3, <3>2 DEF Pushed, Ending, Aware, Paper
      <4> QED  BY <1>3, <2>1, <3>2, <4>1
    <3>3. CASE d.k > DocAt
      BY <1>1, <1>3, <1>7, <2>1, <2>3, <3>3 DEF Pushed, Ending
    <3>4. CASE d.k < DocAt - 1
      BY <1>1, <1>4, <2>3, <3>4 DEF Ending
    <3> QED  BY <1>1, <2>3, <3>1, <3>2, <3>3, <3>4
  <2>5. Ending(DocAt + 1)' => disk' = Canon
    <3>1. CASE d.k = DocAt
      <4>1. disk.doc = "canonical" /\ DOMAIN disk = {"doc", "good"}
        BY <1>1, <1>7, <2>3, <3>1 DEF Pushed, Ending, Aware, Paper
      <4>2. own.backup.good = TRUE /\ own.backup.doc = "canonical"
        BY <2>2 DEF Canon
      <4>3. disk' = [disk EXCEPT !.good = TRUE]
        BY <1>3, <2>1, <3>1, <4>1, <4>2
      <4>4. disk' = [doc |-> "canonical", good |-> TRUE]
        BY <4>1, <4>3
      <4> QED  BY <4>4 DEF Canon
    <3>2. CASE d.k > DocAt
      <4>1. disk = Canon
        BY <1>1, <1>7, <2>3, <3>2 DEF Pushed, Ending
      <4> QED  BY <1>3, <2>1, <3>2, <4>1
    <3>3. CASE d.k < DocAt
      BY <1>1, <1>4, <2>3, <3>3 DEF Ending
    <3> QED  BY <1>1, <2>3, <3>1, <3>2, <3>3
  <2> QED  BY <1>1, <1>4, <1>7, <2>2, <2>4, <2>5 DEF Pushed
<1> QED  BY <1>2, <1>5, <1>6, <1>7

(* No operation of run_m4_200bms fails without anyone knowing. *)
LEMMA NeverBlind ==
  ASSUME Typed, Working, d.name \in {"m4", "m4_restart"}
  PROVE  op.err # "blind"
<1> DEFINE W == M4Ops \cup {"snapshot", "push", "sign", "await_reload", "stop", "start", "await_up",
                         "mark", "restore_doc", "restore_sig"}
<1> DEFINE K == [op : W, arg : Nat \cup Seq(Nat), err : {"raise", "none"}]
<1>1. M4Trial \in Seq(K)
  BY DriversAssumption DEF M4Trial, replay_pcap, Op, Do, Sleep, Emit, M4Ops
<1>2. push_and_sign \in Seq(K) /\ restore_canonical \in Seq(K) /\ wait_for_reload \in Seq(K)
  BY DEF push_and_sign, restore_canonical, wait_for_reload, Op, Do
<1>3. stop_controller \in Seq(K) /\ start_controller_and_wait \in Seq(K) /\ Sleep(2) \in Seq(K)
  BY DEF stop_controller, start_controller_and_wait, Op, Do, Sleep, M4Ops
<1>4. Do("snapshot", "raise") \in Seq(K) /\ Do("mark", "none") \in Seq(K)
  BY DEF Op, Do
<1>5. /\ m4.pre = Do("snapshot", "raise") \o push_and_sign \o wait_for_reload
      /\ m4.fin = Do("mark", "none") \o restore_canonical \o wait_for_reload
      /\ m4_restart.pre = Do("snapshot", "raise") \o push_and_sign
                           \o stop_controller \o start_controller_and_wait \o Sleep(2)
      /\ m4_restart.fin = restore_canonical \o stop_controller \o start_controller_and_wait
  BY DEF m4, m4_restart, Plain
<1>6. /\ m4.trial = M4Trial /\ m4_restart.trial = M4Trial
      /\ m4.between = << >> /\ m4_restart.between = << >>
  BY M4Script
<1>7. d.k \in 1..Len(Ops) /\ d.part \in Parts /\ (Mine = m4 \/ Mine = m4_restart)
  BY AtWork, M4Script DEF Typed, DriverTyped, Mine
<1>8. \A x \in K : x.err # "blind"
  OBVIOUS
<1> HIDE DEF K
<1>9. << >> \in Seq(K) /\ \A s, t \in Seq(K) : s \o t \in Seq(K)
  OBVIOUS
<1>10. m4.pre \in Seq(K) /\ m4.fin \in Seq(K) /\ m4_restart.pre \in Seq(K)
      /\ m4_restart.fin \in Seq(K)
  BY ONLY <1>2, <1>3, <1>4, <1>5, <1>9
<1>11. Ops \in Seq(K)
  BY <1>1, <1>6, <1>7, <1>9, <1>10, Zenon DEF Ops, Parts
<1>12. op \in K
  BY <1>7, <1>11 DEF op
<1> QED  BY <1>8, <1>12

LEMMA PushedSlips ==
  ASSUME Typed, Aware, d.name \in M4, Pushed, Fails \/ FindsNothing, out'.noted = {}
  PROVE  Pushed' /\ d.part # "fin"
<1>1. /\ Working /\ (Effect \/ Hears) /\ d.k \in 1..Len(Ops)
      /\ \/ op.err = "raise" /\ d.part # "fin" /\ own.backup # None
            /\ d' = Position("fin", d.i, 1) /\ out'.how = "running"
         \/ /\ \/ op.err = "raise" /\ ~(Mine.finally /\ (d.part = "fin" \/ own.backup # None))
               \/ op.err = "none" /\ Refused
            /\ d' = d /\ out'.how = "raised"
         \/ op.err = "blind" /\ d' = Position(d.part, d.i, d.k + 1) /\ out'.how = "running"
  BY LabSlips DEF LabDrivers, M4
<1>2. /\ Mine.finally = TRUE
      /\ \/ d.part = "trial" /\ op.op \in M4Ops
         \/ d.name = "m4" /\ d.part = "pre" /\ d.k \in 1..4 /\ op.op = HotPre[d.k]
         \/ d.name = "m4_restart" /\ d.part = "pre" /\ d.k \in 1..8 /\ op.op = ColdPre[d.k]
         \/ d.name = "m4" /\ d.part = "fin" /\ d.k \in 1..4 /\ op.op = HotFin[d.k]
            /\ (d.k > 1 => op.err = "raise")
         \/ d.name = "m4_restart" /\ d.part = "fin" /\ d.k \in 1..6 /\ op.op = ColdFin[d.k]
            /\ (d.k # 4 => op.err = "raise")
  BY <1>1, M4At DEF M4
<1>3. op.err # "blind"
  BY <1>1, NeverBlind DEF M4
<1>4. d.part # "fin"
  BY ONLY <1>1, <1>2, <1>3 DEF HotFin, ColdFin, Refused
<1>5. own'.backup = own.backup \/ (d.part = "pre" /\ d.k = 1 /\ own'.backup = disk)
  <2>1. \/ own'.backup = own.backup
        \/ op.op = "snapshot" /\ own'.backup = disk
        \/ op.op = "unbackup"
    BY <1>1, DiskEffect
  <2>2. op.op # "unbackup" /\ (op.op = "snapshot" => d.part = "pre" /\ d.k = 1)
    BY ONLY <1>2, <1>4 DEF HotPre, ColdPre, M4Ops
  <2> QED  BY <2>1, <2>2
<1>6. d.k \in Nat \ {0} /\ out.how = "running"
  BY <1>1 DEF Working
<1>7. CASE d' = Position("fin", d.i, 1) /\ own.backup # None /\ out'.how = "running"
  <2>1. d'.part = "fin" /\ d'.k = 1 /\ DocAt' \in {2, 3}
    BY <1>7 DEF Position, DocAt
  <2>2. own'.backup = Canon
    BY <1>5, <1>6, <1>7 DEF Pushed
  <2> QED  BY <1>4, <1>7, <2>1, <2>2 DEF Pushed, Ending
<1>8. CASE d' = d /\ out'.how = "raised"
  <2>1. d'.part # "fin" /\ d'.part = d.part /\ d'.k = d.k
    BY <1>4, <1>8
  <2>2. IF d.part = "pre" /\ d.k = 1 THEN own'.backup \in {None, Canon} ELSE own'.backup = Canon
    BY <1>5, <1>6 DEF Pushed
  <2> QED  BY <1>4, <1>8, <2>1, <2>2 DEF Pushed, Ending
<1> QED  BY <1>1, <1>3, <1>4, <1>7, <1>8

LEMMA PushedStep ==
  ASSUME Typed, Aware, d.name \in M4, Pushed, [Next]_allVars, out'.noted = {}
  PROVE  Pushed'
<1>1. CASE Turn
  <2>1. /\ UNCHANGED disk /\ own'.backup = own.backup /\ d.k > Len(Ops) /\ d'.name = d.name
        /\ out.how = "running"
        /\ \/ d.part = "fin" /\ d' = d
           \/ d.part # "fin" /\ out' = out /\ d'.k = 1 /\ d'.part # "pre"
    BY <1>1, LabTurns DEF LabDrivers, M4, vars, rat
  <2>2. ASSUME d.part = "pre"
        PROVE  d.k # 1
    <3>1. Len(Ops) = 4 \/ Len(Ops) = 8
      BY <2>2, M4Script DEF Ops, Mine, M4
    <3>2. d.k \in Nat
      BY DEF Typed, DriverTyped
    <3>3. d.k > 4 \/ d.k > 8
      BY <2>1, <3>1
    <3> QED  BY <3>2, <3>3
  <2>3. own.backup = Canon
    <3>1. d.k \in Nat \ {0}
      BY DEF Typed, DriverTyped
    <3> QED  BY <2>2, <3>1 DEF Pushed
  <2>4. CASE d.part = "fin" /\ d' = d
    BY <2>1, <2>3, <2>4 DEF Pushed, Ending, DocAt, Ops, Mine
  <2>5. CASE d.part # "fin" /\ out' = out /\ d'.k = 1 /\ d'.part # "pre"
    <3>1. DocAt' = 2 \/ DocAt' = 3
      BY DEF DocAt
    <3>2. ~(d'.k >= DocAt') /\ ~(d'.k >= DocAt' + 1)
      <4>1. d'.k = 1
        BY <2>5
      <4> QED  BY ONLY <3>1, <4>1
    <3>3. ~Ending(DocAt)' /\ ~Ending(DocAt + 1)'
      BY <3>2 DEF Ending
    <3>4. out'.how = "running" /\ own'.backup = Canon
      BY <2>1, <2>3, <2>5
    <3> QED  BY <2>5, <3>3, <3>4 DEF Pushed
  <2> QED  BY <2>1, <2>4, <2>5
<1>2. CASE Controller
  <2>1. Step /\ UNCHANGED <<d, own, out>>
    BY <1>2 DEF Controller, drvVars
  <2>2. disk' = disk
    BY <2>1, LoadedStep
  <2> QED  BY <2>1, <2>2 DEF Pushed, Ending, DocAt, Ops, Mine
<1>3. CASE Tick
  <2>1. UNCHANGED <<out, own, disk>>
        /\ d'.name = d.name /\ d'.part = d.part /\ d'.k = d.k
    BY <1>3, LabTicks DEF LabDrivers, M4
  <2> QED  BY <2>1 DEF Pushed, Ending, DocAt, Ops, Mine
<1>4. CASE Packet \/ Kill \/ Over \/ UNCHANGED allVars
  <2>1. UNCHANGED <<d, own, disk>> /\ out'.how \in {out.how, "killed"}
    BY <1>4, LabStill DEF LabDrivers, M4
  <2> QED  BY <2>1 DEF Pushed, Ending, DocAt, Ops, Mine
<1> QED
  BY <1>1, <1>2, <1>3, <1>4, PushedWorks, PushedSlips, LabCases DEF LabDrivers, M4

(* The controller is up and stays up: no signal to stop is under way, and  *)
(* run_m4_200bms without a restart sends none.                             *)
Hot == pc # "down" /\ "stop" \notin pending

LEMMA StopStep ==
  ASSUME Step
  PROVE  /\ \A s \in pending' : s \in pending
         /\ pc' = "down" /\ pc # "down" => "stop" \in pending
<1>1. CASE handle_stop
  BY <1>1 DEF handle_stop
<1>2. CASE handle_reset \/ handle_dump_state
  <2>1. pending' \in {pending \ {"reset"}, pending \ {"dump"}} /\ pc' = pc
    BY <1>2 DEF handle_reset, handle_dump_state, ctl
  <2> QED  BY <2>1
<1>3. CASE run
  <2>1. pending' = pending \ {"start"} /\ pc' \in {pc, "idle"}
    BY <1>3 DEF run, ctl
  <2> QED  BY <2>1
<1>4. CASE ~(handle_stop \/ handle_reset \/ handle_dump_state \/ run)
  <2>1. pending' = pending
    BY <1>4 DEF Step, Receive, Recorded, evaluate_hold, _log_decision, reset_step,
       reset_step_fails, override_row_stays, write_markers, startup_done, Reload
  <2>2. pc' \in {pc, "record", "judge", "decide", "idle", "stuck"}
    BY <1>4 DEF Step, Receive, Recorded, evaluate_hold, _log_decision, reset_step,
       reset_step_fails, override_row_stays, write_markers, startup_done, Reload, ctl
  <2> QED  BY <2>1, <2>2
<1> QED  BY <1>1, <1>2, <1>3, <1>4

LEMMA HotStep ==
  ASSUME Typed, Aware, d.name = "m4", Hot, [Next]_allVars, out'.noted = {}
  PROVE  Hot'
<1>1. CASE Works \/ Fails \/ FindsNothing
  <2>1. Working /\ (Effect \/ Hears) /\ UNCHANGED pc
    BY <1>1, LabGoesOn, LabSlips DEF LabDrivers, OutOfReach, ctl
  <2>2. op.op \notin DOMAIN Signals
    <3>1. \/ op.op \in M4Ops
          \/ d.k \in 1..4 /\ op.op = HotPre[d.k]
          \/ d.k \in 1..4 /\ op.op = HotFin[d.k]
      BY <2>1, M4At
    <3> QED  BY <3>1 DEF M4Ops, HotPre, HotFin, Signals
  <2>3. pending' = pending
    BY <2>1, <2>2, DiskEffect
  <2> QED  BY <2>1, <2>3 DEF Hot
<1>2. CASE Controller
  BY <1>2, StopStep DEF Controller, Hot
<1>3. CASE Turn
  BY <1>3, LabTurns DEF LabDrivers, vars, ctl, Hot
<1>4. CASE Tick
  BY <1>4, LabTicks DEF LabDrivers, Hot
<1>5. CASE Packet \/ Kill \/ Over \/ UNCHANGED allVars
  BY <1>5, LabStill DEF LabDrivers, Hot
<1> QED  BY <1>1, <1>2, <1>3, <1>4, <1>5, LabCases DEF LabDrivers

(* The last part of run_m4_200bms with a restart: the wait after the stop  *)
(* is long enough for the watcher to have seen the manifest that is back,  *)
(* and the controller that answers at the end was started after it.        *)
Rested == d.part = "fin" /\ (d.k = 5 \/ (d.k = 4 /\ d.left < 12))
Cold ==
  /\ Ending(5) \/ Rested => ~touched
  /\ Rested => loaded.at < now /\ ("start" \in pending => pc = "stuck")
  /\ (d.part = "fin" /\ d.k = 6 /\ loaded.at >= own.since) => Hot
  /\ Ending(7) => Hot

(* What the controller does while the manifest stays as it is. *)
LEMMA QuietRat ==
  ASSUME Step, Typed, Aware, ~touched
  PROVE  /\ ~touched' /\ now' = now
         /\ pc = "stuck" => pc' = "stuck"
         /\ \/ loaded' = loaded
            \/ /\ pc = "down" /\ "start" \in pending /\ pc' = "idle"
               /\ pending' = pending \ {"start"}
<1>1. now' = now
  BY DEF Step, Receive, Recorded, evaluate_hold, _log_decision, handle_reset, reset_step,
     reset_step_fails, override_row_stays, write_markers, startup_done, handle_dump_state,
     handle_stop, run, Reload
<1>2. ~Reload
  BY DEF Reload
<1>3. CASE run
  BY <1>1, <1>3 DEF run, ctl
<1>4. CASE ~run
  <2>1. UNCHANGED <<touched, loaded>>
    BY <1>2, <1>4 DEF Step, Receive, Recorded, evaluate_hold, _log_decision, handle_reset,
       reset_step, reset_step_fails, override_row_stays, write_markers, startup_done,
       handle_dump_state, handle_stop, rat
  <2>2. pc = "stuck" => pc' = "stuck"
    BY <1>2, <1>4 DEF Step, Receive, Recorded, evaluate_hold, _log_decision, handle_reset,
       reset_step, reset_step_fails, override_row_stays, write_markers, startup_done,
       handle_dump_state, handle_stop, Main, Running, Resetting, ResetDone, ctl
  <2> QED  BY <1>1, <2>1, <2>2
<1> QED  BY <1>3, <1>4

LEMMA ColdWorks ==
  ASSUME Typed, Aware, d.name = "m4_restart", Cold, Works
  PROVE  Cold'
<1>1. /\ Working /\ Effect /\ ~Refused /\ UNCHANGED <<pc, loaded, now>>
      /\ d' = Position(d.part, d.i, d.k + 1)
      /\ d'.part = d.part /\ d'.k = d.k + 1 /\ (op.op = "sleep" => d.left = 0)
  BY LabGoesOn DEF LabDrivers, OutOfReach, ctl
<1>2. CASE d.part # "fin"
  BY <1>1, <1>2 DEF Cold, Rested, Ending
<1>3. CASE d.part = "fin"
  <2>1. d.k \in 1..6 /\ op.op = ColdFin[d.k]
    BY <1>1, <1>3, M4At
  <2>2. /\ UNCHANGED touched \/ op.op \in DiskOps
        /\ pending' = pending \/ op.op \in DOMAIN Signals
    BY <1>1, DiskEffect
  <2>3. CASE d.k \in {1, 2}
    BY <1>1, <2>3 DEF Cold, Rested, Ending
  <2>4. CASE d.k = 3
    <3>1. m4_restart.fin[4].op = "sleep" /\ m4_restart.fin[4].arg = 12 /\ Len(m4_restart.fin) = 6
      BY M4Script DEF ColdFin
    <3>2. Mine[d.part] = m4_restart.fin
      BY <1>3, M4Script DEF Mine
    <3>3. d' = Position(d.part, d.i, 4)
      BY <1>1, <2>4
    <3>4. d'.left = 12
      BY <3>1, <3>2, <3>3 DEF Position, Delay, Waiting
    <3> QED  BY <1>1, <2>4, <3>4 DEF Cold, Rested, Ending
  <2>5. CASE d.k = 4
    <3>1. op.op = "sleep"
      BY <2>1, <2>5 DEF ColdFin
    <3>2. UNCHANGED <<touched, pending>> /\ Rested
      BY <1>1, <1>3, <2>2, <2>5, <3>1 DEF Rested, DiskOps, Signals
    <3> QED  BY <1>1, <2>5, <3>2 DEF Cold, Rested, Ending
  <2>6. CASE d.k = 5
    <3>1. op.op = "start"
      BY <2>1, <2>6 DEF ColdFin
    <3>2. UNCHANGED touched /\ Rested
      BY <1>3, <2>2, <2>6, <3>1 DEF Rested, DiskOps
    <3>3. own'.since = now
      <4>1. Signal
        BY <1>1, <3>1 DEF Effect, TakeHands, Hands, preflight_check, WriteDisk, Rows, WriteFiles,
           Launch, send_packet
      <4>2. own' = [own EXCEPT !.since = now]
        BY <3>1, <4>1 DEF Signal
      <4>3. DOMAIN own = Fields
        BY DEF Typed, HandsTyped
      <4> QED  BY <4>2, <4>3 DEF Fields, OwnInit
    <3>4. loaded.at < now /\ loaded.at \in Int /\ now \in Int /\ ~touched
      BY <3>2 DEF Cold, Aware, Typed, LoopTyped
    <3> QED  BY <1>1, <2>6, <3>2, <3>3, <3>4 DEF Cold, Rested, Ending
  <2>7. CASE d.k = 6
    <3>1. op.op = "await_up"
      BY <2>1, <2>7 DEF ColdFin
    <3>2. loaded.at >= own.since
      BY <1>1, <3>1 DEF Refused, Satisfied, At
    <3>3. UNCHANGED <<touched, pending>>
      BY <2>2, <3>1 DEF DiskOps, Signals
    <3>4. Hot /\ ~touched
      BY <1>3, <2>7, <3>2 DEF Cold, Ending
    <3> QED  BY <1>1, <2>7, <3>3, <3>4 DEF Cold, Rested, Ending, Hot
  <2> QED  BY <2>1, <2>3, <2>4, <2>5, <2>6, <2>7
<1> QED  BY <1>2, <1>3

LEMMA ColdStep ==
  ASSUME Typed, Aware, Pushed, d.name = "m4_restart", Cold, [Next]_allVars, out'.noted = {}
  PROVE  Cold'
<1>0. d.k \in Nat /\ d.left \in Nat /\ loaded.at \in Int /\ now \in Nat /\ loaded.at <= now
  BY DEF Typed, DriverTyped, LoopTyped, Aware
<1>1. CASE Fails \/ FindsNothing
  <2>1. d.part # "fin"
    BY <1>1, PushedSlips DEF M4
  <2>2. d'.part # "fin" \/ d'.k = 1
    <3>1. \/ d' = Position("fin", d.i, 1) \/ d' = d \/ d' = Position(d.part, d.i, d.k + 1)
      BY <1>1, LabSlips DEF LabDrivers
    <3> QED  BY <2>1, <3>1 DEF Position
  <2> QED  BY <2>2 DEF Cold, Rested, Ending
<1>2. CASE Turn
  <2>1. /\ UNCHANGED <<touched, loaded, now, pending, pc>> /\ own'.since = own.since
        /\ (d' = d \/ d'.k = 1)
    BY <1>2, LabTurns DEF LabDrivers, vars, rat, ctl
  <2> QED  BY <2>1 DEF Cold, Rested, Ending, Hot
<1>3. CASE Controller
  <2>1. Step /\ UNCHANGED <<d, own>>
    BY <1>3 DEF Controller, drvVars
  <2>2. Hot => Hot'
    BY <2>1, StopStep DEF Hot
  <2>3. \A s \in pending' : s \in pending
    BY <2>1, StopStep
  <2>4. CASE ~touched
    <3>1. /\ ~touched' /\ now' = now /\ (pc = "stuck" => pc' = "stuck")
          /\ \/ loaded' = loaded
             \/ /\ pc = "down" /\ "start" \in pending /\ pc' = "idle"
                /\ pending' = pending \ {"start"}
      BY <2>1, <2>4, QuietRat
    <3>2. CASE loaded' = loaded
      BY <2>1, <2>2, <2>3, <3>1, <3>2 DEF Cold, Rested, Ending
    <3>3. CASE pc = "down" /\ "start" \in pending /\ pc' = "idle" /\ pending' = pending \ {"start"}
      <4>1. ~Rested
        BY <3>3 DEF Cold
      <4>2. pending' = {}
        BY <3>3 DEF Aware
      <4> QED  BY <2>1, <3>1, <3>3, <4>1, <4>2 DEF Cold, Rested, Ending, Hot
    <3> QED  BY <3>1, <3>2, <3>3
  <2>5. CASE touched
    <3>1. ~Ending(5) /\ ~Rested
      BY <2>5 DEF Cold
    <3> QED  BY <1>0, <2>1, <3>1 DEF Cold, Rested, Ending
  <2> QED  BY <2>4, <2>5
<1>4. CASE Tick
  <2>1. /\ UNCHANGED <<own, touched, loaded, pc, pending>> /\ Settled /\ now' \in Nat /\ now < now'
        /\ d'.part = d.part /\ d'.k = d.k
    BY <1>4, LabTicks DEF LabDrivers
  <2>2. ~touched /\ ("start" \in pending => pc = "stuck")
    BY <2>1 DEF Settled
  <2>3. loaded.at < now'
    BY <1>0, <2>1
  <2> QED  BY <2>1, <2>2, <2>3 DEF Cold, Rested, Ending, Hot
<1>5. CASE Packet \/ Kill \/ Over \/ UNCHANGED allVars
  <2>1. UNCHANGED <<d, own, touched, loaded, pc, pending, now>>
    BY <1>5, LabStill DEF LabDrivers
  <2> QED  BY <2>1 DEF Cold, Rested, Ending, Hot
<1> QED  BY <1>1, <1>2, <1>3, <1>4, <1>5, ColdWorks, LabCases DEF LabDrivers

-----------------------------------------------------------------------------
(* Each driver of the lab, as long as its output shows no failure.         *)
Lab ==
  out.noted = {} =>
    /\ d.name = "preflight_e12b" => Probed
    /\ d.name = "e12b" => Flipped
    /\ d.name = "t1_7" /\ "start" \notin out.lost => Down
    /\ d.name \in M4 => Pushed
    /\ d.name = "m4" => Hot
    /\ d.name = "m4_restart" => Cold

(* A failure that was shown, or lost, stays so. *)
LEMMA NotedGrows ==
  ASSUME Typed, d.name \in LabDrivers, [Next]_allVars, out'.noted = {}
  PROVE  out.noted = {} /\ ("start" \notin out'.lost => "start" \notin out.lost)
<1>1. CASE Works
  <2>1. out' = out
    BY <1>1, LabGoesOn
  <2> QED  BY <2>1
<1>2. CASE Fails \/ FindsNothing
  <2>1. out.noted = {} /\ (out'.lost = out.lost \/ out'.lost = out.lost \cup {op.op})
    BY <1>2, LabSlips
  <2> QED  BY <2>1
<1>3. CASE Turn
  BY <1>3, LabTurns
<1>4. CASE Controller \/ Tick
  BY <1>4, LabTicks DEF Controller, drvVars
<1>5. CASE Packet \/ Kill \/ Over \/ UNCHANGED allVars
  BY <1>5, LabStill
<1> QED  BY <1>1, <1>2, <1>3, <1>4, <1>5, LabCases

LEMMA LabInit == Init => Closing /\ Lab
<1> SUFFICES ASSUME Init
             PROVE  Closing /\ Lab
  OBVIOUS
<1>1. d.part = "pre" /\ d.k = 1 /\ out.how = "running" /\ out.raised = FALSE
  BY DEF Init
<1>2. own.backup = None /\ jobs = {}
  BY DEF Init, OwnInit
<1>3. /\ disk = Canon /\ pc = "idle" /\ handler = "none" /\ pending = {} /\ queue = << >>
      /\ loaded.doc = "canonical"
  BY DEF Init, LoopInit, Canon
<1>4. Closing
  BY <1>1 DEF Closing
<1>5. \A K : ~InTrial(K)
  BY <1>1 DEF InTrial
<1>6. Probed /\ Flipped /\ Down
  BY <1>1, <1>3, <1>2, <1>5 DEF Probed, Flipped, Down, Canon
<1>7. Pushed /\ Hot /\ Cold
  BY <1>1, <1>2, <1>3 DEF Pushed, Hot, Cold, Rested, Ending
<1> QED  BY <1>4, <1>6, <1>7 DEF Lab

LEMMA LabStep ==
  ASSUME Typed, Aware, Closing, Lab, [Next]_allVars
  PROVE  Lab'
<1>1. d'.name = d.name
  BY NameKept
<1>2. CASE d.name \notin LabDrivers
  BY <1>1, <1>2 DEF Lab, LabDrivers, M4
<1>3. CASE d.name \in LabDrivers /\ out'.noted = {}
  <2>1. out.noted = {} /\ ("start" \notin out'.lost => "start" \notin out.lost)
    BY <1>3, NotedGrows
  <2>2. d.name = "preflight_e12b" => Probed'
    BY <1>3, <2>1, ProbedStep DEF Lab
  <2>3. d.name = "e12b" => Flipped'
    BY <1>3, <2>1, FlippedStep DEF Lab
  <2>4. d.name = "t1_7" /\ "start" \notin out'.lost => Down'
    BY <1>3, <2>1, DownStep DEF Lab
  <2>5. d.name \in M4 => Pushed'
    BY <1>3, <2>1, PushedStep DEF Lab
  <2>6. d.name = "m4" => Hot'
    BY <1>3, <2>1, HotStep DEF Lab
  <2>7. d.name = "m4_restart" => Cold'
    BY <1>3, <2>1, ColdStep DEF Lab, M4
  <2> QED  BY <1>1, <2>2, <2>3, <2>4, <2>5, <2>6, <2>7 DEF Lab, M4
<1>4. CASE out'.noted # {}
  BY <1>4 DEF Lab
<1> QED  BY <1>2, <1>3, <1>4

(* A driver leaves the lab as it found it: once it has ended with no       *)
(* failure in its output and no start of the controller lost, and the      *)
(* controller has settled, the canonical manifest is on the switch with a  *)
(* signature that verifies (run_m4_200bms also after an exception in its   *)
(* trials, run_e12b, the preflight of E12b) and loaded, and a controller   *)
(* that was stopped is up again without a row of the capacity test         *)
(* (run_t1_7), for every burst, every number of faults and every time a    *)
(* reset takes.                                                            *)
THEOREM LabLeftAsFound == Spec => []LabRestored
<1>1. Typed /\ Aware /\ Closing /\ Lab => LabRestored
  <2> SUFFICES ASSUME Typed, Aware, Closing, Lab, out.how \in {"ended", "raised"},
                      out.noted = {}, "start" \notin out.lost, Settled
               PROVE  /\ (d.name \in {"m4", "m4_restart"} /\ (out.how = "ended" \/ out.raised)) =>
                           Canonical /\ Up /\ loaded.doc = "canonical"
                      /\ d.name = "preflight_e12b" => Canonical /\ loaded.doc = "canonical"
                      /\ (d.name = "e12b" /\ out.how = "ended") => Canonical
                      /\ (d.name = "t1_7" /\ out.how = "ended") => Up /\ "OVERRIDE" \notin dirty
    BY DEF LabRestored
  <2>0. ~touched /\ Canon.doc = "canonical" /\ Canon.good = TRUE /\ d.k \in Nat
    BY DEF Settled, Canon, Typed, DriverTyped
  <2>1. ASSUME d.name \in M4, out.how = "ended" \/ out.raised
        PROVE  Canonical /\ Up /\ loaded.doc = "canonical"
    <3>1. Pushed /\ (d.name = "m4" => Hot) /\ (d.name = "m4_restart" => Cold)
      BY <2>1 DEF Lab
    <3>2. d.part = "fin" /\ d.k > Len(Ops)
      BY <2>1, <3>1 DEF Closing, Pushed, M4
    <3>3. Mine = Script[d.name] /\ Ops = Mine.fin
      BY <3>2 DEF Mine, Ops
    <3>4. Ending(DocAt + 1) /\ Hot
      <4>1. CASE d.name = "m4"
        <5>1. Len(Ops) = 4
          BY <3>3, <4>1, M4Script
        <5> QED  BY <2>0, <3>1, <3>2, <4>1, <5>1 DEF Ending, DocAt
      <4>2. CASE d.name = "m4_restart"
        <5>1. Len(Ops) = 6
          BY <3>3, <4>2, M4Script
        <5> QED  BY <2>0, <3>1, <3>2, <4>2, <5>1 DEF Ending, DocAt, Cold
      <4> QED  BY <2>1, <4>1, <4>2 DEF M4
    <3>5. disk = Canon /\ Up
      BY <3>1, <3>4 DEF Pushed, Hot, Up
    <3> QED  BY <2>0, <3>5 DEF Canonical, Aware
  <2>2. ASSUME d.name = "preflight_e12b"
        PROVE  Canonical /\ loaded.doc = "canonical"
    <3>1. Probed /\ ~InTrial({3, 4})
      BY <2>2 DEF Lab, Probed, Closing, InTrial
    <3> QED  BY <2>0, <3>1 DEF Probed, Canonical
  <2>3. ASSUME d.name = "e12b", out.how = "ended"
        PROVE  Canonical
    <3>1. Flipped /\ ~InTrial({10, 11})
      BY <2>3 DEF Lab, Closing, InTrial
    <3>2. disk = [doc |-> "canonical", good |-> TRUE]
      BY <3>1 DEF Flipped
    <3> QED  BY <3>2 DEF Canonical
  <2>4. ASSUME d.name = "t1_7", out.how = "ended"
        PROVE  Up /\ "OVERRIDE" \notin dirty
    BY <2>4 DEF Lab, Down, Clear, Closing, Up
  <2> QED  BY <2>1, <2>2, <2>3, <2>4 DEF M4
<1>2. Typed /\ Aware /\ Closing /\ Lab /\ [Next]_allVars => (Typed /\ Aware /\ Closing /\ Lab)'
  BY TypedStep, AwareStep, ClosingStep, LabStep
<1>3. Init => Typed /\ Aware /\ Closing /\ Lab
  BY TypedInit, AwareInit, LabInit
<1> QED  BY <1>1, <1>2, <1>3, PTL DEF Spec
===============================================================================
