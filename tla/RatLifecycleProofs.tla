-------------------------- MODULE RatLifecycleProofs --------------------------
(***************************************************************************)
(* What the entries in force rest on, for every set of documents, every    *)
(* number of edits between any two steps of a load, and every restart.     *)
(***************************************************************************)
EXTENDS RatLifecycle, FiniteSetTheorems, TLAPS

(* The records the steps update. *)
Shape ==
  /\ files \in [rat : Docs, sig : Docs, pub : BOOLEAN]
  /\ writer \in [file : {"none", "rat", "sig"}, doc : Whole \cup {Missing}]
  /\ load \in [pc : {"none", "exists", "read", "sig", "verify", "parse", "parse signed"},
               by : {"main", "watch"}, bytes : Docs]
  /\ life \in Nat

(* Vetted is not inductive: the buffer of a load that has passed Verify    *)
(* must be one that was signed, and the signature on disk that of a signed *)
(* document, unless it is missing or half written.                         *)
Provenance ==
  /\ Shape
  /\ writer.file = "sig" => writer.doc \in Whole
  /\ files.sig \in signatures \cup {Missing, Torn}
  /\ load.pc \in {"sig", "verify"} => load.bytes # Missing
  /\ load.pc = "parse" => ~mode.signed
  /\ load.pc = "parse signed" => load.bytes \in signatures
  /\ Vetted

USE RatAssumption DEF Docs, Whole

(* A step that leaves the entries alone, and forgets no signature.         *)
LEMMA VettedKept ==
  ASSUME Vetted, signatures \subseteq signatures', UNCHANGED <<mode, cache, signed>>
  PROVE  Vetted'
  BY DEF Vetted

(* A step of the operator leaves the load alone. *)
LEMMA LoadKept ==
  ASSUME Provenance, signatures \subseteq signatures', UNCHANGED <<mode, load>>
  PROVE  /\ (load.pc \in {"sig", "verify"} => load.bytes # Missing)'
         /\ (load.pc = "parse" => ~mode.signed)'
         /\ (load.pc = "parse signed" => load.bytes \in signatures)'
  BY DEF Provenance

LEMMA OperatorKeeps ==
  ASSUME Provenance,
         \/ \E file \in {"rat", "sig"}, doc \in Whole : BeginWrite(file, doc)
         \/ EndWrite
         \/ \E file \in {"rat", "sig", "pub"} : Remove(file)
  PROVE  Provenance'
<1>1. ASSUME NEW file \in {"rat", "sig"}, NEW doc \in Whole, BeginWrite(file, doc)
      PROVE  Provenance'
  <2>1. files' \in [rat : Docs, sig : Docs, pub : BOOLEAN]
        /\ files'.sig \in {files.sig, Torn}
    BY <1>1 DEF BeginWrite, Provenance, Shape
  <2>2. writer' = [file |-> file, doc |-> doc]
    BY <1>1 DEF BeginWrite
  <2>3. UNCHANGED <<mode, signatures, load, cache, signed, life>>
    BY <1>1 DEF BeginWrite
  <2>4. signatures \subseteq signatures' /\ Vetted /\ Shape /\ doc \in Whole
    BY <2>3 DEF Provenance
  <2>5. Shape'
    BY <2>1, <2>2, <2>3, <2>4 DEF Shape
  <2>6. files'.sig \in signatures' \cup {Missing, Torn} /\ writer'.doc \in Whole
    BY <2>1, <2>2, <2>3, <2>4 DEF Provenance
  <2> QED BY <2>3, <2>4, <2>5, <2>6, VettedKept, LoadKept DEF Provenance
<1>2. CASE EndWrite
  <2>1. /\ writer.file \in {"rat", "sig"} /\ writer.doc \in Docs
        /\ writer' = [file |-> "none", doc |-> Missing]
        /\ signatures \subseteq signatures'
        /\ UNCHANGED <<mode, load, cache, signed, life>>
    BY <1>2 DEF EndWrite, Provenance, Shape
  <2>2. files' \in [rat : Docs, sig : Docs, pub : BOOLEAN]
    BY <1>2, <2>1 DEF EndWrite, Provenance, Shape
  <2>3. files'.sig \in signatures' \cup {Missing, Torn}
    <3>1. CASE writer.file = "sig"
      BY <1>2, <3>1 DEF EndWrite, Provenance, Shape
    <3>2. CASE writer.file = "rat"
      BY <1>2, <3>2 DEF EndWrite, Provenance, Shape
    <3> QED BY <2>1, <3>1, <3>2
  <2>4. Vetted /\ Shape
    BY DEF Provenance
  <2>5. Shape'
    BY <2>1, <2>2, <2>4 DEF Shape
  <2> QED BY <2>1, <2>3, <2>4, <2>5, VettedKept, LoadKept DEF Provenance
<1>3. ASSUME NEW file \in {"rat", "sig", "pub"}, Remove(file) PROVE Provenance'
  <2>1. files' \in [rat : Docs, sig : Docs, pub : BOOLEAN]
        /\ files'.sig \in {files.sig, Missing}
    BY <1>3 DEF Remove, Provenance, Shape
  <2>2. UNCHANGED <<mode, writer, signatures, load, cache, signed, life>>
    BY <1>3 DEF Remove
  <2>3. Vetted /\ Shape /\ signatures \subseteq signatures'
    BY <2>2 DEF Provenance
  <2>4. Shape'
    BY <2>1, <2>2, <2>3 DEF Shape
  <2>5. files'.sig \in signatures' \cup {Missing, Torn}
    BY <2>1, <2>2 DEF Provenance
  <2>6. writer'.file = "sig" => writer'.doc \in Whole
    BY <2>2 DEF Provenance
  <2> QED BY <2>2, <2>3, <2>4, <2>5, <2>6, VettedKept, LoadKept DEF Provenance
<1> QED BY <1>1, <1>2, <1>3

LEMMA LoadKeeps ==
  ASSUME Provenance, LoadStep
  PROVE  Provenance'
<1>0. UNCHANGED <<mode, files, writer, signatures, life>>
  BY DEF LoadStep, Exists, Read, CheckSig, Verify, Parse, Loading, disk
<1>a. ASSUME load' = NoLoad, Vetted' PROVE Provenance'
  <2>1. load'.pc = "none"
    BY <1>a DEF NoLoad
  <2>2. load' \in [pc : {"none"}, by : {"main"}, bytes : {Missing}]
    BY <1>a DEF NoLoad
  <2>3. Shape'
    BY <1>0, <2>2 DEF Provenance, Shape
  <2> QED BY <1>0, <1>a, <2>1, <2>3 DEF Provenance
<1>1. CASE Reject
  <2>1. load' = NoLoad /\ UNCHANGED <<cache, signed>>
    BY <1>1 DEF Reject
  <2>2. Vetted'
    BY <1>0, <2>1, VettedKept DEF Provenance
  <2> QED BY <1>a, <2>1, <2>2
<1>2. ASSUME NEW pc \in {"read", "verify", "parse", "parse signed"}, GoOn(pc),
             pc = "verify" => load.pc = "sig",
             pc = "parse" => ~mode.signed, pc = "parse signed" => load.bytes \in signatures
      PROVE  Provenance'
  <2>1. load' = [load EXCEPT !.pc = pc] /\ UNCHANGED <<cache, signed>>
    BY <1>2 DEF GoOn
  <2>2. load'.pc = pc /\ load'.bytes = load.bytes
        /\ load' \in [pc : {"none", "exists", "read", "sig", "verify", "parse", "parse signed"},
                      by : {"main", "watch"}, bytes : Docs]
    BY <2>1 DEF Provenance, Shape
  <2>3. Vetted'
    BY <1>0, <2>1, VettedKept DEF Provenance
  <2>4. Shape'
    BY <1>0, <2>2 DEF Provenance, Shape
  <2> QED BY <1>0, <1>2, <2>2, <2>3, <2>4 DEF Provenance
<1>3. CASE Exists
  BY <1>1, <1>2, <1>3 DEF Exists
<1>4. CASE Read
  <2>1. CASE files.rat = Missing
    BY <1>1, <1>4, <2>1 DEF Read
  <2>2. CASE files.rat # Missing
    <3>1. load' = [load EXCEPT !.pc = "sig", !.bytes = files.rat] /\ UNCHANGED <<cache, signed>>
      BY <1>4, <2>2 DEF Read
    <3>2. load'.pc = "sig" /\ load'.bytes = files.rat
          /\ load' \in [pc : {"none", "exists", "read", "sig", "verify", "parse", "parse signed"},
                        by : {"main", "watch"}, bytes : Docs]
      BY <3>1 DEF Provenance, Shape
    <3>3. Vetted'
      BY <1>0, <3>1, VettedKept DEF Provenance
    <3>4. Shape'
      BY <1>0, <3>2 DEF Provenance, Shape
    <3> QED BY <1>0, <2>2, <3>2, <3>3, <3>4 DEF Provenance
  <2> QED BY <2>1, <2>2
<1>5. CASE CheckSig
  BY <1>1, <1>2, <1>5 DEF CheckSig, Loading
<1>6. CASE Verify
  <2>1. load.pc = "verify" /\ load.bytes # Missing
    BY <1>6 DEF Verify, Loading, Provenance
  <2>2. CASE files.pub /\ files.sig = load.bytes /\ load.bytes # Torn
    <3>1. load.bytes \in signatures
      BY <2>1, <2>2 DEF Provenance
    <3> QED BY <1>2, <1>6, <2>2, <3>1 DEF Verify
  <2>3. CASE ~(files.pub /\ files.sig = load.bytes /\ load.bytes # Torn)
    BY <1>1, <1>6, <2>3 DEF Verify
  <2> QED BY <2>2, <2>3
<1>7. CASE Parse
  <2>1. load.pc \in {"parse", "parse signed"} /\ Swap(load.bytes)
    BY <1>7 DEF Parse, Loading
  <2>2. CASE load.bytes \in Good
    <3>1. /\ cache' = load.bytes /\ signed' = (load.pc = "parse signed")
          /\ load' = NoLoad
      BY <2>1, <2>2 DEF Swap
    <3>2. Vetted'
      BY <1>0, <2>1, <3>1 DEF Provenance, Vetted
    <3> QED BY <1>a, <3>1, <3>2
  <2>3. CASE load.bytes \notin Good /\ ~(load.bytes = Odd /\ load.by = "watch")
    BY <1>1, <2>1, <2>3 DEF Swap
  <2>4. CASE load.bytes \notin Good /\ load.bytes = Odd /\ load.by = "watch"
    <3>1. load' = NoLoad /\ UNCHANGED <<cache, signed>>
      BY <2>1, <2>4 DEF Swap
    <3>2. Vetted'
      BY <1>0, <3>1, VettedKept DEF Provenance
    <3> QED BY <1>a, <3>1, <3>2
  <2> QED BY <2>2, <2>3, <2>4
<1> QED BY <1>3, <1>4, <1>5, <1>6, <1>7 DEF LoadStep

LEMMA ThreadsKeep ==
  ASSUME Provenance, MainStep \/ WatchStep \/ Stop \/ Restart \/ UNCHANGED vars
  PROVE  Provenance'
<1>0. Shape /\ Vetted
  BY DEF Provenance
<1>1. /\ UNCHANGED <<mode, files, writer, signatures>>
      /\ life' \in {life, life + 1}
      /\ cache' # Empty => UNCHANGED <<cache, signed>>
  <2>1. CASE MainStep
    BY <2>1 DEF MainStep, LoadInitial, ListTables, InstallSources, InstallBms, StartWatcher, disk
  <2>2. CASE WatchStep
    BY <2>2 DEF WatchStep, Arm, Notify, Debounce, disk
  <2>3. CASE Stop \/ Restart \/ UNCHANGED vars
    BY <2>3 DEF Stop, Restart, vars, disk
  <2> QED BY <2>1, <2>2, <2>3
<1>2. \/ UNCHANGED load
      \/ load' \in {NoLoad, [NoLoad EXCEPT !.pc = "exists"],
                    [pc |-> "exists", by |-> "watch", bytes |-> Missing]}
    BY DEF MainStep, WatchStep, LoadInitial, ListTables, InstallSources, InstallBms,
           StartWatcher, Arm, Notify, Debounce, Stop, Restart, vars
<1>3. Vetted'
  BY <1>0, <1>1 DEF Vetted
<1>4. /\ load' \in [pc : {"none", "exists", "read", "sig", "verify", "parse", "parse signed"},
                     by : {"main", "watch"}, bytes : Docs]
      /\ load'.pc \in {"none", "exists"} \/ UNCHANGED load
  <2>1. CASE UNCHANGED load
    BY <1>0, <2>1 DEF Shape
  <2>2. CASE ~UNCHANGED load
    <3>1. \E pc \in {"none", "exists"}, by \in {"main", "watch"} :
            load' = [pc |-> pc, by |-> by, bytes |-> Missing]
      BY <1>2, <2>2 DEF NoLoad
    <3>2. Missing \in Docs
      BY DEF Docs
    <3>3. PICK pc \in {"none", "exists"}, by \in {"main", "watch"} :
            load' = [pc |-> pc, by |-> by, bytes |-> Missing]
      BY <3>1
    <3>4. load'.pc = pc
      BY <3>3
    <3> HIDE RatAssumption DEF Docs, Whole
    <3> QED BY <3>2, <3>3, <3>4
  <2> QED BY <2>1, <2>2
<1>5. Shape'
  <2>1. life' \in Nat
    <3>1. life' \in {life, life + 1}
      BY <1>1
    <3>2. life \in Nat
      BY <1>0 DEF Shape
    <3> HIDE RatAssumption DEF Docs, Whole
    <3> QED BY <3>1, <3>2
  <2> QED BY <1>0, <1>1, <1>4, <2>1 DEF Shape
<1> QED BY <1>1, <1>3, <1>4, <1>5 DEF Provenance

LEMMA ProvenanceHolds == Spec => []Provenance
<1>1. Init => Provenance
  <2> SUFFICES ASSUME Init PROVE Provenance
    OBVIOUS
  <2>1. Shape /\ files.sig \in signatures \cup {Missing, Torn}
    <3>1. /\ files \in [rat : Docs, sig : Docs, pub : BOOLEAN]
          /\ signatures = {files.sig} \ {Missing}
      <4>1. Good \cup {Missing} \subseteq Docs
        BY DEF Docs, Whole
      <4>2. \/ files \in [rat : Good \cup {Missing}, sig : {Missing}, pub : {TRUE}]
            \/ \E d \in Good : files = [rat |-> d, sig |-> d, pub |-> TRUE]
        BY DEF Init
      <4>3. files \in [rat : Docs, sig : Docs, pub : BOOLEAN]
        <5> HIDE RatAssumption DEF Docs, Whole
        <5>1. CASE files \in [rat : Good \cup {Missing}, sig : {Missing}, pub : {TRUE}]
          BY <4>1, <5>1
        <5>2. ASSUME NEW d \in Good, files = [rat |-> d, sig |-> d, pub |-> TRUE]
              PROVE  files \in [rat : Docs, sig : Docs, pub : BOOLEAN]
          <6>1. d \in Docs
            BY <4>1, <5>2
          <6> QED BY <5>2, <6>1
        <5> QED BY <4>2, <5>1, <5>2
      <4> QED BY <4>3 DEF Init
    <3>2. load \in [pc : {"none"}, by : {"main"}, bytes : {Missing}]
      BY DEF Init, NoLoad
    <3>3. writer \in [file : {"none"}, doc : {Missing}] /\ life \in Nat
      BY DEF Init
    <3> QED BY <3>1, <3>2, <3>3 DEF Shape
  <2> QED BY <2>1 DEF Init, Provenance, Vetted, NoLoad
<1>2. Provenance /\ [Next]_vars => Provenance'
  BY OperatorKeeps, LoadKeeps, ThreadsKeep DEF Next
<1> QED BY <1>1, <1>2, PTL DEF Spec

(* Where the controller requires a signature or reports one, its entries   *)
(* are those of a document signed as a whole, whatever the operator did to *)
(* the files between the read, the check and the swap.                     *)
THEOREM ManifestVetted == Spec => []Vetted
<1>1. Provenance => Vetted
  BY DEF Provenance
<1> QED BY <1>1, ProvenanceHolds, PTL

(* No rejected reload, and no sequence of them, empties the cache of a     *)
(* controller that has entries.                                            *)
THEOREM LastGoodKept == Spec => KeepsLastGood
<1>1. ASSUME Provenance, [Next]_vars, cache # Empty, cache' = Empty PROVE life' # life
  <2>1. CASE Restart
    <3>1. life \in Nat
      BY <1>1 DEF Provenance, Shape
    <3>2. life' = life + 1
      BY <2>1 DEF Restart
    <3> QED BY <3>1, <3>2
  <2>2. CASE LoadStep
    <3>1. cache' = cache \/ cache' \in Good
      BY <2>2 DEF LoadStep, Exists, Read, CheckSig, Verify, Parse, Swap, Reject, GoOn
    <3> QED BY <1>1, <3>1
  <2>3. CASE ~Restart /\ ~LoadStep
    <3>1. UNCHANGED cache
      BY <1>1, <2>3 DEF Next, vars, BeginWrite, EndWrite, Remove, MainStep, WatchStep,
         LoadInitial, ListTables, InstallSources, InstallBms, StartWatcher, Arm, Notify,
         Debounce, Stop
    <3> QED BY <1>1, <3>1
  <2> QED BY <2>1, <2>2, <2>3
<1>2. Provenance /\ [Next]_vars => [cache # Empty /\ cache' = Empty => life' # life]_vars
  BY <1>1
<1> QED BY <1>2, ProvenanceHolds, PTL DEF Spec, KeepsLastGood

-----------------------------------------------------------------------------
(* The types, and the two threads: a load belongs to the main thread only  *)
(* while that starts up, and the watcher lives only while it runs.         *)
HIDE RatAssumption DEF Docs, Whole

MainRecord == [pc : {"load", "tables", "sources", "bms", "arm", "running", "failed"},
               todo : Seq(Bms), boot : Good \cup {Empty}]

Threads ==
  /\ main \in MainRecord
  /\ cache \in Good \cup {Empty} /\ signed \in BOOLEAN
  /\ watch \in {"off", "arming", "wait", "debounce", "loading", "dead"}
  /\ main.pc # "running" => watch = "off"
  /\ watch = "loading" => load.pc # "none" /\ load.by = "watch"
  /\ load.pc # "none" => \/ load.by = "watch" /\ watch = "loading"
                         \/ load.by = "main" /\ main.pc = "load"

(* A manifest's fleet is a list of different BMSs, and so is the default.  *)
LEMMA FleetFacts ==
  ASSUME NEW doc \in Good \cup {Empty}
  PROVE  /\ FleetOf(doc) \in Seq(Bms)
         /\ Len(FleetOf(doc)) \in Nat
         /\ Indexed(doc) \in Nat
         /\ Indexed(doc) <= Len(FleetOf(doc)) /\ Indexed(doc) <= BmsIndices
         /\ \A i, j \in 1..Len(FleetOf(doc)) : FleetOf(doc)[i] = FleetOf(doc)[j] => i = j
<1> DEFINE F == FleetOf(doc)
<1>1. F \in {Fleet[e] : e \in Good} \cup {DefaultFleet}
  BY DEF FleetOf
<1> HIDE DEF F
<1>2. F \in Seq(Bms) /\ \A i, j \in 1..Len(F) : F[i] = F[j] => i = j
  BY <1>1, RatAssumption
<1>3. Len(F) \in Nat
  BY <1>2
<1>4. BmsIndices \in Nat
  BY RatAssumption
<1>5. Indexed(doc) = IF Len(F) < BmsIndices THEN Len(F) ELSE BmsIndices
  BY DEF Indexed, F
<1>6. Indexed(doc) \in Nat /\ Indexed(doc) <= Len(F) /\ Indexed(doc) <= BmsIndices
  BY <1>3, <1>4, <1>5
<1> QED BY <1>2, <1>3, <1>6 DEF F

(* The part of a fleet that gets an index is a prefix of it.               *)
LEMMA PrefixOf ==
  ASSUME NEW s \in Seq(Bms), NEW n \in Nat, n <= Len(s)
  PROVE  /\ SubSeq(s, 1, n) \in Seq(Bms)
         /\ Len(SubSeq(s, 1, n)) = n
         /\ \A i \in 1..n : SubSeq(s, 1, n)[i] = s[i]
  OBVIOUS

LEMMA RestOf ==
  ASSUME NEW s \in Seq(Bms), s # << >>
  PROVE  /\ Head(s) = s[1] /\ Head(s) \in Bms
         /\ Tail(s) \in Seq(Bms) /\ Len(Tail(s)) = Len(s) - 1 /\ Len(s) \in Nat \ {0}
         /\ \A i \in 1..(Len(s) - 1) : Tail(s)[i] = s[i + 1]
  OBVIOUS

LEMMA MainFields ==
  ASSUME main \in MainRecord
  PROVE  /\ main.pc \in {"load", "tables", "sources", "bms", "arm", "running", "failed"}
         /\ main.todo \in Seq(Bms) /\ main.boot \in Good \cup {Empty}
         /\ \A pc \in {"load", "tables", "sources", "bms", "arm", "running", "failed"} :
              /\ [main EXCEPT !.pc = pc] \in MainRecord
              /\ [main EXCEPT !.pc = pc] = [pc |-> pc, todo |-> main.todo, boot |-> main.boot]
         /\ main.todo # << >> =>
              /\ [main EXCEPT !.todo = Tail(main.todo)] \in MainRecord
              /\ [main EXCEPT !.todo = Tail(main.todo)] =
                   [pc |-> main.pc, todo |-> Tail(main.todo), boot |-> main.boot]
<1>1. main.todo # << >> => Tail(main.todo) \in Seq(Bms)
  BY RestOf DEF MainRecord
<1>2. main = [pc |-> main.pc, todo |-> main.todo, boot |-> main.boot]
  BY DEF MainRecord
<1>3. /\ main.pc \in {"load", "tables", "sources", "bms", "arm", "running", "failed"}
      /\ main.todo \in Seq(Bms) /\ main.boot \in Good \cup {Empty}
  BY DEF MainRecord
<1>4. ASSUME NEW pc \in {"load", "tables", "sources", "bms", "arm", "running", "failed"}
      PROVE  /\ [main EXCEPT !.pc = pc] \in MainRecord
             /\ [main EXCEPT !.pc = pc] = [pc |-> pc, todo |-> main.todo, boot |-> main.boot]
  BY <1>2, <1>3 DEF MainRecord
<1>5. ASSUME main.todo # << >>
      PROVE  /\ [main EXCEPT !.todo = Tail(main.todo)] \in MainRecord
             /\ [main EXCEPT !.todo = Tail(main.todo)] =
                  [pc |-> main.pc, todo |-> Tail(main.todo), boot |-> main.boot]
  <2>1. \A t : [main EXCEPT !.todo = t] = [pc |-> main.pc, todo |-> t, boot |-> main.boot]
    BY DEF MainRecord
  <2>2. Tail(main.todo) \in Seq(Bms)
    BY <1>1, <1>5
  <2> QED BY <1>3, <2>1, <2>2 DEF MainRecord
<1> QED BY <1>3, <1>4, <1>5

LEMMA ThreadsInit == Init => Threads
<1> SUFFICES ASSUME Init PROVE Threads
  OBVIOUS
<1>1. main \in MainRecord
  <2>1. << >> \in Seq(Bms)
    OBVIOUS
  <2> QED BY <2>1 DEF Init, MainRecord
<1> QED BY <1>1 DEF Init, NoLoad, Threads

(* The steps of a load: it goes on, or it is over for the thread it is of. *)
LEMMA LoadOutcome ==
  ASSUME Provenance, Threads, LoadStep
  PROVE  /\ load.pc # "none"
         /\ \/ UNCHANGED <<main, watch, cache, signed>> /\ load'.pc # "none" /\ load'.by = load.by
            \/ /\ load' = NoLoad /\ load.by = "main" /\ UNCHANGED watch
               /\ main' = [main EXCEPT !.pc = "failed"] \/ main' = [main EXCEPT !.pc = "tables"]
               /\ \/ UNCHANGED <<cache, signed>>
                  \/ cache' \in Good /\ signed' \in BOOLEAN
            \/ /\ load' = NoLoad /\ load.by = "watch" /\ UNCHANGED main
               /\ watch' \in {"wait", "dead"}
               /\ \/ UNCHANGED <<cache, signed>>
                  \/ cache' \in Good /\ signed' \in BOOLEAN
<1>0. load \in [pc : {"none", "exists", "read", "sig", "verify", "parse", "parse signed"},
               by : {"main", "watch"}, bytes : Docs]
  BY DEF Provenance, Shape
<1>1. load.pc # "none" /\ load.by \in {"main", "watch"}
  BY <1>0 DEF LoadStep, Exists, Read, CheckSig, Verify, Parse, Loading
<1>2. ASSUME NEW pc \in {"read", "verify", "parse", "parse signed"}, GoOn(pc)
      PROVE  UNCHANGED <<main, watch, cache, signed>> /\ load'.pc # "none" /\ load'.by = load.by
  BY <1>0, <1>2 DEF GoOn
<1>3. CASE Exists
  BY <1>1, <1>2, <1>3 DEF Exists, Reject
<1>4. CASE Read
  BY <1>0, <1>1, <1>4 DEF Read, Reject
<1>5. CASE CheckSig
  BY <1>1, <1>2, <1>5 DEF CheckSig, Reject
<1>6. CASE Verify
  BY <1>1, <1>2, <1>6 DEF Verify, Reject
<1>7. CASE Parse
  BY <1>1, <1>7 DEF Parse, Swap, Reject
<1> QED BY <1>1, <1>3, <1>4, <1>5, <1>6, <1>7 DEF LoadStep

LEMMA ThreadsKept ==
  ASSUME Provenance, Threads, [Next]_vars
  PROVE  Threads'
<1> DEFINE Pcs == {"load", "tables", "sources", "bms", "arm", "running", "failed"}
<1>0. main \in MainRecord /\ main.pc \in Pcs
  BY MainFields DEF Threads
<1>a. \A pc \in Pcs : [main EXCEPT !.pc = pc] \in MainRecord /\ [main EXCEPT !.pc = pc].pc = pc
  BY <1>0, MainFields
<1>1. CASE LoadStep
  <2>1. CASE UNCHANGED <<main, watch, cache, signed>> /\ load'.pc # "none" /\ load'.by = load.by
    BY <1>1, <2>1, LoadOutcome DEF Threads
  <2>2. CASE load' = NoLoad /\ load.by = "main"
    BY <1>a, <1>1, <2>2, LoadOutcome DEF Threads, NoLoad
  <2>3. CASE load' = NoLoad /\ load.by = "watch"
    BY <1>1, <2>3, LoadOutcome DEF Threads, NoLoad
  <2> QED BY <1>1, <2>1, <2>2, <2>3, LoadOutcome
<1>2. CASE LoadInitial
  BY <1>a, <1>2 DEF LoadInitial, Threads, NoLoad
<1>3. CASE ListTables
  <2>1. cache \in Good \cup {Empty}
    BY DEF Threads
  <2>2. SubSeq(FleetOf(cache), 1, Indexed(cache)) \in Seq(Bms)
    BY <2>1, FleetFacts, PrefixOf
  <2>3. main' \in MainRecord /\ main'.pc = "sources"
    BY <1>3, <2>1, <2>2 DEF ListTables, MainRecord
  <2> QED BY <1>3, <2>3 DEF ListTables, Threads
<1>4. CASE InstallSources
  BY <1>a, <1>4 DEF InstallSources, Threads
<1>5. CASE InstallBms
  <2>1. CASE main.todo = << >>
    BY <1>a, <1>5, <2>1 DEF InstallBms, Threads
  <2>2. CASE main.todo # << >>
    <3>1. main' \in MainRecord /\ main'.pc = main.pc
      BY <1>0, <1>5, <2>2, MainFields DEF InstallBms
    <3> QED BY <1>5, <2>2, <3>1 DEF InstallBms, Threads
  <2> QED BY <2>1, <2>2
<1>6. CASE StartWatcher
  BY <1>a, <1>6 DEF StartWatcher, Threads
<1>7. CASE WatchStep
  BY <1>7 DEF WatchStep, Arm, Notify, Debounce, Threads
<1>8. CASE Stop
  BY <1>a, <1>8 DEF Stop, Threads, NoLoad
<1>9. CASE Restart
  <2>1. << >> \in Seq(Bms)
    OBVIOUS
  <2>2. main' \in MainRecord /\ main'.pc = "load"
    BY <1>9, <2>1 DEF Restart, MainRecord
  <2> QED BY <1>9, <2>2 DEF Restart, Threads, NoLoad
<1>10. CASE ~LoadStep /\ ~MainStep /\ ~WatchStep /\ ~Stop /\ ~Restart
  <2>1. UNCHANGED <<main, load, cache, signed, watch>>
    BY <1>10 DEF Next, vars, BeginWrite, EndWrite, Remove
  <2> QED BY <2>1 DEF Threads
<1> QED BY <1>1, <1>2, <1>3, <1>4, <1>5, <1>6, <1>7, <1>8, <1>9, <1>10 DEF MainStep

-----------------------------------------------------------------------------
(* The tables.  What is left to install is the end of the fleet's indexed  *)
(* part, and each BMS before it has its position for an index: later rows  *)
(* are of other BMSs, so they do not move it.                              *)
Placed(n) == \A i \in 1..n : idx[FleetOf(main.boot)[i]] = {i - 1}

Indexing ==
  /\ r2 \subseteq Sources /\ Cardinality(r2) <= SrcRows
  /\ idx \in [Bms -> {{}} \cup {{i} : i \in 0..BmsIndices - 1}]
  /\ main.pc = "sources" => Len(main.todo) = Indexed(main.boot)
  /\ main.pc \in {"sources", "bms"} =>
       /\ Len(main.todo) <= Indexed(main.boot)
       /\ \A j \in 1..Len(main.todo) : main.todo[j] = FleetOf(main.boot)[Position + j]
  /\ main.pc = "bms" => Placed(Position)
  /\ main.pc \in {"arm", "running"} => Placed(Indexed(main.boot))

LEMMA IndexingInit == Init => Indexing
<1> SUFFICES ASSUME Init PROVE Indexing
  OBVIOUS
<1>1. r2 = {} /\ Cardinality(r2) = 0 /\ SrcRows \in Nat
  BY FS_EmptySet, RatAssumption DEF Init
<1>2. main.pc = "load" /\ idx = [b \in Bms |-> {}]
  BY DEF Init
<1> QED BY <1>1, <1>2 DEF Indexing

(* A step that leaves the rows and the list alone.                         *)
LEMMA IndexingKept ==
  ASSUME Indexing, UNCHANGED tables,
         \/ UNCHANGED main
         \/ main'.pc \in {"load", "tables", "failed"}
         \/ main.pc = "arm" /\ main'.pc = "running" /\ main'.boot = main.boot
  PROVE  Indexing'
<1>1. CASE UNCHANGED main
  BY <1>1 DEF Indexing, Placed, Position, tables
<1>2. CASE main'.pc \in {"load", "tables", "failed"}
  BY <1>2 DEF Indexing, tables
<1>3. CASE main.pc = "arm" /\ main'.pc = "running" /\ main'.boot = main.boot
  BY <1>3 DEF Indexing, Placed, tables
<1> QED BY <1>1, <1>2, <1>3

LEMMA InstallBmsKeeps ==
  ASSUME Threads, Indexing, InstallBms
  PROVE  Indexing'
<1> DEFINE F == FleetOf(main.boot)
           n == Indexed(main.boot)
           L == Len(main.todo)
<1>0. main \in MainRecord /\ main.todo \in Seq(Bms) /\ main.boot \in Good \cup {Empty}
  BY MainFields DEF Threads
<1>1. /\ F \in Seq(Bms) /\ n \in Nat /\ n <= Len(F) /\ n <= BmsIndices
      /\ Len(F) \in Nat /\ BmsIndices \in Nat
      /\ \A i, j \in 1..Len(F) : F[i] = F[j] => i = j
  BY <1>0, FleetFacts, RatAssumption
<1>2. main.pc = "bms" /\ L \in Nat /\ L <= n /\ UNCHANGED r2
  BY <1>0 DEF InstallBms, Indexing
<1>3. /\ \A j \in 1..L : main.todo[j] = F[(n - L) + j]
      /\ \A i \in 1..(n - L) : idx[F[i]] = {i - 1}
  BY <1>2 DEF Indexing, Placed, Position
<1> HIDE DEF F, n, L
<1>4. CASE main.todo = << >>
  <2>1. main'.pc = "arm" /\ main'.boot = main.boot /\ UNCHANGED idx /\ L = 0
    BY <1>0, <1>4, MainFields DEF InstallBms, L
  <2>2. \A i \in 1..n : idx'[F[i]] = {i - 1}
    BY <1>1, <1>3, <2>1
  <2>3. Placed(Indexed(main.boot))'
    BY <2>1, <2>2 DEF Placed, F, n
  <2> QED BY <1>2, <2>1, <2>3 DEF Indexing
<1>5. CASE main.todo # << >>
  <2> DEFINE b == Head(main.todo)
             p == n - L
  <2>1. /\ main'.pc = "bms" /\ main'.boot = main.boot /\ main'.todo = Tail(main.todo)
        /\ idx' = [idx EXCEPT ![b] = {p}]
    BY <1>0, <1>2, <1>5, MainFields DEF InstallBms, Row, Position, n, L
  <2>2. /\ b = main.todo[1] /\ b \in Bms /\ L > 0
        /\ Len(Tail(main.todo)) = L - 1
        /\ \A j \in 1..(L - 1) : Tail(main.todo)[j] = main.todo[j + 1]
    BY <1>0, <1>5, RestOf DEF L
  <2> HIDE DEF b
  <2>3. p \in 0..BmsIndices - 1 /\ p + 1 \in 1..Len(F) /\ b = F[p + 1]
    <3>1. p \in Nat /\ p + 1 <= n /\ b = F[p + 1]
      BY <1>1, <1>2, <1>3, <2>2
    <3> QED BY <1>1, <3>1
  <2> HIDE DEF p
  <2>4. idx' \in [Bms -> {{}} \cup {{i} : i \in 0..BmsIndices - 1}]
    <3>1. {p} \in {{}} \cup {{i} : i \in 0..BmsIndices - 1}
      BY <2>3
    <3> QED BY <2>1, <2>2, <3>1 DEF Indexing
  <2>5. \A i \in 1..(p + 1) : idx'[F[i]] = {i - 1}
    <3> SUFFICES ASSUME NEW i \in 1..(p + 1) PROVE idx'[F[i]] = {i - 1}
      OBVIOUS
    <3>1. i \in 1..Len(F) /\ F[i] \in Bms /\ idx \in [Bms -> {{}} \cup {{k} : k \in 0..BmsIndices - 1}]
      <4>1. i \in 1..Len(F)
        BY <1>1, <2>3
      <4>2. F[i] \in Bms
        BY <1>1, <4>1
      <4> QED BY <4>1, <4>2 DEF Indexing
    <3>2. CASE i = p + 1
      <4>1. idx'[F[i]] = {p}
        BY <2>1, <2>3, <3>1, <3>2
      <4>2. i - 1 = p
        BY <2>3, <3>2
      <4> QED BY <4>1, <4>2
    <3>3. CASE i # p + 1
      <4>1. F[i] # b
        BY <1>1, <2>3, <3>1, <3>3
      <4>2. i \in 1..p
        BY <2>3, <3>3
      <4> QED BY <1>3, <2>1, <3>1, <4>1, <4>2 DEF p
    <3> QED BY <3>2, <3>3
  <2>6. Position' = p + 1
    <3>1. Position' = n - Len(Tail(main.todo))
      BY <2>1 DEF Position, n
    <3>2. n - (L - 1) = (n - L) + 1
      BY <1>1, <1>2
    <3> QED BY <2>2, <3>1, <3>2 DEF p
  <2>7. Placed(Position)'
    <3>1. Placed(Position)' <=> \A i \in 1..(p + 1) : idx'[F[i]] = {i - 1}
      BY <2>1, <2>6 DEF Placed, F
    <3> QED BY <2>5, <3>1
  <2>8. \A j \in 1..Len(main'.todo) : main'.todo[j] = FleetOf(main'.boot)[Position' + j]
    <3> SUFFICES ASSUME NEW j \in 1..(L - 1) PROVE Tail(main.todo)[j] = F[(p + 1) + j]
      BY <2>1, <2>2, <2>6 DEF F
    <3>1. j + 1 \in 1..L /\ Tail(main.todo)[j] = main.todo[j + 1]
      BY <1>2, <2>2
    <3>2. main.todo[j + 1] = F[p + (j + 1)]
      BY <1>3, <3>1 DEF p
    <3>3. p + (j + 1) = (p + 1) + j
      BY <2>3
    <3> QED BY <3>1, <3>2, <3>3
  <2>9. Len(main'.todo) <= Indexed(main'.boot)
    BY <1>1, <1>2, <2>1, <2>2 DEF n
  <2> QED BY <1>2, <2>1, <2>4, <2>7, <2>8, <2>9 DEF Indexing
<1> QED BY <1>4, <1>5

(* The sources of a manifest are authorised ones, and a step that would    *)
(* take a row more than the table has fills it and fails.                  *)
LEMMA InstallSourcesKeeps ==
  ASSUME Threads, Indexing, InstallSources
  PROVE  Indexing'
<1>0. main \in MainRecord /\ main.boot \in Good \cup {Empty}
  BY MainFields DEF Threads
<1>1. SrcsOf(main.boot) \subseteq Sources
  BY <1>0 DEF SrcsOf, Sources
<1>2. UNCHANGED idx /\ main.pc = "sources"
  BY DEF InstallSources
<1>3. CASE main' = [main EXCEPT !.pc = "bms"] /\ r2' = r2 \cup SrcsOf(main.boot)
                /\ Cardinality(r2 \cup SrcsOf(main.boot)) <= SrcRows
  <2>1. main'.pc = "bms" /\ main'.boot = main.boot /\ main'.todo = main.todo
    BY <1>0, <1>3, MainFields
  <2>2. Indexed(main.boot) \in Nat /\ Len(main.todo) = Indexed(main.boot)
    BY <1>0, <1>2, FleetFacts DEF Indexing
  <2>3. Position' = 0 /\ Position = 0
    BY <2>1, <2>2 DEF Position
  <2>4. Placed(Position)'
    BY <2>3 DEF Placed
  <2> QED BY <1>1, <1>2, <1>3, <2>1, <2>3, <2>4 DEF Indexing
<1>4. ASSUME NEW some \in SUBSET SrcsOf(main.boot), Cardinality(r2 \cup some) = SrcRows,
             r2' = r2 \cup some, main' = [main EXCEPT !.pc = "failed"]
      PROVE  Indexing'
  <2>1. main'.pc = "failed"
    BY <1>0, <1>4, MainFields
  <2>2. SrcRows \in Nat
    BY RatAssumption
  <2> QED BY <1>1, <1>2, <1>4, <2>1, <2>2 DEF Indexing
<1> QED BY <1>3, <1>4 DEF InstallSources

LEMMA IndexingStep ==
  ASSUME Provenance, Threads, Indexing, [Next]_vars
  PROVE  Indexing'
<1>0. main \in MainRecord
  BY DEF Threads
<1>1. CASE LoadStep
  <2>1. UNCHANGED tables
    BY <1>1 DEF LoadStep, Exists, Read, CheckSig, Verify, Parse, Loading
  <2>2. UNCHANGED main \/ main'.pc \in {"tables", "failed"}
    BY <1>0, <1>1, LoadOutcome, MainFields
  <2> QED BY <2>1, <2>2, IndexingKept
<1>2. CASE LoadInitial
  <2>1. UNCHANGED tables /\ (UNCHANGED main \/ main'.pc = "tables")
    BY <1>0, <1>2, MainFields DEF LoadInitial
  <2> QED BY <2>1, IndexingKept
<1>3. CASE ListTables
  <2> DEFINE F == FleetOf(cache)
             n == Indexed(cache)
  <2>0. cache \in Good \cup {Empty}
    BY DEF Threads
  <2>1. F \in Seq(Bms) /\ n \in Nat /\ n <= Len(F)
    BY <2>0, FleetFacts
  <2>2. /\ main'.pc = "sources" /\ main'.boot = cache /\ main'.todo = SubSeq(F, 1, n)
        /\ UNCHANGED tables
    BY <1>3 DEF ListTables
  <2>3. /\ Len(main'.todo) = n
        /\ \A j \in 1..n : main'.todo[j] = F[j]
    BY <2>1, <2>2, PrefixOf
  <2>4. Position' = 0
    BY <2>1, <2>2, <2>3 DEF Position
  <2>5. \A j \in 1..Len(main'.todo) : main'.todo[j] = FleetOf(main'.boot)[Position' + j]
    BY <2>1, <2>2, <2>3, <2>4
  <2>6. Len(main'.todo) <= Indexed(main'.boot) /\ Len(main'.todo) = Indexed(main'.boot)
    BY <2>1, <2>2, <2>3
  <2> QED BY <2>2, <2>5, <2>6 DEF Indexing, tables
<1>4. CASE StartWatcher
  <2>1. main.pc = "arm" /\ main'.pc = "running" /\ main'.boot = main.boot /\ UNCHANGED tables
    BY <1>0, <1>4, MainFields DEF StartWatcher
  <2> QED BY <2>1, IndexingKept
<1>5. CASE WatchStep
  <2>1. UNCHANGED <<main, tables>>
    BY <1>5 DEF WatchStep, Arm, Notify, Debounce
  <2> QED BY <2>1, IndexingKept
<1>6. CASE Stop \/ Restart
  <2>1. UNCHANGED tables /\ main'.pc \in {"load", "failed"}
    BY <1>0, <1>6, MainFields DEF Stop, Restart
  <2> QED BY <2>1, IndexingKept
<1>7. CASE ~LoadStep /\ ~MainStep /\ ~WatchStep /\ ~Stop /\ ~Restart
  <2>1. UNCHANGED <<main, tables>>
    BY <1>7 DEF Next, vars, tables, BeginWrite, EndWrite, Remove
  <2> QED BY <2>1, IndexingKept
<1> QED BY <1>1, <1>2, <1>3, <1>4, <1>5, <1>6, <1>7, InstallBmsKeeps, InstallSourcesKeeps
        DEF MainStep

LEMMA IndexingHolds == Spec => [](Provenance /\ Threads /\ Indexing)
<1>1. Init => Threads /\ Indexing
  BY ThreadsInit, IndexingInit
<1>2. Provenance /\ Threads /\ Indexing /\ [Next]_vars => Threads' /\ Indexing'
  BY ThreadsKept, IndexingStep
<1> QED BY <1>1, <1>2, ProvenanceHolds, PTL DEF Spec

(* Types, for every set of manifests: the table of sources never holds a   *)
(* row more than it has, no BMS gets an index beyond the registers, and a  *)
(* load is the watcher's exactly while the watcher is loading.             *)
THEOREM RatTypes == Spec => []TypeOK
<1>1. Provenance /\ Threads /\ Indexing => TypeOK
  BY DEF Provenance, Shape, Threads, Indexing, TypeOK
<1> QED BY <1>1, IndexingHolds, PTL

(* Whatever rows an earlier life left in bms_ip_to_idx, and wherever that  *)
(* life was cut off, the BMSs the controller has given an index have each  *)
(* its own among them, so that no two of them share registers.             *)
THEOREM FleetApart == Spec => []BootApart
<1>1. Threads /\ Indexing => BootApart
  <2> SUFFICES ASSUME Threads, Indexing, main.pc \in {"arm", "running"},
                      NEW a \in FirstFleet, NEW b \in FirstFleet, idx[a] = idx[b]
               PROVE  a = b
    BY DEF BootApart
  <2>1. PICK i \in 1..Indexed(main.boot), j \in 1..Indexed(main.boot) :
          a = FleetOf(main.boot)[i] /\ b = FleetOf(main.boot)[j]
    BY DEF FirstFleet
  <2>2. idx[a] = {i - 1} /\ idx[b] = {j - 1}
    BY <2>1 DEF Indexing, Placed
  <2>3. Indexed(main.boot) \in Nat
    BY MainFields, FleetFacts DEF Threads
  <2>4. i - 1 = j - 1
    BY <2>2
  <2>5. i = j
    BY <2>3, <2>4
  <2> QED BY <2>1, <2>5
<1> QED BY <1>1, IndexingHolds, PTL
===============================================================================
