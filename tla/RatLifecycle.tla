----------------------------- MODULE RatLifecycle -----------------------------
(***************************************************************************)
(* The RAT manifest from the operator's files to the controller's cache    *)
(* (controller/rat_lifecycle.py) and to the two tables the controller      *)
(* fills from it at startup.  The operator edits files, a write at a time, *)
(* between any two steps of a load; the watcher thread sees edits only     *)
(* from the moment its watch is armed; the tables of the switch outlive    *)
(* the controller that filled them.                                        *)
(***************************************************************************)
EXTENDS Integers, Sequences, FiniteSets

CONSTANTS
  Good,            \* well-formed documents
  Bad, Odd, Torn,  \* one that parsing rejects, one it fails on with an error
                   \* reload does not expect, and a file still being written
  Empty, Missing,  \* a cache without entries, no file
  Fleet,           \* Fleet[d]: target BMSs of document d, in list order
  Srcs,            \* Srcs[d]: its authorised sources
  DefaultFleet,    \* the fleet assumed without a manifest
  SrcRows, BmsIndices,   \* size of r2_authorized_sources; indices in use
  MaxEdits, MaxLives     \* bounds

Whole == Good \cup {Bad, Odd}
Docs == Whole \cup {Torn, Missing}
Bms == UNION {{s[i] : i \in 1..Len(s)} : s \in {Fleet[d] : d \in Good} \cup {DefaultFleet}}
Sources == UNION {Srcs[d] : d \in Good}

(* load_rat lists a BMS once, and so does the fleet it falls back to.      *)
ASSUME RatAssumption ==
  /\ Cardinality({Bad, Odd, Torn, Empty, Missing}) = 5
  /\ Good \cap {Bad, Odd, Torn, Empty, Missing} = {}
  /\ \A f \in {Fleet[d] : d \in Good} \cup {DefaultFleet} :
       f \in Seq(Bms) /\ \A i, j \in 1..Len(f) : f[i] = f[j] => i = j
  /\ {SrcRows, BmsIndices, MaxEdits, MaxLives} \subseteq Nat

VARIABLES
  mode,    \* [signed, watcher]: --require-signed-rat, inotify or polling
  files,   \* [rat, sig, pub] on disk; a signature stands for what it signs
  writer,  \* [file, doc] of the operator's unfinished write
  edits,   \* edits so far
  signatures, \* history: the documents ever signed
  main,    \* [pc, todo, boot]: startup, table rows left, manifest it began with
  load,    \* [pc, by, bytes]: the load under way, and by which thread
  cache, signed,  \* _entries, _last_signed
  watch,   \* the watcher thread
  alert,   \* a change of the files the watcher has not looked at yet
  edited,  \* history: a write ended while the watch was armed
  r2, idx, \* rows of r2_authorized_sources and bms_ip_to_idx
  life     \* lives so far

disk == <<files, writer, edits, signatures>>
tables == <<r2, idx>>
vars == <<mode, disk, main, load, cache, signed, watch, alert, edited, tables, life>>

NoLoad == [pc |-> "none", by |-> "main", bytes |-> Missing]
Armed == watch \in {"wait", "debounce", "loading"}

Init ==
  /\ mode \in [signed : BOOLEAN, watcher : {"inotify", "poll"}]
  /\ files \in [rat : Good \cup {Missing}, sig : {Missing}, pub : {TRUE}]
               \cup {[rat |-> d, sig |-> d, pub |-> TRUE] : d \in Good}
  /\ writer = [file |-> "none", doc |-> Missing]
  /\ edits = 0
  /\ signatures = {files.sig} \ {Missing}
  /\ main = [pc |-> "load", todo |-> << >>, boot |-> Empty]
  /\ load = NoLoad
  /\ cache = Empty /\ signed = FALSE
  /\ watch = "off" /\ alert = FALSE /\ edited = FALSE
  /\ r2 = {} /\ idx = [b \in Bms |-> {}]
  /\ life = 1

-----------------------------------------------------------------------------
(* The operator.  A write truncates the file, then fills it; inotify is    *)
(* told of a new file and of the end of a write, polling of both.          *)

NoticeManifest(file, begin) ==               \* mutant of Notice
  alert' = (alert \/ (Armed /\ file = "rat"
                      /\ (~begin \/ mode.watcher = "poll" \/ files[file] = Missing)))
Notice(file, begin) ==
  alert' = (alert \/ (Armed /\ (~begin \/ mode.watcher = "poll" \/ files[file] = Missing)))

BeginWrite(file, doc) ==
  /\ writer.file = "none" /\ edits < MaxEdits
  /\ file = "rat" => doc \in Whole
  /\ file = "sig" => doc = files.rat /\ doc \in Whole     \* sign_rat.py
  /\ writer' = [file |-> file, doc |-> doc]
  /\ files' = [files EXCEPT ![file] = Torn]
  /\ edits' = edits + 1
  /\ Notice(file, TRUE)
  /\ UNCHANGED <<mode, signatures, main, load, cache, signed, watch, edited, tables, life>>

EndWrite ==
  /\ writer.file # "none"
  /\ files' = [files EXCEPT ![writer.file] = writer.doc]
  /\ signatures' = IF writer.file = "sig" THEN signatures \cup {writer.doc} ELSE signatures
  /\ writer' = [file |-> "none", doc |-> Missing]
  /\ Notice(writer.file, FALSE)
  /\ edited' = (edited \/ Armed)
  /\ UNCHANGED <<mode, edits, main, load, cache, signed, watch, tables, life>>

Remove(file) ==
  /\ writer.file = "none" /\ edits < MaxEdits
  /\ files[file] \notin {Missing, FALSE}
  /\ files' = [files EXCEPT ![file] = IF file = "pub" THEN FALSE ELSE Missing]
  /\ edits' = edits + 1
  /\ Notice(file, FALSE)
  /\ edited' = (edited \/ Armed)
  /\ UNCHANGED <<mode, writer, signatures, main, load, cache, signed, watch, tables, life>>

-----------------------------------------------------------------------------
(* _reload_locked, run by the main thread at startup and by the watcher.   *)

RejectClears ==                              \* mutant of Reject
  /\ load' = NoLoad
  /\ IF load.by = "main" THEN main' = [main EXCEPT !.pc = "failed"] /\ UNCHANGED watch
                         ELSE watch' = "wait" /\ UNCHANGED main
  /\ cache' = Empty /\ signed' = FALSE
(* The error ends the startup; a reload keeps what it has.                 *)
Reject ==
  /\ load' = NoLoad
  /\ IF load.by = "main" THEN main' = [main EXCEPT !.pc = "failed"] /\ UNCHANGED watch
                         ELSE watch' = "wait" /\ UNCHANGED main
  /\ UNCHANGED <<cache, signed>>
GoOn(pc) == load' = [load EXCEPT !.pc = pc] /\ UNCHANGED <<main, watch, cache, signed>>

Loading(pc) ==
  /\ load.pc = pc
  /\ UNCHANGED <<mode, disk, alert, edited, tables, life>>

Exists == Loading("exists") /\ IF files.rat = Missing THEN Reject ELSE GoOn("read")

Read ==
  /\ Loading("read")
  /\ IF files.rat = Missing THEN Reject
     ELSE /\ load' = [load EXCEPT !.pc = "sig", !.bytes = files.rat]
          /\ UNCHANGED <<main, watch, cache, signed>>

CheckSig ==
  /\ Loading("sig")
  /\ IF files.sig # Missing
     THEN IF files.pub THEN GoOn("verify") ELSE Reject
     ELSE IF mode.signed THEN Reject ELSE GoOn("parse")

(* The signature is read again here, the manifest is not. *)
Verify ==
  /\ Loading("verify")
  /\ IF files.pub /\ files.sig = load.bytes /\ load.bytes # Torn THEN GoOn("parse signed")
     ELSE Reject

(* The swap.  An odd document is one whose entry is no object: no error    *)
(* that reload expects, so it ends the thread.                             *)
Swap(doc) ==
  IF doc \in Good
  THEN /\ cache' = doc /\ signed' = (load.pc = "parse signed")
       /\ load' = NoLoad
       /\ IF load.by = "main" THEN main' = [main EXCEPT !.pc = "tables"] /\ UNCHANGED watch
                              ELSE watch' = "wait" /\ UNCHANGED main
  ELSE IF doc = Odd /\ load.by = "watch"
  THEN watch' = "dead" /\ load' = NoLoad /\ UNCHANGED <<main, cache, signed>>
  ELSE Reject
ParseReread ==                               \* mutant of Parse
  (Loading("parse") \/ Loading("parse signed")) /\ Swap(files.rat)
Parse == (Loading("parse") \/ Loading("parse signed")) /\ Swap(load.bytes)

-----------------------------------------------------------------------------
(* The main thread: startup. *)

LoadInitial ==
  /\ main.pc = "load" /\ load.pc = "none"
  /\ IF files.rat = Missing
     THEN main' = [main EXCEPT !.pc = "tables"] /\ UNCHANGED load
     ELSE main' = main /\ load' = [NoLoad EXCEPT !.pc = "exists"]
  /\ UNCHANGED <<mode, disk, cache, signed, watch, alert, edited, tables, life>>

(* load_rat, then a row per source and per BMS up to the last index.       *)
FleetOf(d) == IF d = Empty \/ Fleet[d] = << >> THEN DefaultFleet ELSE Fleet[d]
IndexedAll(d) == Len(FleetOf(d))             \* mutant of Indexed
Indexed(d) == IF Len(FleetOf(d)) < BmsIndices THEN Len(FleetOf(d)) ELSE BmsIndices
SrcsOf(d) == IF d = Empty THEN {} ELSE Srcs[d]
ListTables ==
  /\ main.pc = "tables"
  /\ main' = [pc |-> "sources", boot |-> cache,
              todo |-> SubSeq(FleetOf(cache), 1, Indexed(cache))]
  /\ UNCHANGED <<mode, disk, load, cache, signed, watch, alert, edited, tables, life>>

(* A row that is there is deleted first; a full table ends the startup.    *)
InstallSources ==
  /\ main.pc = "sources"
  /\ \/ /\ Cardinality(r2 \cup SrcsOf(main.boot)) <= SrcRows
        /\ r2' = r2 \cup SrcsOf(main.boot)
        /\ main' = [main EXCEPT !.pc = "bms"]
     \/ \E some \in SUBSET SrcsOf(main.boot) :
          /\ Cardinality(r2 \cup SrcsOf(main.boot)) > SrcRows
          /\ Cardinality(r2 \cup some) = SrcRows
          /\ r2' = r2 \cup some
          /\ main' = [main EXCEPT !.pc = "failed"]
  /\ UNCHANGED <<mode, disk, load, cache, signed, watch, alert, edited, idx, life>>

Position == Indexed(main.boot) - Len(main.todo)
RowKept(b) ==                                \* mutant of Row
  IF idx[b] = {} THEN [idx EXCEPT ![b] = {Position}] ELSE idx
Row(b) == [idx EXCEPT ![b] = {Position}]
InstallBms ==
  /\ main.pc = "bms"
  /\ IF main.todo = << >>
     THEN main' = [main EXCEPT !.pc = "arm"] /\ UNCHANGED idx
     ELSE /\ idx' = Row(Head(main.todo))
          /\ main' = [main EXCEPT !.todo = Tail(main.todo)]
  /\ UNCHANGED <<mode, disk, load, cache, signed, watch, alert, edited, r2, life>>

(* The register reset is over: start_watcher, and the digest loop.         *)
StartWatcher ==
  /\ main.pc = "arm"
  /\ main' = [main EXCEPT !.pc = "running"]
  /\ watch' = "arming"
  /\ UNCHANGED <<mode, disk, load, cache, signed, alert, edited, tables, life>>

(* handle_stop, or the process dies; the tables stay in the switch.        *)
Stop ==
  /\ main.pc # "failed"
  /\ main' = [main EXCEPT !.pc = "failed"]
  /\ load' = NoLoad /\ watch' = "off" /\ alert' = FALSE /\ edited' = FALSE
  /\ UNCHANGED <<mode, disk, cache, signed, tables, life>>

Restart ==
  /\ main.pc = "failed" /\ life < MaxLives
  /\ main' = [pc |-> "load", todo |-> << >>, boot |-> Empty]
  /\ load' = NoLoad /\ cache' = Empty /\ signed' = FALSE
  /\ watch' = "off" /\ alert' = FALSE /\ edited' = FALSE
  /\ life' = life + 1
  /\ UNCHANGED <<mode, disk, tables>>

-----------------------------------------------------------------------------
(* The watcher thread. *)

Arm ==
  /\ watch = "arming"
  /\ watch' = "wait"
  /\ UNCHANGED <<mode, disk, main, load, cache, signed, alert, edited, tables, life>>

(* Events are taken off the queue, or the new mtime remembered, first.     *)
Notify ==
  /\ watch = "wait" /\ alert
  /\ alert' = FALSE
  /\ watch' = IF mode.watcher = "poll" THEN "loading" ELSE "debounce"
  /\ load' = IF mode.watcher = "poll" THEN [pc |-> "exists", by |-> "watch", bytes |-> Missing]
                                      ELSE load
  /\ UNCHANGED <<mode, disk, main, cache, signed, edited, tables, life>>

Debounce ==
  /\ watch = "debounce"
  /\ watch' = "loading"
  /\ load' = [pc |-> "exists", by |-> "watch", bytes |-> Missing]
  /\ UNCHANGED <<mode, disk, main, cache, signed, alert, edited, tables, life>>

LoadStep == Exists \/ Read \/ CheckSig \/ Verify \/ Parse
MainStep == LoadInitial \/ ListTables \/ InstallSources \/ InstallBms \/ StartWatcher
WatchStep == Arm \/ Notify \/ Debounce

Next ==
  \/ \E file \in {"rat", "sig"}, doc \in Whole : BeginWrite(file, doc)
  \/ EndWrite
  \/ \E file \in {"rat", "sig", "pub"} : Remove(file)
  \/ LoadStep \/ MainStep \/ WatchStep \/ Stop \/ Restart

(* Both threads are scheduled; nothing is assumed of the operator.         *)
Spec == Init /\ [][Next]_vars /\ WF_vars(LoadStep) /\ WF_vars(MainStep) /\ WF_vars(WatchStep)

-----------------------------------------------------------------------------
TypeOK ==
  /\ files \in [rat : Docs, sig : Docs, pub : BOOLEAN]
  /\ load.pc # "none" => (load.by = "watch" <=> watch = "loading")
  /\ cache \in Good \cup {Empty} /\ signed \in BOOLEAN
  /\ r2 \subseteq Sources /\ Cardinality(r2) <= SrcRows
  /\ idx \in [Bms -> {{}} \cup {{i} : i \in 0..BmsIndices - 1}]

(* Whatever the operator writes between the steps of a load, the entries   *)
(* in force are those of a document that was signed as a whole, wherever   *)
(* the controller says so or requires it: verify and parse see one buffer. *)
Vetted == cache # Empty /\ (signed \/ mode.signed) => cache \in signatures

(* A rejected reload "cannot force the controller into an empty-RAT        *)
(* state": from the first good load on, a running controller has entries.  *)
KeepsLastGood == [][cache # Empty /\ cache' = Empty => life' # life]_vars

(* A change of the files while the watch is armed reaches the cache, if    *)
(* what is then on disk can be loaded and the watcher lives.               *)
Loadable == /\ files.rat \in Good
            /\ IF files.sig = Missing THEN ~mode.signed ELSE files.sig = files.rat /\ files.pub
Settled == \/ main.pc = "failed" \/ watch = "dead" \/ ~Loadable
           \/ cache = files.rat /\ signed = (files.sig # Missing)
HotReload == edited ~> Settled

(* The BMSs a controller gives an index have indices of their own among    *)
(* them, whatever an earlier life left in the table.                       *)
FirstFleet == {FleetOf(main.boot)[i] : i \in 1..Indexed(main.boot)}
BootApart ==
  main.pc \in {"arm", "running"} =>
    \A a, b \in FirstFleet : idx[a] # {} /\ idx[a] = idx[b] => a = b
===============================================================================
