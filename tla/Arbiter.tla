------------------------------- MODULE Arbiter -------------------------------
(***************************************************************************)
(* The controller's decisions on HOLD and DROP digests: evaluate_hold, the *)
(* two lookups in the RAT manifest, the concurrency slots of M6 and the    *)
(* override row that results.  The manifest may be reloaded, slots pruned, *)
(* rows expire, a reset signal arrive and time pass between any two steps  *)
(* of a decision.  (Overrides refines what is one step Install here.)      *)
(* Arbitrate is rat_arbiter.py, the copy of these rules used off-switch.   *)
(***************************************************************************)
EXTENDS Integers, FiniteSets, Sequences

CONSTANTS
  Flows, Sources, Bms, SrcOf, DstOf,   \* 5-tuples and their addresses
  Rollouts,                            \* rollout_id values
  Manifests,                           \* manifests that may be loaded
  Digests,                             \* digests the pipeline may send
  Capacity, TTL,                       \* override rows, HOLD_OVERRIDE_TTL_S
  DisableRat, DisableR6,               \* --disable-rat, --disable-r6
  MaxTime, MaxDigests                  \* bounds

(* Time windows, size ranges and rollback windows are sets of the values   *)
(* they hold; an entry with no rollback window has the empty one.          *)
EntryType == [rollout : Rollouts, window : SUBSET Nat, srcs : SUBSET Sources,
              bms : SUBSET Bms, sizes : SUBSET Nat, rollback : SUBSET Nat, cap : Nat]
DigestType == [flow : Flows, code : {"PASS", "HOLD", "DROP"},
               rules : SUBSET {"R1", "R2", "R4", "R5", "R6"}, size : Nat, version : Nat]

ASSUME ArbiterAssumption ==
  /\ SrcOf \in [Flows -> Sources] /\ DstOf \in [Flows -> Bms]
  /\ Manifests \subseteq Seq(EntryType)
  /\ Digests \subseteq DigestType /\ Digests # {}
  /\ {Capacity, TTL, MaxTime, MaxDigests} \subseteq Nat
  /\ {DisableRat, DisableR6} \subseteq BOOLEAN

VARIABLES
  manifest,  \* _entries, the cache of RatLifecycleManager
  slots,     \* _active: the sessions counted against a cap
  main,      \* the decision under way: [pc, digest, entry, act, reason, at]
  row,       \* session_action_override
  heap,      \* _expiry_heap
  now,       \* time.time()
  seen,      \* digests so far; numbers the sessions
  ticket     \* history: the decision the row of a flow comes from

vars == <<manifest, slots, main, row, heap, now, seen, ticket>>

-----------------------------------------------------------------------------
(* Lookups in a manifest m at time t. *)

Covers(e, d, t) ==
  t \in e.window /\ SrcOf[d.flow] \in e.srcs /\ DstOf[d.flow] \in e.bms /\ d.size \in e.sizes
CoversRollbackAnyVersion(e, d, t) ==          \* mutant of CoversRollback
  Covers(e, d, t) /\ e.rollback # {}
CoversRollback(e, d, t) == Covers(e, d, t) /\ d.version \in e.rollback

(* The first entry of m at a position of S, as a set of at most one.        *)
First(m, S) == {m[i] : i \in {j \in S : \A k \in S : j <= k}}
find_matching_entry(m, d, t) == First(m, {i \in 1..Len(m) : Covers(m[i], d, t)})
find_rollback_entry(m, d, t) == First(m, {i \in 1..Len(m) : CoversRollback(m[i], d, t)})

-----------------------------------------------------------------------------
(* evaluate_hold: what it makes of a digest before and after the cap.      *)

Fired(d) == IF DisableR6 THEN d.rules \ {"R6"} ELSE d.rules
RollbackGate(d) == /\ Fired(d) \cap {"R2", "R4", "R6"} = {"R6"}
                   /\ d.code # "DROP" /\ ~DisableRat
TerminalWithoutR4(d) ==                       \* mutant of Terminal
  d.code = "DROP" \/ Fired(d) \cap {"R2", "R6"} # {}
Terminal(d) == d.code = "DROP" \/ Fired(d) \cap {"R2", "R4", "R6"} # {}

Pardoned(d, m, t) == RollbackGate(d) /\ find_rollback_entry(m, d, t) # {}
Replayed(d, m, t) == "R1" \in Fired(d) /\ (DisableRat \/ find_matching_entry(m, d, t) = {})

Drop(reason) == [pc |-> "install", entry |-> {}, act |-> "deny", reason |-> reason]
Charge(e, reason) == [pc |-> "record", entry |-> e, act |-> "allow", reason |-> reason]
LookUpNext == [pc |-> "match", entry |-> {}, act |-> "deny", reason |-> "none"]

Gate(d, m, t) ==
  IF Pardoned(d, m, t) THEN Charge(find_rollback_entry(m, d, t), "rat_rollback_match")
  ELSE IF Terminal(d) \/ Replayed(d, m, t) THEN Drop("terminal_fire")
  ELSE IF DisableRat THEN Drop("rat_disabled_ablation")
  ELSE LookUpNext

MatchUnchecked(d, m, t) ==                    \* mutant of Match
  Charge(find_matching_entry(m, d, t), "rat_match")
Match(d, m, t) == LET e == find_matching_entry(m, d, t)
                  IN  IF e = {} THEN Drop("rat_miss") ELSE Charge(e, "rat_match")

CapReason(reason) == IF reason = "rat_match" THEN "rat_max_concurrent"
                                             ELSE "rat_rollback_max_concurrent"

(* The decision when nothing happens between its steps and caps admit.     *)
EvaluateHold(d, m, t) ==
  LET g == Gate(d, m, t)
      v == IF g.pc = "match" THEN Match(d, m, t) ELSE g
  IN  [decision |-> IF v.act = "allow" THEN "PASS" ELSE "DROP", reason |-> v.reason]

(* rat_arbiter.RatArbiter. *)
rat_allows(m, d, t) == \E i \in 1..Len(m) : Covers(m[i], d, t)
rat_allows_rollback(m, d, t) == \E i \in 1..Len(m) : CoversRollback(m[i], d, t)
OfflinePardonAny(d, m, t) ==                  \* mutant of OfflinePardon
  "R6" \in d.rules /\ d.code # "DROP" /\ rat_allows_rollback(m, d, t)
OfflinePardon(d, m, t) ==
  /\ d.rules \cap {"R2", "R4", "R6"} = {"R6"} /\ d.code # "DROP"
  /\ rat_allows_rollback(m, d, t)
OfflineFatal(d, m, t) ==
  \/ d.code = "DROP" \/ d.rules \cap {"R2", "R4", "R6"} # {}
  \/ "R1" \in d.rules /\ ~rat_allows(m, d, t)
Arbitrate(d, m, t) ==
  IF OfflinePardon(d, m, t) THEN [decision |-> "PASS", reason |-> "rat_rollback_match"]
  ELSE IF OfflineFatal(d, m, t) THEN [decision |-> "DROP", reason |-> "terminal_fire"]
  ELSE IF rat_allows(m, d, t) THEN [decision |-> "PASS", reason |-> "rat_match"]
  ELSE [decision |-> "DROP", reason |-> "rat_miss"]

(* decision_derivation, which recovers the decision on a logged digest; no *)
(* arbiter is an empty manifest.                                           *)
DerivedPardon(d, m, t) ==
  /\ Fired(d) \cap {"R2", "R4", "R6"} = {"R6"} /\ d.code # "DROP" /\ ~DisableRat
  /\ rat_allows_rollback(m, d, t)
DerivedFatal(d, m, t) ==
  \/ d.code = "DROP" \/ Fired(d) \cap {"R2", "R4", "R6"} # {}
  \/ "R1" \in Fired(d) /\ (DisableRat \/ ~rat_allows(m, d, t))
derive_decision(d, m, t) ==
  IF d.code = "PASS" THEN [decision |-> "PASS", reason |-> "silent_pass"]
  ELSE IF DerivedPardon(d, m, t) THEN [decision |-> "PASS", reason |-> "rat_rollback_match"]
  ELSE IF DerivedFatal(d, m, t) THEN [decision |-> "DROP", reason |-> "terminal_fire"]
  ELSE IF DisableRat THEN [decision |-> "DROP", reason |-> "rat_disabled_ablation"]
  ELSE IF rat_allows(m, d, t) THEN [decision |-> "PASS", reason |-> "rat_match"]
  ELSE [decision |-> "DROP", reason |-> "rat_miss"]

-----------------------------------------------------------------------------
(* The steps of a decision. *)

NoDigest == CHOOSE d \in Digests : TRUE       \* placeholder while there is none
Idle == [pc |-> "idle", digest |-> NoDigest, entry |-> {}, act |-> "deny",
         reason |-> "none", at |-> 0]
Going(v) == [main EXCEPT !.pc = v.pc, !.entry = v.entry, !.act = v.act,
                         !.reason = v.reason, !.at = now]

Init ==
  /\ manifest \in Manifests
  /\ slots = {}
  /\ main = Idle
  /\ row = [f \in Flows |-> "none"]
  /\ heap = {}
  /\ now = 0
  /\ seen = 0
  /\ ticket = [f \in Flows |-> Idle]

Take(d) ==
  /\ main.pc = "idle" /\ d.code # "PASS" /\ seen < MaxDigests
  /\ main' = LET v == Gate(d, manifest, now)
             IN [pc |-> v.pc, digest |-> d, entry |-> v.entry, act |-> v.act,
                 reason |-> v.reason, at |-> now]
  /\ seen' = seen + 1
  /\ UNCHANGED <<manifest, slots, row, heap, now, ticket>>

LookUp ==
  /\ main.pc = "match"
  /\ main' = Going(Match(main.digest, manifest, now))
  /\ UNCHANGED <<manifest, slots, row, heap, now, seen, ticket>>

(* check_and_record, under the lock of the manager.                        *)
Charged == CHOOSE e \in main.entry : TRUE
PruneSooner(r) == {s \in slots : s.rollout # r \/ s.due > now + 1}   \* mutant of Prune
Prune(r) == {s \in slots : s.rollout # r \/ s.due > now}
AdmitsOneMore(e, kept) ==                     \* mutant of Admits
  e.cap > 0 => Cardinality({s \in kept : s.rollout = e.rollout}) <= e.cap
AdmitsOneFewer(e, kept) ==                    \* mutant of Admits
  e.cap > 0 => Cardinality({s \in kept : s.rollout = e.rollout}) + 1 < e.cap
Admits(e, kept) ==
  e.cap > 0 => Cardinality({s \in kept : s.rollout = e.rollout}) < e.cap
check_and_record ==
  /\ main.pc = "record"
  /\ LET kept == Prune(Charged.rollout)
         session == [id |-> seen, rollout |-> Charged.rollout,
                     flow |-> main.digest.flow, due |-> now + TTL]
     IN  IF Admits(Charged, kept)
         THEN /\ slots' = kept \cup {session}
              /\ main' = [main EXCEPT !.pc = "install"]
         ELSE /\ slots' = kept
              /\ main' = [main EXCEPT !.pc = "install", !.act = "deny",
                                      !.reason = CapReason(main.reason)]
  /\ UNCHANGED <<manifest, row, heap, now, seen, ticket>>

(* install_session_override; a full table loses the row.                   *)
Install ==
  LET f == main.digest.flow
      others == {g \in Flows \ {f} : row[g] # "none"}
  IN
  /\ main.pc = "install"
  /\ IF Cardinality(others) < Capacity
     THEN /\ row' = [row EXCEPT ![f] = main.act]
          /\ heap' = heap \cup {[flow |-> f, due |-> now + TTL]}
          /\ ticket' = [ticket EXCEPT ![f] = main]
     ELSE /\ row' = [row EXCEPT ![f] = "none"]
          /\ UNCHANGED <<heap, ticket>>
  /\ main' = Idle
  /\ UNCHANGED <<manifest, slots, now, seen>>

-----------------------------------------------------------------------------
(* What happens beside a decision. *)

Expire(h) ==
  /\ h \in heap /\ h.due <= now
  /\ heap' = heap \ {h}
  /\ row' = [row EXCEPT ![h.flow] = "none"]
  /\ UNCHANGED <<manifest, slots, main, now, seen, ticket>>

(* One round of the pruner thread. *)
PruneAll ==
  /\ \E s \in slots : s.due <= now
  /\ slots' = {s \in slots : s.due > now}
  /\ UNCHANGED <<manifest, main, row, heap, now, seen, ticket>>

Reload(m) ==
  /\ m # manifest
  /\ manifest' = m
  /\ UNCHANGED <<slots, main, row, heap, now, seen, ticket>>

(* SIGUSR1: rows and heap go, the sessions of the manager stay.            *)
Reset ==
  /\ row' = [f \in Flows |-> "none"]
  /\ heap' = {}
  /\ UNCHANGED <<manifest, slots, main, now, seen, ticket>>

Tick ==
  /\ now < MaxTime
  /\ now' = now + 1
  /\ UNCHANGED <<manifest, slots, main, row, heap, seen, ticket>>

Next ==
  \/ \E d \in Digests : Take(d)
  \/ LookUp \/ check_and_record \/ Install
  \/ \E h \in heap : Expire(h)
  \/ PruneAll \/ Reset \/ Tick
  \/ \E m \in Manifests : Reload(m)

Spec == Init /\ [][Next]_vars

-----------------------------------------------------------------------------
Reasons == {"none", "terminal_fire", "rat_disabled_ablation", "rat_match", "rat_miss",
            "rat_max_concurrent", "rat_rollback_match", "rat_rollback_max_concurrent"}
Decision == [pc : {"idle", "match", "record", "install"}, digest : Digests,
             entry : SUBSET EntryType, act : {"allow", "deny"}, reason : Reasons,
             at : Nat]

(* Types; a decision to allow rests on one entry.                          *)
TypeOK ==
  /\ manifest \in Manifests
  /\ slots \subseteq [id : 1..MaxDigests, rollout : Rollouts, flow : Flows, due : Nat]
  /\ main \in Decision
  /\ main.pc # "idle" => seen > 0
  /\ main.pc = "record" => main.act = "allow"
  /\ main.act = "allow" => \E e \in main.entry : main.entry = {e}
  /\ row \in [Flows -> {"none", "allow", "deny"}]
  /\ heap \subseteq [flow : Flows, due : Nat]
  /\ now \in Nat /\ seen \in 0..MaxDigests
  /\ ticket \in [Flows -> Decision]

(* An ALLOW row comes from a digest of its own flow that no terminal rule  *)
(* fired on, and from an entry that covered it at the time: whatever was   *)
(* reloaded meanwhile, and whichever of the lookups it went through.       *)
Justified(f, k) ==
  /\ k.digest.flow = f /\ k.digest.code # "DROP" /\ ~DisableRat
  /\ Fired(k.digest) \cap {"R2", "R4"} = {}
  /\ \E e \in k.entry : /\ Covers(e, k.digest, k.at)
                        /\ "R6" \in Fired(k.digest) => k.digest.version \in e.rollback
AllowJustified == \A f \in Flows : row[f] = "allow" => Justified(f, ticket[f])

(* max_concurrent_targets: no rollout has more live sessions than the      *)
(* highest cap a manifest gives it, across reloads that lower it; a cap of *)
(* 0 is none.                                                              *)
CapsOf(r) == UNION {{m[i].cap : i \in {j \in 1..Len(m) : m[j].rollout = r}} : m \in Manifests}
Live(r) == {s \in slots : s.rollout = r /\ s.due > now}
SlotsWithinCap ==
  \A r \in Rollouts :
    0 \notin CapsOf(r) => Live(r) = {} \/ \E c \in CapsOf(r) : Cardinality(Live(r)) <= c

(* A session counts against its rollout for as long as the row it was      *)
(* decided for is meant to stand: the pruner takes no slot too early.      *)
AllowHasSlot ==
  \A f \in Flows : row[f] = "allow" /\ now < ticket[f].at + TTL =>
    \E s \in slots : /\ s.flow = f /\ s.due > now
                     /\ \E e \in ticket[f].entry : s.rollout = e.rollout

(* rat_arbiter "mirrors those semantics exactly" and derive_decision       *)
(* "mirrors Controller.evaluate_hold exactly", but for the caps, and in    *)
(* rat_arbiter the ablation flags: on every digest that reaches            *)
(* evaluate_hold they come to the same decision for the same reason.       *)
OfflineAgrees ==
  \A d \in Digests :
    d.code # "PASS" =>
      /\ EvaluateHold(d, manifest, now) = derive_decision(d, manifest, now)
      /\ ~DisableRat /\ ~DisableR6 =>
           EvaluateHold(d, manifest, now) = Arbitrate(d, manifest, now)
=============================================================================
