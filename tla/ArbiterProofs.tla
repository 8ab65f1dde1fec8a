---------------------------- MODULE ArbiterProofs ----------------------------
(***************************************************************************)
(* The arbiter's decisions, for every fleet, manifest, digest, cap and     *)
(* interleaving: what an ALLOW row rests on, how many sessions a rollout   *)
(* has, and that the off-switch arbiter decides alike.                     *)
(***************************************************************************)
EXTENDS Arbiter, FiniteSetTheorems, WellFoundedInduction, TLAPS

-----------------------------------------------------------------------------
(* Lookups. *)

(* A set of positions of a sequence has a least one: the initial segments  *)
(* up to its members are ordered by strict inclusion, which is             *)
(* well-founded on finite sets.                                            *)
LEMMA Least ==
  ASSUME NEW n \in Nat, NEW S \in SUBSET (1..n), S # {}
  PROVE  \E m \in S : \A k \in S : m <= k
<1> DEFINE T == {1..i : i \in S}
<1>1. T \subseteq SUBSET (1..n) /\ T # {}
  <2>1. ASSUME NEW i \in S PROVE 1..i \subseteq 1..n
    OBVIOUS
  <2>2. PICK i \in S : TRUE
    OBVIOUS
  <2>3. 1..i \in T
    BY <2>2
  <2> QED BY <2>1, <2>3
<1>2. IsWellFoundedOn(StrictSubsetOrdering(1..n), SUBSET (1..n))
  <2>1. IsFiniteSet(1..n)
    BY FS_Interval
  <2>2. FiniteSubsetsOf(1..n) = SUBSET (1..n)
    BY <2>1, FS_FiniteSubsetsOfFinite
  <2> QED BY <2>2, FS_StrictSubsetOrderingWellFounded
<1>3. PICK x \in T : \A y \in T : ~ (<<y, x>> \in StrictSubsetOrdering(1..n))
  <2> HIDE DEF T
  <2> QED BY <1>1, <1>2, WFMin
<1>4. PICK m \in S : x = 1..m
  OBVIOUS
<1>5. ASSUME NEW k \in S, k < m PROVE FALSE
  <2>1. 1..k \in T /\ 1..k \subseteq x
    BY <1>4, <1>5
  <2>2. m \in x /\ m \notin 1..k
    BY <1>4, <1>5
  <2>3. <<1..k, x>> \in StrictSubsetOrdering(1..n)
    BY <1>1, <2>1, <2>2 DEF StrictSubsetOrdering
  <2> QED BY <1>3, <2>1, <2>3
<1>6. \A k \in S : m <= k
  BY <1>5
<1> QED BY <1>6

(* A lookup returns one entry of the manifest, at a position asked for, if *)
(* there is such a position, and none otherwise.                           *)
LEMMA FirstFound ==
  ASSUME NEW m \in Seq(EntryType), NEW S \in SUBSET (1..Len(m))
  PROVE  /\ S = {} => First(m, S) = {}
         /\ S # {} => \E i \in S : First(m, S) = {m[i]}
<1>1. S = {} => First(m, S) = {}
  BY DEF First
<1>2. ASSUME S # {} PROVE \E i \in S : First(m, S) = {m[i]}
  <2>1. Len(m) \in Nat
    OBVIOUS
  <2>2. PICK i \in S : \A k \in S : i <= k
    BY <1>2, <2>1, Least
  <2>3. {j \in S : \A k \in S : j <= k} = {i}
    <3>1. \A j \in S : j \in Int
      BY <2>1
    <3>2. ASSUME NEW j \in S, \A k \in S : j <= k PROVE j = i
      <4>1. j <= i /\ i <= j
        BY <2>2, <3>2
      <4> QED BY <3>1, <4>1
    <3> QED BY <2>2, <3>2
  <2> QED BY <2>3 DEF First
<1> QED BY <1>1, <1>2

LEMMA Matching ==
  ASSUME NEW m \in Seq(EntryType), NEW d, NEW t
  PROVE  /\ (find_matching_entry(m, d, t) = {}) <=> ~rat_allows(m, d, t)
         /\ find_matching_entry(m, d, t) # {} =>
              \E i \in 1..Len(m) : /\ find_matching_entry(m, d, t) = {m[i]}
                                   /\ Covers(m[i], d, t)
<1> DEFINE S == {i \in 1..Len(m) : Covers(m[i], d, t)}
<1>1. find_matching_entry(m, d, t) = First(m, S)
  BY DEF find_matching_entry
<1>2. S \in SUBSET (1..Len(m)) /\ \A i \in S : Covers(m[i], d, t)
  OBVIOUS
<1>3. rat_allows(m, d, t) <=> S # {}
  BY DEF rat_allows
<1>4. /\ S = {} => First(m, S) = {}
      /\ S # {} => \E i \in S : First(m, S) = {m[i]}
  <2> HIDE DEF S
  <2> QED BY <1>2, FirstFound
<1> HIDE DEF S
<1> QED BY <1>1, <1>2, <1>3, <1>4

LEMMA MatchingRollback ==
  ASSUME NEW m \in Seq(EntryType), NEW d, NEW t
  PROVE  /\ (find_rollback_entry(m, d, t) = {}) <=> ~rat_allows_rollback(m, d, t)
         /\ find_rollback_entry(m, d, t) # {} =>
              \E i \in 1..Len(m) : /\ find_rollback_entry(m, d, t) = {m[i]}
                                   /\ CoversRollback(m[i], d, t)
<1> DEFINE S == {i \in 1..Len(m) : CoversRollback(m[i], d, t)}
<1>1. find_rollback_entry(m, d, t) = First(m, S)
  BY DEF find_rollback_entry
<1>2. S \in SUBSET (1..Len(m)) /\ \A i \in S : CoversRollback(m[i], d, t)
  OBVIOUS
<1>3. rat_allows_rollback(m, d, t) <=> S # {}
  BY DEF rat_allows_rollback
<1>4. /\ S = {} => First(m, S) = {}
      /\ S # {} => \E i \in S : First(m, S) = {m[i]}
  <2> HIDE DEF S
  <2> QED BY <1>2, FirstFound
<1> HIDE DEF S
<1> QED BY <1>1, <1>2, <1>3, <1>4

(* rat_arbiter and evaluate_hold, written with other lookups and in        *)
(* another order, decide alike on every manifest, digest and time, when    *)
(* no ablation flag is set and the caps admit.                             *)
THEOREM ArbitersAgree ==
  ASSUME ~DisableRat, ~DisableR6, NEW m \in Seq(EntryType), NEW d, NEW t
  PROVE  EvaluateHold(d, m, t) = Arbitrate(d, m, t)
<1>1. Fired(d) = d.rules
  BY DEF Fired
<1>2. Pardoned(d, m, t) <=> OfflinePardon(d, m, t)
  BY <1>1, MatchingRollback DEF Pardoned, RollbackGate, OfflinePardon
<1>3. (Terminal(d) \/ Replayed(d, m, t)) <=> OfflineFatal(d, m, t)
  BY <1>1, Matching DEF Terminal, Replayed, OfflineFatal
<1>4. (find_matching_entry(m, d, t) = {}) <=> ~rat_allows(m, d, t)
  BY Matching
<1>5. CASE OfflinePardon(d, m, t)
  BY <1>2, <1>5 DEF EvaluateHold, Gate, Charge, Arbitrate
<1>6. CASE ~OfflinePardon(d, m, t) /\ OfflineFatal(d, m, t)
  BY <1>2, <1>3, <1>6 DEF EvaluateHold, Gate, Drop, Arbitrate
<1>7. CASE ~OfflinePardon(d, m, t) /\ ~OfflineFatal(d, m, t)
  <2>1. Gate(d, m, t) = LookUpNext
    BY <1>2, <1>3, <1>7 DEF Gate
  <2>2. EvaluateHold(d, m, t) =
          [decision |-> IF Match(d, m, t).act = "allow" THEN "PASS" ELSE "DROP",
           reason |-> Match(d, m, t).reason]
    BY <2>1 DEF EvaluateHold, LookUpNext
  <2>3. CASE rat_allows(m, d, t)
    BY <1>4, <1>7, <2>2, <2>3 DEF Match, Charge, Arbitrate
  <2>4. CASE ~rat_allows(m, d, t)
    BY <1>4, <1>7, <2>2, <2>4 DEF Match, Drop, Arbitrate
  <2> QED BY <2>3, <2>4
<1> QED BY <1>5, <1>6, <1>7

(* decision_derivation.derive_decision and evaluate_hold agree on every    *)
(* digest that is put before the latter, ablation flags and all.           *)
THEOREM DerivationAgrees ==
  ASSUME NEW m \in Seq(EntryType), NEW d, d.code # "PASS", NEW t
  PROVE  EvaluateHold(d, m, t) = derive_decision(d, m, t)
<1>1. Pardoned(d, m, t) <=> DerivedPardon(d, m, t)
  BY MatchingRollback DEF Pardoned, RollbackGate, DerivedPardon
<1>2. (Terminal(d) \/ Replayed(d, m, t)) <=> DerivedFatal(d, m, t)
  BY Matching DEF Terminal, Replayed, DerivedFatal
<1>3. (find_matching_entry(m, d, t) = {}) <=> ~rat_allows(m, d, t)
  BY Matching
<1>4. CASE DerivedPardon(d, m, t)
  BY <1>1, <1>4 DEF EvaluateHold, Gate, Charge, derive_decision
<1>5. CASE ~DerivedPardon(d, m, t) /\ (DerivedFatal(d, m, t) \/ DisableRat)
  BY <1>1, <1>2, <1>5 DEF EvaluateHold, Gate, Drop, derive_decision
<1>6. CASE ~DerivedPardon(d, m, t) /\ ~DerivedFatal(d, m, t) /\ ~DisableRat
  <2>1. EvaluateHold(d, m, t) =
          [decision |-> IF Match(d, m, t).act = "allow" THEN "PASS" ELSE "DROP",
           reason |-> Match(d, m, t).reason]
    BY <1>1, <1>2, <1>6 DEF EvaluateHold, Gate, LookUpNext
  <2>2. CASE rat_allows(m, d, t)
    BY <1>3, <1>6, <2>1, <2>2 DEF Match, Charge, derive_decision
  <2>3. CASE ~rat_allows(m, d, t)
    BY <1>3, <1>6, <2>1, <2>3 DEF Match, Drop, derive_decision
  <2> QED BY <2>2, <2>3
<1> QED BY <1>4, <1>5, <1>6

(* So it is in every reachable state, of the digests that may arrive. *)
THEOREM OfflineArbiterAgrees == Spec => []OfflineAgrees
<1>1. ASSUME manifest \in Manifests PROVE OfflineAgrees
  <2>1. manifest \in Seq(EntryType)
    BY <1>1, ArbiterAssumption
  <2> QED BY <2>1, ArbitersAgree, DerivationAgrees DEF OfflineAgrees
<1>2. Init => manifest \in Manifests
  BY DEF Init
<1>3. manifest \in Manifests /\ [Next]_vars => (manifest \in Manifests)'
  BY DEF Next, vars, Take, LookUp, check_and_record, Install, Expire, PruneAll, Reset,
         Tick, Reload
<1> QED BY <1>1, <1>2, <1>3, PTL DEF Spec

-----------------------------------------------------------------------------
(* What the two steps that consult the manifest return. *)

Entries == UNION {{m[i] : i \in 1..Len(m)} : m \in Manifests}

(* The entry, if one is charged, covered the digest and no terminal rule   *)
(* fired.                                                                  *)
Sound(v, d, t) ==
  /\ v.pc \in {"match", "record", "install"} /\ v.act \in {"allow", "deny"}
  /\ v.reason \in Reasons /\ v.entry \subseteq EntryType
  /\ v.pc = "record" <=> v.act = "allow"
  /\ v.pc = "match" => ~Terminal(d) /\ ~DisableRat
  /\ v.pc = "record" =>
       /\ d.code # "DROP" /\ ~DisableRat /\ Fired(d) \cap {"R2", "R4"} = {}
       /\ \E e \in Entries : /\ v.entry = {e} /\ Covers(e, d, t)
                             /\ "R6" \in Fired(d) => d.version \in e.rollback

LEMMA InEntries ==
  ASSUME NEW m \in Manifests, NEW i \in 1..Len(m)
  PROVE  m[i] \in Entries /\ m[i] \in EntryType
<1>1. m \in Seq(EntryType)
  BY ArbiterAssumption
<1>2. m[i] \in EntryType
  BY <1>1
<1> QED BY <1>2 DEF Entries

LEMMA MatchSound ==
  ASSUME NEW m \in Manifests, NEW d, NEW t, ~Terminal(d), ~DisableRat
  PROVE  Sound(Match(d, m, t), d, t)
<1>1. m \in Seq(EntryType)
  BY ArbiterAssumption
<1>2. CASE find_matching_entry(m, d, t) = {}
  BY <1>2 DEF Match, Drop, Sound, Reasons
<1>3. CASE find_matching_entry(m, d, t) # {}
  <2>1. PICK i \in 1..Len(m) : find_matching_entry(m, d, t) = {m[i]} /\ Covers(m[i], d, t)
    BY <1>1, <1>3, Matching
  <2>2. m[i] \in Entries /\ m[i] \in EntryType
    BY InEntries
  <2>3. Match(d, m, t) = [pc |-> "record", entry |-> {m[i]}, act |-> "allow",
                          reason |-> "rat_match"]
    BY <1>3, <2>1 DEF Match, Charge
  <2> QED BY <2>1, <2>2, <2>3 DEF Sound, Reasons, Terminal
<1> QED BY <1>2, <1>3

LEMMA GateSound ==
  ASSUME NEW m \in Manifests, NEW d, NEW t
  PROVE  Sound(Gate(d, m, t), d, t)
<1>1. m \in Seq(EntryType)
  BY ArbiterAssumption
<1>2. CASE Pardoned(d, m, t)
  <2>1. PICK i \in 1..Len(m) : /\ find_rollback_entry(m, d, t) = {m[i]}
                               /\ CoversRollback(m[i], d, t)
    BY <1>1, <1>2, MatchingRollback DEF Pardoned
  <2>2. m[i] \in Entries /\ m[i] \in EntryType
    BY InEntries
  <2>3. Gate(d, m, t) = [pc |-> "record", entry |-> {m[i]}, act |-> "allow",
                         reason |-> "rat_rollback_match"]
    BY <1>2, <2>1 DEF Gate, Charge
  <2>4. d.code # "DROP" /\ ~DisableRat /\ Fired(d) \cap {"R2", "R4"} = {}
    BY <1>2 DEF Pardoned, RollbackGate
  <2> QED BY <2>1, <2>2, <2>3, <2>4 DEF Sound, Reasons, CoversRollback
<1>3. CASE ~Pardoned(d, m, t) /\ (Terminal(d) \/ Replayed(d, m, t))
  BY <1>3 DEF Gate, Drop, Sound, Reasons
<1>4. CASE ~Pardoned(d, m, t) /\ ~(Terminal(d) \/ Replayed(d, m, t))
  BY <1>4 DEF Gate, Drop, LookUpNext, Sound, Reasons
<1> QED BY <1>2, <1>3, <1>4

-----------------------------------------------------------------------------
(* Types, and what every decision to allow and every ALLOW row rests on.   *)

Rests(k) ==
  /\ k.digest.code # "DROP" /\ ~DisableRat /\ Fired(k.digest) \cap {"R2", "R4"} = {}
  /\ \E e \in Entries : /\ k.entry = {e} /\ Covers(e, k.digest, k.at)
                        /\ "R6" \in Fired(k.digest) => k.digest.version \in e.rollback

(* AllowJustified is not inductive: a row gets its ticket from main, so    *)
(* main has to rest on an entry from the step that charges it, and a       *)
(* decision that is to be looked up must have passed the terminal rules.   *)
Grounds ==
  /\ TypeOK
  /\ main.pc = "match" => ~Terminal(main.digest) /\ ~DisableRat /\ main.act = "deny"
  /\ main.act = "allow" => Rests(main)
  /\ \A f \in Flows : row[f] = "allow" => ticket[f].digest.flow = f /\ Rests(ticket[f])

LEMMA RestsOnOne ==
  ASSUME NEW k, Rests(k)
  PROVE  \E e \in Entries : k.entry = {e}
  BY DEF Rests

LEMMA RestsJustified ==
  ASSUME NEW k, Rests(k)
  PROVE  Justified(k.digest.flow, k)
<1>1. PICK e \in Entries : /\ k.entry = {e} /\ Covers(e, k.digest, k.at)
                           /\ "R6" \in Fired(k.digest) => k.digest.version \in e.rollback
  BY DEF Rests
<1>2. k.digest.code # "DROP" /\ ~DisableRat /\ Fired(k.digest) \cap {"R2", "R4"} = {}
  BY DEF Rests
<1> QED BY <1>1, <1>2 DEF Justified

LEMMA HasDigest ==
  /\ NoDigest \in Digests /\ Idle \in Decision
  /\ Idle.pc = "idle" /\ Idle.act = "deny"
  BY ArbiterAssumption DEF NoDigest, Idle, Decision, Reasons

(* A step of a decision that goes on as v says. *)
LEMMA Follows ==
  ASSUME TypeOK, NEW d \in Digests, NEW v, Sound(v, d, now), seen' > 0,
         main' = [pc |-> v.pc, digest |-> d, entry |-> v.entry, act |-> v.act,
                  reason |-> v.reason, at |-> now]
  PROVE  /\ main' \in Decision
         /\ main'.pc = "record" => main'.act = "allow"
         /\ main'.pc # "idle" => seen' > 0
         /\ main'.act = "allow" => \E e \in main'.entry : main'.entry = {e}
         /\ main'.pc = "match" =>
              ~Terminal(main'.digest) /\ ~DisableRat /\ main'.act = "deny"
         /\ main'.act = "allow" => Rests(main')
<1>1. main' \in Decision
  BY DEF Sound, Decision, TypeOK
<1>2. main'.act = "allow" => Rests(main')
  BY DEF Sound, Rests
<1>3. main'.act = "allow" => \E e \in main'.entry : main'.entry = {e}
  <2> SUFFICES ASSUME main'.act = "allow"
               PROVE  \E e \in main'.entry : main'.entry = {e}
    OBVIOUS
  <2>1. PICK e \in Entries : main'.entry = {e}
    BY <1>2, RestsOnOne
  <2> QED BY <2>1
<1> QED BY <1>1, <1>2, <1>3 DEF Sound

LEMMA TakeKeeps ==
  ASSUME Grounds, NEW d \in Digests, Take(d)
  PROVE  Grounds'
<1> DEFINE v == Gate(d, manifest, now)
<1>1. Sound(v, d, now)
  BY GateSound DEF Grounds, TypeOK
<1>2. main' = [pc |-> v.pc, digest |-> d, entry |-> v.entry, act |-> v.act,
               reason |-> v.reason, at |-> now]
  BY DEF Take
<1>3. seen' > 0 /\ seen' \in 0..MaxDigests
  BY ArbiterAssumption DEF Take, Grounds, TypeOK
<1> HIDE DEF v
<1>4. /\ main' \in Decision
      /\ main'.pc = "record" => main'.act = "allow"
      /\ main'.pc # "idle" => seen' > 0
      /\ main'.act = "allow" => \E e \in main'.entry : main'.entry = {e}
      /\ main'.pc = "match" => ~Terminal(main'.digest) /\ ~DisableRat /\ main'.act = "deny"
      /\ main'.act = "allow" => Rests(main')
  BY <1>1, <1>2, <1>3, Follows DEF Grounds
<1>5. TypeOK'
  <2>1. TypeOK
    BY DEF Grounds
  <2>2. UNCHANGED <<manifest, slots, row, heap, now, ticket>>
    BY DEF Take
  <2> QED BY <1>3, <1>4, <2>1, <2>2 DEF TypeOK
<1>6. \A f \in Flows : row'[f] = "allow" => ticket'[f].digest.flow = f /\ Rests(ticket'[f])
  BY DEF Take, Grounds
<1> QED BY <1>4, <1>5, <1>6 DEF Grounds

LEMMA LookUpKeeps ==
  ASSUME Grounds, LookUp
  PROVE  Grounds'
<1> DEFINE v == Match(main.digest, manifest, now)
<1>1. Sound(v, main.digest, now)
  BY MatchSound DEF Grounds, TypeOK, LookUp
<1>2. main' = [pc |-> v.pc, digest |-> main.digest, entry |-> v.entry, act |-> v.act,
               reason |-> v.reason, at |-> now]
  BY DEF LookUp, Going, Grounds, TypeOK, Decision
<1>3. seen' > 0 /\ seen' = seen /\ main.digest \in Digests
  BY DEF LookUp, Grounds, TypeOK, Decision
<1> HIDE DEF v
<1>4. /\ main' \in Decision
      /\ main'.pc = "record" => main'.act = "allow"
      /\ main'.pc # "idle" => seen' > 0
      /\ main'.act = "allow" => \E e \in main'.entry : main'.entry = {e}
      /\ main'.pc = "match" => ~Terminal(main'.digest) /\ ~DisableRat /\ main'.act = "deny"
      /\ main'.act = "allow" => Rests(main')
  BY <1>1, <1>2, <1>3, Follows DEF Grounds
<1>5. TypeOK'
  <2>1. TypeOK
    BY DEF Grounds
  <2>2. UNCHANGED <<manifest, slots, row, heap, now, seen, ticket>>
    BY DEF LookUp
  <2> QED BY <1>3, <1>4, <2>1, <2>2 DEF TypeOK
<1>6. \A f \in Flows : row'[f] = "allow" => ticket'[f].digest.flow = f /\ Rests(ticket'[f])
  BY DEF LookUp, Grounds
<1> QED BY <1>4, <1>5, <1>6 DEF Grounds

(* A charged decision has an entry to read the rollout and the cap from. *)
LEMMA ChargedEntry ==
  ASSUME Grounds, main.act = "allow"
  PROVE  /\ main.entry = {Charged} /\ Charged \in Entries
         /\ Charged \in EntryType /\ Charged.rollout \in Rollouts /\ Charged.cap \in Nat
<1>0. Rests(main)
  BY DEF Grounds
<1>1. PICK e \in Entries : main.entry = {e}
  BY <1>0, RestsOnOne
<1>2. Charged = e
  BY <1>1 DEF Charged
<1>3. e \in EntryType
  BY <1>1 DEF Grounds, TypeOK, Decision
<1> QED BY <1>1, <1>2, <1>3 DEF EntryType

LEMMA RecordKeeps ==
  ASSUME Grounds, check_and_record
  PROVE  Grounds'
<1> DEFINE session == [id |-> seen, rollout |-> Charged.rollout,
                       flow |-> main.digest.flow, due |-> now + TTL]
           kept == Prune(Charged.rollout)
<1>0. main.pc = "record" /\ main.act = "allow" /\ main \in Decision
  BY DEF check_and_record, Grounds, TypeOK
<1>1. session \in [id : 1..MaxDigests, rollout : Rollouts, flow : Flows, due : Nat]
  <2>1. Charged.rollout \in Rollouts
    BY <1>0, ChargedEntry
  <2>2. main.digest.flow \in Flows
    BY <1>0, ArbiterAssumption DEF Decision, DigestType
  <2>3. seen \in 1..MaxDigests /\ now + TTL \in Nat
    BY <1>0, ArbiterAssumption DEF Grounds, TypeOK
  <2> QED BY <2>1, <2>2, <2>3
<1>2. kept \subseteq slots
  BY DEF Prune
<1>3. CASE Admits(Charged, kept)
  <2>1. slots' = kept \cup {session} /\ main' = [main EXCEPT !.pc = "install"]
    BY <1>3 DEF check_and_record
  <2>2. main' \in Decision /\ main'.pc = "install" /\ main'.act = "allow"
        /\ main'.entry = main.entry /\ main'.digest = main.digest /\ main'.at = main.at
    BY <1>0, <2>1 DEF Decision
  <2>3. Rests(main')
    BY <1>0, <2>2 DEF Grounds, Rests
  <2>4. slots' \subseteq [id : 1..MaxDigests, rollout : Rollouts, flow : Flows, due : Nat]
    BY <1>1, <1>2, <2>1 DEF Grounds, TypeOK
  <2> QED BY <1>0, <2>2, <2>3, <2>4 DEF check_and_record, Grounds, TypeOK
<1>4. CASE ~Admits(Charged, kept)
  <2>1. slots' = kept /\ main' = [main EXCEPT !.pc = "install", !.act = "deny",
                                             !.reason = CapReason(main.reason)]
    BY <1>4 DEF check_and_record
  <2>2. main' \in Decision /\ main'.pc = "install" /\ main'.act = "deny"
    BY <1>0, <2>1 DEF Decision, CapReason, Reasons
  <2> QED BY <1>0, <1>2, <2>1, <2>2 DEF check_and_record, Grounds, TypeOK
<1> QED BY <1>3, <1>4

LEMMA InstallKeeps ==
  ASSUME Grounds, Install
  PROVE  Grounds'
<1> DEFINE f == main.digest.flow
<1>1. /\ main \in Decision /\ f \in Flows /\ now \in Nat
      /\ row \in [Flows -> {"none", "allow", "deny"}] /\ ticket \in [Flows -> Decision]
  BY ArbiterAssumption DEF Grounds, TypeOK, Decision, DigestType
<1>2. /\ main' = Idle
      /\ row' \in [Flows -> {"none", "allow", "deny"}] /\ ticket' \in [Flows -> Decision]
  BY <1>1 DEF Install, Decision
<1>3. heap' \subseteq [flow : Flows, due : Nat]
  BY <1>1, ArbiterAssumption DEF Install, Grounds, TypeOK
<1>4. \A g \in Flows : row'[g] = "allow" => ticket'[g].digest.flow = g /\ Rests(ticket'[g])
  <2> SUFFICES ASSUME NEW g \in Flows, row'[g] = "allow"
               PROVE  ticket'[g].digest.flow = g /\ Rests(ticket'[g])
    OBVIOUS
  <2>1. CASE g = f
    <3>1. main.act = "allow" /\ ticket'[g] = main
      BY <1>1, <2>1 DEF Install
    <3> QED BY <2>1, <3>1 DEF Grounds
  <2>2. CASE g # f
    <3>1. row[g] = "allow" /\ ticket'[g] = ticket[g]
      BY <1>1, <2>2 DEF Install
    <3> QED BY <3>1 DEF Grounds
  <2> QED BY <2>1, <2>2
<1>5. main'.act = "deny" /\ main'.pc = "idle" /\ main' \in Decision
  BY <1>2, HasDigest
<1>6. UNCHANGED <<manifest, slots, now, seen>>
  BY DEF Install
<1> QED BY <1>2, <1>3, <1>4, <1>5, <1>6 DEF Grounds, TypeOK

LEMMA BesideKeeps ==
  ASSUME Grounds,
         \/ \E h \in heap : Expire(h)
         \/ PruneAll \/ Reset \/ Tick \/ (\E m \in Manifests : Reload(m))
         \/ UNCHANGED vars
  PROVE  Grounds'
<1>1. ASSUME NEW h \in heap, Expire(h) PROVE Grounds'
  BY <1>1 DEF Expire, Grounds, TypeOK
<1>2. CASE PruneAll
  BY <1>2 DEF PruneAll, Grounds, TypeOK
<1>3. CASE Reset
  BY <1>3 DEF Reset, Grounds, TypeOK
<1>4. CASE Tick
  BY <1>4 DEF Tick, Grounds, TypeOK
<1>5. ASSUME NEW m \in Manifests, Reload(m) PROVE Grounds'
  BY <1>5 DEF Reload, Grounds, TypeOK
<1>6. CASE UNCHANGED vars
  BY <1>6 DEF vars, Grounds, TypeOK
<1> QED BY <1>1, <1>2, <1>3, <1>4, <1>5, <1>6

LEMMA GroundsHold == Spec => []Grounds
<1>1. Init => Grounds
  BY HasDigest, ArbiterAssumption DEF Init, Grounds, TypeOK
<1>2. Grounds /\ [Next]_vars => Grounds'
  BY TakeKeeps, LookUpKeeps, RecordKeeps, InstallKeeps, BesideKeeps DEF Next
<1> QED BY <1>1, <1>2, PTL DEF Spec

(* Every reachable state is well typed, and a decision to allow rests on   *)
(* one entry.                                                              *)
THEOREM TypeCorrect == Spec => []TypeOK
<1>1. Grounds => TypeOK
  BY DEF Grounds
<1> QED BY <1>1, GroundsHold, PTL

(* An ALLOW row comes from a digest of its own flow on which no terminal   *)
(* rule fired, and from an entry that covered it at the time, whatever the *)
(* reloads, resets and delays between the steps of the decision.           *)
THEOREM AllowRowsJustified == Spec => []AllowJustified
<1>1. Grounds => AllowJustified
  BY RestsJustified DEF Grounds, AllowJustified
<1> QED BY <1>1, GroundsHold, PTL

-----------------------------------------------------------------------------
(* The cap. *)

LEMMA CapOfEntry ==
  ASSUME NEW e \in Entries
  PROVE  e.cap \in CapsOf(e.rollout)
<1>1. PICK m \in Manifests : \E i \in 1..Len(m) : e = m[i]
  BY DEF Entries
<1> QED BY <1>1 DEF CapsOf

Capped(r) ==
  0 \notin CapsOf(r) => Live(r) = {} \/ \E c \in CapsOf(r) : Cardinality(Live(r)) <= c

LEMMA CapsAreNat ==
  ASSUME NEW r, NEW c \in CapsOf(r)
  PROVE  c \in Nat
<1>1. PICK m \in Manifests : \E i \in 1..Len(m) : c = m[i].cap
  BY DEF CapsOf
<1>2. PICK j \in 1..Len(m) : c = m[j].cap
  BY <1>1
<1>3. m[j] \in EntryType
  BY InEntries
<1> QED BY <1>2, <1>3 DEF EntryType

(* A set of sessions that shrinks stays within the cap. *)
LEMMA ShrinkKeepsCap ==
  ASSUME NEW r \in Rollouts, IsFiniteSet(slots), Capped(r), Live(r)' \subseteq Live(r)
  PROVE  Capped(r)'
<1>1. CapsOf(r)' = CapsOf(r)
  BY DEF CapsOf
<1>2. IsFiniteSet(Live(r))
  BY FS_Subset DEF Live
<1>3. /\ Cardinality(Live(r)') <= Cardinality(Live(r))
      /\ Cardinality(Live(r)) \in Nat /\ Cardinality(Live(r)') \in Nat
  BY <1>2, FS_Subset, FS_CardinalityType
<1>4. ASSUME NEW c \in CapsOf(r), Cardinality(Live(r)) <= c
      PROVE  Cardinality(Live(r)') <= c
  BY <1>3, <1>4, CapsAreNat
<1> QED BY <1>1, <1>4 DEF Capped

(* The sessions of the charged rollout that are kept are its live ones, so *)
(* one more is admitted only below the cap of the entry.                   *)
LEMMA RecordKeepsCap ==
  ASSUME Grounds, check_and_record, IsFiniteSet(slots), NEW r \in Rollouts, Capped(r)
  PROVE  Capped(r)'
<1> DEFINE session == [id |-> seen, rollout |-> Charged.rollout,
                       flow |-> main.digest.flow, due |-> now + TTL]
           kept == Prune(Charged.rollout)
<1>1. now' = now /\ CapsOf(r)' = CapsOf(r)
  BY DEF check_and_record, CapsOf
<1>2. CASE Admits(Charged, kept) /\ r = Charged.rollout
  <2>1. main.act = "allow"
    BY DEF check_and_record, Grounds, TypeOK
  <2>2. Charged \in Entries /\ Charged.cap \in Nat
    BY <2>1, ChargedEntry
  <2>3. Charged.cap \in CapsOf(r)
    BY <1>2, <2>2, CapOfEntry
  <2>4. {s \in kept : s.rollout = r} = Live(r)
    BY <1>2 DEF Prune, Live
  <2>5. slots' = kept \cup {session}
    BY <1>2 DEF check_and_record
  <2>6. Live(r)' \subseteq Live(r) \cup {session}
    BY <1>1, <2>5, <1>2 DEF Live, Prune
  <2>7. IsFiniteSet(Live(r))
    BY FS_Subset DEF Live
  <2>8. IsFiniteSet(Live(r) \cup {session})
        /\ Cardinality(Live(r) \cup {session}) <= Cardinality(Live(r)) + 1
    <3> HIDE DEF session
    <3>1. Cardinality(Live(r)) \in Nat
      BY <2>7, FS_CardinalityType
    <3>2. /\ IsFiniteSet(Live(r) \cup {session})
          /\ \/ Cardinality(Live(r) \cup {session}) = Cardinality(Live(r))
             \/ Cardinality(Live(r) \cup {session}) = Cardinality(Live(r)) + 1
      BY <2>7, FS_AddElement
    <3> QED BY <3>1, <3>2
  <2>9. Cardinality(Live(r)') <= Cardinality(Live(r) \cup {session})
    BY <2>6, <2>8, FS_Subset
  <2>10. IsFiniteSet(Live(r)')
    BY <2>6, <2>8, FS_Subset
  <2>11. /\ Cardinality(Live(r)) \in Nat /\ Cardinality(Live(r)') \in Nat
         /\ Cardinality(Live(r) \cup {session}) \in Nat
    BY <2>7, <2>8, <2>10, FS_CardinalityType
  <2>12. ASSUME 0 \notin CapsOf(r) PROVE Cardinality(Live(r)') <= Charged.cap
    <3>1. Charged.cap > 0
      BY <2>2, <2>3, <2>12
    <3>2. Cardinality(Live(r)) < Charged.cap
      BY <1>2, <2>4, <3>1 DEF Admits
    <3> HIDE DEF session
    <3> QED BY <2>2, <2>8, <2>9, <2>11, <3>2
  <2> QED BY <1>1, <2>3, <2>12 DEF Capped
<1>3. CASE ~Admits(Charged, kept) \/ r # Charged.rollout
  <2>1. Live(r)' \subseteq Live(r)
    BY <1>1, <1>3 DEF check_and_record, Live, Prune
  <2> QED BY <2>1, ShrinkKeepsCap
<1> QED BY <1>2, <1>3

(* Whatever manifests are loaded and however sessions end, a rollout with  *)
(* a cap in each of them has at most as many live sessions as one of its   *)
(* caps allows.                                                            *)
THEOREM CapsHold == Spec => []SlotsWithinCap
<1> DEFINE Inv == IsFiniteSet(slots) /\ \A r \in Rollouts : Capped(r)
<1>1. Init => Inv
  BY FS_EmptySet DEF Init, Capped, Live
<1>2. Grounds /\ Inv /\ [Next]_vars => Inv'
  <2> SUFFICES ASSUME Grounds, Inv, [Next]_vars PROVE Inv'
    OBVIOUS
  <2>1. CASE check_and_record
    <3>1. IsFiniteSet(slots')
      <4>1. IsFiniteSet(Prune(Charged.rollout))
        BY FS_Subset DEF Prune
      <4> DEFINE session == [id |-> seen, rollout |-> Charged.rollout,
                             flow |-> main.digest.flow, due |-> now + TTL]
      <4>2. IsFiniteSet(Prune(Charged.rollout) \cup {session})
        BY <4>1, FS_AddElement
      <4> QED BY <2>1, <4>1, <4>2 DEF check_and_record
    <3> QED BY <2>1, <3>1, RecordKeepsCap
  <2>2. CASE ~check_and_record
    <3>1. slots' \subseteq slots /\ now' >= now /\ now \in Nat /\ now' \in Nat
      BY <2>2 DEF Next, vars, Grounds, TypeOK, Take, LookUp, Install, Expire, PruneAll,
                  Reset, Tick, Reload
    <3>2. \A s \in slots : s.due \in Nat
      BY DEF Grounds, TypeOK
    <3>3. \A r \in Rollouts : Live(r)' \subseteq Live(r)
      BY <3>1, <3>2 DEF Live
    <3>4. IsFiniteSet(slots')
      BY <3>1, FS_Subset
    <3> QED BY <3>3, <3>4, ShrinkKeepsCap
  <2> QED BY <2>1, <2>2
<1>3. Inv => SlotsWithinCap
  BY DEF Capped, SlotsWithinCap
<1> HIDE DEF Inv
<1> QED BY <1>1, <1>2, <1>3, GroundsHold, PTL DEF Spec

-----------------------------------------------------------------------------
(* The slot of a row. *)

Holds(k) ==
  \E s \in slots : /\ s.flow = k.digest.flow /\ s.due >= k.at + TTL
                   /\ \E e \in k.entry : s.rollout = e.rollout

(* AllowHasSlot is not inductive: the row comes from a decision that was   *)
(* charged earlier, and the slot was due no sooner than the decision's own *)
(* time plus the TTL.                                                      *)
Slotted ==
  /\ main.at <= now
  /\ main.pc = "install" /\ main.act = "allow" /\ now < main.at + TTL => Holds(main)
  /\ \A f \in Flows : row[f] = "allow" /\ now < ticket[f].at + TTL => Holds(ticket[f])

(* A slot is not lost before its time is over. *)
LEMMA SlotStays ==
  ASSUME Grounds, NEW k, k.at \in Nat, Holds(k), now' < k.at + TTL,
         now \in Nat, now' \in Nat, now <= now',
         \A s \in slots : s.due > now => s \in slots'
  PROVE  Holds(k)'
<1>1. PICK s \in slots : /\ s.flow = k.digest.flow /\ s.due >= k.at + TTL
                         /\ \E e \in k.entry : s.rollout = e.rollout
  BY DEF Holds
<1>2. s.due \in Nat /\ TTL \in Nat
  BY ArbiterAssumption DEF Grounds, TypeOK
<1>3. s.due > now
  BY <1>1, <1>2
<1> QED BY <1>1, <1>3 DEF Holds

LEMMA RecordHolds ==
  ASSUME Grounds, Slotted, check_and_record, main'.act = "allow"
  PROVE  Holds(main)'
<1> DEFINE session == [id |-> seen, rollout |-> Charged.rollout,
                       flow |-> main.digest.flow, due |-> now + TTL]
<1>1. main.act = "allow" /\ main.at \in Nat /\ now \in Nat /\ TTL \in Nat
  BY ArbiterAssumption DEF check_and_record, Grounds, TypeOK, Decision
<1>2. Admits(Charged, Prune(Charged.rollout))
  BY DEF check_and_record, Grounds, TypeOK, Decision
<1>3. session \in slots' /\ main' = [main EXCEPT !.pc = "install"]
  BY <1>2 DEF check_and_record
<1>4. main'.digest = main.digest /\ main'.entry = main.entry /\ main'.at = main.at
  BY <1>3 DEF Grounds, TypeOK, Decision
<1>5. main.entry = {Charged}
  BY <1>1, ChargedEntry
<1>6. session.due >= main.at + TTL
  BY <1>1 DEF Slotted
<1> QED BY <1>3, <1>4, <1>5, <1>6 DEF Holds

LEMMA SlottedKept ==
  ASSUME Grounds, Grounds', Slotted, [Next]_vars
  PROVE  Slotted'
<1>1. /\ now \in Nat /\ now' \in Nat /\ now <= now' /\ main.at \in Nat /\ TTL \in Nat
      /\ \A f \in Flows : ticket[f].at \in Nat
  BY ArbiterAssumption DEF Grounds, TypeOK, Decision, Next, vars, Take, LookUp, check_and_record,
         Install, Expire, PruneAll, Reset, Tick, Reload
<1>2. \A s \in slots : s.due > now => s \in slots'
  BY DEF Next, vars, Take, LookUp, check_and_record, Prune, Install, Expire, PruneAll,
         Reset, Tick, Reload
<1>3. main'.at <= now'
  <2>0. main \in Decision
    BY DEF Grounds, TypeOK
  <2>1. main'.at \in {main.at, now, 0}
    <3>1. ASSUME NEW d \in Digests, Take(d) PROVE main'.at = now
      BY <3>1 DEF Take
    <3>2. CASE LookUp
      BY <2>0, <3>2 DEF LookUp, Going, Decision
    <3>3. CASE check_and_record
      BY <2>0, <3>3 DEF check_and_record, Decision
    <3>4. CASE Install
      BY <3>4 DEF Install, Idle
    <3>5. CASE main' = main
      BY <3>5
    <3> QED BY <3>1, <3>2, <3>3, <3>4, <3>5
        DEF Next, vars, Expire, PruneAll, Reset, Tick, Reload
  <2> QED BY <1>1, <2>1 DEF Slotted
<1>4. main'.pc = "install" /\ main'.act = "allow" /\ now' < main'.at + TTL => Holds(main)'
  <2> SUFFICES ASSUME main'.pc = "install", main'.act = "allow", now' < main'.at + TTL
               PROVE  Holds(main)'
    OBVIOUS
  <2>1. CASE check_and_record
    BY <2>1, RecordHolds
  <2>2. ASSUME NEW d \in Digests, Take(d) PROVE FALSE
    <3>1. Sound(Gate(d, manifest, now), d, now)
      BY GateSound DEF Grounds, TypeOK
    <3> QED BY <2>2, <3>1 DEF Take, Sound
  <2>3. CASE LookUp
    <3>1. Sound(Match(main.digest, manifest, now), main.digest, now)
      BY <2>3, MatchSound DEF Grounds, TypeOK, LookUp
    <3>2. /\ main'.pc = Match(main.digest, manifest, now).pc
          /\ main'.act = Match(main.digest, manifest, now).act
      BY <2>3 DEF LookUp, Going, Grounds, TypeOK, Decision
    <3> QED BY <3>1, <3>2 DEF Sound
  <2>4. CASE Install
    BY <2>4 DEF Install, Idle
  <2>5. CASE main' = main
    <3>1. Holds(main)
      BY <1>1, <2>5 DEF Slotted
    <3>2. Holds(main)'
      BY <1>1, <1>2, <2>5, <3>1, SlotStays DEF Holds
    <3> QED BY <3>2
  <2> QED BY <2>1, <2>2, <2>3, <2>4, <2>5 DEF Next, vars, Expire, PruneAll, Reset, Tick, Reload
<1>5. ASSUME NEW f \in Flows, row'[f] = "allow", now' < ticket'[f].at + TTL
      PROVE  Holds(ticket[f])'
  <2>1. CASE row[f] = "allow" /\ ticket'[f] = ticket[f]
    <3>1. Holds(ticket[f])
      BY <1>1, <1>5, <2>1 DEF Slotted
    <3>2. Holds(ticket[f])'
      BY <1>1, <1>2, <1>5, <2>1, <3>1, SlotStays DEF Holds
    <3> QED BY <3>2
  <2>2. CASE Install /\ f = main.digest.flow
    <3>1. ticket'[f] = main /\ main.act = "allow" /\ main.pc = "install"
          /\ slots' = slots /\ now' = now
      BY <1>5, <2>2 DEF Install, Grounds, TypeOK
    <3>2. Holds(main)
      BY <1>1, <1>5, <3>1 DEF Slotted
    <3> QED BY <3>1, <3>2 DEF Holds
  <2>3. CASE ~(Install /\ f = main.digest.flow)
    <3>1. row[f] = "allow" /\ ticket'[f] = ticket[f]
      BY <1>5, <2>3 DEF Grounds, TypeOK, Next, vars, Take, LookUp, check_and_record, Install,
         Expire, PruneAll, Reset, Tick, Reload
    <3> QED BY <2>1, <3>1
  <2> QED BY <2>2, <2>3
<1> QED BY <1>3, <1>4, <1>5 DEF Slotted

(* The slot of a session outlasts the window its row was decided for:      *)
(* neither pruner takes it early, and no reload or reset does.             *)
THEOREM RowsHaveSlots == Spec => []AllowHasSlot
<1>1. Init => Slotted
  BY DEF Init, Slotted, Idle
<1>2. Grounds /\ Grounds' /\ Slotted /\ [Next]_vars => Slotted'
  BY SlottedKept
<1>3. Grounds /\ Slotted => AllowHasSlot
  <2> SUFFICES ASSUME Grounds, Slotted, NEW f \in Flows, row[f] = "allow",
                      now < ticket[f].at + TTL
               PROVE  \E s \in slots : /\ s.flow = f /\ s.due > now
                                       /\ \E e \in ticket[f].entry : s.rollout = e.rollout
    BY DEF AllowHasSlot
  <2>1. PICK s \in slots : /\ s.flow = ticket[f].digest.flow /\ s.due >= ticket[f].at + TTL
                           /\ \E e \in ticket[f].entry : s.rollout = e.rollout
    BY DEF Slotted, Holds
  <2>2. s.due \in Nat /\ now \in Nat /\ ticket[f].at \in Nat /\ TTL \in Nat
    BY ArbiterAssumption DEF Grounds, TypeOK, Decision
  <2> QED BY <2>1, <2>2 DEF Grounds
<1> QED BY <1>1, <1>2, <1>3, GroundsHold, PTL DEF Spec
=============================================================================
