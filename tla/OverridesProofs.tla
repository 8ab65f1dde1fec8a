--------------------------- MODULE OverridesProofs ---------------------------
(***************************************************************************)
(* No row of session_action_override is ever forgotten: proved for every   *)
(* set of flows, table size, time to live and set of signals.              *)
(***************************************************************************)
EXTENDS Overrides, FiniteSetTheorems, TLAPS

HeapEntry == [due : Nat, flow : Flows]

Safe(f) == Held(f) \/ f \in leaked

(* What Scheduled needs to be inductive: the clock has not gone back since *)
(* the row was added, and only a handler that has set _stop may leave rows *)
(* behind.                                                                 *)
Invariant ==
  /\ TypeOK
  /\ Scheduled
  /\ \A i \in 1..Len(heap) : heap[i].due <= now + TTL
  /\ main.pc \in {"acquire", "push"} => born[main.flow] <= now
  /\ handler \in {"stop", "delete"} => stop
  /\ handler \notin {"delete", "wipe"} => drained = {}

LEMMA HasFlow == NoFlow \in Flows
  BY OverridesAssumption DEF NoFlow

(* Appending an entry that is due last keeps the others where they are. *)
LEMMA Appended ==
  ASSUME NEW h \in Seq(HeapEntry), NEW e \in HeapEntry
  PROVE  /\ Append(h, e) \in Seq(HeapEntry)
         /\ Len(Append(h, e)) = Len(h) + 1
         /\ \A i \in 1..Len(h) : Append(h, e)[i] = h[i]
         /\ Append(h, e)[Len(h) + 1] = e
  OBVIOUS

(* Taking the head moves every other entry down by one. *)
LEMMA Popped ==
  ASSUME NEW h \in Seq(HeapEntry), h # << >>
  PROVE  /\ Head(h) = h[1] /\ Head(h) \in HeapEntry
         /\ Tail(h) \in Seq(HeapEntry)
         /\ Len(Tail(h)) = Len(h) - 1
         /\ \A i \in 1..(Len(h) - 1) : Tail(h)[i] = h[i + 1]
  OBVIOUS

LEMMA Entries ==
  ASSUME NEW h \in Seq(HeapEntry), NEW i \in 1..Len(h)
  PROVE  h[i].due \in Nat /\ h[i].flow \in Flows
<1>1. h[i] \in HeapEntry
  OBVIOUS
<1> QED BY <1>1 DEF HeapEntry

(* The records that stand for threads with no key in hand. *)
LEMMA Rest ==
  /\ Idle \in [pc : {"off", "idle", "del", "add", "acquire", "push", "exited"},
              flow : Flows, act : {"allow", "deny"}]
  /\ Idle.pc = "idle"
  /\ [Idle EXCEPT !.pc = "off"] \in [pc : {"off"}, flow : Flows, act : {"allow", "deny"}]
  /\ Waiting \in [pc : {"loop", "lock", "delete", "done"}, flow : Flows]
  BY HasFlow DEF Idle, Waiting

(* What the type invariant says of the fields the steps read. *)
LEMMA Fields ==
  ASSUME Invariant
  PROVE  /\ main.pc \in {"off", "idle", "del", "add", "acquire", "push", "exited"}
         /\ main.flow \in Flows /\ main.act \in {"allow", "deny"}
         /\ born[main.flow] \in Nat /\ now \in Nat /\ TTL \in Nat
         /\ heap \in Seq(HeapEntry)
         /\ \A i \in 1..Len(heap) : heap[i].due \in Nat /\ heap[i].flow \in Flows
<1>1. heap \in Seq(HeapEntry)
  BY DEF Invariant, TypeOK, HeapEntry
<1>2. \A i \in 1..Len(heap) : heap[i].due \in Nat /\ heap[i].flow \in Flows
  BY <1>1, Entries
<1> QED BY <1>1, <1>2, OverridesAssumption DEF Invariant, TypeOK

LEMMA OrderKept ==
  ASSUME Invariant, UNCHANGED heap
  PROVE  InDueOrder'
  BY DEF Invariant, TypeOK, InDueOrder

(* A deletion adds no row, and leaves of those it tries only leaked ones. *)
LEMMA Deleted ==
  ASSUME Invariant, NEW S \in SUBSET Flows, NEW Twice \in SUBSET Flows, Delete(S, Twice)
  PROVE  /\ row' \in [Flows -> {"none", "allow", "deny"}]
         /\ leaked' \subseteq Flows /\ fails' \in 0..MaxFails
         /\ Rows' \subseteq Rows /\ Rows' \cap S \subseteq leaked'
         /\ leaked \ S \subseteq leaked'
<1>1. PICK refused \in SUBSET (S \cap Rows) :
         LET tries == Cardinality(refused) + Cardinality(refused \cap Twice)
         IN /\ tries <= fails
            /\ fails' = fails - tries
            /\ row' = [f \in Flows |-> IF f \in S \ refused THEN "none" ELSE row[f]]
            /\ leaked' = (leaked \ S) \cup refused
  BY DEF Delete
<1>2. IsFiniteSet(refused) /\ IsFiniteSet(refused \cap Twice)
  BY FS_Subset, OverridesAssumption
<1>3. Cardinality(refused) \in Nat /\ Cardinality(refused \cap Twice) \in Nat
  BY <1>2, FS_CardinalityType
<1>4. /\ row \in [Flows -> {"none", "allow", "deny"}]
      /\ fails \in 0..MaxFails /\ leaked \subseteq Flows /\ MaxFails \in Nat
  BY OverridesAssumption DEF Invariant, TypeOK
<1>5. fails' \in 0..MaxFails
  BY <1>1, <1>3, <1>4
<1>6. row' \in [Flows -> {"none", "allow", "deny"}]
  BY <1>1, <1>4
<1> QED BY <1>1, <1>4, <1>5, <1>6 DEF Rows

-----------------------------------------------------------------------------
(* The steps of the main thread. *)
LEMMA MainKeeps ==
  ASSUME Invariant, MainStep
  PROVE  Invariant'
<1> USE OverridesAssumption, HasFlow
<1>1. ASSUME NEW n \in 1..MaxBatch, GetDigests(n) PROVE Invariant'
  BY SMTT(30), <1>1 DEF GetDigests, Invariant, TypeOK, InDueOrder, Scheduled, Held, Safe, Running, Rows
<1>2. ASSUME NEW f \in Flows, NEW a \in {"allow", "deny"}, Install(f, a)
      PROVE  Invariant'
  BY SMTT(30), <1>2 DEF Install, Invariant, TypeOK, InDueOrder, Scheduled, Held, Safe, Running, Rows
<1>3. CASE EntryDel
  BY <1>3 DEF EntryDel, Invariant, TypeOK, InDueOrder, Scheduled, Held, Safe, Running, Rows
<1>4. CASE EntryAdd
  <2>1. CASE Cardinality(Rows) < Capacity
    <3>1. TypeOK'
      <4>1. main.flow \in Flows /\ main.act \in {"allow", "deny"} /\ now \in Nat
        BY Fields
      <4>2. InDueOrder'
        BY <1>4, OrderKept DEF EntryAdd
      <4>3. row' \in [Flows -> {"none", "allow", "deny"}]
        <5>1. row \in [Flows -> {"none", "allow", "deny"}]
          BY DEF Invariant, TypeOK
        <5> QED BY <1>4, <2>1, <4>1, <5>1 DEF EntryAdd
      <4>5. born' \in [Flows -> Nat]
        <5>1. born \in [Flows -> Nat]
          BY DEF Invariant, TypeOK
        <5> QED BY <1>4, <2>1, <4>1, <5>1 DEF EntryAdd
      <4>4. main' = [pc |-> "acquire", flow |-> main.flow, act |-> main.act]
        BY <1>4, <2>1 DEF EntryAdd, Invariant, TypeOK
      <4> QED BY <1>4, <4>1, <4>2, <4>3, <4>4, <4>5 DEF EntryAdd, Invariant, TypeOK
    <3>2. Scheduled'
      <4> SUFFICES ASSUME Running, ~stop, NEW f \in Flows, f \in Rows'
                   PROVE  Safe(f)'
        BY <1>4, <2>1 DEF EntryAdd, Scheduled, Held, Safe, Running, Rows
      <4>1. CASE f = main.flow
        BY <1>4, <2>1, <4>1 DEF EntryAdd, Held, Safe, Invariant, TypeOK, InDueOrder
      <4>2. CASE f # main.flow
        <5>1. f \in Rows /\ born'[f] = born[f]
          BY <1>4, <2>1, <4>2 DEF EntryAdd, Rows, Invariant, TypeOK, InDueOrder
        <5>2. Safe(f)
          BY <5>1 DEF Invariant, Scheduled, Held, Safe
        <5> QED BY <1>4, <2>1, <4>2, <5>1, <5>2 DEF EntryAdd, Held, Safe, Invariant, TypeOK, InDueOrder
      <4> QED BY <4>1, <4>2
    <3>3. born'[main'.flow] <= now'
      <4>1. main'.flow = main.flow /\ born'[main.flow] = now
        BY <1>4, <2>1 DEF EntryAdd, Invariant, TypeOK
      <4> QED BY <1>4, <4>1, Fields DEF EntryAdd
    <3> QED BY <1>4, <3>1, <3>2, <3>3 DEF EntryAdd, Invariant
  <2>2. CASE ~(Cardinality(Rows) < Capacity)
    BY SMTT(30), <1>4, <2>2 DEF EntryAdd, Invariant, TypeOK, InDueOrder, Scheduled, Held, Safe, Running, Rows, Idle
  <2> QED BY <2>1, <2>2
<1>5. CASE Acquire
  BY <1>5 DEF Acquire, Invariant, TypeOK, InDueOrder, Scheduled, Held, Safe, Running, Rows
<1>6. CASE PushExpiry
  <2> DEFINE e == [due |-> now + TTL, flow |-> main.flow]
  <2>1. e \in HeapEntry /\ heap \in Seq(HeapEntry) /\ heap' = Append(heap, e)
    BY SMTT(30), <1>6 DEF PushExpiry, PushOf, Entry, Invariant, TypeOK, InDueOrder, HeapEntry
  <2>2. /\ heap' \in Seq(HeapEntry) /\ Len(heap') = Len(heap) + 1
        /\ \A i \in 1..Len(heap) : heap'[i] = heap[i]
        /\ heap'[Len(heap) + 1] = e
    BY <2>1, Appended
  <2>3. InDueOrder'
    <3> SUFFICES ASSUME NEW i \in 1..Len(heap'), NEW j \in 1..Len(heap'), i < j
                 PROVE  heap'[i].due <= heap'[j].due
      BY DEF InDueOrder
    <3>0. Len(heap) \in Nat
      BY <2>1
    <3>1. i \in 1..Len(heap) /\ heap'[i] = heap[i]
      BY <2>2, <3>0
    <3>2. CASE j = Len(heap) + 1
      BY <2>2, <3>1, <3>2 DEF Invariant
    <3>3. CASE j \in 1..Len(heap)
      BY <2>2, <3>1, <3>3 DEF Invariant, TypeOK, InDueOrder
    <3> QED BY <2>2, <3>0, <3>2, <3>3
  <2>4. TypeOK'
    BY <1>6, <2>2, <2>3 DEF PushExpiry, PushOf, Entry, Invariant, TypeOK, InDueOrder, Idle, HeapEntry
  <2>5. Scheduled'
    <3> SUFFICES ASSUME Running, ~stop, NEW f \in Rows
                 PROVE  Safe(f)'
      BY <1>6 DEF PushExpiry, PushOf, Entry, Scheduled, Held, Safe, Running, Rows, Idle
    <3>1. f \in Flows /\ Safe(f)
      BY DEF Invariant, Scheduled, Held, Safe, Rows
    <3>2. CASE f = main.flow
      <4>1. e.flow = f /\ e.due >= born'[f] + TTL
        BY SMTT(30), <1>6, <3>2 DEF PushExpiry, PushOf, Entry, Invariant, TypeOK, InDueOrder
      <4> QED BY <2>1, <2>2, <4>1 DEF Held, Safe
    <3>3. CASE f # main.flow
      BY <1>6, <2>1, <2>2, <3>1, <3>3 DEF PushExpiry, PushOf, Entry, Held, Safe
    <3> QED BY SMTT(30), <3>2, <3>3
  <2>6. \A i \in 1..Len(heap') : heap'[i].due <= now' + TTL
    <3>1. now' = now /\ e.due = now + TTL /\ Len(heap) \in Nat
      BY <1>6, <2>1 DEF PushExpiry, PushOf
    <3> QED BY SMTT(30), <2>1, <2>2, <3>1, Fields DEF Invariant
  <2> QED BY <1>6, <2>4, <2>5, <2>6 DEF PushExpiry, PushOf, Entry, Invariant, Idle
<1>7. CASE Exit
  BY <1>7 DEF Exit, Invariant, TypeOK, InDueOrder, Scheduled, Held, Safe, Running, Rows, Idle, Waiting
<1> QED BY <1>1, <1>2, <1>3, <1>4, <1>5, <1>6, <1>7 DEF MainStep

(* The steps of a signal handler. *)
LEMMA HandlerKeeps ==
  ASSUME Invariant, HandlerStep
  PROVE  Invariant'
<1>1. CASE Drain
  <2>1. heap' = << >> /\ Len(heap') = 0
    BY <1>1 DEF Drain
  <2>2. TypeOK'
    <3>1. \A i \in 1..Len(heap) : heap[i].flow \in Flows
      BY Fields
    <3>2. heap' \in Seq(HeapEntry) /\ InDueOrder'
      BY <2>1 DEF InDueOrder
    <3>3. drained' \subseteq Flows /\ handler' \in {"delete", "wipe"}
      BY <1>1, <3>1 DEF Drain, HeapFlows
    <3> QED BY <1>1, <3>2, <3>3 DEF Drain, Invariant, TypeOK, HeapEntry
  <2>3. Scheduled'
    <3> SUFFICES ASSUME Running, ~stop, NEW f \in Rows
                 PROVE  Safe(f)'
      BY <1>1 DEF Drain, Scheduled, Held, Safe, Running, Rows
    <3>1. handler = "reset" /\ drained = {}
      BY <1>1 DEF Drain, Invariant
    <3>2. Safe(f)
      BY DEF Invariant, Scheduled, Held, Safe
    <3>3. CASE \E i \in 1..Len(heap) : heap[i].flow = f
      BY <1>1, <3>3 DEF Drain, HeapFlows, Held, Safe
    <3>4. CASE ~ \E i \in 1..Len(heap) : heap[i].flow = f
      BY <1>1, <3>1, <3>2, <3>4 DEF Drain, Held, Safe
    <3> QED BY <3>3, <3>4
  <2> QED BY <1>1, <2>1, <2>2, <2>3 DEF Drain, Invariant
<1>2. CASE Remove
  <2> DEFINE S == IF handler = "wipe" THEN Flows ELSE drained
  <2>0. /\ row' \in [Flows -> {"none", "allow", "deny"}]
        /\ leaked' \subseteq Flows /\ fails' \in 0..MaxFails
        /\ Rows' \subseteq Rows /\ Rows' \cap S \subseteq leaked'
        /\ leaked \ S \subseteq leaked'
    <3>1. drained \in SUBSET Flows
      BY DEF Invariant, TypeOK
    <3>2. CASE handler = "delete"
      <4>1. Delete(drained, {})
        BY <1>2, <3>2 DEF Remove
      <4> QED BY <3>1, <3>2, <4>1, Deleted
    <3>3. CASE handler = "wipe"
      <4>1. Delete(Flows, drained)
        BY <1>2, <3>3 DEF Remove
      <4> QED BY <3>1, <3>3, <4>1, Deleted
    <3> QED BY <1>2, <3>2, <3>3 DEF Remove
  <2> HIDE DEF S
  <2>1. UNCHANGED <<heap, owner, main, batch, expiry, stop, pending, left, now, life, born>>
        /\ drained' = {} /\ handler' = "none"
    BY <1>2 DEF Remove
  <2>2. TypeOK'
    <3>1. InDueOrder' /\ TypeOK
      BY <2>1, OrderKept DEF Invariant
    <3> QED BY <2>0, <2>1, <3>1 DEF TypeOK
  <2>3. Scheduled'
    <3> SUFFICES ASSUME Running, ~stop, NEW f \in Rows'
                 PROVE  Safe(f)'
      BY <2>1 DEF Scheduled, Safe, Running
    <3>1. f \in Rows /\ (f \in S => f \in leaked') /\ (f \in leaked \ S => f \in leaked')
      BY <2>0
    <3>2. Safe(f)
      BY <3>1 DEF Invariant, Scheduled, Safe
    <3>3. drained \subseteq S
      BY DEF S, Invariant, TypeOK
    <3> QED BY <2>1, <3>1, <3>2, <3>3 DEF Safe, Held
  <2> QED BY <2>1, <2>2, <2>3 DEF Invariant
<1> QED BY <1>1, <1>2 DEF HandlerStep

(* The steps of the expiry thread. *)
LEMMA ExpiryKeeps ==
  ASSUME Invariant, ExpiryStep
  PROVE  Invariant'
<1> USE OverridesAssumption, HasFlow
<1>1. CASE ExpiryLoop
  BY <1>1 DEF ExpiryLoop, Invariant, TypeOK, InDueOrder, Scheduled, Held, Safe, Running, Rows
<1>2. CASE ExpiryPop
  <2>1. CASE ~Due
    BY <1>2, <2>1 DEF ExpiryPop, Invariant, TypeOK, InDueOrder, Scheduled, Held, Safe, Running, Rows, Waiting
  <2>2. CASE Due
    <3>1. heap \in Seq(HeapEntry) /\ heap # << >>
      BY <2>2 DEF Due, Invariant, TypeOK, InDueOrder, HeapEntry
    <3>2. /\ heap' = Tail(heap) /\ expiry' = [pc |-> "delete", flow |-> Head(heap).flow]
          /\ UNCHANGED <<row, owner, main, batch, handler, drained, stop, pending, left,
                         now, life, born, fails, leaked>>
      BY <1>2, <2>2 DEF ExpiryPop
    <3>3. /\ Head(heap) = heap[1] /\ Head(heap) \in HeapEntry
          /\ heap' \in Seq(HeapEntry) /\ Len(heap') = Len(heap) - 1
          /\ \A i \in 1..(Len(heap) - 1) : heap'[i] = heap[i + 1]
      BY <3>1, <3>2, Popped
    <3>4. Len(heap) \in Nat
      BY <3>1
    <3>5. InDueOrder'
      <4> SUFFICES ASSUME NEW i \in 1..Len(heap'), NEW j \in 1..Len(heap'), i < j
                   PROVE  heap'[i].due <= heap'[j].due
        BY DEF InDueOrder
      <4>1. i + 1 \in 1..Len(heap) /\ j + 1 \in 1..Len(heap) /\ i + 1 < j + 1
        BY <3>3, <3>4
      <4>2. heap'[i] = heap[i + 1] /\ heap'[j] = heap[j + 1]
        BY <3>3, <3>4
      <4> QED BY <4>1, <4>2 DEF Invariant, TypeOK, InDueOrder
    <3>6. TypeOK'
      <4>1. expiry' \in [pc : {"loop", "lock", "delete", "done"}, flow : Flows]
        BY <3>2, <3>3 DEF HeapEntry
      <4> QED BY <3>2, <3>3, <3>5, <4>1 DEF Invariant, TypeOK, HeapEntry
    <3>7. Scheduled'
      <4> SUFFICES ASSUME Running, ~stop, NEW f \in Rows
                   PROVE  Safe(f)'
        BY <3>2 DEF Scheduled, Held, Safe, Running, Rows
      <4>1. Safe(f)
        BY DEF Invariant, Scheduled, Held, Safe
      <4>2. CASE \E i \in 1..Len(heap) : heap[i].flow = f /\ heap[i].due >= born[f] + TTL
        <5>1. PICK i \in 1..Len(heap) : heap[i].flow = f /\ heap[i].due >= born[f] + TTL
          BY <4>2
        <5>2. CASE i = 1
          BY <3>2, <3>3, <5>1, <5>2 DEF Held, Safe
        <5>3. CASE i # 1
          <6>1. (i - 1) \in 1..Len(heap') /\ heap'[i - 1] = heap[i]
            BY <3>3, <3>4, <5>3
          <6> QED BY <3>2, <5>1, <6>1 DEF Held, Safe
        <5> QED BY <5>2, <5>3
      <4>3. CASE main.pc \in {"acquire", "push"} /\ main.flow = f
        BY <3>2, <4>3 DEF Held, Safe
      <4>4. CASE expiry.pc = "delete" /\ expiry.flow = f
        BY <1>2, <4>4 DEF ExpiryPop
      <4>5. CASE f \in drained
        BY <3>2, <4>5 DEF Held, Safe
      <4>6. CASE f \in leaked
        BY <3>2, <4>6 DEF Safe
      <4> QED BY <4>1, <4>2, <4>3, <4>4, <4>5, <4>6 DEF Held, Safe
    <3>8. \A i \in 1..Len(heap') : heap'[i].due <= now' + TTL
      BY <3>2, <3>3, <3>4 DEF Invariant
    <3> QED BY <3>2, <3>6, <3>7, <3>8 DEF Invariant
  <2> QED BY <2>1, <2>2
<1>3. CASE ExpiryDelete
  <2>1. expiry.flow \in Flows
    BY DEF Invariant, TypeOK
  <2>2. /\ row' \in [Flows -> {"none", "allow", "deny"}]
        /\ leaked' \subseteq Flows /\ fails' \in 0..MaxFails
        /\ Rows' \subseteq Rows /\ Rows' \cap {expiry.flow} \subseteq leaked'
        /\ leaked \ {expiry.flow} \subseteq leaked'
    <3>1. Delete({expiry.flow}, {})
      BY <1>3 DEF ExpiryDelete
    <3>2. {expiry.flow} \in SUBSET Flows /\ {} \in SUBSET Flows
      BY <2>1
    <3> QED BY <3>1, <3>2, Deleted
  <2>3. /\ UNCHANGED <<heap, owner, main, batch, handler, drained, stop, pending, left,
                       now, life, born>>
        /\ expiry' = Waiting
    BY <1>3 DEF ExpiryDelete
  <2>4. TypeOK'
    <3>1. InDueOrder'
      BY <2>3, OrderKept
    <3>2. expiry' \in [pc : {"loop", "lock", "delete", "done"}, flow : Flows]
      BY <2>3, Rest
    <3>3. TypeOK
      BY DEF Invariant
    <3> QED BY <2>2, <2>3, <3>1, <3>2, <3>3 DEF TypeOK
  <2>5. Scheduled'
    <3> SUFFICES ASSUME Running, ~stop, NEW f \in Rows'
                 PROVE  Safe(f)'
      BY <2>3 DEF Scheduled, Safe, Running
    <3>1. /\ f \in Rows /\ (f = expiry.flow => f \in leaked')
          /\ (f \in leaked /\ f # expiry.flow => f \in leaked')
      BY <2>2
    <3>2. Safe(f)
      BY <3>1 DEF Invariant, Scheduled, Safe
    <3> QED BY <2>3, <3>1, <3>2 DEF Safe, Held
  <2> QED BY <2>3, <2>4, <2>5 DEF Invariant
<1> QED BY <1>1, <1>2, <1>3 DEF ExpiryStep

(* The clock, and the life of the process. *)
LEMMA LifeKeeps ==
  ASSUME Invariant, Tick \/ Crash \/ Start \/ UNCHANGED vars
  PROVE  Invariant'
<1> USE OverridesAssumption
<1>1. CASE Tick
  <2>1. now' = now + 1 /\ UNCHANGED <<row, heap, owner, main, batch, handler, drained,
                              expiry, stop, pending, left, life, born, fails, leaked>>
    BY <1>1 DEF Tick
  <2>2. TypeOK'
    <3>1. InDueOrder' /\ TypeOK
      BY <2>1, OrderKept DEF Invariant
    <3> QED BY <2>1, <3>1, Fields DEF TypeOK
  <2>3. Scheduled'
    BY <2>1 DEF Invariant, Scheduled, Held, Safe, Running, Rows
  <2>4. \A i \in 1..Len(heap') : heap'[i].due <= now' + TTL
    <3>1. \A i \in 1..Len(heap) : heap[i].due \in Nat /\ heap[i].due <= now + TTL
      BY Fields DEF Invariant
    <3>2. now \in Nat /\ TTL \in Nat
      BY Fields
    <3> QED BY SMTT(30), <2>1, <3>1, <3>2
  <2>5. main'.pc \in {"acquire", "push"} => born'[main'.flow] <= now'
    <3>1. born[main.flow] \in Nat /\ now \in Nat
      BY Fields
    <3> QED BY <2>1, <3>1 DEF Invariant
  <2>6. /\ handler' \in {"stop", "delete"} => stop'
        /\ handler' \notin {"delete", "wipe"} => drained' = {}
    BY <2>1 DEF Invariant
  <2> QED BY <2>2, <2>3, <2>4, <2>5, <2>6 DEF Invariant
<1>2. CASE Crash
  <2>1. heap' = << >> /\ Len(heap') = 0 /\ heap' \in Seq(HeapEntry)
    BY <1>2 DEF Crash
  <2>2. main' = [pc |-> "off", flow |-> NoFlow, act |-> "deny"]
    BY <1>2 DEF Crash, Idle
  <2>3. InDueOrder'
    BY <2>1 DEF InDueOrder
  <2>4. TypeOK'
    <3>1. expiry' \in [pc : {"loop", "lock", "delete", "done"}, flow : Flows]
      BY <1>2, Rest DEF Crash
    <3>2. main' \in [pc : {"off", "idle", "del", "add", "acquire", "push", "exited"},
                     flow : Flows, act : {"allow", "deny"}]
      BY <2>2, HasFlow
    <3>3. batch' \in 0..MaxBatch
      BY <1>2 DEF Crash
    <3> QED BY <1>2, <2>1, <2>3, <3>1, <3>2, <3>3 DEF Crash, Invariant, TypeOK, HeapEntry
  <2>5. Scheduled'
    BY <2>2 DEF Scheduled, Held, Safe, Running
  <2> QED BY <1>2, <2>1, <2>2, <2>4, <2>5 DEF Crash, Invariant
<1>3. CASE Start
  <2>1. heap' = << >> /\ Len(heap') = 0 /\ heap' \in Seq(HeapEntry)
    BY <1>3 DEF Start
  <2>2. InDueOrder'
    BY <2>1 DEF InDueOrder
  <2>3. /\ life' \in Nat /\ row' \in [Flows -> {"none", "allow", "deny"}]
        /\ born' \in [Flows -> Nat] /\ left' \in 0..MaxDigests /\ now' \in Nat
        /\ leaked' \subseteq Flows /\ fails' \in 0..MaxFails /\ Rows' \subseteq leaked'
    <3>1. Delete(Flows, Flows)
      BY <1>3 DEF Start
    <3>2. /\ row' \in [Flows -> {"none", "allow", "deny"}]
          /\ leaked' \subseteq Flows /\ fails' \in 0..MaxFails /\ Rows' \subseteq leaked'
      BY <3>1, Deleted DEF Rows
    <3>3. UNCHANGED <<left, now, born>> /\ life' = life + 1
      BY <1>3 DEF Start
    <3> QED BY SMTT(30), <3>2, <3>3 DEF Invariant, TypeOK
  <2>4. TypeOK'
    <3>1. batch' \in 0..MaxBatch
      BY <1>3 DEF Start
    <3>2. main' \in [pc : {"off", "idle", "del", "add", "acquire", "push", "exited"},
                     flow : Flows, act : {"allow", "deny"}]
      BY <1>3, Rest DEF Start
    <3>3. expiry' \in [pc : {"loop", "lock", "delete", "done"}, flow : Flows]
      BY <1>3, Rest DEF Start
    <3> QED BY <1>3, <2>1, <2>2, <2>3, <3>1, <3>2, <3>3 DEF Start, TypeOK, HeapEntry
  <2>5. Scheduled'
    BY <2>3 DEF Scheduled, Safe
  <2> QED BY <1>3, <2>1, <2>4, <2>5 DEF Start, Invariant, Idle
<1>4. CASE UNCHANGED vars
  <2>1. TypeOK'
    <3>1. InDueOrder' /\ TypeOK
      BY SMTT(30), <1>4, OrderKept DEF vars, Invariant
    <3> QED BY <1>4, <3>1 DEF vars, TypeOK
  <2>2. Scheduled'
    BY <1>4 DEF vars, Invariant, Scheduled, Held, Safe, Running, Rows
  <2> QED BY <1>4, <2>1, <2>2 DEF vars, Invariant
<1> QED BY <1>1, <1>2, <1>3, <1>4

-----------------------------------------------------------------------------
LEMMA InvariantHolds == Spec => []Invariant
<1>1. Init => Invariant
  <2> SUFFICES ASSUME Init PROVE Invariant
    OBVIOUS
  <2>1. heap = << >> /\ Len(heap) = 0 /\ heap \in Seq(HeapEntry)
    BY DEF Init
  <2>2. TypeOK
    <3>1. InDueOrder
      BY <2>1 DEF InDueOrder
    <3>2. row \in [Flows -> {"none", "allow", "deny"}] /\ born \in [Flows -> Nat]
      BY DEF Init
    <3>3. /\ batch \in 0..MaxBatch /\ left \in 0..MaxDigests
          /\ now \in Nat /\ life \in Nat
      BY OverridesAssumption DEF Init
    <3>4. main \in [pc : {"off", "idle", "del", "add", "acquire", "push", "exited"},
                    flow : Flows, act : {"allow", "deny"}]
      BY Rest DEF Init
    <3>5. expiry \in [pc : {"loop", "lock", "delete", "done"}, flow : Flows]
      BY Rest DEF Init
    <3>6. fails \in 0..MaxFails /\ leaked \subseteq Flows
      BY OverridesAssumption DEF Init
    <3> QED BY <2>1, <3>1, <3>2, <3>3, <3>4, <3>5, <3>6 DEF Init, TypeOK, HeapEntry
  <2>3. Scheduled
    BY DEF Init, Scheduled, Held, Safe, Rows
  <2> QED BY <2>1, <2>2, <2>3 DEF Init, Invariant, Idle
<1>2. Invariant /\ [Next]_vars => Invariant'
  <2> SUFFICES ASSUME Invariant, [Next]_vars PROVE Invariant'
    OBVIOUS
  <2>1. ASSUME NEW s \in Signals, Signal(s) PROVE Invariant'
    <3>1. TypeOK'
      <4>1. InDueOrder' /\ TypeOK
        BY <2>1, OrderKept DEF Signal, Invariant
      <4> QED BY <2>1, <4>1, OverridesAssumption DEF Signal, TypeOK
    <3>2. Scheduled'
      BY <2>1 DEF Signal, Invariant, Scheduled, Held, Safe, Running, Rows
    <3>3. handler' = "stop" => stop'
      BY <2>1 DEF Signal
    <3> QED BY <2>1, <3>1, <3>2, <3>3, OverridesAssumption DEF Signal, OnMain, Invariant
  <2> QED BY <2>1, MainKeeps, HandlerKeeps, ExpiryKeeps, LifeKeeps DEF Next
<1> QED BY <1>1, <1>2, PTL DEF Spec

(* Every reachable state is well typed and the heap stays in due order, so *)
(* that its head is the entry heappop returns.                             *)
THEOREM HeapInOrder == Spec => []TypeOK
<1>1. Invariant => TypeOK
  BY DEF Invariant
<1> QED BY <1>1, InvariantHolds, PTL

(* The controller never forgets a row of the switch, for every number of   *)
(* flows, table size, time to live, digests and lives.                     *)
THEOREM NoRowForgotten == Spec => []Scheduled
<1>1. Invariant => Scheduled
  BY DEF Invariant
<1> QED BY <1>1, InvariantHolds, PTL

-----------------------------------------------------------------------------
(* The steps of the threads as steps of the lease (OverrideLease).         *)

(* Whatever the switch refuses, a deletion revokes rows and grants none.   *)
LEMMA DeleteRevokes ==
  ASSUME row \in [Flows -> {"none", "allow", "deny"}],
         NEW S \in SUBSET Flows, NEW Twice, Delete(S, Twice)
  PROVE  Lease!Next
<1>1. PICK refused \in SUBSET (S \cap Rows) :
         row' = [f \in Flows |-> IF f \in S \ refused THEN "none" ELSE row[f]]
  BY DEF Delete
<1> DEFINE gone == (S \ refused) \cap Rows
<1>2. gone \in SUBSET Flows /\ \A f \in gone : row[f] # "none"
  BY DEF Rows
<1>3. row' = [f \in Flows |-> IF f \in gone THEN "none" ELSE row[f]]
  BY <1>1 DEF Rows
<1>4. Lease!Revoke(gone)
  BY <1>2, <1>3 DEF Lease!Revoke
<1> QED BY <1>2, <1>4 DEF Lease!Next

(* Nobody adds a row between the deletion and the addition of a renewal:   *)
(* no other thread adds any, and handlers run to their end in between.     *)
Renewing == main.pc = "add" => main.flow \notin Rows

LEMMA RenewingHolds == Spec => []Renewing
<1>1. Init => Renewing
  BY DEF Init, Idle, Renewing
<1>2. Invariant /\ Renewing /\ [Next]_vars => Renewing'
  <2> SUFFICES ASSUME Invariant, Renewing, [Next]_vars PROVE Renewing'
    OBVIOUS
  <2>0. row \in [Flows -> {"none", "allow", "deny"}]
        /\ main.flow \in Flows /\ main.act \in {"allow", "deny"}
    BY Fields DEF Invariant, TypeOK
  <2>1. CASE EntryDel
    <3>1. main'.flow = main.flow
      BY <2>1 DEF EntryDel, Invariant, TypeOK
    <3>2. row'[main.flow] = "none"
      BY <2>0, <2>1 DEF EntryDel
    <3> QED BY <3>1, <3>2 DEF Renewing, Rows
  <2>2. ASSUME NEW S \in SUBSET Flows, NEW Twice \in SUBSET Flows, Delete(S, Twice),
               UNCHANGED main
        PROVE  Renewing'
    <3>1. Rows' \subseteq Rows
      BY <2>2, Deleted
    <3> QED BY <2>2, <3>1 DEF Renewing
  <2>3. CASE Remove
    <3>1. drained \in SUBSET Flows
      BY DEF Invariant, TypeOK
    <3> QED BY <2>2, <2>3, <3>1 DEF Remove
  <2>4. CASE ExpiryDelete
    <3>1. {expiry.flow} \in SUBSET Flows
      BY DEF Invariant, TypeOK
    <3> QED BY <2>2, <2>4, <3>1 DEF ExpiryDelete
  <2>5. CASE MainStep /\ ~EntryDel
    <3>1. main'.pc # "add" \/ UNCHANGED <<main, row>>
      BY <2>5, <2>0 DEF MainStep, GetDigests, Install, EntryAdd, Acquire, PushExpiry, PushOf,
         Exit, Idle, Invariant, TypeOK
    <3> QED BY <3>1 DEF Renewing, Rows
  <2>6. CASE Crash \/ Start
    BY <2>6 DEF Crash, Start, Idle, Renewing
  <2>7. CASE ~(MainStep \/ Remove \/ ExpiryDelete \/ Crash \/ Start)
    <3>1. UNCHANGED <<main, row>>
      BY <2>7 DEF Next, vars, HandlerStep, ExpiryStep, Drain, ExpiryLoop, ExpiryPop, Tick, Signal
    <3> QED BY <3>1 DEF Renewing, Rows
  <2> QED BY <2>1, <2>3, <2>4, <2>5, <2>6, <2>7
<1> QED BY <1>1, <1>2, InvariantHolds, PTL DEF Spec

LEMMA StepIsLease ==
  ASSUME Invariant, Renewing, [Next]_vars
  PROVE  Lease!Next \/ UNCHANGED row
<1>0. row \in [Flows -> {"none", "allow", "deny"}]
      /\ main.flow \in Flows /\ main.act \in {"allow", "deny"}
  BY Fields DEF Invariant, TypeOK
<1>1. CASE EntryDel
  <2> DEFINE gone == {main.flow} \cap Rows
  <2>1. gone \in SUBSET Flows /\ \A f \in gone : row[f] # "none"
    BY DEF Rows
  <2>2. row' = [f \in Flows |-> IF f \in gone THEN "none" ELSE row[f]]
    BY <1>0, <1>1 DEF EntryDel, Rows
  <2>3. Lease!Revoke(gone)
    BY <2>1, <2>2 DEF Lease!Revoke
  <2> QED BY <2>1, <2>3 DEF Lease!Next
<1>2. CASE EntryAdd
  <2>1. row[main.flow] = "none"
    BY <1>0, <1>2 DEF EntryAdd, Renewing, Rows
  <2>2. CASE UNCHANGED row
    BY <2>2
  <2>3. CASE row' = [row EXCEPT ![main.flow] = main.act]
    <3>1. Lease!Grant(main.flow, main.act)
      BY <2>1, <2>3 DEF Lease!Grant
    <3> QED BY <1>0, <3>1 DEF Lease!Next
  <2> QED BY <1>2, <2>2, <2>3 DEF EntryAdd
<1>3. CASE Remove
  <2>1. drained \in SUBSET Flows
    BY DEF Invariant, TypeOK
  <2> QED BY <1>0, <1>3, <2>1, DeleteRevokes DEF Remove
<1>4. CASE ExpiryDelete
  <2>1. {expiry.flow} \in SUBSET Flows
    BY DEF Invariant, TypeOK
  <2> QED BY <1>0, <1>4, <2>1, DeleteRevokes DEF ExpiryDelete
<1>5. CASE Start
  BY <1>0, <1>5, DeleteRevokes DEF Start
<1>6. CASE ~(EntryDel \/ EntryAdd \/ Remove \/ ExpiryDelete \/ Start)
  BY <1>6 DEF Next, vars, MainStep, HandlerStep, ExpiryStep, GetDigests, Install, Acquire,
     PushExpiry, PushOf, Exit, Drain, ExpiryLoop, ExpiryPop, Tick, Crash, Signal
<1> QED BY <1>1, <1>2, <1>3, <1>4, <1>5, <1>6

(* The threads implement the lease, but for its promise that every row     *)
(* ends: a row is only granted to a flow that has none (a renewal deletes  *)
(* before it adds), rows are only revoked, and none is turned from allow   *)
(* into deny in place, with any signals, crashes and refused deletions in  *)
(* between.                                                                *)
THEOREM RowsAreLeases == Spec => Lease!Init /\ [][Lease!Next]_row
<1>1. Init => Lease!Init
  BY DEF Init, Lease!Init
<1>2. Invariant /\ Renewing /\ [Next]_vars => [Lease!Next]_row
  BY StepIsLease
<1> QED BY <1>1, <1>2, InvariantHolds, RenewingHolds, PTL DEF Spec
=============================================================================
