------------------------------ MODULE Overrides ------------------------------
(***************************************************************************)
(* The controller's session overrides (controller/ota_shield_controller.py)*)
(* at the granularity of its threads: the main thread installs a row with  *)
(* an RPC to delete, an RPC to add and a push on the expiry heap; the      *)
(* expiry thread pops what is due under the lock and deletes the row after *)
(* it has let the lock go; signal handlers run on the main thread, between *)
(* any two of its steps; the process may die and come back, and the rows   *)
(* live in the switch, not in the process.                                 *)
(***************************************************************************)
EXTENDS Integers, Sequences, FiniteSets

CONSTANTS
  Flows,        \* 5-tuple keys
  Capacity,     \* size of session_action_override
  TTL,          \* HOLD_OVERRIDE_TTL_S
  Signals,      \* the signals that may arrive, each once per life
  MaxDigests,   \* bound: HOLD digests in all
  MaxTime,      \* bound: the clock goes on only while something is to expire
  MaxBatch,     \* bound: HOLD digests in one DigestList
  MaxLives,     \* bound: lives of the process
  MaxFails      \* bound: deletions the switch refuses

ASSUME OverridesAssumption ==
  /\ IsFiniteSet(Flows) /\ Flows # {}
  /\ {Capacity, TTL, MaxDigests, MaxTime, MaxBatch, MaxLives,
      MaxFails} \subseteq Nat
  /\ Signals \subseteq {"stop", "reset"}

VARIABLES
  row,       \* session_action_override in the switch
  heap,      \* _expiry_heap, sorted: due times are pushed in order
  owner,     \* holder of _expiry_lock
  main,      \* [pc, flow, act] of the main thread
  batch,     \* digests left in the DigestList being handled
  handler,   \* where the signal handler on the main thread is
  drained,   \* keys the handler took off the heap
  expiry,    \* [pc, flow] of the expiry thread
  stop,      \* _stop
  pending,   \* signals that may still arrive in this life
  left,      \* bound: digests still to come
  now,       \* time.time()
  life,      \* lives so far
  born,      \* history: when the row of a flow was added
  fails,     \* bound: deletions that may still be refused
  leaked     \* history: flows whose last deletion was refused

vars == <<row, heap, owner, main, batch, handler, drained, expiry, stop,
          pending, left, now, life, born, fails, leaked>>

NoFlow == CHOOSE f \in Flows : TRUE      \* placeholder while a thread has no key
Idle == [pc |-> "idle", flow |-> NoFlow, act |-> "deny"]
Waiting == [pc |-> "loop", flow |-> NoFlow]

Rows == {f \in Flows : row[f] # "none"}
HeapFlows == {heap[i].flow : i \in 1..Len(heap)}
Running == main.pc \notin {"off", "exited"}
OnMain == handler = "none"               \* no handler preempts the main thread

Init ==
  /\ row = [f \in Flows |-> "none"]
  /\ heap = << >>
  /\ owner = "none"
  /\ main = Idle
  /\ batch = 0
  /\ handler = "none"
  /\ drained = {}
  /\ expiry = Waiting
  /\ stop = FALSE
  /\ pending = Signals
  /\ left = MaxDigests
  /\ now = 0
  /\ life = 1
  /\ born = [f \in Flows |-> 0]
  /\ fails = MaxFails
  /\ leaked = {}

(* The deletion of the rows of S, one after the other.  One that the switch *)
(* refuses is logged at most; those of Twice get a second try.              *)
Delete(S, Twice) ==
  \E refused \in SUBSET (S \cap Rows) :
    LET tries == Cardinality(refused) + Cardinality(refused \cap Twice)
    IN /\ tries <= fails
       /\ fails' = fails - tries
       /\ row' = [f \in Flows |-> IF f \in S \ refused THEN "none" ELSE row[f]]
       /\ leaked' = (leaked \ S) \cup refused

-----------------------------------------------------------------------------
(* The main thread: run's digest loop and install_session_override.        *)

GetDigests(n) ==
  /\ OnMain /\ main.pc = "idle" /\ batch = 0 /\ ~stop /\ n <= left
  /\ batch' = n
  /\ left' = left - n
  /\ UNCHANGED <<row, heap, owner, main, handler, drained, expiry, stop, pending,
                 now, life, born, fails, leaked>>

(* evaluate_hold has decided; which way is left open here. *)
Install(f, a) ==
  /\ OnMain /\ main.pc = "idle" /\ batch > 0
  /\ main' = [pc |-> "del", flow |-> f, act |-> a]
  /\ batch' = batch - 1
  /\ UNCHANGED <<row, heap, owner, handler, drained, expiry, stop, pending, left, now,
                 life, born, fails, leaked>>

EntryDelSkipped ==                       \* mutant of EntryDel
  /\ OnMain /\ main.pc = "del"
  /\ main' = [main EXCEPT !.pc = "add"]
  /\ UNCHANGED <<row, heap, owner, batch, handler, drained, expiry, stop, pending, left,
                 now, life, born, fails, leaked>>

EntryDel ==
  /\ OnMain /\ main.pc = "del"
  /\ row' = [row EXCEPT ![main.flow] = "none"]
  /\ leaked' = leaked \ {main.flow}
  /\ main' = [main EXCEPT !.pc = "add"]
  /\ UNCHANGED <<heap, owner, batch, handler, drained, expiry, stop, pending, left, now,
                 life, born, fails>>

(* A full table is logged and nothing is scheduled. *)
EntryAdd ==
  /\ OnMain /\ main.pc = "add"
  /\ IF Cardinality(Rows) < Capacity
     THEN /\ row' = [row EXCEPT ![main.flow] = main.act]
          /\ born' = [born EXCEPT ![main.flow] = now]
          /\ main' = [main EXCEPT !.pc = "acquire"]
     ELSE /\ main' = Idle
          /\ UNCHANGED <<row, born>>
  /\ UNCHANGED <<heap, owner, batch, handler, drained, expiry, stop, pending, left, now,
                 life, fails, leaked>>

Acquire ==
  /\ OnMain /\ main.pc = "acquire" /\ owner = "none"
  /\ owner' = "main"
  /\ main' = [main EXCEPT !.pc = "push"]
  /\ UNCHANGED <<row, heap, batch, handler, drained, expiry, stop, pending, left, now,
                 life, born, fails, leaked>>

PushOf(h) ==
  /\ OnMain /\ main.pc = "push"
  /\ heap' = h
  /\ owner' = "none"
  /\ main' = Idle
  /\ UNCHANGED <<row, batch, handler, drained, expiry, stop, pending, left, now, life,
                 born, fails, leaked>>

Entry == [due |-> now + TTL, flow |-> main.flow]
PushExpiryOnce ==                        \* mutant of PushExpiry
  PushOf(IF main.flow \in HeapFlows THEN heap ELSE Append(heap, Entry))
PushExpiryFirst == PushOf(<<Entry>> \o heap)   \* mutant of PushExpiry

PushExpiry == PushOf(Append(heap, Entry))

(* The loop condition of run(); the daemon threads die with the process. *)
Exit ==
  /\ OnMain /\ main.pc = "idle" /\ batch = 0 /\ stop
  /\ main' = [Idle EXCEPT !.pc = "exited"]
  /\ expiry' = Waiting
  /\ UNCHANGED <<row, heap, owner, batch, handler, drained, stop, pending, left, now,
                 life, born, fails, leaked>>

MainStep ==
  \/ \E n \in 1..MaxBatch : GetDigests(n)
  \/ \E f \in Flows, a \in {"allow", "deny"} : Install(f, a)
  \/ EntryDel \/ EntryAdd \/ Acquire \/ PushExpiry \/ Exit

-----------------------------------------------------------------------------
(* Signal handlers.  Python runs them on the main thread between two       *)
(* bytecodes, so the thread they interrupt may hold the lock they want.    *)

Signal(s) ==
  /\ s \in pending /\ OnMain /\ Running
  /\ pending' = pending \ {s}
  /\ handler' = s
  /\ stop' = (stop \/ s = "stop")
  /\ UNCHANGED <<row, heap, owner, main, batch, drained, expiry, left, now, life, born,
                 fails, leaked>>

(* handle_stop and _clear_overrides empty the heap under the lock ... *)
Drain ==
  /\ handler \in {"stop", "reset"} /\ owner = "none"
  /\ drained' = HeapFlows
  /\ heap' = << >>
  /\ handler' = IF handler = "stop" THEN "delete" ELSE "wipe"
  /\ UNCHANGED <<row, owner, main, batch, expiry, stop, pending, left, now, life,
                 born, fails, leaked>>

(* ... and delete the rows after letting it go.  A reset then also deletes *)
(* every row the switch still reports.                                     *)
Remove ==
  /\ \/ handler = "delete" /\ Delete(drained, {})
     \/ handler = "wipe" /\ Delete(Flows, drained)
  /\ drained' = {}
  /\ handler' = "none"
  /\ UNCHANGED <<heap, owner, main, batch, expiry, stop, pending, left, now, life, born>>

HandlerStep == Drain \/ Remove

-----------------------------------------------------------------------------
(* The expiry thread (_expiry_loop).                                       *)

Due == heap # << >> /\ Head(heap).due <= now

ExpiryLoop ==
  /\ Running /\ expiry.pc = "loop"
  /\ expiry' = [expiry EXCEPT !.pc = IF stop THEN "done" ELSE "lock"]
  /\ UNCHANGED <<row, heap, owner, main, batch, handler, drained, stop, pending,
                 left, now, life, born, fails, leaked>>

(* Under the lock: pop what is due, or wait (which gives the lock back). *)
ExpiryPop ==
  /\ Running /\ expiry.pc = "lock" /\ owner = "none"
  /\ IF Due THEN /\ expiry' = [pc |-> "delete", flow |-> Head(heap).flow]
                 /\ heap' = Tail(heap)
            ELSE /\ expiry' = Waiting
                 /\ heap' = heap
  /\ UNCHANGED <<row, owner, main, batch, handler, drained, stop, pending, left, now,
                 life, born, fails, leaked>>

ExpiryDelete ==
  /\ Running /\ expiry.pc = "delete"
  /\ Delete({expiry.flow}, {})
  /\ expiry' = Waiting
  /\ UNCHANGED <<heap, owner, main, batch, handler, drained, stop, pending, left, now,
                 life, born>>

ExpiryStep == ExpiryLoop \/ ExpiryPop \/ ExpiryDelete

-----------------------------------------------------------------------------
(* The clock and the life of the process.                                  *)

Tick ==
  /\ now < MaxTime \/ \E i \in 1..Len(heap) : heap[i].due > now
  /\ now' = now + 1
  /\ UNCHANGED <<row, heap, owner, main, batch, handler, drained, expiry, stop,
                 pending, left, life, born, fails, leaked>>

(* Killed, or run() left by an exception: the rows stay in the switch. *)
Crash ==
  /\ Running /\ life < MaxLives
  /\ main' = [Idle EXCEPT !.pc = "off"]
  /\ heap' = << >> /\ owner' = "none" /\ batch' = 0
  /\ handler' = "none" /\ drained' = {} /\ expiry' = Waiting
  /\ UNCHANGED <<row, stop, pending, left, now, life, born, fails, leaked>>

(* run() flushes the rows of an earlier life before it takes a digest, and *)
(* the startup reset wipes the table again.                                *)
Start ==
  /\ ~Running /\ life < MaxLives
  /\ Delete(Flows, Flows)
  /\ heap' = << >> /\ owner' = "none" /\ main' = Idle /\ batch' = 0
  /\ handler' = "none" /\ drained' = {} /\ expiry' = Waiting
  /\ stop' = FALSE /\ pending' = Signals
  /\ life' = life + 1
  /\ UNCHANGED <<left, now, born>>

Next ==
  \/ MainStep \/ HandlerStep \/ ExpiryStep \/ Tick \/ Crash \/ Start
  \/ \E s \in Signals : Signal(s)

Spec == Init /\ [][Next]_vars

(* Runnable threads are scheduled and time passes; nothing is assumed of   *)
(* digests, signals, crashes and restarts.                                 *)
Threads == EntryDel \/ EntryAdd \/ Acquire \/ PushExpiry \/ Exit
           \/ (\E f \in Flows, a \in {"allow", "deny"} : Install(f, a))
Fairness == /\ WF_vars(Threads) /\ WF_vars(HandlerStep)
            /\ WF_vars(ExpiryStep) /\ WF_vars(Tick)
FairSpec == Spec /\ Fairness

-----------------------------------------------------------------------------
InDueOrder == \A i, j \in 1..Len(heap) : i < j => heap[i].due <= heap[j].due

(* Types, and the order of the heap that lets a sequence stand for it. *)
TypeOK ==
  /\ row \in [Flows -> {"none", "allow", "deny"}]
  /\ heap \in Seq([due : Nat, flow : Flows])
  /\ InDueOrder
  /\ owner \in {"none", "main"}
  /\ main \in [pc : {"off", "idle", "del", "add", "acquire", "push", "exited"},
               flow : Flows, act : {"allow", "deny"}]
  /\ batch \in 0..MaxBatch
  /\ handler \in {"none", "stop", "reset", "delete", "wipe"}
  /\ drained \subseteq Flows
  /\ expiry \in [pc : {"loop", "lock", "delete", "done"}, flow : Flows]
  /\ stop \in BOOLEAN
  /\ pending \subseteq Signals
  /\ left \in 0..MaxDigests /\ now \in Nat /\ life \in Nat
  /\ born \in [Flows -> Nat]
  /\ fails \in 0..MaxFails /\ leaked \subseteq Flows

(* Until it is told to stop, the controller forgets no row but one whose   *)
(* deletion the switch refused: whatever signals, crashes and renewals     *)
(* come between its steps, every other row in the switch has a heap entry  *)
(* of its own (not only that of a row it replaced) or a thread about to    *)
(* push that entry or to delete the row.                                   *)
Held(f) ==
  \/ \E i \in 1..Len(heap) : heap[i].flow = f /\ heap[i].due >= born[f] + TTL
  \/ main.pc \in {"acquire", "push"} /\ main.flow = f
  \/ expiry.pc = "delete" /\ expiry.flow = f
  \/ f \in drained
Scheduled == (Running /\ ~stop) => \A f \in Rows : Held(f) \/ f \in leaked

(* The threads implement the lease: rows are granted and revoked, never    *)
(* rewritten in place, and each of them ends.                              *)
Lease == INSTANCE OverrideLease
LeaseSpec == Lease!Spec

(* handle_stop runs "so the controller process can exit cleanly": once     *)
(* told to stop, the process does exit.                                    *)
StopExits == stop ~> ~Running
=============================================================================
