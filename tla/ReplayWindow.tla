---------------------------- MODULE ReplayWindow ----------------------------
(***************************************************************************)
(* Rule R1 against the clock it is measured with.  The pipeline measures   *)
(* the time between two pushes to a BMS in 16-bit seconds of a register    *)
(* that a controller thread rewrites every second; every hour, and on each *)
(* reset, init_r1_register rewrites that register and then all slots, so   *)
(* that a first push does not fire R1.  Three threads write these          *)
(* registers, each with a time it read before the RPC.                     *)
(*                                                                         *)
(* Timing is an assumption, stated in Timely: an RPC is over Lag seconds   *)
(* after its thread read the clock, the register is never more than Lag    *)
(* seconds behind, and a reseed gets through every Gap seconds.            *)
(***************************************************************************)
EXTENDS Integers

CONSTANTS
  Bms,
  ClockMod,        \* 2^16, width of r1_last_seen_reg
  Half,            \* 32768, added by the seed
  Interval,        \* R1_MIN_INTERVAL_SEC
  Period,          \* seconds between reseeds
  Lag, Gap,        \* timing assumption
  MaxTime, MaxResets  \* bounds

ASSUME ClockAssumption ==
  /\ {Half, Interval, Period, Lag, Gap, MaxTime, MaxResets} \subseteq Nat
  /\ Half > 0 /\ ClockMod = 2 * Half
  /\ Interval + Lag <= Half                \* a seed does not look like a push
  /\ Lag <= Gap /\ Gap + 2 * Lag < Half   \* nor does an old push or seed like a new one

Seeders == {"main", "reseed"}  \* handle_reset on the main thread; _r1_reseed_loop

VARIABLES
  now,       \* seconds since the epoch
  coarse,    \* coarse_time_reg
  lastSeen,  \* r1_last_seen_reg
  clock,     \* [pc, t, due]: _coarse_time_loop and the time it read
  seed,      \* [pc, t] of each thread that may run init_r1_register
  due,       \* when _r1_reseed_loop wakes up
  resets,    \* SIGUSR1 so far
  seeded,    \* history: the time the slots were last seeded with
  last,      \* history: coarse_time_reg at the last accepted push to a BMS
  unseeded   \* history: the BMSs not seeded since that push

threads == <<clock, seed, due, resets>>
vars == <<now, coarse, lastSeen, threads, seeded, last, unseeded>>

Never == -1

Init ==
  /\ now \in 0..(ClockMod - 1)
  /\ coarse = now
  /\ lastSeen = [b \in Bms |-> (now + Half) % ClockMod]
  /\ clock = [pc |-> "wait", t |-> 0, due |-> now + 1]
  /\ seed = [s \in Seeders |-> [pc |-> "idle", t |-> 0]]
  /\ due = now + Period
  /\ resets = 0
  /\ seeded = now
  /\ last = [b \in Bms |-> Never]
  /\ unseeded = {}

-----------------------------------------------------------------------------
(* The pipeline. *)

Low == coarse % ClockMod                     \* coarse_time_sec[15:0]
Since(b) == IF Low >= lastSeen[b] THEN Low - lastSeen[b] ELSE Low - lastSeen[b] + ClockMod
R1Sentinel(b) == Since(b) \in 1..Interval - 1     \* mutant of R1
R1(b) == Since(b) < Interval

OddOf(t) == IF t % 2 = 0 THEN t + 1 ELSE t

(* A push of an authorised source: probe, then commit.                     *)
Push(b) ==
  /\ lastSeen' = [lastSeen EXCEPT ![b] = OddOf(Low)]
  /\ last' = [last EXCEPT ![b] = coarse]
  /\ unseeded' = unseeded \cup {b}
  /\ UNCHANGED <<now, coarse, threads, seeded>>

-----------------------------------------------------------------------------
(* _coarse_time_loop: a write that fails is logged and dropped. *)

ClockRead ==
  /\ clock.pc = "wait" /\ now >= clock.due
  /\ clock' = [clock EXCEPT !.pc = "write", !.t = now]
  /\ UNCHANGED <<now, coarse, lastSeen, seed, due, resets, seeded, last, unseeded>>

ClockWrite ==
  /\ clock.pc = "write"
  /\ coarse' \in {coarse, clock.t}
  /\ clock' = [pc |-> "wait", t |-> 0, due |-> now + 1]
  /\ UNCHANGED <<now, lastSeen, seed, due, resets, seeded, last, unseeded>>

-----------------------------------------------------------------------------
(* init_r1_register, on either thread. *)

SeedRead(s) ==
  /\ seed[s].pc = "idle"
  /\ IF s = "reseed" THEN now >= due /\ UNCHANGED resets
                     ELSE resets < MaxResets /\ resets' = resets + 1
  /\ seed' = [seed EXCEPT ![s] = [pc |-> "coarse", t |-> now]]
  /\ UNCHANGED <<now, coarse, lastSeen, clock, due, seeded, last, unseeded>>

(* A write that fails ends the call. *)
Return(s) ==
  /\ seed' = [seed EXCEPT ![s] = [pc |-> "idle", t |-> 0]]
  /\ due' = IF s = "reseed" THEN now + Period ELSE due

SeedCoarse(s) ==
  /\ seed[s].pc = "coarse"
  /\ \/ coarse' = seed[s].t /\ seed' = [seed EXCEPT ![s].pc = "slots"] /\ UNCHANGED due
     \/ Return(s) /\ UNCHANGED coarse
  /\ UNCHANGED <<now, lastSeen, clock, resets, seeded, last, unseeded>>

SeedWide(t) == t + Half                      \* mutants of Seed
SeedPlain(t) == t % ClockMod
Seed(t) == (t + Half) % ClockMod

SeedSlots(s) ==
  /\ seed[s].pc = "slots"
  /\ Return(s)
  /\ \/ /\ lastSeen' = [b \in Bms |-> Seed(seed[s].t)]
        /\ seeded' = seed[s].t /\ unseeded' = {}
     \/ UNCHANGED <<lastSeen, seeded, unseeded>>
  /\ UNCHANGED <<now, coarse, clock, resets, last>>

-----------------------------------------------------------------------------
Timely ==
  /\ now - coarse < Lag
  /\ now - seeded < Gap
  /\ clock.pc = "write" => now - clock.t < Lag
  /\ \A s \in Seeders : seed[s].pc # "idle" => now - seed[s].t < Lag

Tick ==
  /\ Timely /\ now < MaxTime
  /\ now' = now + 1
  /\ UNCHANGED <<coarse, lastSeen, threads, seeded, last, unseeded>>

Next ==
  \/ \E b \in Bms : Push(b)
  \/ ClockRead \/ ClockWrite
  \/ \E s \in Seeders : SeedRead(s) \/ SeedCoarse(s) \/ SeedSlots(s)
  \/ Tick

Spec == Init /\ [][Next]_vars

-----------------------------------------------------------------------------
(* The registers hold values of their width. *)
TypeOK ==
  /\ now \in Nat /\ coarse \in Nat
  /\ lastSeen \in [Bms -> 0..(ClockMod - 1)]
  /\ clock \in [pc : {"wait", "write"}, t : Nat, due : Nat]
  /\ seed \in [Seeders -> [pc : {"idle", "coarse", "slots"}, t : Nat]]
  /\ due \in Nat /\ resets \in Nat /\ seeded \in Nat
  /\ last \in [Bms -> Nat \cup {Never}]
  /\ unseeded \subseteq Bms

(* R1 fires only on a BMS that was pushed to within the interval: neither  *)
(* a first push, nor one long after the last, nor a clock that steps back  *)
(* makes a false alarm ("Re-seed every hour so the margin stays bounded"). *)
NoFalseAlarm ==
  \A b \in Bms : R1(b) => /\ b \in unseeded
                          /\ last[b] <= coarse /\ coarse <= last[b] + Interval

(* Between two seeds R1 misses no replay that comes at least a second      *)
(* later, wherever the 16-bit clock wraps.                                 *)
ReplaySeen ==
  \A b \in unseeded : last[b] < coarse /\ coarse < last[b] + Interval => R1(b)
=============================================================================
