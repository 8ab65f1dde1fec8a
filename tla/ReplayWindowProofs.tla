------------------------- MODULE ReplayWindowProofs -------------------------
(***************************************************************************)
(* R1 on every clock width, interval and fleet: what the timing assumption *)
(* of ReplayWindow buys.                                                   *)
(***************************************************************************)
EXTENDS ReplayWindow, TLAPS

-----------------------------------------------------------------------------
(* Arithmetic of a clock that turns.                                       *)

LEMMA Division ==
  ASSUME NEW x \in Nat, NEW m \in Nat, m > 0
  PROVE  x = m * (x \div m) + (x % m) /\ x % m \in 0..(m - 1) /\ x \div m \in Nat
<1>1. x = m * (x \div m) + (x % m)
  BY Z3
<1>2. x % m \in 0..(m - 1) /\ x \div m \in Nat
  OBVIOUS
<1> QED BY <1>1, <1>2

LEMMA Remainder ==
  ASSUME NEW m \in Nat, m > 0, NEW q \in Nat, NEW r \in 0..(m - 1)
  PROVE  (m * q + r) % m = r
  OBVIOUS

(* Whole turns between two instants less than a turn apart. *)
LEMMA Turns ==
  ASSUME NEW m \in Nat, m > 0, NEW p \in Nat, NEW q \in Nat,
         NEW r \in 0..(m - 1), NEW s \in 0..(m - 1),
         0 <= m * p + r - (m * q + s), m * p + r - (m * q + s) < m
  PROVE  p = q \/ p = q + 1
<1>1. m * (p - q) = m * p - m * q
  OBVIOUS
<1>2. m * (p - q) < 2 * m /\ m * (p - q) > -m
  BY <1>1
<1>3. p - q >= 2 => m * (p - q) >= 2 * m
  OBVIOUS
<1>4. p - q <= -1 => m * (p - q) <= -m
  OBVIOUS
<1> QED BY <1>2, <1>3, <1>4

Wrap(x, y, m) == IF x >= y THEN x - y ELSE x - y + m

(* They are told apart by their low halves. *)
LEMMA Later ==
  ASSUME NEW m \in Nat, m > 0, NEW x \in Nat, NEW y \in Nat, y <= x, x - y < m
  PROVE  Wrap(x % m, y % m, m) = x - y
<1> DEFINE p == x \div m
           q == y \div m
           r == x % m
           s == y % m
<1>1. /\ x = m * p + r /\ r \in 0..(m - 1) /\ p \in Nat
      /\ y = m * q + s /\ s \in 0..(m - 1) /\ q \in Nat
  BY Division
<1> HIDE DEF p, q, r, s
<1>2. p = q \/ p = q + 1
  BY <1>1, Turns
<1>3. CASE p = q
  BY <1>1, <1>3 DEF Wrap, r, s
<1>4. CASE p = q + 1
  <2>1. m * (q + 1) = m * q + m
    BY <1>1
  <2>2. x - y = r - s + m
    BY <1>1, <1>4, <2>1
  <2> QED BY <1>1, <2>2 DEF Wrap, r, s
<1> QED BY <1>2, <1>3, <1>4

LEMMA Earlier ==
  ASSUME NEW m \in Nat, m > 0, NEW x \in Nat, NEW y \in Nat, x < y, y - x < m
  PROVE  Wrap(x % m, y % m, m) = x - y + m
<1> DEFINE p == y \div m
           q == x \div m
           r == y % m
           s == x % m
<1>1. /\ y = m * p + r /\ r \in 0..(m - 1) /\ p \in Nat
      /\ x = m * q + s /\ s \in 0..(m - 1) /\ q \in Nat
  BY Division
<1> HIDE DEF p, q, r, s
<1>2. p = q \/ p = q + 1
  BY <1>1, Turns
<1>3. CASE p = q
  BY <1>1, <1>3 DEF Wrap, r, s
<1>4. CASE p = q + 1
  <2>1. m * (q + 1) = m * q + m
    BY <1>1
  <2>2. y - x = r - s + m
    BY <1>1, <1>4, <2>1
  <2> QED BY <1>1, <2>2 DEF Wrap, r, s
<1> QED BY <1>2, <1>3, <1>4

(* The forced odd bit moves an instant by at most a second, and never over *)
(* the turn of the clock, whose width is even.                             *)
LEMMA OddBit ==
  ASSUME NEW t \in Nat
  PROVE  /\ OddOf(t % ClockMod) \in 0..(ClockMod - 1)
         /\ \E y \in {t, t + 1} : OddOf(t % ClockMod) = y % ClockMod
<1>0. ClockMod \in Nat /\ ClockMod > 0
  BY ClockAssumption
<1> DEFINE q == t \div ClockMod
           r == t % ClockMod
<1>1. t = ClockMod * q + r /\ r \in 0..(ClockMod - 1) /\ q \in Nat
  BY <1>0, Division
<1> HIDE DEF q, r
<1>2. CASE r % 2 # 0
  <2>1. OddOf(r) = r
    BY <1>2 DEF OddOf
  <2> QED BY <1>1, <2>1 DEF r
<1>3. CASE r % 2 = 0
  <2>1. OddOf(r) = r + 1
    BY <1>3 DEF OddOf
  <2>2. r + 1 \in 0..(ClockMod - 1)
    BY <1>1, <1>3, ClockAssumption
  <2>3. (ClockMod * q + (r + 1)) % ClockMod = r + 1
    BY <1>0, <1>1, <2>2, Remainder
  <2>4. t + 1 = ClockMod * q + (r + 1)
    BY <1>0, <1>1
  <2> QED BY <2>1, <2>2, <2>3, <2>4 DEF r
<1> QED BY <1>2, <1>3

-----------------------------------------------------------------------------
(* The invariant: every value written is Lag seconds old at most, and a    *)
(* slot holds the last seed or the push that came after it.                *)
Fresh ==
  /\ coarse <= now /\ now <= coarse + Lag
  /\ seeded <= now /\ now <= seeded + Gap
  /\ clock.pc = "write" => clock.t <= now /\ now <= clock.t + Lag
  /\ \A s \in Seeders : seed[s].pc # "idle" => seed[s].t <= now /\ now <= seed[s].t + Lag

Slot(b) ==
  IF b \in unseeded
  THEN /\ last[b] \in Nat /\ last[b] <= now /\ seeded <= last[b] + Lag
       /\ lastSeen[b] = OddOf(last[b] % ClockMod)
  ELSE lastSeen[b] = Seed(seeded)

Inv == TypeOK /\ Fresh /\ \A b \in Bms : Slot(b)

LEMMA InvInit == Init => Inv
<1> SUFFICES ASSUME Init PROVE Inv
  OBVIOUS
<1>0. ClockMod \in Nat /\ ClockMod > 0 /\ now \in Nat
  BY ClockAssumption DEF Init
<1>1. (now + Half) % ClockMod \in 0..(ClockMod - 1)
  BY <1>0, Division, ClockAssumption
<1>2. TypeOK
  <2>1. clock \in [pc : {"wait", "write"}, t : Nat, due : Nat]
    BY <1>0 DEF Init
  <2>2. seed \in [Seeders -> [pc : {"idle", "coarse", "slots"}, t : Nat]]
    BY DEF Init
  <2>3. now \in Nat /\ coarse \in Nat /\ due \in Nat /\ resets \in Nat /\ seeded \in Nat
    BY <1>0, ClockAssumption DEF Init
  <2> QED BY <1>1, <2>1, <2>2, <2>3 DEF Init, TypeOK
<1>3. Fresh
  BY <1>0, ClockAssumption DEF Init, Fresh
<1>4. \A b \in Bms : Slot(b)
  BY DEF Init, Slot, Seed
<1> QED BY <1>2, <1>3, <1>4 DEF Inv

LEMMA InvStep == Inv /\ [Next]_vars => Inv'
<1> SUFFICES ASSUME Inv, [Next]_vars PROVE Inv'
  OBVIOUS
<1>0. /\ ClockMod \in Nat /\ ClockMod > 0
      /\ {Half, Interval, Period, Lag, Gap} \subseteq Nat /\ Lag <= Gap
  BY ClockAssumption
<1>1. ASSUME NEW b \in Bms, Push(b) PROVE Inv'
  <2>1. OddOf(coarse % ClockMod) \in 0..(ClockMod - 1)
    BY OddBit DEF Inv, TypeOK
  <2>2. TypeOK'
    BY <1>1, <2>1 DEF Inv, TypeOK, Push, Low, threads
  <2>3. Fresh'
    BY <1>1 DEF Inv, Fresh, Push, threads
  <2>4. ASSUME NEW c \in Bms PROVE Slot(c)'
    <3>1. CASE c = b
      <4>1. b \in unseeded' /\ last'[b] = coarse /\ lastSeen'[b] = OddOf(coarse % ClockMod)
            /\ UNCHANGED <<now, seeded>>
        BY <1>1 DEF Inv, TypeOK, Push, Low
      <4>2. coarse \in Nat /\ coarse <= now /\ now <= coarse + Lag /\ seeded <= now
            /\ seeded \in Nat /\ now \in Nat
        BY DEF Inv, TypeOK, Fresh
      <4> QED BY <1>0, <3>1, <4>1, <4>2 DEF Slot
    <3>2. CASE c # b
      BY <1>1, <3>2 DEF Inv, TypeOK, Slot, Push
    <3> QED BY <3>1, <3>2
  <2> QED BY <2>2, <2>3, <2>4 DEF Inv
<1>2. ASSUME UNCHANGED <<now, lastSeen, seeded, last, unseeded>>, TypeOK', Fresh'
      PROVE  Inv'
  BY <1>2 DEF Inv, Slot
<1>3. CASE ClockRead
  <2>1. TypeOK'
    BY <1>3 DEF Inv, TypeOK, ClockRead
  <2>2. Fresh'
    BY <1>0, <1>3 DEF Inv, TypeOK, Fresh, ClockRead
  <2> QED BY <1>2, <1>3, <2>1, <2>2 DEF ClockRead
<1>4. CASE ClockWrite
  <2>1. TypeOK'
    BY <1>4 DEF Inv, TypeOK, ClockWrite
  <2>2. Fresh'
    BY <1>0, <1>4 DEF Inv, TypeOK, Fresh, ClockWrite
  <2> QED BY <1>2, <1>4, <2>1, <2>2 DEF ClockWrite
<1>5. ASSUME NEW s \in Seeders, SeedRead(s) PROVE Inv'
  <2>1. TypeOK'
    BY <1>5 DEF Inv, TypeOK, SeedRead
  <2>2. Fresh'
    BY <1>0, <1>5 DEF Inv, TypeOK, Fresh, SeedRead
  <2> QED BY <1>2, <1>5, <2>1, <2>2 DEF SeedRead
<1>6. ASSUME NEW s \in Seeders, SeedCoarse(s) PROVE Inv'
  <2>1. TypeOK'
    BY <1>0, <1>6 DEF Inv, TypeOK, SeedCoarse, Return
  <2>2. Fresh'
    BY <1>0, <1>6 DEF Inv, TypeOK, Fresh, SeedCoarse, Return
  <2> QED BY <1>2, <1>6, <2>1, <2>2 DEF SeedCoarse
<1>7. ASSUME NEW s \in Seeders, SeedSlots(s) PROVE Inv'
  <2>0. seed[s].t \in Nat /\ seed[s].t <= now /\ now <= seed[s].t + Lag /\ now \in Nat
    BY <1>7 DEF Inv, TypeOK, Fresh, SeedSlots
  <2>1. Seed(seed[s].t) \in 0..(ClockMod - 1)
    BY <1>0, <2>0, Division DEF Seed
  <2>2. TypeOK'
    BY <1>0, <1>7, <2>0, <2>1 DEF Inv, TypeOK, SeedSlots, Return
  <2>3. Fresh'
    BY <1>0, <1>7, <2>0 DEF Inv, TypeOK, Fresh, SeedSlots, Return
  <2>4. \A b \in Bms : Slot(b)'
    BY <1>7 DEF Inv, Slot, SeedSlots
  <2> QED BY <2>2, <2>3, <2>4 DEF Inv
<1>8. CASE Tick
  <2>1. TypeOK'
    BY <1>8 DEF Inv, TypeOK, Tick, threads
  <2>2. now' = now + 1 /\ Timely /\ UNCHANGED <<coarse, lastSeen, clock, seed, seeded, last, unseeded>>
    BY <1>8 DEF Tick, threads
  <2>3. Fresh'
    BY <1>0, <2>2 DEF Inv, TypeOK, Fresh, Timely
  <2>4. \A b \in Bms : Slot(b)'
    BY <2>2 DEF Inv, TypeOK, Slot
  <2> QED BY <2>1, <2>3, <2>4 DEF Inv
<1>9. CASE UNCHANGED vars
  BY <1>9 DEF Inv, TypeOK, Fresh, Slot, vars, threads
<1> QED BY <1>1, <1>3, <1>4, <1>5, <1>6, <1>7, <1>8, <1>9 DEF Next

LEMMA Invariance == Spec => []Inv
  BY InvInit, InvStep, PTL DEF Spec

THEOREM TypeCorrect == Spec => []TypeOK
<1>1. Inv => TypeOK
  BY DEF Inv
<1> QED BY <1>1, Invariance, PTL

-----------------------------------------------------------------------------
(* What the pipeline reads off a slot. *)

LEMMA SinceSeed ==
  ASSUME Inv, NEW b \in Bms, b \notin unseeded
  PROVE  Since(b) >= Interval
<1>0. /\ ClockMod \in Nat /\ ClockMod > 0 /\ ClockMod = 2 * Half
      /\ {Half, Interval, Lag, Gap} \subseteq Nat
      /\ Interval + Lag <= Half /\ Gap + 2 * Lag < Half
  BY ClockAssumption
<1>1. /\ coarse \in Nat /\ seeded \in Nat /\ now \in Nat
      /\ coarse <= now /\ now <= coarse + Lag /\ seeded <= now /\ now <= seeded + Gap
  BY DEF Inv, TypeOK, Fresh
<1>2. lastSeen[b] = (seeded + Half) % ClockMod
  BY DEF Inv, Slot, Seed
<1>3. coarse < seeded + Half /\ seeded + Half - coarse < ClockMod
  BY <1>0, <1>1
<1>4. Wrap(coarse % ClockMod, (seeded + Half) % ClockMod, ClockMod)
        = coarse - (seeded + Half) + ClockMod
  <2> DEFINE y == seeded + Half
  <2>1. y \in Nat
    BY <1>0, <1>1
  <2>2. coarse < y /\ y - coarse < ClockMod
    BY <1>0, <1>1, <1>3
  <2> HIDE DEF y
  <2>3. coarse \in Nat /\ ClockMod \in Nat /\ ClockMod > 0
    BY <1>0, <1>1
  <2>4. Wrap(coarse % ClockMod, y % ClockMod, ClockMod) = coarse - y + ClockMod
    BY <2>1, <2>2, <2>3, Earlier, Zenon
  <2> QED BY <2>4 DEF y
<1>5. Since(b) = coarse - (seeded + Half) + ClockMod
  BY <1>2, <1>4 DEF Since, Low, Wrap
<1> QED BY <1>0, <1>1, <1>5

LEMMA SincePush ==
  ASSUME Inv, NEW b \in unseeded
  PROVE  /\ last[b] \in Nat
         /\ \E y \in {last[b], last[b] + 1} :
              IF y <= coarse THEN Since(b) = coarse - y ELSE Since(b) >= Interval
<1>0. /\ ClockMod \in Nat /\ ClockMod > 0 /\ ClockMod = 2 * Half
      /\ {Half, Interval, Lag, Gap} \subseteq Nat /\ Half > 0
      /\ Interval + Lag <= Half /\ Gap + 2 * Lag < Half
  BY ClockAssumption
<1>1. /\ coarse \in Nat /\ seeded \in Nat /\ now \in Nat /\ b \in Bms
      /\ coarse <= now /\ now <= coarse + Lag /\ seeded <= now /\ now <= seeded + Gap
  BY DEF Inv, TypeOK, Fresh
<1>2. /\ last[b] \in Nat /\ last[b] <= now /\ seeded <= last[b] + Lag
      /\ lastSeen[b] = OddOf(last[b] % ClockMod)
  BY <1>1 DEF Inv, Slot
<1>3. PICK y \in {last[b], last[b] + 1} : lastSeen[b] = y % ClockMod
  BY <1>2, OddBit
<1>4. y \in Nat /\ y <= now + 1 /\ seeded <= y + Lag
  BY <1>0, <1>1, <1>2
<1>5. Since(b) = Wrap(coarse % ClockMod, y % ClockMod, ClockMod)
  BY <1>3 DEF Since, Low, Wrap
<1>6. CASE y <= coarse
  <2>1. coarse - y < ClockMod
    BY <1>0, <1>1, <1>4
  <2>2. coarse \in Nat /\ ClockMod \in Nat /\ ClockMod > 0
    BY <1>0, <1>1
  <2>3. Since(b) = coarse - y
    BY <1>4, <1>5, <1>6, <2>1, <2>2, Later
  <2> QED BY <1>2, <1>3, <1>6, <2>3
<1>7. CASE coarse < y
  <2>1. y - coarse < ClockMod
    BY <1>0, <1>1, <1>4
  <2>2. coarse \in Nat /\ ClockMod \in Nat /\ ClockMod > 0
    BY <1>0, <1>1
  <2>3. Wrap(coarse % ClockMod, y % ClockMod, ClockMod) = coarse - y + ClockMod
    BY <1>4, <1>7, <2>1, <2>2, Earlier, Zenon
  <2>4. Since(b) >= Interval
    BY <1>0, <1>1, <1>4, <1>5, <2>3
  <2> QED BY <1>1, <1>2, <1>4, <1>7, <2>4
<1> QED BY <1>1, <1>4, <1>6, <1>7

(* R1 fires on no first push, no push long after the last, and not because *)
(* a late RPC set the clock back.                                          *)
THEOREM FalseAlarmFree == Spec => []NoFalseAlarm
<1>1. Inv => NoFalseAlarm
  <2> SUFFICES ASSUME Inv, NEW b \in Bms, R1(b)
               PROVE  b \in unseeded /\ last[b] <= coarse /\ coarse <= last[b] + Interval
    BY DEF NoFalseAlarm
  <2>0. Interval \in Nat /\ coarse \in Nat
    BY ClockAssumption DEF Inv, TypeOK
  <2>1. Since(b) \in Int
    BY ClockAssumption, Division DEF Inv, TypeOK, Since, Low
  <2>2. Since(b) < Interval
    BY DEF R1
  <2>3. b \in unseeded
    BY <2>0, <2>1, <2>2, SinceSeed
  <2>4. last[b] \in Nat
    BY <2>3, SincePush
  <2>5. PICK y \in {last[b], last[b] + 1} :
          IF y <= coarse THEN Since(b) = coarse - y ELSE Since(b) >= Interval
    BY <2>3, SincePush
  <2> QED BY <2>0, <2>1, <2>2, <2>3, <2>4, <2>5
<1> QED BY <1>1, Invariance, PTL

(* Between two seeds no replay at least a second later goes unseen.        *)
THEOREM ReplaysSeen == Spec => []ReplaySeen
<1>1. Inv => ReplaySeen
  <2> SUFFICES ASSUME Inv, NEW b \in unseeded, last[b] < coarse, coarse < last[b] + Interval
               PROVE  R1(b)
    BY DEF ReplaySeen
  <2>0. Interval \in Nat /\ coarse \in Nat /\ last[b] \in Nat
    BY ClockAssumption, SincePush DEF Inv, TypeOK
  <2>1. PICK y \in {last[b], last[b] + 1} :
          IF y <= coarse THEN Since(b) = coarse - y ELSE Since(b) >= Interval
    BY SincePush
  <2>2. y \in Nat /\ y <= coarse /\ coarse - y < Interval
    BY <2>0
  <2> QED BY <2>0, <2>1, <2>2 DEF R1
<1> QED BY <1>1, Invariance, PTL
=============================================================================
