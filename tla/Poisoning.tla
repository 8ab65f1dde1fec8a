------------------------------ MODULE Poisoning ------------------------------
(***************************************************************************)
(* Two pipelines side by side: one receives every packet, its twin only    *)
(* the packets of authorised sources.  The controller writes the same to   *)
(* both.  The twin is what the detector would have decided had the         *)
(* unauthorised traffic never existed, so a difference between the two is  *)
(* state that a source R2 rejects has poisoned (the T1.6, T1.6.b and       *)
(* T1.6.c commit gates of rules R6, R1 and R5).                            *)
(***************************************************************************)
EXTENDS DataPlane

VARIABLES twinLastSeen, twinMaxVersion, twinBytes, twinOpened, twinBloom,
          twinCount, twinArmed, twinAccepted

Twin == INSTANCE DataPlane WITH
          lastSeen <- twinLastSeen, maxVersion <- twinMaxVersion,
          bytes <- twinBytes, opened <- twinOpened, bloom <- twinBloom,
          count <- twinCount, armed <- twinArmed, accepted <- twinAccepted

twinVars == <<twinLastSeen, twinMaxVersion, twinBytes, twinOpened, twinBloom,
              twinCount, twinArmed, twinAccepted>>
allVars == <<vars, twinVars>>

TwinInit == Init /\ Twin!Init

Arrival(p) ==
  /\ Packet(p)
  /\ IF Src(p) \in Authorized THEN Twin!Packet(p) ELSE UNCHANGED twinVars

ControllerWriteBoth ==
  \/ \E f \in Flows, a \in {"allow", "deny"} : InsertRow(f, a) /\ UNCHANGED twinVars
  \/ \E f \in Flows : DeleteRow(f) /\ UNCHANGED twinVars
  \/ \E t \in 0..(ClockMod - 1) : WriteCoarse(t) /\ UNCHANGED twinVars
  \/ \E t \in 0..(ClockMod - 1) : WriteLastSeen(t) /\ Twin!WriteLastSeen(t)
  \/ ClearCount /\ Twin!ClearCount
  \/ \E i \in Hashes : ClearBloom(i) /\ Twin!ClearBloom(i)
  \/ ClearMaxVersion /\ Twin!ClearMaxVersion
  \/ ClearArmed /\ Twin!ClearArmed
  \/ ClearBytes /\ Twin!ClearBytes
  \/ ClearFirstTs /\ Twin!ClearFirstTs

TwinNext == (\E p \in Packets : Arrival(p)) \/ ControllerWriteBoth

TwinSpec == TwinInit /\ [][TwinNext]_allVars

-----------------------------------------------------------------------------
(* No flow of an unauthorised source hashes to the session slot of p. *)
PrivateSlot(p) ==
  \A f \in Flows : SlotOf[f] = Slot(p) => SrcOf[f] \in Authorized

(* Unauthorised traffic cannot turn R1, R2, R5 or R6 on or off for a       *)
(* packet of an authorised source: the rules that fire are those that      *)
(* would have fired without it.                                            *)
NotPoisoned ==
  \A p \in Packets :
    Src(p) \in Authorized => Fired(p) \ {"R4"} = Twin!Fired(p) \ {"R4"}

(* Nor can it change R4, the action or the digest of such a packet, unless *)
(* one of its flows collides with the packet's session slot.               *)
SameVerdict ==
  \A p \in Packets :
    Src(p) \in Authorized /\ PrivateSlot(p)
    => /\ Fired(p) = Twin!Fired(p)
       /\ Action(p) = Twin!Action(p)
       /\ Digest(p) = Twin!Digest(p)

(* The twin agrees on every register that an authorised packet reads; this *)
(* is what the two properties above rest on.                               *)
Agreement ==
  /\ lastSeen = twinLastSeen
  /\ maxVersion = twinMaxVersion
  /\ armed = {} /\ twinArmed = {}
  /\ DOMAIN bytes = Slots /\ DOMAIN twinBytes = Slots
  /\ \A s \in Slots :
       (\A f \in Flows : SlotOf[f] = s => SrcOf[f] \in Authorized)
       => bytes[s] = twinBytes[s]
=============================================================================
