---------------------------- MODULE ServerClock ----------------------------
(***************************************************************************)
(* The clock of one server process, time.time(), in ticks.  The components *)
(* of the server compare times with it and only their differences matter,  *)
(* so each says what its durations are in ticks.                           *)
(***************************************************************************)
EXTENDS Naturals

CONSTANT MaxNow    \* bound: the last tick

ASSUME ClockAssumption == MaxNow \in Nat

VARIABLE now

Tick == now < MaxNow /\ now' = now + 1
=============================================================================
