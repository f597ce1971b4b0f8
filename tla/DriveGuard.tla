----------------------------- MODULE DriveGuard -----------------------------
(***************************************************************************)
(* What the racer promises about its motors, whatever the radio brings:    *)
(*                                                                         *)
(*  - they start only right after a packet was accepted, and never while   *)
(*    the car is locked after a bump;                                      *)
(*  - the car is locked only once it has stopped, for exactly Lockout      *)
(*    ticks, and cannot be locked again for Holdoff ticks after that;      *)
(*  - no tick passes while they run on a packet Timeout ticks old.         *)
(***************************************************************************)
EXTENDS Naturals

CONSTANTS Lockout, Holdoff, Timeout, AgeMax

VARIABLES
  moving,     \* some motor register is not zero
  age,        \* ticks since a packet was accepted, capped at AgeMax
  mode,       \* "NORMAL", "BUMPER_WAITING" or "BUMPER_HOLDOFF"
  timer       \* ticks spent in a mode other than "NORMAL"

vars == <<moving, age, mode, timer>>

Init ==
  /\ moving = FALSE
  /\ age = 0
  /\ mode = "NORMAL"
  /\ timer = 0

TickNormal ==
  /\ mode = "NORMAL"
  /\ UNCHANGED <<mode, timer>>

TickLocked ==
  /\ mode = "BUMPER_WAITING"
  /\ IF timer + 1 >= Lockout
     THEN mode' = "BUMPER_HOLDOFF" /\ timer' = 0
     ELSE timer' = timer + 1 /\ UNCHANGED mode

TickHoldoff ==
  /\ mode = "BUMPER_HOLDOFF"
  /\ IF timer + 1 >= Holdoff
     THEN mode' = "NORMAL" /\ timer' = 0
     ELSE timer' = timer + 1 /\ UNCHANGED mode

Tick ==
  /\ ~(moving /\ age >= Timeout)
  /\ TickNormal \/ TickLocked \/ TickHoldoff
  /\ age' = IF age < AgeMax THEN age + 1 ELSE age
  /\ UNCHANGED moving

Refresh ==
  /\ age' = 0
  /\ UNCHANGED <<moving, mode, timer>>

Drive ==
  /\ age = 0
  /\ mode # "BUMPER_WAITING"
  /\ moving' \in BOOLEAN
  /\ UNCHANGED <<age, mode, timer>>

Halt ==
  /\ moving' = FALSE
  /\ UNCHANGED <<age, mode, timer>>

Lock ==
  /\ mode = "NORMAL"
  /\ ~moving
  /\ mode' = "BUMPER_WAITING"
  /\ UNCHANGED <<moving, age, timer>>

Next == Tick \/ Refresh \/ Drive \/ Halt \/ Lock

Spec == Init /\ [][Next]_vars
=============================================================================
