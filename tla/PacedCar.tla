------------------------------ MODULE PacedCar ------------------------------
(***************************************************************************)
(* What the racer promises in milliseconds: its iterations (Pacer) drive   *)
(* the counters of the guard on its motors (DriveGuard).  Racer is shown   *)
(* to implement DriveGuard, whose tick is the start of an iteration, so    *)
(* what holds here of any guarded car holds of the racer's loop.           *)
(***************************************************************************)
EXTENDS Pacer

CONSTANTS Lockout, Holdoff, Timeout, AgeMax     \* see DriveGuard

ASSUME GuardAssumption ==
  /\ Lockout \in Nat \ {0} /\ Holdoff \in Nat \ {0} /\ Timeout \in Nat \ {0}
  /\ AgeMax \in Nat /\ AgeMax >= Timeout

VARIABLES
  moving, age, mode, timer,    \* see DriveGuard
  lockMs,      \* ghost: ms since the car was locked, 0 when it is not
  silentMs     \* ghost: ms since a packet was accepted, as long as age tells

guardVars == <<moving, age, mode, timer>>
vars == <<pacerVars, guardVars, lockMs, silentMs>>

G == INSTANCE DriveGuard

Init == PacerInit /\ G!Init /\ lockMs = 0 /\ silentMs = 0

(* An iteration begins.                                                    *)
Iterate ==
  /\ pacer_wait
  /\ G!Tick
  /\ lockMs' = IF mode' = "BUMPER_WAITING" THEN lockMs ELSE 0
  /\ UNCHANGED silentMs

Accept ==
  /\ phase = "body"
  /\ G!Refresh
  /\ silentMs' = 0
  /\ UNCHANGED <<pacerVars, lockMs>>

Steer ==
  /\ phase = "body"
  /\ G!Drive \/ G!Halt \/ G!Lock
  /\ UNCHANGED <<pacerVars, lockMs, silentMs>>

(* The body ends with the motor timeout.                                   *)
IterationEnds ==
  /\ ~(moving /\ age >= Timeout)
  /\ BodyEnds
  /\ UNCHANGED <<guardVars, lockMs, silentMs>>

Millisecond ==
  /\ SysTick
  /\ lockMs' = IF mode = "BUMPER_WAITING" THEN lockMs + 1 ELSE 0
  /\ silentMs' = IF moving \/ age < AgeMax THEN silentMs + 1 ELSE silentMs
  /\ UNCHANGED guardVars

Next == Iterate \/ Accept \/ Steer \/ IterationEnds \/ Millisecond

Spec == Init /\ [][Next]_vars

-----------------------------------------------------------------------------
(* A lockout takes Lockout periods, give or take one period and what the   *)
(* loop is late: catching up after late iterations does not shorten it by  *)
(* more, however often the loop is late, and lateness does not add up.     *)
LockoutInTime ==
  /\ [](lockMs < Lockout * Period + MaxLag)
  /\ [][mode = "BUMPER_WAITING" /\ mode' # mode
           => lockMs > (Lockout - 1) * Period - MaxLag]_vars

(* racer/main.c: "half second motor timeout".  The motors do not run       *)
(* longer than Timeout + 1 periods on one packet, plus what the loop is    *)
(* late.                                                                   *)
TimeoutInTime == moving => silentMs < (Timeout + 1) * Period + MaxLag
=============================================================================
