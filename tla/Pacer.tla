------------------------------- MODULE Pacer -------------------------------
(***************************************************************************)
(* The pacer of the racer's loop (src/mmculib/pacer/pacer.c) on the        *)
(* millisecond counter (src/mat91lib/sam4s/pit/pit.c).                     *)
(*                                                                         *)
(* pacer_wait lets the loop go when the signed difference between its      *)
(* schedule and the wrapping counter is negative, then moves the schedule  *)
(* on by one period: the iterations after a late one follow at once until  *)
(* the schedule is met again.                                              *)
(*                                                                         *)
(* The wait polls the counter far more often than it advances, so no       *)
(* millisecond passes once the wait may return.  The body of the loop may  *)
(* take any time that leaves it no more than MaxLag ms behind schedule.    *)
(***************************************************************************)
EXTENDS Integers

CONSTANTS
  Period,       \* pacer_period: ms per iteration (1000 / 50)
  ClockSize,    \* values of the counter (2^32)
  MaxLag        \* how far behind schedule the loop may fall, in ms

ASSUME PacerAssumption ==
  /\ Period \in Nat \ {0}
  /\ MaxLag \in Nat \ {0}
  /\ ClockSize \in Nat
  /\ 2 * Period < ClockSize /\ 2 * MaxLag < ClockSize

VARIABLES
  pit_ticks,
  pacer_when,
  phase,        \* "wait" in pacer_wait, "body" in the rest of the loop
  due           \* ghost: ms until the scheduled time, negative when it is past

pacerVars == <<pit_ticks, pacer_when, phase, due>>

(* pacer_init; the loop begins with pacer_wait.                            *)
PacerInit ==
  /\ pit_ticks = 0
  /\ pacer_when = pit_ticks
  /\ phase = "wait"
  /\ due = 0

(* Seeded faults: the two counters are compared as they are; the wait ends *)
(* when the difference is zero.                                            *)
ReachedUnsigned(when, now) == when < now
ReachedEarly(when, now) ==
  when = now \/ 2 * ((when - now) % ClockSize) >= ClockSize

(* pit_wait_until: int32_t diff = (when - now); if (diff < 0) return.      *)
Reached(when, now) == 2 * ((when - now) % ClockSize) >= ClockSize

(* Seeded fault: the next period begins when the wait returns.             *)
pacer_wait_drifts ==
  /\ phase = "wait"
  /\ Reached(pacer_when, pit_ticks)
  /\ pacer_when' = (pit_ticks + Period) % ClockSize
  /\ due' = due + Period
  /\ phase' = "body"
  /\ UNCHANGED pit_ticks

pacer_wait ==
  /\ phase = "wait"
  /\ Reached(pacer_when, pit_ticks)
  /\ pacer_when' = (pacer_when + Period) % ClockSize
  /\ due' = due + Period
  /\ phase' = "body"
  /\ UNCHANGED pit_ticks

BodyEnds ==
  /\ phase = "body"
  /\ phase' = "wait"
  /\ UNCHANGED <<pit_ticks, pacer_when, due>>

(* _systick_handler.                                                       *)
SysTick ==
  /\ phase = "wait" => ~Reached(pacer_when, pit_ticks)
  /\ phase = "body" => due > -MaxLag
  /\ pit_ticks' = (pit_ticks + 1) % ClockSize
  /\ due' = due - 1
  /\ UNCHANGED <<pacer_when, phase>>

-----------------------------------------------------------------------------
(* The schedule survives the wrap-around of the counter and any number of  *)
(* late iterations: pacer_when is the counter's value at the time that is  *)
(* a whole number of periods after pacer_init, no iteration begins before  *)
(* its time has passed, and none is forgotten.                             *)
OnSchedule ==
  /\ due \in -MaxLag .. Period - 1
  /\ pacer_when = (pit_ticks + due) % ClockSize
=============================================================================
