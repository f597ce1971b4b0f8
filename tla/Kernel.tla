------------------------------- MODULE Kernel -------------------------------
(***************************************************************************)
(* The hat's cooperative kernel (src/apps/hat/kernel.c) on the millisecond *)
(* counter of mat91lib/sam4s/pit/pit.c.                                    *)
(*                                                                         *)
(* kernel_run looks at the tasks in the order of the table, runs the first *)
(* one that is enabled and due to its end, and begins again at the top.    *)
(* The counter may advance between any two steps, the two reads of it in   *)
(* one test included, and wraps around.                                    *)
(*                                                                         *)
(* One pass over the table takes microseconds, so at most one millisecond  *)
(* ends in it; a task may take any time up to its worst case.              *)
(***************************************************************************)
EXTENDS Integers

CONSTANTS
  N,             \* tasks, in the order of the table
  Period,        \* period_ms
  WorstCase,     \* the longest run of each task, in ms
  Switch,        \* the task that calls enable_task and disable_task
  First, Second, \* the two tasks it switches between
  ClockSize,     \* values of the counter (2^32)
  MaxWait        \* how long beyond its period a task may wait, in ms

Tasks == 1 .. N

ASSUME KernelAssumption ==
  /\ N \in Nat \ {0}
  /\ Period \in [Tasks -> Nat \ {0}]
  /\ WorstCase \in [Tasks -> Nat]
  /\ {Switch, First, Second} \subseteq Tasks /\ First # Second
  /\ ClockSize \in Nat /\ \A j \in Tasks : Period[j] < ClockSize
  /\ MaxWait \in Nat

VARIABLES
  pit_ticks,      \* the millisecond counter
  pc,             \* "read", "test" or "run"
  i,              \* the task looked at or running
  current_time,   \* the first of the two reads of the counter
  last_wakeup,
  enabled,
  left,           \* ms the running task may still take
  ticked,         \* a millisecond has ended in this pass over the table
  elapsed,        \* ghost: ms since each task (or the kernel) was started
  late            \* ghost: ms each enabled task has waited beyond its period

vars == <<pit_ticks, pc, i, current_time, last_wakeup, enabled, left, ticked,
          elapsed, late>>

(* create_task, kernel_init, and disable_task of Second before kernel_run. *)
Init ==
  /\ pit_ticks = 0
  /\ pc = "read"
  /\ i = 1
  /\ current_time = 0
  /\ last_wakeup = [j \in Tasks |-> 0]
  /\ enabled = [j \in Tasks |-> j # Second]
  /\ left = 0
  /\ ticked = FALSE
  /\ elapsed = [j \in Tasks |-> 0]
  /\ late = [j \in Tasks |-> 0]

(* Seeded fault: a signed difference.                                      *)
SinceSigned(t) == pit_ticks - t

Since(t) == (pit_ticks - t) % ClockSize      \* unsigned subtraction

Due(j) == Since(last_wakeup[j]) >= Period[j] /\ enabled[j]

ReadClock ==
  /\ pc = "read"
  /\ current_time' = pit_ticks
  /\ pc' = "test"
  /\ UNCHANGED <<pit_ticks, i, last_wakeup, enabled, left, ticked, elapsed, late>>

(* Seeded fault: periods are made up for when a task was late.             *)
StartTaskCatchingUp ==
  /\ pc = "test"
  /\ Due(i)
  /\ last_wakeup' = [last_wakeup EXCEPT ![i] = (@ + Period[i]) % ClockSize]
  /\ pc' = "run"
  /\ left' = WorstCase[i]
  /\ elapsed' = [elapsed EXCEPT ![i] = 0]
  /\ late' = [late EXCEPT ![i] = 0]
  /\ UNCHANGED <<pit_ticks, i, current_time, enabled, ticked>>

StartTask ==
  /\ pc = "test"
  /\ Due(i)
  /\ last_wakeup' = [last_wakeup EXCEPT ![i] = current_time]
  /\ pc' = "run"
  /\ left' = WorstCase[i]
  /\ elapsed' = [elapsed EXCEPT ![i] = 0]
  /\ late' = [late EXCEPT ![i] = 0]
  /\ UNCHANGED <<pit_ticks, i, current_time, enabled, ticked>>

(* Seeded fault: the scan runs over the end of the table.                  *)
SkipTaskTooFar ==
  /\ pc = "test"
  /\ ~Due(i)
  /\ pc' = "read"
  /\ i' = IF i > N THEN 1 ELSE i + 1
  /\ ticked' = (ticked /\ i # N)
  /\ UNCHANGED <<pit_ticks, current_time, last_wakeup, enabled, left, elapsed, late>>

SkipTask ==
  /\ pc = "test"
  /\ ~Due(i)
  /\ pc' = "read"
  /\ i' = IF i = N THEN 1 ELSE i + 1
  /\ ticked' = (ticked /\ i # N)
  /\ UNCHANGED <<pit_ticks, current_time, last_wakeup, enabled, left, elapsed, late>>

(* Seeded fault: the scan goes on where it was, and not at the top.        *)
EndTaskInPlace ==
  /\ pc = "run"
  /\ pc' = "read"
  /\ left' = 0
  /\ ticked' = FALSE
  /\ UNCHANGED <<pit_ticks, i, current_time, last_wakeup, enabled, elapsed, late>>

(* The running task returns; the scan breaks off and begins at the top.    *)
EndTask ==
  /\ pc = "run"
  /\ pc' = "read"
  /\ i' = 1
  /\ left' = 0
  /\ ticked' = FALSE
  /\ UNCHANGED <<pit_ticks, current_time, last_wakeup, enabled, elapsed, late>>

(* change_control_method_task disables one control task and enables the    *)
(* other.                                                                  *)
SwitchTasks ==
  /\ pc = "run"
  /\ i = Switch
  /\ enabled' = [enabled EXCEPT ![First] = ~@, ![Second] = ~@]
  /\ late' = [late EXCEPT ![First] = 0, ![Second] = 0]
  /\ pc' = "read"
  /\ i' = 1
  /\ left' = 0
  /\ ticked' = FALSE
  /\ UNCHANGED <<pit_ticks, current_time, last_wakeup, elapsed>>

(* _systick_handler, once a millisecond.                                   *)
SysTick ==
  /\ IF pc = "run"
     THEN left > 0 /\ left' = left - 1 /\ UNCHANGED ticked
     ELSE ~ticked /\ ticked' = TRUE /\ UNCHANGED left
  /\ pit_ticks' = (pit_ticks + 1) % ClockSize
  /\ elapsed' = [j \in Tasks |-> IF elapsed[j] < Period[j] THEN elapsed[j] + 1
                                                         ELSE Period[j]]
  /\ late' = [j \in Tasks |-> IF ~enabled[j] \/ elapsed[j] < Period[j] THEN 0
                              ELSE IF late[j] <= MaxWait THEN late[j] + 1
                              ELSE late[j]]
  /\ UNCHANGED <<pc, i, current_time, last_wakeup, enabled>>

kernel_run == ReadClock \/ StartTask \/ SkipTask \/ EndTask \/ SwitchTasks

Next == kernel_run \/ SysTick

Spec == Init /\ [][Next]_vars

-----------------------------------------------------------------------------
(* Type invariant.                                                         *)
TypeOK ==
  /\ pit_ticks \in 0 .. ClockSize - 1
  /\ pc \in {"read", "test", "run"}
  /\ i \in Tasks
  /\ current_time \in 0 .. ClockSize - 1
  /\ last_wakeup \in [Tasks -> 0 .. ClockSize - 1]
  /\ enabled \in [Tasks -> BOOLEAN]
  /\ left \in Nat
  /\ ticked \in BOOLEAN
  /\ elapsed \in [Tasks -> Nat]
  /\ late \in [Tasks -> 0 .. MaxWait + 1]

(* A task is not started again before its period is over, up to the one    *)
(* millisecond that can end between the two reads of the counter; also     *)
(* when the counter wraps around, and for a task that was disabled.        *)
NeverEarly ==
  [][pc = "test" /\ pc' = "run" => elapsed[i] >= Period[i] - 1]_vars

(* A task is passed over only by tasks above it in the table: none starts  *)
(* while one above it has been due for a millisecond or more.  (A task     *)
(* that waits until the counter has wrapped around is no longer due.)      *)
PriorityRespected ==
  [][pc = "test" /\ pc' = "run" => \A j \in 1 .. i - 1 : late[j] = 0]_vars

(* No enabled task starves, however the others use their worst case, the   *)
(* lowest one included whose own runs take as long as its period, and      *)
(* whichever of the two control tasks is enabled.                          *)
NoStarvation == \A j \in Tasks : late[j] <= MaxWait
=============================================================================
