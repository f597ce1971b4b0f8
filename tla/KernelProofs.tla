---------------------------- MODULE KernelProofs ----------------------------
(***************************************************************************)
(* Proofs about the hat's kernel, for every table of tasks, every period   *)
(* and worst case, and every width of the millisecond counter that the     *)
(* periods fit in.                                                         *)
(*                                                                         *)
(* The counter is read modulo ClockSize, the time a task really waited is  *)
(* the ghost elapsed.  ClocksAgree relates the two; everything else        *)
(* follows from it.                                                        *)
(***************************************************************************)
EXTENDS Kernel, WellFoundedInduction, TLAPS

(* A clock of one value could not show that any time has passed.           *)
LEMMA ClockTicks == ClockSize \in Nat /\ ClockSize > 1
  <1>1. 1 \in Tasks
    BY KernelAssumption DEF Tasks
  <1>2. Period[1] \in Nat /\ Period[1] > 0 /\ Period[1] < ClockSize
    BY <1>1, KernelAssumption
  <1> QED BY <1>2, KernelAssumption

(* x % ClockSize for x at most one turn of the clock away.                 *)
LEMMA ModClock ==
  ASSUME NEW x \in Int
  PROVE  /\ 0 <= x /\ x < ClockSize => x % ClockSize = x
         /\ -ClockSize <= x /\ x < 0 => x % ClockSize = x + ClockSize
         /\ x % ClockSize \in 0 .. ClockSize - 1
  <1>1. ClockSize \in Nat /\ ClockSize > 0
    BY ClockTicks
  <1> DEFINE M == ClockSize
  <1> HIDE DEF M
  <1>2. M \in Nat /\ M > 0
    BY <1>1 DEF M
  <1>3. 0 <= x /\ x < M => x % M = x
    BY <1>2, SMTT(30)
  <1>4. -M <= x /\ x < 0 => x % M = x + M
    BY <1>2, SMTT(30)
  <1>5. x % M \in 0 .. M - 1
    BY <1>2, SMTT(30)
  <1> QED BY <1>3, <1>4, <1>5 DEF M

(* The time since a reading of the clock: nothing has passed if it has not *)
(* moved, and a tick makes it one longer unless a whole turn is over.      *)
LEMMA SinceAtOnce ==
  ASSUME pit_ticks \in 0 .. ClockSize - 1
  PROVE  Since(pit_ticks) = 0
  BY ClockTicks, ModClock DEF Since

(* A tick of the clock seen from any reading of it.                        *)
LEMMA SinceTicks ==
  ASSUME pit_ticks \in 0 .. ClockSize - 1, pit_ticks' = (pit_ticks + 1) % ClockSize,
         NEW t \in 0 .. ClockSize - 1
  PROVE  /\ pit_ticks' \in 0 .. ClockSize - 1
         /\ Since(t) \in 0 .. ClockSize - 1
         /\ (pit_ticks' - t) % ClockSize =
              IF Since(t) = ClockSize - 1 THEN 0 ELSE Since(t) + 1
  <1> DEFINE p == pit_ticks
  <1>1. /\ p \in Int /\ 0 <= p /\ p < ClockSize
        /\ t \in Int /\ 0 <= t /\ t < ClockSize
        /\ ClockSize \in Nat /\ ClockSize > 1
    BY ClockTicks
  <1>2. (p + 1) % ClockSize = IF p + 1 = ClockSize THEN 0 ELSE p + 1
    <2>1. CASE p + 1 < ClockSize
      BY <1>1, <2>1, ModClock
    <2>2. CASE p + 1 = ClockSize
      BY <1>1, <2>2, SMTT(30)
    <2> QED BY <1>1, <2>1, <2>2
  <1>3. (p - t) % ClockSize = IF p >= t THEN p - t ELSE p - t + ClockSize
    <2>1. CASE p >= t
      BY <1>1, <2>1, ModClock
    <2>2. CASE p < t
      BY <1>1, <2>2, ModClock
    <2> QED BY <1>1, <2>1, <2>2
  <1> DEFINE q == (p + 1) % ClockSize
  <1>4. q \in Int /\ 0 <= q /\ q < ClockSize
    BY <1>1, <1>2
  <1>5. (q - t) % ClockSize = IF q >= t THEN q - t ELSE q - t + ClockSize
    <2> HIDE DEF q
    <2>1. CASE q >= t
      BY <1>1, <1>4, <2>1, ModClock
    <2>2. CASE q < t
      BY <1>1, <1>4, <2>2, ModClock
    <2> QED BY <1>1, <1>4, <2>1, <2>2
  <1>6. q = IF p + 1 = ClockSize THEN 0 ELSE p + 1
    BY <1>2
  <1>7. pit_ticks' = q
    OBVIOUS
  <1>8. Since(t) = IF p >= t THEN p - t ELSE p - t + ClockSize
    BY <1>3 DEF Since
  <1> HIDE DEF p, q
  <1> QED BY <1>1, <1>4, <1>5, <1>6, <1>7, <1>8

-----------------------------------------------------------------------------
(* The kernel's variables keep their types, for every table.               *)
THEOREM KernelTypeCorrect == Spec => []TypeOK
  <1>1. Init => TypeOK
    <2> SUFFICES ASSUME Init PROVE TypeOK
      OBVIOUS
    <2>1. 1 \in Tasks /\ 0 \in 0 .. ClockSize - 1 /\ 0 \in 0 .. MaxWait + 1
      BY ClockTicks, KernelAssumption DEF Tasks
    <2>2. enabled \in [Tasks -> BOOLEAN]
      BY DEF Init
    <2>3. /\ last_wakeup \in [Tasks -> 0 .. ClockSize - 1]
          /\ elapsed \in [Tasks -> Nat] /\ late \in [Tasks -> 0 .. MaxWait + 1]
      BY <2>1 DEF Init
    <2> QED BY <2>1, <2>2, <2>3 DEF Init, TypeOK
  <1>2. TypeOK /\ [Next]_vars => TypeOK'
    <2> SUFFICES ASSUME TypeOK, [Next]_vars PROVE TypeOK'
      OBVIOUS
    <2> USE KernelAssumption
    <2>1. CASE ReadClock
      BY <2>1 DEF ReadClock, TypeOK
    <2>2. CASE StartTask
      <3>1. /\ last_wakeup' \in [Tasks -> 0 .. ClockSize - 1]
            /\ elapsed' \in [Tasks -> Nat] /\ left' \in Nat
        BY <2>2 DEF StartTask, TypeOK
      <3>2. late' \in [Tasks -> 0 .. MaxWait + 1]
        BY <2>2 DEF StartTask, TypeOK
      <3> QED BY <2>2, <3>1, <3>2 DEF StartTask, TypeOK
    <2>3. CASE SkipTask
      <3>1. i' \in Tasks
        BY <2>3 DEF SkipTask, TypeOK, Tasks
      <3>2. ticked' \in BOOLEAN
        BY <2>3 DEF SkipTask
      <3> QED BY <2>3, <3>1, <3>2 DEF SkipTask, TypeOK
    <2>4. CASE EndTask
      <3>1. i' \in Tasks
        BY <2>4 DEF EndTask, Tasks
      <3> QED BY <2>4, <3>1 DEF EndTask, TypeOK
    <2>5. CASE SwitchTasks
      <3>1. i' \in Tasks
        BY <2>5 DEF SwitchTasks, Tasks
      <3>2. enabled' \in [Tasks -> BOOLEAN]
        BY <2>5 DEF SwitchTasks, TypeOK
      <3>3. late' \in [Tasks -> 0 .. MaxWait + 1]
        BY <2>5 DEF SwitchTasks, TypeOK
      <3> QED BY <2>5, <3>1, <3>2, <3>3 DEF SwitchTasks, TypeOK
    <2>6. CASE SysTick
      <3>1. pit_ticks' \in 0 .. ClockSize - 1
        BY <2>6, ModClock DEF SysTick, TypeOK
      <3>2. left' \in Nat
        BY <2>6 DEF SysTick, TypeOK
      <3>3. ticked' \in BOOLEAN
        BY <2>6 DEF SysTick, TypeOK
      <3>4. elapsed' \in [Tasks -> Nat]
        <4>1. \A j \in Tasks : elapsed[j] \in Nat /\ Period[j] \in Nat
          BY DEF TypeOK
        <4> QED BY <2>6, <4>1 DEF SysTick
      <3>5. late' \in [Tasks -> 0 .. MaxWait + 1]
        <4>1. \A j \in Tasks :
                (IF ~enabled[j] \/ elapsed[j] < Period[j] THEN 0
                 ELSE IF late[j] <= MaxWait THEN late[j] + 1 ELSE late[j])
                \in 0 .. MaxWait + 1
          BY DEF TypeOK
        <4> QED BY <2>6, <4>1 DEF SysTick
      <3> QED BY <2>6, <3>1, <3>2, <3>3, <3>4, <3>5 DEF SysTick, TypeOK
    <2>7. CASE UNCHANGED vars
      BY <2>7 DEF vars, TypeOK
    <2> QED BY <2>1, <2>2, <2>3, <2>4, <2>5, <2>6, <2>7 DEF Next, kernel_run
  <1> QED BY <1>1, <1>2, PTL DEF Spec

-----------------------------------------------------------------------------
(* The first of the two readings is at most the one millisecond old that   *)
(* may have ended in this pass.                                            *)
ReadingFresh ==
  pc = "test" => /\ Since(current_time) \in {0, 1}
                 /\ ~ticked => Since(current_time) = 0

(* Until its period is over, the clock tells how long ago a task was       *)
(* started, but for the millisecond between the two readings.              *)
ClocksAgree ==
  \A j \in Tasks :
    /\ elapsed[j] <= Period[j]
    /\ elapsed[j] < Period[j] => Since(last_wakeup[j]) \in {elapsed[j], elapsed[j] + 1}

(* Every step keeps the reading fresh and the clocks in agreement.         *)
LEMMA ClockStep ==
  ASSUME TypeOK, ReadingFresh, ClocksAgree, [Next]_vars
  PROVE  ReadingFresh' /\ ClocksAgree'
  <1> USE KernelAssumption, ClockTicks
  <1>1. CASE ReadClock
    <2>1. Since(current_time)' = 0
      BY <1>1, ModClock DEF ReadClock, TypeOK, Since
    <2>2. ClocksAgree'
      BY <1>1 DEF ReadClock, ClocksAgree, Since
    <2> QED BY <2>1, <2>2 DEF ReadingFresh
  <1>2. CASE StartTask
    <2>1. ReadingFresh'
      BY <1>2 DEF StartTask, ReadingFresh
    <2>2. /\ i \in Tasks /\ last_wakeup'[i] = current_time /\ elapsed'[i] = 0
          /\ \A j \in Tasks \ {i} : last_wakeup'[j] = last_wakeup[j] /\ elapsed'[j] = elapsed[j]
      BY <1>2 DEF StartTask, TypeOK
    <2>3. Since(last_wakeup[i])' \in {0, 1}
      BY <1>2, <2>2 DEF StartTask, ReadingFresh, Since
    <2> QED BY <1>2, <2>1, <2>2, <2>3 DEF StartTask, ClocksAgree, Since
  <1>3. CASE SkipTask
    BY <1>3 DEF SkipTask, ReadingFresh, ClocksAgree, Since
  <1>4. CASE EndTask
    BY <1>4 DEF EndTask, ReadingFresh, ClocksAgree, Since
  <1>5. CASE SwitchTasks
    BY <1>5 DEF SwitchTasks, ReadingFresh, ClocksAgree, Since
  <1>6. CASE SysTick
    <2>1. \A t \in 0 .. ClockSize - 1 :
            /\ Since(t) \in 0 .. ClockSize - 1
            /\ (pit_ticks' - t) % ClockSize =
                 IF Since(t) = ClockSize - 1 THEN 0 ELSE Since(t) + 1
      BY <1>6, SinceTicks DEF SysTick, TypeOK
    <2>2. ReadingFresh'
      <3>1. SUFFICES ASSUME pc = "test"
                     PROVE  Since(current_time)' \in {0, 1} /\ ticked'
        BY <1>6 DEF SysTick, ReadingFresh
      <3>2. ~ticked /\ ticked' /\ current_time' = current_time
        BY <1>6, <3>1 DEF SysTick
      <3>3. Since(current_time) = 0
        BY <3>1, <3>2 DEF ReadingFresh
      <3>4. (pit_ticks' - current_time) % ClockSize = 1
        BY <2>1, <3>3 DEF TypeOK
      <3> QED BY <3>2, <3>4 DEF Since
    <2>3. ASSUME NEW j \in Tasks
          PROVE  /\ elapsed'[j] <= Period[j]
                 /\ elapsed'[j] < Period[j] =>
                      Since(last_wakeup[j])' \in {elapsed'[j], elapsed'[j] + 1}
      <3>1. elapsed'[j] = IF elapsed[j] < Period[j] THEN elapsed[j] + 1 ELSE Period[j]
        BY <1>6 DEF SysTick
      <3>2. /\ last_wakeup' = last_wakeup /\ last_wakeup[j] \in 0 .. ClockSize - 1
            /\ elapsed[j] \in Nat /\ Period[j] \in Nat /\ Period[j] < ClockSize
        BY <1>6 DEF SysTick, TypeOK
      <3>3. Since(last_wakeup[j])' =
              IF Since(last_wakeup[j]) = ClockSize - 1 THEN 0 ELSE Since(last_wakeup[j]) + 1
        BY <2>1, <3>2 DEF Since
      <3>4. elapsed[j] < Period[j] => Since(last_wakeup[j]) \in {elapsed[j], elapsed[j] + 1}
        BY DEF ClocksAgree
      <3> QED BY <3>1, <3>2, <3>3, <3>4
    <2> QED BY <2>2, <2>3 DEF ClocksAgree
  <1>7. CASE UNCHANGED vars
    BY <1>7 DEF vars, ReadingFresh, ClocksAgree, Since
  <1> QED BY <1>1, <1>2, <1>3, <1>4, <1>5, <1>6, <1>7 DEF Next, kernel_run

(* So they agree at all times, however long a task was disabled.           *)
LEMMA ClocksAlwaysAgree == Spec => [](TypeOK /\ ReadingFresh /\ ClocksAgree)
  <1>1. Init => ReadingFresh /\ ClocksAgree
    <2>1. ASSUME Init PROVE Since(0) = 0
      BY <2>1, ClockTicks, SinceAtOnce DEF Init
    <2>2. ASSUME Init PROVE ClocksAgree
      <3> SUFFICES ASSUME NEW j \in Tasks
                   PROVE  elapsed[j] = 0 /\ last_wakeup[j] = 0
        BY <2>1, <2>2, KernelAssumption DEF ClocksAgree
      <3> QED BY <2>2 DEF Init
    <2> QED BY <2>2 DEF Init, ReadingFresh
  <1> QED BY <1>1, ClockStep, KernelTypeCorrect, PTL DEF Spec

(* No task is started before its period is over, but for the millisecond   *)
(* that may end between the two readings of the clock: also across a       *)
(* wrap-around, and after any time for which a task was disabled.          *)
THEOREM KernelNeverEarly == Spec => NeverEarly
  <1>1. TypeOK /\ ClocksAgree /\ [Next]_vars
        => [pc = "test" /\ pc' = "run" => elapsed[i] >= Period[i] - 1]_vars
    <2> SUFFICES ASSUME TypeOK, ClocksAgree, Next, pc = "test", pc' = "run"
                 PROVE  elapsed[i] >= Period[i] - 1
      BY DEF vars
    <2>1. StartTask
      BY DEF Next, kernel_run, ReadClock, SkipTask, EndTask, SwitchTasks, SysTick
    <2>2. Since(last_wakeup[i]) >= Period[i] /\ i \in Tasks
      BY <2>1 DEF StartTask, Due, TypeOK
    <2> QED BY <2>2, KernelAssumption DEF ClocksAgree, TypeOK
  <1> QED BY <1>1, ClocksAlwaysAgree, PTL DEF Spec, NeverEarly

-----------------------------------------------------------------------------

(* The tasks that nobody disables.                                         *)
Upper == Tasks \ {First, Second}

(* Exactly one of the control tasks is enabled, and all others are; only   *)
(* an enabled task whose period is over is late.                           *)
OneControl ==
  /\ \A j \in Upper : enabled[j]
  /\ enabled[First] # enabled[Second]
  /\ \A j \in Tasks : ~enabled[j] \/ elapsed[j] < Period[j] => late[j] = 0
  /\ pc # "run" => left = 0

(* The clock also tells how long a task has waited beyond its period.      *)
WaitShown(j) ==
  elapsed[j] = Period[j] =>
    Since(last_wakeup[j]) \in {Period[j] + late[j], Period[j] + late[j] + 1}

(* A control task may have been disabled for so long that the counter has  *)
(* wrapped around since it last ran: of its wait since it was enabled, the *)
(* clock shows what lies after the end of its period.                      *)
ShownWait(j) ==
  LET shown == Since(last_wakeup[j]) - Period[j]
  IN  IF shown <= 0 THEN 0 ELSE IF shown <= late[j] THEN shown ELSE late[j]

(* A task that the scan has passed over was not due before the millisecond *)
(* that ended in this pass, if one did.                                    *)
Passed(j) ==
  pc # "run" /\ j < i /\ enabled[j] =>
    \/ Since(last_wakeup[j]) < Period[j]
    \/ ticked /\ Since(last_wakeup[j]) = Period[j]

(* OneControl holds at the start.                                          *)
LEMMA OneControlInit == Init => OneControl
  BY KernelAssumption DEF Init, OneControl, Upper

(* Every step keeps just one of the control tasks enabled.                 *)
LEMMA OneControlStep ==
  ASSUME TypeOK, ClocksAgree, OneControl, [Next]_vars
  PROVE  OneControl'
  <1> USE KernelAssumption
  <1>1. CASE ReadClock
    BY <1>1 DEF ReadClock, OneControl
  <1>2. CASE StartTask
    <2>1. \A j \in Tasks : late'[j] = IF j = i THEN 0 ELSE late[j]
      BY <1>2 DEF StartTask, TypeOK
    <2>2. \A j \in Tasks : elapsed'[j] = IF j = i THEN 0 ELSE elapsed[j]
      BY <1>2 DEF StartTask, TypeOK
    <2>3. enabled' = enabled /\ pc' = "run"
      BY <1>2 DEF StartTask
    <2> QED BY <2>1, <2>2, <2>3 DEF OneControl
  <1>3. CASE SkipTask
    BY <1>3 DEF SkipTask, OneControl
  <1>4. CASE EndTask
    BY <1>4 DEF EndTask, OneControl
  <1>5. CASE SwitchTasks
    <2>1. \A j \in Tasks : late'[j] = IF j \in {First, Second} THEN 0 ELSE late[j]
      BY <1>5 DEF SwitchTasks, TypeOK
    <2>2. \A j \in Tasks : enabled'[j] = IF j \in {First, Second} THEN ~enabled[j] ELSE enabled[j]
      BY <1>5 DEF SwitchTasks, TypeOK
    <2>3. elapsed' = elapsed /\ left' = 0
      BY <1>5 DEF SwitchTasks
    <2>4. \A j \in Upper : enabled'[j]
      BY <2>2 DEF Upper, OneControl
    <2>5. enabled'[First] # enabled'[Second]
      BY <2>2 DEF OneControl, TypeOK
    <2>6. \A j \in Tasks : ~enabled'[j] \/ elapsed'[j] < Period[j] => late'[j] = 0
      BY <2>1, <2>2, <2>3 DEF OneControl
    <2> QED BY <2>3, <2>4, <2>5, <2>6 DEF OneControl
  <1>6. CASE SysTick
    <2>1. enabled' = enabled /\ (pc' # "run" => left' = left /\ pc # "run")
      BY <1>6 DEF SysTick
    <2>2. \A j \in Tasks : ~enabled[j] \/ elapsed[j] < Period[j] => late'[j] = 0
      BY <1>6 DEF SysTick
    <2>3. \A j \in Tasks : elapsed'[j] < Period[j] => elapsed[j] < Period[j]
      BY <1>6 DEF SysTick, TypeOK
    <2> QED BY <2>1, <2>2, <2>3 DEF OneControl
  <1>7. CASE UNCHANGED vars
    BY <1>7 DEF vars, OneControl
  <1> QED BY <1>1, <1>2, <1>3, <1>4, <1>5, <1>6, <1>7 DEF Next, kernel_run

(* What a tick does to a task that is never disabled.                      *)
LEMMA TickOf ==
  ASSUME TypeOK, ClocksAgree, OneControl, SysTick, NEW j \in Upper
  PROVE  /\ elapsed[j] < Period[j] => elapsed'[j] = elapsed[j] + 1 /\ late'[j] = 0
         /\ elapsed[j] = Period[j] =>
              /\ elapsed'[j] = elapsed[j]
              /\ late'[j] = IF late[j] <= MaxWait THEN late[j] + 1 ELSE late[j]
         /\ Since(last_wakeup[j])' = IF Since(last_wakeup[j]) = ClockSize - 1 THEN 0
                                     ELSE Since(last_wakeup[j]) + 1
  <1>1. j \in Tasks /\ enabled[j] /\ last_wakeup[j] \in 0 .. ClockSize - 1
        /\ elapsed[j] \in Nat /\ Period[j] \in Nat
    BY KernelAssumption DEF Upper, OneControl, TypeOK
  <1>2. /\ elapsed'[j] = IF elapsed[j] < Period[j] THEN elapsed[j] + 1 ELSE Period[j]
        /\ late'[j] = IF ~enabled[j] \/ elapsed[j] < Period[j] THEN 0
                      ELSE IF late[j] <= MaxWait THEN late[j] + 1 ELSE late[j]
        /\ last_wakeup' = last_wakeup
    BY <1>1 DEF SysTick
  <1>3. Since(last_wakeup[j])' = IF Since(last_wakeup[j]) = ClockSize - 1 THEN 0
                                 ELSE Since(last_wakeup[j]) + 1
    BY <1>1, <1>2, SinceTicks DEF SysTick, TypeOK, Since
  <1> QED BY <1>1, <1>2, <1>3

(* As long as a task waits no longer than m, the clock shows how long.     *)
LEMMA WaitShownStep ==
  ASSUME TypeOK, ReadingFresh, ClocksAgree, OneControl, [Next]_vars,
         NEW j \in Upper, WaitShown(j),
         NEW m \in Nat, m <= MaxWait, Period[j] + m + 1 < ClockSize,
         late'[j] <= m
  PROVE  WaitShown(j)'
  <1> USE KernelAssumption
  <1>0. /\ j \in Tasks /\ j # First /\ j # Second
        /\ elapsed[j] \in Nat /\ late[j] \in Nat /\ Period[j] \in Nat /\ Period[j] > 0
        /\ last_wakeup[j] \in 0 .. ClockSize - 1
    BY DEF Upper, TypeOK
  <1>1. CASE ReadClock
    BY <1>1 DEF ReadClock, WaitShown, Since
  <1>2. CASE StartTask
    <2>1. CASE j = i
      <3>1. elapsed'[j] = 0
        BY <1>0, <1>2, <2>1 DEF StartTask, TypeOK
      <3> QED BY <1>0, <3>1 DEF WaitShown
    <2>2. CASE j # i
      <3>1. /\ elapsed'[j] = elapsed[j] /\ late'[j] = late[j]
            /\ last_wakeup'[j] = last_wakeup[j] /\ pit_ticks' = pit_ticks
        BY <1>0, <1>2, <2>2 DEF StartTask, TypeOK
      <3> QED BY <3>1 DEF WaitShown, Since
    <2> QED BY <2>1, <2>2
  <1>3. CASE SkipTask
    BY <1>3 DEF SkipTask, WaitShown, Since
  <1>4. CASE EndTask
    BY <1>4 DEF EndTask, WaitShown, Since
  <1>5. CASE SwitchTasks
    <2>1. late'[j] = late[j]
      BY <1>0, <1>5 DEF SwitchTasks, TypeOK
    <2> QED BY <1>5, <2>1 DEF SwitchTasks, WaitShown, Since
  <1>6. CASE SysTick
    <2>1. /\ elapsed[j] < Period[j] => elapsed'[j] = elapsed[j] + 1 /\ late'[j] = 0
          /\ elapsed[j] = Period[j] =>
               /\ elapsed'[j] = elapsed[j]
               /\ late'[j] = IF late[j] <= MaxWait THEN late[j] + 1 ELSE late[j]
          /\ Since(last_wakeup[j])' = IF Since(last_wakeup[j]) = ClockSize - 1 THEN 0
                                      ELSE Since(last_wakeup[j]) + 1
      BY <1>6, TickOf
    <2>2. elapsed[j] < Period[j] => Since(last_wakeup[j]) \in {elapsed[j], elapsed[j] + 1}
      BY <1>0 DEF ClocksAgree
    <2>3. elapsed[j] = Period[j] =>
            Since(last_wakeup[j]) \in {Period[j] + late[j], Period[j] + late[j] + 1}
      BY DEF WaitShown
    <2>4. elapsed[j] <= Period[j]
      BY <1>0 DEF ClocksAgree
    <2>5. elapsed'[j] = Period[j] =>
            Since(last_wakeup[j])' \in {Period[j] + late'[j], Period[j] + late'[j] + 1}
      BY <1>0, <2>1, <2>2, <2>3, <2>4, ClockTicks
    <2> QED BY <2>5 DEF WaitShown
  <1>7. CASE UNCHANGED vars
    BY <1>7 DEF vars, WaitShown, Since
  <1> QED BY <1>1, <1>2, <1>3, <1>4, <1>5, <1>6, <1>7 DEF Next, kernel_run

(* What the clock shows of a wait, in this state and in the next.          *)
LEMMA ShownWaitType ==
  ASSUME NEW j \in Tasks
  PROVE  /\ TypeOK => /\ Since(last_wakeup[j]) \in 0 .. ClockSize - 1
                      /\ ShownWait(j) \in Nat /\ ShownWait(j) <= late[j]
                      /\ Since(last_wakeup[j]) <= Period[j] => ShownWait(j) = 0
                      /\ Since(last_wakeup[j]) > Period[j] =>
                           \/ /\ ShownWait(j) = late[j]
                              /\ ShownWait(j) <= Since(last_wakeup[j]) - Period[j]
                           \/ /\ ShownWait(j) = Since(last_wakeup[j]) - Period[j]
                              /\ ShownWait(j) < late[j]
         /\ TypeOK' => /\ Since(last_wakeup[j])' \in 0 .. ClockSize - 1
                       /\ ShownWait(j)' \in Nat /\ ShownWait(j)' <= late'[j]
                       /\ Since(last_wakeup[j])' <= Period[j] => ShownWait(j)' = 0
                       /\ Since(last_wakeup[j])' > Period[j] =>
                            \/ /\ ShownWait(j)' = late'[j]
                               /\ ShownWait(j)' <= Since(last_wakeup[j])' - Period[j]
                            \/ /\ ShownWait(j)' = Since(last_wakeup[j])' - Period[j]
                               /\ ShownWait(j)' < late'[j]
  <1>0. Period[j] \in Nat /\ ClockSize \in Nat /\ ClockSize > 1
    BY KernelAssumption, ClockTicks
  <1>1. ASSUME NEW p \in 0 .. ClockSize - 1, NEW t \in 0 .. ClockSize - 1
        PROVE  (p - t) % ClockSize \in 0 .. ClockSize - 1
    BY <1>0, ModClock
  <1>2. TypeOK => Since(last_wakeup[j]) \in 0 .. ClockSize - 1 /\ late[j] \in Nat
    BY <1>1, KernelAssumption DEF TypeOK, Since
  <1>3. TypeOK' => Since(last_wakeup[j])' \in 0 .. ClockSize - 1 /\ late'[j] \in Nat
    BY <1>1, KernelAssumption DEF TypeOK, Since
  <1>4. ASSUME TypeOK
        PROVE  /\ Since(last_wakeup[j]) \in 0 .. ClockSize - 1
               /\ ShownWait(j) \in Nat /\ ShownWait(j) <= late[j]
               /\ Since(last_wakeup[j]) <= Period[j] => ShownWait(j) = 0
               /\ Since(last_wakeup[j]) > Period[j] =>
                    \/ /\ ShownWait(j) = late[j]
                       /\ ShownWait(j) <= Since(last_wakeup[j]) - Period[j]
                    \/ /\ ShownWait(j) = Since(last_wakeup[j]) - Period[j]
                       /\ ShownWait(j) < late[j]
    <2> DEFINE s == Since(last_wakeup[j])
    <2>1. s \in 0 .. ClockSize - 1 /\ late[j] \in Nat
      BY <1>2, <1>4
    <2>2. ShownWait(j) = IF s - Period[j] <= 0 THEN 0
                         ELSE IF s - Period[j] <= late[j] THEN s - Period[j] ELSE late[j]
      BY DEF ShownWait
    <2> HIDE DEF s
    <2>3. /\ s \in 0 .. ClockSize - 1
          /\ ShownWait(j) \in Nat /\ ShownWait(j) <= late[j]
          /\ s <= Period[j] => ShownWait(j) = 0
          /\ s > Period[j] => \/ ShownWait(j) = late[j] /\ ShownWait(j) <= s - Period[j]
                              \/ ShownWait(j) = s - Period[j] /\ ShownWait(j) < late[j]
      BY <1>0, <2>1, <2>2
    <2> QED BY <2>3 DEF s
  <1>5. ASSUME TypeOK'
        PROVE  /\ Since(last_wakeup[j])' \in 0 .. ClockSize - 1
               /\ ShownWait(j)' \in Nat /\ ShownWait(j)' <= late'[j]
               /\ Since(last_wakeup[j])' <= Period[j] => ShownWait(j)' = 0
               /\ Since(last_wakeup[j])' > Period[j] =>
                    \/ /\ ShownWait(j)' = late'[j]
                       /\ ShownWait(j)' <= Since(last_wakeup[j])' - Period[j]
                    \/ /\ ShownWait(j)' = Since(last_wakeup[j])' - Period[j]
                       /\ ShownWait(j)' < late'[j]
    <2> DEFINE s == Since(last_wakeup[j])'
    <2>1. s \in 0 .. ClockSize - 1 /\ late'[j] \in Nat
      BY <1>3, <1>5
    <2>2. ShownWait(j)' = IF s - Period[j] <= 0 THEN 0
                          ELSE IF s - Period[j] <= late'[j] THEN s - Period[j] ELSE late'[j]
      BY DEF ShownWait
    <2> HIDE DEF s
    <2>3. /\ s \in 0 .. ClockSize - 1
          /\ ShownWait(j)' \in Nat /\ ShownWait(j)' <= late'[j]
          /\ s <= Period[j] => ShownWait(j)' = 0
          /\ s > Period[j] => \/ ShownWait(j)' = late'[j] /\ ShownWait(j)' <= s - Period[j]
                              \/ ShownWait(j)' = s - Period[j] /\ ShownWait(j)' < late'[j]
      BY <1>0, <2>1, <2>2
    <2> QED BY <2>3 DEF s
  <1> QED BY <1>4, <1>5

(* A tick of the clock as a control task sees it.                          *)
LEMMA ShownTick ==
  ASSUME TypeOK, SysTick, NEW j \in Tasks, enabled[j]
  PROVE  /\ Since(last_wakeup[j])' = IF Since(last_wakeup[j]) = ClockSize - 1 THEN 0
                                     ELSE Since(last_wakeup[j]) + 1
         /\ late'[j] \in {0, late[j], late[j] + 1}
         /\ late[j] <= MaxWait => late'[j] \in {0, late[j] + 1}
         /\ enabled' = enabled
  <1>1. last_wakeup[j] \in 0 .. ClockSize - 1 /\ last_wakeup' = last_wakeup
    BY DEF TypeOK, SysTick
  <1>2. Since(last_wakeup[j])' = IF Since(last_wakeup[j]) = ClockSize - 1 THEN 0
                                 ELSE Since(last_wakeup[j]) + 1
    BY <1>1, SinceTicks DEF SysTick, TypeOK, Since
  <1>3. late'[j] = IF ~enabled[j] \/ elapsed[j] < Period[j] THEN 0
                   ELSE IF late[j] <= MaxWait THEN late[j] + 1 ELSE late[j]
    BY DEF SysTick
  <1>4. enabled' = enabled
    BY DEF SysTick
  <1> QED BY <1>2, <1>3, <1>4

(* What the scan has passed over in this round stays passed over.          *)
LEMMA PassedStep ==
  ASSUME TypeOK, [Next]_vars, NEW j \in Tasks, Passed(j)
  PROVE  Passed(j)'
  <1>0. /\ j \in Nat /\ j > 0 /\ i \in Nat /\ Period[j] \in Nat /\ Period[j] < ClockSize
        /\ Since(last_wakeup[j]) \in 0 .. ClockSize - 1
    <2>1. j \in Nat /\ j > 0 /\ i \in Nat /\ Period[j] \in Nat /\ Period[j] < ClockSize
      BY KernelAssumption DEF Tasks, TypeOK
    <2>2. Since(last_wakeup[j]) \in 0 .. ClockSize - 1
      BY ShownWaitType
    <2> QED BY <2>1, <2>2
  <1>1. CASE ReadClock
    BY <1>1 DEF ReadClock, Passed, Since
  <1>2. CASE StartTask
    BY <1>2 DEF StartTask, Passed
  <1>3. CASE SkipTask
    <2>0. /\ pc = "test" /\ UNCHANGED <<pit_ticks, last_wakeup, enabled>>
          /\ Since(last_wakeup[j])' = Since(last_wakeup[j])
      BY <1>3 DEF SkipTask, Since
    <2>1. CASE i = N
      <3>1. i' = 1
        BY <1>3, <2>1 DEF SkipTask
      <3> QED BY <1>0, <3>1 DEF Passed
    <2>2. CASE i # N /\ j < i
      <3>1. ticked' = ticked
        BY <1>3, <2>2 DEF SkipTask, TypeOK
      <3> QED BY <2>0, <2>2, <3>1 DEF Passed
    <2>3. CASE i # N /\ j = i
      <3>1. enabled[j] => Since(last_wakeup[j]) < Period[j]
        BY <1>0, <1>3, <2>3 DEF SkipTask, Due
      <3> QED BY <2>0, <3>1 DEF Passed
    <2>4. CASE i # N /\ j > i
      <3>1. i' = i + 1
        BY <1>3, <2>4 DEF SkipTask
      <3> QED BY <1>0, <2>4, <3>1 DEF Passed
    <2> QED BY <1>0, <2>1, <2>2, <2>3, <2>4
  <1>4. CASE EndTask
    BY <1>0, <1>4 DEF EndTask, Passed
  <1>5. CASE SwitchTasks
    BY <1>0, <1>5 DEF SwitchTasks, Passed
  <1>6. CASE SysTick
    <2>1. CASE pc = "run"
      BY <1>6, <2>1 DEF SysTick, Passed
    <2>2. CASE pc # "run"
      <3>1. ~ticked /\ ticked' /\ pc' = pc /\ i' = i /\ enabled' = enabled
        BY <1>6, <2>2 DEF SysTick
      <3>2. j < i /\ enabled[j] => Since(last_wakeup[j]) < Period[j]
        BY <2>2, <3>1 DEF Passed
      <3>3. ASSUME j < i, enabled[j]
            PROVE  Since(last_wakeup[j])' = Since(last_wakeup[j]) + 1
        <4>1. Since(last_wakeup[j]) # ClockSize - 1
          BY <1>0, <3>2, <3>3, KernelAssumption
        <4> QED BY <1>6, <3>3, <4>1, ShownTick
      <3>4. j < i /\ enabled[j] => \/ Since(last_wakeup[j])' < Period[j]
                                   \/ Since(last_wakeup[j])' = Period[j]
        BY <1>0, <3>2, <3>3
      <3> QED BY <3>1, <3>4 DEF Passed
    <2> QED BY <2>1, <2>2
  <1>7. CASE UNCHANGED vars
    BY <1>7 DEF vars, Passed, Since
  <1> QED BY <1>1, <1>2, <1>3, <1>4, <1>5, <1>6, <1>7 DEF Next, kernel_run

(* What the scan has passed over is not late, if the clock shows its wait. *)
LEMMA PassedNotLate ==
  ASSUME TypeOK, ClocksAgree, OneControl, NEW j \in Upper, WaitShown(j), Passed(j),
         pc # "run", j < i
  PROVE  late[j] = 0
  <1>1. /\ j \in Tasks /\ enabled[j] /\ elapsed[j] \in Nat /\ late[j] \in Nat
        /\ Period[j] \in Nat /\ elapsed[j] <= Period[j]
    BY KernelAssumption DEF Upper, TypeOK, OneControl, ClocksAgree
  <1>2. Since(last_wakeup[j]) \in 0 .. ClockSize - 1
    BY <1>1, ShownWaitType
  <1>3. Since(last_wakeup[j]) <= Period[j]
    BY <1>1, <1>2 DEF Passed
  <1>4. elapsed[j] = Period[j] =>
          Since(last_wakeup[j]) \in {Period[j] + late[j], Period[j] + late[j] + 1}
    BY DEF WaitShown
  <1>5. elapsed[j] = Period[j] => late[j] = 0
    BY <1>1, <1>2, <1>3, <1>4, ClockTicks
  <1>6. elapsed[j] < Period[j] => late[j] = 0
    BY <1>1 DEF OneControl
  <1> QED BY <1>1, <1>5, <1>6

-----------------------------------------------------------------------------
(* The control tasks are below all others, as in the hat's table.          *)
ControlTasksLast == \A j \in Upper : j < First /\ j < Second

(* A start overtakes nobody: an upper task above was passed over in this   *)
(* pass, and the other control task is not enabled.                        *)
LEMMA StartOvertakesNobody ==
  ASSUME TypeOK, ClocksAgree, OneControl, ControlTasksLast,
         \A j \in Upper : WaitShown(j) /\ Passed(j), Next, pc = "test", pc' = "run"
  PROVE  \A j \in 1 .. i - 1 : late[j] = 0
  <1>1. StartTask
    BY DEF Next, kernel_run, ReadClock, SkipTask, EndTask, SwitchTasks, SysTick
  <1>2. i \in Tasks /\ enabled[i] /\ First \in Tasks /\ Second \in Tasks
    BY <1>1, KernelAssumption DEF StartTask, Due, TypeOK
  <1> SUFFICES ASSUME NEW j \in 1 .. i - 1 PROVE late[j] = 0
    OBVIOUS
  <1>3. j \in Tasks /\ j < i /\ i \in Nat /\ j \in Nat
    BY <1>2, KernelAssumption DEF Tasks
  <1>4. CASE j \in Upper
    BY <1>3, <1>4, PassedNotLate
  <1>5. CASE j \notin Upper
    <2>1. j \in {First, Second}
      BY <1>3, <1>5 DEF Upper
    <2>2. i \in {First, Second}
      BY <1>2, <1>3, <2>1 DEF Upper, ControlTasksLast, Tasks
    <2>3. ~enabled[j]
      <3>1. i # j
        BY <1>3
      <3>2. {i, j} = {First, Second}
        BY <2>1, <2>2, <3>1
      <3> QED BY <1>2, <3>2 DEF OneControl, TypeOK
    <2> QED BY <1>3, <2>3 DEF OneControl
  <1> QED BY <1>4, <1>5

(* Nobody waits at the start.                                              *)
LEMMA NobodyWaits ==
  ASSUME Init, NEW j \in Tasks
  PROVE  elapsed[j] = 0 /\ late[j] = 0 /\ left = 0 /\ WaitShown(j) /\ Passed(j)
  <1>1. Period[j] \in Nat /\ Period[j] > 0 /\ j \in Nat /\ j > 0
    BY KernelAssumption DEF Tasks
  <1>2. elapsed[j] = 0 /\ late[j] = 0 /\ left = 0 /\ i = 1
    BY DEF Init
  <1> QED BY <1>1, <1>2 DEF WaitShown, Passed

(* As long as no task starves, no start overtakes a task that is late.     *)
THEOREM KernelKeepsPriority ==
  ASSUME ControlTasksLast, \A j \in Upper : Period[j] + MaxWait + 1 < ClockSize
  PROVE  Spec /\ []NoStarvation => PriorityRespected
  <1> DEFINE Inv == OneControl /\ \A j \in Upper : WaitShown(j) /\ Passed(j)
  <1>1. Init => Inv
    BY NobodyWaits, OneControlInit DEF Upper
  <1>2. ASSUME TypeOK, ReadingFresh, ClocksAgree, NoStarvation', Inv, [Next]_vars
        PROVE  Inv'
    <2>1. OneControl'
      BY <1>2, OneControlStep
    <2>2. ASSUME NEW j \in Upper PROVE WaitShown(j)' /\ Passed(j)'
      <3>0. j \in Tasks
        BY DEF Upper
      <3>1. late'[j] <= MaxWait /\ MaxWait \in Nat
        BY <1>2, <3>0, KernelAssumption DEF NoStarvation
      <3>2. Period[j] + MaxWait + 1 < ClockSize /\ MaxWait <= MaxWait
        BY <3>1
      <3>3. WaitShown(j)'
        BY <1>2, <3>1, <3>2, WaitShownStep
      <3>4. Passed(j)'
        BY <1>2, <3>0, PassedStep
      <3> QED BY <3>3, <3>4
    <2> QED BY <2>1, <2>2
  <1>3. TypeOK /\ ClocksAgree /\ Inv /\ [Next]_vars
        => [pc = "test" /\ pc' = "run" => \A j \in 1 .. i - 1 : late[j] = 0]_vars
    BY StartOvertakesNobody
  <1> HIDE DEF Inv
  <1> QED BY <1>1, <1>2, <1>3, ClocksAlwaysAgree, PTL DEF Spec, PriorityRespected

-----------------------------------------------------------------------------
(* A set of natural numbers has a least member.                            *)
LEMMA LeastMember ==
  ASSUME NEW T, T \subseteq Nat, T # {}
  PROVE  \E n \in T : \A k \in T : n <= k
  <1> DEFINE R == OpToRel(<, Nat)
  <1>1. IsWellFoundedOn(R, Nat)
    BY NatLessThanWellFounded, Zenon
  <1>2. \A k, n \in Nat : k < n => <<k, n>> \in R
    BY Zenon DEF OpToRel
  <1> HIDE DEF R
  <1>3. \E n \in T : \A k \in T : ~(<<k, n>> \in R)
    BY <1>1, WFMin, Zenon
  <1>4. \E n \in T : \A k \in T : ~(k < n)
    BY <1>2, <1>3, Zenon
  <1> QED BY <1>4

(* The sum of g over all tasks, added up in the order of the table.        *)
Sum(g) == LET upto[k \in 0 .. N] == IF k = 0 THEN 0 ELSE upto[k - 1] + g[k]
          IN  upto[N]

Adds(g, f, n) == /\ f \in [0 .. N -> Nat] /\ f[0] = 0
                 /\ \A k \in 1 .. n : f[k] = f[k - 1] + g[k]

LEMMA SumAdds ==
  ASSUME NEW g \in [Tasks -> Nat]
  PROVE  \E f : Adds(g, f, N) /\ Sum(g) = f[N]
  <1> USE KernelAssumption
  <1> DEFINE T == {n \in 0 .. N : ~ \E f : Adds(g, f, n)}
  <1>1. T = {}
    <2> SUFFICES ASSUME T # {} PROVE FALSE
      OBVIOUS
    <2>1. T \subseteq Nat
      OBVIOUS
    <2> HIDE DEF T
    <2>2. PICK n \in T : \A k \in T : n <= k
      BY <2>1, LeastMember
    <2>3. n \in 0 .. N /\ ~ \E f : Adds(g, f, n)
      BY <2>2 DEF T
    <2>4. CASE n = 0
      <3>1. Adds(g, [k \in 0 .. N |-> 0], 0)
        BY DEF Adds
      <3> QED BY <2>3, <2>4, <3>1
    <2>5. CASE n # 0
      <3>1. n - 1 \in 0 .. N /\ n - 1 \notin T
        BY <2>2, <2>3, <2>5
      <3>2. PICK f : Adds(g, f, n - 1)
        BY <3>1 DEF T
      <3>3. n \in Tasks /\ n \in 0 .. N /\ f[n - 1] \in Nat /\ g[n] \in Nat
        BY <2>3, <2>5, <3>1, <3>2 DEF Tasks, Adds
      <3> DEFINE h == [f EXCEPT ![n] = f[n - 1] + g[n]]
      <3>4. h \in [0 .. N -> Nat]
        BY <3>2, <3>3 DEF Adds
      <3>5. \A k \in 0 .. N : h[k] = IF k = n THEN f[n - 1] + g[n] ELSE f[k]
        BY <3>2 DEF Adds
      <3> HIDE DEF h
      <3>6. ASSUME NEW k \in 1 .. n PROVE h[k] = h[k - 1] + g[k]
        <4>1. k \in 0 .. N /\ k - 1 \in 0 .. N /\ k - 1 # n
          BY <2>3, <3>6
        <4>2. k # n => f[k] = f[k - 1] + g[k]
          BY <2>3, <3>2, <3>6 DEF Adds
        <4> QED BY <3>5, <4>1, <4>2
      <3>7. h[0] = 0
        BY <2>3, <2>5, <3>2, <3>5 DEF Adds
      <3> QED BY <2>3, <3>4, <3>6, <3>7 DEF Adds
    <2> QED BY <2>4, <2>5
  <1>2. PICK f : Adds(g, f, N)
    BY <1>1
  <1> DEFINE U(e) == [k \in 0 .. N |-> IF k = 0 THEN 0 ELSE e[k - 1] + g[k]]
  <1>3. f = U(f)
    BY <1>2 DEF Adds
  <1> DEFINE c == CHOOSE e : e = U(e)
  <1>4. c = U(c)
    BY <1>3
  <1>5. Sum(g) = c[N]
    BY DEF Sum
  <1> HIDE DEF c
  <1>6. \A k \in 0 .. N : c[k] = IF k = 0 THEN 0 ELSE c[k - 1] + g[k]
    BY <1>4
  <1> DEFINE D == {n \in 0 .. N : c[n] # f[n]}
  <1>7. D = {}
    <2> SUFFICES ASSUME D # {} PROVE FALSE
      OBVIOUS
    <2>1. D \subseteq Nat
      OBVIOUS
    <2> HIDE DEF D
    <2>2. PICK n \in D : \A k \in D : n <= k
      BY <2>1, LeastMember
    <2>3. n \in 0 .. N /\ c[n] # f[n]
      BY <2>2 DEF D
    <2>4. n # 0
      BY <1>2, <1>6, <2>3 DEF Adds
    <2>5. n - 1 \in 0 .. N /\ c[n - 1] = f[n - 1]
      BY <2>2, <2>3, <2>4 DEF D
    <2>6. f[n] = f[n - 1] + g[n]
      BY <1>2, <2>3, <2>4 DEF Adds
    <2> QED BY <1>6, <2>3, <2>4, <2>5, <2>6
  <1>8. c[N] = f[N]
    BY <1>7
  <1> QED BY <1>2, <1>5, <1>8

(* If no term is smaller and one is greater by c, so is the sum.           *)
LEMMA SumGrows ==
  ASSUME NEW g \in [Tasks -> Nat], NEW h \in [Tasks -> Nat],
         NEW n \in Tasks, NEW c \in Nat, g[n] + c <= h[n],
         \A k \in Tasks : g[k] <= h[k]
  PROVE  Sum(g) \in Nat /\ Sum(h) \in Nat /\ Sum(g) + c <= Sum(h)
  <1> USE KernelAssumption
  <1>1. PICK s : Adds(g, s, N) /\ Sum(g) = s[N]
    BY SumAdds
  <1>2. PICK t : Adds(h, t, N) /\ Sum(h) = t[N]
    BY SumAdds
  <1> DEFINE plus(k) == IF k >= n THEN c ELSE 0
             T == {k \in 0 .. N : ~(s[k] + plus(k) <= t[k])}
  <1>0. N \in Nat /\ n \in 1 .. N /\ N \in 0 .. N
    BY DEF Tasks
  <1>3. T = {}
    <2> SUFFICES ASSUME T # {} PROVE FALSE
      OBVIOUS
    <2>1. T \subseteq Nat
      OBVIOUS
    <2> HIDE DEF T
    <2>2. PICK m \in T : \A k \in T : m <= k
      BY <2>1, LeastMember
    <2>3. m \in 0 .. N /\ ~(s[m] + plus(m) <= t[m])
      BY <2>2 DEF T
    <2>4. m # 0
      BY <1>0, <1>1, <1>2, <2>3 DEF Adds
    <2>5. m - 1 \in 0 .. N /\ s[m - 1] + plus(m - 1) <= t[m - 1]
      BY <2>2, <2>3, <2>4 DEF T
    <2>6. s[m] = s[m - 1] + g[m] /\ t[m] = t[m - 1] + h[m]
      <3>1. m \in 1 .. N
        BY <1>0, <2>3, <2>4
      <3> QED BY <1>1, <1>2, <3>1 DEF Adds
    <2>7. m \in Tasks /\ m - 1 \in 0 .. N
      BY <1>0, <2>3, <2>4 DEF Tasks
    <2>8. s[m - 1] \in Nat /\ t[m - 1] \in Nat
      BY <1>1, <1>2, <2>7 DEF Adds
    <2>9. g[m] \in Nat /\ h[m] \in Nat /\ g[m] <= h[m] /\ (m = n => g[m] + c <= h[m])
      BY <2>7
    <2> DEFINE x == s[m - 1]
               y == t[m - 1]
               u == g[m]
               v == h[m]
    <2>10. /\ x \in Nat /\ y \in Nat /\ u \in Nat /\ v \in Nat /\ n \in Nat /\ m \in Nat
           /\ u <= v /\ (m = n => u + c <= v)
           /\ x + (IF m - 1 >= n THEN c ELSE 0) <= y
           /\ ~(x + u + (IF m >= n THEN c ELSE 0) <= y + v)
      BY <1>0, <2>3, <2>5, <2>6, <2>8, <2>9
    <2> HIDE DEF x, y, u, v
    <2> QED BY <2>10
  <1>4. s[N] + plus(N) <= t[N]
    BY <1>0, <1>3
  <1> QED BY <1>0, <1>1, <1>2, <1>4 DEF Adds

(* What the quotient of a growing dividend does.                           *)
LEMMA QuotientGrows ==
  ASSUME NEW d \in Nat \ {0}, NEW x \in Nat, NEW y \in Nat, x <= y
  PROVE  /\ x \div d \in Nat /\ y \div d \in Nat /\ x \div d <= y \div d
         /\ x + d <= y => x \div d + 1 <= y \div d
  <1> DEFINE q == x \div d
             r == y \div d
  <1>1. q \in Int /\ r \in Int /\ q >= 0 /\ r >= 0
    BY SMTT(30)
  <1>2. d * q <= x /\ y < d * (r + 1)
    BY SMTT(30)
  <1> HIDE DEF q, r
  <1>3. q <= r
    <2> SUFFICES ASSUME r + 1 <= q PROVE FALSE
      BY <1>1
    <2>1. d * (r + 1) <= d * q
      BY <1>1, SMTT(30)
    <2> DEFINE a == d * (r + 1)
               b == d * q
    <2>2. a \in Int /\ b \in Int
      BY <1>1
    <2> HIDE DEF a, b
    <2>3. a <= b /\ b <= x /\ y < a
      BY <1>2, <2>1 DEF a, b
    <2> QED BY <2>2, <2>3
  <1>4. x + d <= y => q + 1 <= r
    <2> SUFFICES ASSUME x + d <= y, r <= q PROVE FALSE
      BY <1>1
    <2>1. d * (r + 1) <= d * q + d
      BY <1>1, SMTT(30)
    <2> DEFINE a == d * (r + 1)
               b == d * q
    <2>2. a \in Int /\ b \in Int
      BY <1>1
    <2> HIDE DEF a, b
    <2>3. a <= b + d /\ b <= x /\ y < a
      BY <1>2, <2>1 DEF a, b
    <2> QED BY <2>2, <2>3
  <1> QED BY <1>1, <1>3, <1>4 DEF q, r

-----------------------------------------------------------------------------
(* The tasks that can be enabled together with j.                          *)
Beside(j) == {k \in Tasks \ {j} : {j, k} # {First, Second}}

Above(j) == {k \in Beside(j) : k < j}

(* How often k can have been started in the last w milliseconds, if the    *)
(* last time was e milliseconds ago: a period lasts its milliseconds, less *)
(* the one that may end between the two readings of the clock.             *)
Runs(k, w, e) == IF e > w THEN 0 ELSE 1 + (w - e) \div (Period[k] - 1)

(* How long the runs of the tasks above j can have taken of these, with a  *)
(* millisecond for the pass before each.                                   *)
Work(j, w, e) ==
  Sum([k \in Tasks |-> IF k \in Above(j) THEN (WorstCase[k] + 1) * Runs(k, w, e[k])
                                         ELSE 0])

(* A wait of R is long enough for the run that is going on when j becomes  *)
(* due, of at most B, for the pass, and for all that the tasks above j can *)
(* do in R if all of them are started together with it; and it is short    *)
(* enough for the clock to show.                                           *)
Load(j, B, R) ==
  /\ \A k \in Beside(j) : WorstCase[k] <= B
  /\ WorstCase[j] <= Period[j] + B
  /\ \A k \in Above(j) : Period[k] > 1
  /\ B + 1 + Work(j, R, [k \in Tasks |-> 0]) <= R
  /\ Period[j] + R + 1 < ClockSize

(* The part of the wait that the clock shows was spent on the run that was *)
(* going on and on runs of the tasks above j; the run going on fits in as  *)
(* well, and so does the millisecond of this pass.                         *)
InTurn(j, B) ==
  enabled[j] =>
    /\ left <= B + (Period[j] - elapsed[j])
    /\ ShownWait(j) + left <= B + (Period[j] - elapsed[j])
                                + Work(j, ShownWait(j), elapsed)
                                + (IF pc # "run" /\ ticked THEN 1 ELSE 0)

(* The number of starts grows with the time, and with each start.          *)
LEMMA RunsGrow ==
  ASSUME NEW k \in Tasks, Period[k] > 1, NEW w \in Nat, NEW e \in Nat
  PROVE  /\ Runs(k, w, e) \in Nat
         /\ \A v, d \in Nat : w <= v /\ w + d <= v + e => Runs(k, w, e) <= Runs(k, v, d)
         /\ e >= Period[k] - 1 => Runs(k, w, e) + 1 <= Runs(k, w, 0)
  <1> DEFINE p == Period[k] - 1
  <1>1. p \in Nat \ {0}
    BY KernelAssumption
  <1>2. \A v, d \in Nat : Runs(k, v, d) = IF d > v THEN 0 ELSE 1 + (v - d) \div p
    BY DEF Runs
  <1> HIDE DEF p
  <1>3. \A v, d \in Nat : Runs(k, v, d) \in Nat
    <2>1. ASSUME NEW v \in Nat, NEW d \in Nat, ~(d > v)
          PROVE  (v - d) \div p \in Nat
      <3>1. v - d \in Nat /\ v - d <= v - d
        BY <2>1
      <3> QED BY <1>1, <3>1, QuotientGrows
    <2> SUFFICES ASSUME NEW v \in Nat, NEW d \in Nat PROVE Runs(k, v, d) \in Nat
      OBVIOUS
    <2>2. Runs(k, v, d) = IF d > v THEN 0 ELSE 1 + (v - d) \div p
      BY <1>2
    <2> QED BY <2>1, <2>2
  <1>4. ASSUME NEW v \in Nat, NEW d \in Nat, w <= v, w + d <= v + e
        PROVE  Runs(k, w, e) <= Runs(k, v, d)
    <2>1. CASE e > w
      BY <1>2, <1>3, <1>4, <2>1
    <2>2. CASE e <= w
      <3>1. w - e \in Nat /\ v - d \in Nat /\ w - e <= v - d /\ ~(e > w) /\ ~(d > v)
        BY <1>4, <2>2
      <3>2. /\ (w - e) \div p <= (v - d) \div p
            /\ (w - e) \div p \in Nat /\ (v - d) \div p \in Nat
        BY <1>1, <3>1, QuotientGrows
      <3> QED BY <1>2, <3>1, <3>2
    <2> QED BY <2>1, <2>2
  <1>5. ASSUME e >= p
        PROVE  Runs(k, w, e) + 1 <= Runs(k, w, 0)
    <2>1. Runs(k, w, 0) = 1 + w \div p
      BY <1>2
    <2>2. w \div p \in Nat
      BY <1>1, QuotientGrows
    <2>3. CASE e > w
      BY <1>2, <2>1, <2>2, <2>3
    <2>4. CASE e <= w
      <3>1. w - e \in Nat /\ (w - e) + p <= w /\ w - e <= w /\ ~(e > w)
        BY <1>1, <1>5, <2>4
      <3>2. (w - e) \div p + 1 <= w \div p /\ (w - e) \div p \in Nat
        BY <1>1, <3>1, QuotientGrows
      <3> QED BY <1>2, <2>1, <2>2, <3>1, <3>2
    <2> QED BY <2>3, <2>4
  <1> QED BY <1>3, <1>4, <1>5 DEF p

(* A product with a constant factor grows with the other one.              *)
LEMMA ProductGrows ==
  ASSUME NEW c \in Nat, NEW x \in Nat, NEW y \in Nat
  PROVE  /\ (c + 1) * x \in Nat
         /\ x <= y => (c + 1) * x <= (c + 1) * y
         /\ x + 1 <= y => (c + 1) * x + (c + 1) <= (c + 1) * y
  BY SMTT(30)

(* So does the work of the tasks above j; each start adds a worst case.    *)
LEMMA WorkGrows ==
  ASSUME NEW j \in Tasks, \A k \in Above(j) : Period[k] > 1,
         NEW w \in Nat, NEW v \in Nat, w <= v,
         NEW e \in [Tasks -> Nat], NEW d \in [Tasks -> Nat],
         \A k \in Above(j) : w + d[k] <= v + e[k]
  PROVE  /\ Work(j, w, e) \in Nat /\ Work(j, v, d) \in Nat
         /\ Work(j, w, e) <= Work(j, v, d)
         /\ \A n \in Above(j) : w = v /\ e[n] >= Period[n] - 1 /\ d[n] = 0
              => Work(j, w, e) + (WorstCase[n] + 1) <= Work(j, v, d)
  <1> DEFINE g == [k \in Tasks |-> IF k \in Above(j)
                                   THEN (WorstCase[k] + 1) * Runs(k, w, e[k]) ELSE 0]
             h == [k \in Tasks |-> IF k \in Above(j)
                                   THEN (WorstCase[k] + 1) * Runs(k, v, d[k]) ELSE 0]
  <1>1. ASSUME NEW k \in Above(j)
        PROVE  /\ k \in Tasks /\ Period[k] > 1 /\ WorstCase[k] \in Nat
               /\ e[k] \in Nat /\ d[k] \in Nat
               /\ Runs(k, w, e[k]) \in Nat /\ Runs(k, v, d[k]) \in Nat
               /\ Runs(k, w, e[k]) <= Runs(k, v, d[k])
    <2>1. k \in Tasks /\ Period[k] > 1 /\ WorstCase[k] \in Nat /\ e[k] \in Nat /\ d[k] \in Nat
      BY KernelAssumption DEF Above, Beside
    <2> QED BY <2>1, RunsGrow
  <1>2. g \in [Tasks -> Nat] /\ h \in [Tasks -> Nat]
    <2>1. \A k \in Above(j) : /\ (WorstCase[k] + 1) * Runs(k, w, e[k]) \in Nat
                              /\ (WorstCase[k] + 1) * Runs(k, v, d[k]) \in Nat
      BY <1>1, ProductGrows
    <2> QED BY <2>1
  <1>3. \A k \in Tasks : g[k] <= h[k]
    <2>1. \A k \in Above(j) : (WorstCase[k] + 1) * Runs(k, w, e[k])
                                <= (WorstCase[k] + 1) * Runs(k, v, d[k])
      BY <1>1, ProductGrows
    <2> QED BY <2>1
  <1>4. ASSUME NEW n \in Above(j), w = v, e[n] >= Period[n] - 1, d[n] = 0
        PROVE  g[n] + (WorstCase[n] + 1) <= h[n]
    <2>1. Runs(n, w, e[n]) + 1 <= Runs(n, v, d[n])
      BY <1>1, <1>4, RunsGrow
    <2>2. (WorstCase[n] + 1) * Runs(n, w, e[n]) + (WorstCase[n] + 1)
            <= (WorstCase[n] + 1) * Runs(n, v, d[n])
      BY <1>1, <2>1, ProductGrows
    <2> QED BY <1>1, <2>2
  <1>5. Work(j, w, e) = Sum(g) /\ Work(j, v, d) = Sum(h)
    BY DEF Work
  <1> HIDE DEF g, h
  <1>6. g[j] + 0 <= h[j]
    BY <1>2, <1>3
  <1>7. Sum(g) \in Nat /\ Sum(h) \in Nat /\ Sum(g) + 0 <= Sum(h)
    BY <1>2, <1>3, <1>6, SumGrows
  <1>8. \A n \in Above(j) : w = v /\ e[n] >= Period[n] - 1 /\ d[n] = 0
          => Sum(g) + (WorstCase[n] + 1) <= Sum(h)
    <2>1. \A n \in Above(j) : n \in Tasks /\ WorstCase[n] + 1 \in Nat
      BY <1>1
    <2> QED BY <1>2, <1>3, <1>4, <2>1, SumGrows
  <1> QED BY <1>5, <1>7, <1>8


-----------------------------------------------------------------------------
(* The run going on, as far as j has to wait for it.                       *)
LEMMA RunBounded ==
  ASSUME TypeOK, ClocksAgree, OneControl, [Next]_vars,
         NEW j \in Tasks, NEW B \in Nat,
         \A k \in Beside(j) : WorstCase[k] <= B, WorstCase[j] <= Period[j] + B,
         enabled[j] => left <= B + (Period[j] - elapsed[j])
  PROVE  enabled'[j] => left' <= B + (Period[j] - elapsed'[j])
  <1> USE KernelAssumption
  <1>0. /\ Period[j] \in Nat /\ elapsed[j] \in Nat /\ elapsed[j] <= Period[j]
        /\ WorstCase[j] \in Nat /\ left \in Nat
    BY DEF TypeOK, ClocksAgree
  <1>1. CASE ReadClock
    BY <1>1 DEF ReadClock
  <1>2. CASE StartTask
    <2>1. /\ i \in Tasks /\ enabled[i] /\ enabled' = enabled /\ left' = WorstCase[i]
          /\ elapsed'[j] = IF i = j THEN 0 ELSE elapsed[j]
      BY <1>2 DEF StartTask, Due, TypeOK
    <2>2. CASE i = j
      BY <1>0, <2>1, <2>2
    <2>3. CASE i # j /\ enabled[j]
      <3>1. i \in Beside(j)
        <4>1. {j, i} # {First, Second}
          BY <2>1, <2>3 DEF OneControl, TypeOK
        <4> QED BY <2>1, <2>3, <4>1 DEF Beside
      <3>2. WorstCase[i] <= B /\ WorstCase[i] \in Nat
        BY <2>1, <3>1
      <3> QED BY <1>0, <2>1, <2>3, <3>2
    <2> QED BY <2>1, <2>2, <2>3
  <1>3. CASE SkipTask
    BY <1>3 DEF SkipTask
  <1>4. CASE EndTask
    <2>1. left' = 0 /\ elapsed' = elapsed
      BY <1>4 DEF EndTask
    <2> QED BY <1>0, <2>1
  <1>5. CASE SwitchTasks
    <2>1. left' = 0 /\ elapsed' = elapsed
      BY <1>5 DEF SwitchTasks
    <2> QED BY <1>0, <2>1
  <1>6. CASE SysTick
    <2>1. /\ enabled' = enabled
          /\ elapsed'[j] = IF elapsed[j] < Period[j] THEN elapsed[j] + 1 ELSE Period[j]
          /\ \/ left > 0 /\ left' = left - 1
             \/ left = 0 /\ left' = 0
      BY <1>6 DEF SysTick, OneControl
    <2> QED BY <1>0, <2>1
  <1>7. CASE UNCHANGED vars
    BY <1>7 DEF vars
  <1> QED BY <1>1, <1>2, <1>3, <1>4, <1>5, <1>6, <1>7 DEF Next, kernel_run

(* What a state has to do with the work of the tasks above j.              *)
LEMMA WorkType ==
  ASSUME NEW j \in Tasks, \A k \in Above(j) : Period[k] > 1
  PROVE  /\ TypeOK => Work(j, ShownWait(j), elapsed) \in Nat
         /\ TypeOK' => Work(j, ShownWait(j)', elapsed') \in Nat
  <1>1. ASSUME NEW w \in Nat, NEW e \in [Tasks -> Nat]
        PROVE  Work(j, w, e) \in Nat
    <2>1. \A k \in Above(j) : w + e[k] <= w + e[k] /\ w <= w
      BY DEF Above, Beside
    <2> QED BY <2>1, WorkGrows
  <1>2. TypeOK => ShownWait(j) \in Nat /\ elapsed \in [Tasks -> Nat]
    BY ShownWaitType DEF TypeOK
  <1>3. TypeOK' => ShownWait(j)' \in Nat /\ elapsed' \in [Tasks -> Nat]
    BY ShownWaitType DEF TypeOK
  <1> QED BY <1>1, <1>2, <1>3

(* Nothing to wait for but the run going on.                               *)
LEMMA NothingShown ==
  ASSUME NEW j \in Tasks, NEW B \in Nat, \A k \in Above(j) : Period[k] > 1,
         TypeOK', ClocksAgree',
         enabled'[j] => left' <= B + (Period[j] - elapsed'[j]), ShownWait(j)' = 0
  PROVE  InTurn(j, B)'
  <1> DEFINE n == Work(j, ShownWait(j)', elapsed')
             b == IF pc' # "run" /\ ticked' THEN 1 ELSE 0
             w == ShownWait(j)'
             l == left'
             r == Period[j] - elapsed'[j]
  <1>1. n \in Nat /\ w = 0 /\ b \in {0, 1}
    BY WorkType
  <1>2. l \in Nat /\ r \in Nat
    BY KernelAssumption DEF TypeOK, ClocksAgree
  <1>3. enabled'[j] => l <= B + r
    OBVIOUS
  <1> HIDE DEF n, b, w, l, r
  <1>4. enabled'[j] => l <= B + r /\ w + l <= B + r + n + b
    BY <1>1, <1>2, <1>3
  <1> QED BY <1>4 DEF InTurn, n, b, w, l, r

(* A tick either adds to what the clock shows of a wait or, when the clock *)
(* wraps around, ends it.                                                  *)
LEMMA ShownWaitTicks ==
  ASSUME TypeOK, TypeOK', ClocksAgree, OneControl, SysTick, NEW j \in Tasks,
         enabled[j], late[j] <= MaxWait
  PROVE  /\ ShownWait(j)' \in {0, ShownWait(j) + 1}
         /\ ShownWait(j) > 0 => elapsed[j] = Period[j]
         /\ ShownWait(j)' > 0 => elapsed[j] = Period[j] /\ elapsed'[j] = Period[j]
  <1> DEFINE s == Since(last_wakeup[j])
             t == Since(last_wakeup[j])'
             d == ShownWait(j)
             e == ShownWait(j)'
  <1>1. /\ s \in 0 .. ClockSize - 1 /\ d \in Nat /\ d <= late[j]
        /\ s <= Period[j] => d = 0
        /\ s > Period[j] => \/ d = late[j] /\ d <= s - Period[j]
                            \/ d = s - Period[j] /\ d < late[j]
    BY ShownWaitType
  <1>2. /\ t \in 0 .. ClockSize - 1 /\ e \in Nat /\ e <= late'[j]
        /\ t <= Period[j] => e = 0
        /\ t > Period[j] => \/ e = late'[j] /\ e <= t - Period[j]
                            \/ e = t - Period[j] /\ e < late'[j]
    BY ShownWaitType
  <1>3. /\ t = IF s = ClockSize - 1 THEN 0 ELSE s + 1
        /\ late'[j] \in {0, late[j] + 1}
    BY ShownTick
  <1>4. /\ Period[j] \in Nat /\ Period[j] > 0 /\ elapsed[j] \in Nat /\ elapsed[j] <= Period[j]
        /\ late[j] \in Nat
    BY KernelAssumption DEF TypeOK, ClocksAgree
  <1>5. /\ elapsed[j] < Period[j] => late[j] = 0 /\ late'[j] = 0
        /\ elapsed[j] = Period[j] => elapsed'[j] = Period[j]
    BY <1>4 DEF OneControl, SysTick
  <1> HIDE DEF s, t, d, e
  <1>6. e \in {0, d + 1}
    <2>1. CASE late'[j] = 0 \/ t = 0
      BY <1>1, <1>2, <1>4, <2>1
    <2>2. CASE late'[j] = late[j] + 1 /\ t = s + 1 /\ t <= Period[j]
      BY <1>2, <2>2
    <2>3. CASE late'[j] = late[j] + 1 /\ t = s + 1 /\ t > Period[j]
      <3>1. s = Period[j] \/ s > Period[j]
        BY <1>1, <1>4, <2>3
      <3> QED BY <1>1, <1>2, <1>4, <2>3, <3>1
    <2>4. t <= Period[j] \/ t > Period[j]
      BY <1>2, <1>4
    <2> QED BY <1>3, <2>1, <2>2, <2>3, <2>4
  <1>7. /\ d > 0 => elapsed[j] = Period[j]
        /\ e > 0 => elapsed[j] = Period[j] /\ elapsed'[j] = Period[j]
    BY <1>1, <1>2, <1>4, <1>5
  <1> QED BY <1>6, <1>7 DEF d, e

(* A task that has waited for R is looked at before the next tick: all     *)
(* that it had to wait for is done.                                        *)
LEMMA TickBelow ==
  ASSUME TypeOK, TypeOK', ClocksAgree, OneControl, SysTick, NEW j \in Tasks,
         NEW B \in Nat, NEW R \in Nat, Load(j, B, R), InTurn(j, B),
         enabled[j], late[j] <= MaxWait, ShownWait(j) <= R
  PROVE  ShownWait(j) < R
  <1> DEFINE w == ShownWait(j)
             n == Work(j, ShownWait(j), elapsed)
             m == Work(j, R, [k \in Tasks |-> 0])
             b == IF pc # "run" /\ ticked THEN 1 ELSE 0
             l == left
  <1> SUFFICES ASSUME w = R PROVE FALSE
    <2>1. w \in Nat
      BY ShownWaitType
    <2> HIDE DEF w
    <2>2. w < R
      BY <2>1 DEF w
    <2> QED BY <2>2 DEF w
  <1>1. w \in Nat /\ l \in Nat /\ b = 0
    BY ShownWaitType DEF TypeOK, SysTick
  <1>2. n \in Nat /\ m \in Nat /\ n <= m
    <2>1. \A k \in Above(j) : Period[k] > 1
      BY DEF Load
    <2>2. [k \in Tasks |-> 0] \in [Tasks -> Nat] /\ elapsed \in [Tasks -> Nat] /\ R <= R
      BY DEF TypeOK
    <2>3. \A k \in Above(j) : R + [x \in Tasks |-> 0][k] <= R + elapsed[k]
      <3>1. \A k \in Above(j) : k \in Tasks /\ elapsed[k] \in Nat
        BY <2>2 DEF Above, Beside
      <3> QED BY <3>1
    <2>4. /\ Work(j, R, elapsed) \in Nat /\ m \in Nat
          /\ Work(j, R, elapsed) <= m
      BY <2>1, <2>2, <2>3, WorkGrows
    <2> QED BY <2>4
  <1>3. B + 1 + m <= R
    BY DEF Load
  <1>4. w > 0
    <2> HIDE DEF w, m
    <2> QED BY <1>2, <1>3
  <1>5. elapsed[j] = Period[j] /\ Period[j] \in Nat
    BY <1>4, ShownWaitTicks, KernelAssumption
  <1>6. w + l <= B + (Period[j] - elapsed[j]) + n + b
    BY DEF InTurn
  <1> HIDE DEF w, l, n, m, b
  <1> QED BY <1>1, <1>2, <1>3, <1>5, <1>6

(* A millisecond takes one off the running task, or is the one of the pass.*)
LEMMA InTurnTick ==
  ASSUME TypeOK, TypeOK', ClocksAgree, ClocksAgree', OneControl, SysTick, NEW j \in Tasks,
         NEW B \in Nat, NEW R \in Nat, Load(j, B, R), InTurn(j, B),
         enabled[j] => late[j] <= MaxWait /\ ShownWait(j) <= R
  PROVE  InTurn(j, B)' /\ (enabled'[j] => ShownWait(j)' <= R)
  <1> SUFFICES ASSUME enabled[j] PROVE InTurn(j, B)' /\ ShownWait(j)' <= R
    BY DEF SysTick, InTurn
  <1> DEFINE w == ShownWait(j)
             v == ShownWait(j)'
             n == Work(j, ShownWait(j), elapsed)
             m == Work(j, ShownWait(j)', elapsed')
             b == IF pc # "run" /\ ticked THEN 1 ELSE 0
             c == IF pc' # "run" /\ ticked' THEN 1 ELSE 0
             l == left
             r == left'
  <1>1. w \in Nat /\ v \in {0, w + 1} /\ w < R
    BY ShownWaitType, ShownWaitTicks, TickBelow
  <1>2. v <= R
    <2> HIDE DEF w, v
    <2> QED BY <1>1
  <1>3. enabled'[j] => left' <= B + (Period[j] - elapsed'[j])
    BY RunBounded DEF InTurn, Load, Next
  <1>4. \A k \in Above(j) : Period[k] > 1
    BY DEF Load
  <1>5. CASE v = 0
    BY <1>2, <1>3, <1>4, <1>5, NothingShown
  <1>6. CASE v = w + 1
    <2>1. elapsed[j] = Period[j] /\ elapsed'[j] = Period[j] /\ Period[j] \in Nat
      <3>1. v > 0
        BY <1>1, <1>6
      <3> QED BY <3>1, ShownWaitTicks, KernelAssumption
    <2>2. n \in Nat /\ m \in Nat /\ n <= m
      <3>1. elapsed \in [Tasks -> Nat] /\ elapsed' \in [Tasks -> Nat] /\ v \in Nat /\ w <= v
        BY <1>1, <1>6 DEF TypeOK
      <3>2. ASSUME NEW k \in Above(j)
            PROVE  w + elapsed'[k] <= v + elapsed[k]
        <4>1. k \in Tasks /\ Period[k] \in Nat /\ elapsed[k] \in Nat /\ elapsed[k] <= Period[k]
          BY KernelAssumption DEF Above, Beside, TypeOK, ClocksAgree
        <4>2. elapsed'[k] = IF elapsed[k] < Period[k] THEN elapsed[k] + 1 ELSE Period[k]
          BY <4>1 DEF SysTick
        <4> HIDE DEF w, v
        <4> QED BY <1>1, <1>6, <4>1, <4>2
      <3> QED BY <1>1, <1>4, <3>1, <3>2, WorkGrows
    <2>3. w + l <= B + (Period[j] - elapsed[j]) + n + b
      BY DEF InTurn
    <2>4. /\ l \in Nat /\ r \in Nat /\ b = 0 /\ c \in {0, 1}
          /\ \/ r = l - 1 /\ c = 0
             \/ r = l /\ c = 1
      BY DEF SysTick, TypeOK
    <2>5. r <= B + (Period[j] - elapsed'[j])
      BY <1>3 DEF SysTick
    <2> HIDE DEF w, v, n, m, b, c, l, r
    <2>6. /\ r <= B + (Period[j] - elapsed'[j])
          /\ v + r <= B + (Period[j] - elapsed'[j]) + m + c
      BY <1>1, <1>6, <2>1, <2>2, <2>3, <2>4, <2>5
    <2>7. InTurn(j, B)'
      BY <2>6 DEF InTurn, v, m, c, r
    <2> QED BY <1>2, <2>7 DEF v
  <1> QED BY <1>1, <1>5, <1>6

(* A start of a task above j uses up one of its runs; a task below is only *)
(* started when j is not waiting, and the other control task not at all.   *)
LEMMA InTurnStart ==
  ASSUME TypeOK, TypeOK', ClocksAgree, ClocksAgree', OneControl, StartTask, NEW j \in Tasks,
         NEW B \in Nat, NEW R \in Nat, Load(j, B, R), InTurn(j, B), Passed(j),
         enabled[j] => ShownWait(j) <= R
  PROVE  InTurn(j, B)' /\ (enabled'[j] => ShownWait(j)' <= R)
  <1> SUFFICES ASSUME enabled[j] PROVE InTurn(j, B)' /\ ShownWait(j)' <= R
    BY DEF StartTask, InTurn
  <1>1. /\ i \in Tasks /\ enabled[i] /\ left' = WorstCase[i] /\ left = 0
        /\ pc = "test" /\ pc' = "run" /\ pit_ticks' = pit_ticks
        /\ WorstCase[i] \in Nat /\ Period[i] \in Nat /\ elapsed[i] \in Nat
    BY KernelAssumption DEF StartTask, Due, TypeOK, OneControl
  <1>2. /\ elapsed' = [elapsed EXCEPT ![i] = 0]
        /\ \A k \in Tasks : late'[k] = IF k = i THEN 0 ELSE late[k]
        /\ \A k \in Tasks : k # i => last_wakeup'[k] = last_wakeup[k]
    BY DEF StartTask, TypeOK
  <1>3. enabled'[j] => left' <= B + (Period[j] - elapsed'[j])
    BY RunBounded DEF InTurn, Load, Next, kernel_run
  <1>4. \A k \in Above(j) : Period[k] > 1
    BY DEF Load
  <1>5. CASE i = j
    <2>1. ShownWait(j)' <= late'[j] /\ ShownWait(j)' \in Nat /\ late'[j] = 0
      BY <1>2, <1>5, ShownWaitType
    <2>2. ShownWait(j)' = 0
      BY <2>1
    <2>3. 0 <= R
      OBVIOUS
    <2> QED BY <1>3, <1>4, <2>2, <2>3, NothingShown
  <1>6. ASSUME i # j
        PROVE  ShownWait(j)' = ShownWait(j) /\ i \in Beside(j)
    <2>1. ShownWait(j)' = ShownWait(j)
      BY <1>1, <1>2, <1>6 DEF ShownWait, Since
    <2>2. {j, i} # {First, Second}
      BY <1>1, <1>6 DEF OneControl, TypeOK
    <2> QED BY <1>1, <1>6, <2>1, <2>2 DEF Beside
  <1>7. CASE i # j /\ ~(i < j)
    <2>1. j < i /\ Period[j] \in Nat
      BY <1>1, <1>7, KernelAssumption DEF Tasks
    <2>2. Since(last_wakeup[j]) <= Period[j]
      <3>1. Since(last_wakeup[j]) \in 0 .. ClockSize - 1
        BY ShownWaitType
      <3> QED BY <1>1, <2>1, <3>1 DEF Passed
    <2>3. ShownWait(j)' = 0
      BY <1>6, <1>7, <2>2, ShownWaitType
    <2>4. 0 <= R
      OBVIOUS
    <2> QED BY <1>3, <1>4, <2>3, <2>4, NothingShown
  <1>8. CASE i # j /\ i < j
    <2> DEFINE w == ShownWait(j)
               n == Work(j, ShownWait(j), elapsed)
               m == Work(j, ShownWait(j)', elapsed')
               b == IF pc # "run" /\ ticked THEN 1 ELSE 0
               r == left'
               q == WorstCase[i]
    <2>1. i \in Above(j) /\ w \in Nat /\ ShownWait(j)' = w
      BY <1>6, <1>8, ShownWaitType DEF Above
    <2>2. elapsed[i] >= Period[i] - 1
      <3>1. Since(last_wakeup[i]) >= Period[i]
        BY DEF StartTask, Due
      <3>2. Since(last_wakeup[i]) \in 0 .. ClockSize - 1
        BY <1>1, ShownWaitType
      <3>3. elapsed[i] < Period[i] => Since(last_wakeup[i]) \in {elapsed[i], elapsed[i] + 1}
        BY <1>1 DEF ClocksAgree
      <3> QED BY <1>1, <3>1, <3>2, <3>3
    <2>3. n \in Nat /\ m \in Nat /\ n + (q + 1) <= m
      <3>1. elapsed \in [Tasks -> Nat] /\ elapsed' \in [Tasks -> Nat] /\ elapsed'[i] = 0
        BY <1>1, <1>2 DEF TypeOK
      <3>2. \A k \in Above(j) : w + elapsed'[k] <= w + elapsed[k]
        <4>1. \A k \in Above(j) : k \in Tasks /\ elapsed[k] \in Nat
          BY <3>1 DEF Above, Beside
        <4>2. \A k \in Above(j) : elapsed'[k] = IF k = i THEN 0 ELSE elapsed[k]
          BY <1>2, <3>1, <4>1
        <4> HIDE DEF w
        <4> QED BY <2>1, <4>1, <4>2
      <3>3. w <= w
        <4> HIDE DEF w
        <4> QED BY <2>1
      <3> QED BY <1>4, <2>1, <2>2, <3>1, <3>2, <3>3, WorkGrows
    <2>4. w + left <= B + (Period[j] - elapsed[j]) + n + b
      BY DEF InTurn
    <2>5. /\ Period[j] \in Nat /\ elapsed[j] \in Nat /\ elapsed[j] <= Period[j]
          /\ elapsed'[j] = elapsed[j] /\ r = q /\ q \in Nat /\ b \in {0, 1}
      BY <1>1, <1>2, <1>8, KernelAssumption DEF TypeOK, ClocksAgree
    <2>6. r <= B + (Period[j] - elapsed'[j])
      BY <1>3 DEF StartTask
    <2> HIDE DEF w, n, m, b, r, q
    <2>7. /\ r <= B + (Period[j] - elapsed'[j])
          /\ w + r <= B + (Period[j] - elapsed'[j]) + m + 0
      BY <1>1, <2>1, <2>3, <2>4, <2>5, <2>6
    <2>8. InTurn(j, B)'
      BY <1>1, <2>1, <2>7 DEF InTurn, m, r
    <2> QED BY <2>1, <2>8 DEF w
  <1> QED BY <1>5, <1>7, <1>8

(* The other steps: a task that was skipped is not due, and one that was   *)
(* just enabled has not waited.                                            *)
LEMMA InTurnStep ==
  ASSUME TypeOK, TypeOK', ClocksAgree, ClocksAgree', OneControl, [Next]_vars, NEW j \in Tasks,
         NEW B \in Nat, NEW R \in Nat, Load(j, B, R), InTurn(j, B), Passed(j),
         enabled[j] => late[j] <= MaxWait /\ ShownWait(j) <= R
  PROVE  InTurn(j, B)' /\ (enabled'[j] => ShownWait(j)' <= R)
  <1>0. /\ j \in Nat /\ i \in Nat /\ j <= N /\ i <= N /\ N \in Nat
        /\ Period[j] \in Nat /\ 0 <= R
    BY KernelAssumption DEF Tasks, TypeOK
  <1>1. CASE ReadClock
    BY <1>1 DEF ReadClock, InTurn, ShownWait, Since
  <1>2. \A k \in Above(j) : Period[k] > 1
    BY DEF Load
  <1>3. enabled'[j] => left' <= B + (Period[j] - elapsed'[j])
    BY RunBounded DEF InTurn, Load
  <1>4. CASE SkipTask
    <2>1. /\ left' = left /\ enabled' = enabled /\ pc = "test" /\ pc' = "read"
          /\ ShownWait(j)' = ShownWait(j) /\ elapsed' = elapsed
      BY <1>4 DEF SkipTask, ShownWait, Since
    <2>2. CASE i # N \/ ~enabled[j]
      <3>1. ticked' = ticked \/ ~enabled[j]
        BY <1>4, <2>2 DEF SkipTask, TypeOK
      <3> QED BY <2>1, <3>1 DEF InTurn
    <2>3. CASE i = N /\ enabled[j]
      <3>1. Since(last_wakeup[j]) \in 0 .. ClockSize - 1
        BY ShownWaitType
      <3>2. Since(last_wakeup[j]) <= Period[j]
        <4>1. CASE j = i
          BY <1>0, <1>4, <2>3, <3>1, <4>1 DEF SkipTask, Due
        <4>2. CASE j # i
          <5>1. j < i
            BY <1>0, <2>3, <4>2
          <5> QED BY <1>0, <2>1, <2>3, <3>1, <5>1 DEF Passed
        <4> QED BY <4>1, <4>2
      <3>3. ShownWait(j)' = 0
        BY <2>1, <3>2, ShownWaitType
      <3> QED BY <1>0, <1>2, <1>3, <3>3, NothingShown
    <2> QED BY <2>2, <2>3
  <1>5. CASE EndTask \/ (SwitchTasks /\ j \notin {First, Second})
    <2>1. /\ left' = 0 /\ pc = "run" /\ pc' = "read" /\ ~ticked' /\ elapsed' = elapsed
          /\ enabled'[j] = enabled[j] /\ ShownWait(j)' = ShownWait(j)
      <3>1. CASE EndTask
        BY <3>1 DEF EndTask, ShownWait, Since
      <3>2. CASE SwitchTasks /\ j \notin {First, Second}
        <4>1. late'[j] = late[j] /\ enabled'[j] = enabled[j]
          BY <3>2 DEF SwitchTasks, TypeOK
        <4> QED BY <3>2, <4>1 DEF SwitchTasks, ShownWait, Since
      <3> QED BY <1>5, <3>1, <3>2
    <2> SUFFICES ASSUME enabled[j] PROVE InTurn(j, B)'
      BY <2>1 DEF InTurn
    <2> DEFINE w == ShownWait(j)
               n == Work(j, ShownWait(j), elapsed)
    <2>2. /\ w \in Nat /\ left \in Nat /\ n \in Nat
      BY <1>2, ShownWaitType, WorkType DEF TypeOK
    <2>3. w + left <= B + (Period[j] - elapsed[j]) + n + 0
      BY <2>1 DEF InTurn
    <2>4. elapsed[j] \in Nat /\ elapsed[j] <= Period[j]
      BY DEF TypeOK, ClocksAgree
    <2> HIDE DEF w, n
    <2>5. /\ 0 <= B + (Period[j] - elapsed[j])
          /\ w + 0 <= B + (Period[j] - elapsed[j]) + n + 0
      BY <1>0, <2>2, <2>3, <2>4
    <2> QED BY <2>1, <2>5 DEF InTurn, w, n
  <1>6. CASE SwitchTasks /\ j \in {First, Second}
    <2>1. late'[j] = 0
      BY <1>6 DEF SwitchTasks, TypeOK
    <2>2. ShownWait(j)' \in Nat /\ ShownWait(j)' <= late'[j]
      BY ShownWaitType
    <2>3. ShownWait(j)' = 0
      BY <2>1, <2>2
    <2> QED BY <1>0, <1>2, <1>3, <2>3, NothingShown
  <1>7. CASE UNCHANGED vars
    BY <1>7 DEF vars, InTurn, ShownWait, Since
  <1> QED BY <1>1, <1>4, <1>5, <1>6, <1>7, InTurnStart, InTurnTick DEF Next, kernel_run

-----------------------------------------------------------------------------
(* If the clock wraps around before the turn of a control task comes, it   *)
(* waits for another period, and in turn again.                            *)
ControlWaits(j, W) ==
  enabled[j] => late[j] <= IF Since(last_wakeup[j]) <= Period[j] + W
                           THEN W + Since(last_wakeup[j]) + 1 ELSE W

(* The whole wait: the part before a wrap-around is in turn as well.       *)
LEMMA ControlWaitsStep ==
  ASSUME TypeOK, TypeOK', OneControl, OneControl', [Next]_vars,
         NEW j \in {First, Second}, NEW W \in Nat,
         Period[j] + 2 * W + 1 <= MaxWait, Period[j] + W + 1 < ClockSize,
         ControlWaits(j, W), enabled'[j] => ShownWait(j)' <= W
  PROVE  ControlWaits(j, W)'
  <1> USE KernelAssumption
  <1> DEFINE s == Since(last_wakeup[j])
             t == Since(last_wakeup[j])'
  <1>0. /\ j \in Tasks /\ j \in Nat /\ W \in Nat /\ Period[j] \in Nat
        /\ late[j] \in Nat /\ late'[j] \in Nat
        /\ s \in Nat /\ t \in Nat /\ s < ClockSize /\ t < ClockSize /\ ClockSize \in Nat
    <2>0. j \in Tasks /\ j \in Nat
      BY DEF Tasks
    <2>1. j \in Tasks /\ j \in Nat /\ W \in Nat /\ Period[j] \in Nat
          /\ late[j] \in Nat /\ late'[j] \in Nat
      BY <2>0 DEF TypeOK
    <2>2. s \in 0 .. ClockSize - 1 /\ t \in 0 .. ClockSize - 1
      BY <2>1, ShownWaitType
    <2> HIDE DEF s, t
    <2>3. s \in Nat /\ t \in Nat /\ s < ClockSize /\ t < ClockSize /\ ClockSize \in Nat
      BY <2>2
    <2> QED BY <2>1, <2>3
  <1>1. ASSUME late'[j] = 0
        PROVE  ControlWaits(j, W)'
    <2> HIDE DEF t
    <2>1. late'[j] <= IF t <= Period[j] + W THEN W + t + 1 ELSE W
      BY <1>0, <1>1
    <2> QED BY <2>1 DEF ControlWaits, t
  <1>2. CASE ReadClock \/ SkipTask \/ EndTask \/ UNCHANGED vars
    BY <1>2 DEF ReadClock, SkipTask, EndTask, vars, ControlWaits, Since
  <1>3. CASE StartTask
    <2>1. CASE i = j
      <3>1. late'[j] = 0
        BY <1>0, <1>3, <2>1 DEF StartTask, TypeOK
      <3> QED BY <1>1, <3>1
    <2>2. CASE i # j
      <3>1. /\ late'[j] = late[j] /\ last_wakeup'[j] = last_wakeup[j]
            /\ pit_ticks' = pit_ticks /\ enabled' = enabled
        BY <1>0, <1>3, <2>2 DEF StartTask, TypeOK
      <3> QED BY <3>1 DEF ControlWaits, Since
    <2> QED BY <2>1, <2>2
  <1>4. CASE SwitchTasks
    <2>1. late'[j] = 0
      BY <1>0, <1>4 DEF SwitchTasks, TypeOK
    <2> QED BY <1>1, <2>1
  <1>5. CASE SysTick /\ enabled[j]
    <2>1. /\ t = IF s = ClockSize - 1 THEN 0 ELSE s + 1
          /\ late'[j] \in {0, late[j], late[j] + 1} /\ enabled' = enabled
      BY <1>0, <1>5, ShownTick
    <2>2. late[j] <= IF s <= Period[j] + W THEN W + s + 1 ELSE W
      BY <1>5 DEF ControlWaits
    <2>3. Period[j] + W + 1 < ClockSize
      OBVIOUS
    <2> DEFINE e == ShownWait(j)'
    <2>4. e <= W /\ e \in Nat
      BY <1>0, <1>5, <2>1, ShownWaitType
    <2>5. t > Period[j] => e = late'[j] \/ (e = t - Period[j] /\ e < late'[j])
      BY <1>0, ShownWaitType
    <2> HIDE DEF s, t, e
    <2>6. CASE t > Period[j] + W
      <3>1. e = late'[j]
        BY <1>0, <2>4, <2>5, <2>6
      <3>2. late'[j] <= W
        BY <2>4, <3>1
      <3>3. late'[j] <= IF t <= Period[j] + W THEN W + t + 1 ELSE W
        BY <1>0, <2>6, <3>2
      <3> QED BY <3>3 DEF ControlWaits, t
    <2>7. CASE t <= Period[j] + W
      <3>1. late'[j] <= W + t + 1
        <4>1. CASE s = ClockSize - 1
          BY <1>0, <2>1, <2>2, <2>3, <4>1
        <4>2. CASE s # ClockSize - 1
          BY <1>0, <2>1, <2>2, <2>7, <4>2
        <4> QED BY <4>1, <4>2
      <3>2. late'[j] <= IF t <= Period[j] + W THEN W + t + 1 ELSE W
        BY <2>7, <3>1
      <3> QED BY <3>2 DEF ControlWaits, t
    <2> QED BY <1>0, <2>6, <2>7
  <1>6. CASE SysTick /\ ~enabled[j]
    BY <1>6 DEF SysTick, ControlWaits
  <1> QED BY <1>2, <1>3, <1>4, <1>5, <1>6 DEF Next, kernel_run

(* A wait in turn, a period and another wait in turn.                      *)
LEMMA ControlWithin ==
  ASSUME TypeOK, NEW j \in Tasks, NEW W \in Nat, Period[j] + 2 * W + 1 <= MaxWait,
         ControlWaits(j, W)
  PROVE  enabled[j] => late[j] <= MaxWait
  <1> DEFINE s == Since(last_wakeup[j])
  <1>1. /\ s \in 0 .. ClockSize - 1 /\ Period[j] \in Nat /\ MaxWait \in Nat
        /\ late[j] \in Nat
    BY ShownWaitType, KernelAssumption DEF TypeOK
  <1>2. enabled[j] => late[j] <= IF s <= Period[j] + W THEN W + s + 1 ELSE W
    BY DEF ControlWaits
  <1> HIDE DEF s
  <1>3. s \in Nat
    BY <1>1
  <1> QED BY <1>1, <1>2, <1>3

(* A task that nobody disables waits for as long as the clock shows.       *)
LEMMA LateShown ==
  ASSUME TypeOK, ClocksAgree, OneControl, NEW j \in Upper, WaitShown(j)
  PROVE  late[j] = ShownWait(j)
  <1>1. /\ j \in Tasks /\ enabled[j] /\ elapsed[j] \in Nat /\ late[j] \in Nat
        /\ Period[j] \in Nat /\ elapsed[j] <= Period[j]
    BY KernelAssumption DEF Upper, TypeOK, OneControl, ClocksAgree
  <1> DEFINE s == Since(last_wakeup[j])
             d == ShownWait(j)
  <1>2. /\ s \in 0 .. ClockSize - 1 /\ d \in Nat /\ d <= late[j]
        /\ s > Period[j] => d = late[j] \/ (d = s - Period[j] /\ d < late[j])
    BY <1>1, ShownWaitType
  <1>3. elapsed[j] = Period[j] => s \in {Period[j] + late[j], Period[j] + late[j] + 1}
    BY DEF WaitShown
  <1>4. elapsed[j] < Period[j] => late[j] = 0
    BY <1>1 DEF OneControl
  <1> HIDE DEF s, d
  <1>5. d = late[j]
    BY <1>1, <1>2, <1>3, <1>4
  <1> QED BY <1>5 DEF d

(* What holds of a task that nobody disables, and of a control task.       *)
UpperServed(j, B, R) ==
  WaitShown(j) /\ Passed(j) /\ InTurn(j, B) /\ ShownWait(j) <= R

ControlServed(j, B, R) ==
  Passed(j) /\ InTurn(j, B) /\ (enabled[j] => ShownWait(j) <= R) /\ ControlWaits(j, R)

(* Both hold at the start.                                                 *)
LEMMA ServedInit ==
  ASSUME TypeOK, ClocksAgree, Init, NEW j \in Tasks, NEW B \in Nat, NEW R \in Nat, Load(j, B, R)
  PROVE  UpperServed(j, B, R) /\ ControlServed(j, B, R)
  <1>1. /\ elapsed[j] = 0 /\ late[j] = 0 /\ left = 0 /\ WaitShown(j) /\ Passed(j)
        /\ Period[j] \in Nat
    BY NobodyWaits, KernelAssumption
  <1> DEFINE s == Since(last_wakeup[j])
             w == ShownWait(j)
             n == Work(j, ShownWait(j), elapsed)
             b == IF pc # "run" /\ ticked THEN 1 ELSE 0
  <1>2. s \in Nat /\ w \in Nat /\ w <= late[j] /\ n \in Nat /\ b \in {0, 1}
    <2>1. s \in 0 .. ClockSize - 1 /\ w \in Nat /\ w <= late[j]
      BY ShownWaitType
    <2>2. n \in Nat
      BY WorkType DEF Load
    <2> HIDE DEF s, w, n
    <2> QED BY <2>1, <2>2
  <1> HIDE DEF s, w, n, b
  <1>3. /\ left <= B + (Period[j] - elapsed[j])
        /\ w + left <= B + (Period[j] - elapsed[j]) + n + b
        /\ w <= R
    BY <1>1, <1>2
  <1>4. late[j] <= IF s <= Period[j] + R THEN R + s + 1 ELSE R
    BY <1>1, <1>2
  <1>5. InTurn(j, B)
    BY <1>3 DEF InTurn, w, n, b
  <1>6. ShownWait(j) <= R /\ ControlWaits(j, R)
    BY <1>3, <1>4 DEF ControlWaits, w, s
  <1> QED BY <1>1, <1>5, <1>6 DEF UpperServed, ControlServed

(* Every step keeps the bound of a task that nobody disables.              *)
LEMMA UpperStep ==
  ASSUME TypeOK, TypeOK', ReadingFresh, ClocksAgree, ClocksAgree', OneControl, OneControl',
         [Next]_vars, NEW j \in Upper, NEW B \in Nat, NEW R \in Nat, Load(j, B, R),
         R <= MaxWait, UpperServed(j, B, R)
  PROVE  UpperServed(j, B, R)'
  <1>1. /\ j \in Tasks /\ enabled[j] /\ enabled'[j] /\ late[j] \in Nat /\ late'[j] \in Nat
        /\ MaxWait \in Nat /\ j \notin {First, Second}
    BY KernelAssumption DEF Upper, OneControl, TypeOK
  <1> DEFINE w == ShownWait(j)
  <1>2. late[j] = w /\ w \in Nat /\ w <= R
    BY <1>1, LateShown, ShownWaitType DEF UpperServed
  <1>3. late[j] <= MaxWait
    <2> HIDE DEF w
    <2> QED BY <1>1, <1>2
  <1>4. InTurn(j, B)' /\ ShownWait(j)' <= R
    BY <1>1, <1>3, InTurnStep DEF UpperServed
  <1>5. Passed(j)'
    BY <1>1, PassedStep DEF UpperServed
  <1>6. late'[j] <= R
    <2>1. CASE SysTick
      <3>1. w < R /\ late'[j] \in {0, late[j] + 1}
        BY <1>1, <1>3, <2>1, TickBelow, ShownTick DEF UpperServed
      <3> HIDE DEF w
      <3> QED BY <1>1, <1>2, <3>1
    <2>2. CASE ~SysTick
      <3>1. late'[j] \in {0, late[j]}
        BY <1>1, <2>2 DEF Next, kernel_run, ReadClock, StartTask, SkipTask, EndTask,
                         SwitchTasks, vars, TypeOK
      <3> HIDE DEF w
      <3> QED BY <1>1, <1>2, <3>1
    <2> QED BY <2>1, <2>2
  <1>7. WaitShown(j)'
    BY <1>6, WaitShownStep DEF UpperServed, Load
  <1> QED BY <1>4, <1>5, <1>7 DEF UpperServed

(* Every step keeps the bound of a control task.                           *)
LEMMA ControlStep ==
  ASSUME TypeOK, TypeOK', ClocksAgree, ClocksAgree', OneControl, OneControl',
         [Next]_vars, NEW j \in {First, Second}, NEW B \in Nat, NEW R \in Nat, Load(j, B, R),
         Period[j] + 2 * R + 1 <= MaxWait, ControlServed(j, B, R)
  PROVE  ControlServed(j, B, R)'
  <1>1. /\ j \in Tasks /\ late[j] \in Nat /\ MaxWait \in Nat /\ Period[j] \in Nat
    BY KernelAssumption DEF TypeOK
  <1>2. enabled[j] => late[j] <= MaxWait
    BY <1>1, ControlWithin DEF ControlServed
  <1>3. InTurn(j, B)' /\ (enabled'[j] => ShownWait(j)' <= R)
    BY <1>1, <1>2, InTurnStep DEF ControlServed
  <1>4. Passed(j)'
    BY <1>1, PassedStep DEF ControlServed
  <1>5. ControlWaits(j, R)'
    BY <1>3, ControlWaitsStep DEF ControlServed, Load
  <1> QED BY <1>3, <1>4, <1>5 DEF ControlServed

-----------------------------------------------------------------------------
(* However the tasks use their worst cases, a task that nobody disables    *)
(* waits for no more than R beyond its period, if R is long enough for a   *)
(* run of each other task and for all that the tasks above it can do.      *)
THEOREM KernelResponseTime ==
  ASSUME NEW j \in Upper, NEW B \in Nat, NEW R \in Nat, Load(j, B, R), R <= MaxWait
  PROVE  Spec => [](late[j] <= R)
  <1>1. TypeOK /\ ClocksAgree /\ OneControl /\ UpperServed(j, B, R) => late[j] <= R
    BY LateShown DEF UpperServed
  <1>2. TypeOK /\ TypeOK' /\ ReadingFresh /\ ClocksAgree /\ ClocksAgree' /\ OneControl
        /\ OneControl' /\ UpperServed(j, B, R) /\ [Next]_vars => UpperServed(j, B, R)'
    BY UpperStep
  <1>3. TypeOK /\ ClocksAgree /\ Init => UpperServed(j, B, R)
    BY ServedInit DEF Upper
  <1> QED BY <1>1, <1>2, <1>3, OneControlInit, OneControlStep, ClocksAlwaysAgree, PTL
          DEF Spec

(* Under such a load no start overtakes a task that is late: the tasks     *)
(* that nobody disables do not starve, and the control tasks are below.    *)
THEOREM KernelKeepsPriorityUnderLoad ==
  ASSUME ControlTasksLast, NEW B \in [Upper -> Nat], NEW R \in [Upper -> Nat],
         \A j \in Upper : Load(j, B[j], R[j]) /\ R[j] <= MaxWait
  PROVE  Spec => PriorityRespected
  <1> DEFINE Inv == \A j \in Upper : UpperServed(j, B[j], R[j])
  <1>0. \A j \in Upper : j \in Tasks /\ B[j] \in Nat /\ R[j] \in Nat
    BY DEF Upper
  <1>1. TypeOK /\ ClocksAgree /\ Init => Inv
    BY <1>0, ServedInit
  <1>2. TypeOK /\ TypeOK' /\ ReadingFresh /\ ClocksAgree /\ ClocksAgree' /\ OneControl
        /\ OneControl' /\ Inv /\ [Next]_vars => Inv'
    BY <1>0, UpperStep
  <1>3. TypeOK /\ ClocksAgree /\ OneControl /\ Inv /\ [Next]_vars
        => [pc = "test" /\ pc' = "run" => \A j \in 1 .. i - 1 : late[j] = 0]_vars
    BY StartOvertakesNobody DEF UpperServed
  <1> HIDE DEF Inv
  <1> QED BY <1>1, <1>2, <1>3, OneControlInit, OneControlStep, ClocksAlwaysAgree, PTL
          DEF Spec, PriorityRespected

(* No enabled task starves, neither one that nobody disables nor a control *)
(* task, even if it was disabled until the counter had wrapped around.     *)
THEOREM KernelNobodyStarves ==
  ASSUME NEW B \in [Tasks -> Nat], NEW R \in [Tasks -> Nat],
         \A j \in Tasks : Load(j, B[j], R[j]),
         \A j \in Upper : R[j] <= MaxWait,
         \A j \in {First, Second} : Period[j] + 2 * R[j] + 1 <= MaxWait
  PROVE  Spec => []NoStarvation
  <1> DEFINE UInv == \A j \in Upper : UpperServed(j, B[j], R[j])
             CInv == \A j \in {First, Second} : ControlServed(j, B[j], R[j])
  <1>0. /\ \A j \in Tasks : B[j] \in Nat /\ R[j] \in Nat
        /\ \A j \in Upper : j \in Tasks
        /\ \A j \in {First, Second} : j \in Tasks
    BY KernelAssumption DEF Upper
  <1>1. TypeOK /\ ClocksAgree /\ Init => UInv /\ CInv
    BY <1>0, ServedInit
  <1>2. TypeOK /\ TypeOK' /\ ReadingFresh /\ ClocksAgree /\ ClocksAgree' /\ OneControl
        /\ OneControl' /\ UInv /\ [Next]_vars => UInv'
    BY <1>0, UpperStep
  <1>3. TypeOK /\ TypeOK' /\ ClocksAgree /\ ClocksAgree' /\ OneControl
        /\ OneControl' /\ CInv /\ [Next]_vars => CInv'
    BY <1>0, ControlStep
  <1>4. TypeOK /\ ClocksAgree /\ OneControl /\ UInv /\ CInv => NoStarvation
    <2> SUFFICES ASSUME TypeOK, ClocksAgree, OneControl, UInv, CInv, NEW j \in Tasks
                 PROVE  late[j] <= MaxWait
      BY DEF NoStarvation
    <2>0. late[j] \in Nat /\ MaxWait \in Nat
      BY KernelAssumption DEF TypeOK
    <2>1. CASE j \in Upper
      <3>1. late[j] = ShownWait(j)
        BY <2>1, LateShown DEF UpperServed
      <3>2. ShownWait(j) <= R[j]
        BY <2>1 DEF UpperServed
      <3> QED BY <1>0, <2>0, <2>1, <3>1, <3>2
    <2>2. CASE j \notin Upper /\ ~enabled[j]
      BY <2>0, <2>2 DEF OneControl
    <2>3. CASE j \notin Upper /\ enabled[j]
      <3>1. j \in {First, Second}
        BY <2>3 DEF Upper
      <3> QED BY <1>0, <2>3, <3>1, ControlWithin DEF ControlServed
    <2> QED BY <2>1, <2>2, <2>3
  <1> HIDE DEF UInv, CInv
  <1> QED BY <1>1, <1>2, <1>3, <1>4, OneControlInit, OneControlStep, ClocksAlwaysAgree, PTL
          DEF Spec

-----------------------------------------------------------------------------
(* The table of apps/hat/main.c:101: battery, gen_key, blink, leds, sleep, *)
(* bumper, change_control, imu_control and joystick_control.               *)
HatTable ==
  /\ N = 9
  /\ Period = <<5000, 500, 500, 100, 100, 100, 20, 20, 20>>
  /\ Switch = 7 /\ First = 8 /\ Second = 9
  /\ ClockSize > 10000

(* A sum over nine tasks.                                                  *)
LEMMA HatSum ==
  ASSUME HatTable, NEW g \in [Tasks -> Nat]
  PROVE  Sum(g) = g[1] + g[2] + g[3] + g[4] + g[5] + g[6] + g[7] + g[8] + g[9]
  <1>1. PICK f : Adds(g, f, N) /\ Sum(g) = f[N]
    BY SumAdds
  <1>2. /\ 1 \in 1 .. 9 /\ 2 \in 1 .. 9 /\ 3 \in 1 .. 9 /\ 4 \in 1 .. 9 /\ 5 \in 1 .. 9
        /\ 6 \in 1 .. 9 /\ 7 \in 1 .. 9 /\ 8 \in 1 .. 9 /\ 9 \in 1 .. 9 /\ N = 9
    BY DEF HatTable
  <1>3. f[0] = 0 /\ \A k \in 1 .. 9 : f[k] = f[k - 1] + g[k]
    BY <1>1, <1>2 DEF Adds
  <1>4. /\ f[1] = f[0] + g[1] /\ f[2] = f[1] + g[2] /\ f[3] = f[2] + g[3]
        /\ f[4] = f[3] + g[4] /\ f[5] = f[4] + g[5] /\ f[6] = f[5] + g[6]
        /\ f[7] = f[6] + g[7] /\ f[8] = f[7] + g[8] /\ f[9] = f[8] + g[9]
    BY <1>2, <1>3
  <1>5. \A k \in 1 .. 9 : g[k] \in Nat
    BY <1>2 DEF Tasks
  <1>6. /\ g[1] \in Nat /\ g[2] \in Nat /\ g[3] \in Nat /\ g[4] \in Nat /\ g[5] \in Nat
        /\ g[6] \in Nat /\ g[7] \in Nat /\ g[8] \in Nat /\ g[9] \in Nat
    BY <1>2, <1>5
  <1> QED BY <1>1, <1>2, <1>3, <1>4, <1>6

(* At most m runs of k, of at most c each, in a time of R.                 *)
Within(k, R, c, m) == (WorstCase[k] + 1) * Runs(k, R, 0) \in 0 .. (c + 1) * m

(* It is within m runs if m periods are longer than R.                     *)
LEMMA RunsWithin ==
  ASSUME NEW k \in Tasks, NEW R \in Nat, NEW c \in Nat, NEW m \in Nat,
         WorstCase[k] <= c, Period[k] > 1, R < (Period[k] - 1) * m
  PROVE  Within(k, R, c, m)
  <1> DEFINE r == Runs(k, R, 0)
             w == WorstCase[k]
             p == Period[k] - 1
  <1>1. w \in Nat /\ w <= c /\ p \in Nat \ {0} /\ R < p * m
    BY KernelAssumption
  <1>2. r = 1 + R \div p
    BY DEF Runs
  <1>3. r \in Nat /\ r <= m
    <2> HIDE DEF p
    <2>1. R \div p \in Nat /\ R \div p < m
      BY <1>1, SMTT(30)
    <2> HIDE DEF r
    <2> QED BY <1>2, <2>1
  <1> HIDE DEF r, w
  <1>4. (w + 1) * r \in Nat /\ (w + 1) * r <= (c + 1) * m /\ (c + 1) * m \in Nat
    BY <1>1, <1>3, SMTT(30)
  <1> QED BY <1>4 DEF r, w, Within

(* The part of k in the work of the tasks above j.                         *)
Part(j, k, R) == IF k \in Above(j) THEN (WorstCase[k] + 1) * Runs(k, R, 0) ELSE 0

(* The control tasks have no part in anybody's wait.                       *)
LEMMA HatWork ==
  ASSUME HatTable, NEW j \in Tasks, NEW R \in Nat
  PROVE  /\ Tasks = {1, 2, 3, 4, 5, 6, 7, 8, 9}
         /\ \A k \in Tasks : Period[k] > 1 /\ Period[k] <= 5000
         /\ Work(j, R, [k \in Tasks |-> 0]) =
              Part(j, 1, R) + Part(j, 2, R) + Part(j, 3, R) + Part(j, 4, R)
              + Part(j, 5, R) + Part(j, 6, R) + Part(j, 7, R)
  <1> DEFINE g == [k \in Tasks |-> IF k \in Above(j)
                                   THEN (WorstCase[k] + 1) * Runs(k, R, [x \in Tasks |-> 0][k])
                                   ELSE 0]
  <1>1. Tasks = {1, 2, 3, 4, 5, 6, 7, 8, 9} /\ First = 8 /\ Second = 9
    BY DEF HatTable, Tasks
  <1>2. /\ Period[1] = 5000 /\ Period[2] = 500 /\ Period[3] = 500 /\ Period[4] = 100
        /\ Period[5] = 100 /\ Period[6] = 100 /\ Period[7] = 20 /\ Period[8] = 20
        /\ Period[9] = 20
    BY DEF HatTable
  <1>3. \A k \in Tasks : Period[k] > 1 /\ Period[k] <= 5000
    BY <1>1, <1>2
  <1>4. \A k \in Tasks : g[k] = Part(j, k, R)
    BY DEF Part
  <1>5. 8 \notin Above(j) /\ 9 \notin Above(j)
    BY <1>1 DEF Above, Beside
  <1>6. \A k \in Tasks : Part(j, k, R) \in Nat
    <2>1. ASSUME NEW k \in Tasks PROVE WorstCase[k] \in Nat /\ Runs(k, R, 0) \in Nat
      <3>1. Period[k] > 1 /\ 0 \in Nat
        BY <1>3
      <3> QED BY <3>1, RunsGrow, KernelAssumption
    <2>2. \A k \in Tasks : (WorstCase[k] + 1) * Runs(k, R, 0) \in Nat
      BY <2>1, ProductGrows
    <2> QED BY <2>2 DEF Part
  <1>7. Work(j, R, [k \in Tasks |-> 0]) = Sum(g)
    BY DEF Work
  <1>8. g \in [Tasks -> Nat]
    <2>1. \A k \in Tasks : g[k] \in Nat
      BY <1>4, <1>6
    <2> QED BY <2>1
  <1> HIDE DEF g
  <1>9. Sum(g) = g[1] + g[2] + g[3] + g[4] + g[5] + g[6] + g[7] + g[8] + g[9]
    BY <1>8, HatSum
  <1>10. g[8] = 0 /\ g[9] = 0
    BY <1>1, <1>4, <1>5 DEF Part
  <1>11. /\ g[1] = Part(j, 1, R) /\ g[2] = Part(j, 2, R) /\ g[3] = Part(j, 3, R)
         /\ g[4] = Part(j, 4, R) /\ g[5] = Part(j, 5, R) /\ g[6] = Part(j, 6, R)
         /\ g[7] = Part(j, 7, R)
    BY <1>1, <1>4
  <1>12. /\ g[1] \in Nat /\ g[2] \in Nat /\ g[3] \in Nat /\ g[4] \in Nat
         /\ g[5] \in Nat /\ g[6] \in Nat /\ g[7] \in Nat
    BY <1>1, <1>8
  <1>13. Sum(g) = g[1] + g[2] + g[3] + g[4] + g[5] + g[6] + g[7]
    BY <1>9, <1>10, <1>12
  <1> QED BY <1>1, <1>3, <1>7, <1>11, <1>13

(* In normal operation a transmission takes at most 24 ms and any other    *)
(* task at most 2 ms: then a wait of 80 ms is long enough for every task.  *)
LEMMA HatLoad ==
  ASSUME HatTable, \A k \in {2, 8, 9} : WorstCase[k] <= 24,
         \A k \in {1, 3, 4, 5, 6, 7} : WorstCase[k] <= 2,
         NEW j \in Tasks
  PROVE  Load(j, 24, 80)
  <1>1. /\ Tasks = {1, 2, 3, 4, 5, 6, 7, 8, 9}
        /\ \A k \in Tasks : Period[k] > 1 /\ Period[k] <= 5000
        /\ Work(j, 80, [k \in Tasks |-> 0]) =
              Part(j, 1, 80) + Part(j, 2, 80) + Part(j, 3, 80) + Part(j, 4, 80)
              + Part(j, 5, 80) + Part(j, 6, 80) + Part(j, 7, 80)
    BY HatWork
  <1>2. \A k \in Tasks : WorstCase[k] \in Nat /\ WorstCase[k] <= 24
    <2>1. \A k \in {1, 3, 4, 5, 6, 7} : k \in Tasks /\ WorstCase[k] \in Nat /\ WorstCase[k] <= 2
      BY <1>1, KernelAssumption
    <2>2. \A k \in {1, 3, 4, 5, 6, 7} : WorstCase[k] <= 24
      BY <2>1
    <2> QED BY <1>1, <2>2, KernelAssumption
  <1>3. \A k \in {1, 3, 4, 5, 6} : Within(k, 80, 2, 1)
    <2>1. \A k \in {1, 3, 4, 5, 6} :
            /\ k \in Tasks /\ Period[k] > 1 /\ WorstCase[k] <= 2 /\ 80 < (Period[k] - 1) * 1
      BY <1>1 DEF HatTable
    <2> QED BY <2>1, RunsWithin
  <1>4. Within(2, 80, 24, 1)
    BY <1>1, RunsWithin DEF HatTable
  <1>5. Within(7, 80, 2, 5)
    BY <1>1, RunsWithin DEF HatTable
  <1>6. /\ Part(j, 1, 80) \in 0 .. 3 /\ Part(j, 2, 80) \in 0 .. 25 /\ Part(j, 3, 80) \in 0 .. 3
        /\ Part(j, 4, 80) \in 0 .. 3 /\ Part(j, 5, 80) \in 0 .. 3 /\ Part(j, 6, 80) \in 0 .. 3
        /\ Part(j, 7, 80) \in 0 .. 15
    BY <1>3, <1>4, <1>5 DEF Within, Part
  <1>7. 24 + 1 + Work(j, 80, [k \in Tasks |-> 0]) <= 80
    BY <1>1, <1>6
  <1>8. /\ \A k \in Beside(j) : WorstCase[k] <= 24
        /\ \A k \in Above(j) : Period[k] > 1
    BY <1>1, <1>2 DEF Above, Beside
  <1>9. WorstCase[j] <= Period[j] + 24 /\ Period[j] + 80 + 1 < ClockSize
    BY <1>1, <1>2, KernelAssumption DEF HatTable
  <1> QED BY <1>7, <1>8, <1>9 DEF Load

(* While a melody of up to three seconds plays, in the task that reports a *)
(* bump or in the one that changes the control, the tasks up to the bumper *)
(* have to wait for it, and for what the tasks above them missed meanwhile.*)
LEMMA HatMelody ==
  ASSUME HatTable, \A k \in {2, 8, 9} : WorstCase[k] <= 24,
         \A k \in {1, 3, 4, 5} : WorstCase[k] <= 2,
         \A k \in {6, 7} : WorstCase[k] <= 3000,
         NEW j \in 1 .. 6
  PROVE  Load(j, 3000, 3410)
  <1>0. j \in Tasks
    BY DEF HatTable, Tasks
  <1>1. /\ Tasks = {1, 2, 3, 4, 5, 6, 7, 8, 9}
        /\ \A k \in Tasks : Period[k] > 1 /\ Period[k] <= 5000
        /\ Work(j, 3410, [k \in Tasks |-> 0]) =
              Part(j, 1, 3410) + Part(j, 2, 3410) + Part(j, 3, 3410) + Part(j, 4, 3410)
              + Part(j, 5, 3410) + Part(j, 6, 3410) + Part(j, 7, 3410)
    BY <1>0, HatWork
  <1>2. \A k \in Tasks : WorstCase[k] \in Nat /\ WorstCase[k] <= 3000
    <2>1. \A k \in Tasks : WorstCase[k] \in Nat
      BY KernelAssumption
    <2>2. \A k \in {1, 2, 3, 4, 5, 8, 9} : WorstCase[k] <= 3000
      BY <1>1, <2>1
    <2> QED BY <1>1, <2>1, <2>2
  <1>3. Within(1, 3410, 2, 1)
    BY <1>1, RunsWithin DEF HatTable
  <1>4. Within(2, 3410, 24, 7) /\ Within(3, 3410, 2, 7)
    BY <1>1, RunsWithin DEF HatTable
  <1>5. \A k \in {4, 5} : Within(k, 3410, 2, 35)
    <2>1. \A k \in {4, 5} :
            /\ k \in Tasks /\ Period[k] > 1 /\ WorstCase[k] <= 2
            /\ 3410 < (Period[k] - 1) * 35
      BY <1>1 DEF HatTable
    <2> QED BY <2>1, RunsWithin
  <1>6. /\ Part(j, 1, 3410) \in 0 .. 3 /\ Part(j, 2, 3410) \in 0 .. 175
        /\ Part(j, 3, 3410) \in 0 .. 21 /\ Part(j, 4, 3410) \in 0 .. 105
        /\ Part(j, 5, 3410) \in 0 .. 105
    BY <1>3, <1>4, <1>5 DEF Within, Part
  <1>7. Part(j, 6, 3410) = 0 /\ Part(j, 7, 3410) = 0
    BY DEF Part, Above
  <1>8. 3000 + 1 + Work(j, 3410, [k \in Tasks |-> 0]) <= 3410
    <2> DEFINE a == Part(j, 1, 3410)
               b == Part(j, 2, 3410)
               c == Part(j, 3, 3410)
               d == Part(j, 4, 3410)
               e == Part(j, 5, 3410)
               w == Work(j, 3410, [k \in Tasks |-> 0])
    <2>1. w = a + b + c + d + e + 0 + 0
      BY <1>1, <1>7
    <2>2. a \in 0 .. 3 /\ b \in 0 .. 175 /\ c \in 0 .. 21 /\ d \in 0 .. 105 /\ e \in 0 .. 105
      BY <1>6
    <2> HIDE DEF a, b, c, d, e, w
    <2>3. 3000 + 1 + w <= 3410
      BY <2>1, <2>2
    <2> QED BY <2>3 DEF w
  <1>9. /\ \A k \in Beside(j) : WorstCase[k] <= 3000
        /\ \A k \in Above(j) : Period[k] > 1
    BY <1>1, <1>2 DEF Above, Beside
  <1>10. WorstCase[j] <= Period[j] + 3000 /\ Period[j] + 3410 + 1 < ClockSize
    BY <1>0, <1>1, <1>2, KernelAssumption DEF HatTable
  <1> QED BY <1>8, <1>9, <1>10 DEF Load

(* In normal operation no task of the hat that nobody disables waits       *)
(* longer than 80 ms beyond its period, no control task longer than any    *)
(* MaxWait from 181 ms on, and no start overtakes a task that is late.     *)
THEOREM KernelServesHat ==
  ASSUME HatTable, \A k \in {2, 8, 9} : WorstCase[k] <= 24,
         \A k \in {1, 3, 4, 5, 6, 7} : WorstCase[k] <= 2, MaxWait >= 181
  PROVE  /\ \A j \in Upper : Spec => [](late[j] <= 80)
         /\ Spec => []NoStarvation
         /\ Spec => PriorityRespected
  <1>1. \A j \in Tasks : Load(j, 24, 80)
    BY HatLoad
  <1>2. 80 <= MaxWait /\ 20 + 2 * 80 + 1 <= MaxWait
    BY KernelAssumption
  <1>3. ASSUME NEW j \in Upper PROVE Spec => [](late[j] <= 80)
    <2>0. j \in Tasks /\ 24 \in Nat /\ 80 \in Nat
      BY DEF Upper
    <2>1. Load(j, 24, 80)
      BY <1>1, <2>0
    <2>2. TypeOK /\ ClocksAgree /\ OneControl /\ UpperServed(j, 24, 80) => late[j] <= 80
      BY LateShown DEF UpperServed
    <2>3. TypeOK /\ TypeOK' /\ ReadingFresh /\ ClocksAgree /\ ClocksAgree' /\ OneControl
          /\ OneControl' /\ UpperServed(j, 24, 80) /\ [Next]_vars => UpperServed(j, 24, 80)'
      BY <1>2, <2>0, <2>1, UpperStep
    <2>4. TypeOK /\ ClocksAgree /\ Init => UpperServed(j, 24, 80)
      BY <2>0, <2>1, ServedInit
    <2> QED BY <2>2, <2>3, <2>4, OneControlInit, OneControlStep, ClocksAlwaysAgree, PTL
            DEF Spec
  <1>4. Spec => []NoStarvation
    <2> DEFINE B == [j \in Tasks |-> 24]
               R == [j \in Tasks |-> 80]
    <2>1. B \in [Tasks -> Nat] /\ R \in [Tasks -> Nat]
      OBVIOUS
    <2>2. \A j \in Tasks : Load(j, B[j], R[j])
      BY <1>1
    <2>3. \A j \in Upper : R[j] <= MaxWait
      BY <1>2 DEF Upper
    <2>4. \A j \in {First, Second} : Period[j] + 2 * R[j] + 1 <= MaxWait
      <3>1. First \in Tasks /\ Second \in Tasks
        BY KernelAssumption
      <3>2. \A j \in {First, Second} : Period[j] = 20 /\ R[j] = 80
        BY <3>1 DEF HatTable
      <3> HIDE DEF R
      <3> QED BY <1>2, <3>2
    <2> HIDE DEF B, R
    <2> QED BY <2>1, <2>2, <2>3, <2>4, KernelNobodyStarves
  <1>5. Spec => PriorityRespected
    <2> DEFINE B == [j \in Upper |-> 24]
               R == [j \in Upper |-> 80]
    <2>1. B \in [Upper -> Nat] /\ R \in [Upper -> Nat]
      OBVIOUS
    <2>2. \A j \in Upper : Load(j, B[j], R[j]) /\ R[j] <= MaxWait
      BY <1>1, <1>2 DEF Upper
    <2>3. ControlTasksLast
      BY DEF ControlTasksLast, Upper, Tasks, HatTable
    <2> HIDE DEF B, R
    <2> QED BY <2>1, <2>2, <2>3, KernelKeepsPriorityUnderLoad
  <1> QED BY <1>3, <1>4, <1>5

(* The tasks up to the bumper, among them the one that renews the key and  *)
(* the one that looks at the sleep button, wait no longer than 3.5 s even  *)
(* if each run of the bumper and change_control tasks plays the melody.    *)
THEOREM KernelServesHatWithMelody ==
  ASSUME HatTable, \A k \in {2, 8, 9} : WorstCase[k] <= 24,
         \A k \in {1, 3, 4, 5} : WorstCase[k] <= 2,
         \A k \in {6, 7} : WorstCase[k] <= 3000, MaxWait >= 3410
  PROVE  \A j \in 1 .. 6 : Spec => [](late[j] <= 3410)
  <1> SUFFICES ASSUME NEW j \in 1 .. 6 PROVE Spec => [](late[j] <= 3410)
    OBVIOUS
  <1>0. j \in Upper /\ j \in Tasks /\ 3000 \in Nat /\ 3410 \in Nat /\ 3410 <= MaxWait
    BY KernelAssumption DEF HatTable, Upper, Tasks
  <1>1. Load(j, 3000, 3410)
    BY HatMelody
  <1>2. TypeOK /\ ClocksAgree /\ OneControl /\ UpperServed(j, 3000, 3410) => late[j] <= 3410
    BY <1>0, LateShown DEF UpperServed
  <1>3. TypeOK /\ TypeOK' /\ ReadingFresh /\ ClocksAgree /\ ClocksAgree' /\ OneControl
        /\ OneControl' /\ UpperServed(j, 3000, 3410) /\ [Next]_vars
        => UpperServed(j, 3000, 3410)'
    BY <1>0, <1>1, UpperStep
  <1>4. TypeOK /\ ClocksAgree /\ Init => UpperServed(j, 3000, 3410)
    BY <1>0, <1>1, ServedInit
  <1> QED BY <1>2, <1>3, <1>4, OneControlInit, OneControlStep, ClocksAlwaysAgree, PTL
          DEF Spec
=============================================================================
