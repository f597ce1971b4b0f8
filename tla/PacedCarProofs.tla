--------------------------- MODULE PacedCarProofs ---------------------------
(***************************************************************************)
(* The racer's promises in milliseconds, for every period, size of the     *)
(* counter, lateness, lockout, holdoff and timeout.                        *)
(*                                                                         *)
(* The invariant relates the clocks to the counters: as long as a counter  *)
(* runs, the milliseconds since it started, its count in periods and the   *)
(* distance to the schedule add up, within one period and the lateness.    *)
(***************************************************************************)
EXTENDS PacedCar, TLAPS

(* Counters and clocks have their types, and each counter its range.       *)
CountersOK ==
  /\ phase \in {"wait", "body"}
  /\ moving \in BOOLEAN
  /\ age \in 0 .. AgeMax
  /\ moving => age <= Timeout
  /\ mode \in {"NORMAL", "BUMPER_WAITING", "BUMPER_HOLDOFF"}
  /\ timer \in Nat
  /\ mode = "NORMAL" => timer = 0
  /\ mode = "BUMPER_WAITING" => timer < Lockout
  /\ lockMs \in Nat
  /\ silentMs \in Nat

ClockOK == pit_ticks \in 0 .. ClockSize - 1 /\ OnSchedule

(* timer periods and the lateness account for the time since the lock.     *)
LockAddsUp ==
  /\ mode = "BUMPER_WAITING" =>
       /\ lockMs >= timer * Period - due - MaxLag
       /\ lockMs <= timer * Period - due + Period - 1
  /\ mode # "BUMPER_WAITING" => lockMs = 0

(* age periods and the lateness account for the time since a packet.       *)
SilenceAddsUp ==
  moving \/ age < AgeMax => silentMs <= age * Period - due + Period - 1

IInv == CountersOK /\ ClockOK /\ LockAddsUp /\ SilenceAddsUp

-----------------------------------------------------------------------------
(* x % C for x less than C away from the range of the counter.             *)
LEMMA ModWithin ==
  ASSUME NEW C \in Nat, C > 0, NEW x \in Int
  PROVE  /\ 0 <= x /\ x < C => x % C = x
         /\ -C <= x /\ x < 0 => x % C = x + C
         /\ C <= x /\ x < 2 * C => x % C = x - C
         /\ x % C \in 0 .. C - 1
<1>1. 0 <= x /\ x < C => x % C = x
  BY SMTT(30)
<1>2. -C <= x /\ x < 0 => x % C = x + C
  BY SMTT(30)
<1>3. C <= x /\ x < 2 * C => x % C = x - C
  BY SMTT(30)
<1>4. x % C \in 0 .. C - 1
  BY SMTT(30)
<1> QED
  BY <1>1, <1>2, <1>3, <1>4

(* One more period.                                                        *)
LEMMA OneMorePeriod ==
  ASSUME NEW n \in Nat, NEW p \in Nat
  PROVE  n * p \in Nat /\ (n + 1) * p = n * p + p
  BY SMTT(30)

(* More counts, more periods.                                              *)
LEMMA MorePeriods ==
  ASSUME NEW m \in Nat, NEW n \in Nat, NEW p \in Nat, m <= n
  PROVE  m * p <= n * p
  BY SMTT(30)

(* Less than a period is left.                                             *)
LEMMA PeriodLeft ==
  ASSUME NEW d \in Int, NEW p \in Int, d <= p - 1
  PROVE  0 <= 0 - d + p - 1
  OBVIOUS

(* As long as the loop is on schedule, the wait ends exactly when the      *)
(* scheduled time is past, whatever the counter wrapped around to.         *)
LEMMA ReachedWhenPast ==
  ASSUME ClockOK
  PROVE  Reached(pacer_when, pit_ticks) <=> due < 0
<1> DEFINE C == ClockSize
           w == pit_ticks + due
<1>1. /\ C \in Nat /\ C > 0
      /\ pit_ticks \in Int /\ 0 <= pit_ticks /\ pit_ticks < C
      /\ due \in Int /\ 2 * due < C /\ -C < 2 * due
  BY PacerAssumption DEF ClockOK, OnSchedule
<1>2. \/ 0 <= w /\ w < C /\ w % C = w
      \/ w < 0 /\ w % C = w + C
      \/ C <= w /\ w % C = w - C
  <2>1. w \in Int /\ -C <= w /\ w < 2 * C
    BY <1>1
  <2> QED
    BY <1>1, <2>1, ModWithin
<1>3. PICK k \in {-1, 0, 1} : pacer_when = w + k * C
  BY <1>1, <1>2 DEF ClockOK, OnSchedule
<1>4. pacer_when - pit_ticks = due + k * C
  BY <1>1, <1>3
<1> DEFINE d == pacer_when - pit_ticks
<1>5. d \in Int /\ d > -C /\ d < C
  BY <1>1, <1>2 DEF ClockOK, OnSchedule
<1>6. (0 <= d /\ d % C = d) \/ (d < 0 /\ d % C = d + C)
  BY <1>1, <1>5, ModWithin
<1>7. CASE due < 0
  <2>1. d % C = due + C
    BY <1>1, <1>4, <1>5, <1>6, <1>7
  <2> QED
    BY <1>1, <1>7, <2>1 DEF Reached
<1>8. CASE due >= 0
  <2>1. d % C = due
    BY <1>1, <1>4, <1>5, <1>6, <1>8
  <2> QED
    BY <1>1, <1>8, <2>1 DEF Reached
<1> QED
  BY <1>1, <1>7, <1>8

(* The schedule, whatever action moves it on.                              *)
LEMMA ScheduleKept ==
  ASSUME ClockOK, phase \in {"wait", "body"},
         pacer_wait \/ BodyEnds \/ SysTick \/ UNCHANGED pacerVars
  PROVE  ClockOK' /\ phase' \in {"wait", "body"}
<1> DEFINE C == ClockSize
           w == pit_ticks + due
<1>1. /\ C \in Nat /\ C > 0 /\ Period \in Nat /\ Period > 0 /\ MaxLag \in Nat
      /\ MaxLag > 0 /\ 2 * Period < C /\ 2 * MaxLag < C
      /\ pit_ticks \in Int /\ 0 <= pit_ticks /\ pit_ticks < C
      /\ due \in Int /\ -MaxLag <= due /\ due < Period
      /\ pacer_when = w % C
  BY PacerAssumption DEF ClockOK, OnSchedule
<1>2. w \in Int /\ -C <= w /\ w + 1 < 2 * C
  BY <1>1
<1>3. CASE pacer_wait
  <2>1. due < 0
    BY <1>3, ReachedWhenPast DEF pacer_wait
  <2>2. pacer_when' = (w + Period) % C
    <3> DEFINE m == w % C
    <3>1. m \in Int /\ 0 <= m /\ m < C /\ (m = w \/ (w < 0 /\ m = w + C))
      BY <1>1, <1>2, <2>1, ModWithin
    <3>2. CASE m = w
      BY <1>1, <1>3, <3>2 DEF pacer_wait
    <3>3. CASE w < 0 /\ m = w + C
      <4> DEFINE v == w + Period
      <4>1. v \in Int /\ -C <= v /\ v < C
        BY <1>1, <1>2, <3>3
      <4>2. (v + C) % C = v % C
        <5>1. CASE v < 0
          BY <1>1, <4>1, <5>1, ModWithin
        <5>2. CASE v >= 0
          <6>1. v % C = v
            BY <1>1, <4>1, <5>2, ModWithin
          <6>2. (v + C) % C = (v + C) - C
            BY <1>1, <4>1, <5>2, ModWithin
          <6> QED
            BY <1>1, <4>1, <6>1, <6>2
        <5> QED
          BY <4>1, <5>1, <5>2
      <4>3. pacer_when + Period = v + C
        BY <1>1, <3>3
      <4> QED
        BY <1>3, <4>2, <4>3 DEF pacer_wait
    <3> QED
      BY <3>1, <3>2, <3>3
  <2>3. due' = due + Period /\ pit_ticks' = pit_ticks /\ phase' = "body"
    BY <1>3 DEF pacer_wait
  <2>4. w + Period = pit_ticks' + due'
    BY <1>1, <2>3
  <2>5. due' \in -MaxLag .. Period - 1
    BY <1>1, <2>1, <2>3
  <2>6. pacer_when' = (pit_ticks' + due') % ClockSize
    BY <2>2, <2>4
  <2> QED
    BY <1>1, <2>3, <2>5, <2>6 DEF ClockOK, OnSchedule
<1>4. CASE BodyEnds
  BY <1>4 DEF BodyEnds, ClockOK, OnSchedule
<1>5. CASE SysTick
  <2>1. due > -MaxLag
    <3>1. CASE phase = "wait"
      BY <1>1, <1>5, <3>1, ReachedWhenPast DEF SysTick
    <3>2. CASE phase = "body"
      BY <1>5, <3>2 DEF SysTick
    <3> QED
      BY <3>1, <3>2
  <2> DEFINE n == pit_ticks + 1
  <2>2. pit_ticks' = n % C /\ due' = due - 1 /\ pacer_when' = pacer_when
        /\ phase' = phase
    BY <1>5 DEF SysTick
  <2>3. n \in Int /\ 0 <= n /\ n <= C
    BY <1>1
  <2>4. (n < C /\ pit_ticks' = n) \/ (n = C /\ pit_ticks' = 0)
    <3>1. CASE n < C
      BY <1>1, <2>2, <2>3, <3>1, ModWithin
    <3>2. CASE n = C
      <4>1. n % C = n - C
        BY <1>1, <2>3, <3>2, ModWithin
      <4> QED
        BY <1>1, <2>2, <3>2, <4>1
    <3> QED
      BY <1>1, <2>3, <3>1, <3>2
  <2>5. (pit_ticks' + due') % C = w % C
    <3>1. CASE n < C /\ pit_ticks' = n
      <4>1. pit_ticks' + due' = w
        BY <1>1, <2>2, <3>1
      <4> QED
        BY <4>1
    <3>2. CASE n = C /\ pit_ticks' = 0
      <4>1. pit_ticks' + due' = w - C /\ w = C - 1 + due
        BY <1>1, <2>2, <3>2
      <4>2. CASE due < 1
        <5>1. 0 <= w /\ w < C /\ -C <= w - C /\ w - C < 0 /\ w - C \in Int
          BY <1>1, <4>1, <4>2
        <5>2. w % C = w
          BY <1>1, <5>1, ModWithin
        <5>3. (w - C) % C = (w - C) + C
          BY <1>1, <5>1, ModWithin
        <5> QED
          BY <1>1, <4>1, <5>2, <5>3
      <4>3. CASE due >= 1
        <5>1. C <= w /\ w < 2 * C /\ 0 <= w - C /\ w - C < C /\ w - C \in Int
          BY <1>1, <4>1, <4>3
        <5>2. w % C = w - C
          BY <1>1, <5>1, ModWithin
        <5>3. (w - C) % C = w - C
          BY <1>1, <5>1, ModWithin
        <5> QED
          BY <4>1, <5>2, <5>3
      <4> QED
        BY <1>1, <4>2, <4>3
    <3> QED
      BY <2>4, <3>1, <3>2
  <2>6. pit_ticks' \in 0 .. C - 1
    BY <1>1, <2>3, <2>4
  <2>7. due' \in -MaxLag .. Period - 1
    BY <1>1, <2>1, <2>2
  <2>8. pacer_when' = (pit_ticks' + due') % ClockSize
    BY <1>1, <2>2, <2>5
  <2> QED
    BY <2>2, <2>6, <2>7, <2>8 DEF ClockOK, OnSchedule
<1>6. CASE UNCHANGED pacerVars
  BY <1>6 DEF pacerVars, ClockOK, OnSchedule
<1> QED
  BY <1>3, <1>4, <1>5, <1>6

(* A car just switched on: no time has passed and nothing counts.          *)
LEMMA InitIInv == Init => IInv
<1> SUFFICES ASSUME Init PROVE IInv
  OBVIOUS
<1> USE DEF Init, PacerInit, G!Init
<1>1. CountersOK
  <2>1. moving \in BOOLEAN /\ ~moving
    OBVIOUS
  <2>2. age = 0 /\ timer = 0 /\ mode = "NORMAL" /\ phase = "wait"
        /\ lockMs = 0 /\ silentMs = 0
    OBVIOUS
  <2>3. age \in 0 .. AgeMax
    BY <2>2, GuardAssumption
  <2> QED
    BY <2>1, <2>2, <2>3 DEF CountersOK
<1>2. ClockOK
  <2>1. 0 % ClockSize = 0
    BY PacerAssumption, ModWithin
  <2> QED
    BY <2>1, PacerAssumption DEF ClockOK, OnSchedule
<1>3. LockAddsUp /\ SilenceAddsUp
  <2>1. age * Period = 0 /\ silentMs = 0 /\ mode = "NORMAL" /\ lockMs = 0
    BY PacerAssumption
  <2>2. 0 <= 0 - due + Period - 1 /\ due \in Int
    BY PacerAssumption
  <2>3. silentMs <= age * Period - due + Period - 1
    BY <2>1, <2>2
  <2> QED
    BY <2>1, <2>3 DEF LockAddsUp, SilenceAddsUp
<1> QED
  BY <1>1, <1>2, <1>3 DEF IInv

(* An iteration begins: one more period is due, and each counter that runs *)
(* takes one step, so both sides of the sums grow by a period.             *)
LEMMA IterateIInv == ASSUME IInv, Iterate PROVE IInv'
<1> USE PacerAssumption, GuardAssumption DEF IInv, Iterate
<1>1. ClockOK' /\ phase' \in {"wait", "body"}
  BY ScheduleKept DEF CountersOK
<1>2. due' = due + Period /\ due < 0 /\ due \in Int
  BY ReachedWhenPast DEF pacer_wait, ClockOK, OnSchedule
<1>3. CountersOK'
  BY <1>1 DEF CountersOK, G!Tick, G!TickNormal, G!TickLocked, G!TickHoldoff
<1>4. LockAddsUp'
  <2>1. CASE mode = "BUMPER_WAITING" /\ mode' = "BUMPER_WAITING"
    <3>1. timer \in Nat /\ timer' = timer + 1 /\ lockMs' = lockMs
      BY <2>1 DEF CountersOK, G!Tick, G!TickNormal, G!TickLocked, G!TickHoldoff
    <3>2. timer' * Period = timer * Period + Period /\ timer * Period \in Nat
      BY <3>1, OneMorePeriod
    <3>3. lockMs >= timer * Period - due - MaxLag
          /\ lockMs <= timer * Period - due + Period - 1
      BY <2>1 DEF LockAddsUp
    <3> DEFINE tp == timer * Period
               tp2 == timer' * Period
    <3> HIDE DEF tp, tp2
    <3>4. tp \in Nat /\ tp2 = tp + Period /\ lockMs >= tp - due - MaxLag
          /\ lockMs <= tp - due + Period - 1 /\ lockMs \in Nat
      BY <3>2, <3>3 DEF CountersOK, tp, tp2
    <3>5. lockMs' >= tp2 - due' - MaxLag /\ lockMs' <= tp2 - due' + Period - 1
      BY <1>2, <3>1, <3>4
    <3> QED
      BY <2>1, <3>5 DEF LockAddsUp, tp2
  <2>2. CASE mode' # "BUMPER_WAITING"
    BY <2>2 DEF LockAddsUp
  <2>3. CASE mode # "BUMPER_WAITING" /\ mode' = "BUMPER_WAITING"
    BY <2>3 DEF CountersOK, G!Tick, G!TickNormal, G!TickLocked, G!TickHoldoff
  <2> QED
    BY <2>1, <2>2, <2>3
<1>5. SilenceAddsUp'
  <2> SUFFICES ASSUME (moving \/ age < AgeMax)'
               PROVE  (silentMs <= age * Period - due + Period - 1)'
    BY DEF SilenceAddsUp
  <2>1. age \in Nat /\ age' = age + 1 /\ moving' = moving /\ silentMs' = silentMs
        /\ age < AgeMax
    BY DEF CountersOK, G!Tick
  <2>2. age' * Period = age * Period + Period /\ age * Period \in Nat
    BY <2>1, OneMorePeriod
  <2>3. silentMs <= age * Period - due + Period - 1 /\ silentMs \in Nat
    BY <2>1 DEF SilenceAddsUp, CountersOK
  <2> DEFINE ap == age * Period
             ap2 == age' * Period
  <2> HIDE DEF ap, ap2
  <2>4. ap \in Nat /\ ap2 = ap + Period /\ silentMs <= ap - due + Period - 1
        /\ silentMs \in Nat
    BY <2>2, <2>3 DEF ap, ap2
  <2>5. silentMs' <= ap2 - due' + Period - 1
    BY <1>2, <2>1, <2>4
  <2> QED
    BY <2>5 DEF ap2
<1> QED
  BY <1>1, <1>3, <1>4, <1>5

(* A packet arrives: age and clock of the silence start together.          *)
LEMMA AcceptIInv == ASSUME IInv, Accept PROVE IInv'
<1> USE PacerAssumption, GuardAssumption DEF IInv, Accept, G!Refresh
<1>1. ClockOK' /\ phase' \in {"wait", "body"}
  BY ScheduleKept DEF CountersOK
<1>2. CountersOK'
  BY <1>1 DEF CountersOK
<1>3. LockAddsUp'
  BY DEF LockAddsUp, pacerVars
<1>4. SilenceAddsUp'
  <2> DEFINE ap == age' * Period
  <2>1. ap = 0 /\ silentMs' = 0
    OBVIOUS
  <2>2. due' \in -MaxLag .. Period - 1
    BY <1>1 DEF ClockOK, OnSchedule
  <2>3. due' \in Int /\ Period \in Int /\ due' <= Period - 1
    BY <2>2
  <2>4. 0 <= 0 - due' + Period - 1
    BY <2>3, PeriodLeft
  <2>5. silentMs' <= ap - due' + Period - 1
    BY ONLY <2>1, <2>4
  <2> QED
    BY <2>5 DEF SilenceAddsUp
<1> QED
  BY <1>1, <1>2, <1>3, <1>4

(* A command or a bump: a lock starts timer and clock together, and no     *)
(* other command touches them.                                             *)
LEMMA SteerIInv == ASSUME IInv, Steer PROVE IInv'
<1> USE PacerAssumption, GuardAssumption DEF IInv, Steer
<1>1. ClockOK' /\ phase' \in {"wait", "body"}
  BY ScheduleKept DEF CountersOK
<1>2. CountersOK'
  <2>1. moving' \in BOOLEAN
    BY DEF CountersOK, G!Drive, G!Halt, G!Lock
  <2>2. moving' => age' <= Timeout
    <3>1. age' = age /\ (moving' => moving \/ age = 0)
      BY DEF CountersOK, G!Drive, G!Halt, G!Lock
    <3> QED
      BY <3>1 DEF CountersOK
  <2> QED
    BY <1>1, <2>1, <2>2 DEF CountersOK, G!Drive, G!Halt, G!Lock
<1>3. LockAddsUp'
  <2>1. CASE G!Lock
    <3>1. timer' = 0 /\ lockMs' = 0 /\ due' = due /\ 0 * Period = 0
      BY <2>1 DEF CountersOK, LockAddsUp, G!Lock, pacerVars
    <3>2. due \in Int /\ -MaxLag <= due /\ due < Period
      BY DEF ClockOK, OnSchedule
    <3>3. 0 >= 0 - due - MaxLag /\ 0 <= 0 - due + Period - 1
      BY <3>2
    <3> QED
      BY <2>1, <3>1, <3>3 DEF LockAddsUp, G!Lock
  <2>2. CASE G!Drive \/ G!Halt
    BY <2>2 DEF LockAddsUp, G!Drive, G!Halt, pacerVars
  <2> QED
    BY <2>1, <2>2
<1>4. SilenceAddsUp'
  <2>1. (moving \/ age < AgeMax)' => moving \/ age < AgeMax
    BY DEF G!Drive, G!Halt, G!Lock, CountersOK
  <2>2. age' = age /\ due' = due /\ silentMs' = silentMs
    BY DEF G!Drive, G!Halt, G!Lock, pacerVars
  <2> QED
    BY <2>1, <2>2 DEF SilenceAddsUp
<1> QED
  BY <1>1, <1>2, <1>3, <1>4

(* A millisecond: the clocks and the schedule move by one, so the sums     *)
(* keep.                                                                   *)
LEMMA MillisecondIInv == ASSUME IInv, Millisecond PROVE IInv'
<1> USE PacerAssumption, GuardAssumption DEF IInv, Millisecond
<1>1. ClockOK' /\ phase' \in {"wait", "body"}
  BY ScheduleKept DEF CountersOK
<1>2. due' = due - 1 /\ due \in Int /\ UNCHANGED guardVars
  BY DEF SysTick, ClockOK, OnSchedule
<1>3. CountersOK'
  BY <1>1 DEF CountersOK, guardVars
<1>4. timer * Period \in Nat /\ age * Period \in Nat
  BY OneMorePeriod DEF CountersOK
<1> DEFINE tp == timer * Period
           ap == age * Period
<1> HIDE DEF tp, ap
<1>5. tp \in Nat /\ ap \in Nat /\ lockMs \in Nat /\ silentMs \in Nat
  BY <1>4 DEF tp, ap, CountersOK
<1>6. LockAddsUp'
  <2>1. CASE mode = "BUMPER_WAITING"
    <3>1. lockMs >= tp - due - MaxLag /\ lockMs <= tp - due + Period - 1
      BY <2>1 DEF LockAddsUp, tp
    <3>2. lockMs' = lockMs + 1
      BY <2>1
    <3>3. lockMs' >= tp - due' - MaxLag /\ lockMs' <= tp - due' + Period - 1
      BY <1>2, <1>5, <3>1, <3>2
    <3>4. tp = timer' * Period
      BY <1>2 DEF guardVars, tp
    <3> QED
      BY <1>2, <2>1, <3>3, <3>4 DEF LockAddsUp, guardVars
  <2>2. CASE mode # "BUMPER_WAITING"
    BY <1>2, <2>2 DEF LockAddsUp, guardVars
  <2> QED
    BY <2>1, <2>2
<1>7. SilenceAddsUp'
  <2> SUFFICES ASSUME moving \/ age < AgeMax
               PROVE  (silentMs <= age * Period - due + Period - 1)'
    BY <1>2 DEF SilenceAddsUp, guardVars
  <2>1. silentMs <= ap - due + Period - 1 /\ silentMs' = silentMs + 1
    BY DEF SilenceAddsUp, ap
  <2>2. silentMs' <= ap - due' + Period - 1
    BY <1>2, <1>5, <2>1
  <2>3. ap = age' * Period
    BY <1>2 DEF guardVars, ap
  <2> QED
    BY <2>2, <2>3
<1> QED
  BY <1>1, <1>3, <1>6, <1>7

(* Every step keeps the invariant.                                         *)
LEMMA NextIInv == IInv /\ [Next]_vars => IInv'
<1> SUFFICES ASSUME IInv, [Next]_vars PROVE IInv'
  OBVIOUS
<1>1. CASE Iterate
  BY <1>1, IterateIInv
<1>2. CASE Accept
  BY <1>2, AcceptIInv
<1>3. CASE Steer
  BY <1>3, SteerIInv
<1>4. CASE IterationEnds \/ UNCHANGED vars
  <2>1. UNCHANGED <<guardVars, lockMs, silentMs>> /\ (BodyEnds \/ UNCHANGED pacerVars)
    BY <1>4 DEF IterationEnds, vars
  <2>2. ClockOK' /\ phase' \in {"wait", "body"}
    BY <2>1, ScheduleKept DEF IInv, CountersOK
  <2>3. due' = due
    BY <2>1 DEF BodyEnds, pacerVars
  <2> QED
    BY <2>1, <2>2, <2>3 DEF IInv, CountersOK, LockAddsUp, SilenceAddsUp, guardVars
<1>5. CASE Millisecond
  BY <1>5, MillisecondIInv
<1> QED
  BY <1>1, <1>2, <1>3, <1>4, <1>5 DEF Next

(* The invariant holds in every state: clocks and counters add up.         *)
THEOREM Adding == Spec => []IInv
<1> QED
  BY InitIInv, NextIInv, PTL DEF Spec

(* The schedule holds across every wrap-around, for every period, size of  *)
(* the counter and lateness of less than half of it.                       *)
THEOREM ScheduleHolds == Spec => []OnSchedule
<1>1. IInv => OnSchedule
  BY DEF IInv, ClockOK
<1> QED
  BY <1>1, Adding, PTL

(* No motor runs longer on one packet than the timeout and one period.     *)
THEOREM MotorsTimeOut == Spec => []TimeoutInTime
<1>1. IInv => TimeoutInTime
  <2> SUFFICES ASSUME IInv, moving
               PROVE  silentMs < (Timeout + 1) * Period + MaxLag
    BY DEF TimeoutInTime
  <2>1. age \in Nat /\ Timeout \in Nat /\ age <= Timeout /\ Period \in Nat
    BY GuardAssumption, PacerAssumption DEF IInv, CountersOK
  <2>2. age * Period <= Timeout * Period
    BY <2>1, MorePeriods
  <2>3. (Timeout + 1) * Period = Timeout * Period + Period
        /\ Timeout * Period \in Nat /\ age * Period \in Nat
    BY <2>1, OneMorePeriod
  <2> DEFINE ap == age * Period
             tp == Timeout * Period
  <2> HIDE DEF ap, tp
  <2>4. silentMs \in Nat /\ silentMs <= ap - due + Period - 1 /\ ap \in Nat
        /\ tp \in Nat /\ ap <= tp
    BY <2>2, <2>3 DEF IInv, SilenceAddsUp, CountersOK, ap, tp
  <2>5. due \in Int /\ -MaxLag <= due /\ MaxLag \in Nat
    BY PacerAssumption DEF IInv, ClockOK, OnSchedule
  <2>6. silentMs < tp + Period + MaxLag
    BY <2>1, <2>4, <2>5
  <2> QED
    BY <2>3, <2>6 DEF tp
<1> QED
  BY <1>1, Adding, PTL

(* A lockout takes its periods, give or take one and the lateness.         *)
THEOREM LockoutTakesItsTime == Spec => LockoutInTime
<1>1. ASSUME IInv PROVE lockMs < Lockout * Period + MaxLag
  <2>1. Lockout \in Nat /\ Lockout > 0 /\ Period \in Nat /\ Period > 0
        /\ MaxLag \in Nat /\ MaxLag > 0 /\ due \in Int /\ -MaxLag <= due
    BY <1>1, PacerAssumption, GuardAssumption DEF IInv, ClockOK, OnSchedule
  <2>2. CASE mode = "BUMPER_WAITING"
    <3>1. timer \in Nat /\ timer + 1 <= Lockout /\ lockMs \in Nat
      BY <1>1, <2>1, <2>2 DEF IInv, CountersOK
    <3>2. (timer + 1) * Period <= Lockout * Period
      BY <2>1, <3>1, MorePeriods
    <3>3. (timer + 1) * Period = timer * Period + Period /\ timer * Period \in Nat
      BY <2>1, <3>1, OneMorePeriod
    <3>4. Lockout * Period \in Nat
      BY <2>1, OneMorePeriod
    <3> DEFINE tp == timer * Period
               lp == Lockout * Period
    <3> HIDE DEF tp, lp
    <3>5. tp \in Nat /\ lp \in Nat /\ tp + Period <= lp
          /\ lockMs <= tp - due + Period - 1
      BY <1>1, <2>2, <3>2, <3>3, <3>4 DEF IInv, LockAddsUp, tp, lp
    <3>6. lockMs < lp + MaxLag
      BY <2>1, <3>1, <3>5
    <3> QED
      BY <3>6 DEF lp
  <2>3. CASE mode # "BUMPER_WAITING"
    <3>1. lockMs = 0 /\ Lockout * Period \in Nat
      BY <1>1, <2>1, <2>3, OneMorePeriod DEF IInv, LockAddsUp
    <3> QED
      BY <2>1, <3>1
  <2> QED
    BY <2>2, <2>3
<1>2. ASSUME IInv, [Next]_vars, mode = "BUMPER_WAITING", mode' # mode
      PROVE  lockMs > (Lockout - 1) * Period - MaxLag
  <2>1. Iterate
    BY <1>2 DEF Next, Accept, Steer, IterationEnds, Millisecond, vars, guardVars,
                G!Refresh, G!Drive, G!Halt, G!Lock
  <2>2. timer = Lockout - 1
    BY <1>2, <2>1, GuardAssumption
       DEF IInv, CountersOK, Iterate, G!Tick, G!TickNormal, G!TickLocked, G!TickHoldoff
  <2>3. due < 0
    BY <1>2, <2>1, ReachedWhenPast DEF IInv, Iterate, pacer_wait
  <2>4. timer * Period \in Nat /\ due \in Int /\ lockMs \in Nat /\ MaxLag \in Nat
    BY <1>2, OneMorePeriod, PacerAssumption DEF IInv, CountersOK, ClockOK, OnSchedule
  <2> DEFINE tp == timer * Period
  <2> HIDE DEF tp
  <2>5. tp \in Nat /\ lockMs >= tp - due - MaxLag
    BY <1>2, <2>4 DEF IInv, LockAddsUp, tp
  <2>6. lockMs > tp - MaxLag
    BY <2>3, <2>4, <2>5
  <2> QED
    BY <2>2, <2>6 DEF tp
<1>3. IInv /\ [Next]_vars
        => [mode = "BUMPER_WAITING" /\ mode' # mode
              => lockMs > (Lockout - 1) * Period - MaxLag]_vars
  BY <1>2
<1> QED
  BY <1>1, <1>3, Adding, PTL DEF LockoutInTime, Spec
=============================================================================
