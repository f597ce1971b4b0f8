------------------------------- MODULE Racer -------------------------------
(***************************************************************************)
(* The racer's main loop (src/apps/racer/main.c) on its radio (Nrf24).     *)
(*                                                                         *)
(* One iteration is cut where the world can act between two steps of it:   *)
(* the motor registers are written one at a time, the radio chip stores    *)
(* packets whenever it is in receive mode, and bumper and switches are     *)
(* sampled when the code reads them.  The hat is any sender of Packets on  *)
(* the address HatAddress; module WackyRacers puts the real hat there.     *)
(*                                                                         *)
(* Left out: the servo pulse and its delay, battery LED and LED tape.      *)
(***************************************************************************)
EXTENDS Nrf24

CONSTANTS
  BUMPER_TIMER_TICKS,           \* iterations the car stays locked (250)
  BUMPER_HOLDOFF_TIMER_TICKS,   \* iterations the bumper is then ignored (50)
  MOTOR_TIMEOUT,                \* iterations without a packet (25)
  CounterMax,                   \* bound: where motor_timeout_counter is capped
  Addresses,                    \* addresses the two switches select
  HatAddress,                   \* the address the hat sends to (100)
  Keys,                         \* key values; the code's are 16 bits wide
  Commands,                     \* motor register values a move packet carries
  Positions                     \* servo positions a packet carries

Registers == {"leftDuty", "leftDir", "rightDuty", "rightDir"}
Stopped == [r \in Registers |-> 0]

ASSUME RacerAssumption ==
  /\ BUMPER_TIMER_TICKS \in Nat \ {0}
  /\ BUMPER_HOLDOFF_TIMER_TICKS \in Nat \ {0}
  /\ MOTOR_TIMEOUT \in Nat \ {0}
  /\ CounterMax \in Nat /\ CounterMax >= MOTOR_TIMEOUT
  /\ HatAddress \in Addresses
  /\ 0 \in Keys
  /\ Commands \subseteq [Registers -> Nat] /\ Stopped \in Commands
  /\ 0 \in Positions

(* mosi_comms_t *)
Packets == [set_key : BOOLEAN, key : Keys, motors : Commands, servo_position : Positions]

NoPacket == [set_key |-> FALSE, key |-> 0, motors |-> Stopped, servo_position |-> 0]

VARIABLES
  pc,                      \* where the loop is
  step,                    \* which motor register is written next
  state,                   \* the bumper state machine
  waiting_counter,
  holdoff_counter,
  motor_timeout_counter,
  key,                     \* the key a move packet must carry
  servo_pos,
  motors,                  \* the four motor registers
  rx,                      \* the packet nrf24_read delivered last
  nrf                      \* the radio

vars == <<pc, step, state, waiting_counter, holdoff_counter,
          motor_timeout_counter, key, servo_pos, motors, rx, nrf>>

Init ==
  /\ pc = "pace"
  /\ step = 1
  /\ state = "NORMAL"
  /\ waiting_counter = 0
  /\ holdoff_counter = 0
  /\ motor_timeout_counter = 0
  /\ key = 0
  /\ servo_pos = 0
  /\ motors = Stopped
  /\ rx = NoPacket
  /\ nrf = Listen(Begin(HatAddress))

-----------------------------------------------------------------------------
(* pacer_wait, update_radio_channel, then the bumper state machine.  rx is *)
(* a local of the loop's body: no packet outlives its iteration.           *)
StayNormal ==
  /\ state = "NORMAL"
  /\ UNCHANGED <<state, waiting_counter, holdoff_counter>>

(* Seeded fault: one iteration too many.                                   *)
CountWaitingTooLong ==
  /\ state = "BUMPER_WAITING"
  /\ IF waiting_counter >= BUMPER_TIMER_TICKS
     THEN waiting_counter' = 0 /\ state' = "BUMPER_HOLDOFF"
     ELSE waiting_counter' = waiting_counter + 1 /\ UNCHANGED state
  /\ UNCHANGED holdoff_counter

CountWaiting ==
  /\ state = "BUMPER_WAITING"
  /\ IF waiting_counter + 1 >= BUMPER_TIMER_TICKS
     THEN waiting_counter' = 0 /\ state' = "BUMPER_HOLDOFF"
     ELSE waiting_counter' = waiting_counter + 1 /\ UNCHANGED state
  /\ UNCHANGED holdoff_counter

CountHoldoff ==
  /\ state = "BUMPER_HOLDOFF"
  /\ IF holdoff_counter + 1 >= BUMPER_HOLDOFF_TIMER_TICKS
     THEN holdoff_counter' = 0 /\ state' = "NORMAL"
     ELSE holdoff_counter' = holdoff_counter + 1 /\ UNCHANGED state
  /\ UNCHANGED waiting_counter

Pace ==
  /\ pc = "pace"
  /\ StayNormal \/ CountWaiting \/ CountHoldoff
  /\ \E a \in Addresses : nrf' = SetAddress(nrf, a)
  /\ rx' = NoPacket
  /\ pc' = "bumper"
  /\ UNCHANGED <<step, motor_timeout_counter, key, servo_pos, motors>>

(* Seeded fault: the bumper also counts during the holdoff.                *)
CheckBumperAlways(pressed) ==
  /\ pc = "bumper"
  /\ IF pressed
     THEN pc' = "halt" /\ step' = 1
     ELSE pc' = "receive" /\ UNCHANGED step
  /\ UNCHANGED <<state, waiting_counter, holdoff_counter, motor_timeout_counter,
                 key, servo_pos, motors, rx, nrf>>

CheckBumper(pressed) ==
  /\ pc = "bumper"
  /\ IF state # "BUMPER_HOLDOFF" /\ pressed
     THEN pc' = "halt" /\ step' = 1
     ELSE pc' = "receive" /\ UNCHANGED step
  /\ UNCHANGED <<state, waiting_counter, holdoff_counter, motor_timeout_counter,
                 key, servo_pos, motors, rx, nrf>>

(* Seeded fault: the left direction in place of the right one.             *)
DriveOrderTwice == <<"leftDuty", "rightDuty", "leftDir", "leftDir">>

(* The order in which the code writes the registers to stop and to drive.  *)
StopOrder == <<"leftDuty", "leftDir", "rightDuty", "rightDir">>
DriveOrder == <<"leftDuty", "rightDuty", "leftDir", "rightDir">>

WriteRegister(at, order, values, next) ==
  /\ pc = at
  /\ motors' = [motors EXCEPT ![order[step]] = values[order[step]]]
  /\ IF step = 4
     THEN pc' = next /\ step' = 1
     ELSE pc' = pc /\ step' = step + 1

Halt ==
  /\ WriteRegister("halt", StopOrder, Stopped, "report")
  /\ UNCHANGED <<state, waiting_counter, holdoff_counter, motor_timeout_counter,
                 key, servo_pos, rx, nrf>>

(* nrf24_write of the bumper message; its result is ignored.               *)
Report ==
  /\ pc = "report"
  /\ nrf' = WriteStart(nrf)
  /\ pc' = "reporting"
  /\ UNCHANGED <<step, state, waiting_counter, holdoff_counter,
                 motor_timeout_counter, key, servo_pos, motors, rx>>

(* Seeded fault: every bump starts the lockout again.                      *)
LockRestarts ==
  /\ pc = "reporting"
  /\ nrf' = Listen(WriteEnd(nrf))
  /\ state' = "BUMPER_WAITING"
  /\ waiting_counter' = 0
  /\ pc' = "receive"
  /\ UNCHANGED <<step, holdoff_counter, motor_timeout_counter,
                 key, servo_pos, motors, rx>>

Lock ==
  /\ pc = "reporting"
  /\ nrf' = Listen(WriteEnd(nrf))
  /\ state' = "BUMPER_WAITING"
  /\ pc' = "receive"
  /\ UNCHANGED <<step, waiting_counter, holdoff_counter, motor_timeout_counter,
                 key, servo_pos, motors, rx>>

-----------------------------------------------------------------------------
(* Seeded fault: the age of the last packet is not counted.                *)
ReceiveAgeless ==
  /\ pc = "receive"
  /\ IF IsDataReady(nrf)
     THEN rx' = Head(nrf.rxFifo) /\ nrf' = ReadPayload(nrf) /\ pc' = "clear"
     ELSE UNCHANGED <<rx, nrf>> /\ pc' = "deadline"
  /\ UNCHANGED <<step, state, waiting_counter, holdoff_counter,
                 motor_timeout_counter, key, servo_pos, motors>>

(* motor_timeout_counter is only compared with MOTOR_TIMEOUT, so counts    *)
(* from CounterMax on are the same count.                                  *)
Receive ==
  /\ pc = "receive"
  /\ motor_timeout_counter' =
       IF motor_timeout_counter < CounterMax THEN motor_timeout_counter + 1
                                             ELSE motor_timeout_counter
  /\ IF IsDataReady(nrf)
     THEN rx' = Head(nrf.rxFifo) /\ nrf' = ReadPayload(nrf) /\ pc' = "clear"
     ELSE UNCHANGED <<rx, nrf>> /\ pc' = "deadline"
  /\ UNCHANGED <<step, state, waiting_counter, holdoff_counter, key,
                 servo_pos, motors>>

Clear ==
  /\ pc = "clear"
  /\ nrf' = ReadClear(nrf)
  /\ pc' = IF FifoStatusZero(nrf) THEN "deadline" ELSE "accept"
  /\ UNCHANGED <<step, state, waiting_counter, holdoff_counter,
                 motor_timeout_counter, key, servo_pos, motors, rx>>

SetKey ==
  /\ pc = "accept"
  /\ rx.set_key
  /\ motor_timeout_counter' = 0
  /\ key' = rx.key
  /\ pc' = "deadline"
  /\ UNCHANGED <<step, state, waiting_counter, holdoff_counter, servo_pos,
                 motors, rx, nrf>>

(* Seeded faults: a packet drives a car that waits; any key will do.       *)
AcceptMoveWaiting ==
  /\ pc = "accept"
  /\ ~rx.set_key
  /\ rx.key = key
  /\ motor_timeout_counter' = 0
  /\ pc' = "drive"
  /\ step' = 1
  /\ UNCHANGED <<state, waiting_counter, holdoff_counter, key, servo_pos, motors, rx, nrf>>

AcceptMoveAnyKey ==
  /\ pc = "accept"
  /\ ~rx.set_key
  /\ motor_timeout_counter' = 0
  /\ IF state # "BUMPER_WAITING"
     THEN pc' = "drive" /\ step' = 1 /\ UNCHANGED servo_pos
     ELSE pc' = "deadline" /\ servo_pos' = rx.servo_position /\ UNCHANGED step
  /\ UNCHANGED <<state, waiting_counter, holdoff_counter, key, motors, rx, nrf>>

AcceptMove ==
  /\ pc = "accept"
  /\ ~rx.set_key
  /\ rx.key = key
  /\ motor_timeout_counter' = 0
  /\ IF state # "BUMPER_WAITING"
     THEN pc' = "drive" /\ step' = 1 /\ UNCHANGED servo_pos
     ELSE pc' = "deadline" /\ servo_pos' = rx.servo_position /\ UNCHANGED step
  /\ UNCHANGED <<state, waiting_counter, holdoff_counter, key, motors, rx, nrf>>

RejectMove ==
  /\ pc = "accept"
  /\ ~rx.set_key
  /\ rx.key # key
  /\ pc' = "deadline"
  /\ UNCHANGED <<step, state, waiting_counter, holdoff_counter,
                 motor_timeout_counter, key, servo_pos, motors, rx, nrf>>

Drive ==
  /\ WriteRegister("drive", DriveOrder, rx.motors, "deadline")
  /\ servo_pos' = IF step = 4 THEN rx.servo_position ELSE servo_pos
  /\ UNCHANGED <<state, waiting_counter, holdoff_counter, motor_timeout_counter,
                 key, rx, nrf>>

(* Seeded fault: one iteration late.                                       *)
CheckDeadlineLate ==
  /\ pc = "deadline"
  /\ pc' = IF motor_timeout_counter > MOTOR_TIMEOUT THEN "expire" ELSE "pace"
  /\ step' = 1
  /\ UNCHANGED <<state, waiting_counter, holdoff_counter, motor_timeout_counter,
                 key, servo_pos, motors, rx, nrf>>

CheckDeadline ==
  /\ pc = "deadline"
  /\ pc' = IF motor_timeout_counter >= MOTOR_TIMEOUT THEN "expire" ELSE "pace"
  /\ step' = 1
  /\ UNCHANGED <<state, waiting_counter, holdoff_counter, motor_timeout_counter,
                 key, servo_pos, motors, rx, nrf>>

(* Seeded fault: silence also forgets the key.                             *)
ExpireForgets ==
  /\ WriteRegister("expire", StopOrder, Stopped, "pace")
  /\ key' = 0
  /\ UNCHANGED <<state, waiting_counter, holdoff_counter, motor_timeout_counter,
                 servo_pos, rx, nrf>>

Expire ==
  /\ WriteRegister("expire", StopOrder, Stopped, "pace")
  /\ UNCHANGED <<state, waiting_counter, holdoff_counter, motor_timeout_counter,
                 key, servo_pos, rx, nrf>>

Loop ==
  \/ Pace
  \/ \E pressed \in BOOLEAN : CheckBumper(pressed)
  \/ Halt
  \/ Report
  \/ Lock
  \/ Receive
  \/ Clear
  \/ SetKey
  \/ AcceptMove
  \/ RejectMove
  \/ Drive
  \/ CheckDeadline
  \/ Expire

(* A packet of the hat reaches the chip (external).                        *)
Arrive(p) ==
  /\ Hears(nrf, HatAddress)
  /\ HasRoom(nrf)
  /\ nrf' = Store(nrf, p)
  /\ UNCHANGED <<pc, step, state, waiting_counter, holdoff_counter,
                 motor_timeout_counter, key, servo_pos, motors, rx>>

(* The bump message is acknowledged, or the chip gives up (external).      *)
Answered ==
  /\ nrf.sending
  /\ nrf' \in {Acknowledged(nrf), GaveUp(nrf)}
  /\ UNCHANGED <<pc, step, state, waiting_counter, holdoff_counter,
                 motor_timeout_counter, key, servo_pos, motors, rx>>

(* A key packet carries nothing else (generate_key_task).                  *)
HatPackets ==
  {p \in Packets : p.set_key => p.motors = Stopped /\ p.servo_position = 0}

Next == Loop \/ Answered \/ \E p \in HatPackets : Arrive(p)

Spec == Init /\ [][Next]_vars

(* The loop never blocks: pacer_wait returns at the next tick and the      *)
(* polling in nrf24_write is bounded.                                      *)
FairSpec == Spec /\ WF_vars(Loop)

-----------------------------------------------------------------------------
States == {"NORMAL", "BUMPER_WAITING", "BUMPER_HOLDOFF"}
Pcs == {"pace", "bumper", "halt", "report", "reporting", "receive", "clear",
        "accept", "drive", "deadline", "expire"}

(* Type invariant.                                                         *)
TypeOK ==
  /\ pc \in Pcs
  /\ step \in 1 .. 4
  /\ state \in States
  /\ waiting_counter \in 0 .. BUMPER_TIMER_TICKS - 1
  /\ holdoff_counter \in 0 .. BUMPER_HOLDOFF_TIMER_TICKS - 1
  /\ motor_timeout_counter \in 0 .. CounterMax
  /\ key \in Keys
  /\ servo_pos \in Positions
  /\ motors \in [Registers -> Nat]
  /\ rx \in Packets
  /\ nrf \in Radio(Addresses, Packets)

(* While the car waits after a bump every motor register is zero, also in  *)
(* the middle of an iteration, whatever packets arrive and however often   *)
(* the bumper is hit again.                                                *)
StoppedWhileWaiting == state = "BUMPER_WAITING" => motors = Stopped

(* No iteration begins with a motor running on a packet that is            *)
(* MOTOR_TIMEOUT iterations old.                                           *)
StoppedAfterTimeout ==
  pc = "pace" /\ motor_timeout_counter >= MOTOR_TIMEOUT => motors = Stopped

(* A counter left over from an earlier bump would shorten the next lockout *)
(* or holdoff: outside its state each counter is zero.                     *)
CountersRestart ==
  /\ state # "BUMPER_WAITING" => waiting_counter = 0
  /\ state # "BUMPER_HOLDOFF" => holdoff_counter = 0

(* Between two iterations the four motor registers come from one command:  *)
(* duty and direction of different packets, or of a packet and a stop, are *)
(* never left mixed.                                                       *)
CommandIsWhole == pc = "pace" => motors \in Commands

(* A motor register takes a value other than zero only from a move packet  *)
(* that carries the current key (main.c: "only accept packet if it         *)
(* contains the same key that was sent").                                  *)
OnlyKeyedPacketsDrive ==
  [][\A r \in Registers :
       motors'[r] # motors[r] /\ motors'[r] # 0 => rx.key = key /\ ~rx.set_key]_vars

(* Refinement: the loop implements DriveGuard.  The age of the last packet *)
(* is the counter, which the code advances in the middle of the iteration. *)
Counting == pc \in {"bumper", "halt", "report", "reporting", "receive"}

Guard == INSTANCE DriveGuard WITH
  Lockout <- BUMPER_TIMER_TICKS,
  Holdoff <- BUMPER_HOLDOFF_TIMER_TICKS,
  Timeout <- MOTOR_TIMEOUT,
  AgeMax <- CounterMax,
  moving <- motors # Stopped,
  age <- IF Counting /\ motor_timeout_counter < CounterMax
         THEN motor_timeout_counter + 1
         ELSE motor_timeout_counter,
  mode <- state,
  timer <- waiting_counter + holdoff_counter

ImplementsGuard == Guard!Spec

(* The address switches act through bumps only: however they are turned,   *)
(* the car listens where it did until it reports a bump, and when it has   *)
(* reported, it listens where they point.                                  *)
RetunedByBumps ==
  [][/\ nrf'.rxAddr # nrf.rxAddr => pc = "report"
     /\ pc = "reporting" /\ pc' = "receive" => nrf'.rxAddr = nrf'.address]_vars

(* A racer that accepts no more packets stops its motors for good: the     *)
(* hat off, out of range, on another address or with a lost key, or the    *)
(* chip deaf.                                                              *)
SilenceStops == []<><<SetKey \/ AcceptMove>>_vars \/ <>[](motors = Stopped)

(* A bump does not end the ride: the lockout and the holdoff both run out, *)
(* also with the bumper held.                                              *)
BumpPasses ==
  /\ state = "BUMPER_WAITING" ~> state = "BUMPER_HOLDOFF"
  /\ state = "BUMPER_HOLDOFF" ~> state = "NORMAL"
=============================================================================
