---------------------------- MODULE WackyRacers ----------------------------
(***************************************************************************)
(* The whole system: the hat's tasks (Hat) and the racer's loop (Racer),   *)
(* each a sequential program on its own board, and the air between their   *)
(* two radios.                                                             *)
(***************************************************************************)
EXTENDS Nrf24

CONSTANTS
  BUMPER_TIMER_TICKS, BUMPER_HOLDOFF_TIMER_TICKS, MOTOR_TIMEOUT, CounterMax,
  Addresses, HatAddress, Commands, Positions,
  MaxKeys,    \* bound: keys the hat has, the initial one included
  Bump        \* the payload that reports a bump

VARIABLES
  pc, step, state, waiting_counter, holdoff_counter, motor_timeout_counter,
  key, servo_pos, motors, rx, nrf,
  task, outgoing, lfsr_key, enabled, control_from_imu, control_button,
  sleep_button, powered, hat_nrf

racerVars == <<pc, step, state, waiting_counter, holdoff_counter,
               motor_timeout_counter, key, servo_pos, motors, rx, nrf>>
hatVars == <<task, outgoing, lfsr_key, enabled, control_from_imu, control_button,
             sleep_button, powered, hat_nrf>>
vars == <<racerVars, hatVars>>

R == INSTANCE Racer WITH Keys <- 0 .. MaxKeys
H == INSTANCE Hat WITH Stop <- R!Stopped

ASSUME SystemAssumption ==
  /\ BUMPER_TIMER_TICKS \in Nat \ {0}
  /\ BUMPER_HOLDOFF_TIMER_TICKS \in Nat \ {0}
  /\ MOTOR_TIMEOUT \in Nat \ {0}
  /\ CounterMax \in Nat /\ CounterMax >= MOTOR_TIMEOUT
  /\ HatAddress \in Addresses
  /\ MaxKeys \in Nat \ {0}
  /\ Commands \subseteq [R!Registers -> Nat] /\ R!Stopped \in Commands
  /\ 0 \in Positions

Init == R!Init /\ H!Init

RacerStep == R!Loop /\ UNCHANGED hatVars

HatStep == H!Next /\ UNCHANGED racerVars

(* The hat's packet is stored by the racer's chip.  Whether or not the     *)
(* acknowledgement gets back, no repetition of it is stored again.         *)
AirToRacer ==
  /\ hat_nrf.sending
  /\ Hears(nrf, hat_nrf.txAddr)
  /\ HasRoom(nrf)
  /\ nrf' = Store(nrf, outgoing)
  /\ hat_nrf' \in {Acknowledged(hat_nrf), GaveUp(hat_nrf)}
  /\ outgoing' = H!NoPacket
  /\ UNCHANGED <<pc, step, state, waiting_counter, holdoff_counter,
                 motor_timeout_counter, key, servo_pos, motors, rx,
                 task, lfsr_key, enabled, control_from_imu,
                 control_button, sleep_button, powered>>

AirToHat ==
  /\ nrf.sending
  /\ Hears(hat_nrf, nrf.txAddr)
  /\ HasRoom(hat_nrf)
  /\ hat_nrf' = Store(hat_nrf, Bump)
  /\ nrf' \in {Acknowledged(nrf), GaveUp(nrf)}
  /\ UNCHANGED <<pc, step, state, waiting_counter, holdoff_counter,
                 motor_timeout_counter, key, servo_pos, motors, rx,
                 task, outgoing, lfsr_key, enabled, control_from_imu,
                 control_button, sleep_button, powered>>

(* Every repetition of a packet is lost.                                   *)
Lost ==
  /\ \/ /\ hat_nrf.sending
        /\ hat_nrf' = GaveUp(hat_nrf)
        /\ outgoing' = H!NoPacket
        /\ UNCHANGED nrf
     \/ /\ nrf.sending
        /\ nrf' = GaveUp(nrf)
        /\ UNCHANGED <<outgoing, hat_nrf>>
  /\ UNCHANGED <<pc, step, state, waiting_counter, holdoff_counter,
                 motor_timeout_counter, key, servo_pos, motors, rx,
                 task, lfsr_key, enabled, control_from_imu,
                 control_button, sleep_button, powered>>

Next == RacerStep \/ HatStep \/ AirToRacer \/ AirToHat \/ Lost

Spec == Init /\ [][Next]_vars

(* Both programs keep running: a task of the hat that has begun goes on.   *)
(* Nothing is assumed of the air, of the buttons, or of the kernel.        *)
HatContinues == H!Continue /\ UNCHANGED racerVars
HatPolls == H!check_bumber_task /\ UNCHANGED racerVars

FairSpec == Spec /\ WF_vars(RacerStep) /\ WF_vars(HatContinues)

(* More than the code gives: the bumper task, which runs every 100 ms, is  *)
(* assumed to meet a pending message if there is one again and again.      *)
PollingSpec == FairSpec /\ SF_vars(HatPolls)

-----------------------------------------------------------------------------
(* Between two tasks exactly one control task is enabled, the one that     *)
(* control_from_imu names: never both, which would send two commands a     *)
(* period, and never neither, which would stop the car.                    *)
OneControlTask ==
  task # "switching" =>
    /\ enabled.imu_control = control_from_imu
    /\ enabled.joystick_control = ~control_from_imu

(* Keys reach the racer in the order the hat made them: a late or repeated *)
(* key packet never brings an old key back, with which commands from       *)
(* before would be accepted again.                                         *)
KeysAdvance == [][key' >= key]_vars

(* Before it has a key from the hat the racer does not move: its initial   *)
(* key is none of the hat's.                                               *)
NoKeyNoDrive == key = 0 => motors = R!Stopped

(* The most general hat, with which Racer is checked and proved alone,     *)
(* covers the real one.                                                    *)
RacerContext == R!Spec

(* A hat that is put to sleep and left asleep stops the car, whatever it   *)
(* had sent before: what still waits in the racer's FIFO is obeyed at most *)
(* until the timeout, and nothing moves the car again.                     *)
SleepStopsCar == <>[](task = "asleep") => <>[](motors = R!Stopped)

(* instructions.tex, the hat: "Play sound when the bumper is hit."  A      *)
(* bumper message that the hat's chip has received is played.              *)
BumpPlaysSound == (hat_nrf.rxFifo # << >> /\ powered) ~> (task = "melody" \/ ~powered)
=============================================================================
