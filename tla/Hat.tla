-------------------------------- MODULE Hat --------------------------------
(***************************************************************************)
(* The hat's tasks (src/apps/hat/main.c, control.c) on its radio (Nrf24).  *)
(*                                                                         *)
(* The kernel runs one task at a time to its end; which enabled task runs  *)
(* next is a question of time, so here any may (module Kernel has the      *)
(* clock).  A task that waits - for the radio, for the melody to end, for  *)
(* the wake-up button - waits in a step of its own, with the rest of the   *)
(* world running.                                                          *)
(*                                                                         *)
(* Keys are serial numbers: 1 is the initial value 0xB00B, n + 1 what      *)
(* gen_key makes of n, and 0 the racer's initial key 0.  Module GenKey     *)
(* shows that the first 65535 values differ and that none of them is 0.    *)
(*                                                                         *)
(* Left out: battery_voltage_task (LOW_POWER_FEATURE is 0), blink_task and *)
(* the colours of the LED tape.                                            *)
(***************************************************************************)
EXTENDS Nrf24

CONSTANTS
  HatAddress,    \* the radio address of the hat (100)
  Commands,      \* motor register values the control tasks compute
  Stop,          \* the command with every motor register zero
  Positions,     \* servo positions, 0 among them
  MaxKeys,       \* bound: keys the hat has, the initial one included
  Bump           \* the payload that reports a bump

VARIABLES
  task,               \* what the hat is doing, "kernel" between two tasks
  outgoing,           \* the packet the chip is transmitting, NoPacket when it is done
  lfsr_key,           \* the serial number of the hat's key
  enabled,            \* the task_t.enabled flags that ever change
  control_from_imu,
  control_button,     \* prev_button_state of change_control_method_task
  sleep_button,       \* prev_button_state of check_sleep_mode_task
  powered,            \* SPI and TWI controllers are clocked
  hat_nrf             \* the radio

hatVars == <<task, outgoing, lfsr_key, enabled, control_from_imu, control_button,
             sleep_button, powered, hat_nrf>>

KeyPacket(k) ==
  [set_key |-> TRUE, key |-> k, motors |-> Stop, servo_position |-> 0]

(* Seeded fault: set_key of the packet is left as it was on the stack.     *)
MovePacketUnset(k, c, s) ==
  [set_key |-> TRUE, key |-> k, motors |-> c, servo_position |-> s]

MovePacket(k, c, s) ==
  [set_key |-> FALSE, key |-> k, motors |-> c, servo_position |-> s]

NoPacket == KeyPacket(0)

(* init_hat and main up to kernel_run.                                     *)
Init ==
  /\ task = "kernel"
  /\ outgoing = NoPacket
  /\ lfsr_key = 1
  /\ enabled = [leds |-> TRUE, imu_control |-> TRUE, joystick_control |-> FALSE]
  /\ control_from_imu = TRUE
  /\ control_button = TRUE
  /\ sleep_button = TRUE
  /\ powered = TRUE
  /\ hat_nrf = Begin(HatAddress)

-----------------------------------------------------------------------------
(* nrf24_write begins with SPI transfers.  SPI_XFER waits for the receive  *)
(* register to fill, which a controller without clock never does: a write  *)
(* after spi_shutdown does not return.                                     *)
Transmit(p) ==
  /\ outgoing' = p
  /\ IF powered
     THEN hat_nrf' = WriteStart(hat_nrf) /\ task' = "polling"
     ELSE UNCHANGED hat_nrf /\ task' = "hung"

(* The rest of nrf24_write, whose result every task ignores, and           *)
(* nrf24_listen.                                                           *)
TransmitDone ==
  /\ task = "polling"
  /\ hat_nrf' = Listen(WriteEnd(hat_nrf))
  /\ task' = "kernel"
  /\ UNCHANGED <<outgoing, lfsr_key, enabled, control_from_imu, control_button,
                 sleep_button, powered>>

generate_key_task ==
  /\ task = "kernel"
  /\ lfsr_key < MaxKeys
  /\ lfsr_key' = lfsr_key + 1
  /\ Transmit(KeyPacket(lfsr_key + 1))
  /\ UNCHANGED <<enabled, control_from_imu, control_button, sleep_button, powered>>

(* An IMU that is absent, not ready or unreadable (as one without a TWI    *)
(* clock is) ends the task before anything is sent.                        *)
imu_control_task ==
  /\ task = "kernel"
  /\ enabled.imu_control
  /\ powered
  /\ \E c \in Commands, s \in Positions : Transmit(MovePacket(lfsr_key, c, s))
  /\ UNCHANGED <<lfsr_key, enabled, control_from_imu, control_button, sleep_button, powered>>

joystick_control_task ==
  /\ task = "kernel"
  /\ enabled.joystick_control
  /\ \E c \in Commands, s \in Positions : Transmit(MovePacket(lfsr_key, c, s))
  /\ UNCHANGED <<lfsr_key, enabled, control_from_imu, control_button, sleep_button, powered>>

(* A falling edge toggles the source and plays the melody before the tasks *)
(* are switched over.                                                      *)
change_control_method_task(button) ==
  /\ task = "kernel"
  /\ IF control_button /\ ~button
     THEN /\ control_from_imu' = ~control_from_imu
          /\ task' = "switching"
          /\ UNCHANGED control_button
     ELSE /\ control_button' = button
          /\ UNCHANGED <<task, control_from_imu>>
  /\ UNCHANGED <<outgoing, lfsr_key, enabled, sleep_button, powered, hat_nrf>>

(* Seeded fault: the task in use is not disabled.                          *)
SwitchControlAdds ==
  /\ task = "switching"
  /\ enabled' = IF control_from_imu THEN [enabled EXCEPT !.imu_control = TRUE]
                                    ELSE [enabled EXCEPT !.joystick_control = TRUE]
  /\ control_button' = FALSE
  /\ task' = "kernel"
  /\ UNCHANGED <<outgoing, lfsr_key, control_from_imu, sleep_button, powered, hat_nrf>>

SwitchControl ==
  /\ task = "switching"
  /\ enabled' = [enabled EXCEPT !.imu_control = control_from_imu,
                                !.joystick_control = ~control_from_imu]
  /\ control_button' = FALSE
  /\ task' = "kernel"
  /\ UNCHANGED <<outgoing, lfsr_key, control_from_imu, sleep_button, powered, hat_nrf>>

(* check_bumber_task: the IRQ pin is read without SPI, everything after it *)
(* over SPI.                                                               *)
check_bumber_task ==
  /\ task = "kernel"
  /\ IrqAsserted(hat_nrf)
  /\ IF ~powered
     THEN task' = "hung" /\ UNCHANGED hat_nrf
     ELSE /\ IsDataReady(hat_nrf)
          /\ task' = IF Head(hat_nrf.rxFifo) = Bump THEN "melody_due" ELSE "reading"
          /\ hat_nrf' = ReadPayload(hat_nrf)
  /\ UNCHANGED <<outgoing, lfsr_key, enabled, control_from_imu, control_button,
                 sleep_button, powered>>

(* The rest of nrf24_read; then tweet_sound_play if the payload says so.   *)
BumperRead ==
  /\ task \in {"melody_due", "reading"}
  /\ hat_nrf' = ReadClear(hat_nrf)
  /\ task' = IF task = "melody_due" THEN "melody" ELSE "kernel"
  /\ UNCHANGED <<outgoing, lfsr_key, enabled, control_from_imu, control_button,
                 sleep_button, powered>>

MelodyEnds ==
  /\ task = "melody"
  /\ task' = "kernel"
  /\ UNCHANGED <<outgoing, lfsr_key, enabled, control_from_imu, control_button,
                 sleep_button, powered, hat_nrf>>

(* A falling edge shuts SPI and TWI down, drives CE low and sleeps.        *)
check_sleep_mode_task(button) ==
  /\ task = "kernel"
  /\ IF sleep_button /\ ~button
     THEN /\ powered' = FALSE
          /\ hat_nrf' = [hat_nrf EXCEPT !.ce = FALSE]
          /\ enabled' = [enabled EXCEPT !.leds = FALSE]
          /\ task' = "asleep"
          /\ UNCHANGED sleep_button
     ELSE /\ sleep_button' = button
          /\ UNCHANGED <<task, powered, hat_nrf, enabled>>
  /\ UNCHANGED <<outgoing, lfsr_key, control_from_imu, control_button>>

(* Waking up restores the LED task, and neither SPI nor TWI.               *)
WakeUp ==
  /\ task = "asleep"
  /\ enabled' = [enabled EXCEPT !.leds = TRUE]
  /\ sleep_button' = FALSE
  /\ task' = "kernel"
  /\ UNCHANGED <<outgoing, lfsr_key, control_from_imu, control_button, powered, hat_nrf>>

Tasks ==
  \/ generate_key_task
  \/ imu_control_task
  \/ joystick_control_task
  \/ \E button \in BOOLEAN : change_control_method_task(button)
  \/ check_bumber_task
  \/ \E button \in BOOLEAN : check_sleep_mode_task(button)

(* The steps in which a task that has begun goes on.                       *)
Continue == TransmitDone \/ SwitchControl \/ BumperRead \/ MelodyEnds

Next == Tasks \/ Continue \/ WakeUp
=============================================================================
