------------------------------ MODULE Control ------------------------------
(***************************************************************************)
(* How the hat turns a sample of the accelerometer or the joystick into    *)
(* motor commands (src/apps/hat/control.c).                                *)
(*                                                                         *)
(* A command holds what the racer writes to its motor registers.  A motor  *)
(* in reverse has its direction pin high, so its duty is counted from the  *)
(* other end (reverse_duty): the speed is duty - 1000 then.                *)
(***************************************************************************)
EXTENDS Integers

CONSTANTS
  AccelX, AccelY,   \* samples of the two axes of the accelerometer
  StickX, StickY    \* samples of the two axes of the joystick

Int16 == -32768 .. 32767
Adc12 == 0 .. 4095

ASSUME ControlAssumption ==
  /\ AccelX \subseteq Int16 /\ AccelY \subseteq Int16
  /\ StickX \subseteq Adc12 /\ StickY \subseteq Adc12

FORWARD == 0
BACKWARD == 1
MotorRange == 1000
Speeds == -MotorRange .. MotorRange

Abs(n) == IF n < 0 THEN -n ELSE n

(* Division of C, towards zero; the divisors of this code are positive.    *)
Quot(a, b) == IF a < 0 THEN -((-a) \div b) ELSE a \div b

-----------------------------------------------------------------------------
(* Between the dead zone and the saturation, `beyond' the dead zone.       *)
Linear(beyond, zero, sat, out) ==
  Quot(beyond * 1000, Quot((sat - zero) * 1000, out))

(* Seeded faults: the dead zone is not taken off; no saturation.           *)
CurveJumps(input, zero, sat, out) ==
  LET magnitude == Linear(Abs(input), zero, sat, out)
  IN IF Abs(input) < zero THEN 0
     ELSE IF input > sat THEN out
     ELSE IF input < -sat THEN -out
     ELSE IF input > 0 THEN magnitude ELSE -magnitude

CurveUnsaturated(input, zero, sat, out) ==
  LET magnitude == Linear(Abs(input) - zero, zero, sat, out)
  IN IF Abs(input) < zero THEN 0
     ELSE IF input > 0 THEN magnitude ELSE -magnitude

(* A sample in the dead zone gives 0, one beyond sat full output.          *)
apply_response_curve(input, zero, sat, out) ==
  LET magnitude == Linear(Abs(input) - zero, zero, sat, out)
  IN IF Abs(input) < zero THEN 0
     ELSE IF input > sat THEN out
     ELSE IF input < -sat THEN -out
     ELSE IF input > 0 THEN magnitude ELSE -magnitude

Command(leftDuty, leftDir, rightDuty, rightDir) ==
  [leftDuty |-> leftDuty, leftDir |-> leftDir,
   rightDuty |-> rightDuty, rightDir |-> rightDir]

Stop == Command(0, FORWARD, 0, FORWARD)

(* Seeded fault: the right duty is reversed with the left direction.       *)
ReverseLeftOnly(move) ==
  [move EXCEPT
     !.leftDuty = IF move.leftDir = BACKWARD THEN 1000 - @ ELSE @,
     !.rightDuty = IF move.leftDir = BACKWARD THEN 1000 - @ ELSE @]

(* A motor in reverse runs while the PWM output is low.                    *)
reverse_duty(move) ==
  [move EXCEPT
     !.leftDuty = IF move.leftDir = BACKWARD THEN 1000 - @ ELSE @,
     !.rightDuty = IF move.rightDir = BACKWARD THEN 1000 - @ ELSE @]

(* On the spot: the wheels turn against each other.                        *)
TankTurn(tank_lr) ==
  CASE tank_lr > 0 -> Command(tank_lr, FORWARD, tank_lr, BACKWARD)
    [] tank_lr < 0 -> Command(-tank_lr, BACKWARD, -tank_lr, FORWARD)
    [] OTHER -> Stop

(* speed less `by' per mille.                                              *)
Reduced(speed, by) == Quot(speed * (1000 - by), 1000)

(* Seeded fault: a turn to the left slows both wheels down.                *)
SteerSlowsBoth(forward_back, left_right) ==
  LET direction == IF forward_back > 0 THEN FORWARD ELSE BACKWARD
      outer == Abs(forward_back)
      inner == Reduced(outer, Abs(left_right))
  IN Command(IF left_right < 0 THEN inner ELSE outer, direction,
             IF left_right # 0 THEN inner ELSE outer, direction)

(* Under way: the inner wheel is slowed down.                              *)
Steer(forward_back, left_right) ==
  LET direction == IF forward_back > 0 THEN FORWARD ELSE BACKWARD
      outer == Abs(forward_back)
      inner == Reduced(outer, Abs(left_right))
  IN Command(IF left_right < 0 THEN inner ELSE outer, direction,
             IF left_right > 0 THEN inner ELSE outer, direction)

pwm_from_xy(forward_back, left_right, tank_lr) ==
  reverse_duty(IF forward_back = 0 THEN TankTurn(tank_lr)
               ELSE Steer(forward_back, left_right))

-----------------------------------------------------------------------------
VARIABLES
  source,                            \* the task that computed the command, if any
  x, y,                              \* the sample it read
  forward_back, left_right, tank_lr, \* the sample after the response curves
  move                               \* the command

vars == <<source, x, y, forward_back, left_right, tank_lr, move>>

Init ==
  /\ source = "none"
  /\ x = 0 /\ y = 0
  /\ forward_back = 0 /\ left_right = 0 /\ tank_lr = 0
  /\ move = Stop

Compute(fb, lr, tank) ==
  /\ forward_back' = fb
  /\ left_right' = lr
  /\ tank_lr' = tank
  /\ move' = pwm_from_xy(fb, lr, tank)

ImuForward(n) == apply_response_curve(n, 4000, 6000, 1000)
ImuTurn(n) == apply_response_curve(n, 3000, 9000, 140)
ImuTank(n) == apply_response_curve(n, 2000, 6000, 600)

get_motor_values_imu(ax, ay) ==
  /\ source' = "imu"
  /\ x' = ax /\ y' = ay
  /\ Compute(ImuForward(ay), ImuTurn(ax), ImuTank(ax))

X_LEFT == 3800
X_RIGHT == 250
Y_UP == 60
Y_DOWN == 3800

(* Seeded fault: scaled by the end and not by the travel.                  *)
ConditionedXOff(data) == Quot((data - X_RIGHT) * 2000, X_LEFT) - 1000

ConditionedX(data) == Quot((data - X_RIGHT) * 2000, X_LEFT - X_RIGHT) - 1000
ConditionedY(data) == Quot((data - Y_UP) * 2000, Y_DOWN - Y_UP) - 1000

(* Both axes of the joystick are mounted the wrong way round.              *)
StickForward(data) == -apply_response_curve(ConditionedY(data), 100, 400, 1000)
StickTurn(data) == -apply_response_curve(ConditionedX(data), 100, 900, 1000)

get_motor_values_joystick(x_data, y_data) ==
  /\ source' = "joystick"
  /\ x' = x_data /\ y' = y_data
  /\ Compute(StickForward(y_data), StickTurn(x_data), StickTurn(x_data))

Next ==
  \/ \E ax \in AccelX, ay \in AccelY : get_motor_values_imu(ax, ay)
  \/ \E sx \in StickX, sy \in StickY : get_motor_values_joystick(sx, sy)

Spec == Init /\ [][Next]_vars

-----------------------------------------------------------------------------
Commands ==
  [leftDuty : 0 .. MotorRange, leftDir : {FORWARD, BACKWARD},
   rightDuty : 0 .. MotorRange, rightDir : {FORWARD, BACKWARD}]

(* Type invariant: no duty is negative or beyond the period of the PWM.    *)
TypeOK ==
  /\ source \in {"none", "imu", "joystick"}
  /\ x \in Int16 /\ y \in Int16
  /\ forward_back \in Speeds
  /\ left_right \in Speeds
  /\ tank_lr \in Speeds
  /\ move \in Commands

Speed(duty, dir) == IF dir = BACKWARD THEN duty - MotorRange ELSE duty
LeftSpeed(m) == Speed(m.leftDuty, m.leftDir)
RightSpeed(m) == Speed(m.rightDuty, m.rightDir)

(* The speeds that the motors are to have, signed: both wheels as far as   *)
(* forward_back says, the inner one reduced by left_right per mille, and   *)
(* tank_lr against each other when forward_back is zero.                   *)
WantedSpeeds(fb, lr, tank) ==
  IF fb = 0 THEN <<tank, -tank>>
  ELSE <<Reduced(fb, IF lr < 0 THEN -lr ELSE 0),
         Reduced(fb, IF lr > 0 THEN lr ELSE 0)>>

(* Duty and direction, after reverse_duty and its complement for a motor   *)
(* in reverse, give the wanted signed speeds in every branch of            *)
(* pwm_from_xy.                                                            *)
SpeedsAsWanted ==
  <<LeftSpeed(move), RightSpeed(move)>> =
    WantedSpeeds(forward_back, left_right, tank_lr)

(* The curve is a straight line from 0 at the dead zone's end to full      *)
(* output at the saturation, in spite of two truncating divisions: it is   *)
(* off by less than one step, so that it has no jump at either end.        *)
OnLine(input, zero, sat, out, value) ==
  LET beyond == IF Abs(input) < zero THEN 0
                ELSE IF Abs(input) > sat THEN sat - zero
                ELSE Abs(input) - zero
  IN /\ Abs(Abs(value) * (sat - zero) - beyond * out) < sat - zero
     /\ value # 0 => (value > 0 <=> input > 0)

CurvesAreLines ==
  /\ source = "imu" =>
       /\ OnLine(y, 4000, 6000, 1000, forward_back)
       /\ OnLine(x, 3000, 9000, 140, left_right)
       /\ OnLine(x, 2000, 6000, 600, tank_lr)
  /\ source = "joystick" =>
       /\ OnLine(ConditionedY(y), 100, 400, 1000, -forward_back)
       /\ OnLine(ConditionedX(x), 100, 900, 1000, -left_right)

(* The ends of the stick's travel give full speed ahead and full speed     *)
(* back, and beyond them nothing wraps around.                             *)
StickEnds ==
  source = "joystick" =>
    /\ y <= Y_UP => forward_back = MotorRange
    /\ y >= Y_DOWN => forward_back = -MotorRange
    /\ x <= X_RIGHT => left_right = MotorRange
    /\ x >= X_LEFT => left_right = -MotorRange

(* From one command to the next: tilting the hat further forward with the  *)
(* same tilt to the side makes no wheel slower, from full reverse to full  *)
(* speed ahead (turning on the spot is another mode and left out), and     *)
(* tilting to the left is the mirror image of tilting to the right.        *)
FurtherIsFaster ==
  x' = x /\ y' >= y /\ forward_back # 0 /\ forward_back' # 0
  => LeftSpeed(move') >= LeftSpeed(move) /\ RightSpeed(move') >= RightSpeed(move)

Mirrored ==
  x' = -x /\ y' = y
  => LeftSpeed(move') = RightSpeed(move) /\ RightSpeed(move') = LeftSpeed(move)

SteersAsTilted ==
  [][source = "imu" /\ source' = "imu" => FurtherIsFaster /\ Mirrored]_vars
=============================================================================
