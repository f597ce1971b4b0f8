--------------------------- MODULE ControlProofs ---------------------------
(***************************************************************************)
(* Proofs about Control: for every sample of the sensors the commands stay *)
(* within range and have the speeds wanted.  The two truncating divisions  *)
(* of the curve keep within full output because the divisor is large       *)
(* enough for the far end of the linear part (Steep), and they keep the    *)
(* curve within one step of a straight line (Straight).                    *)
(*                                                                         *)
(* At the end, about the keys that the same file makes (gen_key).          *)
(***************************************************************************)
EXTENDS Control, GenKey, TLAPS

(* An upper bound of a quotient.                                           *)
LEMMA DivisionBound ==
  ASSUME NEW a, a \in Nat, NEW d, d \in Nat, d > 0, NEW q, q \in Nat,
         a < (q + 1) * d
  PROVE  a \div d \in 0 .. q
<1> DEFINE e == a \div d
<1>1. e \in Int /\ e >= 0 /\ e * d <= a
  OBVIOUS
<1> HIDE DEF e
<1>2. ~(e >= q + 1)
  BY <1>1
<1> QED
  BY <1>1, <1>2 DEF e

(* d is the divisor of a curve, and large enough for the far end of it.    *)
Steep(zero, sat, out, d) ==
  /\ zero \in Nat /\ sat \in Nat /\ out \in Nat /\ d \in Nat /\ d > 0
  /\ d = Quot((sat - zero) * 1000, out)
  /\ (sat - zero) * 1000 < (out + 1) * d

(* The linear part of a curve stays within full output.                    *)
LEMMA LinearRange ==
  ASSUME NEW zero, NEW sat, NEW out, NEW d, Steep(zero, sat, out, d),
         NEW k, k \in 0 .. sat - zero
  PROVE  Linear(k, zero, sat, out) \in 0 .. out
<1> DEFINE p == k * 1000
<1>1. Linear(k, zero, sat, out) = Quot(p, d)
  BY DEF Linear, Steep
<1>2. p \in Nat /\ p <= (sat - zero) * 1000
  BY DEF Steep
<1> HIDE DEF p
<1>3. (sat - zero) * 1000 \in Int /\ (out + 1) * d \in Int
  BY DEF Steep
<1>4. p < (out + 1) * d
  BY <1>2, <1>3 DEF Steep
<1>5. p \div d \in 0 .. out
  BY <1>2, <1>4, DivisionBound DEF Steep
<1>6. Quot(p, d) = p \div d
  BY <1>2 DEF Quot
<1> QED
  BY <1>1, <1>5, <1>6

(* So does the whole curve.                                                *)
LEMMA CurveRange ==
  ASSUME NEW zero, NEW sat, NEW out, NEW d, Steep(zero, sat, out, d),
         NEW n, n \in Int
  PROVE  apply_response_curve(n, zero, sat, out) \in -out .. out
<1> DEFINE linear == Linear(Abs(n) - zero, zero, sat, out)
<1>0. zero \in Nat /\ sat \in Nat /\ out \in Nat
  BY DEF Steep
<1>1. apply_response_curve(n, zero, sat, out) =
        IF Abs(n) < zero THEN 0
        ELSE IF n > sat THEN out
        ELSE IF n < -sat THEN -out
        ELSE IF n > 0 THEN linear ELSE -linear
  BY DEF apply_response_curve
<1>2. Abs(n) \in Nat /\ (n <= sat /\ n >= -sat => Abs(n) <= sat)
  BY <1>0 DEF Abs
<1>3. CASE Abs(n) < zero \/ n > sat \/ n < -sat
  <2> HIDE DEF linear
  <2> QED
    BY <1>0, <1>1, <1>3
<1>4. CASE ~(Abs(n) < zero \/ n > sat \/ n < -sat)
  <2>1. Abs(n) - zero \in 0 .. sat - zero
    BY <1>0, <1>2, <1>4
  <2> DEFINE k == Abs(n) - zero
  <2> HIDE DEF k
  <2>2. k \in 0 .. sat - zero
    BY <2>1 DEF k
  <2>3. Linear(k, zero, sat, out) \in 0 .. out
    BY <2>2, LinearRange
  <2>4. linear \in 0 .. out
    BY <2>3 DEF k
  <2> HIDE DEF linear
  <2> QED
    BY <1>0, <1>1, <1>4, <2>4
<1> QED
  BY <1>3, <1>4

(* The three curves of the accelerometer and the two of the joystick stay  *)
(* within their full output for every integer.                             *)
LEMMA CurveRanges ==
  ASSUME NEW n, n \in Int
  PROVE  /\ apply_response_curve(n, 4000, 6000, 1000) \in -1000 .. 1000
         /\ apply_response_curve(n, 3000, 9000, 140) \in -140 .. 140
         /\ apply_response_curve(n, 2000, 6000, 600) \in -600 .. 600
         /\ apply_response_curve(n, 100, 900, 1000) \in -1000 .. 1000
         /\ apply_response_curve(n, 100, 400, 1000) \in -1000 .. 1000
<1> DEFINE InRange(z, s, o) == apply_response_curve(n, z, s, o) \in -o .. o
<1>1. \A z, s, o, d : Steep(z, s, o, d) => InRange(z, s, o)
  BY CurveRange
<1>2. /\ Steep(4000, 6000, 1000, 2000)
      /\ Steep(3000, 9000, 140, 42857)
      /\ Steep(2000, 6000, 600, 6666)
      /\ Steep(100, 900, 1000, 800)
      /\ Steep(100, 400, 1000, 300)
  BY SMT DEF Steep, Quot
<1> HIDE DEF InRange
<1>3. /\ InRange(4000, 6000, 1000) /\ InRange(3000, 9000, 140)
      /\ InRange(2000, 6000, 600) /\ InRange(100, 900, 1000)
      /\ InRange(100, 400, 1000)
  BY <1>1, <1>2, SMT
<1> QED
  BY <1>3, SMT DEF InRange

(* So the accelerometer's curves give speeds, for every sample.            *)
LEMMA ImuRanges ==
  ASSUME NEW n \in Int16
  PROVE  ImuForward(n) \in Speeds /\ ImuTurn(n) \in Speeds /\ ImuTank(n) \in Speeds
<1>1. n \in Int
  BY SMTT(30) DEF Int16
<1>2. /\ apply_response_curve(n, 4000, 6000, 1000) \in -1000 .. 1000
      /\ apply_response_curve(n, 3000, 9000, 140) \in -140 .. 140
      /\ apply_response_curve(n, 2000, 6000, 600) \in -600 .. 600
  BY <1>1, CurveRanges
<1> QED
  BY <1>2 DEF ImuForward, ImuTurn, ImuTank, Speeds, MotorRange

(* So do the joystick's, with the scaling before them.                     *)
LEMMA StickRanges ==
  ASSUME NEW n \in Adc12
  PROVE  StickForward(n) \in Speeds /\ StickTurn(n) \in Speeds
<1>1. n \in 0 .. 4095
  BY DEF Adc12
<1>2. ConditionedX(n) \in Int /\ ConditionedY(n) \in Int
  BY <1>1 DEF ConditionedX, ConditionedY, Quot, X_LEFT, X_RIGHT, Y_UP, Y_DOWN
<1>3. ASSUME NEW v, v \in Int
      PROVE  /\ -apply_response_curve(v, 100, 900, 1000) \in Speeds
             /\ -apply_response_curve(v, 100, 400, 1000) \in Speeds
  <2>1. /\ apply_response_curve(v, 100, 900, 1000) \in -1000 .. 1000
        /\ apply_response_curve(v, 100, 400, 1000) \in -1000 .. 1000
    BY <1>3, CurveRanges
  <2> DEFINE a == apply_response_curve(v, 100, 900, 1000)
             b == apply_response_curve(v, 100, 400, 1000)
  <2> HIDE DEF a, b
  <2>2. a \in -1000 .. 1000 /\ b \in -1000 .. 1000 => -a \in Speeds /\ -b \in Speeds
    BY DEF Speeds, MotorRange
  <2> QED
    BY <2>1, <2>2 DEF a, b, MotorRange
<1> QED
  BY <1>2, <1>3 DEF StickForward, StickTurn

(* The joystick's samples are in the range that the type invariant names.  *)
LEMMA StickIsInt16 ==
  ASSUME NEW n \in Adc12
  PROVE  n \in Int16
BY SMT DEF Int16, Adc12

(* The magnitudes of speeds, and of reductions in per mille.               *)
Magnitudes == 0 .. MotorRange

(* Every signed speed has such a magnitude.                                *)
LEMMA MagnitudeOfSpeed ==
  ASSUME NEW n \in Speeds
  PROVE  Abs(n) \in Magnitudes
BY DEF Abs, Speeds, Magnitudes, MotorRange

(* The inner wheel's duty is within the outer one's.                       *)
LEMMA InnerRange ==
  ASSUME NEW f \in Magnitudes, NEW l \in Magnitudes
  PROVE  Reduced(f, l) \in 0 .. f
<1>1. f \in 0 .. 1000 /\ l \in 0 .. 1000
  BY DEF Magnitudes, MotorRange
<1>2. f * (1000 - l) \in Int /\ 0 <= f * (1000 - l) /\ f * (1000 - l) <= f * 1000
  BY <1>1
<1> QED
  BY <1>1, <1>2 DEF Reduced, Quot

(* What reverse_duty makes of a command.                                   *)
LEMMA ReverseDuty ==
  ASSUME NEW m \in Commands
  PROVE  reverse_duty(m) =
           Command(IF m.leftDir = BACKWARD THEN 1000 - m.leftDuty ELSE m.leftDuty,
                   m.leftDir,
                   IF m.rightDir = BACKWARD THEN 1000 - m.rightDuty ELSE m.rightDuty,
                   m.rightDir)
<1> DEFINE l == IF m.leftDir = BACKWARD THEN 1000 - m.leftDuty ELSE m.leftDuty
           r == IF m.rightDir = BACKWARD THEN 1000 - m.rightDuty ELSE m.rightDuty
<1>1. m = Command(m.leftDuty, m.leftDir, m.rightDuty, m.rightDir)
  BY DEF Commands, Command
<1>2. reverse_duty(m) = [[m EXCEPT !.leftDuty = l] EXCEPT !.rightDuty = r]
  BY <1>1 DEF reverse_duty, Command
<1> HIDE DEF l, r
<1>3. reverse_duty(m) = Command(l, m.leftDir, r, m.rightDir)
  BY <1>1, <1>2 DEF Command
<1> QED
  BY <1>3 DEF l, r

(* reverse_duty keeps a command within range.                              *)
LEMMA ReverseRange ==
  ASSUME NEW m \in Commands
  PROVE  reverse_duty(m) \in Commands
<1> DEFINE l == IF m.leftDir = BACKWARD THEN 1000 - m.leftDuty ELSE m.leftDuty
           r == IF m.rightDir = BACKWARD THEN 1000 - m.rightDuty ELSE m.rightDuty
<1>1. l \in 0 .. MotorRange /\ r \in 0 .. MotorRange
  BY DEF Commands, MotorRange
<1>2. reverse_duty(m) = Command(l, m.leftDir, r, m.rightDir)
  BY ReverseDuty
<1>3. m.leftDir \in {FORWARD, BACKWARD} /\ m.rightDir \in {FORWARD, BACKWARD}
  BY DEF Commands
<1> HIDE DEF l, r
<1> QED
  BY <1>1, <1>2, <1>3 DEF Commands, Command

(* A turn on the spot is within range before reverse_duty.                 *)
LEMMA TankRange ==
  ASSUME NEW tank \in Speeds
  PROVE  TankTurn(tank) \in Commands
<1> USE DEF Speeds
<1>1. CASE tank > 0
  BY <1>1 DEF TankTurn, Command, Commands, MotorRange, FORWARD, BACKWARD
<1>2. CASE tank < 0
  BY <1>2 DEF TankTurn, Command, Commands, MotorRange, FORWARD, BACKWARD
<1>3. CASE tank = 0
  BY <1>3 DEF TankTurn, Stop, Command, Commands, MotorRange, FORWARD, BACKWARD
<1> QED
  BY <1>1, <1>2, <1>3 DEF MotorRange

(* So is a turn under way.                                                 *)
LEMMA SteerRange ==
  ASSUME NEW fb \in Speeds, NEW lr \in Speeds
  PROVE  Steer(fb, lr) \in Commands
<1>1. PICK f \in Magnitudes, l \in Magnitudes : f = Abs(fb) /\ l = Abs(lr)
  BY MagnitudeOfSpeed, Zenon
<1> DEFINE inner == Reduced(f, l)
           dir == IF fb > 0 THEN FORWARD ELSE BACKWARD
<1>2. inner \in 0 .. f
  BY InnerRange, Zenon
<1>3. Steer(fb, lr) = Command(IF lr < 0 THEN inner ELSE f, dir,
                              IF lr > 0 THEN inner ELSE f, dir)
  BY <1>1 DEF Steer
<1> HIDE DEF inner
<1>4. inner \in 0 .. MotorRange /\ f \in 0 .. MotorRange
  BY <1>2 DEF Magnitudes, MotorRange
<1> QED
  BY <1>3, <1>4 DEF Command, Commands

(* The command for curve outputs within range is within range itself.      *)
LEMMA CommandRange ==
  ASSUME NEW fb \in Speeds, NEW lr \in Speeds, NEW tank \in Speeds
  PROVE  pwm_from_xy(fb, lr, tank) \in Commands
BY TankRange, SteerRange, ReverseRange DEF pwm_from_xy

(* Every step of either control task computes its command from curve       *)
(* outputs within range.                                                   *)
LEMMA StepComputes ==
  ASSUME Next
  PROVE  /\ source' \in {"imu", "joystick"}
         /\ x' \in Int16 /\ y' \in Int16
         /\ forward_back' \in Speeds /\ left_right' \in Speeds /\ tank_lr' \in Speeds
         /\ move' = pwm_from_xy(forward_back', left_right', tank_lr')
<1>1. ASSUME NEW ax \in AccelX, NEW ay \in AccelY, get_motor_values_imu(ax, ay)
      PROVE  /\ source' = "imu" /\ x' \in Int16 /\ y' \in Int16
             /\ forward_back' \in Speeds /\ left_right' \in Speeds
             /\ tank_lr' \in Speeds
             /\ move' = pwm_from_xy(forward_back', left_right', tank_lr')
  <2>1. ax \in Int16 /\ ay \in Int16
    BY ControlAssumption
  <2>2. ImuForward(ay) \in Speeds /\ ImuTurn(ax) \in Speeds /\ ImuTank(ax) \in Speeds
    BY <2>1, ImuRanges
  <2> QED
    BY <1>1, <2>1, <2>2 DEF get_motor_values_imu, Compute
<1>2. ASSUME NEW sx \in StickX, NEW sy \in StickY, get_motor_values_joystick(sx, sy)
      PROVE  /\ source' = "joystick" /\ x' \in Int16 /\ y' \in Int16
             /\ forward_back' \in Speeds /\ left_right' \in Speeds
             /\ tank_lr' \in Speeds
             /\ move' = pwm_from_xy(forward_back', left_right', tank_lr')
  <2>1. sx \in Adc12 /\ sy \in Adc12
    BY ControlAssumption
  <2>2. sx \in Int16 /\ sy \in Int16
    BY <2>1, StickIsInt16
  <2>3. StickForward(sy) \in Speeds /\ StickTurn(sx) \in Speeds
    BY <2>1, StickRanges
  <2> QED
    BY <1>2, <2>2, <2>3 DEF get_motor_values_joystick, Compute
<1> QED
  BY <1>1, <1>2 DEF Next

(* No sample of either sensor gives a duty that is negative or beyond the  *)
(* period of the PWM.                                                      *)
THEOREM ControlTypeCorrect == Spec => []TypeOK
<1>1. Init => TypeOK
  <2>1. 0 \in Int16 /\ 0 \in Speeds
    BY DEF Int16, Speeds, MotorRange
  <2>2. Stop \in Commands
    BY DEF Stop, Command, Commands, MotorRange, FORWARD, BACKWARD
  <2> QED
    BY <2>1, <2>2 DEF Init, TypeOK
<1>2. TypeOK /\ [Next]_vars => TypeOK'
  <2>1. ASSUME Next PROVE TypeOK'
    <3>1. move' \in Commands
      BY <2>1, StepComputes, CommandRange
    <3> QED
      BY <2>1, <3>1, StepComputes DEF TypeOK
  <2>2. TypeOK /\ UNCHANGED vars => TypeOK'
    BY DEF vars, TypeOK
  <2> QED
    BY <2>1, <2>2
<1> QED
  BY <1>1, <1>2, PTL DEF Spec

(* The speed of a motor survives reverse_duty.                             *)
LEMMA ReverseSpeeds ==
  ASSUME NEW m \in Commands
  PROVE  /\ LeftSpeed(reverse_duty(m)) =
              IF m.leftDir = BACKWARD THEN -m.leftDuty ELSE m.leftDuty
         /\ RightSpeed(reverse_duty(m)) =
              IF m.rightDir = BACKWARD THEN -m.rightDuty ELSE m.rightDuty
BY DEF reverse_duty, LeftSpeed, RightSpeed, Speed, Commands, MotorRange, BACKWARD

(* Reducing a signed speed reduces its magnitude.                          *)
LEMMA SignedReduction ==
  ASSUME NEW f \in Magnitudes, NEW l \in Magnitudes
  PROVE  Reduced(-f, l) = -Reduced(f, l)
<1> DEFINE p == f * (1000 - l)
<1>1. p \in Int /\ p >= 0 /\ (-f) * (1000 - l) = -p
  BY DEF Magnitudes, MotorRange
<1> HIDE DEF p
<1>2. Quot(-p, 1000) = -Quot(p, 1000)
  BY <1>1 DEF Quot
<1> QED
  BY <1>1, <1>2 DEF p, Reduced

(* The signed speeds of the command, for curve outputs within range.       *)
LEMMA CommandSpeeds ==
  ASSUME NEW fb \in Speeds, NEW lr \in Speeds, NEW tank \in Speeds
  PROVE  <<LeftSpeed(pwm_from_xy(fb, lr, tank)), RightSpeed(pwm_from_xy(fb, lr, tank))>>
           = WantedSpeeds(fb, lr, tank)
<1>1. CASE fb = 0
  <2>1. pwm_from_xy(fb, lr, tank) = reverse_duty(TankTurn(tank))
    BY <1>1 DEF pwm_from_xy
  <2>2. TankTurn(tank) \in Commands
    BY TankRange
  <2>3. /\ tank = IF TankTurn(tank).leftDir = BACKWARD THEN -TankTurn(tank).leftDuty
                  ELSE TankTurn(tank).leftDuty
        /\ -tank = IF TankTurn(tank).rightDir = BACKWARD THEN -TankTurn(tank).rightDuty
                   ELSE TankTurn(tank).rightDuty
    <3>1. tank \in Int
      BY DEF Speeds, MotorRange
    <3>2. CASE tank > 0
      <4>1. TankTurn(tank) = Command(tank, FORWARD, tank, BACKWARD)
        BY <3>1, <3>2 DEF TankTurn
      <4> QED
        BY <3>1, <4>1 DEF Command, FORWARD, BACKWARD
    <3>3. CASE tank < 0
      <4>1. TankTurn(tank) = Command(-tank, BACKWARD, -tank, FORWARD)
        BY <3>1, <3>3 DEF TankTurn
      <4> QED
        BY <3>1, <4>1 DEF Command, FORWARD, BACKWARD
    <3>4. CASE tank = 0
      <4>1. TankTurn(tank) = Stop
        BY <3>4 DEF TankTurn
      <4> QED
        BY <3>4, <4>1 DEF Stop, Command, FORWARD, BACKWARD
    <3> QED
      BY <3>1, <3>2, <3>3, <3>4
  <2> QED
    BY <1>1, <2>1, <2>2, <2>3, ReverseSpeeds DEF WantedSpeeds
<1>2. CASE fb # 0
  <2>1. PICK f \in Magnitudes, l \in Magnitudes : f = Abs(fb) /\ l = Abs(lr)
    BY MagnitudeOfSpeed, Zenon
  <2> DEFINE inner == Reduced(f, l)
             left == IF lr < 0 THEN inner ELSE f
             right == IF lr > 0 THEN inner ELSE f
  <2>2. pwm_from_xy(fb, lr, tank) = reverse_duty(Steer(fb, lr))
    BY <1>2 DEF pwm_from_xy
  <2>3. Steer(fb, lr) \in Commands
    BY SteerRange
  <2>4. /\ Steer(fb, lr).leftDuty = left /\ Steer(fb, lr).rightDuty = right
        /\ Steer(fb, lr).leftDir = BACKWARD <=> ~(fb > 0)
        /\ Steer(fb, lr).rightDir = BACKWARD <=> ~(fb > 0)
    BY <2>1 DEF Steer, Command, FORWARD, BACKWARD
  <2>5. Reduced(fb, l) = IF fb > 0 THEN inner ELSE -inner
    <3>1. CASE fb > 0
      <4>1. fb = f
        BY <2>1, <3>1 DEF Abs, Speeds
      <4> QED
        BY <3>1, <4>1
    <3>2. CASE ~(fb > 0)
      <4>1. fb = -f
        BY <1>2, <2>1, <3>2 DEF Abs, Speeds, MotorRange
      <4> QED
        BY <3>2, <4>1, SignedReduction, Zenon
    <3> QED
      BY <3>1, <3>2
  <2>6. Reduced(fb, 0) = fb /\ fb = IF fb > 0 THEN f ELSE -f
    BY <1>2, <2>1 DEF Reduced, Quot, Abs, Speeds, MotorRange
  <2>7. WantedSpeeds(fb, lr, tank) =
          <<Reduced(fb, IF lr < 0 THEN -lr ELSE 0),
            Reduced(fb, IF lr > 0 THEN lr ELSE 0)>>
    BY <1>2 DEF WantedSpeeds
  <2>8. l = IF lr < 0 THEN -lr ELSE lr
    BY <2>1 DEF Abs
  <2> HIDE DEF inner
  <2>9. WantedSpeeds(fb, lr, tank) = <<IF fb > 0 THEN left ELSE -left,
                                       IF fb > 0 THEN right ELSE -right>>
    <3>1. CASE lr < 0
      BY <2>5, <2>6, <2>7, <2>8, <3>1 DEF Speeds, MotorRange
    <3>2. CASE lr > 0
      BY <2>5, <2>6, <2>7, <2>8, <3>2 DEF Speeds, MotorRange
    <3>3. CASE lr = 0
      BY <2>6, <2>7, <3>3
    <3> QED
      BY <3>1, <3>2, <3>3 DEF Speeds, MotorRange
  <2> HIDE DEF left, right
  <2> QED
    BY <2>2, <2>3, <2>4, <2>9, ReverseSpeeds
<1> QED
  BY <1>1, <1>2

(* Duty and direction of every command give the speeds wanted, for every   *)
(* sample: the racer's motors undo reverse_duty.                           *)
THEOREM CommandedSpeeds == Spec => []SpeedsAsWanted
<1>1. Init => SpeedsAsWanted
  <2>1. Stop = pwm_from_xy(0, 0, 0)
    <3>1. TankTurn(0) = Stop
      BY DEF TankTurn
    <3>2. reverse_duty(Stop) = Stop
      <4>1. ~(Stop.leftDir = BACKWARD) /\ ~(Stop.rightDir = BACKWARD)
        BY DEF Stop, Command, FORWARD, BACKWARD
      <4>2. Stop \in Commands
        BY DEF Stop, Command, Commands, MotorRange, FORWARD, BACKWARD
      <4>3. Stop.leftDuty = 0 /\ Stop.rightDuty = 0
            /\ Stop.leftDir = FORWARD /\ Stop.rightDir = FORWARD
        BY DEF Stop, Command
      <4>4. reverse_duty(Stop) = Command(Stop.leftDuty, Stop.leftDir,
                                         Stop.rightDuty, Stop.rightDir)
        BY <4>1, <4>2, ReverseDuty
      <4> QED
        BY <4>3, <4>4 DEF Stop
    <3>3. pwm_from_xy(0, 0, 0) = reverse_duty(TankTurn(0))
      BY DEF pwm_from_xy
    <3> QED
      BY <3>1, <3>2, <3>3
  <2>2. 0 \in Speeds
    BY DEF Speeds, MotorRange
  <2>3. <<LeftSpeed(pwm_from_xy(0, 0, 0)), RightSpeed(pwm_from_xy(0, 0, 0))>>
          = WantedSpeeds(0, 0, 0)
    BY <2>2, CommandSpeeds, Zenon
  <2> QED
    BY <2>1, <2>3, Zenon DEF Init, SpeedsAsWanted
<1>2. SpeedsAsWanted /\ [Next]_vars => SpeedsAsWanted'
  <2>1. ASSUME Next PROVE SpeedsAsWanted'
    BY <2>1, StepComputes, CommandSpeeds DEF SpeedsAsWanted
  <2>2. SpeedsAsWanted /\ UNCHANGED vars => SpeedsAsWanted'
    BY DEF vars, SpeedsAsWanted
  <2> QED
    BY <2>1, <2>2
<1> QED
  BY <1>1, <1>2, PTL DEF Spec

-----------------------------------------------------------------------------
(* The linear part of a curve is off the straight line by less than one. *)
LinearErrs(zero, sat, out, span, k) ==
  /\ Linear(k, zero, sat, out) \in Nat
  /\ Abs(Linear(k, zero, sat, out) * span - k * out) < span

Straight(zero, sat, out, span) ==
  /\ span = sat - zero
  /\ \A k \in Nat : k <= span => LinearErrs(zero, sat, out, span, k)

(* The linear parts of the five curves, with the divisor of each.          *)
LEMMA CurvesAreStraight ==
  /\ Straight(4000, 6000, 1000, 2000) /\ Straight(3000, 9000, 140, 6000)
  /\ Straight(2000, 6000, 600, 4000) /\ Straight(100, 900, 1000, 800)
  /\ Straight(100, 400, 1000, 300)
<1>1. Straight(4000, 6000, 1000, 2000)
  <2>1. ASSUME NEW k \in Nat, k <= 2000 PROVE LinearErrs(4000, 6000, 1000, 2000, k)
    <3> DEFINE q == (k * 1000) \div 2000
    <3>1. Linear(k, 4000, 6000, 1000) = q
      BY DEF Linear, Quot
    <3>2. q \in Nat /\ q * 2000 <= k * 1000 /\ k * 1000 < q * 2000 + 2000
      OBVIOUS
    <3> HIDE DEF q
    <3> QED BY <2>1, <3>1, <3>2 DEF LinearErrs, Abs
  <2> QED BY <2>1 DEF Straight
<1>2. Straight(3000, 9000, 140, 6000)
  <2>1. ASSUME NEW k \in Nat, k <= 6000 PROVE LinearErrs(3000, 9000, 140, 6000, k)
    <3> DEFINE q == (k * 1000) \div 42857
    <3>1. Linear(k, 3000, 9000, 140) = q
      BY DEF Linear, Quot
    <3>2. q \in Nat /\ q * 42857 <= k * 1000 /\ k * 1000 < q * 42857 + 42857
      OBVIOUS
    <3> HIDE DEF q
    <3> QED BY <2>1, <3>1, <3>2 DEF LinearErrs, Abs
  <2> QED BY <2>1 DEF Straight
<1>3. Straight(2000, 6000, 600, 4000)
  <2>1. ASSUME NEW k \in Nat, k <= 4000 PROVE LinearErrs(2000, 6000, 600, 4000, k)
    <3> DEFINE q == (k * 1000) \div 6666
    <3>1. Linear(k, 2000, 6000, 600) = q
      BY DEF Linear, Quot
    <3>2. q \in Nat /\ q * 6666 <= k * 1000 /\ k * 1000 < q * 6666 + 6666
      OBVIOUS
    <3> HIDE DEF q
    <3> QED BY <2>1, <3>1, <3>2 DEF LinearErrs, Abs
  <2> QED BY <2>1 DEF Straight
<1>4. Straight(100, 900, 1000, 800)
  <2>1. ASSUME NEW k \in Nat, k <= 800 PROVE LinearErrs(100, 900, 1000, 800, k)
    <3> DEFINE q == (k * 1000) \div 800
    <3>1. Linear(k, 100, 900, 1000) = q
      BY DEF Linear, Quot
    <3>2. q \in Nat /\ q * 800 <= k * 1000 /\ k * 1000 < q * 800 + 800
      OBVIOUS
    <3> HIDE DEF q
    <3> QED BY <2>1, <3>1, <3>2 DEF LinearErrs, Abs
  <2> QED BY <2>1 DEF Straight
<1>5. Straight(100, 400, 1000, 300)
  <2>1. ASSUME NEW k \in Nat, k <= 300 PROVE LinearErrs(100, 400, 1000, 300, k)
    <3> DEFINE q == (k * 1000) \div 300
    <3>1. Linear(k, 100, 400, 1000) = q
      BY DEF Linear, Quot
    <3>2. q \in Nat /\ q * 300 <= k * 1000 /\ k * 1000 < q * 300 + 300
      OBVIOUS
    <3> HIDE DEF q
    <3> QED BY <2>1, <3>1, <3>2 DEF LinearErrs, Abs
  <2> QED BY <2>1 DEF Straight
<1> QED BY <1>1, <1>2, <1>3, <1>4, <1>5

(* A curve whose linear part is straight has no jump at its ends.          *)
LEMMA CurveOnLine ==
  ASSUME NEW zero, zero \in Nat \ {0}, NEW sat, sat \in Nat, zero < sat,
         NEW out, out \in Nat, Straight(zero, sat, out, sat - zero), NEW n, n \in Int
  PROVE  OnLine(n, zero, sat, out, apply_response_curve(n, zero, sat, out))
<1> DEFINE linear == Linear(Abs(n) - zero, zero, sat, out)
           span == sat - zero
<1>1. apply_response_curve(n, zero, sat, out) =
        IF Abs(n) < zero THEN 0
        ELSE IF n > sat THEN out
        ELSE IF n < -sat THEN -out
        ELSE IF n > 0 THEN linear ELSE -linear
  BY DEF apply_response_curve
<1>2. /\ Abs(n) \in Nat /\ span \in Nat /\ span > 0
      /\ n >= 0 => Abs(n) = n
      /\ n < 0 => Abs(n) = -n
  BY DEF Abs
<1>3. CASE Abs(n) < zero
  <2>1. Abs(Abs(0) * span - 0 * out) < span
    BY <1>2 DEF Abs
  <2> QED BY <1>1, <1>3, <2>1 DEF OnLine
<1>4. CASE n > sat \/ n < -sat
  <2>1. Abs(n) > sat /\ ~(Abs(n) < zero)
    BY <1>2, <1>4
  <2>2. /\ apply_response_curve(n, zero, sat, out) = IF n > 0 THEN out ELSE -out
        /\ Abs(apply_response_curve(n, zero, sat, out)) = out
    BY <1>1, <1>4, <2>1 DEF Abs
  <2>3. Abs(out * span - span * out) < span
    <3>1. out * span = span * out /\ out * span \in Int
      BY <1>2
    <3> DEFINE p == out * span
    <3>2. p - p = 0
      BY <3>1
    <3> QED BY <1>2, <3>1, <3>2 DEF Abs
  <2>4. /\ apply_response_curve(n, zero, sat, out) # 0
        => (apply_response_curve(n, zero, sat, out) > 0 <=> n > 0)
    BY <1>4, <2>2
  <2> QED BY <2>1, <2>2, <2>3, <2>4 DEF OnLine
<1>5. CASE ~(Abs(n) < zero \/ n > sat \/ n < -sat)
  <2>1. Abs(n) - zero \in Nat /\ Abs(n) - zero <= span /\ ~(Abs(n) > sat) /\ ~(Abs(n) < zero)
    BY <1>2, <1>5
  <2>2. linear \in Nat /\ Abs(linear * span - (Abs(n) - zero) * out) < span
    BY <2>1 DEF Straight, LinearErrs
  <2>3. apply_response_curve(n, zero, sat, out) = IF n > 0 THEN linear ELSE -linear
    BY <1>1, <1>5
  <2> HIDE DEF linear
  <2>4. Abs(apply_response_curve(n, zero, sat, out)) = linear
    BY <2>2, <2>3 DEF Abs
  <2>5. apply_response_curve(n, zero, sat, out) # 0
        => (apply_response_curve(n, zero, sat, out) > 0 <=> n > 0)
    BY <2>2, <2>3
  <2> QED BY <2>1, <2>2, <2>4, <2>5 DEF OnLine
<1> QED BY <1>3, <1>4, <1>5

(* Every command computed from a sample has it on the line of each curve.  *)
LEMMA StepOnLines == ASSUME Next PROVE CurvesAreLines'
<1>1. \A n \in Int :
        /\ OnLine(n, 4000, 6000, 1000, apply_response_curve(n, 4000, 6000, 1000))
        /\ OnLine(n, 3000, 9000, 140, apply_response_curve(n, 3000, 9000, 140))
        /\ OnLine(n, 2000, 6000, 600, apply_response_curve(n, 2000, 6000, 600))
        /\ OnLine(n, 100, 400, 1000, apply_response_curve(n, 100, 400, 1000))
        /\ OnLine(n, 100, 900, 1000, apply_response_curve(n, 100, 900, 1000))
  <2> DEFINE Line(z, s, o) ==
        \A n \in Int : OnLine(n, z, s, o, apply_response_curve(n, z, s, o))
  <2>1. \A z \in Nat \ {0}, s, o \in Nat : z < s /\ Straight(z, s, o, s - z) => Line(z, s, o)
    BY CurveOnLine
  <2> HIDE DEF Line
  <2>2. /\ Line(4000, 6000, 1000) /\ Line(3000, 9000, 140) /\ Line(2000, 6000, 600)
        /\ Line(100, 400, 1000) /\ Line(100, 900, 1000)
    <3>1. /\ 6000 - 4000 = 2000 /\ 9000 - 3000 = 6000 /\ 6000 - 2000 = 4000
          /\ 900 - 100 = 800 /\ 400 - 100 = 300
      BY SMT
    <3> QED BY <2>1, <3>1, CurvesAreStraight, SMT
  <2> QED BY <2>2 DEF Line
<1>2. ASSUME NEW ax \in AccelX, NEW ay \in AccelY, get_motor_values_imu(ax, ay)
      PROVE  CurvesAreLines'
  <2>1. ax \in Int /\ ay \in Int
    <3>1. \A n \in Int16 : n \in Int
      BY SMTT(30) DEF Int16
    <3> QED BY <3>1, ControlAssumption
  <2>2. /\ source' = "imu" /\ x' = ax /\ y' = ay
        /\ forward_back' = apply_response_curve(ay, 4000, 6000, 1000)
        /\ left_right' = apply_response_curve(ax, 3000, 9000, 140)
        /\ tank_lr' = apply_response_curve(ax, 2000, 6000, 600)
    BY <1>2 DEF get_motor_values_imu, Compute, ImuForward, ImuTurn, ImuTank
  <2>3. /\ OnLine(y, 4000, 6000, 1000, forward_back)'
        /\ OnLine(x, 3000, 9000, 140, left_right)'
        /\ OnLine(x, 2000, 6000, 600, tank_lr)'
    BY <1>1, <2>1, <2>2 DEF OnLine
  <2> QED BY <2>2, <2>3 DEF CurvesAreLines
<1>3. ASSUME NEW sx \in StickX, NEW sy \in StickY, get_motor_values_joystick(sx, sy)
      PROVE  CurvesAreLines'
  <2>1. sx \in 0 .. 4095 /\ sy \in 0 .. 4095
    BY ControlAssumption DEF Adc12
  <2>2. ConditionedX(sx) \in Int /\ ConditionedY(sy) \in Int
    BY <2>1 DEF ConditionedX, ConditionedY, Quot, X_LEFT, X_RIGHT, Y_UP, Y_DOWN
  <2> DEFINE fb == apply_response_curve(ConditionedY(sy), 100, 400, 1000)
             lr == apply_response_curve(ConditionedX(sx), 100, 900, 1000)
  <2>3. fb \in Int /\ lr \in Int
    <3>1. fb \in -1000 .. 1000 /\ lr \in -1000 .. 1000
      BY <2>2, CurveRanges
    <3> HIDE DEF fb, lr
    <3> QED BY <3>1
  <2>4. /\ source' = "joystick" /\ x' = sx /\ y' = sy
        /\ forward_back' = -fb /\ left_right' = -lr
    BY <1>3 DEF get_motor_values_joystick, Compute, StickForward, StickTurn
  <2>5. /\ OnLine(ConditionedY(sy), 100, 400, 1000, fb)
        /\ OnLine(ConditionedX(sx), 100, 900, 1000, lr)
    BY <1>1, <2>2
  <2> HIDE DEF fb, lr
  <2>6. -(-fb) = fb /\ -(-lr) = lr
    BY <2>3
  <2>7. /\ OnLine(ConditionedY(y), 100, 400, 1000, -forward_back)'
        /\ OnLine(ConditionedX(x), 100, 900, 1000, -left_right)'
    BY <2>4, <2>5, <2>6 DEF OnLine, ConditionedX, ConditionedY
  <2> QED BY <2>4, <2>7 DEF CurvesAreLines
<1> QED BY <1>2, <1>3 DEF Next

(* Every curve is a straight line between dead zone and saturation, for    *)
(* every sample.                                                           *)
THEOREM LinesForAllSamples == Spec => []CurvesAreLines
<1>1. Init => CurvesAreLines
  BY DEF Init, CurvesAreLines
<1>2. CurvesAreLines /\ [Next]_vars => CurvesAreLines'
  <2>1. UNCHANGED vars => CurvesAreLines' = CurvesAreLines
    BY DEF vars, CurvesAreLines, OnLine, ConditionedX, ConditionedY
  <2> QED BY <2>1, StepOnLines
<1> QED BY <1>1, <1>2, PTL DEF Spec

(* The ends of the stick's travel give full speed, for every sample.       *)
THEOREM FullSpeedAtTheEnds == Spec => []StickEnds
<1>1. Init => StickEnds
  BY DEF Init, StickEnds
<1>2. ASSUME NEW sx \in StickX, NEW sy \in StickY, get_motor_values_joystick(sx, sy)
      PROVE  StickEnds'
  <2>1. sx \in 0 .. 4095 /\ sy \in 0 .. 4095
    BY ControlAssumption DEF Adc12
  <2>2. /\ ConditionedY(sy) \in Int /\ ConditionedX(sx) \in Int
        /\ sy <= 60 => ConditionedY(sy) < -400
        /\ sy >= 3800 => ConditionedY(sy) > 400
        /\ sx <= 250 => ConditionedX(sx) < -900
        /\ sx >= 3800 => ConditionedX(sx) > 900
    BY <2>1 DEF ConditionedX, ConditionedY, Quot, X_LEFT, X_RIGHT, Y_UP, Y_DOWN
  <2>3. ASSUME NEW v \in Int, NEW sat \in {400, 900}
        PROVE  /\ v < -sat => apply_response_curve(v, 100, sat, 1000) = -1000
               /\ v > sat => apply_response_curve(v, 100, sat, 1000) = 1000
    BY DEF apply_response_curve, Abs
  <2>4. /\ sy <= 60 => StickForward(sy) = 1000
        /\ sy >= 3800 => StickForward(sy) = -1000
        /\ sx <= 250 => StickTurn(sx) = 1000
        /\ sx >= 3800 => StickTurn(sx) = -1000
    BY <2>2, <2>3 DEF StickForward, StickTurn
  <2>5. /\ x' = sx /\ y' = sy
        /\ forward_back' = StickForward(sy) /\ left_right' = StickTurn(sx)
    BY <1>2 DEF get_motor_values_joystick, Compute
  <2> QED BY <2>4, <2>5 DEF StickEnds, X_LEFT, X_RIGHT, Y_UP, Y_DOWN, MotorRange
<1>3. StickEnds /\ [Next]_vars => StickEnds'
  <2>1. ASSUME NEW ax \in AccelX, NEW ay \in AccelY, get_motor_values_imu(ax, ay)
        PROVE  StickEnds'
    BY <2>1 DEF get_motor_values_imu, StickEnds
  <2>2. StickEnds /\ UNCHANGED vars => StickEnds'
    BY DEF vars, StickEnds
  <2> QED BY <1>2, <2>1, <2>2 DEF Next
<1> QED BY <1>1, <1>3, PTL DEF Spec

-----------------------------------------------------------------------------
(* The linear part of the curve for driving halves what is beyond the dead *)
(* zone, so that a larger sample gives no smaller speed.                   *)
LEMMA ForwardIsMonotone ==
  ASSUME NEW m \in Int, NEW n \in Int, m <= n
  PROVE  ImuForward(m) <= ImuForward(n)
<1>1. ASSUME NEW j \in 0 .. 2000
      PROVE  LET f == Linear(j, 4000, 6000, 1000)
             IN  f \in Int /\ 2 * f <= j /\ j < 2 * f + 2
  <2> DEFINE q == (j * 1000) \div 2000
  <2>1. Linear(j, 4000, 6000, 1000) = q
    BY DEF Linear, Quot
  <2>2. q \in Int /\ 2 * q <= j /\ j < 2 * q + 2
    OBVIOUS
  <2> QED BY <2>1, <2>2
<1>2. ASSUME NEW k \in Int
      PROVE  LET f == ImuForward(k)
             IN  \/ k > 6000 /\ f = 1000
                 \/ k < -6000 /\ f = -1000
                 \/ -4000 < k /\ k < 4000 /\ f = 0
                 \/ /\ 4000 <= k /\ k <= 6000
                    /\ f \in Int /\ 2 * f <= k - 4000 /\ k - 4000 < 2 * f + 2
                 \/ /\ -6000 <= k /\ k <= -4000
                    /\ f \in Int /\ 2 * (-f) <= -k - 4000 /\ -k - 4000 < 2 * (-f) + 2
  <2> DEFINE j == Abs(k) - 4000
             linear == Linear(j, 4000, 6000, 1000)
  <2>1. ImuForward(k) =
          IF Abs(k) < 4000 THEN 0
          ELSE IF k > 6000 THEN 1000
          ELSE IF k < -6000 THEN -1000
          ELSE IF k > 0 THEN linear ELSE -linear
    BY DEF ImuForward, apply_response_curve
  <2>2. Abs(k) = IF k < 0 THEN -k ELSE k
    BY DEF Abs
  <2>3. j \in 0 .. 2000 => linear \in Int /\ 2 * linear <= j /\ j < 2 * linear + 2
    <3> HIDE DEF j
    <3> QED BY <1>1
  <2> HIDE DEF linear
  <2>4. CASE Abs(k) < 4000 \/ k > 6000 \/ k < -6000
    BY <2>1, <2>2, <2>4
  <2>5. CASE 4000 <= k /\ k <= 6000
    <3>1. j = k - 4000 /\ j \in 0 .. 2000 /\ ImuForward(k) = linear
      BY <2>1, <2>2, <2>5
    <3> QED BY <2>3, <2>5, <3>1
  <2>6. CASE -6000 <= k /\ k <= -4000
    <3>1. j = -k - 4000 /\ j \in 0 .. 2000 /\ ImuForward(k) = -linear
      BY <2>1, <2>2, <2>6
    <3>2. linear \in Int /\ 2 * linear <= -k - 4000 /\ -k - 4000 < 2 * linear + 2
      BY <2>3, <3>1
    <3>3. -ImuForward(k) = linear /\ ImuForward(k) \in Int
      BY <3>1, <3>2
    <3> QED BY <2>6, <3>2, <3>3
  <2> QED BY <2>2, <2>4, <2>5, <2>6
<1> DEFINE f == ImuForward(m)
           g == ImuForward(n)
<1> HIDE DEF f, g
<1>3. \/ m > 6000 /\ f = 1000
      \/ m < -6000 /\ f = -1000
      \/ -4000 < m /\ m < 4000 /\ f = 0
      \/ 4000 <= m /\ m <= 6000 /\ f \in Int /\ 2 * f <= m - 4000 /\ m - 4000 < 2 * f + 2
      \/ /\ -6000 <= m /\ m <= -4000
         /\ f \in Int /\ 2 * (-f) <= -m - 4000 /\ -m - 4000 < 2 * (-f) + 2
  BY <1>2 DEF f
<1>4. \/ n > 6000 /\ g = 1000
      \/ n < -6000 /\ g = -1000
      \/ -4000 < n /\ n < 4000 /\ g = 0
      \/ 4000 <= n /\ n <= 6000 /\ g \in Int /\ 2 * g <= n - 4000 /\ n - 4000 < 2 * g + 2
      \/ /\ -6000 <= n /\ n <= -4000
         /\ g \in Int /\ 2 * (-g) <= -n - 4000 /\ -n - 4000 < 2 * (-g) + 2
  BY <1>2 DEF g
<1>5. f \in Int /\ g \in Int
  BY <1>3, <1>4
<1>6. f <= g
  BY <1>3, <1>4, <1>5
<1> QED BY <1>6 DEF f, g

(* A curve is odd: the opposite sample gives the opposite output.          *)
LEMMA CurveIsOdd ==
  ASSUME NEW zero, NEW sat, NEW out, NEW d, Steep(zero, sat, out, d), zero > 0,
         NEW n, n \in Int
  PROVE  apply_response_curve(-n, zero, sat, out) = -apply_response_curve(n, zero, sat, out)
<1> DEFINE linear == Linear(Abs(n) - zero, zero, sat, out)
<1>0. zero \in Nat /\ sat \in Nat /\ out \in Nat
  BY DEF Steep
<1>1. Abs(-n) = Abs(n) /\ Abs(n) \in Nat /\ (n <= sat /\ n >= -sat => Abs(n) <= sat)
  BY <1>0 DEF Abs
<1>2. /\ apply_response_curve(n, zero, sat, out) =
           IF Abs(n) < zero THEN 0
           ELSE IF n > sat THEN out
           ELSE IF n < -sat THEN -out
           ELSE IF n > 0 THEN linear ELSE -linear
      /\ apply_response_curve(-n, zero, sat, out) =
           IF Abs(n) < zero THEN 0
           ELSE IF -n > sat THEN out
           ELSE IF -n < -sat THEN -out
           ELSE IF -n > 0 THEN linear ELSE -linear
  BY <1>1 DEF apply_response_curve
<1>3. CASE Abs(n) < zero \/ n > sat \/ n < -sat
  <2> HIDE DEF linear
  <2> QED BY <1>0, <1>2, <1>3
<1>4. CASE ~(Abs(n) < zero \/ n > sat \/ n < -sat)
  <2>1. n # 0
    BY <1>0, <1>4 DEF Abs
  <2> DEFINE k == Abs(n) - zero
  <2>2. k \in 0 .. sat - zero
    BY <1>0, <1>1, <1>4
  <2> HIDE DEF k
  <2>3. Linear(k, zero, sat, out) \in 0 .. out
    BY <2>2, LinearRange
  <2>4. linear \in Int
    BY <1>0, <2>3 DEF k
  <2> HIDE DEF linear
  <2> QED BY <1>0, <1>2, <1>4, <2>1, <2>4
<1> QED BY <1>3, <1>4

(* So are the two curves for turning.                                      *)
LEMMA TurnsAreOdd ==
  ASSUME NEW n \in Int
  PROVE  ImuTurn(-n) = -ImuTurn(n) /\ ImuTank(-n) = -ImuTank(n)
<1> DEFINE Odd(z, s, o) == apply_response_curve(-n, z, s, o) = -apply_response_curve(n, z, s, o)
<1>1. \A z, s, o, d : Steep(z, s, o, d) /\ z > 0 => Odd(z, s, o)
  BY CurveIsOdd
<1>2. Steep(3000, 9000, 140, 42857) /\ Steep(2000, 6000, 600, 6666)
  BY SMT DEF Steep, Quot
<1> HIDE DEF Odd
<1>3. Odd(3000, 9000, 140) /\ Odd(2000, 6000, 600)
  BY <1>1, <1>2, SMT
<1> QED BY <1>3 DEF Odd, ImuTurn, ImuTank

(* A larger speed, reduced by as much, is no smaller.                      *)
LEMMA ReducedIsMonotone ==
  ASSUME NEW f \in Speeds, NEW g \in Speeds, f <= g, NEW l \in Magnitudes
  PROVE  Reduced(f, l) <= Reduced(g, l)
<1> DEFINE p == f * (1000 - l)
           q == g * (1000 - l)
<1>1. f \in Int /\ g \in Int /\ 1000 - l \in Nat
  BY DEF Speeds, Magnitudes, MotorRange
<1>2. p \in Int /\ q \in Int /\ p <= q
  BY <1>1
<1> HIDE DEF p, q
<1>3. Quot(p, 1000) <= Quot(q, 1000)
  BY <1>2 DEF Quot
<1> QED BY <1>3 DEF p, q, Reduced

(* The speeds of a command of the accelerometer are those its sample gives.*)
AsSampled ==
  source = "imu" =>
    /\ x \in Int16 /\ y \in Int16
    /\ forward_back = ImuForward(y) /\ left_right = ImuTurn(x) /\ tank_lr = ImuTank(x)

(* The command says from which sample it was made, for every sample.       *)
LEMMA AlwaysAsSampled == Spec => []AsSampled
<1>1. Init => AsSampled
  BY DEF Init, AsSampled
<1>2. AsSampled /\ [Next]_vars => AsSampled'
  <2>1. ASSUME NEW ax \in AccelX, NEW ay \in AccelY, get_motor_values_imu(ax, ay)
        PROVE  AsSampled'
    BY <2>1, ControlAssumption DEF AsSampled, get_motor_values_imu, Compute
  <2>2. ASSUME NEW sx \in StickX, NEW sy \in StickY, get_motor_values_joystick(sx, sy)
        PROVE  AsSampled'
    BY <2>2 DEF AsSampled, get_motor_values_joystick
  <2>3. AsSampled /\ UNCHANGED vars => AsSampled'
    BY DEF AsSampled, vars
  <2> QED BY <2>1, <2>2, <2>3 DEF Next
<1> QED BY <1>1, <1>2, PTL DEF Spec

(* Two commands, one after the other.                                      *)
LEMMA TwoTilts ==
  ASSUME AsSampled, AsSampled', SpeedsAsWanted, SpeedsAsWanted',
         source = "imu", source' = "imu"
  PROVE  FurtherIsFaster /\ Mirrored
<1>1. /\ x \in Int16 /\ y \in Int16 /\ x' \in Int16 /\ y' \in Int16
      /\ forward_back = ImuForward(y) /\ left_right = ImuTurn(x) /\ tank_lr = ImuTank(x)
      /\ forward_back' = ImuForward(y') /\ left_right' = ImuTurn(x') /\ tank_lr' = ImuTank(x')
  BY DEF AsSampled
<1>2. /\ forward_back \in Speeds /\ forward_back' \in Speeds
      /\ left_right \in Speeds /\ tank_lr \in Speeds
  BY <1>1, ImuRanges
<1>3. \A n \in Int16 : n \in Int
  BY DEF Int16
<1>4. \A n \in Speeds : n \in Int /\ -n \in Speeds
  BY DEF Speeds, MotorRange
<1> DEFINE slowsLeft == IF left_right < 0 THEN -left_right ELSE 0
           slowsRight == IF left_right > 0 THEN left_right ELSE 0
<1>5. slowsLeft \in Magnitudes /\ slowsRight \in Magnitudes
  BY <1>2 DEF Magnitudes, Speeds, MotorRange
<1>6. IF forward_back = 0
      THEN LeftSpeed(move) = tank_lr /\ RightSpeed(move) = -tank_lr
      ELSE /\ LeftSpeed(move) = Reduced(forward_back, slowsLeft)
           /\ RightSpeed(move) = Reduced(forward_back, slowsRight)
  BY DEF SpeedsAsWanted, WantedSpeeds
<1>7. IF forward_back' = 0
      THEN LeftSpeed(move') = tank_lr' /\ RightSpeed(move') = -tank_lr'
      ELSE /\ LeftSpeed(move') =
                Reduced(forward_back', IF left_right' < 0 THEN -left_right' ELSE 0)
           /\ RightSpeed(move') =
                Reduced(forward_back', IF left_right' > 0 THEN left_right' ELSE 0)
  BY DEF SpeedsAsWanted, WantedSpeeds, LeftSpeed, RightSpeed
<1> HIDE DEF slowsLeft, slowsRight
<1>8. FurtherIsFaster
  <2> SUFFICES ASSUME x' = x, y' >= y, forward_back # 0, forward_back' # 0
               PROVE  LeftSpeed(move') >= LeftSpeed(move) /\ RightSpeed(move') >= RightSpeed(move)
    BY DEF FurtherIsFaster
  <2>1. left_right' = left_right
    BY <1>1
  <2>2. forward_back <= forward_back'
    BY <1>1, <1>3, ForwardIsMonotone
  <2>3. /\ LeftSpeed(move') = Reduced(forward_back', slowsLeft)
        /\ RightSpeed(move') = Reduced(forward_back', slowsRight)
    BY <1>7, <2>1 DEF slowsLeft, slowsRight
  <2>4. /\ Reduced(forward_back, slowsLeft) <= Reduced(forward_back', slowsLeft)
        /\ Reduced(forward_back, slowsRight) <= Reduced(forward_back', slowsRight)
    BY <1>2, <1>5, <2>2, ReducedIsMonotone
  <2> QED BY <1>6, <2>3, <2>4
<1>9. Mirrored
  <2> SUFFICES ASSUME x' = -x, y' = y
               PROVE  LeftSpeed(move') = RightSpeed(move) /\ RightSpeed(move') = LeftSpeed(move)
    BY DEF Mirrored
  <2>1. forward_back' = forward_back /\ left_right' = -left_right /\ tank_lr' = -tank_lr
    BY <1>1, <1>3, TurnsAreOdd
  <2>2. left_right \in Int /\ tank_lr \in Int /\ -(-tank_lr) = tank_lr
    BY <1>2, <1>4
  <2>3. CASE forward_back = 0
    BY <1>6, <1>7, <2>1, <2>2, <2>3
  <2>4. CASE forward_back # 0
    <3>1. /\ (IF left_right' < 0 THEN -left_right' ELSE 0) = slowsRight
          /\ (IF left_right' > 0 THEN left_right' ELSE 0) = slowsLeft
      BY <2>1, <2>2 DEF slowsLeft, slowsRight
    <3> QED BY <1>6, <1>7, <2>1, <2>4, <3>1
  <2> QED BY <2>3, <2>4
<1> QED BY <1>8, <1>9

(* Tilting the hat further forward makes no wheel slower, and tilting it   *)
(* to the other side exchanges the wheels, for every two samples that      *)
(* follow each other.                                                      *)
THEOREM SteeringFollowsTilt == Spec => SteersAsTilted
<1>1. AsSampled /\ AsSampled' /\ SpeedsAsWanted /\ SpeedsAsWanted'
      => (source = "imu" /\ source' = "imu" => FurtherIsFaster /\ Mirrored)
  BY TwoTilts
<1> QED BY <1>1, AlwaysAsSampled, CommandedSpeeds, PTL DEF SteersAsTilted

-----------------------------------------------------------------------------
(* gen_key is one-to-one, so it never makes 0 of a key other than 0.       *)
(*                                                                         *)
(* Each of its three lines leaves the bits that nothing is shifted onto as *)
(* they were; from these the bits they are shifted onto can be recovered,  *)
(* and from those the next ones.                                           *)

(* `key ^= key >> n' is one-to-one: bits 16 - n .. 15 are unchanged, and   *)
(* with n >= 6 three rounds reach bit 0.                                   *)
LEMMA RightIsOneToOne ==
  ASSUME NEW u \in uint16, NEW v \in uint16, NEW n \in {7, 13},
         XorShiftedRight(u, n) = XorShiftedRight(v, n)
  PROVE  u = v
  <1>1. \A b \in Bits : (u[b] # (b + n \in Bits /\ u[b + n])) =
                        (v[b] # (b + n \in Bits /\ v[b + n]))
    BY DEF XorShiftedRight
  <1>2. \A b \in Bits : b + n \notin Bits => u[b] = v[b]
    BY <1>1 DEF uint16
  <1>3. \A b \in Bits : b + n + n \notin Bits => u[b] = v[b]
    BY <1>1, <1>2 DEF uint16, Bits
  <1>4. \A b \in Bits : u[b] = v[b]
    BY <1>1, <1>3 DEF uint16, Bits
  <1> QED BY <1>4 DEF uint16

(* `key ^= key << 9' is one-to-one: bits 0 .. 8 are unchanged.             *)
LEMMA LeftIsOneToOne ==
  ASSUME NEW u \in uint16, NEW v \in uint16,
         XorShiftedLeft(u, 9) = XorShiftedLeft(v, 9)
  PROVE  u = v
  <1>1. \A b \in Bits : (u[b] # (b >= 9 /\ u[b - 9])) = (v[b] # (b >= 9 /\ v[b - 9]))
    BY DEF XorShiftedLeft
  <1>2. \A b \in Bits : b < 9 => u[b] = v[b]
    BY <1>1 DEF uint16, Bits
  <1>3. \A b \in Bits : u[b] = v[b]
    BY <1>1, <1>2 DEF uint16, Bits
  <1> QED BY <1>3 DEF uint16

(* The three lines keep the width of the key.                              *)
LEMMA ShiftTypes ==
  ASSUME NEW u \in uint16, NEW n \in Nat
  PROVE  XorShiftedRight(u, n) \in uint16 /\ XorShiftedLeft(u, n) \in uint16
  BY DEF uint16, XorShiftedRight, XorShiftedLeft

(* No two keys have the same successor: the sequence of keys can only      *)
(* close on its beginning.                                                 *)
THEOREM GenKeyIsOneToOne ==
  ASSUME NEW u \in uint16, NEW v \in uint16, gen_key(u) = gen_key(v)
  PROVE  u = v
  <1> DEFINE first(k) == XorShiftedRight(k, 7)
             second(k) == XorShiftedLeft(first(k), 9)
  <1>1. first(u) \in uint16 /\ first(v) \in uint16
    BY ShiftTypes
  <1>2. second(u) \in uint16 /\ second(v) \in uint16
    BY <1>1, ShiftTypes
  <1>3. second(u) = second(v)
    BY <1>2, RightIsOneToOne DEF gen_key
  <1>4. first(u) = first(v)
    BY <1>1, <1>3, LeftIsOneToOne
  <1> QED BY <1>4, RightIsOneToOne

(* The keys stay 16 bits wide, however long the hat runs.                  *)
THEOREM KeyTypeCorrect == KeySpec => []KeyTypeOK
  <1>1. KeyInit => KeyTypeOK
    BY DEF KeyInit, KeyTypeOK, Initial, uint16
  <1>2. ASSUME NEW k \in uint16 PROVE gen_key(k) \in uint16
    BY ShiftTypes DEF gen_key
  <1>3. KeyTypeOK /\ [KeyNext]_<<lfsr_key, made>> => KeyTypeOK'
    <2> SUFFICES ASSUME KeyTypeOK, [KeyNext]_<<lfsr_key, made>> PROVE KeyTypeOK'
      OBVIOUS
    <2>1. CASE KeyNext
      <3>1. lfsr_key' \in uint16
        BY SMTT(30), <1>2, <2>1 DEF KeyTypeOK, KeyNext
      <3>2. made' \in 0 .. 65534
        BY SMTT(30), <2>1 DEF KeyTypeOK, KeyNext
      <3> QED BY SMTT(30), <3>1, <3>2 DEF KeyTypeOK
    <2>2. CASE UNCHANGED <<lfsr_key, made>>
      BY SMTT(30), <2>2 DEF KeyTypeOK
    <2> QED BY <2>1, <2>2
  <1> QED BY <1>1, <1>3, PTL DEF KeySpec

(* The key 0 is its own successor, and gen_key is one-to-one: no other key *)
(* leads to it.                                                            *)
THEOREM KeyNeverZero == KeySpec => []NeverZero
  <1>1. Zero \in uint16 /\ gen_key(Zero) = Zero
    <2>1. XorShiftedRight(Zero, 7) = Zero /\ XorShiftedRight(Zero, 13) = Zero
      BY DEF XorShiftedRight, Zero, Bits
    <2>2. XorShiftedLeft(Zero, 9) = Zero
      <3>1. \A b \in Bits : b >= 9 => Zero[b - 9] = FALSE
        BY DEF Zero, Bits
      <3>2. \A b \in Bits : (Zero[b] # (b >= 9 /\ Zero[b - 9])) = FALSE
        BY <3>1 DEF Zero
      <3> QED BY <3>2 DEF XorShiftedLeft, Zero
    <2> QED BY <2>1, <2>2 DEF gen_key, Zero, uint16
  <1>2. KeyInit => NeverZero
    <2>1. 0 \in Bits
      BY DEF Bits
    <2>2. Initial[0] = TRUE
      BY <2>1 DEF Initial
    <2>3. Zero[0] = FALSE
      BY <2>1 DEF Zero
    <2> QED BY <2>2, <2>3 DEF KeyInit, NeverZero
  <1>3. KeyTypeOK /\ NeverZero /\ [KeyNext]_<<lfsr_key, made>> => NeverZero'
    <2> SUFFICES ASSUME KeyTypeOK, NeverZero, [KeyNext]_<<lfsr_key, made>>
                 PROVE  NeverZero'
      OBVIOUS
    <2>1. CASE KeyNext
      BY SMTT(30), <1>1, <2>1, GenKeyIsOneToOne DEF KeyNext, NeverZero, KeyTypeOK
    <2>2. CASE UNCHANGED <<lfsr_key, made>>
      BY <2>2 DEF NeverZero
    <2> QED BY <2>1, <2>2
  <1> QED BY <1>2, <1>3, KeyTypeCorrect, PTL DEF KeySpec
=============================================================================
