---------------------------- MODULE RacerProofs ----------------------------
(***************************************************************************)
(* Proofs about the racer's main loop, for every tick count, key set,      *)
(* command set and FIFO depth.                                             *)
(***************************************************************************)
EXTENDS Racer, TLAPS

(* The operators of the driver and the chip keep a radio a radio.          *)
LEMMA DriverTypes ==
  ASSUME NEW A, NEW P, NEW r \in Radio(A, P), NEW a \in A
  PROVE  /\ SetAddress(r, a) \in Radio(A, P)
         /\ Listen(r) \in Radio(A, P)
         /\ WriteStart(r) \in Radio(A, P)
         /\ WriteEnd(r) \in Radio(A, P)
         /\ ReadClear(r) \in Radio(A, P)
         /\ Acknowledged(r) \in Radio(A, P)
         /\ GaveUp(r) \in Radio(A, P)
  BY << >> \in Seq(P)
  DEF SetAddress, Listen, WriteStart, WriteEnd, ReadClear, Acknowledged, GaveUp, Radio

(* The oldest payload is taken out of a FIFO that is not empty.            *)
LEMMA ReadPayloadType ==
  ASSUME NEW A, NEW P, NEW r \in Radio(A, P), r.rxFifo # << >>
  PROVE  ReadPayload(r) \in Radio(A, P) /\ Head(r.rxFifo) \in P
  <1>1. r.rxFifo \in Seq(P)
    BY DEF Radio
  <1>2. Tail(r.rxFifo) \in Seq(P) /\ Head(r.rxFifo) \in P
    BY <1>1
  <1> QED BY <1>2 DEF ReadPayload, Radio

(* A payload that came over the air is stored behind the others.           *)
LEMMA StoreType ==
  ASSUME NEW A, NEW P, NEW r \in Radio(A, P), NEW p \in P
  PROVE  Store(r, p) \in Radio(A, P) /\ Store(r, p).rxFifo # << >>
  <1>1. r.rxFifo \in Seq(P)
    BY DEF Radio
  <1>2. Append(r.rxFifo, p) \in Seq(P) /\ Append(r.rxFifo, p) # << >>
    BY <1>1
  <1> QED BY <1>2 DEF Store, Radio

(* A stop that is under way has zeroed the registers before `step'.        *)
StopProgress ==
  pc \in {"halt", "expire"} => \A i \in 1 .. step - 1 : motors[StopOrder[i]] = 0

(* A drive that is under way has written the registers before `step'.      *)
DriveProgress ==
  pc = "drive" =>
    /\ state # "BUMPER_WAITING"
    /\ rx.key = key /\ ~rx.set_key
    /\ motor_timeout_counter = 0
    /\ \A i \in 1 .. step - 1 : motors[DriveOrder[i]] = rx.motors[DriveOrder[i]]

(* The bumper is only acted upon outside the holdoff, and it is reported   *)
(* only after the motors have stopped.                                     *)
BumpProgress ==
  /\ pc \in {"halt", "report", "reporting"} => state # "BUMPER_HOLDOFF"
  /\ pc \in {"report", "reporting"} => motors = Stopped

(* Outside the register writes the registers hold one command.             *)
WholeCommand == pc \notin {"halt", "drive", "expire"} => motors \in Commands

(* RX_DR is only latched while there is a payload, except in the middle of *)
(* nrf24_read.                                                             *)
ReadyHasPayload == pc # "clear" /\ nrf.rxDr => nrf.rxFifo # << >>

IInv ==
  /\ TypeOK
  /\ StoppedWhileWaiting
  /\ StoppedAfterTimeout
  /\ CountersRestart
  /\ StopProgress
  /\ DriveProgress
  /\ BumpProgress
  /\ WholeCommand
  /\ ReadyHasPayload

-----------------------------------------------------------------------------
(* The stopped registers are a command of the hat, and natural numbers.    *)
LEMMA StoppedIsCommand == Stopped \in [Registers -> Nat] /\ Stopped \in Commands
  BY RacerAssumption

(* What a packet carries for the motors is a value of each register.       *)
LEMMA CommandIsFunction == \A p \in Packets : p.motors \in [Registers -> Nat]
  BY RacerAssumption DEF Packets

(* The two orders list every register once.                                *)
LEMMA Orders ==
  /\ Registers = {StopOrder[1], StopOrder[2], StopOrder[3], StopOrder[4]}
  /\ Registers = {DriveOrder[1], DriveOrder[2], DriveOrder[3], DriveOrder[4]}
  /\ \A i, j \in 1 .. 4 : i # j => StopOrder[i] # StopOrder[j]
  /\ \A i, j \in 1 .. 4 : i # j => DriveOrder[i] # DriveOrder[j]
  /\ \A i \in 1 .. 4 : StopOrder[i] \in Registers /\ DriveOrder[i] \in Registers
  BY DEF Registers, StopOrder, DriveOrder

(* The invariant holds when the racer enters its loop.                     *)
LEMMA InitIInv == Init => IInv
  <1> SUFFICES ASSUME Init PROVE IInv
    OBVIOUS
  <1> USE DEF Init
  <1>1. nrf \in Radio(Addresses, Packets)
    <2>1. Begin(HatAddress) \in Radio(Addresses, Packets)
      BY RacerAssumption DEF Begin, Radio
    <2> QED BY <2>1, DriverTypes, RacerAssumption
  <1>2. NoPacket \in Packets
    BY RacerAssumption DEF NoPacket, Packets
  <1>3. TypeOK
    BY <1>1, <1>2, RacerAssumption, StoppedIsCommand DEF TypeOK, Pcs, States
  <1>4. ReadyHasPayload
    BY DEF ReadyHasPayload, Listen, Begin
  <1> QED
    BY <1>3, <1>4, StoppedIsCommand
    DEF IInv, StoppedWhileWaiting, StoppedAfterTimeout, CountersRestart,
        StopProgress, DriveProgress, BumpProgress, WholeCommand

-----------------------------------------------------------------------------
(* One lemma per action: it preserves the invariant.                       *)

(* A new iteration: the two counters and the address in RAM.               *)
LEMMA PaceStep == ASSUME IInv, Pace PROVE IInv'
  <1> USE DEF Pace, IInv
  <1>1. nrf' \in Radio(Addresses, Packets) /\ nrf'.rxDr = nrf.rxDr /\ nrf'.rxFifo = nrf.rxFifo
    <2>1. PICK a \in Addresses : nrf' = SetAddress(nrf, a)
      OBVIOUS
    <2>2. nrf \in Radio(Addresses, Packets)
      BY DEF TypeOK
    <2>3. SetAddress(nrf, a) \in Radio(Addresses, Packets)
      BY <2>2, DriverTypes
    <2> QED BY <2>1, <2>2, <2>3 DEF SetAddress, Radio
  <1>a. rx' \in Packets
    BY RacerAssumption DEF NoPacket, Packets
  <1>2. TypeOK' /\ CountersRestart' /\ StoppedWhileWaiting'
    BY <1>1, <1>a, RacerAssumption
    DEF TypeOK, Pcs, States, CountersRestart, StoppedWhileWaiting, StayNormal,
        CountWaiting, CountHoldoff
  <1>3. WholeCommand' /\ ReadyHasPayload'
    BY <1>1 DEF WholeCommand, ReadyHasPayload
  <1> QED
    BY <1>2, <1>3 DEF StoppedAfterTimeout, StopProgress, DriveProgress, BumpProgress

(* Whatever the bumper reads, nothing but the place in the loop changes.   *)
LEMMA CheckBumperStep ==
  ASSUME IInv, NEW pressed \in BOOLEAN, CheckBumper(pressed) PROVE IInv'
  BY DEF CheckBumper, IInv, TypeOK, Pcs, States, StoppedWhileWaiting,
         StoppedAfterTimeout, CountersRestart, StopProgress, DriveProgress,
         BumpProgress, WholeCommand, ReadyHasPayload

(* Starting the transmission keeps the payloads that wait.                 *)
LEMMA ReportStep == ASSUME IInv, Report PROVE IInv'
  <1> USE DEF Report, IInv
  <1>1. nrf' \in Radio(Addresses, Packets) /\ nrf'.rxDr = nrf.rxDr /\ nrf'.rxFifo = nrf.rxFifo
    <2>1. nrf \in Radio(Addresses, Packets)
      BY DEF TypeOK
    <2>2. WriteStart(nrf) \in Radio(Addresses, Packets)
      BY <2>1, DriverTypes, RacerAssumption
    <2>3. WriteStart(nrf).rxDr = nrf.rxDr /\ WriteStart(nrf).rxFifo = nrf.rxFifo
      BY <2>1 DEF WriteStart, Radio
    <2> QED BY <2>2, <2>3
  <1> QED
    BY <1>1
    DEF TypeOK, Pcs, States, StoppedWhileWaiting, StoppedAfterTimeout,
        CountersRestart, StopProgress, DriveProgress, BumpProgress, WholeCommand,
        ReadyHasPayload

(* Only a car that has stopped is locked.                                  *)
LEMMA LockStep == ASSUME IInv, Lock PROVE IInv'
  <1> USE DEF Lock, IInv
  <1>1. nrf' \in Radio(Addresses, Packets)
    BY DriverTypes, RacerAssumption DEF TypeOK
  <1>2. nrf'.rxDr = FALSE
    <2>1. WriteEnd(nrf) \in Radio(Addresses, Packets)
      BY DriverTypes, RacerAssumption DEF TypeOK
    <2> QED BY <2>1 DEF Listen, Radio
  <1> QED
    BY <1>1, <1>2, StoppedIsCommand, RacerAssumption
    DEF TypeOK, Pcs, States, StoppedWhileWaiting, StoppedAfterTimeout,
        CountersRestart, StopProgress, DriveProgress, BumpProgress, WholeCommand,
        ReadyHasPayload

(* A payload is there when RX_DR says so; the counter stays in its range.  *)
LEMMA ReceiveStep == ASSUME IInv, Receive PROVE IInv'
  <1> USE DEF Receive, IInv
  <1>1. motor_timeout_counter' \in 0 .. CounterMax
    BY RacerAssumption DEF TypeOK
  <1>2. CASE IsDataReady(nrf)
    <2>1. nrf.rxFifo # << >>
      BY <1>2 DEF IsDataReady, ReadyHasPayload
    <2>2. nrf' \in Radio(Addresses, Packets) /\ rx' \in Packets
      BY <1>2, <2>1, ReadPayloadType DEF TypeOK
    <2> QED
      BY <1>1, <1>2, <2>2
      DEF TypeOK, Pcs, States, StoppedWhileWaiting, StoppedAfterTimeout,
          CountersRestart, StopProgress, DriveProgress, BumpProgress, WholeCommand,
          ReadyHasPayload
  <1>3. CASE ~IsDataReady(nrf)
    BY <1>1, <1>3
    DEF TypeOK, Pcs, States, StoppedWhileWaiting, StoppedAfterTimeout,
        CountersRestart, StopProgress, DriveProgress, BumpProgress, WholeCommand,
        ReadyHasPayload
  <1> QED BY <1>2, <1>3

(* The end of nrf24_read loses RX_DR and keeps the payloads.               *)
LEMMA ClearStep == ASSUME IInv, Clear PROVE IInv'
  <1> USE DEF Clear, IInv
  <1>1. nrf' \in Radio(Addresses, Packets)
    BY DriverTypes, RacerAssumption DEF TypeOK
  <1>2. nrf'.rxDr = FALSE
    BY DEF ReadClear, TypeOK, Radio
  <1> QED
    BY <1>1, <1>2
    DEF TypeOK, Pcs, States, StoppedWhileWaiting, StoppedAfterTimeout,
        CountersRestart, StopProgress, DriveProgress, BumpProgress, WholeCommand,
        ReadyHasPayload

(* Accepting, obeying or rejecting a packet moves no motor yet.            *)
LEMMA AcceptStep == ASSUME IInv, SetKey \/ AcceptMove \/ RejectMove PROVE IInv'
  <1>1. rx.key \in Keys /\ rx.servo_position \in Positions
    BY DEF IInv, TypeOK, Packets
  <1>2. 0 \in 0 .. CounterMax
    BY RacerAssumption
  <1> USE DEF IInv, TypeOK, Pcs, States, StoppedWhileWaiting, StoppedAfterTimeout,
          CountersRestart, StopProgress, DriveProgress, BumpProgress, WholeCommand,
          ReadyHasPayload
  <1>3. CASE SetKey
    BY <1>1, <1>2, <1>3 DEF SetKey
  <1>4. CASE AcceptMove
    BY <1>1, <1>2, <1>4 DEF AcceptMove
  <1>5. CASE RejectMove
    BY <1>5 DEF RejectMove
  <1> QED BY <1>3, <1>4, <1>5

(* Writing one register of a command keeps the registers natural numbers   *)
(* and leaves the registers written before as they are.                    *)
LEMMA RegisterWritten ==
  ASSUME motors \in [Registers -> Nat], step \in 1 .. 4,
         NEW order, order \in {StopOrder, DriveOrder},
         NEW values \in [Registers -> Nat],
         motors' = [motors EXCEPT ![order[step]] = values[order[step]]],
         \A i \in 1 .. step - 1 : motors[order[i]] = values[order[i]]
  PROVE  /\ motors' \in [Registers -> Nat]
         /\ \A i \in 1 .. step : motors'[order[i]] = values[order[i]]
         /\ step = 4 => motors' = values
  <1>1. order[step] \in Registers
    BY Orders
  <1>2. motors' \in [Registers -> Nat]
    BY <1>1
  <1>3. \A i \in 1 .. step : motors'[order[i]] = values[order[i]]
    <2> TAKE i \in 1 .. step
    <2>1. i \in 1 .. 4 /\ order[i] \in Registers
      BY Orders
    <2>2. CASE i = step
      BY <1>1, <2>2
    <2>3. CASE i # step
      BY <1>1, <2>1, <2>3, Orders
    <2> QED BY <2>2, <2>3
  <1>4. ASSUME step = 4 PROVE motors' = values
    <2>1. Registers = {order[1], order[2], order[3], order[4]}
      BY Orders
    <2>2. \A r \in Registers : motors'[r] = values[r]
      BY <1>3, <1>4, <2>1
    <2> QED BY <1>2, <2>2
  <1> QED BY <1>2, <1>3, <1>4

(* What both ways of stopping the motors have in common.                   *)
LEMMA StopWrites ==
  ASSUME IInv, NEW at \in {"halt", "expire"}, NEW next,
         WriteRegister(at, StopOrder, Stopped, next)
  PROVE  /\ motors' \in [Registers -> Nat]
         /\ \A i \in 1 .. step : motors'[StopOrder[i]] = 0
         /\ step = 4 => motors' = Stopped
         /\ state = "BUMPER_WAITING" => motors' = Stopped
  <1> DEFINE order == StopOrder
  <1>1. motors \in [Registers -> Nat] /\ step \in 1 .. 4
    BY DEF IInv, TypeOK
  <1>2. \A i \in 1 .. 4 : Stopped[order[i]] = 0
    BY Orders DEF Stopped
  <1>3. \A i \in 1 .. step - 1 : motors[order[i]] = Stopped[order[i]]
    BY <1>1, <1>2 DEF IInv, StopProgress, WriteRegister
  <1>4. motors' = [motors EXCEPT ![order[step]] = Stopped[order[step]]]
    BY DEF WriteRegister
  <1>5. /\ motors' \in [Registers -> Nat]
        /\ \A i \in 1 .. step : motors'[order[i]] = Stopped[order[i]]
        /\ step = 4 => motors' = Stopped
    BY <1>1, <1>3, <1>4, RegisterWritten, StoppedIsCommand
  <1>6. ASSUME state = "BUMPER_WAITING" PROVE motors' = Stopped
    <2>1. motors = Stopped
      BY <1>6 DEF IInv, StoppedWhileWaiting
    <2> QED BY <1>1, <1>4, <2>1, Orders DEF Stopped
  <1>7. \A i \in 1 .. step : motors'[order[i]] = 0
    BY <1>1, <1>2, <1>5
  <1> QED BY <1>5, <1>6, <1>7

(* Halt: the next register of four is zero.                                *)
LEMMA HaltStep == ASSUME IInv, Halt PROVE IInv'
  <1>1. /\ motors' \in [Registers -> Nat]
        /\ \A i \in 1 .. step : motors'[StopOrder[i]] = 0
        /\ step = 4 => motors' = Stopped
        /\ state = "BUMPER_WAITING" => motors' = Stopped
    BY StopWrites DEF Halt
  <1>2. StopProgress'
    BY <1>1 DEF Halt, WriteRegister, StopProgress, IInv, TypeOK
  <1>3. /\ pc = "halt" /\ step \in 1 .. 4 /\ step' \in 1 .. 4
        /\ pc' = "halt" \/ (pc' = "report" /\ motors' = Stopped)
    BY <1>1 DEF Halt, WriteRegister, IInv, TypeOK
  <1>4. UNCHANGED <<state, waiting_counter, holdoff_counter, motor_timeout_counter,
                    key, servo_pos, rx, nrf>>
    BY DEF Halt
  <1>5. TypeOK'
    BY <1>1, <1>3, <1>4 DEF IInv, TypeOK, Pcs
  <1>6. /\ StoppedWhileWaiting' /\ StoppedAfterTimeout' /\ CountersRestart'
        /\ DriveProgress' /\ BumpProgress'
    BY <1>1, <1>3, <1>4
    DEF IInv, StoppedWhileWaiting, StoppedAfterTimeout, CountersRestart,
        DriveProgress, BumpProgress
  <1>7. WholeCommand' /\ ReadyHasPayload'
    BY <1>3, <1>4, StoppedIsCommand DEF IInv, WholeCommand, ReadyHasPayload
  <1> QED BY <1>2, <1>5, <1>6, <1>7 DEF IInv

(* Expire: the next register of four is zero, whatever the packet was.     *)
LEMMA ExpireStep == ASSUME IInv, Expire PROVE IInv'
  <1>1. /\ motors' \in [Registers -> Nat]
        /\ \A i \in 1 .. step : motors'[StopOrder[i]] = 0
        /\ step = 4 => motors' = Stopped
        /\ state = "BUMPER_WAITING" => motors' = Stopped
    BY StopWrites DEF Expire
  <1>2. StopProgress'
    BY <1>1 DEF Expire, WriteRegister, StopProgress, IInv, TypeOK
  <1>3. /\ pc = "expire" /\ step \in 1 .. 4 /\ step' \in 1 .. 4
        /\ pc' = "expire" \/ (pc' = "pace" /\ motors' = Stopped)
    BY <1>1 DEF Expire, WriteRegister, IInv, TypeOK
  <1>4. UNCHANGED <<state, waiting_counter, holdoff_counter, motor_timeout_counter,
                    key, servo_pos, rx, nrf>>
    BY DEF Expire
  <1>5. TypeOK'
    BY <1>1, <1>3, <1>4 DEF IInv, TypeOK, Pcs
  <1>6. /\ StoppedWhileWaiting' /\ StoppedAfterTimeout' /\ CountersRestart'
        /\ DriveProgress' /\ BumpProgress'
    BY <1>1, <1>3, <1>4
    DEF IInv, StoppedWhileWaiting, StoppedAfterTimeout, CountersRestart,
        DriveProgress, BumpProgress
  <1>7. WholeCommand' /\ ReadyHasPayload'
    BY <1>3, <1>4, StoppedIsCommand DEF IInv, WholeCommand, ReadyHasPayload
  <1> QED BY <1>2, <1>5, <1>6, <1>7 DEF IInv

(* Drive: the next register of four comes from the packet.                 *)
LEMMA DriveStep == ASSUME IInv, Drive PROVE IInv'
  <1> DEFINE order == DriveOrder
  <1>1. motors \in [Registers -> Nat] /\ step \in 1 .. 4 /\ rx \in Packets
    BY DEF IInv, TypeOK
  <1>2. rx.motors \in [Registers -> Nat] /\ rx.motors \in Commands /\ rx.servo_position \in Positions
    BY <1>1, CommandIsFunction DEF Packets
  <1>3. \A i \in 1 .. step - 1 : motors[order[i]] = rx.motors[order[i]]
    BY DEF Drive, WriteRegister, IInv, DriveProgress
  <1>4. motors' = [motors EXCEPT ![order[step]] = rx.motors[order[step]]]
    BY DEF Drive, WriteRegister
  <1>5. /\ motors' \in [Registers -> Nat]
        /\ \A i \in 1 .. step : motors'[order[i]] = rx.motors[order[i]]
        /\ step = 4 => motors' = rx.motors
    BY <1>1, <1>2, <1>3, <1>4, RegisterWritten
  <1>6. DriveProgress'
    BY <1>1, <1>5 DEF Drive, WriteRegister, DriveProgress, IInv
  <1> QED
    BY <1>2, <1>5, <1>6
    DEF Drive, WriteRegister, IInv, TypeOK, Pcs, States, StoppedWhileWaiting,
        StoppedAfterTimeout, CountersRestart, StopProgress, DriveProgress,
        BumpProgress, WholeCommand, ReadyHasPayload

(* A car that goes on to the next iteration is not too old, or stands.     *)
LEMMA CheckDeadlineStep == ASSUME IInv, CheckDeadline PROVE IInv'
  BY DEF CheckDeadline, IInv, TypeOK, Pcs, States, StoppedWhileWaiting,
         StoppedAfterTimeout, CountersRestart, StopProgress, DriveProgress,
         BumpProgress, WholeCommand, ReadyHasPayload

(* A packet that arrives sets RX_DR with a payload in the FIFO.            *)
LEMMA ArriveStep == ASSUME IInv, NEW p \in HatPackets, Arrive(p) PROVE IInv'
  <1>1. p \in Packets
    BY DEF HatPackets
  <1>2. nrf' \in Radio(Addresses, Packets) /\ nrf'.rxFifo # << >>
    BY <1>1, StoreType DEF IInv, TypeOK, Arrive
  <1> QED
    BY <1>2
    DEF Arrive, IInv, TypeOK, Pcs, States, StoppedWhileWaiting, StoppedAfterTimeout,
        CountersRestart, StopProgress, DriveProgress, BumpProgress, WholeCommand,
        ReadyHasPayload

(* An acknowledgement or its absence leaves the receive FIFO alone.        *)
LEMMA AnsweredStep == ASSUME IInv, Answered PROVE IInv'
  <1>1. nrf \in Radio(Addresses, Packets)
    BY DEF IInv, TypeOK
  <1>2. Acknowledged(nrf) \in Radio(Addresses, Packets) /\ GaveUp(nrf) \in Radio(Addresses, Packets)
    BY <1>1, DriverTypes, RacerAssumption
  <1>3. nrf' \in Radio(Addresses, Packets) /\ nrf'.rxDr = nrf.rxDr /\ nrf'.rxFifo = nrf.rxFifo
    BY <1>1, <1>2 DEF Answered, Acknowledged, GaveUp, Radio
  <1> QED
    BY <1>3
    DEF Answered, IInv, TypeOK, Pcs, States, StoppedWhileWaiting, StoppedAfterTimeout,
        CountersRestart, StopProgress, DriveProgress, BumpProgress, WholeCommand,
        ReadyHasPayload

(* Steps that change no variable.                                          *)
LEMMA StutterStep == ASSUME IInv, UNCHANGED vars PROVE IInv'
  BY DEF vars, IInv, TypeOK, StoppedWhileWaiting, StoppedAfterTimeout,
         CountersRestart, StopProgress, DriveProgress, BumpProgress, WholeCommand,
         ReadyHasPayload

-----------------------------------------------------------------------------
(* The invariant is inductive.                                             *)
THEOREM Inductive == Spec => []IInv
  <1>1. IInv /\ [Next]_vars => IInv'
    <2> SUFFICES ASSUME IInv, [Next]_vars PROVE IInv'
      OBVIOUS
    <2>1. CASE Loop
      <3>1. CASE \E pressed \in BOOLEAN : CheckBumper(pressed)
        BY <3>1, CheckBumperStep
      <3>2. CASE Pace \/ Halt \/ Report \/ Lock \/ Receive \/ Clear
        BY <3>2, PaceStep, HaltStep, ReportStep, LockStep, ReceiveStep, ClearStep
      <3>3. CASE SetKey \/ AcceptMove \/ RejectMove
        BY <3>3, AcceptStep
      <3>4. CASE Drive \/ CheckDeadline \/ Expire
        BY <3>4, DriveStep, CheckDeadlineStep, ExpireStep
      <3> QED BY <2>1, <3>1, <3>2, <3>3, <3>4 DEF Loop
    <2>2. CASE \E p \in HatPackets : Arrive(p)
      BY <2>2, ArriveStep
    <2>3. CASE Answered
      BY <2>3, AnsweredStep
    <2>4. CASE UNCHANGED vars
      BY <2>4, StutterStep
    <2> QED BY <2>1, <2>2, <2>3, <2>4 DEF Next
  <1> QED BY InitIInv, <1>1, PTL DEF Spec

(* Every variable keeps its type.                                          *)
THEOREM TypeCorrect == Spec => []TypeOK
  BY Inductive, PTL DEF IInv

(* The motor registers are zero as long as the car waits after a bump.     *)
THEOREM WaitingCarStands == Spec => []StoppedWhileWaiting
  BY Inductive, PTL DEF IInv

(* No iteration begins with a motor running on a command that timed out.   *)
THEOREM SilentCarStands == Spec => []StoppedAfterTimeout
  BY Inductive, PTL DEF IInv

(* Every lockout and every holdoff starts counting from zero.              *)
THEOREM CountersStartAtZero == Spec => []CountersRestart
  BY Inductive, PTL DEF IInv

(* Iterations begin with the registers of one whole command.               *)
THEOREM CommandsAreWhole == Spec => []CommandIsWhole
  <1>1. IInv => CommandIsWhole
    BY DEF IInv, WholeCommand, CommandIsWhole
  <1> QED BY <1>1, Inductive, PTL

-----------------------------------------------------------------------------
(* Only Halt, Drive and Expire write motor registers, and only Drive gives *)
(* one a value other than zero.                                            *)
LEMMA MotorWrites ==
  ASSUME IInv, [Next]_vars, motors' # motors
  PROVE  Halt \/ Drive \/ Expire
  BY DEF Next, Loop, vars, Pace, CheckBumper, Report, Lock, Receive, Clear, SetKey,
         AcceptMove, RejectMove, CheckDeadline, Arrive, Answered

(* A register becomes non-zero only under a move packet with the key the   *)
(* racer holds.                                                            *)
THEOREM KeyedPacketsDrive == Spec => OnlyKeyedPacketsDrive
  <1>1. ASSUME IInv, [Next]_vars, NEW r \in Registers, motors'[r] # motors[r], motors'[r] # 0
        PROVE  rx.key = key /\ ~rx.set_key
    <2>1. motors \in [Registers -> Nat] /\ step \in 1 .. 4
      BY <1>1 DEF IInv, TypeOK
    <2>2. \A i \in 1 .. 4 : StopOrder[i] \in Registers /\ Stopped[StopOrder[i]] = 0
      BY Orders DEF Stopped
    <2>3. CASE Halt \/ Expire
      <3>1. motors' = [motors EXCEPT ![StopOrder[step]] = Stopped[StopOrder[step]]]
        BY <2>3 DEF Halt, Expire, WriteRegister
      <3> QED BY <1>1, <2>1, <2>2, <3>1
    <2>4. CASE Drive
      BY <1>1, <2>4 DEF Drive, WriteRegister, IInv, DriveProgress
    <2> QED BY <1>1, <2>3, <2>4, MotorWrites
  <1>2. IInv /\ [Next]_vars =>
          [\A r \in Registers :
             motors'[r] # motors[r] /\ motors'[r] # 0 => rx.key = key /\ ~rx.set_key]_vars
    BY <1>1
  <1> QED BY Inductive, <1>2, PTL DEF Spec, OnlyKeyedPacketsDrive

-----------------------------------------------------------------------------
(* While the bump message is on its way, the radio listens on the address  *)
(* in RAM: nrf24_listen, called when the message is out, changes nothing.  *)
InTune == pc = "reporting" => nrf.rxAddr = nrf.address

(* Every other step leaves both addresses alone.                           *)
LEMMA AddressKept ==
  ASSUME TypeOK, [Next]_vars, ~Pace, ~Report, ~Lock
  PROVE  nrf'.rxAddr = nrf.rxAddr /\ nrf'.address = nrf.address
  <1>1. CASE Receive \/ Clear
    <2>1. nrf' \in {nrf, ReadPayload(nrf), ReadClear(nrf)}
      BY <1>1 DEF Receive, Clear
    <2> QED BY <2>1 DEF TypeOK, Radio, ReadPayload, ReadClear
  <1>2. CASE Answered
    <2>1. nrf' \in {Acknowledged(nrf), GaveUp(nrf)}
      BY <1>2 DEF Answered
    <2> QED BY <2>1 DEF TypeOK, Radio, Acknowledged, GaveUp
  <1>3. CASE \E p \in HatPackets : Arrive(p)
    <2>1. PICK p \in HatPackets : nrf' = Store(nrf, p)
      BY <1>3 DEF Arrive
    <2> QED BY <2>1 DEF TypeOK, Radio, Store
  <1>4. CASE UNCHANGED nrf
    BY <1>4
  <1> QED
    BY <1>1, <1>2, <1>3, <1>4
    DEF Next, Loop, CheckBumper, Halt, SetKey, AcceptMove, RejectMove, Drive,
        CheckDeadline, Expire, vars

(* Only Report goes to "reporting", and it tunes the radio.                *)
LEMMA InTuneStep == ASSUME TypeOK, InTune, [Next]_vars PROVE InTune'
  <1>1. CASE Report
    BY <1>1 DEF Report, InTune, WriteStart, TypeOK, Radio
  <1>2. CASE Pace \/ Lock
    BY <1>2 DEF Pace, Lock, InTune
  <1>3. CASE ~Pace /\ ~Report /\ ~Lock
    <2>1. pc' = "reporting" => pc = "reporting"
      BY <1>3
      DEF Next, Loop, CheckBumper, Halt, Receive, Clear, SetKey, AcceptMove, RejectMove,
          Drive, CheckDeadline, Expire, WriteRegister, Answered, Arrive, vars
    <2> QED BY <1>3, <2>1, AddressKept DEF InTune
  <1> QED BY <1>1, <1>2, <1>3

(* The address switches act through bumps only, for every set of addresses *)
(* and every order of switching, bumping and receiving.                    *)
THEOREM BumpsRetune == Spec => RetunedByBumps
  <1>1. Init => InTune
    BY DEF Init, InTune
  <1>2. ASSUME TypeOK, InTune, [Next]_vars
        PROVE  /\ nrf'.rxAddr # nrf.rxAddr => pc = "report"
               /\ pc = "reporting" /\ pc' = "receive" => nrf'.rxAddr = nrf'.address
    <2>1. CASE Pace
      BY <1>2, <2>1 DEF Pace, SetAddress, TypeOK, Radio
    <2>2. CASE Report
      BY <2>2 DEF Report
    <2>3. CASE Lock
      BY <1>2, <2>3 DEF Lock, InTune, Listen, WriteEnd, TypeOK, Radio
    <2>4. CASE ~Pace /\ ~Report /\ ~Lock
      BY <1>2, <2>4, AddressKept DEF InTune
    <2> QED BY <2>1, <2>2, <2>3, <2>4
  <1>3. TypeOK /\ InTune /\ [Next]_vars =>
          InTune' /\ [/\ nrf'.rxAddr # nrf.rxAddr => pc = "report"
                      /\ pc = "reporting" /\ pc' = "receive" => nrf'.rxAddr = nrf'.address]_vars
    BY <1>2, InTuneStep
  <1> QED BY <1>1, <1>3, TypeCorrect, PTL DEF Spec, RetunedByBumps

-----------------------------------------------------------------------------
(* The refinement of DriveGuard, step by step.                             *)

(* The racer starts where the guard starts.                                *)
LEMMA GuardInit == Init => Guard!Init
  BY DEF Init, Guard!Init, Counting

(* An iteration's first step is a tick of the guard.                       *)
LEMMA GuardPace == ASSUME IInv, Pace PROVE Guard!Next
  <1>1. pc = "pace" /\ pc' = "bumper" /\ UNCHANGED <<motors, motor_timeout_counter>>
    BY DEF Pace
  <1>2. /\ motor_timeout_counter \in 0 .. CounterMax
        /\ waiting_counter \in Nat /\ holdoff_counter \in Nat
    BY RacerAssumption DEF IInv, TypeOK
  <1>3. CounterMax \in Nat
    BY RacerAssumption
  <1>4. Guard!TickNormal \/ Guard!TickLocked \/ Guard!TickHoldoff
    BY <1>2
    DEF Pace, StayNormal, CountWaiting, CountHoldoff, IInv, CountersRestart,
        Guard!TickNormal, Guard!TickLocked, Guard!TickHoldoff
  <1>5. Guard!Tick
    BY <1>1, <1>2, <1>3, <1>4 DEF Guard!Tick, Counting, IInv, StoppedAfterTimeout
  <1> QED BY <1>5 DEF Guard!Next

(* Writing zeros stops the car or leaves it as it is.                      *)
LEMMA GuardStop == ASSUME IInv, Halt \/ Expire PROVE [Guard!Next]_Guard!vars
  <1>1. motors \in [Registers -> Nat] /\ step \in 1 .. 4
    BY DEF IInv, TypeOK
  <1>2. \A i \in 1 .. 4 : StopOrder[i] \in Registers /\ Stopped[StopOrder[i]] = 0
    BY Orders DEF Stopped
  <1>3. motors' = [motors EXCEPT ![StopOrder[step]] = Stopped[StopOrder[step]]]
    BY DEF Halt, Expire, WriteRegister
  <1>4. motors = Stopped => motors' = Stopped
    BY <1>1, <1>2, <1>3 DEF Stopped
  <1>5. UNCHANGED <<state, waiting_counter, holdoff_counter, motor_timeout_counter>>
    BY DEF Halt, Expire
  <1>6. Counting' = Counting
    <2>1. CASE Halt
      BY <2>1 DEF Halt, WriteRegister, Counting
    <2>2. CASE Expire
      BY <2>2 DEF Expire, WriteRegister, Counting
    <2> QED BY <2>1, <2>2
  <1> QED BY <1>4, <1>5, <1>6 DEF Guard!Next, Guard!Halt, Guard!vars

(* The motors start only in Drive, with a packet accepted just now.        *)
LEMMA GuardDrive == ASSUME IInv, Drive PROVE [Guard!Next]_Guard!vars
  <1>1. pc = "drive" /\ pc' \in {"drive", "deadline"} /\ motor_timeout_counter = 0
    BY DEF Drive, WriteRegister, IInv, DriveProgress
  <1>2. state # "BUMPER_WAITING"
    BY DEF Drive, WriteRegister, IInv, DriveProgress
  <1>3. UNCHANGED <<state, waiting_counter, holdoff_counter, motor_timeout_counter>>
    BY DEF Drive
  <1>4. Guard!Drive
    BY <1>1, <1>2, <1>3 DEF Guard!Drive, Counting
  <1> QED BY <1>4 DEF Guard!Next

(* The car is locked when it stands and is not locked already.             *)
LEMMA GuardLock == ASSUME IInv, Lock PROVE [Guard!Next]_Guard!vars
  <1>1. motors = Stopped /\ state \in States /\ state # "BUMPER_HOLDOFF"
    BY DEF Lock, IInv, TypeOK, BumpProgress
  <1>2. /\ state' = "BUMPER_WAITING" /\ pc = "reporting" /\ pc' = "receive"
        /\ UNCHANGED <<motors, waiting_counter, holdoff_counter, motor_timeout_counter>>
    BY DEF Lock
  <1> QED
    BY <1>1, <1>2 DEF States, Counting, Guard!Next, Guard!Lock, Guard!vars

(* Accepting a packet makes its age zero.                                  *)
LEMMA GuardAccept == ASSUME IInv, SetKey \/ AcceptMove PROVE [Guard!Next]_Guard!vars
  <1>1. /\ pc = "accept" /\ pc' \in {"drive", "deadline"}
        /\ motor_timeout_counter' = 0
        /\ UNCHANGED <<motors, state, waiting_counter, holdoff_counter>>
    BY DEF SetKey, AcceptMove
  <1>2. Guard!Refresh
    BY <1>1 DEF Guard!Refresh, Counting
  <1> QED BY <1>2 DEF Guard!Next

(* The other steps change nothing the guard sees; nrf24_read is where the  *)
(* loop counts the iteration that Pace has already ticked.                 *)
LEMMA GuardStutter ==
  ASSUME IInv,
         \/ \E pressed \in BOOLEAN : CheckBumper(pressed)
         \/ Report \/ Receive \/ Clear \/ RejectMove \/ CheckDeadline
         \/ \E p \in HatPackets : Arrive(p)
         \/ Answered
         \/ UNCHANGED vars
  PROVE  UNCHANGED Guard!vars
  <1>1. UNCHANGED <<motors, state, waiting_counter, holdoff_counter>>
    BY DEF CheckBumper, Report, Receive, Clear, RejectMove, CheckDeadline, Arrive, Answered, vars
  <1>2. CASE Receive
    BY <1>1, <1>2 DEF Receive, Counting, Guard!vars
  <1>3. CASE ~Receive
    <2>1. UNCHANGED motor_timeout_counter /\ Counting' = Counting
      BY <1>3
      DEF CheckBumper, Report, Clear, RejectMove, CheckDeadline, Arrive, Answered, vars, Counting
    <2> QED BY <1>1, <2>1 DEF Guard!vars
  <1> QED BY <1>2, <1>3

(* The racer implements DriveGuard.                                        *)
THEOREM RacerImplementsGuard == Spec => ImplementsGuard
  <1>1. IInv /\ [Next]_vars => [Guard!Next]_Guard!vars
    <2> SUFFICES ASSUME IInv, [Next]_vars PROVE [Guard!Next]_Guard!vars
      OBVIOUS
    <2>1. CASE Pace
      BY <2>1, GuardPace
    <2>2. CASE Halt \/ Expire
      BY <2>2, GuardStop
    <2>3. CASE Drive
      BY <2>3, GuardDrive
    <2>4. CASE Lock
      BY <2>4, GuardLock
    <2>5. CASE SetKey \/ AcceptMove
      BY <2>5, GuardAccept
    <2>6. CASE \/ \E pressed \in BOOLEAN : CheckBumper(pressed)
               \/ Report \/ Receive \/ Clear \/ RejectMove \/ CheckDeadline
               \/ \E p \in HatPackets : Arrive(p)
               \/ Answered
               \/ UNCHANGED vars
      BY <2>6, GuardStutter
    <2> QED BY <2>1, <2>2, <2>3, <2>4, <2>5, <2>6 DEF Next, Loop
  <1>2. Guard!Spec <=> Guard!Init /\ [][Guard!Next]_Guard!vars
    BY DEF Guard!Spec
  <1> QED BY GuardInit, <1>1, <1>2, Inductive, PTL DEF Spec, ImplementsGuard
=============================================================================
