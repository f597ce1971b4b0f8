------------------------- MODULE WackyRacersProofs -------------------------
(***************************************************************************)
(* Proofs about the whole system, for every number of keys, every command  *)
(* set, address set and FIFO depth.                                        *)
(*                                                                         *)
(* The hat, with its radio, is a hat as the racer's own proofs assume it   *)
(* (HatInv): so the racer in the system is a behaviour of Racer            *)
(* (RacerInContext), and what RacerProofs shows of it holds here.  On top  *)
(* of both, the keys on their way from the hat to the racer are in order   *)
(* (KeysInOrder).                                                          *)
(***************************************************************************)
EXTENDS WackyRacers, TLAPS

RP == INSTANCE RacerProofs WITH Keys <- 0 .. MaxKeys

(* The operators of the driver and the chip keep a radio a radio.          *)
LEMMA DriverTypes ==
  ASSUME NEW A, NEW P, NEW r \in Radio(A, P)
  PROVE  /\ Listen(r) \in Radio(A, P)
         /\ WriteStart(r) \in Radio(A, P)
         /\ WriteEnd(r) \in Radio(A, P)
         /\ ReadClear(r) \in Radio(A, P)
         /\ Acknowledged(r) \in Radio(A, P)
         /\ GaveUp(r) \in Radio(A, P)
  BY << >> \in Seq(P)
  DEF Listen, WriteStart, WriteEnd, ReadClear, Acknowledged, GaveUp, Radio

(* The oldest payload is taken out of a FIFO that is not empty.            *)
LEMMA ReadPayloadType ==
  ASSUME NEW A, NEW P, NEW r \in Radio(A, P), r.rxFifo # << >>
  PROVE  ReadPayload(r) \in Radio(A, P) /\ Head(r.rxFifo) \in P
  <1>1. r.rxFifo \in Seq(P)
    BY DEF Radio
  <1>2. Tail(r.rxFifo) \in Seq(P) /\ Head(r.rxFifo) \in P
    BY <1>1
  <1> QED BY <1>2 DEF ReadPayload, Radio

(* A payload that came over the air is stored behind the others.           *)
LEMMA StoreType ==
  ASSUME NEW A, NEW P, NEW r \in Radio(A, P), NEW p \in P
  PROVE  Store(r, p) \in Radio(A, P) /\ Store(r, p).rxFifo # << >>
  <1>1. r.rxFifo \in Seq(P)
    BY DEF Radio
  <1>2. Append(r.rxFifo, p) \in Seq(P) /\ Append(r.rxFifo, p) # << >>
    BY <1>1
  <1> QED BY <1>2 DEF Store, Radio

-----------------------------------------------------------------------------
(* The instance of Racer and that of its proofs are the same program.      *)
LEMMA SameInit == R!Init <=> RP!Init
  BY DEF R!Init, RP!Init, R!Begin, RP!Begin, R!Listen, RP!Listen, R!NoPacket,
         RP!NoPacket, R!Stopped, RP!Stopped, R!Registers, RP!Registers

(* The instance of Racer and that of its proofs take the same steps.       *)
LEMMA SameNext == R!Next <=> RP!Next
  <1>1. R!Pace <=> RP!Pace
    BY DEF R!Pace, RP!Pace, R!StayNormal, RP!StayNormal, R!CountWaiting,
           RP!CountWaiting, R!CountHoldoff, RP!CountHoldoff, R!SetAddress,
           RP!SetAddress, R!NoPacket, RP!NoPacket, R!Stopped, RP!Stopped,
           R!Registers, RP!Registers
  <1>2. R!Halt <=> RP!Halt
    BY DEF R!Halt, RP!Halt, R!WriteRegister, RP!WriteRegister, R!StopOrder,
           RP!StopOrder, R!Stopped, RP!Stopped, R!Registers, RP!Registers
  <1>3. R!Report <=> RP!Report
    BY DEF R!Report, RP!Report, R!WriteStart, RP!WriteStart
  <1>4. R!Lock <=> RP!Lock
    BY DEF R!Lock, RP!Lock, R!Listen, RP!Listen, R!WriteEnd, RP!WriteEnd
  <1>5. R!Receive <=> RP!Receive
    BY DEF R!Receive, RP!Receive, R!IsDataReady, RP!IsDataReady, R!IrqAsserted,
           RP!IrqAsserted, R!ReadPayload, RP!ReadPayload
  <1>6. R!Clear <=> RP!Clear
    BY DEF R!Clear, RP!Clear, R!ReadClear, RP!ReadClear, R!FifoStatusZero,
           RP!FifoStatusZero
  <1>7. R!SetKey <=> RP!SetKey
    BY DEF R!SetKey, RP!SetKey
  <1>8. R!AcceptMove <=> RP!AcceptMove
    BY DEF R!AcceptMove, RP!AcceptMove
  <1>9. R!RejectMove <=> RP!RejectMove
    BY DEF R!RejectMove, RP!RejectMove
  <1>10. R!Drive <=> RP!Drive
    BY DEF R!Drive, RP!Drive, R!WriteRegister, RP!WriteRegister, R!DriveOrder,
           RP!DriveOrder
  <1>11. R!CheckDeadline <=> RP!CheckDeadline
    BY DEF R!CheckDeadline, RP!CheckDeadline
  <1>12. R!Expire <=> RP!Expire
    BY DEF R!Expire, RP!Expire, R!WriteRegister, RP!WriteRegister, R!StopOrder,
           RP!StopOrder, R!Stopped, RP!Stopped, R!Registers, RP!Registers
  <1>13. R!Answered <=> RP!Answered
    BY DEF R!Answered, RP!Answered, R!Acknowledged, RP!Acknowledged, R!GaveUp,
           RP!GaveUp
  <1>14. \A pressed \in BOOLEAN : R!CheckBumper(pressed) <=> RP!CheckBumper(pressed)
    BY DEF R!CheckBumper, RP!CheckBumper
  <1>15. R!HatPackets = RP!HatPackets
    BY DEF R!HatPackets, RP!HatPackets, R!Packets, RP!Packets, R!Stopped,
           RP!Stopped, R!Registers, RP!Registers
  <1>16. \A p \in R!HatPackets : R!Arrive(p) <=> RP!Arrive(p)
    BY DEF R!Arrive, RP!Arrive, R!Hears, RP!Hears, R!HasRoom, RP!HasRoom, R!Store,
           RP!Store
  <1> QED
    BY <1>1, <1>2, <1>3, <1>4, <1>5, <1>6, <1>7, <1>8, <1>9, <1>10, <1>11, <1>12,
       <1>13, <1>14, <1>15, <1>16
    DEF R!Next, RP!Next, R!Loop, RP!Loop

(* The constants of the system are as the racer's proofs assume them.      *)
LEMMA RacerConstants == RP!RacerAssumption
  BY SystemAssumption
  DEF RP!RacerAssumption, RP!Registers, RP!Stopped, R!Registers, R!Stopped

(* What the racer's proofs show of it alone.                               *)
LEMMA RacerInductive == R!Spec => []RP!IInv
  <1>1. RP!Spec => []RP!IInv
    BY RacerConstants, FifoDepthAssumption, RP!Inductive, PTL DEF RP!RacerAssumption
  <1>2. R!Init => RP!Init
    BY SameInit
  <1>3. [R!Next]_R!vars => [RP!Next]_RP!vars
    BY SameNext DEF R!vars, RP!vars
  <1> QED BY <1>1, <1>2, <1>3, PTL DEF R!Spec, RP!Spec

-----------------------------------------------------------------------------
(* What holds of the hat, whatever the racer does.                         *)
HatTypes ==
  /\ hat_nrf \in Radio({HatAddress}, {Bump})
  /\ enabled \in [leds : BOOLEAN, imu_control : BOOLEAN, joystick_control : BOOLEAN]
  /\ control_from_imu \in BOOLEAN
  /\ lfsr_key \in 1 .. MaxKeys
  /\ outgoing \in R!HatPackets

(* RX_DR is only latched while there is a payload, except in the middle of *)
(* nrf24_read.                                                             *)
HatReady ==
  hat_nrf.rxDr /\ task \notin {"melody_due", "reading"} => hat_nrf.rxFifo # << >>

(* What the chip is transmitting carries the hat's key of now: a task has  *)
(* the chip stopped before another one can make a new key.                 *)
SendsCurrentKey ==
  hat_nrf.sending => task = "polling" /\ outgoing.key = lfsr_key

HatInv == HatTypes /\ OneControlTask /\ HatReady /\ SendsCurrentKey

(* Every packet of the hat is a packet as the racer's proofs assume it.    *)
LEMMA HatPacketTypes ==
  ASSUME NEW k \in 0 .. MaxKeys
  PROVE  /\ H!KeyPacket(k) \in R!HatPackets /\ H!KeyPacket(k).key = k
         /\ \A c \in Commands, s \in Positions :
              /\ H!MovePacket(k, c, s) \in R!HatPackets
              /\ H!MovePacket(k, c, s).key = k
  BY SystemAssumption
  DEF H!KeyPacket, H!MovePacket, R!HatPackets, R!Packets, R!Stopped, R!Registers

(* The state in which both programs enter their loops.                     *)
LEMMA InitHatInv == Init => HatInv
  <1> SUFFICES ASSUME Init PROVE HatInv
    OBVIOUS
  <1> USE DEF Init, H!Init
  <1>1. hat_nrf = Begin(HatAddress)
    BY DEF H!Begin, Begin
  <1>2. hat_nrf \in Radio({HatAddress}, {Bump})
    <2>1. << >> \in Seq({Bump})
      OBVIOUS
    <2> QED BY <1>1, <2>1 DEF Begin, Radio
  <1>3. outgoing \in R!HatPackets
    BY HatPacketTypes, SystemAssumption DEF H!NoPacket
  <1>4. HatTypes
    BY <1>2, <1>3, SystemAssumption DEF HatTypes
  <1>5. HatReady /\ SendsCurrentKey
    BY <1>1 DEF HatReady, SendsCurrentKey, Begin
  <1> QED BY <1>4, <1>5 DEF HatInv, OneControlTask

(* A task that hands a packet with the key of now to the radio.            *)
LEMMA TransmitStep ==
  ASSUME HatInv, task = "kernel", NEW p, p \in R!HatPackets, p.key = lfsr_key',
         lfsr_key' \in 1 .. MaxKeys, H!Transmit(p),
         UNCHANGED <<enabled, control_from_imu>>
  PROVE  HatInv'
  <1>1. hat_nrf \in Radio({HatAddress}, {Bump})
    BY DEF HatInv, HatTypes
  <1>2. hat_nrf' \in Radio({HatAddress}, {Bump}) /\ hat_nrf'.rxDr = hat_nrf.rxDr
        /\ hat_nrf'.rxFifo = hat_nrf.rxFifo
    <2>1. WriteStart(hat_nrf) \in Radio({HatAddress}, {Bump})
      BY <1>1, DriverTypes
    <2>2. hat_nrf' \in {hat_nrf, WriteStart(hat_nrf)}
      BY DEF H!Transmit, H!WriteStart, WriteStart
    <2> QED BY <1>1, <2>1, <2>2 DEF WriteStart, Radio
  <1>3. task' \in {"polling", "hung"}
    BY DEF H!Transmit
  <1>4. hat_nrf'.sending => task' = "polling"
    BY DEF HatInv, SendsCurrentKey, H!Transmit
  <1>5. outgoing' = p
    BY DEF H!Transmit
  <1> QED
    BY <1>2, <1>3, <1>4, <1>5
    DEF HatInv, HatTypes, HatReady, SendsCurrentKey, OneControlTask

(* The tasks that transmit.                                                *)
LEMMA SendingTasks ==
  ASSUME HatInv, H!generate_key_task \/ H!imu_control_task \/ H!joystick_control_task
  PROVE  HatInv'
  <1>1. lfsr_key \in 1 .. MaxKeys /\ MaxKeys \in Nat
    BY SystemAssumption DEF HatInv, HatTypes
  <1>2. CASE H!generate_key_task
    <2>1. lfsr_key + 1 \in 1 .. MaxKeys /\ lfsr_key + 1 \in 0 .. MaxKeys
      BY <1>1, <1>2 DEF H!generate_key_task
    <2> QED BY <1>2, <2>1, HatPacketTypes, TransmitStep DEF H!generate_key_task
  <1>3. CASE H!imu_control_task \/ H!joystick_control_task
    <2>1. PICK c \in Commands, s \in Positions : H!Transmit(H!MovePacket(lfsr_key, c, s))
      BY <1>3 DEF H!imu_control_task, H!joystick_control_task
    <2>2. /\ task = "kernel" /\ lfsr_key' = lfsr_key
          /\ UNCHANGED <<enabled, control_from_imu>>
      BY <1>3 DEF H!imu_control_task, H!joystick_control_task
    <2>3. lfsr_key \in 0 .. MaxKeys
      BY <1>1
    <2> QED BY <1>1, <2>1, <2>2, <2>3, HatPacketTypes, TransmitStep
  <1> QED BY <1>2, <1>3

(* The hat's part of nrf24_write ends, or a key packet was never begun.    *)
LEMMA TransmitDoneStep == ASSUME HatInv, H!TransmitDone PROVE HatInv'
  <1>1. hat_nrf' = Listen(WriteEnd(hat_nrf))
    BY DEF H!TransmitDone, H!Listen, H!WriteEnd, Listen, WriteEnd
  <1>2. /\ WriteEnd(hat_nrf) \in Radio({HatAddress}, {Bump})
        /\ hat_nrf' \in Radio({HatAddress}, {Bump})
    BY <1>1, DriverTypes DEF HatInv, HatTypes
  <1>3. ~hat_nrf'.rxDr /\ ~hat_nrf'.sending
    BY <1>1, <1>2 DEF Listen, Radio
  <1> QED
    BY <1>2, <1>3
    DEF H!TransmitDone, HatInv, HatTypes, HatReady, SendsCurrentKey, OneControlTask

(* The two steps of switching from one control task to the other.          *)
LEMMA SwitchSteps ==
  ASSUME HatInv,
         \/ \E button \in BOOLEAN : H!change_control_method_task(button)
         \/ H!SwitchControl
  PROVE  HatInv'
  <1>1. CASE \E button \in BOOLEAN : H!change_control_method_task(button)
    <2>1. /\ task = "kernel" /\ task' \in {"kernel", "switching"}
          /\ control_from_imu' \in BOOLEAN
          /\ task' = "kernel" => control_from_imu' = control_from_imu
          /\ UNCHANGED <<outgoing, lfsr_key, enabled, hat_nrf>>
      BY <1>1 DEF H!change_control_method_task, HatInv, HatTypes
    <2> QED
      BY <2>1 DEF HatInv, HatTypes, HatReady, SendsCurrentKey, OneControlTask
  <1>2. CASE H!SwitchControl
    BY <1>2
    DEF H!SwitchControl, HatInv, HatTypes, HatReady, SendsCurrentKey, OneControlTask
  <1> QED BY <1>1, <1>2

(* Reading a message of the racer.                                         *)
LEMMA BumperSteps ==
  ASSUME HatInv, H!check_bumber_task \/ H!BumperRead \/ H!MelodyEnds
  PROVE  HatInv'
  <1>1. hat_nrf \in Radio({HatAddress}, {Bump})
    BY DEF HatInv, HatTypes
  <1>2. UNCHANGED <<outgoing, lfsr_key, enabled, control_from_imu>>
    BY DEF H!check_bumber_task, H!BumperRead, H!MelodyEnds
  <1>3. ~hat_nrf.sending /\ task # "switching"
    BY DEF HatInv, SendsCurrentKey, H!check_bumber_task, H!BumperRead, H!MelodyEnds
  <1>4. ASSUME hat_nrf' \in Radio({HatAddress}, {Bump}), ~hat_nrf'.sending, HatReady',
               task' # "switching"
        PROVE  HatInv'
    BY <1>2, <1>3, <1>4 DEF HatInv, HatTypes, SendsCurrentKey, OneControlTask
  <1>5. CASE H!check_bumber_task /\ powered
    <2>1. hat_nrf.rxFifo # << >>
      BY <1>5 DEF H!check_bumber_task, H!IsDataReady, HatInv, HatReady
    <2>2. hat_nrf' = ReadPayload(hat_nrf)
      BY <1>5 DEF H!check_bumber_task, H!ReadPayload, ReadPayload
    <2>3. hat_nrf' \in Radio({HatAddress}, {Bump}) /\ ~hat_nrf'.sending
      BY <1>1, <1>3, <2>1, <2>2, ReadPayloadType DEF ReadPayload, Radio
    <2>4. task' \in {"melody_due", "reading"}
      BY <1>5 DEF H!check_bumber_task
    <2> QED BY <1>4, <2>3, <2>4 DEF HatReady
  <1>6. CASE H!BumperRead
    <2>1. hat_nrf' = ReadClear(hat_nrf)
      BY <1>6 DEF H!BumperRead, H!ReadClear, ReadClear
    <2>2. hat_nrf' \in Radio({HatAddress}, {Bump})
      BY <1>1, <2>1, DriverTypes
    <2>3. ~hat_nrf'.sending /\ ~hat_nrf'.rxDr
      BY <1>1, <1>3, <2>1 DEF ReadClear, Radio
    <2>4. task' # "switching"
      BY <1>6 DEF H!BumperRead
    <2> QED BY <1>4, <2>2, <2>3, <2>4 DEF HatReady
  <1>7. CASE (H!check_bumber_task /\ ~powered) \/ H!MelodyEnds
    <2>1. hat_nrf' = hat_nrf /\ task' \in {"hung", "kernel"} /\ HatReady'
      BY <1>7 DEF H!check_bumber_task, H!MelodyEnds, HatInv, HatReady
    <2> QED BY <1>1, <1>3, <1>4, <2>1
  <1> QED BY <1>5, <1>6, <1>7

(* Going to sleep and waking up.                                           *)
LEMMA SleepSteps ==
  ASSUME HatInv,
         (\E button \in BOOLEAN : H!check_sleep_mode_task(button)) \/ H!WakeUp
  PROVE  HatInv'
  <1>1. UNCHANGED <<outgoing, lfsr_key, control_from_imu>>
    BY DEF H!check_sleep_mode_task, H!WakeUp
  <1>2. /\ task \in {"kernel", "asleep"} /\ task' \in {"kernel", "asleep"}
        /\ hat_nrf' \in {hat_nrf, [hat_nrf EXCEPT !.ce = FALSE]}
        /\ \/ enabled' = enabled
           \/ \E lit \in BOOLEAN : enabled' = [enabled EXCEPT !.leds = lit]
    BY DEF H!check_sleep_mode_task, H!WakeUp
  <1>3. /\ hat_nrf' \in Radio({HatAddress}, {Bump})
        /\ hat_nrf'.rxDr = hat_nrf.rxDr /\ hat_nrf'.rxFifo = hat_nrf.rxFifo
        /\ hat_nrf'.sending = hat_nrf.sending
    BY <1>2 DEF HatInv, HatTypes, Radio
  <1>4. /\ enabled' \in [leds : BOOLEAN, imu_control : BOOLEAN, joystick_control : BOOLEAN]
        /\ enabled'.imu_control = enabled.imu_control
        /\ enabled'.joystick_control = enabled.joystick_control
    BY <1>2 DEF HatInv, HatTypes
  <1> QED
    BY <1>1, <1>2, <1>3, <1>4
    DEF HatInv, HatTypes, HatReady, SendsCurrentKey, OneControlTask

(* What the air does to the hat's radio.                                   *)
LEMMA AirSteps == ASSUME HatInv, AirToRacer \/ AirToHat \/ Lost PROVE HatInv'
  <1>1. hat_nrf \in Radio({HatAddress}, {Bump})
    BY DEF HatInv, HatTypes
  <1>2. UNCHANGED <<task, lfsr_key, enabled, control_from_imu>>
    BY DEF AirToRacer, AirToHat, Lost
  <1>3. H!NoPacket \in R!HatPackets
    BY HatPacketTypes, SystemAssumption DEF H!NoPacket
  <1>4. /\ Acknowledged(hat_nrf) \in Radio({HatAddress}, {Bump})
        /\ GaveUp(hat_nrf) \in Radio({HatAddress}, {Bump})
        /\ Store(hat_nrf, Bump) \in Radio({HatAddress}, {Bump})
        /\ Store(hat_nrf, Bump).rxFifo # << >>
    BY <1>1, DriverTypes, StoreType
  <1>5. CASE hat_nrf' \in {Acknowledged(hat_nrf), GaveUp(hat_nrf)} /\ outgoing' = H!NoPacket
    <2>1. ~hat_nrf'.sending /\ hat_nrf'.rxDr = hat_nrf.rxDr /\ hat_nrf'.rxFifo = hat_nrf.rxFifo
      BY <1>1, <1>5 DEF Acknowledged, GaveUp, Radio
    <2> QED
      BY <1>2, <1>3, <1>4, <1>5, <2>1
      DEF HatInv, HatTypes, HatReady, SendsCurrentKey, OneControlTask
  <1>6. CASE hat_nrf' = Store(hat_nrf, Bump) /\ outgoing' = outgoing
    <2>1. hat_nrf'.sending = hat_nrf.sending
      BY <1>1, <1>6 DEF Store, Radio
    <2> QED
      BY <1>2, <1>4, <1>6, <2>1
      DEF HatInv, HatTypes, HatReady, SendsCurrentKey, OneControlTask
  <1>7. CASE UNCHANGED <<hat_nrf, outgoing>>
    BY <1>2, <1>7 DEF HatInv, HatTypes, HatReady, SendsCurrentKey, OneControlTask
  <1> QED BY <1>5, <1>6, <1>7 DEF AirToRacer, AirToHat, Lost

(* The invariant of the hat is inductive.                                  *)
THEOREM HatInductive == Spec => []HatInv
  <1>1. HatInv /\ [Next]_vars => HatInv'
    <2> SUFFICES ASSUME HatInv, [Next]_vars PROVE HatInv'
      OBVIOUS
    <2>1. CASE RacerStep \/ UNCHANGED vars
      <3>1. UNCHANGED hatVars
        BY <2>1 DEF RacerStep, vars
      <3> QED
        BY <3>1
        DEF hatVars, HatInv, HatTypes, HatReady, SendsCurrentKey, OneControlTask
    <2>2. CASE HatStep
      BY <2>2, SendingTasks, TransmitDoneStep, SwitchSteps, BumperSteps, SleepSteps
      DEF HatStep, H!Next, H!Tasks, H!Continue
    <2>3. CASE AirToRacer \/ AirToHat \/ Lost
      BY <2>3, AirSteps
    <2> QED BY <2>1, <2>2, <2>3 DEF Next
  <1> QED BY InitHatInv, <1>1, PTL DEF Spec

(* Between two tasks exactly the control task that control_from_imu names  *)
(* is enabled.                                                             *)
THEOREM ControlIsExclusive == Spec => []OneControlTask
  BY HatInductive, PTL DEF HatInv

-----------------------------------------------------------------------------
(* The racer in the system is a racer with the most general hat: its own   *)
(* steps are steps of the loop, what reaches its chip is a packet of a hat *)
(* on the address HatAddress, and the rest it does not see.                *)
THEOREM RacerInContext == Spec => RacerContext
  <1>1. ASSUME HatInv, [Next]_vars PROVE [R!Next]_R!vars
    <2>1. CASE RacerStep
      BY <2>1 DEF RacerStep, R!Next
    <2>2. CASE HatStep \/ UNCHANGED vars
      BY <2>2 DEF HatStep, racerVars, R!vars, vars
    <2>3. CASE AirToRacer
      <3>1. hat_nrf.txAddr = HatAddress /\ outgoing \in R!HatPackets
        BY <1>1 DEF HatInv, HatTypes, Radio
      <3>2. R!Arrive(outgoing)
        BY <2>3, <3>1
        DEF AirToRacer, R!Arrive, R!Hears, Hears, R!HasRoom, HasRoom, R!Store, Store
      <3> QED BY <3>1, <3>2 DEF R!Next
    <2>4. CASE AirToHat \/ Lost
      BY <2>4
      DEF AirToHat, Lost, R!Next, R!Answered, R!vars, R!Acknowledged, Acknowledged,
          R!GaveUp, GaveUp
    <2> QED BY <1>1, <2>1, <2>2, <2>3, <2>4 DEF Next
  <1>2. Init => R!Init
    BY DEF Init
  <1> QED BY <1>1, <1>2, HatInductive, PTL DEF Spec, RacerContext, R!Spec

(* What the racer's proofs show of it alone holds in the system, with the  *)
(* real hat: its invariant, and with it the stops.                         *)
THEOREM RacerSafeInSystem ==
  Spec => [](R!StoppedWhileWaiting /\ R!StoppedAfterTimeout)
  <1>1. RP!IInv => R!StoppedWhileWaiting /\ R!StoppedAfterTimeout
    BY DEF RP!IInv, RP!StoppedWhileWaiting, RP!StoppedAfterTimeout, RP!Stopped,
           RP!Registers,
           R!StoppedWhileWaiting, R!StoppedAfterTimeout, R!Stopped, R!Registers
  <1> QED BY <1>1, RacerInContext, RacerInductive, PTL DEF RacerContext

-----------------------------------------------------------------------------
(* The keys on their way: what waits in the racer's chip carries keys of   *)
(* the hat in the order it made them, none older than the racer's.         *)
FifoInOrder ==
  /\ \A n \in 1 .. Len(nrf.rxFifo) : nrf.rxFifo[n].key \in (1 .. lfsr_key) \cap (key .. lfsr_key)
  /\ \A m, n \in 1 .. Len(nrf.rxFifo) : m <= n => nrf.rxFifo[m].key <= nrf.rxFifo[n].key

(* The packet in hand is not older than the racer's key, and what waits    *)
(* behind it is not older than it.                                         *)
HandInOrder ==
  pc \in {"clear", "accept"} =>
    /\ rx.key \in (1 .. lfsr_key) \cap (key .. lfsr_key)
    /\ \A n \in 1 .. Len(nrf.rxFifo) : rx.key <= nrf.rxFifo[n].key

KeyTypes == key \in 0 .. lfsr_key /\ lfsr_key \in 1 .. MaxKeys

(* A racer without a key of the hat stands and is not about to drive.      *)
KeylessStands == key = 0 => motors = R!Stopped /\ pc # "drive"

KeysInOrder == KeyTypes /\ FifoInOrder /\ HandInOrder /\ KeylessStands

(* The two programs enter their loops with no key on its way.              *)
LEMMA InitKeys == Init => KeysInOrder
  BY SystemAssumption
  DEF Init, R!Init, H!Init, R!Listen, R!Begin, KeysInOrder, KeyTypes, FifoInOrder,
      HandInOrder, KeylessStands

(* The racer's radio, as the racer's proofs type it.                       *)
LEMMA RacerRadio ==
  ASSUME RP!IInv
  PROVE  /\ nrf \in Radio(Addresses, R!Packets)
         /\ pc # "clear" /\ nrf.rxDr => nrf.rxFifo # << >>
  BY DEF RP!IInv, RP!TypeOK, RP!ReadyHasPayload, RP!Radio, Radio, RP!Packets,
         R!Packets

(* Steps of the racer that take nothing out of the FIFO, take no key and   *)
(* write no register.                                                      *)
LEMMA KeysUndisturbed ==
  ASSUME KeysInOrder, UNCHANGED <<key, lfsr_key, motors, rx>>,
         nrf'.rxFifo = nrf.rxFifo \/ nrf'.rxFifo = << >>,
         pc' \in {"clear", "accept"} => pc \in {"clear", "accept"},
         pc' = "drive" => key # 0
  PROVE  KeysInOrder'
  <1>1. FifoInOrder'
    BY DEF KeysInOrder, KeyTypes, FifoInOrder
  <1>2. HandInOrder'
    BY DEF KeysInOrder, KeyTypes, HandInOrder
  <1> QED BY <1>1, <1>2 DEF KeysInOrder, KeyTypes, KeylessStands

(* The oldest packet is taken into the hand: what stays behind it is not   *)
(* older.                                                                  *)
LEMMA ReceiveKeys ==
  ASSUME KeysInOrder, RP!IInv, R!Receive, UNCHANGED lfsr_key
  PROVE  KeysInOrder'
  <1>1. CASE ~R!IsDataReady(nrf)
    BY <1>1, KeysUndisturbed DEF R!Receive
  <1>2. CASE R!IsDataReady(nrf)
    <2> DEFINE fifo == nrf.rxFifo
    <2>1. /\ nrf \in Radio(Addresses, R!Packets) /\ pc = "receive" /\ pc' = "clear"
          /\ rx' = Head(fifo) /\ nrf' = ReadPayload(nrf)
          /\ UNCHANGED <<key, lfsr_key, motors>>
      BY <1>2, RacerRadio DEF R!Receive, R!ReadPayload, ReadPayload
    <2>2. fifo # << >> /\ fifo \in Seq(R!Packets)
      BY <1>2, <2>1, RacerRadio DEF R!IsDataReady, R!IrqAsserted, Radio
    <2>3. nrf'.rxFifo = Tail(fifo)
      BY <2>1 DEF ReadPayload, Radio
    <2>4. /\ Len(nrf'.rxFifo) = Len(fifo) - 1 /\ Len(fifo) \in Nat \ {0}
          /\ \A n \in 1 .. Len(fifo) - 1 : nrf'.rxFifo[n] = fifo[n + 1]
          /\ rx' = fifo[1]
      BY <2>1, <2>2, <2>3
    <2>5. \A n \in 1 .. Len(nrf'.rxFifo) : n + 1 \in 1 .. Len(fifo) /\ nrf'.rxFifo[n] = fifo[n + 1]
      BY <2>4
    <2>6. \A n \in 1 .. Len(nrf'.rxFifo) :
            nrf'.rxFifo[n].key \in (1 .. lfsr_key) \cap (key .. lfsr_key)
      BY <2>5 DEF KeysInOrder, FifoInOrder
    <2>7. ASSUME NEW m \in 1 .. Len(nrf'.rxFifo), NEW n \in 1 .. Len(nrf'.rxFifo), m <= n
          PROVE  nrf'.rxFifo[m].key <= nrf'.rxFifo[n].key
      <3>1. m + 1 <= n + 1
        BY <2>4, <2>7
      <3> QED BY <2>5, <3>1 DEF KeysInOrder, FifoInOrder
    <2>8. FifoInOrder'
      BY <2>1, <2>6, <2>7 DEF FifoInOrder
    <2>9. HandInOrder'
      BY <2>1, <2>4 DEF KeysInOrder, FifoInOrder, HandInOrder
    <2> QED BY <2>1, <2>8, <2>9 DEF KeysInOrder, KeyTypes, KeylessStands
  <1> QED BY <1>1, <1>2

(* The packet in hand is obeyed or not: its key is the newest so far.      *)
LEMMA AcceptKeys ==
  ASSUME KeysInOrder, R!SetKey \/ R!AcceptMove \/ R!RejectMove, UNCHANGED lfsr_key
  PROVE  KeysInOrder'
  <1>1. CASE R!SetKey
    <2>1. /\ pc = "accept" /\ pc' = "deadline" /\ key' = rx.key
          /\ UNCHANGED <<lfsr_key, motors, nrf>>
      BY <1>1 DEF R!SetKey
    <2>2. rx.key \in 1 .. lfsr_key /\ \A n \in 1 .. Len(nrf.rxFifo) : rx.key <= nrf.rxFifo[n].key
      BY <2>1 DEF KeysInOrder, HandInOrder
    <2>3. FifoInOrder'
      BY <2>1, <2>2 DEF KeysInOrder, KeyTypes, FifoInOrder
    <2> QED BY <2>1, <2>2, <2>3 DEF KeysInOrder, KeyTypes, HandInOrder, KeylessStands
  <1>2. CASE R!AcceptMove \/ R!RejectMove
    <2>1. /\ pc = "accept" /\ pc' \in {"drive", "deadline"}
          /\ pc' = "drive" => key = rx.key
          /\ UNCHANGED <<key, lfsr_key, motors, rx, nrf>>
      BY <1>2 DEF R!AcceptMove, R!RejectMove
    <2>2. pc' = "drive" => key # 0
      BY <2>1 DEF KeysInOrder, HandInOrder
    <2> QED BY <2>1, <2>2, KeysUndisturbed
  <1> QED BY <1>1, <1>2

(* Writing registers: a racer without a key only stops.                    *)
LEMMA MotorKeys ==
  ASSUME KeysInOrder, R!Halt \/ R!Drive \/ R!Expire, UNCHANGED lfsr_key
  PROVE  KeysInOrder'
  <1>1. UNCHANGED <<key, lfsr_key, rx, nrf>>
    BY DEF R!Halt, R!Drive, R!Expire
  <1>2. pc \notin {"clear", "accept"} /\ pc' \notin {"clear", "accept"}
    BY DEF R!Halt, R!Drive, R!Expire, R!WriteRegister
  <1>3. KeylessStands'
    <2> SUFFICES ASSUME key = 0 PROVE motors' = R!Stopped /\ pc' # "drive"
      BY <1>1 DEF KeylessStands
    <2>1. motors = R!Stopped /\ pc # "drive"
      BY DEF KeysInOrder, KeylessStands
    <2>2. R!Halt \/ R!Expire
      BY <2>1 DEF R!Drive, R!WriteRegister
    <2>3. /\ motors' = [motors EXCEPT ![R!StopOrder[step]] = R!Stopped[R!StopOrder[step]]]
          /\ pc' # "drive"
      BY <2>2 DEF R!Halt, R!Expire, R!WriteRegister
    <2> QED BY <2>1, <2>3 DEF R!Stopped
  <1> QED
    BY <1>1, <1>2, <1>3 DEF KeysInOrder, KeyTypes, FifoInOrder, HandInOrder

(* Every step of the racer keeps the keys in order.                        *)
LEMMA RacerKeys == ASSUME KeysInOrder, RP!IInv, RacerStep PROVE KeysInOrder'
  <1>1. UNCHANGED lfsr_key /\ R!Loop
    BY DEF RacerStep, hatVars
  <1>2. nrf \in Radio(Addresses, R!Packets)
    BY RacerRadio
  <1>3. CASE R!Pace
    <2>1. PICK a \in Addresses : nrf' = SetAddress(nrf, a)
      BY <1>3 DEF R!Pace, R!SetAddress, SetAddress
    <2>2. nrf'.rxFifo = nrf.rxFifo
      BY <1>2, <2>1 DEF SetAddress, Radio
    <2>3. UNCHANGED <<key, motors>> /\ pc = "pace" /\ pc' = "bumper"
      BY <1>3 DEF R!Pace
    <2> QED
      BY <1>1, <2>2, <2>3
      DEF KeysInOrder, KeyTypes, FifoInOrder, HandInOrder, KeylessStands
  <1>4. CASE (\E pressed \in BOOLEAN : R!CheckBumper(pressed)) \/ R!CheckDeadline
    BY <1>1, <1>4, KeysUndisturbed DEF R!CheckBumper, R!CheckDeadline
  <1>5. CASE R!Report
    <2>1. nrf'.rxFifo = nrf.rxFifo
      BY <1>2, <1>5 DEF R!Report, R!WriteStart, Radio
    <2> QED BY <1>1, <1>5, <2>1, KeysUndisturbed DEF R!Report
  <1>6. CASE R!Lock
    <2>1. nrf' = Listen(WriteEnd(nrf))
      BY <1>6 DEF R!Lock, R!Listen, R!WriteEnd, Listen, WriteEnd
    <2>2. nrf'.rxFifo = << >>
      BY <1>2, <2>1 DEF Listen, WriteEnd, Radio
    <2> QED BY <1>1, <1>6, <2>2, KeysUndisturbed DEF R!Lock
  <1>7. CASE R!Clear
    <2>1. nrf'.rxFifo = nrf.rxFifo
      BY <1>2, <1>7 DEF R!Clear, R!ReadClear, Radio
    <2> QED BY <1>1, <1>7, <2>1, KeysUndisturbed DEF R!Clear
  <1>8. CASE R!Receive
    BY <1>8, <1>1, ReceiveKeys
  <1>9. CASE R!SetKey \/ R!AcceptMove \/ R!RejectMove
    BY <1>9, <1>1, AcceptKeys
  <1>10. CASE R!Halt \/ R!Drive \/ R!Expire
    BY <1>10, <1>1, MotorKeys
  <1> QED BY <1>1, <1>3, <1>4, <1>5, <1>6, <1>7, <1>8, <1>9, <1>10 DEF R!Loop

(* A packet of the hat joins the end of the racer's FIFO with the newest   *)
(* key there is; the other steps of the hat and of the air only make the   *)
(* hat's key newer.                                                        *)
LEMMA OtherKeys ==
  ASSUME KeysInOrder, HatInv, HatInv', RP!IInv,
         HatStep \/ AirToRacer \/ AirToHat \/ Lost
  PROVE  KeysInOrder'
  <1>1. nrf \in Radio(Addresses, R!Packets)
    BY RacerRadio
  <1>2. UNCHANGED <<pc, key, motors, rx>>
    BY DEF HatStep, AirToRacer, AirToHat, Lost, racerVars
  <1>3. /\ lfsr_key \in 1 .. MaxKeys /\ lfsr_key' \in 1 .. MaxKeys
        /\ key \in 0 .. lfsr_key /\ MaxKeys \in Nat
    BY SystemAssumption DEF HatInv, HatTypes, KeysInOrder, KeyTypes
  <1>4. CASE HatStep
    <2>1. nrf' = nrf
      BY <1>4 DEF HatStep, racerVars
    <2>2. lfsr_key' >= lfsr_key
      BY <1>3, <1>4
      DEF HatStep, H!Next, H!Tasks, H!Continue, H!generate_key_task, H!imu_control_task,
          H!joystick_control_task, H!change_control_method_task, H!check_bumber_task,
          H!check_sleep_mode_task, H!TransmitDone, H!SwitchControl, H!BumperRead,
          H!MelodyEnds, H!WakeUp
    <2>3. FifoInOrder'
      BY <1>2, <1>3, <2>1, <2>2 DEF KeysInOrder, FifoInOrder
    <2>4. HandInOrder'
      BY <1>2, <1>3, <2>1, <2>2 DEF KeysInOrder, HandInOrder
    <2> QED BY <1>2, <1>3, <2>2, <2>3, <2>4 DEF KeysInOrder, KeyTypes, KeylessStands
  <1>5. CASE AirToRacer
    <2> DEFINE fifo == nrf.rxFifo
    <2>1. fifo \in Seq(R!Packets) /\ outgoing \in R!Packets
      BY <1>1 DEF Radio, HatInv, HatTypes, R!HatPackets
    <2>2. nrf'.rxFifo = Append(fifo, outgoing) /\ lfsr_key' = lfsr_key
      BY <1>1, <1>5 DEF AirToRacer, Store, Radio
    <2>3. outgoing.key = lfsr_key
      BY <1>5 DEF AirToRacer, HatInv, SendsCurrentKey
    <2>4. /\ Len(nrf'.rxFifo) = Len(fifo) + 1 /\ Len(fifo) \in Nat
          /\ \A n \in 1 .. Len(fifo) : nrf'.rxFifo[n] = fifo[n]
          /\ nrf'.rxFifo[Len(fifo) + 1] = outgoing
      BY <2>1, <2>2
    <2>5. \A n \in 1 .. Len(fifo) + 1 : n \in 1 .. Len(fifo) \/ n = Len(fifo) + 1
      BY <2>4
    <2>6. \A n \in 1 .. Len(nrf'.rxFifo) :
            nrf'.rxFifo[n].key \in (1 .. lfsr_key) \cap (key .. lfsr_key)
      BY <1>3, <2>3, <2>4, <2>5 DEF KeysInOrder, FifoInOrder
    <2>7. ASSUME NEW m \in 1 .. Len(nrf'.rxFifo), NEW n \in 1 .. Len(nrf'.rxFifo), m <= n
          PROVE  nrf'.rxFifo[m].key <= nrf'.rxFifo[n].key
      <3>1. CASE n = Len(fifo) + 1
        <4>1. nrf'.rxFifo[m].key \in 1 .. lfsr_key
          BY <2>6
        <4> QED BY <1>3, <2>3, <2>4, <3>1, <4>1
      <3>2. CASE n # Len(fifo) + 1
        <4>1. n \in 1 .. Len(fifo) /\ m \in 1 .. Len(fifo)
          BY <2>4, <2>7, <3>2
        <4> QED BY <2>4, <2>7, <4>1 DEF KeysInOrder, FifoInOrder
      <3> QED BY <3>1, <3>2
    <2>8. HandInOrder'
      BY <1>2, <1>3, <2>2, <2>3, <2>4, <2>5 DEF KeysInOrder, HandInOrder
    <2> QED
      BY <1>2, <1>3, <2>2, <2>6, <2>7, <2>8
      DEF KeysInOrder, KeyTypes, FifoInOrder, KeylessStands
  <1>6. CASE AirToHat \/ Lost
    <2>1. lfsr_key' = lfsr_key
      BY <1>6 DEF AirToHat, Lost
    <2>2. nrf'.rxFifo = nrf.rxFifo
      BY <1>1, <1>6 DEF AirToHat, Lost, Acknowledged, GaveUp, Radio
    <2>3. pc' = "drive" => key # 0
      BY <1>2 DEF KeysInOrder, KeylessStands
    <2> QED BY <1>2, <2>1, <2>2, <2>3, KeysUndisturbed
  <1> QED BY <1>4, <1>5, <1>6

(* The keys stay in order.                                                 *)
THEOREM KeysInductive == Spec => []KeysInOrder
  <1>1. KeysInOrder /\ HatInv /\ HatInv' /\ RP!IInv /\ [Next]_vars => KeysInOrder'
    <2> SUFFICES ASSUME KeysInOrder, HatInv, HatInv', RP!IInv, [Next]_vars
                 PROVE  KeysInOrder'
      OBVIOUS
    <2>1. CASE RacerStep
      BY <2>1, RacerKeys
    <2>2. CASE HatStep \/ AirToRacer \/ AirToHat \/ Lost
      BY <2>2, OtherKeys
    <2>3. CASE UNCHANGED vars
      BY <2>3
      DEF vars, racerVars, hatVars, KeysInOrder, KeyTypes, FifoInOrder, HandInOrder,
          KeylessStands
    <2> QED BY <2>1, <2>2, <2>3 DEF Next
  <1>2. RacerContext => []RP!IInv
    BY RacerInductive DEF RacerContext
  <1> QED BY InitKeys, <1>1, <1>2, HatInductive, RacerInContext, PTL DEF Spec

(* Before it has a key from the hat the racer does not move.               *)
THEOREM KeylessCarStands == Spec => []NoKeyNoDrive
  <1>1. KeysInOrder => NoKeyNoDrive
    BY DEF KeysInOrder, KeylessStands, NoKeyNoDrive
  <1> QED BY <1>1, KeysInductive, PTL

(* No late or repeated packet brings an old key back.                      *)
THEOREM KeysNeverGoBack == Spec => KeysAdvance
  <1>1. ASSUME KeysInOrder, [Next]_vars PROVE key' >= key
    <2>1. key \in Nat
      BY <1>1 DEF KeysInOrder, KeyTypes
    <2>2. CASE RacerStep /\ R!SetKey
      BY <1>1, <2>2 DEF R!SetKey, KeysInOrder, KeyTypes, HandInOrder
    <2>3. CASE ~(RacerStep /\ R!SetKey)
      <3>1. key' = key
        BY <1>1, <2>3
        DEF Next, RacerStep, HatStep, AirToRacer, AirToHat, Lost, vars, racerVars, R!Loop,
            R!Pace, R!CheckBumper, R!Halt, R!Report, R!Lock, R!Receive, R!Clear,
            R!AcceptMove, R!RejectMove, R!Drive, R!CheckDeadline, R!Expire
      <3> QED BY <2>1, <3>1
    <2> QED BY <2>2, <2>3
  <1>2. KeysInOrder /\ [Next]_vars => [key' >= key]_vars
    BY <1>1
  <1> QED BY <1>2, KeysInductive, PTL DEF Spec, KeysAdvance
=============================================================================
