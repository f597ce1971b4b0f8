----------------------------- MODULE RadioLink -----------------------------
(***************************************************************************)
(* Two boards use the driver of module Nrf24 over the air.  Each board     *)
(* calls, in any order its program allows, nrf24_write followed by         *)
(* nrf24_listen, nrf24_read, and nrf24_set_address; the two chips and the  *)
(* loss of packets and acknowledgements interleave with every call.        *)
(*                                                                         *)
(* A payload is <<sender, serial>>, so that order, loss and duplication    *)
(* are visible.                                                            *)
(***************************************************************************)
EXTENDS Nrf24

CONSTANTS Addresses,     \* radio addresses the racer's switches select
          HomeAddress,   \* the address both boards start with (100)
          MaxWrites      \* bound: MaxWrites[n] calls of nrf24_write by board n

Node == {"hat", "racer"}

ASSUME LinkAssumption ==
  /\ HomeAddress \in Addresses
  /\ MaxWrites \in [Node -> Nat]

Payloads == Node \X (Nat \ {0})

VARIABLES
  radio,      \* radio[n]: the radio of board n
  pc,         \* pc[n]: where board n is in its driver call
  serial,     \* serial[n]: how many payloads board n has written
  stored,     \* stored[n]: the peer's chip has accepted the payload in the air
  result,     \* result[n]: what the last nrf24_write of n returned
  buffer,     \* buffer[n]: the payload nrf24_read of n took from the chip
  got         \* got[n]: the payloads nrf24_read returned to board n

vars == <<radio, pc, serial, stored, result, buffer, got>>

Peer(n) == IF n = "hat" THEN "racer" ELSE "hat"

(* nrf24_begin on both boards; the racer also listens before its loop, the *)
(* hat only after its first transmission.                                  *)
Init ==
  /\ radio = [n \in Node |-> IF n = "racer" THEN Listen(Begin(HomeAddress))
                                           ELSE Begin(HomeAddress)]
  /\ pc = [n \in Node |-> "idle"]
  /\ serial = [n \in Node |-> 0]
  /\ stored = [n \in Node |-> FALSE]
  /\ result = [n \in Node |-> FALSE]
  /\ buffer = [n \in Node |-> << >>]
  /\ got = [n \in Node |-> << >>]

(* The payload board n has handed to its chip last. *)
InAir(n) == <<n, serial[n]>>

(* Only the racer reads its switches again after its start. *)
SelectAddress(n) ==
  /\ n = "racer"
  /\ pc[n] = "idle"
  /\ \E a \in Addresses : radio' = [radio EXCEPT ![n] = SetAddress(@, a)]
  /\ UNCHANGED <<pc, serial, stored, result, buffer, got>>

StartWrite(n) ==
  /\ pc[n] = "idle"
  /\ serial[n] < MaxWrites[n]
  /\ pc' = [pc EXCEPT ![n] = "polling"]
  /\ serial' = [serial EXCEPT ![n] = @ + 1]
  /\ stored' = [stored EXCEPT ![n] = FALSE]
  /\ radio' = [radio EXCEPT ![n] = WriteStart(@)]
  /\ UNCHANGED <<result, buffer, got>>

(* The polling loop ends when the chip answered, or after WRITE_TIMEOUTS   *)
(* rounds (10 ms) whatever the chip is doing: its own 15 retries take      *)
(* longer than that.                                                       *)
EndWrite(n) ==
  /\ pc[n] = "polling"
  /\ pc' = [pc EXCEPT ![n] = "written"]
  /\ result' = [result EXCEPT ![n] = WriteSucceeded(radio[n])]
  /\ radio' = [radio EXCEPT ![n] = WriteEnd(@)]
  /\ UNCHANGED <<serial, stored, buffer, got>>

StartListen(n) ==
  /\ pc[n] = "written"
  /\ pc' = [pc EXCEPT ![n] = "idle"]
  /\ radio' = [radio EXCEPT ![n] = Listen(@)]
  /\ UNCHANGED <<serial, stored, result, buffer, got>>

StartRead(n) ==
  /\ pc[n] = "idle"
  /\ IsDataReady(radio[n])
  /\ pc' = [pc EXCEPT ![n] = "reading"]
  /\ buffer' = [buffer EXCEPT ![n] = <<Head(radio[n].rxFifo)>>]
  /\ radio' = [radio EXCEPT ![n] = ReadPayload(@)]
  /\ UNCHANGED <<serial, stored, result, got>>

EndRead(n) ==
  /\ pc[n] = "reading"
  /\ pc' = [pc EXCEPT ![n] = "idle"]
  /\ radio' = [radio EXCEPT ![n] = ReadClear(@)]
  /\ buffer' = [buffer EXCEPT ![n] = << >>]
  /\ got' = [got EXCEPT ![n] = IF FifoStatusZero(radio[n]) THEN @ ELSE @ \o buffer[n]]
  /\ UNCHANGED <<serial, stored, result>>

-----------------------------------------------------------------------------
(* The chips.  A retransmission the peer has already stored is recognised  *)
(* by its packet identity and acknowledged again, but not stored again.    *)

Reached(n) == radio[n].sending /\ Hears(radio[Peer(n)], radio[n].txAddr)

AirStore(n) ==
  /\ Reached(n)
  /\ ~stored[n]
  /\ HasRoom(radio[Peer(n)])
  /\ radio' = [radio EXCEPT ![Peer(n)] = Store(@, InAir(n))]
  /\ stored' = [stored EXCEPT ![n] = TRUE]
  /\ UNCHANGED <<pc, serial, result, buffer, got>>

AirAck(n) ==
  /\ Reached(n)
  /\ stored[n]
  /\ HearsAck(radio[n])
  /\ radio' = [radio EXCEPT ![n] = Acknowledged(@)]
  /\ UNCHANGED <<pc, serial, stored, result, buffer, got>>

AirGiveUp(n) ==
  /\ radio[n].sending
  /\ radio' = [radio EXCEPT ![n] = GaveUp(@)]
  /\ UNCHANGED <<pc, serial, stored, result, buffer, got>>

Next ==
  \E n \in Node :
    \/ SelectAddress(n)
    \/ StartWrite(n)
    \/ EndWrite(n)
    \/ StartListen(n)
    \/ StartRead(n)
    \/ EndRead(n)
    \/ AirStore(n)
    \/ AirAck(n)
    \/ AirGiveUp(n)

Spec == Init /\ [][Next]_vars

-----------------------------------------------------------------------------
(* A board that is between two driver calls and is told that data is ready *)
(* (nrf24_is_data_ready) finds a payload to read, however the flushes of   *)
(* nrf24_listen, the RX_DR clearing of nrf24_write and nrf24_read, and     *)
(* arrivals in the middle of nrf24_read interleave.                        *)
ReadyMeansPayload ==
  \A n \in Node : pc[n] = "idle" /\ IsDataReady(radio[n]) => radio[n].rxFifo # << >>

(* The early `return 0' of nrf24_read after a payload has been taken never *)
(* happens: every payload taken from the chip is handed to the caller.     *)
EveryReadReturns ==
  [][\A n \in Node :
       pc[n] = "reading" /\ pc'[n] = "idle" => Len(got'[n]) = Len(got[n]) + 1]_vars

(* A non-zero result of nrf24_write means the peer's chip accepted that    *)
(* payload, also when the acknowledgement of a retransmission or a switch  *)
(* of addresses came between.                                              *)
AckedWasStored == \A n \in Node : pc[n] = "written" /\ result[n] => stored[n]

(* What one board reads is, in order and without repetition, part of what  *)
(* the other wrote.                                                        *)
Increasing(s) == \A i, j \in DOMAIN s : i < j => s[i][2] < s[j][2]
InOrderOnce == \A n \in Node : Increasing(got[n])

Serials(s) == [i \in DOMAIN s |-> s[i][2]]

HatToRacer == INSTANCE LossyLink WITH
  Depth <- RxFifoDepth,
  offered <- serial["hat"],
  accepted <- stored["hat"],
  waiting <- Serials(radio["racer"].rxFifo),
  out <- Serials(got["racer"] \o buffer["racer"])

RacerToHat == INSTANCE LossyLink WITH
  Depth <- RxFifoDepth,
  offered <- serial["racer"],
  accepted <- stored["racer"],
  waiting <- Serials(radio["hat"].rxFifo),
  out <- Serials(got["hat"] \o buffer["hat"])

(* Each direction implements the abstract lossy link: whatever is lost,    *)
(* repeated, flushed or acknowledged late, what the driver accepted comes  *)
(* out in order and once.                                                  *)
LinkIsLossy == HatToRacer!Spec /\ RacerToHat!Spec

(* nrf24.h: "Returns number of bytes read or 0 if not data available": a   *)
(* chip that can take no more packets must be readable, or the board is    *)
(* deaf for as long as it does not itself transmit.                        *)
FullIsReadable ==
  \A n \in Node : pc[n] = "idle" /\ ~HasRoom(radio[n]) => IsDataReady(radio[n])
=============================================================================
