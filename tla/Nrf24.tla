------------------------------- MODULE Nrf24 -------------------------------
(***************************************************************************)
(* The nRF24L01+ driver (src/mmculib/rf/nrf24.c) and the part of the radio *)
(* chip its callers can observe, as operators on one radio record:         *)
(*                                                                         *)
(*   address    nrf->address_bytes, the address kept in RAM                *)
(*   listening  nrf->listening                                             *)
(*   ce         the CE pin                                                 *)
(*   primRx     the PRIM_RX bit of the CONFIG register                     *)
(*   rxAddr     register RX_ADDR_P0                                        *)
(*   txAddr     register TX_ADDR                                           *)
(*   rxFifo     the receive FIFO, oldest payload first                     *)
(*   txPending  the transmit FIFO holds a payload                          *)
(*   sending    the ShockBurst engine is (re)transmitting                  *)
(*   rxDr, txDs, maxRt   the three latched bits of the STATUS register     *)
(*                                                                         *)
(* One driver function is one operator; a function in whose middle the     *)
(* chip can act is cut there (write: Start/End, read: Payload/Clear).      *)
(* Transfers over SPI are reliable here: what a powered-down SPI           *)
(* controller does to them is the concern of the module Hat.               *)
(***************************************************************************)
EXTENDS Naturals, Sequences

CONSTANT RxFifoDepth     \* payloads the chip's receive FIFO holds (3)

ASSUME FifoDepthAssumption == RxFifoDepth \in Nat \ {0}

Radio(Addresses, Payloads) ==
  [address : Addresses, listening : BOOLEAN, ce : BOOLEAN, primRx : BOOLEAN,
   rxAddr : Addresses, txAddr : Addresses, rxFifo : Seq(Payloads),
   txPending : BOOLEAN, sending : BOOLEAN,
   rxDr : BOOLEAN, txDs : BOOLEAN, maxRt : BOOLEAN]

(* nrf24_begin: CE low, standby, status cleared, FIFOs flushed, and both   *)
(* address registers equal to the address in RAM.                          *)
Begin(a) ==
  [address |-> a, listening |-> FALSE, ce |-> FALSE, primRx |-> FALSE,
   rxAddr |-> a, txAddr |-> a, rxFifo |-> << >>,
   txPending |-> FALSE, sending |-> FALSE,
   rxDr |-> FALSE, txDs |-> FALSE, maxRt |-> FALSE]

(* Seeded fault: the radio is retuned at once.                             *)
SetAddressTunes(r, a) == [r EXCEPT !.address = a, !.rxAddr = a]

(* nrf24_set_address: the copy in RAM and nothing else.                    *)
SetAddress(r, a) == [r EXCEPT !.address = a]

(* Seeded fault: the status bits of the last transmission stay set.        *)
ListenKeepsStatus(r) ==
  [r EXCEPT !.rxAddr = r.address, !.primRx = TRUE,
            !.rxFifo = << >>, !.txPending = FALSE, !.sending = FALSE,
            !.ce = TRUE, !.listening = TRUE]

(* nrf24_listen: pipe 0 takes the address in RAM, receive mode, status     *)
(* cleared, both FIFOs flushed, CE high.                                   *)
Listen(r) ==
  [r EXCEPT !.rxAddr = r.address, !.primRx = TRUE,
            !.rxDr = FALSE, !.txDs = FALSE, !.maxRt = FALSE,
            !.rxFifo = << >>, !.txPending = FALSE, !.sending = FALSE,
            !.ce = TRUE, !.listening = TRUE]

(* nrf24_write up to the CE pulse: leave receive mode, point TX_ADDR and   *)
(* pipe 0 (the acknowledgement comes back on it) at the address in RAM,    *)
(* load the payload and start the chip.                                    *)
WriteStart(r) ==
  [r EXCEPT !.ce = FALSE, !.listening = FALSE, !.primRx = FALSE,
            !.txAddr = r.address, !.rxAddr = r.address,
            !.txPending = TRUE, !.sending = TRUE]

(* nrf24_write after the loop: all status bits cleared, transmit FIFO      *)
(* flushed.  The function returns non-zero iff TX_DS was set.  A chip that *)
(* is still retransmitting is not stopped.                                 *)
WriteEnd(r) ==
  [r EXCEPT !.rxDr = FALSE, !.txDs = FALSE, !.maxRt = FALSE, !.txPending = FALSE]

WriteSucceeded(r) == r.txDs

(* The IRQ pin is active low and asserted by any latched status bit.       *)
IrqAsserted(r) == r.rxDr \/ r.txDs \/ r.maxRt

(* nrf24_is_data_ready: the IRQ pin first, then the RX_DR bit.             *)
IsDataReady(r) == IrqAsserted(r) /\ r.rxDr

(* Seeded faults: the payload is not taken off the FIFO; the FIFO is       *)
(* flushed after one payload.                                              *)
ReadPayloadPeeks(r) == r
ReadPayloadFlushes(r) == [r EXCEPT !.rxFifo = << >>]

(* nrf24_read up to the SPI transaction: one payload leaves the FIFO.      *)
ReadPayload(r) == [r EXCEPT !.rxFifo = Tail(@)]

(* Seeded fault: RX_DR is not cleared.                                     *)
ReadClearKeepsFlag(r) == [r EXCEPT !.txDs = FALSE]

(* Seeded fault: the test the parentheses were meant for.                  *)
FifoStatusNotEmpty(r) == r.rxFifo # << >>

(* The rest of nrf24_read clears RX_DR (and TX_DS when it was set), then   *)
(* returns 0 if `!FIFO_STATUS & BIT (RX_EMPTY)': in C that is              *)
(* `FIFO_STATUS == 0', no empty flag and no full flag of either FIFO.      *)
ReadClear(r) == [r EXCEPT !.rxDr = FALSE, !.txDs = FALSE]

FifoStatusZero(r) ==
  /\ r.rxFifo # << >>
  /\ Len(r.rxFifo) < RxFifoDepth
  /\ r.txPending

-----------------------------------------------------------------------------
(* The chip (external).                                                    *)

(* Address match in receive mode.                                          *)
Hears(r, a) == r.ce /\ r.primRx /\ r.rxAddr = a

HasRoom(r) == Len(r.rxFifo) < RxFifoDepth

(* A payload is stored and RX_DR is latched.                               *)
Store(r, p) == [r EXCEPT !.rxFifo = Append(@, p), !.rxDr = TRUE]

(* The acknowledgement comes back on pipe 0 of the transmitter.            *)
HearsAck(r) == r.sending /\ r.rxAddr = r.txAddr

Acknowledged(r) == [r EXCEPT !.txDs = TRUE, !.sending = FALSE, !.txPending = FALSE]

(* The last retransmission went unanswered: the payload stays in the FIFO. *)
GaveUp(r) == [r EXCEPT !.maxRt = TRUE, !.sending = FALSE]
=============================================================================
