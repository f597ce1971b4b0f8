------------------------------- MODULE Busart -------------------------------
(***************************************************************************)
(* The buffered serial port: src/mmculib/busart/busart.c over its          *)
(* interrupt handler src/mat91lib/usart/busart0_isr.h, the retry loops of  *)
(* src/mat91lib/syscalls.c, and the USART.                                 *)
(*                                                                         *)
(* The main program writes, reads and asks whether the transmitter has     *)
(* finished; the handler moves one byte each way between two of its steps. *)
(* Both use the two rings.  The bytes of each direction are numbered in    *)
(* the order in which they enter its ring: what a timeout leaves unwritten *)
(* and what is lost on arrival has no number.                              *)
(***************************************************************************)
EXTENDS Ring

CONSTANTS
  Numbers,       \* bytes are numbered modulo this
  MaxRequest,    \* longest write or read of the program
  MaxTries       \* read_timeout_us and write_timeout_us, in tries

ASSUME BusartAssumption ==
  /\ Numbers \in Nat \ {0}
  /\ MaxRequest \in Nat \ {0}
  /\ MaxTries \in Nat

Bytes == 0 .. Numbers - 1
Junk == Numbers          \* what a buffer holds before its first use

VARIABLES
  tx_ring, rx_ring,
  tx_irq,        \* the TXEMPTY interrupt is enabled
  sending,       \* in the USART: the shift register, then US_THR
  sent,          \* the byte last sent, as a sequence
  RXRDY,         \* there is a byte in US_RHR
  arriving,      \* number of the byte that enters rx_ring next
  pc,            \* where the main program is
  left,          \* bytes of its request that are left
  tries,         \* timeout_us
  count,         \* size in ring_write and ring_read
  chunk,         \* the bytes ring_read has copied
  next,          \* number of the byte that enters tx_ring next
  received,      \* the bytes ring_read returned last
  finished       \* what busart_write_finished_p returned since the last write

rings == <<tx_ring, rx_ring>>
usart == <<tx_irq, sending, sent, RXRDY>>
request == <<left, tries, count, chunk>>
numbers == <<next, arriving>>
vars == <<rings, usart, pc, request, numbers, received, finished>>

Init ==
  /\ tx_ring = ring_init(Junk) /\ rx_ring = ring_init(Junk)
  /\ tx_irq = FALSE
  /\ sending = << >> /\ sent = << >>
  /\ RXRDY = FALSE
  /\ pc = "idle"
  /\ left = 0 /\ tries = 0 /\ count = 0 /\ chunk = << >>
  /\ next = 0 /\ arriving = 0 /\ received = << >> /\ finished = FALSE

-----------------------------------------------------------------------------
(* The USART: bytes leave the shift register and arrive in US_RHR, where   *)
(* one that was not read in time is overwritten.                           *)
TXRDY == Len(sending) < 2
TXEMPTY == sending = << >>

USART_WRITE(b) == IF TXRDY THEN Append(sending, b) ELSE <<sending[1], b>>

ByteSent ==
  /\ ~TXEMPTY
  /\ sent' = <<Head(sending)>>
  /\ sending' = Tail(sending)
  /\ UNCHANGED <<rings, tx_irq, RXRDY, pc, request, numbers, received, finished>>

ByteArrives ==
  /\ RXRDY' = TRUE
  /\ UNCHANGED <<rings, tx_irq, sending, sent, pc, request, numbers, received, finished>>

-----------------------------------------------------------------------------
(* busart0_isr.                                                            *)
Transmit ==
  IF ring_empty_p(tx_ring)
  THEN tx_irq' = FALSE /\ UNCHANGED <<tx_ring, sending>>
  ELSE /\ tx_ring' = ring_getc(tx_ring)
       /\ sending' = USART_WRITE(ring_peek(tx_ring))
       /\ UNCHANGED tx_irq

(* What about buffer overflow?  ring_putc drops the byte.                  *)
Receive ==
  /\ rx_ring' = ring_putc(rx_ring, arriving)
  /\ arriving' = (arriving + (IF RING_WRITE_NUM(rx_ring) = 0 THEN 0 ELSE 1)) % Numbers

(* Seeded fault: the interrupt itself is taken for TXRDY.                  *)
busart_isr_unchecked ==
  /\ (tx_irq /\ TXEMPTY) \/ RXRDY
  /\ IF tx_irq THEN Transmit ELSE UNCHANGED <<tx_irq, tx_ring, sending>>
  /\ IF RXRDY THEN Receive ELSE UNCHANGED <<rx_ring, arriving>>
  /\ RXRDY' = FALSE
  /\ UNCHANGED <<sent, pc, request, next, received, finished>>

busart_isr ==
  /\ (tx_irq /\ TXEMPTY) \/ RXRDY
  /\ IF tx_irq /\ TXRDY THEN Transmit ELSE UNCHANGED <<tx_irq, tx_ring, sending>>
  /\ IF RXRDY THEN Receive ELSE UNCHANGED <<rx_ring, arriving>>
  /\ RXRDY' = FALSE
  /\ UNCHANGED <<sent, pc, request, next, received, finished>>

-----------------------------------------------------------------------------
(* The locals of a request end with it.                                    *)
EndRequest ==
  /\ left' = 0 /\ tries' = 0 /\ count' = 0
  /\ pc' = "idle"

(* busart_write: sys_write_timeout calls busart_write_nonblock until all   *)
(* is written or a call in which nothing fitted was one too many.          *)
busart_write(size) ==
  /\ pc = "idle"
  /\ left' = size /\ tries' = MaxTries
  /\ finished' = FALSE
  /\ pc' = "write_count"
  /\ UNCHANGED <<rings, usart, count, chunk, numbers, received>>

Least(a, b) == IF a < b THEN a ELSE b

WriteCount ==
  /\ pc = "write_count"
  /\ count' = Least(left, RING_WRITE_NUM(tx_ring))
  /\ pc' = IF count' = 0 THEN "write_irq" ELSE "write_copy"
  /\ UNCHANGED <<rings, usart, left, tries, chunk, numbers, received, finished>>

WriteCopy ==
  /\ pc = "write_copy"
  /\ tx_ring' = CopyIn(tx_ring, [i \in 1 .. count |-> (next + i - 1) % Numbers])
  /\ pc' = "write_advance"
  /\ UNCHANGED <<rx_ring, usart, request, numbers, received, finished>>

WriteAdvance ==
  /\ pc = "write_advance"
  /\ tx_ring' = ring_write_advance(tx_ring, count)
  /\ next' = (next + count) % Numbers
  /\ left' = left - count
  /\ pc' = "write_irq"
  /\ UNCHANGED <<rx_ring, usart, tries, count, chunk, arriving, received, finished>>

(* The rest of the loop: all is written; or nothing fitted and there is no *)
(* time left; or there is another try.  On a timeout the rest is not       *)
(* written, and the return value does not tell how much was.               *)
WriteReturns ==
  \/ /\ left = 0 \/ (count = 0 /\ tries = 0)
     /\ EndRequest
  \/ /\ left > 0 /\ (count > 0 \/ tries > 0)
     /\ tries' = IF count = 0 THEN tries - 1 ELSE tries
     /\ pc' = "write_count"
     /\ UNCHANGED <<left, count>>

(* Seeded fault: the interrupt is taken to be enabled while a byte is sent.*)
WriteIrq_if_idle ==
  /\ pc = "write_irq"
  /\ tx_irq' = (tx_irq \/ TXEMPTY)
  /\ WriteReturns
  /\ UNCHANGED <<rings, sending, sent, RXRDY, chunk, numbers, received, finished>>

(* tx_irq_enable.  Testing the mask first changes nothing: only this       *)
(* enables the interrupt, and the handler disables it only when it finds   *)
(* the ring empty.                                                         *)
WriteIrq ==
  /\ pc = "write_irq"
  /\ tx_irq' = TRUE
  /\ WriteReturns
  /\ UNCHANGED <<rings, sending, sent, RXRDY, chunk, numbers, received, finished>>

-----------------------------------------------------------------------------
(* busart_read, the same way with sys_read_timeout.                        *)
busart_read(size) ==
  /\ pc = "idle"
  /\ left' = size /\ tries' = MaxTries
  /\ pc' = "read_count"
  /\ UNCHANGED <<rings, usart, count, chunk, numbers, received, finished>>

ReadCount ==
  /\ pc = "read_count"
  /\ LET n == Least(left, RING_READ_NUM(rx_ring))
     IN  \/ n > 0 /\ count' = n /\ pc' = "read_copy" /\ UNCHANGED <<left, tries>>
         \/ n = 0 /\ tries > 0 /\ tries' = tries - 1 /\ UNCHANGED <<pc, left, count>>
         \/ n = 0 /\ tries = 0 /\ EndRequest
  /\ UNCHANGED <<rings, usart, chunk, numbers, received, finished>>

ReadCopy ==
  /\ pc = "read_copy"
  /\ chunk' = CopyOut(rx_ring, count)
  /\ pc' = "read_advance"
  /\ UNCHANGED <<rings, usart, left, tries, count, numbers, received, finished>>

ReadAdvance ==
  /\ pc = "read_advance"
  /\ rx_ring' = ring_read_advance(rx_ring, count)
  /\ received' = chunk /\ chunk' = << >>
  /\ \/ left = count /\ EndRequest
     \/ /\ left > count
        /\ left' = left - count
        /\ pc' = "read_count"
        /\ UNCHANGED <<tries, count>>
  /\ UNCHANGED <<tx_ring, usart, numbers, finished>>

-----------------------------------------------------------------------------
(* busart_write_finished_p reads the ring first, and the hardware only if  *)
(* the ring is empty.                                                      *)
FinishedRing ==
  /\ pc = "idle"
  /\ IF ring_empty_p(tx_ring)
     THEN pc' = "finished" /\ UNCHANGED finished
     ELSE finished' = FALSE /\ UNCHANGED pc
  /\ UNCHANGED <<rings, usart, request, numbers, received>>

(* Seeded fault: US_THR is empty, the shift register may not be.           *)
FinishedHardware_ready ==
  /\ pc = "finished"
  /\ finished' = TXRDY
  /\ pc' = "idle"
  /\ UNCHANGED <<rings, usart, request, numbers, received>>

FinishedHardware ==
  /\ pc = "finished"
  /\ finished' = TXEMPTY
  /\ pc' = "idle"
  /\ UNCHANGED <<rings, usart, request, numbers, received>>

-----------------------------------------------------------------------------
ProgramContinues ==
  \/ WriteCount \/ WriteCopy \/ WriteAdvance \/ WriteIrq
  \/ ReadCount \/ ReadCopy \/ ReadAdvance
  \/ FinishedHardware

ProgramCalls ==
  \/ \E size \in 1 .. MaxRequest : busart_write(size) \/ busart_read(size)
  \/ FinishedRing

Next == ProgramContinues \/ ProgramCalls \/ busart_isr \/ ByteSent \/ ByteArrives

Spec == Init /\ [][Next]_vars

(* The processor executes, the interrupt is taken, the USART shifts.       *)
FairSpec ==
  /\ Spec
  /\ WF_vars(ProgramContinues)
  /\ WF_vars(busart_isr)
  /\ WF_vars(ByteSent)

-----------------------------------------------------------------------------
(* Type invariant.                                                         *)
TypeOK ==
  /\ \A r \in {tx_ring, rx_ring} : r \in [in: Offsets, out: Offsets, buf: [Offsets -> Bytes \cup {Junk}]]
  /\ sending \in Seq(Bytes) /\ Len(sending) =< 2
  /\ arriving \in Bytes /\ next \in Bytes
  /\ left \in 0 .. MaxRequest /\ count \in 0 .. MaxRequest /\ tries \in 0 .. MaxTries
  /\ tx_irq \in BOOLEAN /\ RXRDY \in BOOLEAN /\ finished \in BOOLEAN

(* The wire carries the bytes that were written in the order of writing,   *)
(* none twice, none overwritten in a ring or in US_THR, whenever the       *)
(* handler comes between two steps of ring_write.                          *)
Sender == INSTANCE Pipe WITH
  Depth <- RingSize + 1,
  inside <- sending \o Contents(tx_ring),
  latest <- sent

TransmitsInOrder == Sender!Spec

(* busart_read returns the bytes in the order of arrival and none twice.   *)
(* Bytes are lost only before they are in the ring: those that found it    *)
(* full or US_RHR occupied.                                                *)
Receiver == INSTANCE Pipe WITH
  Depth <- RingSize - 1,
  next <- arriving,
  inside <- Contents(rx_ring),
  latest <- received

ReceivesInOrder == Receiver!Spec

(* When busart_write_finished_p has said so, everything that was written   *)
(* has left the shift register: a byte on its way from the ring to the     *)
(* USART is not overlooked between the two tests.                          *)
FinishedMeansSent == finished => Contents(tx_ring) = << >> /\ TXEMPTY

(* No byte is left in the ring with the interrupt off: whatever the order  *)
(* of writing, emptying and disabling, each byte leaves the ring.          *)
InTxRing(b) == \E i \in 1 .. RING_READ_NUM(tx_ring) : Contents(tx_ring)[i] = b

EveryByteIsSent == \A b \in Bytes : InTxRing(b) ~> ~InTxRing(b)
=============================================================================
