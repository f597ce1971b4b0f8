-------------------------- MODULE RadioLinkProofs --------------------------
(***************************************************************************)
(* The link between the two boards, for every depth of the FIFO, every set *)
(* of addresses and every number of writes.                                *)
(***************************************************************************)
EXTENDS RadioLink, SequenceTheorems, TLAPS

(* The operators of the driver and the chip keep a radio a radio.          *)
LEMMA DriverTypes ==
  ASSUME NEW A, NEW P, NEW r \in Radio(A, P), NEW a \in A
  PROVE  /\ Begin(a) \in Radio(A, P)
         /\ SetAddress(r, a) \in Radio(A, P)
         /\ Listen(r) \in Radio(A, P)
         /\ WriteStart(r) \in Radio(A, P)
         /\ WriteEnd(r) \in Radio(A, P)
         /\ ReadClear(r) \in Radio(A, P)
         /\ Acknowledged(r) \in Radio(A, P)
         /\ GaveUp(r) \in Radio(A, P)
  BY << >> \in Seq(P)
  DEF Begin, SetAddress, Listen, WriteStart, WriteEnd, ReadClear, Acknowledged, GaveUp, Radio

(* The oldest payload is taken out of a FIFO that is not empty.            *)
LEMMA ReadPayloadType ==
  ASSUME NEW A, NEW P, NEW r \in Radio(A, P), r.rxFifo # << >>
  PROVE  ReadPayload(r) \in Radio(A, P) /\ Head(r.rxFifo) \in P
  <1>1. r.rxFifo \in Seq(P)
    BY DEF Radio
  <1>2. Tail(r.rxFifo) \in Seq(P) /\ Head(r.rxFifo) \in P
    BY <1>1
  <1> QED BY <1>2 DEF ReadPayload, Radio

(* A payload that came over the air is stored behind the others.           *)
LEMMA StoreType ==
  ASSUME NEW A, NEW P, NEW r \in Radio(A, P), NEW p \in P
  PROVE  Store(r, p) \in Radio(A, P) /\ Store(r, p).rxFifo # << >>
  <1>1. r.rxFifo \in Seq(P)
    BY DEF Radio
  <1>2. Append(r.rxFifo, p) \in Seq(P) /\ Append(r.rxFifo, p) # << >>
    BY <1>1
  <1> QED BY <1>2 DEF Store, Radio

Pcs == {"idle", "polling", "written", "reading"}

TypesOK ==
  /\ radio \in [Node -> Radio(Addresses, Payloads)]
  /\ pc \in [Node -> Pcs]
  /\ serial \in [Node -> Nat]
  /\ stored \in [Node -> BOOLEAN]
  /\ result \in [Node -> BOOLEAN]
  /\ buffer \in [Node -> Seq(Payloads)]
  /\ got \in [Node -> Seq(Payloads)]

(* Outside nrf24_write and what follows it, the chip is not transmitting   *)
(* and no answer of an earlier transmission is left.                       *)
Quiet(n) ==
  /\ pc[n] \in {"idle", "reading"} => ~radio[n].sending /\ ~radio[n].txDs
  /\ pc[n] # "polling" => ~radio[n].txPending
  /\ pc[n] \in {"polling", "written"} => serial[n] > 0

(* TX_DS is latched only for a payload the peer has stored.                *)
AnswerTrue(n) ==
  /\ pc[n] = "polling" /\ radio[n].txDs => stored[n]
  /\ pc[n] = "written" /\ result[n] => stored[n]

(* RX_DR without a payload is seen only in the middle of nrf24_read.       *)
ReadyTrue(n) == pc[n] # "reading" /\ radio[n].rxDr => radio[n].rxFifo # << >>

(* The buffer of nrf24_read holds one payload from its SPI transfer to its *)
(* return.                                                                 *)
BufferOK(n) ==
  /\ pc[n] # "reading" => buffer[n] = << >>
  /\ pc[n] = "reading" => Len(buffer[n]) = 1

(* Every serial number in s is below every one in t.                       *)
Before(s, t) == \A i \in DOMAIN s, j \in DOMAIN t : s[i][2] < t[j][2]

(* Every serial number in s is one the board m has sent; the one in the    *)
(* air is among them only when it was stored.                              *)
Sent(s, m) ==
  \A i \in DOMAIN s : s[i][2] <= serial[m] /\ (~stored[m] => s[i][2] < serial[m])

(* On the way from the FIFO through the buffer to the caller.              *)
InOrder(n) ==
  /\ Increasing(got[n]) /\ Increasing(radio[n].rxFifo)
  /\ Before(got[n], buffer[n]) /\ Before(got[n], radio[n].rxFifo)
  /\ Before(buffer[n], radio[n].rxFifo)
  /\ Sent(got[n], Peer(n)) /\ Sent(buffer[n], Peer(n)) /\ Sent(radio[n].rxFifo, Peer(n))

DriverInv(n) == Quiet(n) /\ AnswerTrue(n) /\ ReadyTrue(n) /\ BufferOK(n)

IInv == TypesOK /\ \A n \in Node : DriverInv(n) /\ InOrder(n)

-----------------------------------------------------------------------------
(* Each board's peer is the other one.                                     *)
LEMMA Peers ==
  ASSUME NEW n \in Node
  PROVE  Peer(n) \in Node /\ Peer(n) # n /\ Peer(Peer(n)) = n /\ Node = {n, Peer(n)}
  BY DEF Node, Peer

(* What the driver's and the chip's operators make of a radio, as far as   *)
(* the invariant is concerned.                                             *)
LEMMA Effects ==
  ASSUME NEW r \in Radio(Addresses, Payloads)
  PROVE  /\ WriteStart(r).rxFifo = r.rxFifo /\ WriteStart(r).rxDr = r.rxDr
         /\ WriteStart(r).txDs = r.txDs
         /\ WriteEnd(r).rxFifo = r.rxFifo /\ ~WriteEnd(r).rxDr /\ ~WriteEnd(r).txPending
         /\ Listen(r).rxFifo = << >> /\ ~Listen(r).rxDr /\ ~Listen(r).txDs
         /\ ~Listen(r).sending /\ ~Listen(r).txPending
         /\ ReadPayload(r).rxFifo = Tail(r.rxFifo)
         /\ ReadPayload(r).sending = r.sending /\ ReadPayload(r).txDs = r.txDs
         /\ ReadPayload(r).txPending = r.txPending
         /\ ReadClear(r).rxFifo = r.rxFifo /\ ~ReadClear(r).rxDr /\ ~ReadClear(r).txDs
         /\ ReadClear(r).sending = r.sending /\ ReadClear(r).txPending = r.txPending
         /\ Acknowledged(r).rxFifo = r.rxFifo /\ Acknowledged(r).rxDr = r.rxDr
         /\ ~Acknowledged(r).sending /\ ~Acknowledged(r).txPending
         /\ GaveUp(r).rxFifo = r.rxFifo /\ GaveUp(r).rxDr = r.rxDr
         /\ ~GaveUp(r).sending /\ GaveUp(r).txDs = r.txDs
         /\ GaveUp(r).txPending = r.txPending
  BY DEF Radio, WriteStart, WriteEnd, Listen, ReadPayload, ReadClear, Acknowledged, GaveUp

(* The same of storing a payload.                                          *)
LEMMA StoreEffects ==
  ASSUME NEW r \in Radio(Addresses, Payloads), NEW p \in Payloads
  PROVE  /\ Store(r, p).rxFifo = Append(r.rxFifo, p) /\ Store(r, p).sending = r.sending
         /\ Store(r, p).txDs = r.txDs /\ Store(r, p).txPending = r.txPending
  BY DEF Radio, Store

(* And they leave it a radio.                                              *)
LEMMA StaysRadio ==
  ASSUME NEW r \in Radio(Addresses, Payloads)
  PROVE  /\ Listen(r) \in Radio(Addresses, Payloads)
         /\ WriteStart(r) \in Radio(Addresses, Payloads)
         /\ WriteEnd(r) \in Radio(Addresses, Payloads)
         /\ ReadClear(r) \in Radio(Addresses, Payloads)
         /\ Acknowledged(r) \in Radio(Addresses, Payloads)
         /\ GaveUp(r) \in Radio(Addresses, Payloads)
  <1>1. r.address \in Addresses
    BY DEF Radio
  <1> QED BY <1>1, DriverTypes

(* What a board's driver sees of itself has not changed.                   *)
LEMMA DriverFrame ==
  ASSUME NEW k \in Node, DriverInv(k),
         pc'[k] = pc[k], radio'[k].rxFifo = radio[k].rxFifo, radio'[k].rxDr = radio[k].rxDr,
         radio'[k].sending = radio[k].sending, radio'[k].txDs = radio[k].txDs,
         radio'[k].txPending = radio[k].txPending, serial'[k] = serial[k],
         stored'[k] = stored[k], result'[k] = result[k], buffer'[k] = buffer[k]
  PROVE  DriverInv(k)'
  BY DEF DriverInv, Quiet, AnswerTrue, ReadyTrue, BufferOK

(* What is on its way to a board has not changed.                          *)
LEMMA OrderFrame ==
  ASSUME NEW k \in Node, InOrder(k), radio'[k].rxFifo = radio[k].rxFifo,
         buffer'[k] = buffer[k], got'[k] = got[k],
         serial'[Peer(k)] = serial[Peer(k)], stored'[Peer(k)] = stored[Peer(k)]
  PROVE  InOrder(k)'
  BY DEF InOrder, Increasing, Before, Sent

(* Both boards begin with empty FIFOs and nothing in hand.                 *)
LEMMA InitIInv == Init => IInv
  <1> SUFFICES ASSUME Init PROVE IInv
    OBVIOUS
  <1>1. Begin(HomeAddress) \in Radio(Addresses, Payloads)
    BY LinkAssumption, << >> \in Seq(Payloads) DEF Begin, Radio
  <1>2. Listen(Begin(HomeAddress)) \in Radio(Addresses, Payloads)
    BY <1>1, StaysRadio
  <1>3. TypesOK
    BY <1>1, <1>2 DEF Init, TypesOK, Pcs
  <1>4. ASSUME NEW n \in Node
        PROVE  /\ radio[n].rxFifo = << >> /\ ~radio[n].rxDr /\ ~radio[n].txDs
               /\ ~radio[n].sending /\ ~radio[n].txPending
    BY DEF Init, Begin, Listen
  <1>5. ASSUME NEW n \in Node
        PROVE  DriverInv(n) /\ InOrder(n)
    <2>1. got[n] = << >> /\ buffer[n] = << >> /\ pc[n] = "idle"
      BY DEF Init
    <2> QED
      BY <1>4, <2>1
      DEF DriverInv, Quiet, AnswerTrue, ReadyTrue, BufferOK, InOrder, Increasing, Before, Sent
  <1> QED BY <1>3, <1>5 DEF IInv

(* The switches change an address and nothing the invariant is about.      *)
LEMMA SelectStep == ASSUME IInv, NEW n \in Node, SelectAddress(n) PROVE IInv'
  <1>1. PICK a \in Addresses : radio' = [radio EXCEPT ![n] = SetAddress(radio[n], a)]
    BY DEF SelectAddress
  <1>2. TypesOK'
    BY <1>1, DriverTypes DEF SelectAddress, IInv, TypesOK
  <1>3. ASSUME NEW k \in Node
        PROVE  /\ radio'[k].rxFifo = radio[k].rxFifo /\ radio'[k].rxDr = radio[k].rxDr
               /\ radio'[k].sending = radio[k].sending /\ radio'[k].txDs = radio[k].txDs
               /\ radio'[k].txPending = radio[k].txPending
    BY <1>1 DEF IInv, TypesOK, Radio, SetAddress
  <1>4. ASSUME NEW k \in Node PROVE DriverInv(k)' /\ InOrder(k)'
    BY <1>3, DriverFrame, OrderFrame DEF SelectAddress, IInv
  <1> QED BY <1>2, <1>4 DEF IInv

(* A new serial number is above all that came before.                      *)
LEMMA StartWriteStep == ASSUME IInv, NEW n \in Node, StartWrite(n) PROVE IInv'
  <1>1. /\ radio' = [radio EXCEPT ![n] = WriteStart(radio[n])]
        /\ radio[n] \in Radio(Addresses, Payloads) /\ serial[n] \in Nat
    BY DEF StartWrite, IInv, TypesOK
  <1>2. TypesOK'
    BY <1>1, StaysRadio DEF StartWrite, IInv, TypesOK, Pcs
  <1>3. /\ serial'[n] = serial[n] + 1 /\ ~stored'[n] /\ pc'[n] = "polling"
        /\ \A k \in Node : k # n => /\ radio'[k] = radio[k] /\ pc'[k] = pc[k]
                                    /\ serial'[k] = serial[k] /\ stored'[k] = stored[k]
        /\ UNCHANGED <<result, buffer, got>>
    BY DEF StartWrite, IInv, TypesOK
  <1>4. radio'[n] = WriteStart(radio[n])
    BY <1>1 DEF IInv, TypesOK
  <1>5. DriverInv(n)'
    BY <1>1, <1>3, <1>4, Effects
    DEF IInv, DriverInv, Quiet, AnswerTrue, ReadyTrue, BufferOK, StartWrite
  <1>6. InOrder(n)'
    BY <1>1, <1>3, <1>4, Effects, Peers, OrderFrame DEF IInv
  <1>7. DriverInv(Peer(n))'
    BY <1>3, Peers, DriverFrame DEF IInv
  <1>8. InOrder(Peer(n))'
    <2> DEFINE k == Peer(n)
    <2>1. k \in Node /\ k # n /\ Peer(k) = n
      BY Peers
    <2>2. /\ radio'[k] = radio[k] /\ got' = got /\ buffer' = buffer
          /\ InOrder(k)
      BY <1>3, <2>1 DEF IInv
    <2>4. got[k] \in Seq(Payloads) /\ buffer[k] \in Seq(Payloads) /\ radio[k].rxFifo \in Seq(Payloads)
      BY <2>1 DEF IInv, TypesOK, Radio
    <2>5. Sent(got[k], n) /\ Sent(buffer[k], n) /\ Sent(radio[k].rxFifo, n)
      BY <2>1, <2>2 DEF InOrder
    <2>6. ASSUME NEW s \in Seq(Payloads), Sent(s, n)
          PROVE  \A i \in DOMAIN s : s[i][2] <= serial'[n] /\ (~stored'[n] => s[i][2] < serial'[n])
      <3>1. ASSUME NEW i \in DOMAIN s PROVE s[i][2] \in Nat
        <4>1. s[i] \in Payloads
          BY <3>1
        <4> QED BY <4>1 DEF Payloads
      <3> QED BY <1>1, <1>3, <2>6, <3>1 DEF Sent
    <2> QED
      BY <2>1, <2>2, <2>4, <2>5, <2>6 DEF InOrder, Increasing, Before, Sent
  <1> QED
    BY <1>2, <1>5, <1>6, <1>7, <1>8, Peers DEF IInv

(* The result is TX_DS, which stands for a payload the peer has stored.    *)
LEMMA EndWriteStep == ASSUME IInv, NEW n \in Node, EndWrite(n) PROVE IInv'
  <1>1. radio[n] \in Radio(Addresses, Payloads) /\ radio[n].txDs \in BOOLEAN
    BY DEF IInv, TypesOK, Radio
  <1>2. /\ radio'[n] = WriteEnd(radio[n]) /\ pc[n] = "polling" /\ pc'[n] = "written"
        /\ result'[n] = radio[n].txDs
        /\ \A k \in Node : k # n => /\ radio'[k] = radio[k] /\ pc'[k] = pc[k]
                                    /\ result'[k] = result[k]
        /\ UNCHANGED <<serial, stored, buffer, got>>
    BY DEF EndWrite, WriteSucceeded, IInv, TypesOK
  <1>3. TypesOK'
    BY <1>1, <1>2, StaysRadio DEF EndWrite, WriteSucceeded, IInv, TypesOK, Pcs
  <1>4. DriverInv(n)'
    BY <1>1, <1>2, Effects DEF IInv, DriverInv, Quiet, AnswerTrue, ReadyTrue, BufferOK
  <1>5. InOrder(n)'
    BY <1>1, <1>2, Effects, OrderFrame DEF IInv
  <1>6. ASSUME NEW k \in Node, k # n PROVE DriverInv(k)' /\ InOrder(k)'
    BY <1>2, <1>6, DriverFrame, OrderFrame DEF IInv
  <1> QED BY <1>3, <1>4, <1>5, <1>6 DEF IInv

(* nrf24_listen loses what waits and forgets the answers.                  *)
LEMMA StartListenStep == ASSUME IInv, NEW n \in Node, StartListen(n) PROVE IInv'
  <1>1. radio[n] \in Radio(Addresses, Payloads)
    BY DEF IInv, TypesOK
  <1>2. /\ radio'[n] = Listen(radio[n]) /\ pc[n] = "written" /\ pc'[n] = "idle"
        /\ \A k \in Node : k # n => radio'[k] = radio[k] /\ pc'[k] = pc[k]
        /\ UNCHANGED <<serial, stored, result, buffer, got>>
    BY DEF StartListen, IInv, TypesOK
  <1>3. TypesOK'
    BY <1>1, <1>2, StaysRadio DEF StartListen, IInv, TypesOK, Pcs
  <1>4. DriverInv(n)'
    BY <1>1, <1>2, Effects DEF IInv, DriverInv, Quiet, AnswerTrue, ReadyTrue, BufferOK
  <1>5. InOrder(n)'
    BY <1>1, <1>2, Effects DEF IInv, InOrder, Increasing, Before, Sent
  <1>6. ASSUME NEW k \in Node, k # n PROVE DriverInv(k)' /\ InOrder(k)'
    BY <1>2, <1>6, DriverFrame, OrderFrame DEF IInv
  <1> QED BY <1>3, <1>4, <1>5, <1>6 DEF IInv

(* A sequence that is not empty, its head and its tail.                    *)
LEMMA HeadTail ==
  ASSUME NEW S, NEW s \in Seq(S), s # << >>
  PROVE  /\ Head(s) = s[1] /\ 1 \in DOMAIN s /\ Head(s) \in S /\ Tail(s) \in Seq(S)
         /\ \A i \in DOMAIN Tail(s) : i + 1 \in DOMAIN s /\ Tail(s)[i] = s[i + 1]
         /\ DOMAIN Tail(s) \subseteq Nat
  OBVIOUS

(* The head of the FIFO moves to the buffer.                               *)
LEMMA StartReadStep == ASSUME IInv, NEW n \in Node, StartRead(n) PROVE IInv'
  <1> DEFINE f == radio[n].rxFifo
  <1>1. radio[n] \in Radio(Addresses, Payloads) /\ f \in Seq(Payloads)
    BY DEF IInv, TypesOK, Radio
  <1>2. /\ radio'[n] = ReadPayload(radio[n]) /\ pc[n] = "idle" /\ pc'[n] = "reading"
        /\ buffer'[n] = <<Head(f)>>
        /\ \A k \in Node : k # n => /\ radio'[k] = radio[k] /\ pc'[k] = pc[k]
                                    /\ buffer'[k] = buffer[k]
        /\ UNCHANGED <<serial, stored, result, got>>
    BY DEF StartRead, IInv, TypesOK
  <1>3. f # << >>
    BY <1>2 DEF StartRead, IsDataReady, IInv, DriverInv, ReadyTrue
  <1>4. Head(f) = f[1] /\ 1 \in DOMAIN f /\ Head(f) \in Payloads
    BY <1>1, <1>3, HeadTail
  <1>5. /\ radio'[n].rxFifo = Tail(f)
        /\ \A i \in DOMAIN Tail(f) : i \in Nat /\ i + 1 \in DOMAIN f /\ Tail(f)[i] = f[i + 1]
    BY <1>1, <1>2, <1>3, Effects, HeadTail
  <1>6. TypesOK'
    BY <1>1, <1>2, <1>3, <1>4, ReadPayloadType DEF StartRead, IInv, TypesOK, Pcs
  <1>7. DriverInv(n)'
    BY <1>1, <1>2, Effects DEF IInv, DriverInv, Quiet, AnswerTrue, ReadyTrue, BufferOK
  <1>8. InOrder(n)'
    <2>1. InOrder(n) /\ DOMAIN buffer'[n] = {1} /\ buffer'[n][1] = f[1]
      BY <1>2, <1>4 DEF IInv
    <2>2. Increasing(got'[n]) /\ Sent(got[n], Peer(n))'
      BY <1>2, <2>1 DEF InOrder, Increasing, Sent
    <2>3. Increasing(Tail(f)) /\ Before(got[n], Tail(f)) /\ Sent(Tail(f), Peer(n))
      BY <1>5, <2>1 DEF InOrder, Increasing, Before, Sent
    <2>4. Before(got'[n], buffer'[n]) /\ Sent(buffer[n], Peer(n))'
      BY <1>2, <1>4, <2>1 DEF InOrder, Before, Sent
    <2>5. Before(buffer'[n], Tail(f))
      <3>1. ASSUME NEW i \in DOMAIN Tail(f) PROVE f[1][2] < Tail(f)[i][2]
        <4>1. i + 1 \in DOMAIN f /\ 1 < i + 1 /\ Tail(f)[i] = f[i + 1]
          BY <1>1, <1>3, <1>5
        <4> QED BY <1>4, <2>1, <4>1 DEF InOrder, Increasing
      <3> QED BY <2>1, <3>1 DEF Before
    <2> HIDE DEF f
    <2> QED
      BY <1>2, <1>5, <2>2, <2>3, <2>4, <2>5 DEF InOrder, Increasing, Before, Sent
  <1>9. ASSUME NEW k \in Node, k # n PROVE DriverInv(k)' /\ InOrder(k)'
    BY <1>2, <1>9, DriverFrame, OrderFrame DEF IInv
  <1> QED BY <1>6, <1>7, <1>8, <1>9 DEF IInv

(* One sequence behind another whose only element is given.                *)
LEMMA AppendOne ==
  ASSUME NEW S, NEW s \in Seq(S), NEW t \in Seq(S), Len(t) = 1
  PROVE  /\ s \o t \in Seq(S) /\ Len(s \o t) = Len(s) + 1
         /\ DOMAIN s = 1 .. Len(s) /\ Len(s) \in Nat
         /\ \A i \in DOMAIN (s \o t) : i \in DOMAIN s \/ i = Len(s) + 1
         /\ \A i \in DOMAIN s : (s \o t)[i] = s[i]
         /\ (s \o t)[Len(s) + 1] = t[1]
  <1> DEFINE c == s \o t
  <1>1. Len(s) \in Nat /\ DOMAIN s = 1 .. Len(s)
    BY LenProperties
  <1>2. /\ c \in Seq(S) /\ Len(c) = Len(s) + Len(t)
        /\ \A i \in 1 .. Len(s) + Len(t) :
             c[i] = IF i <= Len(s) THEN s[i] ELSE t[i - Len(s)]
    BY ConcatProperties
  <1> HIDE DEF c
  <1>3. Len(c) = Len(s) + 1 /\ DOMAIN c = 1 .. Len(s) + 1
    BY <1>1, <1>2, LenProperties
  <1>4. \A i \in 1 .. Len(s) : c[i] = s[i]
    BY <1>1, <1>2
  <1>5. (Len(s) + 1) - Len(s) = 1 /\ ~(Len(s) + 1 <= Len(s)) /\ Len(s) + 1 \in 1 .. Len(s) + Len(t)
    BY <1>1
  <1>6. c[Len(s) + 1] = t[1]
    BY <1>2, <1>5
  <1>7. \A i \in DOMAIN c : i \in DOMAIN s \/ i = Len(s) + 1
    BY <1>1, <1>3
  <1> QED BY <1>1, <1>2, <1>3, <1>4, <1>6, <1>7 DEF c

(* nrf24_read returns: `!x & BIT (RX_EMPTY)' never holds here, and what    *)
(* was read reaches the caller.                                            *)
LEMMA ReadReturns ==
  ASSUME IInv, NEW n \in Node, EndRead(n)
  PROVE  /\ radio'[n] = ReadClear(radio[n]) /\ pc[n] = "reading" /\ pc'[n] = "idle"
         /\ got'[n] = got[n] \o buffer[n] /\ buffer'[n] = << >>
         /\ \A k \in Node : k # n => /\ radio'[k] = radio[k] /\ pc'[k] = pc[k]
                                     /\ buffer'[k] = buffer[k] /\ got'[k] = got[k]
         /\ UNCHANGED <<serial, stored, result>>
  <1>1. ~FifoStatusZero(radio[n])
    BY DEF FifoStatusZero, EndRead, IInv, DriverInv, Quiet
  <1> QED BY <1>1 DEF EndRead, IInv, TypesOK

(* The payload of the buffer goes behind those the caller has.             *)
LEMMA EndReadStep == ASSUME IInv, NEW n \in Node, EndRead(n) PROVE IInv'
  <1>1. /\ radio[n] \in Radio(Addresses, Payloads)
        /\ got[n] \in Seq(Payloads) /\ buffer[n] \in Seq(Payloads)
    BY DEF IInv, TypesOK
  <1>2. Len(buffer[n]) = 1 /\ InOrder(n)
    BY ReadReturns DEF IInv, DriverInv, BufferOK
  <1> DEFINE g == got[n] \o buffer[n]
             l == Len(got[n]) + 1
  <1>3. /\ g \in Seq(Payloads) /\ DOMAIN got[n] = 1 .. Len(got[n]) /\ Len(got[n]) \in Nat
        /\ \A i \in DOMAIN g : i \in DOMAIN got[n] \/ i = l
        /\ \A i \in DOMAIN got[n] : g[i] = got[n][i]
        /\ g[l] = buffer[n][1]
    BY <1>1, <1>2, AppendOne
  <1>4. TypesOK'
    BY <1>1, <1>3, StaysRadio DEF EndRead, IInv, TypesOK, Pcs
  <1>5. DriverInv(n)'
    <2>1. /\ radio'[n] = ReadClear(radio[n]) /\ pc[n] = "reading" /\ pc'[n] = "idle"
          /\ buffer'[n] = << >>
      BY ReadReturns
    <2> HIDE DEF g, l
    <2> QED
      BY <1>1, <2>1, Effects DEF IInv, DriverInv, Quiet, AnswerTrue, ReadyTrue, BufferOK
  <1>6. InOrder(n)'
    <2>1. 1 \in DOMAIN buffer[n]
      BY <1>1, <1>2
    <2> HIDE DEF g
    <2>2. Increasing(g)
      <3>1. ASSUME NEW i \in DOMAIN g, NEW j \in DOMAIN g, i < j PROVE g[i][2] < g[j][2]
        <4>1. i \in DOMAIN got[n]
          BY <1>3, <3>1
        <4>2. CASE j \in DOMAIN got[n]
          BY <1>2, <1>3, <3>1, <4>1, <4>2 DEF InOrder, Increasing
        <4>3. CASE j = l
          BY <1>2, <1>3, <2>1, <4>1, <4>3 DEF InOrder, Before
        <4> QED BY <1>3, <4>2, <4>3
      <3> QED BY <3>1 DEF Increasing
    <2>3. ASSUME NEW i \in DOMAIN g
          PROVE  \/ i \in DOMAIN got[n] /\ g[i] = got[n][i]
                 \/ g[i] = buffer[n][1]
      BY <1>3
    <2>4. Before(g, radio[n].rxFifo)
      BY <1>2, <2>1, <2>3 DEF InOrder, Before
    <2>5. Sent(g, Peer(n))
      BY <1>2, <2>1, <2>3 DEF InOrder, Sent
    <2>6. /\ got'[n] = g /\ buffer'[n] = << >> /\ radio'[n].rxFifo = radio[n].rxFifo
          /\ UNCHANGED <<serial, stored>>
      BY <1>1, ReadReturns, Effects DEF g
    <2> QED
      BY <1>2, <2>2, <2>4, <2>5, <2>6 DEF InOrder, Increasing, Before, Sent
  <1>7. ASSUME NEW k \in Node, k # n PROVE DriverInv(k)' /\ InOrder(k)'
    BY <1>7, ReadReturns, DriverFrame, OrderFrame DEF IInv
  <1> QED BY <1>4, <1>5, <1>6, <1>7 DEF IInv

(* What an answer of the chip leaves alone.                                *)
LEMMA AirAnswerStep ==
  ASSUME IInv, NEW n \in Node, AirAck(n) \/ AirGiveUp(n)
  PROVE  IInv'
  <1>1. radio[n] \in Radio(Addresses, Payloads)
    BY DEF IInv, TypesOK
  <1>2. /\ \A k \in Node : k # n => radio'[k] = radio[k]
        /\ UNCHANGED <<pc, serial, stored, result, buffer, got>>
        /\ radio[n].sending
        /\ \/ radio'[n] = Acknowledged(radio[n]) /\ stored[n]
           \/ radio'[n] = GaveUp(radio[n])
    BY DEF AirAck, AirGiveUp, Reached, IInv, TypesOK
  <1>3. TypesOK'
    BY <1>1, <1>2, StaysRadio DEF AirAck, AirGiveUp, IInv, TypesOK
  <1>4. pc[n] \in {"polling", "written"} /\ pc[n] # "idle" /\ pc[n] # "reading"
    BY <1>2 DEF IInv, TypesOK, DriverInv, Quiet, Pcs
  <1>5. DriverInv(n)'
    BY <1>1, <1>2, <1>4, Effects DEF IInv, DriverInv, Quiet, AnswerTrue, ReadyTrue, BufferOK
  <1>6. InOrder(n)'
    BY <1>1, <1>2, Effects, OrderFrame DEF IInv
  <1>7. ASSUME NEW k \in Node, k # n PROVE DriverInv(k)' /\ InOrder(k)'
    BY <1>2, <1>7, DriverFrame, OrderFrame DEF IInv
  <1> QED BY <1>3, <1>5, <1>6, <1>7 DEF IInv

(* A payload is stored at the peer, behind all that came before it.        *)
LEMMA AirStoreStep == ASSUME IInv, NEW n \in Node, AirStore(n) PROVE IInv'
  <1> DEFINE m == Peer(n)
             f == radio[m].rxFifo
             p == InAir(n)
             g == Append(f, p)
  <1>1. m \in Node /\ m # n /\ Peer(m) = n
    BY Peers
  <1>2. radio[m] \in Radio(Addresses, Payloads) /\ f \in Seq(Payloads)
    BY <1>1 DEF IInv, TypesOK, Radio
  <1>3. /\ radio[n].sending /\ ~stored[n] /\ stored'[n]
        /\ radio'[m] = Store(radio[m], p)
        /\ \A k \in Node : k # m => radio'[k] = radio[k]
        /\ \A k \in Node : k # n => stored'[k] = stored[k]
        /\ UNCHANGED <<pc, serial, result, buffer, got>>
    BY <1>1 DEF AirStore, Reached, IInv, TypesOK
  <1>4. serial[n] \in Nat /\ serial[n] > 0 /\ pc[n] # "idle" /\ pc[n] # "reading"
    BY <1>3 DEF IInv, TypesOK, DriverInv, Quiet, Pcs
  <1>5. p \in Payloads /\ p[2] = serial[n]
    BY <1>4 DEF InAir, Payloads
  <1>6. TypesOK'
    BY <1>1, <1>2, <1>3, <1>5, StoreType DEF AirStore, IInv, TypesOK
  <1>7. DriverInv(n)'
    BY <1>1, <1>3, <1>4 DEF IInv, DriverInv, Quiet, AnswerTrue, ReadyTrue, BufferOK
  <1>8. InOrder(n)'
    BY <1>1, <1>3, OrderFrame DEF IInv
  <1>9. radio'[m].rxFifo = g /\ g # << >>
    BY <1>2, <1>3, <1>5, StoreEffects
  <1>10. DriverInv(m)'
    <2>1. /\ radio'[m].sending = radio[m].sending /\ radio'[m].txDs = radio[m].txDs
          /\ radio'[m].txPending = radio[m].txPending
      BY <1>2, <1>3, <1>5, StoreEffects
    <2> HIDE DEF g, m
    <2> QED
      BY <1>1, <1>3, <1>9, <2>1 DEF IInv, DriverInv, Quiet, AnswerTrue, ReadyTrue, BufferOK
  <1>11. InOrder(m)'
    <2>1. InOrder(m) /\ m \in Node
      BY <1>1 DEF IInv
    <2>2. ASSUME NEW s \in Seq(Payloads), Sent(s, n)
          PROVE  \A i \in DOMAIN s : s[i][2] < serial[n]
      BY <1>3, <2>2 DEF Sent
    <2>3. /\ got[m] \in Seq(Payloads) /\ buffer[m] \in Seq(Payloads)
          /\ Sent(got[m], n) /\ Sent(buffer[m], n) /\ Sent(f, n)
      BY <1>1, <2>1 DEF IInv, TypesOK, InOrder
    <2>4. /\ DOMAIN f = 1 .. Len(f) /\ Len(f) \in Nat
          /\ \A i \in DOMAIN g : \/ i \in DOMAIN f /\ g[i] = f[i]
                                 \/ i = Len(f) + 1 /\ g[i] = p
      <3> HIDE DEF f, p
      <3>1. DOMAIN f = 1 .. Len(f) /\ Len(f) \in Nat /\ g \in Seq(Payloads)
            /\ Len(g) = Len(f) + 1 /\ DOMAIN g = 1 .. Len(g)
        BY <1>2, <1>5
      <3>2. g[Len(f) + 1] = p /\ \A i \in 1 .. Len(f) : g[i] = f[i]
        BY <1>2, <1>5
      <3> HIDE DEF g
      <3>3. ASSUME NEW i \in DOMAIN g
            PROVE  i \in 1 .. Len(f) \/ i = Len(f) + 1
        BY <3>1, <3>3
      <3>4. ASSUME NEW i \in DOMAIN g
            PROVE  \/ i \in DOMAIN f /\ g[i] = f[i]
                   \/ i = Len(f) + 1 /\ g[i] = p
        <4>1. CASE i \in 1 .. Len(f)
          BY <3>1, <3>2, <4>1
        <4>2. CASE i = Len(f) + 1
          BY <3>2, <4>2
        <4> QED BY <3>3, <4>1, <4>2
      <3> QED BY <3>1, <3>4
    <2> HIDE DEF g, f, p, m
    <2>5. Increasing(g)
      <3>1. ASSUME NEW i \in DOMAIN g, NEW j \in DOMAIN g, i < j PROVE g[i][2] < g[j][2]
        <4>1. i \in DOMAIN f /\ g[i] = f[i]
          BY <2>4, <3>1
        <4>2. CASE j \in DOMAIN f /\ g[j] = f[j]
          BY <2>1, <3>1, <4>1, <4>2 DEF InOrder, Increasing, f
        <4>3. CASE g[j] = p
          BY <1>2, <1>5, <2>2, <2>3, <4>1, <4>3
        <4> QED BY <2>4, <4>2, <4>3
      <3> QED BY <3>1 DEF Increasing
    <2>6. ASSUME NEW s \in Seq(Payloads), Sent(s, n), Before(s, f) PROVE Before(s, g)
      BY <1>5, <2>2, <2>4, <2>6 DEF Before
    <2>7. Before(got[m], g) /\ Before(buffer[m], g)
      BY <2>1, <2>3, <2>6 DEF InOrder, f
    <2>8. ASSUME NEW s \in Seq(Payloads), Sent(s, n) PROVE Sent(s, n)'
      BY <1>3, <2>8 DEF Sent
    <2>9. Sent(got[m], n)' /\ Sent(buffer[m], n)'
      BY <1>3, <2>3, <2>8 DEF Sent
    <2>10. \A i \in DOMAIN g : g[i][2] <= serial'[n] /\ stored'[n]
      <3>1. ASSUME NEW i \in DOMAIN g PROVE g[i][2] <= serial[n]
        <4>1. CASE i \in DOMAIN f /\ g[i] = f[i]
          BY <2>3, <4>1 DEF Sent
        <4>2. CASE g[i] = p
          BY <1>4, <1>5, <4>2
        <4> QED BY <2>4, <4>1, <4>2
      <3> QED BY <1>3, <3>1
    <2> QED
      BY <1>1, <1>3, <1>9, <2>1, <2>5, <2>7, <2>9, <2>10
      DEF InOrder, Increasing, Before, Sent
  <1> QED
    BY <1>1, <1>6, <1>7, <1>8, <1>10, <1>11, Peers DEF IInv

(* Nothing happens.                                                        *)
LEMMA StutterStep == ASSUME IInv, UNCHANGED vars PROVE IInv'
  <1>1. TypesOK'
    BY DEF IInv, TypesOK, vars
  <1>2. ASSUME NEW k \in Node PROVE DriverInv(k)' /\ InOrder(k)'
    BY DriverFrame, OrderFrame DEF IInv, vars
  <1> QED BY <1>1, <1>2 DEF IInv

(* The invariant, whatever the two boards, their chips and the air do.     *)
THEOREM LinkInductive == Spec => []IInv
  <1>1. ASSUME IInv, [Next]_vars PROVE IInv'
    <2>1. CASE UNCHANGED vars
      BY <1>1, <2>1, StutterStep
    <2>2. ASSUME NEW n \in Node,
                 \/ SelectAddress(n) \/ StartWrite(n) \/ EndWrite(n) \/ StartListen(n)
                 \/ StartRead(n) \/ EndRead(n) \/ AirStore(n) \/ AirAck(n) \/ AirGiveUp(n)
          PROVE  IInv'
      BY <1>1, <2>2, SelectStep, StartWriteStep, EndWriteStep, StartListenStep,
         StartReadStep, EndReadStep, AirStoreStep, AirAnswerStep
    <2> QED BY <1>1, <2>1, <2>2 DEF Next
  <1> QED BY InitIInv, <1>1, PTL DEF Spec

-----------------------------------------------------------------------------
(* A board that is told that data is ready finds a payload to read.        *)
THEOREM ReadyIsTrue == Spec => []ReadyMeansPayload
  <1>1. IInv => ReadyMeansPayload
    BY DEF IInv, DriverInv, ReadyTrue, ReadyMeansPayload, IsDataReady
  <1> QED BY LinkInductive, <1>1, PTL

(* A write that reports success has put its payload into the peer's FIFO.  *)
THEOREM AckIsTrue == Spec => []AckedWasStored
  <1>1. IInv => AckedWasStored
    BY DEF IInv, DriverInv, AnswerTrue, AckedWasStored
  <1> QED BY LinkInductive, <1>1, PTL

(* What a board reads was written in that order, and nothing is read twice.*)
THEOREM OrderlyLink == Spec => []InOrderOnce
  <1>1. IInv => InOrderOnce
    BY DEF IInv, InOrder, InOrderOnce
  <1> QED BY LinkInductive, <1>1, PTL

(* Every payload taken from the chip is handed to the caller.              *)
THEOREM NoReadInVain == Spec => EveryReadReturns
  <1>1. ASSUME IInv, [Next]_vars, NEW n \in Node, pc[n] = "reading", pc'[n] = "idle"
        PROVE  Len(got'[n]) = Len(got[n]) + 1
    <2>1. EndRead(n)
      BY <1>1
      DEF Next, SelectAddress, StartWrite, EndWrite, StartListen, StartRead, EndRead,
          AirStore, AirAck, AirGiveUp, IInv, TypesOK, vars
    <2>2. /\ got[n] \in Seq(Payloads) /\ buffer[n] \in Seq(Payloads) /\ Len(buffer[n]) = 1
      BY <1>1 DEF IInv, TypesOK, DriverInv, BufferOK
    <2>3. got'[n] = got[n] \o buffer[n]
      BY <1>1, <2>1, ReadReturns
    <2>4. ASSUME NEW s \in Seq(Payloads), NEW t \in Seq(Payloads), Len(t) = 1
          PROVE  Len(s \o t) = Len(s) + 1
      BY <2>4, AppendOne
    <2> QED BY <2>2, <2>3, <2>4
  <1>2. IInv /\ [Next]_vars =>
          [\A n \in Node :
             pc[n] = "reading" /\ pc'[n] = "idle" => Len(got'[n]) = Len(got[n]) + 1]_vars
    BY <1>1
  <1> QED BY LinkInductive, <1>2, PTL DEF Spec, EveryReadReturns

-----------------------------------------------------------------------------
(* The refinement of LossyLink, for the direction in which board n         *)
(* receives.                                                               *)
Link(n) == INSTANCE LossyLink WITH
  Depth <- RxFifoDepth,
  offered <- serial[Peer(n)],
  accepted <- stored[Peer(n)],
  waiting <- Serials(radio[n].rxFifo),
  out <- Serials(got[n] \o buffer[n])

(* The serial numbers of a sequence of payloads.                           *)
LEMMA SerialsType ==
  ASSUME NEW s \in Seq(Payloads)
  PROVE  /\ Serials(s) \in Seq(Nat) /\ Len(Serials(s)) = Len(s)
         /\ \A i \in 1 .. Len(s) : Serials(s)[i] = s[i][2]
  <1>1. Len(s) \in Nat /\ DOMAIN s = 1 .. Len(s)
    BY LenProperties
  <1>2. \A i \in 1 .. Len(s) : s[i][2] \in Nat
    <2>1. ASSUME NEW i \in 1 .. Len(s) PROVE s[i] \in Payloads
      BY <2>1, ElementOfSeq
    <2> QED BY <2>1 DEF Payloads
  <1>3. Serials(s) \in [1 .. Len(s) -> Nat]
    BY <1>1, <1>2 DEF Serials
  <1>4. Serials(s) \in Seq(Nat)
    BY <1>1, <1>3, SeqDef
  <1>5. Len(Serials(s)) = Len(s)
    BY <1>1, <1>3, <1>4, LenProperties
  <1> QED BY <1>1, <1>4, <1>5 DEF Serials

(* Numbering and appending go together.                                    *)
LEMMA SerialsAppend ==
  ASSUME NEW s \in Seq(Payloads), NEW p \in Payloads
  PROVE  Serials(Append(s, p)) = Append(Serials(s), p[2])
  <1> DEFINE a == Append(s, p)
             b == Append(Serials(s), p[2])
  <1>1. p[2] \in Nat
    BY DEF Payloads
  <1>2. /\ a \in Seq(Payloads) /\ Len(a) = Len(s) + 1 /\ Len(s) \in Nat
        /\ \A i \in 1 .. Len(s) : a[i] = s[i]
        /\ a[Len(s) + 1] = p
    BY AppendProperties, LenProperties
  <1>3. /\ Serials(s) \in Seq(Nat) /\ Len(Serials(s)) = Len(s)
        /\ \A i \in 1 .. Len(s) : Serials(s)[i] = s[i][2]
    BY SerialsType
  <1>4. /\ b \in Seq(Nat) /\ Len(b) = Len(s) + 1
        /\ \A i \in 1 .. Len(s) : b[i] = Serials(s)[i]
        /\ b[Len(s) + 1] = p[2]
    BY <1>1, <1>3, AppendProperties
  <1> HIDE DEF a, b
  <1>5. /\ Serials(a) \in Seq(Nat) /\ Len(Serials(a)) = Len(s) + 1
        /\ \A i \in 1 .. Len(s) + 1 : Serials(a)[i] = a[i][2]
    BY <1>2, SerialsType
  <1>6. ASSUME NEW i \in 1 .. Len(s) + 1 PROVE Serials(a)[i] = b[i]
    <2>1. CASE i \in 1 .. Len(s)
      <3>1. Serials(a)[i] = a[i][2]
        BY <1>5
      <3>2. a[i] = s[i]
        BY <1>2, <2>1
      <3>3. b[i] = s[i][2]
        BY <1>3, <1>4, <2>1
      <3> QED BY <3>1, <3>2, <3>3
    <2>2. CASE i = Len(s) + 1
      BY <1>2, <1>4, <1>5, <2>2
    <2> QED BY <1>2, <2>1, <2>2
  <1>7. Serials(a) = b
    BY <1>4, <1>5, <1>6, SeqEqual
  <1> QED BY <1>7 DEF a, b

(* So do numbering and taking the first.                                   *)
LEMMA SerialsTail ==
  ASSUME NEW s \in Seq(Payloads), s # << >>
  PROVE  /\ Serials(s) # << >> /\ Head(Serials(s)) = Head(s)[2]
         /\ Serials(Tail(s)) = Tail(Serials(s))
  <1> DEFINE a == Tail(s)
             q == Serials(s)
             b == Tail(q)
  <1>1. /\ q \in Seq(Nat) /\ Len(q) = Len(s) /\ Len(s) \in Nat \ {0}
        /\ \A i \in 1 .. Len(s) : q[i] = s[i][2]
    BY SerialsType, EmptySeq, LenProperties
  <1>2. /\ a \in Seq(Payloads) /\ Len(a) = Len(s) - 1
        /\ \A i \in 1 .. Len(a) : a[i] = s[i + 1]
    BY HeadTailProperties
  <1> HIDE DEF q
  <1>3. q # << >>
    BY <1>1
  <1>4. /\ b \in Seq(Nat) /\ Len(b) = Len(s) - 1
        /\ \A i \in 1 .. Len(s) - 1 : b[i] = q[i + 1]
    BY <1>1, <1>3, HeadTailProperties
  <1>5. Head(q) = q[1] /\ Head(s) = s[1] /\ q[1] = s[1][2]
    BY <1>1, <1>3
  <1> HIDE DEF a, b
  <1>6. /\ Serials(a) \in Seq(Nat) /\ Len(Serials(a)) = Len(s) - 1
        /\ \A i \in 1 .. Len(s) - 1 : Serials(a)[i] = a[i][2]
    BY <1>2, SerialsType
  <1>7. ASSUME NEW i \in 1 .. Len(s) - 1 PROVE Serials(a)[i] = b[i]
    <2>1. i + 1 \in 1 .. Len(s)
      BY <1>1
    <2> QED BY <1>1, <1>2, <1>4, <1>6, <2>1
  <1>8. Serials(a) = b
    BY <1>4, <1>6, <1>7, SeqEqual
  <1> QED BY <1>3, <1>5, <1>8 DEF a, b, q

(* No payloads, no numbers.                                                *)
LEMMA SerialsEmpty == Serials(<< >>) = << >>
  BY DEF Serials

(* What a step leaves alone for the receiver n.                            *)
LEMMA LinkFrame ==
  ASSUME NEW n \in Node, radio'[n].rxFifo = radio[n].rxFifo,
         got'[n] \o buffer'[n] = got[n] \o buffer[n],
         serial'[Peer(n)] = serial[Peer(n)], stored'[Peer(n)] = stored[Peer(n)]
  PROVE  UNCHANGED Link(n)!vars
  BY DEF Link!vars

(* Both directions begin empty.                                            *)
LEMMA LinkInit == ASSUME Init, NEW n \in Node PROVE Link(n)!Init
  <1>1. radio[n].rxFifo = << >> /\ got[n] \o buffer[n] = << >>
    BY DEF Init, Begin, Listen
  <1>2. serial[Peer(n)] = 0 /\ stored[Peer(n)] = FALSE
    BY Peers DEF Init
  <1> QED BY <1>1, <1>2, SerialsEmpty DEF Link!Init

(* The peer's driver offers a payload.                                     *)
LEMMA LinkOffers ==
  ASSUME IInv, NEW n \in Node, StartWrite(Peer(n))
  PROVE  Link(n)!Offer
  <1>1. Peer(n) \in Node /\ Peer(n) # n
    BY Peers
  <1>2. /\ serial'[Peer(n)] = serial[Peer(n)] + 1 /\ stored'[Peer(n)] = FALSE
        /\ radio'[n] = radio[n] /\ got' = got /\ buffer' = buffer
    BY <1>1 DEF StartWrite, IInv, TypesOK
  <1> QED BY <1>2 DEF Link!Offer

(* The chip accepts what the peer's chip sends, if it has room.            *)
LEMMA LinkAccepts ==
  ASSUME IInv, NEW n \in Node, AirStore(Peer(n))
  PROVE  Link(n)!Accept
  <1> DEFINE m == Peer(n)
             p == InAir(m)
  <1>1. m \in Node /\ m # n /\ Peer(m) = n
    BY Peers
  <1>2. radio[n] \in Radio(Addresses, Payloads) /\ radio[n].rxFifo \in Seq(Payloads)
    BY DEF IInv, TypesOK, Radio
  <1>3. /\ radio[m].sending /\ ~stored[m] /\ stored'[m] = TRUE
        /\ Len(radio[n].rxFifo) < RxFifoDepth
        /\ radio'[n] = Store(radio[n], p)
        /\ UNCHANGED <<pc, serial, result, buffer, got>>
    BY <1>1 DEF AirStore, Reached, HasRoom, IInv, TypesOK
  <1>4. serial[m] \in Nat /\ serial[m] > 0
    BY <1>1, <1>3 DEF IInv, TypesOK, DriverInv, Quiet, Pcs
  <1>5. p \in Payloads /\ p[2] = serial[m]
    BY <1>1, <1>4 DEF InAir, Payloads
  <1> HIDE DEF p
  <1>6. radio'[n].rxFifo = Append(radio[n].rxFifo, p)
    BY <1>2, <1>3, <1>5, StoreEffects
  <1>7. Serials(radio'[n].rxFifo) = Append(Serials(radio[n].rxFifo), serial[m])
    BY <1>2, <1>5, <1>6, SerialsAppend
  <1>8. Len(Serials(radio[n].rxFifo)) < RxFifoDepth
    BY <1>2, <1>3, SerialsType
  <1> QED BY <1>3, <1>4, <1>7, <1>8 DEF Link!Accept

(* The driver takes the oldest payload off the chip.                       *)
LEMMA LinkDelivers ==
  ASSUME IInv, NEW n \in Node, StartRead(n)
  PROVE  Link(n)!Deliver
  <1> DEFINE f == radio[n].rxFifo
             g == got[n]
  <1>1. radio[n] \in Radio(Addresses, Payloads) /\ f \in Seq(Payloads) /\ g \in Seq(Payloads)
    BY DEF IInv, TypesOK, Radio
  <1>2. /\ radio'[n] = ReadPayload(radio[n]) /\ buffer'[n] = <<Head(f)>> /\ buffer[n] = << >>
        /\ UNCHANGED <<serial, stored, got>>
    BY DEF StartRead, IInv, TypesOK, DriverInv, BufferOK
  <1>3. f # << >>
    BY DEF StartRead, IsDataReady, IInv, DriverInv, ReadyTrue
  <1>4. radio'[n].rxFifo = Tail(f)
    BY <1>1, <1>2, Effects
  <1>5. got[n] \o buffer[n] = g
    BY <1>1, <1>2, ConcatEmptySeq
  <1>6. Head(f) \in Payloads
    BY <1>1, <1>3, HeadTailProperties
  <1>7. got'[n] \o buffer'[n] = Append(g, Head(f))
    BY <1>1, <1>2, <1>6, AppendIsConcat
  <1> HIDE DEF f, g
  <1>8. /\ Serials(f) # << >> /\ Head(Serials(f)) = Head(f)[2]
        /\ Serials(Tail(f)) = Tail(Serials(f))
    BY <1>1, <1>3, SerialsTail
  <1>9. Serials(got'[n] \o buffer'[n]) = Append(Serials(g), Head(Serials(f)))
    BY <1>1, <1>6, <1>7, <1>8, SerialsAppend
  <1> QED BY <1>2, <1>4, <1>5, <1>8, <1>9 DEF Link!Deliver, f

(* nrf24_listen flushes the FIFO.                                          *)
LEMMA LinkLoses ==
  ASSUME IInv, NEW n \in Node, StartListen(n)
  PROVE  Link(n)!LoseWaiting
  <1>1. radio[n] \in Radio(Addresses, Payloads)
    BY DEF IInv, TypesOK
  <1>2. radio'[n] = Listen(radio[n]) /\ UNCHANGED <<serial, stored, got, buffer>>
    BY DEF StartListen, IInv, TypesOK
  <1>3. radio'[n].rxFifo = << >>
    BY <1>1, <1>2, Effects
  <1> QED BY <1>2, <1>3, SerialsEmpty DEF Link!LoseWaiting

(* Returning the payload changes nothing for the link.                     *)
LEMMA LinkReturns ==
  ASSUME IInv, NEW n \in Node, EndRead(n)
  PROVE  UNCHANGED Link(n)!vars
  <1>1. /\ radio[n] \in Radio(Addresses, Payloads) /\ got[n] \in Seq(Payloads)
        /\ buffer[n] \in Seq(Payloads)
    BY DEF IInv, TypesOK
  <1>2. /\ radio'[n] = ReadClear(radio[n]) /\ got'[n] = got[n] \o buffer[n]
        /\ buffer'[n] = << >> /\ UNCHANGED <<serial, stored>>
    BY ReadReturns
  <1>3. got[n] \o buffer[n] \in Seq(Payloads)
    BY <1>1, ConcatProperties
  <1>4. got'[n] \o buffer'[n] = got[n] \o buffer[n]
    BY <1>2, <1>3, ConcatEmptySeq
  <1>5. radio'[n].rxFifo = radio[n].rxFifo
    BY <1>1, <1>2, Effects
  <1> QED BY <1>2, <1>4, <1>5, LinkFrame

(* Neither do the other steps of the receiving board.                      *)
LEMMA LinkOwnSteps ==
  ASSUME IInv, NEW n \in Node,
         \/ SelectAddress(n) \/ StartWrite(n) \/ EndWrite(n) \/ AirStore(n)
         \/ AirAck(n) \/ AirGiveUp(n)
  PROVE  UNCHANGED Link(n)!vars
  <1>1. /\ radio[n] \in Radio(Addresses, Payloads)
        /\ Peer(n) \in Node /\ Peer(n) # n
    BY Peers DEF IInv, TypesOK
  <1>2. /\ UNCHANGED <<got, buffer>>
        /\ serial'[Peer(n)] = serial[Peer(n)] /\ stored'[Peer(n)] = stored[Peer(n)]
    BY <1>1
    DEF SelectAddress, StartWrite, EndWrite, AirStore, AirAck, AirGiveUp, IInv, TypesOK
  <1>3. \/ \E a \in Addresses : radio'[n] = SetAddress(radio[n], a)
        \/ radio'[n] \in {radio[n], WriteStart(radio[n]), WriteEnd(radio[n]),
                          Acknowledged(radio[n]), GaveUp(radio[n])}
    BY <1>1
    DEF SelectAddress, StartWrite, EndWrite, AirStore, AirAck, AirGiveUp, IInv, TypesOK
  <1>4. radio'[n].rxFifo = radio[n].rxFifo
    <2>1. CASE \E a \in Addresses : radio'[n] = SetAddress(radio[n], a)
      BY <1>1, <2>1 DEF SetAddress, Radio
    <2> QED BY <1>1, <1>3, <2>1, Effects
  <1> QED BY <1>2, <1>4, LinkFrame

(* Nor what the peer does but to write and to send.                        *)
LEMMA LinkPeerSteps ==
  ASSUME IInv, NEW n \in Node, NEW m \in Node, m = Peer(n),
         \/ SelectAddress(m) \/ EndWrite(m) \/ StartListen(m) \/ StartRead(m)
         \/ EndRead(m) \/ AirAck(m) \/ AirGiveUp(m)
  PROVE  UNCHANGED Link(n)!vars
  <1>1. m # n
    BY Peers
  <1>2. /\ radio'[n] = radio[n] /\ got'[n] = got[n] /\ buffer'[n] = buffer[n]
        /\ UNCHANGED <<serial, stored>>
    BY <1>1
    DEF SelectAddress, EndWrite, StartListen, StartRead, EndRead, AirAck, AirGiveUp,
        IInv, TypesOK
  <1> QED BY <1>2, LinkFrame

(* Every step of the boards, the chips and the air is one of the abstract  *)
(* link in the direction of n.                                             *)
LEMMA LinkStep ==
  ASSUME IInv, [Next]_vars, NEW n \in Node
  PROVE  [Link(n)!Next]_(Link(n)!vars)
  <1>1. CASE UNCHANGED vars
    BY <1>1, LinkFrame DEF vars
  <1>2. ASSUME NEW k \in Node,
               \/ SelectAddress(k) \/ StartWrite(k) \/ EndWrite(k) \/ StartListen(k)
               \/ StartRead(k) \/ EndRead(k) \/ AirStore(k) \/ AirAck(k) \/ AirGiveUp(k)
        PROVE  [Link(n)!Next]_(Link(n)!vars)
    <2>1. CASE k = n
      BY <1>2, <2>1, LinkDelivers, LinkLoses, LinkReturns, LinkOwnSteps DEF Link!Next
    <2>2. CASE k = Peer(n)
      BY <1>2, <2>2, LinkOffers, LinkAccepts, LinkPeerSteps DEF Link!Next
    <2> QED BY <2>1, <2>2, Peers
  <1> QED BY <1>1, <1>2 DEF Next

(* The two directions of RadioLink are the two instances.                  *)
LEMMA Directions ==
  /\ Link("racer")!Init <=> HatToRacer!Init
  /\ [Link("racer")!Next]_(Link("racer")!vars) <=> [HatToRacer!Next]_(HatToRacer!vars)
  /\ Link("hat")!Init <=> RacerToHat!Init
  /\ [Link("hat")!Next]_(Link("hat")!vars) <=> [RacerToHat!Next]_(RacerToHat!vars)
  BY DEF Link!Init, Link!Next, Link!vars, Link!Offer, Link!Accept, Link!Deliver,
         Link!LoseWaiting, HatToRacer!Init, HatToRacer!Next, HatToRacer!vars,
         HatToRacer!Offer, HatToRacer!Accept, HatToRacer!Deliver, HatToRacer!LoseWaiting,
         RacerToHat!Init, RacerToHat!Next, RacerToHat!vars, RacerToHat!Offer,
         RacerToHat!Accept, RacerToHat!Deliver, RacerToHat!LoseWaiting, Peer

(* Each direction of the radio link is a lossy but orderly link.           *)
THEOREM LinkRefines == Spec => LinkIsLossy
  <1>1. "hat" \in Node /\ "racer" \in Node
    BY DEF Node
  <1>2. Init => HatToRacer!Init /\ RacerToHat!Init
    BY <1>1, LinkInit, Directions
  <1>3. IInv /\ [Next]_vars =>
          [HatToRacer!Next]_(HatToRacer!vars) /\ [RacerToHat!Next]_(RacerToHat!vars)
    BY <1>1, LinkStep, Directions
  <1> QED
    BY <1>2, <1>3, LinkInductive, PTL
    DEF Spec, LinkIsLossy, HatToRacer!Spec, RacerToHat!Spec
=============================================================================
