-------------------------------- MODULE Ring --------------------------------
(***************************************************************************)
(* The ring buffer of src/mmculib/ring: operators on one ring.  The        *)
(* pointers in and out are offsets from the top of the buffer.             *)
(*                                                                         *)
(* ring_read and ring_write are given by their parts, because an interrupt *)
(* may come between them: the number of bytes is read once, the bytes are  *)
(* copied, and then the one pointer the caller owns moves.  The compiler   *)
(* keeps that order: a store through a char pointer may alias the ring.    *)
(***************************************************************************)
EXTENDS Integers, Sequences

CONSTANT RingSize     \* RING_SIZE: bytes of the buffer, one more than it holds

ASSUME RingAssumption == RingSize \in Nat \ {0}

Offsets == 0 .. RingSize - 1

(* ring_init on a buffer of which every byte is junk.                      *)
ring_init(junk) == [in |-> 0, out |-> 0, buf |-> [i \in Offsets |-> junk]]

(* Seeded fault: the free byte that tells full from empty is given away.   *)
RING_WRITE_NUM_all(r) == RingSize - ((r.in - r.out) % RingSize)

RING_READ_NUM(r) == (r.in - r.out) % RingSize

RING_WRITE_NUM(r) == RingSize - RING_READ_NUM(r) - 1

(* The memcpy of ring_read and of ring_write, in one or two portions.      *)
CopyOut(r, n) == [i \in 1 .. n |-> r.buf[(r.out + i - 1) % RingSize]]

CopyIn(r, bytes) ==
  [r EXCEPT !.buf = [i \in Offsets |->
     LET k == (i - r.in) % RingSize
     IN  IF k < Len(bytes) THEN bytes[k + 1] ELSE r.buf[i]]]

ring_read_advance(r, n) == [r EXCEPT !.out = (r.out + n) % RingSize]

ring_write_advance(r, n) == [r EXCEPT !.in = (r.in + n) % RingSize]

ring_empty_p(r) == RING_READ_NUM(r) = 0

(* A full ring drops the byte.                                             *)
ring_putc(r, c) ==
  IF RING_WRITE_NUM(r) = 0 THEN r
  ELSE [r EXCEPT !.buf[r.in] = c, !.in = (r.in + 1) % RingSize]

(* ring_getc returns the byte that ring_peek shows; this is the ring after.*)
ring_peek(r) == r.buf[r.out]

ring_getc(r) == [r EXCEPT !.out = (r.out + 1) % RingSize]

-----------------------------------------------------------------------------
(* The bytes that wait in a ring, the oldest first.                        *)
Contents(r) == CopyOut(r, RING_READ_NUM(r))
=============================================================================
