-------------------------------- MODULE Pipe --------------------------------
(***************************************************************************)
(* What one direction of a serial port promises: bytes, numbered as they   *)
(* are put in, come out in the same order, once, and unchanged, several at *)
(* once or one by one.                                                     *)
(***************************************************************************)
EXTENDS Integers, Sequences

CONSTANTS
  Numbers,     \* bytes are numbered modulo this
  Depth        \* bytes that can be inside

VARIABLES
  next,        \* number of the byte that is put in next
  inside,      \* the bytes inside, the oldest first
  latest       \* the bytes that came out last

vars == <<next, inside, latest>>

Init ==
  /\ next = 0
  /\ inside = << >>
  /\ latest = << >>

Put(n) ==
  /\ Len(inside) + n =< Depth
  /\ inside' = inside \o [i \in 1 .. n |-> (next + i - 1) % Numbers]
  /\ next' = (next + n) % Numbers
  /\ UNCHANGED latest

Take(n) ==
  /\ n =< Len(inside)
  /\ latest' = SubSeq(inside, 1, n)
  /\ inside' = SubSeq(inside, n + 1, Len(inside))
  /\ UNCHANGED next

Next == \E n \in 1 .. Depth : Put(n) \/ Take(n)

Spec == Init /\ [][Next]_vars
=============================================================================
