----------------------------- MODULE HeapBlocks -----------------------------
(***************************************************************************)
(* What a heap in a memory promises: the blocks in use lie inside it and   *)
(* apart from each other; a block is allocated or freed at one moment, and *)
(* no other block is touched by that.  All blocks may be lost together.    *)
(***************************************************************************)
EXTENDS Integers

CONSTANT HeapSize    \* bytes 0 .. HeapSize - 1 belong to the heap

VARIABLE blocks      \* [at, len]: the bytes at .. at + len - 1 are in use

Inside(b) == b.at \in 0 .. HeapSize - 1 /\ b.len \in 1 .. HeapSize - b.at

Apart(b, c) == b.at + b.len =< c.at \/ c.at + c.len =< b.at

Init == blocks = {}

Allocate(b) ==
  /\ Inside(b)
  /\ \A c \in blocks : Apart(b, c)
  /\ blocks' = blocks \cup {b}

Free(b) == blocks' = blocks \ {b}

Lose == blocks' = {}

Next ==
  \/ \E b \in blocks' : Allocate(b)
  \/ \E b \in blocks : Free(b)
  \/ Lose

Spec == Init /\ [][Next]_blocks
=============================================================================
