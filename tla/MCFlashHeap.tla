---------------------------- MODULE MCFlashHeap -----------------------------
(***************************************************************************)
(* A heap of three packets of one word each.  Some data look like the      *)
(* header of a free packet, sizes leave remainders of every kind, and the  *)
(* device ends with the heap or goes on with a used or a free packet.      *)
(***************************************************************************)
EXTENDS FlashHeap

MCVectors ==
  { [bytes |-> <<255, 255, 255, 254>>, starts |-> starts] : starts \in {<<0, 2>>, <<0, 1, 2, 3>>} }

MCBehind == { << >>, <<0, 0, 0, 0>>, <<255, 255, 255, 255>> }

WhileIntact == Intact
=============================================================================
