----------------------------- MODULE LossyLink -----------------------------
(***************************************************************************)
(* What the radio link promises in one direction: payloads 1, 2, 3 ... are *)
(* offered one after the other; each is accepted at most once, and only    *)
(* while it is the last one offered; accepted payloads come out in order;  *)
(* any number of accepted payloads may be lost before they come out, all   *)
(* of those waiting at once.                                               *)
(***************************************************************************)
EXTENDS Naturals, Sequences

CONSTANT Depth     \* payloads that can wait at the receiver

VARIABLES
  offered,    \* number of payloads offered so far
  accepted,   \* the last payload offered has been accepted
  waiting,    \* accepted payloads that have not come out
  out         \* payloads that have come out

vars == <<offered, accepted, waiting, out>>

Init ==
  /\ offered = 0
  /\ accepted = FALSE
  /\ waiting = << >>
  /\ out = << >>

Offer ==
  /\ offered' = offered + 1
  /\ accepted' = FALSE
  /\ UNCHANGED <<waiting, out>>

Accept ==
  /\ offered > 0
  /\ ~accepted
  /\ Len(waiting) < Depth
  /\ waiting' = Append(waiting, offered)
  /\ accepted' = TRUE
  /\ UNCHANGED <<offered, out>>

Deliver ==
  /\ waiting # << >>
  /\ out' = Append(out, Head(waiting))
  /\ waiting' = Tail(waiting)
  /\ UNCHANGED <<offered, accepted>>

LoseWaiting ==
  /\ waiting' = << >>
  /\ UNCHANGED <<offered, accepted, out>>

Next == Offer \/ Accept \/ Deliver \/ LoseWaiting

Spec == Init /\ [][Next]_vars
=============================================================================
