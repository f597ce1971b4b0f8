------------------------------ MODULE MCRacer ------------------------------
(* Instance of Racer for TLC.                                              *)
EXTENDS Racer

MCCommand(left, right) ==
  [r \in Registers |->
     CASE r = "leftDuty" -> left[1] [] r = "leftDir" -> left[2]
       [] r = "rightDuty" -> right[1] [] r = "rightDir" -> right[2]]

(* Stop, turn on the spot, and full reverse (duty 0 with direction 1).     *)
MCCommands == {Stopped, MCCommand(<<1, 0>>, <<0, 1>>), MCCommand(<<0, 1>>, <<0, 1>>)}
MCKeys == {0, 1}
=============================================================================
