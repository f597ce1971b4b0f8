--------------------------- MODULE MCWackyRacers ---------------------------
(* Instance of WackyRacers for TLC.                                        *)
EXTENDS WackyRacers

MCRegisters == {"leftDuty", "leftDir", "rightDuty", "rightDir"}
MCStop == [r \in MCRegisters |-> 0]
MCReverse == [r \in MCRegisters |-> IF r \in {"leftDir", "rightDir"} THEN 1 ELSE 0]
MCCommands == {MCStop, MCReverse}
=============================================================================
