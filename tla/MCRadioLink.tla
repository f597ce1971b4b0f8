---------------------------- MODULE MCRadioLink ----------------------------
(* Instance of RadioLink for TLC: the hat writes more payloads than the    *)
(* racer's chip can hold, the racer writes often enough to flush it.       *)
EXTENDS RadioLink

MCMaxWrites == [n \in {"hat", "racer"} |-> IF n = "hat" THEN 4 ELSE 2]
=============================================================================
