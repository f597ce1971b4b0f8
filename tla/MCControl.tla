----------------------------- MODULE MCControl -----------------------------
(* Instance of Control for TLC: around the corners of the curves, the ends *)
(* of the ranges and points between.                                       *)
EXTENDS Control

Both(S) == S \cup {-s : s \in S}

MCAccelX == Both({0, 1, 1999, 2000, 2001, 2999, 3000, 3044, 4567, 5999, 6000,
                  6001, 8999, 9000, 9001, 32767}) \cup {-32768}
MCAccelY == Both({0, 3999, 4000, 4001, 4002, 4777, 5998, 5999, 6000, 6001, 32767})
              \cup {-32768}
MCStickX == {0, 249, 250, 251, 428, 700, 1847, 1848, 2024, 2048, 2202, 2203, 3000,
             3622, 3623, 3799, 3800, 3801, 4095}
MCStickY == {0, 59, 60, 61, 1182, 1183, 1500, 1742, 1743, 1930, 2048, 2116, 2117,
             2400, 2678, 3799, 3800, 3801, 4095}
=============================================================================
