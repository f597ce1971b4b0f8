------------------------------ MODULE MCKernel ------------------------------
(* Instance of Kernel for TLC.                                            *)
EXTENDS Kernel

(* gen_key, change_control and the two control tasks, with time for all.   *)
MCPeriod == <<5, 3, 3>>
MCWorstCase == <<1, 3, 3>>
=============================================================================
