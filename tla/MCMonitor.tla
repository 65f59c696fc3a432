----------------------------- MODULE MCMonitor -----------------------------
(***************************************************************************)
(* A small instance of the capacity monitor for TLC.                       *)
(***************************************************************************)
EXTENDS Monitor

CpuAndMem == <<"cpu", "mem">>
MCReadings == [r \in {"cpu", "mem"} |-> IF r = "cpu" THEN {2, 7} ELSE {1}]
MCDraws == [r \in {"cpu", "mem"} |-> IF r = "cpu" THEN {0, 1} ELSE {0}]
MCNumCPU == [r \in {"cpu", "mem"} |-> IF r = "cpu" THEN 2 ELSE 1]
============================================================================
