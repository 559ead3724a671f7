------------------------------ MODULE MCCoSim ------------------------------
(* Model checking of CoSim. The constants of the build (3333, 2^20, 20000,  *)
(* 4 words) are scaled down so that BACKUP still spans more cycles than a   *)
(* register write and does not divide the period, and one of the gaps jumps *)
(* past THRESHOLD.                                                          *)
EXTENDS CoSim

PacedGaps == {2, 5, 14}
=============================================================================
