--------------------------- MODULE MCABController ---------------------------
(* Model checking of ABController. MCABController.cfg scales the timing     *)
(* down so that three requests keep the device busy for longer than a       *)
(* refresh interval; MCABControllerTies.cfg has the timing of the grade     *)
(* HBM_300MHz, 4 Gb (HBM_AB.h), with a third of its refresh interval.       *)
EXTENDS ABController
=============================================================================
