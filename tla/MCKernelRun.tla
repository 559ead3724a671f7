---------------------------- MODULE MCKernelRun ----------------------------
(* The kernels of NMClib on the register files of the build, with a loop   *)
(* counter of two bits instead of eleven so that its limit is reached.     *)
EXTENDS KernelRun

SomeKernels == <<
    VA(3), VA(10), VA(27), VA(45),
    DP(3, 2), DP(15, 2), DP(33, 1), DP(55, 2),
    MM(1, 8, 1), MM(2, 13, 3), MM(1, 17, 4), MM(2, 5, 2),
    Conv(1, 2, 2, TRUE), Conv(8, 3, 2, TRUE), Conv(11, 2, 1, FALSE),
    Conv(16, 4, 1, TRUE), Conv(27, 2, 2, TRUE), Conv(20, 1, 2, FALSE)>>

(* Dot products of a multiple of 14 elements, and convolutions with fewer  *)
(* than eight weights per output channel.                                  *)
FaultyKernels == <<DP(28, 2), Conv(3, 2, 1, FALSE), Conv(2, 2, 1, FALSE)>>
=============================================================================
