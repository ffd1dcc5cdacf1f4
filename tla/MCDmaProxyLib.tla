---------------------------- MODULE MCDmaProxyLib ----------------------------
(* Instances of DmaProxyLib for TLC.  Threads that use the same calls are   *)
(* interchangeable.                                                         *)
EXTENDS DmaProxyLib, TLC

ThreadSymmetry == Permutations(Threads)
=============================================================================
