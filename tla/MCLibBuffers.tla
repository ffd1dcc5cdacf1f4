---------------------------- MODULE MCLibBuffers ----------------------------
(* Instance of LibBuffers for TLC: an entry gained by realloc is zero, or   *)
(* holds what an entry for some buffer once held.                           *)
EXTENDS LibBuffers

CONSTANTS a1, a2, a3

MCAddrs  == {a1, a2, a3}
MCUninit == {Empty, [fd |-> 3, buffer |-> a1]}

Symmetry == Permutations(Threads)
=============================================================================
