------------------------------ MODULE MCBridge ------------------------------
(* A small instance of Bridge: no counts, one value to a stack.  The fresh *)
(* names are interchangeable.                                              *)
EXTENDS Bridge, TLC

MCCountOf(c) == 1
Symmetric == Permutations(FreshNames)
=============================================================================
