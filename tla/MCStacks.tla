------------------------------ MODULE MCStacks ------------------------------
(* A small instance of Stacks: three names, one count.  The names other    *)
(* than main are interchangeable.                                          *)
EXTENDS Stacks

CONSTANTS a, b

MCCountOf(c) == 1
Symmetric == Permutations({a, b})
=============================================================================
