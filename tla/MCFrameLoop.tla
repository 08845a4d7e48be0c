---------------------------- MODULE MCFrameLoop ----------------------------
(* Small instances of FrameLoop.  No step tells one stack from another.    *)
EXTENDS FrameLoop

Symmetric == Permutations(Names)
=============================================================================
