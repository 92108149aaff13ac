------------------------------ MODULE MCServer ------------------------------
(* Server with two requests: one can be answered while the other hangs.      *)
EXTENDS Server, TLC

RequestSymmetry == Permutations(Requests)
=============================================================================
