------------------------------ MODULE MCOpLog ------------------------------
(* The values are interchangeable: the leader only compares them. *)
EXTENDS OpLog

ValueSymmetry == Permutations(Values)
=============================================================================
