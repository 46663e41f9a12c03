---------------------------- MODULE MCCheckpoints ----------------------------
(***************************************************************************)
(* A small instance of Checkpoints: one column, that comes and goes, three *)
(* labels for four checkpoints, of which every third is full.              *)
(***************************************************************************)
EXTENDS Checkpoints

CONSTANTS a, c1, c2, c3, v1, v2

(* Neither labels nor values are told apart; no liveness is checked. *)
Symmetry == Permutations(Labels) \cup Permutations(Values)
=============================================================================
