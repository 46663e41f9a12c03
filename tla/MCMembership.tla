---------------------------- MODULE MCMembership ----------------------------
(* The node itself is a heavy writer: its share has to be held back. *)
EXTENDS Membership

MCWeight == [w \in Writers |-> IF w = Me THEN 9 ELSE 1]
=============================================================================
