------------------------- MODULE MCDeltaReplication -------------------------
(***************************************************************************)
(* A small instance of DeltaReplication: a window and a memory of one LSN, *)
(* so that three LSNs reach every branch of _handle_delta.                 *)
(***************************************************************************)
EXTENDS DeltaReplication

CONSTANT r1
=============================================================================
