---------------------------- MODULE MCWalReplay ----------------------------
(***************************************************************************)
(* Small instances of WalReplay: two nodes, one cell, three LSNs.          *)
(***************************************************************************)
EXTENDS WalReplay

CONSTANTS n1, n2
=============================================================================
