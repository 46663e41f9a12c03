-------------------------- MODULE MCTxCoordinator --------------------------
(***************************************************************************)
(* A small instance of TxCoordinator: writes of one cell that change its   *)
(* value, and a write of two columns of one row that can only follow one   *)
(* of the first column.                                                    *)
(***************************************************************************)
EXTENDS TxCoordinator, TLC

CONSTANTS col1, col2, t1, t2

a == <<col1, 0>>
b == <<col2, 0>>

Upd(o, n) == [old |-> o, new |-> n]

OneCell == {a :> Upd(0, 1), b :> Upd(0, 1)}

BothCells == {(a :> Upd(1, 0)) @@ (b :> Upd(0, 1))}

SmallRequests == OneCell \cup BothCells
=============================================================================
