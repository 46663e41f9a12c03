--------------------------- MODULE MCReadNodeSync ---------------------------
(***************************************************************************)
(* A small instance of ReadNodeSync: two writers and the pool's two        *)
(* workers, writes of one cell, of two, and a structural operation.        *)
(***************************************************************************)
EXTENDS ReadNodeSync

CONSTANTS a, b

SmallDeltas == {{a}, {a, b}, {Structure}}
=============================================================================
