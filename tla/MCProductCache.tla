--------------------------- MODULE MCProductCache ---------------------------
(***************************************************************************)
(* Small instances of ProductCache.tla for TLC.                            *)
(***************************************************************************)
EXTENDS ProductCache

CONSTANTS p1, p2, l1, l2, d1, w1, w2
=============================================================================
