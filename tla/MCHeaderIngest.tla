--------------------------- MODULE MCHeaderIngest ---------------------------
(* Instances of HeaderIngest for TLC. *)
EXTENDS HeaderIngest, TLC

CONSTANTS p1, p2, x, y, n

\* The second file is called what a header may name.
MCPathId == (p1 :> n) @@ (p2 :> x)
MCPathOrder == (p1 :> 1) @@ (p2 :> 2)
==============================================================================
