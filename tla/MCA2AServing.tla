--------------------------- MODULE MCA2AServing ---------------------------
(* An instance of A2AServing for TLC.                                      *)
EXTENDS A2AServing

CONSTANTS r1, r2, r3, c1, c2

Symmetry == Permutations({r1, r2, r3}) \cup Permutations({c1, c2})
=============================================================================
