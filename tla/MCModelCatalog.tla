-------------------------- MODULE MCModelCatalog --------------------------
(* An instance of ModelCatalog for TLC.                                    *)
EXTENDS ModelCatalog, TLC

CONSTANTS l1, l2, a1, a2

Symmetry == Permutations({l1, l2}) \cup Permutations({a1, a2})

\* Prices and discovery share no state but the start of the process: lists are
\* made where no call and no request has come in.
OneHalf ==
    \/ calls = 0 /\ request = "new"
    \/ cache = "none" /\ \A l \in Listers : lister[l] = "idle"
=============================================================================
