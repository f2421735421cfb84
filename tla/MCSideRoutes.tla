---------------------------- MODULE MCSideRoutes ----------------------------
(***************************************************************************)
(* SideRoutes for TLC.                                                     *)
(***************************************************************************)
EXTENDS SideRoutes, TLC

CONSTANTS r1, r2

AllFaults == {"cancel", "database", "log", "reply", "disk"}
Interchangeable == Permutations({r1, r2})

=============================================================================
