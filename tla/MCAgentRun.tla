----------------------------- MODULE MCAgentRun -----------------------------
(* Instances of AgentRun for TLC.                                          *)
EXTENDS AgentRun, TLC

CONSTANTS r1, r2

Symmetry == Permutations(Runs)

\* Bound: one kind of trouble in a behaviour.
OneTrouble == Cardinality(trouble) <= 1
=============================================================================
