--------------------------- MODULE MCAgentTools ---------------------------
(* An instance of AgentTools for TLC.                                      *)
EXTENDS AgentTools

CONSTANTS t1, t2

ToolList == <<"server", "function", "server">>
Symmetry == Permutations({t1, t2})
=============================================================================
