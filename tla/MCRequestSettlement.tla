------------------------- MODULE MCRequestSettlement -------------------------
(***************************************************************************)
(* RequestSettlement for TLC: the sets of faults of its runs.              *)
(***************************************************************************)
EXTENDS RequestSettlement

DisconnectFaults == {"disconnect", "early"}
SelectorFaults   == {"selector"}
AllFaults        == {"disconnect", "early", "cancel", "database", "log", "selector", "guardrails"}
AllPolicies      == {"allow_free", "estimate", "fail"}
AllFormats       == {"chat", "messages", "responses"}

=============================================================================
