------------------------------ MODULE MCGateway ------------------------------
(***************************************************************************)
(* Gateway for TLC.                                                        *)
(***************************************************************************)
EXTENDS Gateway

AllFormats  == {"chat", "messages", "responses"}
AllPolicies == {"allow_free", "estimate", "fail"}

AllServiceFaults  == {"disconnect", "early", "cancel", "database", "log", "selector",
                       "guardrails"}
AllPlatformFaults == {"cancel", "disconnect", "refused", "outage", "protocol", "deadline",
                       "provider"}

\* The writer's steps and a request's meet at the puts only: elsewhere they
\* commute, so the writer moves while the request is about to put, and after it.
\* What a row says is nothing to the writer: one usage of each kind is enough.
WriterAtPuts ==
  writer' = writer \/ rows' # rows
    \/ /\ pc \in {"logServed", "logFailed", "logStream", "logStreamError", "over"}
       /\ chunks <= 1 /\ usage.counts \in {{}, {"input", "output"}}

=============================================================================
