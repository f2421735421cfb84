----------------------------- MODULE MCToolLoop -----------------------------
(* Two tools, two MCP servers, two rounds of at most two calls.              *)
EXTENDS ToolLoop
CONSTANTS a, b, s1, s2

MCTools == {a, b}
MCConfigs == <<s1, s2>>
=============================================================================
