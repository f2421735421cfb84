------------------------------ MODULE ToolLoop ------------------------------
(* One request with gateway-managed tools, from its input guardrails to the  *)
(* closing of its tool backend: the six tool loops (chat completions,        *)
(* Anthropic Messages and Responses, each with and without streaming) over   *)
(* the three backends (an MCP pool, a sandbox session, web search).          *)
(*                                                                           *)
(* A model reply is the sequence of the tools it calls, the way it stops and *)
(* where it carries its usage. A call is named by its round and its place in *)
(* the reply. Every reply that reports usage reports one input token and one *)
(* output token, so a sum over rounds differs from a last value as soon as   *)
(* there are two rounds. What is billed and refunded around the loop is the  *)
(* subject of RequestSettlement and PlatformFallback.                        *)
EXTENDS Integers, Sequences, FiniteSets, SequencesExt

CONSTANTS
    Tools,          \* names of tools: the model may call any of them
    BuiltIn,        \* the one the sandbox and the web search backend own
    Configs,        \* the MCP servers of the request, in order
    NoServer,       \* owner of a tool no connected server offers
    MaxRails,       \* BOUND: guardrails of the request
    MaxIterations,  \* the request's max_tool_iterations
    MaxCalls        \* BOUND: tool calls in one reply

ASSUME ToolLoopAssumption ==
    /\ BuiltIn \in Tools
    /\ NoServer \notin ToSet(Configs)
    /\ MaxRails \in Nat /\ MaxIterations \in Nat \ {0} /\ MaxCalls \in Nat

VARIABLES
    pc,      \* where the request is
    rails,   \* guardrails evaluated so far
    flagged, \* a block-mode guardrail has flagged the input
    refused, \* a block-mode guardrail could not vouch for the input (history)
    rq,      \* the format, whether it streams, and the backend
    owner,   \* the MCP pool's _tool_owner
    res,     \* the backend's open client, and its remote session
    round,   \* calls of the provider
    reply,   \* the reply being worked on
    todo,    \* calls the gateway still has to run, first first
    fed,     \* what has been appended to the conversation, round by round
    ran,     \* the calls that have been run, in order (history)
    locked,  \* how often on_first_response has been called
    acc,     \* the loop's running totals
    spent,   \* what the provider has reported, round by round (history)
    seen,    \* the usage the caller of the loop reads
    out,     \* what the client has got
    why      \* faults met on the way (history)

vars == <<pc, rails, flagged, refused, rq, owner, res, round, reply, todo, fed,
          ran, locked, acc, spent, seen, out, why>>
guarding  == <<rails, flagged, refused>>
talking   == <<round, reply, todo, fed, ran, locked, acc, spent, seen>>

Backends == {"mcp", "sandbox", "web"}
Zero == [in |-> 0, out |-> 0]
NoReply == [calls |-> <<>>, ends |-> <<>>, usage |-> "absent"]
NoRequest == [fmt |-> "none", stream |-> FALSE, backend |-> "none"]

Init ==
    /\ pc = "guard" /\ rails = 0 /\ flagged = FALSE /\ refused = FALSE
    /\ rq = NoRequest
    /\ owner = [t \in Tools |-> NoServer]
    /\ res = [client |-> FALSE, session |-> FALSE, linked |-> 0]
    /\ round = 0 /\ reply = NoReply /\ todo = <<>> /\ fed = <<>> /\ ran = <<>>
    /\ locked = 0 /\ acc = Zero /\ spent = Zero /\ seen = Zero
    /\ out = [end |-> "none", calls |-> {}, terminals |-> 0]
    /\ why = {}

(***************************** Input guardrails ****************************)

\* What _validate_one makes of the service's answer: a verdict, or the error that
\* run_input_guardrails handles for an unreachable service, a missing URL and a
\* malformed result. A body that is no JSON object raises a TypeError instead,
\* and an address no URL can be made of an InvalidURL: nothing names these.
Verdict(answer) ==
    CASE answer \in {"valid", "invalid", "inconclusive"} -> answer
      [] answer \in {"malformed", "unreachable"} -> "error"
      [] OTHER -> "raises"

\* run_input_guardrails, one guardrail of the request at a time. A block-mode
\* guardrail that cannot be evaluated ends the request at once (502), one that
\* flags it does so only when all have run; a monitor changes nothing. What is
\* raised past the two ends the request whichever mode the guardrail has (500).
RunGuardrail ==
    /\ pc = "guard" /\ rails < MaxRails
    /\ rails' = rails + 1
    /\ \E mode \in {"block", "monitor"},
          answer \in {"valid", "invalid", "inconclusive", "malformed", "unreachable", "no_object"} :
        LET verdict == Verdict(answer) IN
        /\ flagged' = (flagged \/ (mode = "block" /\ verdict = "invalid"))
        /\ refused' = (refused \/ (mode = "block" /\ verdict \in {"invalid", "error", "raises"}))
        /\ why' = IF verdict = "raises" THEN why \cup {"uncaught_guardrail"} ELSE why
        /\ IF verdict = "raises" \/ (mode = "block" /\ verdict = "error")
           THEN /\ pc' = "done"
                /\ out' = [out EXCEPT !.end = IF verdict = "raises" THEN "guardrail_500"
                                                                 ELSE "guardrail_502"]
           ELSE UNCHANGED <<pc, out>>
    /\ UNCHANGED <<rq, owner, res, talking>>

\* Variant: a flag is only reported.
ApplyGuardrailsOpen ==
    /\ pc = "guard"
    /\ pc' = "prepare"
    /\ UNCHANGED <<guarding, rq, owner, res, talking, out, why>>

\* apply_input_guardrails once every guardrail has run.
ApplyGuardrails ==
    /\ pc = "guard"
    /\ IF flagged THEN /\ pc' = "done"
                       /\ out' = [out EXCEPT !.end = "guardrail_403"]
                  ELSE pc' = "prepare" /\ UNCHANGED out
    /\ UNCHANGED <<guarding, rq, owner, res, talking, why>>

(*************************** Choosing the backend **************************)

\* prepare_gateway_tools: each opt-in needs its service and excludes the
\* others; the workspace policy may switch web search off.
Rejected(asked, configured, enabled) ==
    \/ "sandbox" \in asked /\ ("sandbox" \notin configured \/ "mcp" \in asked)
    \/ "web" \in asked /\ ("web" \notin configured \/ asked # {"web"} \/ ~enabled)

PrepareTools ==
    /\ pc = "prepare"
    /\ \E asked \in SUBSET Backends \ {{}}, configured \in SUBSET {"sandbox", "web"},
          enabled \in BOOLEAN, fmt \in {"chat", "messages", "responses"}, s \in BOOLEAN :
        IF Rejected(asked, configured, enabled)
        THEN /\ pc' = "done"
             /\ out' = [out EXCEPT !.end = "rejected"]
             /\ UNCHANGED rq
        ELSE /\ pc' = "enter"
             /\ rq' = [fmt |-> fmt, stream |-> s, backend |-> CHOOSE b \in asked : TRUE]
             /\ UNCHANGED out
    /\ rails' = 0
    /\ UNCHANGED <<flagged, refused, owner, res, talking, why>>

(**************************** The tool backends ****************************)

\* The end of the request: with an answer, or with an exception that escapes
\* the loop. Either way the backend's context manager is left next.
Leave(end) ==
    /\ pc' = "exit"
    /\ out' = [out EXCEPT !.end = end]

\* MCPClientPool._connect, server after server: a tool of an earlier server
\* hides the tools of that name of later ones.
Connect ==
    /\ pc = "enter" /\ rq.backend = "mcp"
    /\ res.linked < Len(Configs)
    /\ \E listed, allowed \in SUBSET Tools :
         owner' = [t \in Tools |->
                     IF owner[t] = NoServer /\ t \in listed \cap allowed
                     THEN Configs[res.linked + 1] ELSE owner[t]]
    /\ res' = [res EXCEPT !.client = TRUE, !.linked = @ + 1]
    /\ UNCHANGED <<pc, guarding, rq, talking, out, why>>

\* Variant: the pool leaves its stack to a caller that never gets the pool.
ConnectFailsOpen ==
    /\ pc = "enter" /\ rq.backend = "mcp"
    /\ pc' = "done"
    /\ out' = [out EXCEPT !.end = "unreachable"]
    /\ UNCHANGED <<guarding, rq, owner, res, talking, why>>

\* __aenter__ of the pool closes every session already open when one fails,
\* cancellation included.
ConnectFails ==
    /\ pc = "enter" /\ rq.backend = "mcp"
    /\ res' = [res EXCEPT !.client = FALSE]
    /\ pc' = "done"
    /\ out' = [out EXCEPT !.end = "unreachable"]
    /\ UNCHANGED <<guarding, rq, owner, talking, why>>

Connected ==
    /\ pc = "enter" /\ rq.backend = "mcp" /\ res.linked = Len(Configs)
    /\ pc' = "ask"
    /\ UNCHANGED <<guarding, rq, owner, res, talking, out, why>>

\* SandboxBackend.__aenter__: the client is closed when the session cannot be
\* created, also when it was created and only the answer got lost. The except
\* clause names HTTPError, KeyError and ValueError: a cancellation leaves the
\* client open, and so does the TypeError of an answer that is no JSON object,
\* whose session nobody knows the id of.
EnterSandbox ==
    /\ pc = "enter" /\ rq.backend = "sandbox"
    /\ \/ /\ pc' = "ask"
          /\ res' = [res EXCEPT !.client = TRUE, !.session = TRUE]
          /\ UNCHANGED <<out, why>>
       \/ \E made \in BOOLEAN :
          /\ pc' = "done"
          /\ res' = [res EXCEPT !.session = made]
          /\ out' = [out EXCEPT !.end = "unreachable"]
          /\ why' = IF made THEN why \cup {"answer_lost"} ELSE why
       \/ \E made \in BOOLEAN :
          /\ pc' = "done"
          /\ res' = [res EXCEPT !.client = TRUE, !.session = made]
          /\ \/ /\ out' = [out EXCEPT !.end = "cancelled"]
                /\ why' = why \cup {"cancelled_entering"}
             \/ /\ out' = [out EXCEPT !.end = "failed"]
                /\ why' = why \cup {"session_no_object"}
    /\ UNCHANGED <<guarding, rq, owner, talking>>

EnterWebSearch ==
    /\ pc = "enter" /\ rq.backend = "web"
    /\ pc' = "ask"
    /\ res' = [res EXCEPT !.client = TRUE]
    /\ UNCHANGED <<guarding, rq, owner, talking, out, why>>

Owns(tool) == IF rq.backend = "mcp" THEN owner[tool] # NoServer ELSE tool = BuiltIn

\* open_stream enters these two backends before it returns the generator that
\* leaves them: a generator that is never pulled never does.
NeverPulled ==
    /\ pc = "ask" /\ round = 0 /\ rq.stream /\ rq.backend # "mcp"
    /\ pc' = "done"
    /\ out' = [out EXCEPT !.end = "cancelled"]
    /\ why' = why \cup {"never_pulled"}
    /\ UNCHANGED <<guarding, rq, owner, res, talking>>

(****************************** One provider call **************************)

\* Where the usage of a reply travels. Without streaming it is in the reply or
\* absent. A chat stream has it on its terminal chunk or on a chunk of its own;
\* an Anthropic stream splits it between message_start and message_delta; a
\* Responses stream has it on response.completed, or on the response.incomplete
\* event the loop takes for any other one ("apart").
Usages ==
    IF ~rq.stream THEN {"with", "absent"}
    ELSE IF rq.fmt = "messages" THEN {"with", "absent"} ELSE {"with", "apart", "absent"}

\* The stop signals of one reply, in the order they arrive: one without
\* streaming, none when a stream just ends, two when a provider sends a
\* trailing stop chunk.
Endings ==
    IF ~rq.stream THEN {<<"tools">>, <<"stop">>}
    ELSE IF rq.fmt = "chat"
    THEN {<<>>, <<"tools">>, <<"stop">>, <<"tools", "stop">>, <<"stop", "tools">>}
    ELSE IF rq.fmt = "messages" THEN {<<>>, <<"tools">>, <<"stop">>} ELSE {<<>>, <<"stop">>}

Replies == [calls : SeqOf(Tools, MaxCalls), ends : Endings, usage : Usages]

\* A provider call with the conversation so far. The totals of what providers
\* report are history; the usage a stream forwards on the way is read by
\* streaming_generator, which keeps the last non-zero value of each field.
Ask ==
    /\ pc = "ask" /\ round < MaxIterations
    /\ round' = round + 1
    /\ \E r \in Replies :
        /\ r.usage = "apart" => (rq.fmt = "chat" \/ r.ends = <<>>)
        /\ r.usage = "with" => r.ends # <<>>
        /\ reply' = r
        /\ spent' = IF r.usage = "absent" THEN spent
                    ELSE [in |-> spent.in + 1, out |-> spent.out + 1]
        /\ seen' = IF ~rq.stream \/ r.usage = "absent" THEN seen
                   ELSE IF rq.fmt = "messages" THEN [seen EXCEPT !.in = 1]
                   ELSE IF r.usage = "apart" THEN [in |-> 1, out |-> 1] ELSE seen
        /\ out' = [out EXCEPT !.terminals =
                     @ + IF rq.stream /\ rq.fmt = "responses" /\ r.usage = "apart" THEN 1 ELSE 0]
    /\ locked' = IF ~rq.stream /\ locked = 0 THEN 1 ELSE locked
    /\ pc' = "reply"
    /\ UNCHANGED <<guarding, rq, owner, res, todo, fed, ran, acc, why>>

\* The call raises, or the stream breaks while it is read.
AskFails ==
    /\ pc = "ask" /\ round < MaxIterations
    /\ Leave("upstream_error")
    /\ UNCHANGED <<guarding, rq, owner, res, talking, why>>

\* MaxToolIterationsExceeded, after the tools of the last round have run.
IterationsExceeded ==
    /\ pc = "ask" /\ round = MaxIterations
    /\ Leave("iterations_exceeded")
    /\ UNCHANGED <<guarding, rq, owner, res, talking, why>>

(******************************** The loops ********************************)

Ids(r) == [i \in 1 .. Len(r.calls) |-> <<round, i>>]

\* _execute_split, _split_tool_uses, _split_function_calls: the calls of the
\* reply the gateway owns, in order.
Owned == FlattenSeq([i \in 1 .. Len(reply.calls) |->
                       IF Owns(reply.calls[i]) THEN <<<<round, i>>>> ELSE <<>>])
HasForeign == \E i \in DOMAIN reply.calls : ~Owns(reply.calls[i])

Stop == IF reply.ends = <<>> THEN "none" ELSE Last(reply.ends)

\* The finish reason of a chat stream: a later stop never overrides tool_calls.
Sticky == IF "tools" \in ToSet(reply.ends) THEN "tools" ELSE Stop

\* Variant: the totals are those of the last round.
PlusLast(t) == IF reply.usage = "absent" THEN t ELSE [in |-> 1, out |-> 1]

Plus(t) == IF reply.usage = "absent" THEN t ELSE [in |-> t.in + 1, out |-> t.out + 1]

\* The reply is the answer, as it is: its calls, if any, are the client's.
\* _fold_usage writes the totals into a usage the reply must have.
Answer(shown, totals) ==
    /\ pc' = "exit"
    /\ out' = [end |-> "answer", calls |-> shown, terminals |-> 1]
    /\ seen' = IF reply.usage = "absent" THEN Zero ELSE totals

\* All calls are the gateway's: they are appended and run, and the provider is
\* asked again.
Continue ==
    /\ pc' = "run"
    /\ todo' = Owned
    /\ fed' = Append(fed, [calls |-> Owned, results |-> <<>>])
    /\ UNCHANGED out

\* Some calls are the client's: the gateway's are run for their effect only.
Mixed ==
    /\ pc' = "mixed"
    /\ todo' = Owned
    /\ UNCHANGED <<fed, out>>

\* The non-streaming loops differ in when a reply counts as a tool round: chat
\* asks for finish_reason first, Messages only for a round that would continue,
\* Responses not at all.
mcp_tool_loop ==
    /\ pc = "reply" /\ rq.fmt = "chat" /\ ~rq.stream
    /\ acc' = Plus(acc)
    /\ IF Stop # "tools" \/ Owned = <<>>
       THEN Answer(ToSet(Ids(reply)), acc') /\ UNCHANGED <<todo, fed>>
       ELSE /\ IF HasForeign THEN Mixed ELSE Continue
            /\ UNCHANGED seen
    /\ UNCHANGED <<guarding, rq, owner, res, round, reply, ran, locked, spent, why>>

anthropic_tool_loop ==
    /\ pc = "reply" /\ rq.fmt = "messages" /\ ~rq.stream
    /\ acc' = Plus(acc)
    /\ IF Owned = <<>> \/ (~HasForeign /\ Stop # "tools")
       THEN Answer(ToSet(Ids(reply)), acc') /\ UNCHANGED <<todo, fed>>
       ELSE /\ IF HasForeign THEN Mixed ELSE Continue
            /\ UNCHANGED seen
    /\ UNCHANGED <<guarding, rq, owner, res, round, reply, ran, locked, spent, why>>

responses_tool_loop ==
    /\ pc = "reply" /\ rq.fmt = "responses" /\ ~rq.stream
    /\ acc' = Plus(acc)
    /\ IF Owned = <<>>
       THEN Answer(ToSet(Ids(reply)), acc') /\ UNCHANGED <<todo, fed>>
       ELSE /\ IF HasForeign THEN Mixed ELSE Continue
            /\ UNCHANGED seen
    /\ UNCHANGED <<guarding, rq, owner, res, round, reply, ran, locked, spent, why>>

\* The answer of a stream: the deferred terminal events are forwarded, and all
\* the calls of the reply have been on the way already.
StreamAnswer(usage) ==
    /\ pc' = "exit"
    /\ out' = [end |-> "answer", calls |-> ToSet(Ids(reply)),
               terminals |-> out.terminals + IF reply.ends = <<>> THEN 0 ELSE 1]
    /\ seen' = IF reply.usage = "with" THEN usage ELSE seen
    /\ UNCHANGED <<todo, fed, acc>>

\* A chat stream has no totals: what its dropped terminal chunks reported is
\* gone, and streaming_generator reads the usage of the last round only.
mcp_tool_loop_stream ==
    /\ pc = "reply" /\ rq.fmt = "chat" /\ rq.stream
    /\ IF Sticky # "tools" \/ HasForeign \/ Owned = <<>>
       THEN StreamAnswer([in |-> 1, out |-> 1])
       ELSE Continue /\ UNCHANGED <<seen, acc>>
    /\ UNCHANGED <<guarding, rq, owner, res, round, reply, ran, locked, spent, why>>

\* _maybe_fold_message_delta_usage and _maybe_fold_response_completed_usage.
Folded == [in |-> 1, out |-> 1 + acc.out]

\* The output tokens of the terminal events that are dropped.
PlusDropped == [acc EXCEPT !.out = @ + IF reply.usage = "with" THEN 1 ELSE 0]

anthropic_tool_loop_stream ==
    /\ pc = "reply" /\ rq.fmt = "messages" /\ rq.stream
    /\ IF Owned = <<>> \/ HasForeign \/ Stop # "tools"
       THEN StreamAnswer(Folded)
       ELSE Continue /\ acc' = PlusDropped /\ UNCHANGED seen
    /\ UNCHANGED <<guarding, rq, owner, res, round, reply, ran, locked, spent, why>>

\* The loop decides when the stream is over, whether response.completed has
\* come or not.
responses_tool_loop_stream ==
    /\ pc = "reply" /\ rq.fmt = "responses" /\ rq.stream
    /\ IF HasForeign \/ Owned = <<>>
       THEN StreamAnswer(Folded) /\ UNCHANGED why
       ELSE /\ Continue
            /\ acc' = PlusDropped
            /\ why' = IF reply.ends = <<>> THEN why \cup {"uncompleted"} ELSE why
            /\ UNCHANGED seen
    /\ UNCHANGED <<guarding, rq, owner, res, round, reply, ran, locked, spent>>

(***************************** Running the calls ***************************)

\* The text a call of each backend ends in, whatever happens to it: call_tool
\* raises for the outcomes named "raises", and the loops turn that into a text.
McpText(answer) ==
    IF answer \in {"is_error", "raises"} THEN "tool_error" ELSE "text"
SandboxText(answer) ==
    IF answer \in {"stderr_only", "return_code", "malformed", "raises"} THEN "tool_error" ELSE "text"
SearchText(answer) ==
    IF answer \in {"empty_query", "raises"} THEN "tool_error" ELSE "text"

Texts ==
    CASE rq.backend = "mcp" -> {McpText(a) : a \in {"content", "is_error", "raises"}}
      [] rq.backend = "sandbox" ->
           {SandboxText(a) : a \in {"stdout", "stderr_only", "return_code", "malformed", "raises"}}
      [] OTHER -> {SearchText(a) : a \in {"hits", "nothing", "empty_query", "raises"}}

\* Variant: a call that raises leaves no result.
RunDroppingErrors(kind) ==
    /\ pc \in {"run", "mixed"} /\ todo # <<>>
    /\ todo' = Tail(todo)
    /\ ran' = Append(ran, Head(todo))
    /\ \E text \in Texts :
         fed' = IF pc = "mixed" \/ text = "tool_error" THEN fed
                ELSE [fed EXCEPT ![Len(fed)].results =
                        Append(@, [kind |-> kind, id |-> Head(todo), text |-> text])]
    /\ UNCHANGED <<pc, guarding, rq, owner, res, round, reply, locked, acc, spent, seen, out, why>>

\* One call of the batch, in order. Its text is a result of the conversation
\* in a tool round, and is thrown away in a mixed batch.
Run(kind) ==
    /\ pc \in {"run", "mixed"} /\ todo # <<>>
    /\ todo' = Tail(todo)
    /\ ran' = Append(ran, Head(todo))
    /\ \E text \in Texts :
         fed' = IF pc = "mixed" THEN fed
                ELSE [fed EXCEPT ![Len(fed)].results =
                        Append(@, [kind |-> kind, id |-> Head(todo), text |-> text])]
    /\ UNCHANGED <<pc, guarding, rq, owner, res, round, reply, locked, acc, spent, seen, out, why>>

execute_mcp_calls == rq.fmt = "chat" /\ Run("tool")
execute_tool_uses == rq.fmt = "messages" /\ Run("tool_result")
execute_function_calls == rq.fmt = "responses" /\ Run("function_call_output")

\* The batch has run: the next round, or the answer without the calls that
\* have been run.
BatchRun ==
    /\ pc \in {"run", "mixed"} /\ todo = <<>>
    /\ IF pc = "run" THEN pc' = "ask" /\ UNCHANGED <<seen, out>>
       ELSE Answer(ToSet(Ids(reply)) \ ToSet(Owned), acc)
    /\ UNCHANGED <<guarding, rq, owner, res, round, reply, todo, fed, ran, locked, acc, spent, why>>

\* The request is cancelled, or the client of a stream goes away, at an await
\* of the loop.
Cancel ==
    /\ pc \in {"ask", "run", "mixed"}
    /\ Leave("cancelled")
    /\ UNCHANGED <<guarding, rq, owner, res, talking, why>>

(**************************** Leaving the backend **************************)

\* __aexit__ of the pool and of web search.
ExitClient ==
    /\ pc = "exit" /\ rq.backend # "sandbox"
    /\ pc' = "done"
    /\ res' = [res EXCEPT !.client = FALSE]
    /\ UNCHANGED <<guarding, rq, owner, talking, out, why>>

\* SandboxBackend.__aexit__: a session that cannot be deleted is given up, and
\* the client is closed all the same unless the deletion is cancelled.
ExitSandbox ==
    /\ pc = "exit" /\ rq.backend = "sandbox"
    /\ pc' = "done"
    /\ \/ /\ res' = [res EXCEPT !.session = FALSE, !.client = FALSE]
          /\ UNCHANGED why
       \/ /\ res' = [res EXCEPT !.client = FALSE]
          /\ why' = why \cup {"delete_failed"}
       \/ \E gone \in BOOLEAN :
          /\ res' = [res EXCEPT !.session = ~gone]
          /\ why' = why \cup {"cancelled_leaving"}
    /\ UNCHANGED <<guarding, rq, owner, talking, out>>

Next ==
    \/ RunGuardrail \/ ApplyGuardrails \/ PrepareTools
    \/ Connect \/ ConnectFails \/ Connected \/ EnterSandbox \/ EnterWebSearch \/ NeverPulled
    \/ Ask \/ AskFails \/ IterationsExceeded
    \/ mcp_tool_loop \/ anthropic_tool_loop \/ responses_tool_loop
    \/ mcp_tool_loop_stream \/ anthropic_tool_loop_stream \/ responses_tool_loop_stream
    \/ execute_mcp_calls \/ execute_tool_uses \/ execute_function_calls \/ BatchRun
    \/ Cancel \/ ExitClient \/ ExitSandbox

Spec == Init /\ [][Next]_vars

(******************************** Properties *******************************)

\* Types of the variables.
TypeOK ==
    /\ pc \in {"guard", "prepare", "enter", "ask", "reply", "run", "mixed", "exit", "done"}
    /\ rails \in 0 .. MaxRails /\ flagged \in BOOLEAN /\ refused \in BOOLEAN
    /\ rq.backend \in Backends \cup {"none"}
    /\ owner \in [Tools -> ToSet(Configs) \cup {NoServer}]
    /\ round \in 0 .. MaxIterations /\ Len(fed) <= round /\ Len(todo) <= MaxCalls
    /\ {acc.in, acc.out, spent.in, spent.out, seen.in, seen.out} \subseteq 0 .. MaxIterations

\* apply_input_guardrails: a provider is asked only when every block-mode
\* guardrail could be evaluated and did not flag the input, and the guardrails
\* stop a request only when one of those did or could not. Monitors never do,
\* but for an answer that raises what nobody catches: it fails the request, and
\* a provider is not asked either.
GuardrailsDecide ==
    /\ round > 0 => ~refused /\ "uncaught_guardrail" \notin why
    /\ out.end \in {"guardrail_403", "guardrail_502"} => refused /\ "uncaught_guardrail" \notin why
    /\ out.end = "guardrail_500" => "uncaught_guardrail" \in why

\* Whenever the provider is asked again, the conversation holds one tool round
\* per earlier reply, and in it exactly one result for every call, in the order
\* of the calls, whatever became of the call.
TranscriptPaired ==
    pc = "ask" =>
        /\ Len(fed) = round
        /\ \A k \in 1 .. round :
             [i \in DOMAIN fed[k].results |-> fed[k].results[i].id] = fed[k].calls

\* No call is run twice, and the calls an answer hands to the client are
\* exactly those of its last reply that the gateway has not run: a call is
\* dispatched by one side only, mixed batches included. Without streaming, no
\* tool runs before on_first_response has locked the provider in, once.
DispatchedOnce ==
    /\ ran # <<>> /\ ~rq.stream => locked = 1
    /\ Cardinality(ToSet(ran)) = Len(ran)
    /\ out.end = "answer" => out.calls = ToSet(Ids(reply)) \ ToSet(ran)

\* Each call of the model is run once, by one side, and answered in its place:
\* the two invariants above.
CallsAreAnswered == TranscriptPaired /\ DispatchedOnce

\* "Accumulates usage across iterations": what the caller of the loop reads is
\* the sum over all rounds, in every format. The exceptions are the ones of the
\* code: a last reply without usage has no field to carry it, a stream keeps
\* only the last round's input tokens, a chat stream the last output too, and a
\* Responses stream drops a round that went on without response.completed.
UsageIsWhole ==
    out.end = "answer" /\ reply.usage = "with" /\ "uncompleted" \notin why =>
        /\ seen.out = IF rq.fmt = "chat" /\ rq.stream THEN 1 ELSE spent.out
        /\ seen.in = IF rq.stream THEN 1 ELSE spent.in

\* What leaves the context managers without their cleaning up.
Escapes == {"cancelled_entering", "session_no_object", "cancelled_leaving", "never_pulled"}

\* A finished request has closed its client and deleted its sandbox session,
\* unless the answer to the session's creation or its deletion was lost, the
\* answer to its creation was no object, the request was cancelled inside
\* __aenter__ or __aexit__, or its stream was never pulled.
LeftOpenHasCause ==
    pc = "done" =>
        /\ res.client => why \cap Escapes # {}
        /\ res.session => why \cap (Escapes \cup {"answer_lost", "delete_failed"}) # {}

\* "Loop continuation is decided on response.completed" and "drop the terminal
\* response.completed event": a client is to see one terminal event.
OneTerminalEvent == out.end = "answer" => out.terminals <= 1
=============================================================================
