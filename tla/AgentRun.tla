----------------------------- MODULE AgentRun -----------------------------
(***************************************************************************)
(* any-agent: concurrent runs of ONE agent (src/any-agent/src/any_agent/   *)
(* frameworks/any_agent.py, run_async) and the callback wrappers it puts   *)
(* around the framework's own model and tool calls                         *)
(* (callbacks/wrappers/*.py).                                              *)
(*                                                                         *)
(* A run registers a Context under its trace id; the first registered run  *)
(* replaces the framework's entry points by wrappers, the last one puts    *)
(* the originals back.  A wrapper finds the Context of the run it is       *)
(* called in by the current trace id and calls the callbacks, which open   *)
(* a span before a call and add it to the run's trace after it.            *)
(*                                                                         *)
(* An entry point is the number of wrappers around the framework's own     *)
(* function.  A wrapper written as `self._original_x(...)` reads that      *)
(* attribute when it is CALLED, so one that was put around another wrapper *)
(* calls itself for ever; one that captured the original at wrap time      *)
(* runs the callbacks once per layer.                                      *)
(***************************************************************************)
EXTENDS Integers, Sequences, FiniteSets

CONSTANTS Runs,        \* run_async calls that may be made on the agent
          RunFrameworks, \* the frameworks to examine; one is chosen at the start
          MaxRunCalls, \* bound: model and tool calls of one run
          MaxUpdates   \* bound: calls of update_output_type_async

Nil == "none"                    \* Python's None
Outer == "outer"                 \* the trace id of a caller's own span
Ids == Runs \cup {Outer}
Entries == {"llm", "tool", "tools"}   \* entry points on the framework's agent
NoSpan == <<Nil, 0>>
Loop == -1                       \* a call that finds itself as its original

ASSUME AgentRunAssumption ==
    /\ RunFrameworks \subseteq
         {"agno", "google", "langchain", "llama_index", "openai", "smolagents"}
    /\ IsFiniteSet(Runs) /\ Nil \notin Runs /\ Outer \notin Runs
    /\ MaxUpdates \in Nat

VARIABLES framework, \* the framework
          typed,    \* config.output_type is set
          gen,      \* how often self._agent was made anew
          finals,   \* generation -> its tools include final_output
          layers,   \* generation -> entry point -> wrappers around it
          modelLayers, \* wrappers around AnyAgent.call_model
          original, \* the wrapper's saved originals, as their layers
          saved,    \* llama_index: the saved tool calls include final_output
          contexts, \* _wrapper.callback_context: trace id -> run's Context
          lock,     \* self._lock: the run that holds it across an await
          reusedDict,   \* langchain: tracing callbacks in a reused config dict
          pc, id, agentOf, heard, tries, fault, outcome,
          span,     \* run -> current_span of its Context
          trace,    \* run -> the spans of its Context's trace
          got,      \* run -> the Context popped when it left
          open,     \* run -> its calls in flight
          calls,    \* run -> the calls that came back, in order
          trouble   \* what happened that the properties make exceptions for

agentState == <<framework, typed, gen, finals, layers, modelLayers, original, saved>>
runs == <<pc, id, agentOf, heard, tries, fault, outcome, got>>
work == <<span, trace, open, calls>>
runVars == <<agentState, contexts, lock, reusedDict, runs, work, trouble>>

Unwrapped == [e \in Entries |-> 0]

RunInit ==
    /\ framework \in RunFrameworks /\ typed \in BOOLEAN
    /\ gen = 0
    /\ finals = [g \in 0..MaxUpdates |-> typed]
    /\ layers = [g \in 0..MaxUpdates |-> Unwrapped]
    /\ modelLayers = 0
    /\ original = [e \in Entries \cup {"model"} |-> 0]
    /\ saved = FALSE
    /\ contexts = [i \in Ids |-> Nil]
    /\ lock = Nil /\ reusedDict = 0
    /\ pc = [r \in Runs |-> "idle"] /\ id = [r \in Runs |-> Nil]
    /\ agentOf = [r \in Runs |-> 0] /\ heard = [r \in Runs |-> 0]
    /\ tries = [r \in Runs |-> 0]
    /\ fault = [r \in Runs |-> Nil] /\ outcome = [r \in Runs |-> Nil]
    /\ got = [r \in Runs |-> Nil]
    /\ span = [r \in Runs |-> NoSpan] /\ trace = [r \in Runs |-> <<>>]
    /\ open = [r \in Runs |-> {}] /\ calls = [r \in Runs |-> <<>>]
    /\ trouble = {}

-----------------------------------------------------------------------------
(* The wrappers: what wrap replaces, what unwrap puts back, and which of   *)
(* the replacements read the original when they are called.  "model" is    *)
(* AnyAgent.call_model; "tools" is openai's get_all_tools.                 *)

AgnoWraps == {"llm", "tool"}
\* Writes arun_function_calls, an attribute wrap never touched.
AgnoRestores == {"llm"}

GoogleWraps == {"llm", "tool"}
GoogleRestores == {"llm", "tool"}

OpenAIWraps == {"llm", "tools"}
OpenAIRestores == {"llm", "tools", "tool"}

SmolagentsWraps == {"llm", "tool"}
SmolagentsRestores == {"llm", "tool"}

LangchainWraps == {"llm", "model"}
LangchainRestores == {"llm", "model"}

LlamaIndexWraps == {"llm", "tool", "model"}
\* The tools are put back one by one, final_output last; a tool that was not
\* there at wrap time is a KeyError, after which call_model is left alone.
LlamaIndexRaises == finals[gen] /\ ~saved
LlamaIndexRestores == {"llm", "tool"} \cup (IF LlamaIndexRaises THEN {} ELSE {"model"})

Wraps == CASE framework = "agno" -> AgnoWraps
           [] framework = "google" -> GoogleWraps
           [] framework = "openai" -> OpenAIWraps
           [] framework = "smolagents" -> SmolagentsWraps
           [] framework = "langchain" -> LangchainWraps
           [] framework = "llama_index" -> LlamaIndexWraps

Restores == CASE framework = "agno" -> AgnoRestores
              [] framework = "google" -> GoogleRestores
              [] framework = "openai" -> OpenAIRestores
              [] framework = "smolagents" -> SmolagentsRestores
              [] framework = "langchain" -> LangchainRestores
              [] framework = "llama_index" -> LlamaIndexRestores

Captures(e) == e = "tool" /\ framework \in {"openai", "smolagents", "llama_index"}

Layers(e) == IF e = "model" THEN modelLayers ELSE layers[gen][e]

Wrap ==
    /\ original' = [e \in DOMAIN original |->
                      IF e \in Wraps THEN Layers(e) ELSE original[e]]
    /\ layers' = [layers EXCEPT ![gen] =
                    [e \in Entries |-> @[e] + (IF e \in Wraps THEN 1 ELSE 0)]]
    /\ modelLayers' = modelLayers + (IF "model" \in Wraps THEN 1 ELSE 0)
    /\ saved' = (saved \/ (framework = "llama_index" /\ finals[gen]))

Unwrap ==
    /\ layers' = [layers EXCEPT ![gen] =
                    [e \in Entries |-> IF e \in Restores THEN original[e] ELSE @[e]]]
    /\ modelLayers' = IF "model" \in Restores THEN original["model"] ELSE modelLayers
    /\ UNCHANGED <<original, saved>>

\* How often the callbacks run for a call through n layers at e.
Through(e, n) ==
    IF Captures(e) THEN n
    ELSE IF n = 0 THEN 0
    ELSE IF original[e] > 0 THEN Loop ELSE 1

-----------------------------------------------------------------------------
(* run_async.                                                              *)

Registered == {i \in Ids : contexts[i] # Nil}

\* Variant: every run wraps, not only the first registered one.
EnterAlways(r) ==
    /\ pc[r] = "idle" /\ lock = Nil
    /\ \E i \in {r, Outer} :
         /\ id' = [id EXCEPT ![r] = i]
         /\ contexts' = [contexts EXCEPT ![i] = r]
         /\ trouble' = trouble \cup (IF contexts[i] # Nil THEN {"shared"} ELSE {})
    /\ Wrap
    /\ pc' = [pc EXCEPT ![r] = "before"]
    /\ UNCHANGED <<framework, typed, gen, finals, lock, reusedDict, agentOf, heard, tries,
                   fault, outcome, got, work>>

\* Under the lock: a new Context is stored under the trace id, which is the
\* caller's own when the run is made inside a span of the caller.
Enter(r) ==
    /\ pc[r] = "idle" /\ lock = Nil
    /\ \E i \in {r, Outer} :
         /\ id' = [id EXCEPT ![r] = i]
         /\ contexts' = [contexts EXCEPT ![i] = r]
         /\ trouble' = trouble \cup (IF contexts[i] # Nil THEN {"shared"} ELSE {})
         /\ IF Cardinality(Registered \cup {i}) = 1
            THEN Wrap
            ELSE UNCHANGED <<original, layers, modelLayers, saved>>
    /\ pc' = [pc EXCEPT ![r] = "before"]
    /\ UNCHANGED <<framework, typed, gen, finals, lock, reusedDict, agentOf, heard, tries,
                   fault, outcome, got, work>>

\* langchain's wrapped ainvoke adds its tracing callback to the config dict of
\* the caller, who may pass the same dict again.
Listens(r, reused) ==
    /\ heard' = [heard EXCEPT ![r] = IF reused THEN reusedDict + 1 ELSE 1]
    /\ reusedDict' = IF reused THEN reusedDict + 1 ELSE reusedDict
    /\ trouble' = trouble \cup (IF reused /\ reusedDict > 0 THEN {"config"} ELSE {})

\* The before_agent_invocation callbacks, then _run_async takes self._agent.
BeginRun(r) ==
    /\ pc[r] = "before" /\ contexts[id[r]] # Nil
    /\ agentOf' = [agentOf EXCEPT ![r] = gen]
    /\ IF framework = "langchain"
       THEN CASE Through("llm", layers[gen]["llm"]) = Loop ->
                   /\ pc' = [pc EXCEPT ![r] = "leaving"]
                   /\ fault' = [fault EXCEPT ![r] = "loop"]
                   /\ UNCHANGED <<heard, reusedDict, trouble>>
              [] Through("llm", layers[gen]["llm"]) = 0 ->
                   /\ pc' = [pc EXCEPT ![r] = "running"]
                   /\ UNCHANGED <<fault, heard, reusedDict, trouble>>
              [] OTHER ->
                   /\ pc' = [pc EXCEPT ![r] = "running"]
                   /\ \E reused \in BOOLEAN : Listens(r, reused)
                   /\ UNCHANGED fault
       ELSE /\ pc' = [pc EXCEPT ![r] = "running"]
            /\ UNCHANGED <<heard, reusedDict, fault, trouble>>
    /\ UNCHANGED <<agentState, contexts, lock, id, tries, outcome, got, work>>

Stop(r, f) ==
    /\ pc' = [pc EXCEPT ![r] = "leaving"]
    /\ fault' = [fault EXCEPT ![r] = f]
    /\ open' = [open EXCEPT ![r] = {}]

\* Everything that ends _run_async with an exception: a callback (an
\* AgentCancel leaves the same way, only not wrapped), the model, a refused
\* prompt, a result that cannot be read or does not validate.
Raise(r) ==
    /\ pc[r] \in {"before", "running", "shaping"}
    /\ Stop(r, "error")
    /\ UNCHANGED <<agentState, contexts, lock, reusedDict, id, agentOf, heard, tries,
                   outcome, got, span, trace, calls, trouble>>

\* callback_context[trace_id] of a Context another run has popped: KeyError.
LostContext(r) ==
    /\ pc[r] = "before" /\ contexts[id[r]] = Nil
    /\ Stop(r, "lost")
    /\ UNCHANGED <<agentState, contexts, lock, reusedDict, id, agentOf, heard, tries,
                   outcome, got, span, trace, calls, trouble>>

-----------------------------------------------------------------------------
(* The framework's loop: model calls, and tool calls that may overlap.     *)

\* How often the callbacks run for a call of this kind; langchain's are those
\* of the tracing callbacks that ainvoke was given.
Times(r, kind) ==
    IF framework = "langchain" /\ kind # "model" THEN heard[r]
    ELSE IF kind = "model" THEN Through("model", modelLayers)
    ELSE Through(kind, layers[agentOf[r]][kind])

\* before_llm_call and before_tool_execution: the span generation callback
\* opens a span for the call and makes it the Context's current one.
BeforeCall(c, call, n) ==
    span' = IF n = 0 THEN span ELSE [span EXCEPT ![c] = call]

\* after_llm_call and after_tool_execution: SpanEndCallback ends the Context's
\* current span and adds it to the trace.
AfterCall(call, c) ==
    trace' = IF c.times = 0 \/ pc[c.context] = "done" THEN trace
             ELSE [trace EXCEPT ![c.context] =
                     @ \o [i \in 1..c.times |-> span[c.context]]]

\* openai asks for its tools before every model call; the wrapped
\* get_all_tools wraps those that are not wrapped yet, and takes what it finds
\* for the original either way.
ListTools(r) ==
    IF framework = "openai" /\ layers[agentOf[r]]["tools"] > 0
    THEN /\ original' = [original EXCEPT !["tool"] = layers[agentOf[r]]["tool"]]
         /\ layers' = [g \in DOMAIN layers |-> [layers[g] EXCEPT !["tool"] = 1]]
         /\ UNCHANGED <<framework, typed, gen, finals, modelLayers, saved>>
    ELSE UNCHANGED agentState

\* The model is called first; what it answers may ask for several tools.
MayStart(r, kind) ==
    \/ /\ kind = "llm" /\ pc[r] = "running" /\ open[r] = {}
       /\ Len(calls[r]) < MaxRunCalls
    \/ /\ kind = "tool" /\ pc[r] = "running" /\ calls[r] # <<>>
       /\ Len(calls[r]) + Cardinality(open[r]) < MaxRunCalls
       /\ \A c \in open[r] : c.kind = "tool"
    \/ kind = "model" /\ pc[r] = "shaping" /\ tries[r] = 0

StartCall(r, kind) ==
    LET n == Times(r, kind)
        no == Len(calls[r]) + Cardinality(open[r]) + 1
        c == contexts[id[r]]
    IN /\ MayStart(r, kind)
       /\ IF n = Loop \/ (n # 0 /\ c = Nil)
          THEN /\ Stop(r, IF n = Loop THEN "loop" ELSE "lost")
               /\ UNCHANGED <<agentState, span, tries, trouble>>
          ELSE /\ BeforeCall(c, <<r, no>>, n)
               /\ open' = [open EXCEPT ![r] = @ \cup
                             {[no |-> no, kind |-> kind, times |-> n,
                               context |-> IF n = 0 THEN Nil ELSE c]}]
               /\ tries' = [tries EXCEPT ![r] = IF kind = "model" THEN 1 ELSE @]
               /\ IF kind = "llm" THEN ListTools(r) ELSE UNCHANGED agentState
               /\ trouble' = trouble \cup (IF open[r] # {} THEN {"parallel"} ELSE {})
               /\ UNCHANGED <<pc, fault>>
       /\ UNCHANGED <<contexts, lock, reusedDict, id, agentOf, heard, outcome, got,
                      trace, calls>>

\* The call comes back; _wrap_no_exception turns a tool's exception into text.
FinishCall(r, c) ==
    /\ pc[r] \in {"running", "shaping"}
    /\ AfterCall(<<r, c.no>>, c)
    /\ open' = [open EXCEPT ![r] = @ \ {c}]
    /\ calls' = [calls EXCEPT ![r] = Append(@, c.no)]
    /\ UNCHANGED <<agentState, contexts, lock, reusedDict, runs, span, trouble>>

-----------------------------------------------------------------------------
(* _run_async makes the final output of the framework's result.            *)

Leaves(r, next) ==
    /\ pc[r] = "running" /\ open[r] = {}
    /\ pc' = [pc EXCEPT ![r] = next]
    /\ UNCHANGED <<agentState, contexts, lock, reusedDict, id, agentOf, heard, tries,
                   fault, outcome, got, work, trouble>>

\* agno and openai answer in the output type themselves.
AgnoResult(r) == framework = "agno" /\ Leaves(r, "leaving")
OpenAIResult(r) == framework = "openai" /\ Leaves(r, "leaving")

\* smolagents validates the result; a failure is a Raise.
SmolagentsResult(r) == framework = "smolagents" /\ Leaves(r, "leaving")

\* langchain asks the model again whenever there is an output type.
LangchainResult(r) ==
    framework = "langchain" /\ Leaves(r, IF typed THEN "shaping" ELSE "leaving")

\* llama_index asks again only when the result does not validate.
LlamaIndexResult(r) ==
    /\ framework = "llama_index"
    /\ \/ Leaves(r, "leaving")
       \/ typed /\ Leaves(r, "shaping")

ShapedResult(r) ==
    /\ pc[r] = "shaping" /\ tries[r] = 1 /\ open[r] = {}
    /\ pc' = [pc EXCEPT ![r] = "leaving"]
    /\ UNCHANGED <<agentState, contexts, lock, reusedDict, id, agentOf, heard, tries,
                   fault, outcome, got, work, trouble>>

\* google reads the responses of the final_output tool: the first success
\* ends the run, the third failure is an error, and so is a run without one.
GoogleResult(r) ==
    /\ framework = "google"
    /\ \/ ~typed /\ Leaves(r, "leaving")
       \/ /\ typed /\ pc[r] = "running" /\ open[r] = {}
          /\ \/ /\ pc' = [pc EXCEPT ![r] = "leaving"]
                /\ UNCHANGED <<tries, fault>>
             \/ /\ tries' = [tries EXCEPT ![r] = @ + 1]
                /\ IF tries[r] + 1 >= 3
                   THEN /\ pc' = [pc EXCEPT ![r] = "leaving"]
                        /\ fault' = [fault EXCEPT ![r] = "error"]
                   ELSE UNCHANGED <<pc, fault>>
          /\ UNCHANGED <<agentState, contexts, lock, reusedDict, id, agentOf, heard,
                         outcome, got, work, trouble>>

Result(r) == \/ AgnoResult(r) \/ OpenAIResult(r) \/ SmolagentsResult(r)
             \/ LangchainResult(r) \/ LlamaIndexResult(r) \/ GoogleResult(r)
             \/ ShapedResult(r)

-----------------------------------------------------------------------------
(* The end of a run.                                                       *)

\* What the caller gets: the trace, or an error that carries it.
Outcome(f) == IF f = Nil THEN "trace" ELSE "runError"

\* A run that is over leaves nothing behind but its outcome.
Over(r, o) ==
    /\ pc' = [pc EXCEPT ![r] = "done"]
    /\ outcome' = [outcome EXCEPT ![r] = o]
    /\ id' = [id EXCEPT ![r] = Nil]
    /\ agentOf' = [agentOf EXCEPT ![r] = 0]
    /\ heard' = [heard EXCEPT ![r] = 0]
    /\ tries' = [tries EXCEPT ![r] = 0]
    /\ fault' = [fault EXCEPT ![r] = Nil]
    /\ got' = [got EXCEPT ![r] = Nil]
    /\ span' = [span EXCEPT ![r] = NoSpan]
    /\ trace' = [trace EXCEPT ![r] = <<>>]
    /\ open' = [open EXCEPT ![r] = {}]
    /\ calls' = [calls EXCEPT ![r] = <<>>]

\* Variant: the wrappers come off with every run.
LeaveAlways(r) ==
    /\ pc[r] = "leaving" /\ lock = Nil
    /\ Unwrap
    /\ contexts' = [contexts EXCEPT ![id[r]] = Nil]
    /\ got' = [got EXCEPT ![r] = contexts[id[r]]]
    /\ pc' = [pc EXCEPT ![r] = "after"]
    /\ lock' = r
    /\ UNCHANGED <<framework, typed, gen, finals, reusedDict, id, agentOf, heard, tries,
                   fault, outcome, work, trouble>>

\* Under the lock, on both paths: the last registered run unwraps the agent of
\* NOW, then whatever Context is under the trace id is popped.
Leave(r) ==
    LET last == Cardinality(Registered) = 1
        raises == last /\ framework = "llama_index" /\ LlamaIndexRaises
    IN /\ pc[r] = "leaving" /\ lock = Nil
       /\ IF last THEN Unwrap ELSE UNCHANGED <<original, layers, modelLayers, saved>>
       /\ IF raises
          THEN Over(r, "raw") /\ UNCHANGED <<contexts, lock>>
          ELSE /\ contexts' = [contexts EXCEPT ![id[r]] = Nil]
               /\ got' = [got EXCEPT ![r] = contexts[id[r]]]
               /\ pc' = [pc EXCEPT ![r] = "after"]
               /\ lock' = r
               /\ UNCHANGED <<id, agentOf, heard, tries, fault, outcome, work>>
       /\ UNCHANGED <<framework, typed, gen, finals, reusedDict, trouble>>

\* The after_agent_invocation callbacks, still under the lock and, on both
\* paths, outside the try: an exception of theirs leaves as it is.
AfterRun(r) ==
    /\ pc[r] = "after"
    /\ \/ Over(r, Outcome(fault[r]))
       \/ got[r] # Nil /\ Over(r, "raw")
    /\ lock' = Nil
    /\ UNCHANGED <<agentState, contexts, reusedDict, trouble>>

\* asyncio cancels the task: CancelledError is no Exception, so nothing is
\* unwrapped or popped unless that had been done.
RunCancelled(r) ==
    /\ pc[r] \in {"before", "running", "shaping", "leaving", "after"}
    /\ Over(r, "cancelled")
    /\ lock' = IF pc[r] = "after" THEN Nil ELSE lock
    /\ trouble' = trouble \cup (IF pc[r] = "after" THEN {} ELSE {"cancelled"})
    /\ UNCHANGED <<agentState, contexts, reusedDict>>

-----------------------------------------------------------------------------
(* update_output_type_async, at any time and without the lock.             *)

NewAgent(t, kept) ==
    /\ gen < MaxUpdates
    /\ gen' = gen + 1
    /\ finals' = [finals EXCEPT ![gen + 1] = t]
    /\ layers' = [layers EXCEPT ![gen + 1] =
                    [e \in Entries |-> IF e \in kept THEN layers[gen][e] ELSE 0]]

RenewAgno(t) == framework = "agno" /\ NewAgent(t, {})
RenewGoogle(t) == framework = "google" /\ NewAgent(t, {})
RenewLlamaIndex(t) == framework = "llama_index" /\ NewAgent(t, {})
\* openai hands the same tool objects to the new agent.
RenewOpenAI(t) == framework = "openai" /\ NewAgent(t, {"tool"})
\* smolagents and langchain keep their agent.
RenewSmolagents(t) == framework = "smolagents" /\ UNCHANGED <<gen, finals, layers>>
RenewLangchain(t) == framework = "langchain" /\ UNCHANGED <<gen, finals, layers>>

UpdateOutputType ==
    /\ MaxUpdates > 0
    /\ \E t \in BOOLEAN :
         /\ typed' = t
         /\ \/ RenewAgno(t) \/ RenewGoogle(t) \/ RenewLlamaIndex(t)
            \/ RenewOpenAI(t) \/ RenewSmolagents(t) \/ RenewLangchain(t)
    /\ trouble' = trouble \cup (IF Registered # {} THEN {"updated"} ELSE {})
    /\ UNCHANGED <<framework, modelLayers, original, saved, contexts, lock, reusedDict, runs,
                   work>>

RunNext ==
    \/ \E r \in Runs :
         \/ Enter(r) \/ BeginRun(r) \/ Raise(r) \/ LostContext(r)
         \/ \E kind \in {"llm", "tool", "model"} : StartCall(r, kind)
         \/ \E c \in open[r] : FinishCall(r, c)
         \/ Result(r) \/ Leave(r) \/ AfterRun(r) \/ RunCancelled(r)
    \/ UpdateOutputType

RunSpec == RunInit /\ [][RunNext]_runVars

-----------------------------------------------------------------------------
(* What it promises.                                                       *)

Quiet == \A r \in Runs : pc[r] \in {"idle", "done"}

\* A trace that run_async returns holds one span for each call of that run, in
\* the order of the calls, and none of another run (docs/agents/callbacks.md:
\* the trace is what callbacks and users inspect).  It does not when runs share
\* a trace id, tools overlap, the output type is changed under a run, or a
\* langchain config is passed twice.
TraceIsWhole ==
    [][\A r \in Runs :
         outcome'[r] = "trace" /\ outcome[r] # "trace"
         /\ trouble \cap {"shared", "parallel", "updated", "config"} = {}
           => /\ got[r] = r
              /\ trace[r] = [i \in DOMAIN calls[r] |-> <<r, calls[r][i]>>]]_runVars

\* A run is made to fail by the wrappers themselves (unbounded recursion, or a
\* Context that is gone) only if runs shared a trace id, or on agno, whose tool
\* wrapper is not taken off.
WrapperFaultHasCause ==
    \A r \in Runs :
      fault[r] \in {"loop", "lost"} => "shared" \in trouble \/ framework = "agno"

\* When no run is under way the agent is as it was before the first one: no
\* Context is registered and no wrapper left, apart from agno's tool wrapper
\* and openai's tool objects (wrapped once, however many turns it took).
WrappersComeOff ==
    Quiet /\ trouble \cap {"shared", "cancelled", "updated"} = {}
      => /\ Registered = {}
         /\ modelLayers = 0
         /\ \A e \in Entries :
              \/ layers[gen][e] = 0
              \/ e = "tool" /\ framework = "openai" /\ layers[gen][e] = 1
              \/ e = "tool" /\ framework = "agno"

\* The wrappers of a run neither break another one nor outlive it: the two
\* invariants above.
WrappersBehave == WrapperFaultHasCause /\ WrappersComeOff

=============================================================================
