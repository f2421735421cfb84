---------------------------- MODULE AgentTools ----------------------------
(***************************************************************************)
(* any-agent: making an agent, changing its output type and cleaning it up *)
(* (src/any-agent/src/any_agent/frameworks/*.py, tools/wrappers.py,        *)
(* tools/mcp/*.py).                                                        *)
(*                                                                         *)
(* Loading the tools connects to one MCP server after the other, each an   *)
(* await in which another call on the agent may run.  The connections are  *)
(* noted in _mcp_clients only when all tools are there; cleanup_async      *)
(* closes what is noted.  What the agent enforces as its output type is    *)
(* written into the framework's agent, and partly into the dicts of the    *)
(* caller's own config.                                                    *)
(***************************************************************************)
EXTENDS Naturals, Sequences, FiniteSets, SequencesExt

CONSTANTS Tasks,       \* tasks that call the agent
          Frameworks,  \* the frameworks to examine
          Tools,       \* config.tools: a sequence of "server" and "function"
          Types,       \* output types
          MaxCalls     \* bound: calls after the creation

ASSUME AgentToolsAssumption ==
    Frameworks \subseteq {"agno", "google", "langchain", "llama_index", "openai", "smolagents"}

None == "none"

VARIABLES fw,
          given,     \* config.agent_args and model_args are not empty
          type,      \* config.output_type
          stickyType,   \* agno, openai: the type left in agent_args
          stickyChoice, \* google: tool_choice left in model_args
          agent,     \* self._agent: what it enforces and its tools' connections
          conns,     \* the connections made: open, closed, or left by a failed disconnect
          clients,   \* self._mcp_clients
          op,        \* task -> the call it is in
          count,     \* calls so far
          lost,      \* connections of loads that failed
          seen       \* what the properties make exceptions for

vars == <<fw, given, type, stickyType, stickyChoice, agent, conns, clients, op,
          count, lost, seen>>
config == <<fw, given>>

Idle == [kind |-> "idle", type |-> None, at |-> 0, mine |-> {}]
NoAgent == [made |-> FALSE, type |-> None, forced |-> FALSE, conns |-> {}]

Init ==
    /\ fw \in Frameworks /\ given \in BOOLEAN
    /\ type \in Types \cup {None}
    /\ stickyType = None /\ stickyChoice = FALSE
    /\ agent = NoAgent /\ conns = <<>> /\ clients = <<>>
    /\ op = [t \in Tasks |-> Idle]
    /\ count = 0 /\ lost = {} /\ seen = {}

Loading(t) == op[t].kind \in {"create", "update"}
Busy == {t \in Tasks : op[t].kind # "idle"}
Finish(t) == op' = [op EXCEPT ![t] = Idle]

-----------------------------------------------------------------------------
(* What each framework's agent is made of, for output type o.              *)

Made(o, forced, cs) == [made |-> TRUE, type |-> o, forced |-> forced, conns |-> cs]

\* The type is put into agent_args, the caller's dict if it has one, and is
\* never taken out.
AgnoAgent(o, cs) ==
    /\ agent' = Made(IF o = None THEN stickyType ELSE o, FALSE, cs)
    /\ stickyType' = IF given /\ o # None THEN o ELSE stickyType
    /\ UNCHANGED stickyChoice

OpenAIAgent(o, cs) ==
    /\ agent' = Made(IF o = None THEN stickyType ELSE o, FALSE, cs)
    /\ stickyType' = IF given /\ o # None THEN o ELSE stickyType
    /\ UNCHANGED stickyChoice

\* final_output is among the tools, and the model must call some tool:
\* tool_choice goes into model_args.
GoogleAgent(o, cs) ==
    /\ agent' = Made(o, o # None \/ stickyChoice, cs)
    /\ stickyChoice' = (stickyChoice \/ (given /\ o # None))
    /\ UNCHANGED stickyType

LlamaIndexAgent(o, cs) ==
    agent' = Made(o, FALSE, cs) /\ UNCHANGED <<stickyType, stickyChoice>>

\* The run itself asks for config.output_type.
LangchainAgent(o, cs) ==
    agent' = Made(None, FALSE, cs) /\ UNCHANGED <<stickyType, stickyChoice>>

\* _setup_output_type replaces final_answer for a type and returns nothing for
\* none: the tool that checks the former type stays.
SetupOutputType(o) == IF o = None THEN agent.type ELSE o
SmolagentsAgent(o, cs) ==
    agent' = Made(SetupOutputType(o), FALSE, cs) /\ UNCHANGED <<stickyType, stickyChoice>>

Build(o, cs) ==
    CASE fw = "agno" -> AgnoAgent(o, cs) [] fw = "openai" -> OpenAIAgent(o, cs)
      [] fw = "google" -> GoogleAgent(o, cs) [] fw = "langchain" -> LangchainAgent(o, cs)
      [] fw = "llama_index" -> LlamaIndexAgent(o, cs)
      [] fw = "smolagents" -> SmolagentsAgent(o, cs)

-----------------------------------------------------------------------------
(* create_async and the loading of the tools.                              *)

Create(t) ==
    /\ count = 0
    /\ count' = 1
    /\ op' = [op EXCEPT ![t] = [kind |-> "create", type |-> type, at |-> 1, mine |-> {}]]
    /\ UNCHANGED <<config, type, stickyType, stickyChoice, agent, conns, clients, lost, seen>>

Current(t) == Tools[op[t].at]
More(t) == Loading(t) /\ op[t].at <= Len(Tools)

\* A load that raises forgets the clients it made; of a creation that raises
\* the caller has no agent to clean up.
LoadRaises(t, made) ==
    /\ Finish(t)
    /\ lost' = lost \cup op[t].mine \cup made
    /\ seen' = seen \cup {"load failed"}

\* connect, initialize and list_tools of the next server.
Connect(t) ==
    /\ More(t) /\ Current(t) = "server"
    /\ LET c == Len(conns) + 1
       IN /\ conns' = Append(conns, "open")
          /\ \/ /\ op' = [op EXCEPT ![t].at = @ + 1, ![t].mine = @ \cup {c}]
                /\ UNCHANGED <<lost, seen>>
             \* initialize failed, or a tool that the config names is missing.
             \/ LoadRaises(t, {c})
    /\ UNCHANGED <<config, type, stickyType, stickyChoice, agent, clients, count>>

\* The transport does not open.
ConnectFails(t) ==
    /\ More(t) /\ Current(t) = "server"
    /\ LoadRaises(t, {})
    /\ UNCHANGED <<config, type, stickyType, stickyChoice, agent, conns, clients, count>>

\* verify_callable refuses a function without a docstring or types.
CheckCallable(t) ==
    /\ More(t) /\ Current(t) = "function"
    /\ \/ op' = [op EXCEPT ![t].at = @ + 1] /\ UNCHANGED <<lost, seen>>
       \/ LoadRaises(t, {})
    /\ UNCHANGED <<config, type, stickyType, stickyChoice, agent, conns, clients, count>>

\* _load_tools notes the clients and the framework's agent is made anew from
\* the type this call was given.
Loaded(t) ==
    /\ Loading(t) /\ op[t].at > Len(Tools)
    /\ clients' = clients \o SetToSeq(op[t].mine)
    /\ Build(op[t].type, op[t].mine)
    /\ Finish(t)
    /\ UNCHANGED <<config, type, conns, count, lost, seen>>

-----------------------------------------------------------------------------
(* update_output_type_async.  The config is changed first.                 *)

\* agno and llama_index load their tools again, from new connections.
Reload(t, o) ==
    /\ op' = [op EXCEPT ![t] = [kind |-> "update", type |-> o, at |-> 1, mine |-> {}]]
    /\ seen' = seen \cup (IF \E u \in Tasks : Loading(u) THEN {"overlap"} ELSE {})
    /\ UNCHANGED <<agent, stickyType, stickyChoice>>

UpdateAgno(t, o) == fw = "agno" /\ Reload(t, o)
UpdateLlamaIndex(t, o) == fw = "llama_index" /\ Reload(t, o)

\* Variant: the new agent is made of the type it had.
UpdateGoogleStale(t, o) ==
    fw = "google" /\ GoogleAgent(agent.type, agent.conns) /\ UNCHANGED <<op, seen>>

\* The others keep their tools and await nothing.
UpdateGoogle(t, o) == fw = "google" /\ GoogleAgent(o, agent.conns) /\ UNCHANGED <<op, seen>>
UpdateOpenAI(t, o) == fw = "openai" /\ OpenAIAgent(o, agent.conns) /\ UNCHANGED <<op, seen>>
UpdateSmolagents(t, o) ==
    fw = "smolagents" /\ SmolagentsAgent(o, agent.conns) /\ UNCHANGED <<op, seen>>
UpdateLangchain(t, o) ==
    fw = "langchain" /\ UNCHANGED <<agent, stickyType, stickyChoice, op, seen>>

Update(t) ==
    /\ agent.made /\ t \notin Busy /\ count <= MaxCalls
    /\ \E o \in Types \cup {None} :
         /\ type' = o
         /\ \/ UpdateAgno(t, o) \/ UpdateLlamaIndex(t, o) \/ UpdateGoogle(t, o)
            \/ UpdateOpenAI(t, o) \/ UpdateSmolagents(t, o) \/ UpdateLangchain(t, o)
    /\ count' = count + 1
    /\ UNCHANGED <<config, conns, clients, lost>>

-----------------------------------------------------------------------------
(* cleanup_async.                                                          *)

StartCleanup(t) ==
    /\ agent.made /\ t \notin Busy /\ count <= MaxCalls
    /\ op' = [op EXCEPT ![t] = [kind |-> "cleanup", type |-> None, at |-> 1, mine |-> {}]]
    /\ count' = count + 1
    /\ seen' = seen \cup (IF \E u \in Tasks : op[u].kind = "cleanup"
                          THEN {"two cleanups"} ELSE {})
    /\ UNCHANGED <<config, type, stickyType, stickyChoice, agent, conns, clients, lost>>

\* aclose leaves the contexts of a connection, which fails in another task than
\* the one that entered them, and when a server misbehaves; the exception ends
\* the cleanup. What it fails on is out of the exit stack all the same: it may
\* be open still, and to leave it again does nothing.
Disconnect(t) ==
    /\ op[t].kind = "cleanup" /\ op[t].at <= Len(clients)
    /\ LET c == clients[op[t].at]
       IN \/ /\ conns' = IF conns[c] = "open" THEN [conns EXCEPT ![c] = "closed"] ELSE conns
             /\ op' = [op EXCEPT ![t].at = @ + 1]
          \/ /\ conns[c] = "open"
             /\ \E r \in {"closed", "left"} : conns' = [conns EXCEPT ![c] = r]
             /\ Finish(t)
    /\ UNCHANGED <<config, type, stickyType, stickyChoice, agent, clients, count, lost, seen>>

\* Variant: the list is cleared after the first failure, too.
CleanedUpAnyway(t) ==
    /\ op[t].kind = "cleanup"
    /\ clients' = <<>>
    /\ Finish(t)
    /\ UNCHANGED <<config, type, stickyType, stickyChoice, agent, conns, count, lost, seen>>

\* The loop runs over the list as it is now, then the list is cleared.
CleanedUp(t) ==
    /\ op[t].kind = "cleanup" /\ op[t].at > Len(clients)
    /\ clients' = <<>>
    /\ Finish(t)
    /\ UNCHANGED <<config, type, stickyType, stickyChoice, agent, conns, count, lost, seen>>

Next == \E t \in Tasks :
    \/ Create(t) \/ Connect(t) \/ ConnectFails(t) \/ CheckCallable(t) \/ Loaded(t)
    \/ Update(t) \/ StartCleanup(t) \/ Disconnect(t) \/ CleanedUp(t)

Spec == Init /\ [][Next]_vars

-----------------------------------------------------------------------------
(* What holds of an agent.                                                 *)

\* An open connection that no disconnect has failed on is one that a cleanup will
\* still close or a load still holds, or belongs to a load that failed: whatever
\* update runs with a cleanup, and however often one fails, it forgets none but
\* those its failures were about. Two cleanups at a time can: one clears the list
\* under the other's loop, an update puts new clients in, and the other loop,
\* past the end of the shorter list, clears those.
OpenIsReachable ==
    \A c \in DOMAIN conns :
      conns[c] = "open" =>
        \/ \E i \in DOMAIN clients : clients[i] = c
        \/ \E t \in Tasks : c \in op[t].mine
        \/ c \in lost
        \/ "two cleanups" \in seen

\* When no call is under way the agent enforces config.output_type.  The
\* exceptions: a type once given stays in a config with agent_args (agno,
\* openai) and in smolagents' final_answer tool, and agno and llama_index can
\* be caught between the change of the config and the new agent, by a load
\* that fails or another update.
EnforcesItsType ==
    agent.made /\ Busy = {} /\ fw # "langchain" =>
      \/ agent.type = type
      \/ fw \in {"agno", "openai"} /\ given /\ type = None
      \/ fw = "smolagents" /\ type = None
      \/ fw \in {"agno", "llama_index"} /\ seen \cap {"load failed", "overlap"} # {}
=============================================================================
