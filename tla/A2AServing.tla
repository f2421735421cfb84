---------------------------- MODULE A2AServing ----------------------------
(***************************************************************************)
(* any-agent: one agent served over A2A and over MCP                       *)
(* (src/any-agent/src/any_agent/serving/, tools/a2a.py).                   *)
(*                                                                         *)
(* All requests run on the one agent.  To tell the client of an A2A        *)
(* request about tool calls, the executor appends an updater to the        *)
(* agent's own list of callbacks and removes the last entry after the run; *)
(* a tool call of any run goes through the whole list.  The history of a   *)
(* conversation is kept per context until the context expires.             *)
(***************************************************************************)
EXTENDS Naturals, Sequences, FiniteSets, SequencesExt

CONSTANTS Requests,   \* calls of clients
          Contexts,   \* conversations; each has one client
          MCP,        \* the place of a call that comes over MCP
          MaxExpiries \* bound: contexts that expire

ASSUME A2AServingAssumption == MCP \notin Contexts

VARIABLES req,       \* request -> where it is
          callbacks, \* the updaters on agent.config.callbacks, by request
          ctx,       \* context -> its history, or absent, or past its time
          forgot,    \* requests whose turns expired with their context
          expiries,
          overlapped,     \* two runs were under way at a time
          stray, missed,  \* until then: who heard of others' tools, missed their own
          leaked          \* requests whose updater stayed

servingVars == <<req, callbacks, ctx, forgot, expiries, overlapped, stray, missed, leaked>>
observed == <<overlapped, stray, missed, leaked>>

NewRequest == [pc |-> "new", place |-> MCP, tool |-> FALSE, hurt |-> FALSE, ended |-> FALSE,
               before |-> {}, base |-> {}, client |-> "idle"]
Absent == [there |-> FALSE, expired |-> FALSE, history |-> {}]

ServingInit ==
    /\ req = [r \in Requests |-> NewRequest]
    /\ callbacks = <<>>
    /\ ctx = [c \in Contexts |-> Absent]
    /\ forgot = {} /\ expiries = 0
    /\ overlapped = FALSE /\ stray = {} /\ missed = {} /\ leaked = {}

Running == {r \in Requests : req[r].pc = "running"}
Of(c) == {r \in Requests : req[r].place = c}
Streaming(r) == req[r].place # MCP

-----------------------------------------------------------------------------
(* The contexts.                                                           *)

\* The context's time runs out.  It is removed when somebody looks.
Expire(c) ==
    /\ ctx[c].there /\ ~ctx[c].expired /\ expiries < MaxExpiries
    /\ ctx' = [ctx EXCEPT ![c].expired = TRUE]
    /\ forgot' = forgot \cup Of(c)
    /\ expiries' = expiries + 1
    /\ UNCHANGED <<req, callbacks, observed>>

\* get_context: an expired context is removed and gives nothing.
Found(c) == ctx[c].there /\ ~ctx[c].expired
GetContext(c) == IF Found(c) THEN ctx ELSE [ctx EXCEPT ![c] = Absent]

\* add_context removes every expired context and starts this one.
AddContext(c) ==
    [d \in Contexts |-> IF d = c THEN [Absent EXCEPT !.there = TRUE]
                        ELSE IF ctx[d].expired THEN Absent ELSE ctx[d]]

\* update_context_trace: nothing if the context is gone.
Remember(r, c) == IF Found(c) THEN [ctx EXCEPT ![c].history = @ \cup {r}] ELSE GetContext(c)

-----------------------------------------------------------------------------
(* A request.  a2a_tool sends one at a time; after its timeout the caller  *)
(* may ask again.                                                          *)

Told == {r \in Requests : req[r].client = "answered"}

Ask(r, place) ==
    /\ req[r].pc = "new"
    /\ \A q \in Requests : place # MCP /\ req[q].place = place => req[q].client # "waits"
    /\ req' = [req EXCEPT ![r].pc = "sent", ![r].place = place, ![r].client = "waits",
                          ![r].before = (Told \cap Of(place)) \ Of(MCP)]
    /\ UNCHANGED <<callbacks, ctx, forgot, expiries, observed>>

GiveUp(r) ==
    /\ req[r].client = "waits"
    /\ req' = [req EXCEPT ![r].client = "over"]
    /\ UNCHANGED <<callbacks, ctx, forgot, expiries, observed>>

\* Variant: every request starts its context anew.
AcceptAnew(r) ==
    /\ req[r].pc = "sent" /\ Streaming(r)
    /\ ctx' = AddContext(req[r].place)
    /\ req' = [req EXCEPT ![r].pc = "accepted"]
    /\ UNCHANGED <<callbacks, forgot, expiries, observed>>

\* execute: the context is there before the task is announced.
Accept(r) ==
    /\ req[r].pc = "sent" /\ Streaming(r)
    /\ LET c == req[r].place IN ctx' = IF Found(c) THEN ctx ELSE AddContext(c)
    /\ req' = [req EXCEPT ![r].pc = "accepted"]
    /\ UNCHANGED <<callbacks, forgot, expiries, observed>>

Overlaps == overlapped' = (overlapped \/ Running # {})

\* format_query_with_history, then the updater joins the callbacks.
Begin(r) ==
    /\ req[r].pc = "accepted"
    /\ LET c == req[r].place
       IN /\ req' = [req EXCEPT ![r].pc = "running",
                                ![r].base = IF Found(c) THEN ctx[c].history ELSE {}]
          /\ ctx' = GetContext(c)
    /\ callbacks' = Append(callbacks, r)
    /\ Overlaps
    /\ UNCHANGED <<forgot, expiries, stray, missed, leaked>>

\* handle_call_tool of the MCP server.
CallOverMCP(r) ==
    /\ req[r].pc = "sent" /\ ~Streaming(r)
    /\ req' = [req EXCEPT ![r].pc = "running"]
    /\ Overlaps
    /\ UNCHANGED <<callbacks, ctx, forgot, expiries, stray, missed, leaked>>

-----------------------------------------------------------------------------
(* The run.                                                                *)

\* The updaters are called in order.  One whose task has ended refuses the
\* event (TaskUpdater), and that ends the round: the tool call fails, which
\* may or may not end the run.
Refuses == SelectInSeq(callbacks, LAMBDA q : req[q].ended)
Reached == ToSet(IF Refuses = 0 THEN callbacks ELSE SubSeq(callbacks, 1, Refuses - 1))

ToolEvent(r, on) ==
    /\ req[r].pc = "running" /\ req[r].tool # on /\ ~req[r].hurt
    /\ req' = [req EXCEPT ![r].tool = on, ![r].hurt = Refuses # 0]
    /\ IF overlapped THEN UNCHANGED <<stray, missed>>
       ELSE /\ stray' = stray \cup (Reached \ {r})
            /\ missed' = IF Streaming(r) THEN missed \cup ({r} \ Reached) ELSE missed
    /\ UNCHANGED <<callbacks, ctx, forgot, expiries, overlapped, leaked>>

\* Variant: the updater is removed only after a run that went well.
PopAfterSuccess(good) == IF good THEN Front(callbacks) ELSE callbacks

\* The last callback is removed, whosever it is.
Pop(good) == Front(callbacks)

Close(r, answer, ended) ==
    req' = [req EXCEPT ![r].pc = "done", ![r].tool = FALSE, ![r].ended = ended, ![r].base = {},
                       ![r].before = {},
                       ![r].client = IF @ = "waits" THEN answer ELSE "over"]

\* The agent's output is an envelope, the type that prepare_agent_for_a2a_async
\* gave it (its owner may have given it another since: AnswerError).  Of its states input_required leaves the
\* task open.
AnswerEnvelope(r) ==
    /\ callbacks' = Pop(TRUE)
    /\ ctx' = Remember(r, req[r].place)
    /\ \E state \in {"completed", "failed", "input_required"} :
         Close(r, "answered", state # "input_required")
    /\ UNCHANGED leaked

\* The run raised (its trace has no output), or its output is no envelope, or
\* no message of its trace is the user's: the client gets an error, and the
\* turn may be in the history nevertheless.
AnswerError(r) ==
    /\ callbacks' = Pop(FALSE)
    /\ ctx' = Remember(r, req[r].place) \/ ctx' = GetContext(req[r].place)
    /\ Close(r, "over", FALSE)
    /\ UNCHANGED leaked

\* AgentCancel, and the cancellation of the task, pass through execute.
Cancelled(r) ==
    /\ Close(r, "over", FALSE)
    /\ leaked' = leaked \cup {r}
    /\ UNCHANGED <<callbacks, ctx>>

RunEnds(r) ==
    /\ req[r].pc = "running" /\ Streaming(r) /\ (req[r].tool => req[r].hurt)
    /\ AnswerEnvelope(r) \/ AnswerError(r) \/ Cancelled(r)
    /\ UNCHANGED <<forgot, expiries, overlapped, stray, missed>>

RunEndsOverMCP(r) ==
    /\ req[r].pc = "running" /\ ~Streaming(r) /\ (req[r].tool => req[r].hurt)
    /\ \E answer \in {"answered", "over"} : Close(r, answer, FALSE)
    /\ UNCHANGED <<callbacks, ctx, forgot, expiries, observed>>

ServingNext ==
    \/ \E c \in Contexts : Expire(c)
    \/ \E r \in Requests :
         \/ \E place \in Contexts \cup {MCP} : Ask(r, place)
         \/ GiveUp(r) \/ Accept(r) \/ Begin(r) \/ CallOverMCP(r)
         \/ \E on \in BOOLEAN : ToolEvent(r, on)
         \/ RunEnds(r) \/ RunEndsOverMCP(r)

ServingSpec == ServingInit /\ [][ServingNext]_servingVars

-----------------------------------------------------------------------------
(* What holds of a served agent.                                           *)

\* Served one request at a time, a run is never ended by another request's
\* updater, its tool events reach its own client, and they reach nobody
\* else's but those of requests that were cancelled.  (Two runs at a time are
\* enough to break each part, also for a third request that meets neither.)
SequentialIsClean ==
    ~overlapped =>
      /\ \A r \in Requests : ~req[r].hurt
      /\ missed = {}
      /\ stray \subseteq leaked

\* The executor never removes a callback of the agent's own: the updaters on
\* the list are as many as the runs under way and the runs that were cancelled.
UpdatersAccounted ==
    Len(callbacks) = Cardinality({r \in Running : Streaming(r)}) + Cardinality(leaked)

\* A turn whose client was answered is in the history that the next request of
\* the conversation is run with, unless the context expired after it was asked.
FollowUpHasHistory ==
    \A r \in Running : req[r].before \subseteq req[r].base \cup forgot

\* A request's updater is on the list of callbacks for the time of its run, and
\* serves nobody else: the two invariants above.
UpdatersAreOwn == SequentialIsClean /\ UpdatersAccounted

=============================================================================
