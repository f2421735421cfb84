--------------------------- MODULE ChatAdapters ---------------------------
(***************************************************************************)
(* any-agent: the adapters that let six agent frameworks talk to a         *)
(* provider through any-llm (src/any-agent/src/any_agent/frameworks/*.py,  *)
(* vendor/*.py), and what the span callbacks record of each model call     *)
(* (callbacks/span_generation/*.py).                                       *)
(*                                                                         *)
(* One conversation: a request is built from the framework's history, the  *)
(* provider answers it whole or in chunks of its choosing, the adapter     *)
(* hands the answer to the framework, the span is filled in, and the tools *)
(* the answer asked for are run.                                           *)
(*                                                                         *)
(* A call is counted, not spelled out: how many of its pieces carried its  *)
(* id and its name, and how many pieces its arguments came in.  What the   *)
(* provider means, one id and one name to a call, is compared with what    *)
(* the framework makes of the pieces: a name joined twice is another name. *)
(***************************************************************************)
EXTENDS Naturals, Sequences, FiniteSets, SequencesExt

CONSTANTS Adapters,     \* the frameworks to examine
          MaxToolCalls, \* bound: tool calls of one answer
          MaxChunks,    \* bound: chunks of one streamed answer
          MaxRounds     \* bound: model calls of the conversation

ASSUME ChatAssumption ==
    /\ Adapters \subseteq
         {"agno", "google", "langchain", "llama_index", "openai", "smolagents"}
    /\ MaxToolCalls \in Nat /\ MaxRounds \in Nat

\* How a provider writes the tool calls of a stream: id and name in the first
\* piece of a call only, in every piece, without ids, or each call in one
\* piece without an index.
Styles == {"proper", "repeats", "noids", "noindex"}

\* What the adapters implement: whole answers, streams that are read by a plain
\* iterator, and streams that are read by an asynchronous one.
Modes(a) ==
    {"whole"} \cup (IF a \in {"google", "openai"} THEN {} ELSE {"stream"})
              \cup (IF a = "smolagents" THEN {} ELSE {"astream"})

VARIABLES adapter, style, mode,
          stage,   \* request, answer, chunks, span, tools, end or failed
          round,
          said,    \* the provider's answer so far, as the provider means it
          built,   \* the framework's message so far
          chunks,  \* chunks of this answer
          told,    \* what the span of this model call records
          history, \* the framework's messages
          sent,    \* the request, as the provider sees it
          error    \* why the adapter or a span callback raised

chatVars == <<adapter, style, mode, stage, round, said, built, chunks, told, history, sent,
              error>>

NoError == "none"
Call(i, ids, names, args, valid) ==
    [index |-> i, ids |-> ids, names |-> names, args |-> args, valid |-> valid]
NoAnswer == [thinks |-> FALSE, text |-> FALSE, calls |-> <<>>, usage |-> FALSE]
EmptySpan == [text |-> FALSE, calls |-> 0, args |-> FALSE, usage |-> FALSE]

\* The framework's messages name the calls they make and the calls they answer;
\* a provider's message answers one call.
Held(role, calls, answers) == [role |-> role, calls |-> calls, answers |-> answers]
Message(role, ids, answered) == [role |-> role, calls |-> ids, answers |-> answered]
Generated == 99       \* the count of an id the adapter made up
NoId == <<0, 0, 0>>
Id(k, i, n) == IF n = 0 THEN NoId ELSE <<k, i, n>>

ChatInit ==
    /\ adapter \in Adapters /\ style \in Styles /\ mode \in Modes(adapter)
    \* The pieces are joined by an adapter in llama_index only; what the other
    \* frameworks make of repeats or of a missing index is their own.
    /\ style \in {"repeats", "noindex"} => mode # "whole" /\ adapter = "llama_index"
    /\ stage = "request" /\ round = 0 /\ chunks = 0
    /\ said = NoAnswer /\ built = NoAnswer /\ told = EmptySpan
    /\ history = <<>> /\ sent = <<>> /\ error = NoError

-----------------------------------------------------------------------------
(* The request: the framework's history as the provider will read it.      *)

IdsOf(calls) == [i \in DOMAIN calls |-> calls[i].id]
Answered(m) == IF m.answers = <<>> THEN <<>> ELSE m.answers[1]

\* agno numbers the calls that have no id; a result without one gets "".
AgnoMessages(h) ==
    [k \in DOMAIN h |->
       Message(h[k].role,
               [i \in DOMAIN h[k].calls |->
                  IF h[k].calls[i].id = NoId THEN <<0, i, 1>> ELSE h[k].calls[i].id],
               Answered(h[k]))]

\* Each function response of a content becomes a tool message of its own,
\* before the message made of the content's text and calls, if it has any.
GoogleMessages(h) ==
    FlattenSeq([k \in DOMAIN h |->
      [i \in DOMAIN h[k].answers |-> Message("tool", <<>>, h[k].answers[i])]
      \o (IF h[k].calls = <<>> THEN <<>>
          ELSE <<Message("assistant", IdsOf(h[k].calls), <<>>)>>)])

\* The places of the calls whose arguments could be parsed.
Parsed(calls) == FlattenSeq([i \in DOMAIN calls |-> IF calls[i].valid THEN <<i>> ELSE <<>>])

\* The calls langchain could parse, or else the raw ones.
LangchainMessages(h) ==
    [k \in DOMAIN h |->
       LET ids == IdsOf(h[k].calls)
           parsed == Parsed(h[k].calls)
       IN Message(h[k].role, IF parsed = <<>> THEN ids ELSE [i \in DOMAIN parsed |-> ids[parsed[i]]],
                  Answered(h[k]))]

\* additional_kwargs, calls and answered id, as they were put there.
LlamaIndexMessages(h) ==
    [k \in DOMAIN h |-> Message(h[k].role, IdsOf(h[k].calls), Answered(h[k]))]

OpenAIMessages(h) ==
    [k \in DOMAIN h |-> Message(h[k].role, IdsOf(h[k].calls), Answered(h[k]))]

\* smolagents sends text only: calls and their results are part of it.
SmolagentsMessages(h) == [k \in DOMAIN h |-> Message("text", <<>>, <<>>)]

Messages(h) == CASE adapter = "agno" -> AgnoMessages(h) [] adapter = "google" -> GoogleMessages(h)
                 [] adapter = "langchain" -> LangchainMessages(h)
                 [] adapter = "llama_index" -> LlamaIndexMessages(h)
                 [] adapter = "openai" -> OpenAIMessages(h)
                 [] adapter = "smolagents" -> SmolagentsMessages(h)

Fail(why) == stage' = "failed" /\ error' = why

\* agno iterates over what ainvoke_stream returns, which is a coroutine: every
\* asynchronous stream ends before its request is sent.
AinvokeStream ==
    /\ stage = "request" /\ round < MaxRounds
    /\ adapter = "agno" /\ mode = "astream"
    /\ Fail("no iterator")
    /\ UNCHANGED <<adapter, style, mode, round, said, built, chunks, told, history, sent>>

Request ==
    /\ stage = "request" /\ round < MaxRounds
    /\ adapter = "agno" => mode # "astream"
    /\ sent' = Messages(history)
    /\ round' = round + 1
    /\ said' = NoAnswer /\ built' = NoAnswer /\ told' = EmptySpan /\ chunks' = 0
    /\ stage' = IF mode = "whole" THEN "answer" ELSE "chunks"
    /\ UNCHANGED <<adapter, style, mode, history, error>>

-----------------------------------------------------------------------------
(* A whole answer.                                                         *)

Answers ==
    [thinks : IF adapter = "openai" THEN BOOLEAN ELSE {FALSE}, text : BOOLEAN, usage : BOOLEAN,
     calls : UNION {[1..n -> [valid : BOOLEAN]] : n \in 0..MaxToolCalls}]

WholeCalls(a) ==
    [i \in DOMAIN a.calls |->
       Call(i, IF style = "noids" THEN 0 ELSE 1, 1, 1, a.calls[i].valid)]

AnyInvalid(calls) == \E i \in DOMAIN calls : ~calls[i].valid

\* What the adapter hands on; the exceptions are its own.
AgnoParse(a) == built' = a /\ stage' = "span" /\ UNCHANGED error

LangchainParse(a) == built' = a /\ stage' = "span" /\ UNCHANGED error

OpenAIParse(a) == built' = a /\ stage' = "span" /\ UNCHANGED error

\* google parses the arguments of a call itself.
GoogleParse(a) ==
    IF AnyInvalid(a.calls)
    THEN Fail("arguments") /\ UNCHANGED built
    ELSE built' = a /\ stage' = "span" /\ UNCHANGED error

\* llama_index keeps the provider's tool_calls field even when it is None,
\* and then asks for its length.
LlamaIndexParse(a) ==
    IF a.calls = <<>>
    THEN Fail("length of None") /\ UNCHANGED built
    ELSE built' = a /\ stage' = "span" /\ UNCHANGED error

\* smolagents reads the tokens of a usage that may not be there.
SmolagentsParse(a) ==
    IF ~a.usage
    THEN Fail("no usage") /\ UNCHANGED built
    ELSE built' = a /\ stage' = "span" /\ UNCHANGED error

Parse(a) == CASE adapter = "agno" -> AgnoParse(a) [] adapter = "google" -> GoogleParse(a)
              [] adapter = "langchain" -> LangchainParse(a)
              [] adapter = "llama_index" -> LlamaIndexParse(a)
              [] adapter = "openai" -> OpenAIParse(a)
              [] adapter = "smolagents" -> SmolagentsParse(a)

Answer ==
    /\ stage = "answer"
    /\ \E a \in Answers :
         LET whole == [a EXCEPT !.calls = WholeCalls(a)]
         IN said' = whole /\ Parse(whole)
    /\ UNCHANGED <<adapter, style, mode, round, chunks, told, history, sent>>

-----------------------------------------------------------------------------
(* A streamed answer.  A chunk carries some of: text, a piece of one call, *)
(* the usage; a usage chunk may come without choices.                      *)

NoPiece == [of |-> 0, index |-> 0, ids |-> 0, names |-> 0, args |-> 0]

\* What the provider may send next of call i; an index of 0 is none.
Piece(i) ==
    LET first == i > Len(said.calls)
    IN [of |-> i,
        index |-> IF style = "noindex" THEN 0 ELSE i,
        ids |-> IF style = "noids" \/ (~first /\ style # "repeats") THEN 0 ELSE 1,
        names |-> IF first \/ style = "repeats" THEN 1 ELSE 0,
        args |-> 1]

Pieces ==
    LET last == Len(said.calls)
        new == IF last < MaxToolCalls THEN {last + 1} ELSE {}
    IN {Piece(i) : i \in new \cup (IF style = "noindex" THEN {} ELSE 1..last)}

Chunk(text, piece, usage, choices) ==
    [text |-> text, piece |-> piece, usage |-> usage, choices |-> choices]

Chunks == {Chunk(TRUE, NoPiece, FALSE, TRUE)}
          \cup {Chunk(FALSE, p, FALSE, TRUE) : p \in Pieces}
          \cup {Chunk(FALSE, NoPiece, TRUE, c) : c \in BOOLEAN}

NewCall(p) == Call(p.index, p.ids, p.names, p.args, TRUE)

\* What the provider means: the piece is one more of the arguments of its call.
Meant(calls, p) ==
    IF p = NoPiece THEN calls
    ELSE IF p.of <= Len(calls) THEN [calls EXCEPT ![p.of].args = @ + p.args]
    ELSE Append(calls, NewCall(p))

Said(e) == [said EXCEPT !.text = @ \/ e.text, !.calls = Meant(@, e.piece),
                        !.usage = @ \/ e.usage]

Add(call, p) == [call EXCEPT !.ids = @ + p.ids, !.names = @ + p.names, !.args = @ + p.args]

\* The frameworks that join the pieces themselves do so by index.
Merged(calls, p) ==
    IF p = NoPiece THEN calls
    ELSE IF p.index <= Len(calls) THEN [calls EXCEPT ![p.index] = Add(@, p)]
    ELSE Append(calls, NewCall(p))

\* The framework joins the deltas it is handed.
Joined(e) ==
    [built EXCEPT !.text = @ \/ e.text, !.calls = Merged(@, e.piece), !.usage = @ \/ e.usage]

\* Every delta and the usage, with or without choices.
AgnoDelta(e) == Joined(e)
SmolagentsDelta(e) == Joined(e)
OpenAIDelta(e) == Joined(e)

\* A message chunk has the delta's text and pieces of calls, not the usage. The
\* plain iterator makes a dict of the chunk first, and then asks its delta for
\* an attribute.
LangchainBreaks(e) == adapter = "langchain" /\ mode = "stream" /\ e.choices
LangchainChunk(e) == [e EXCEPT !.usage = FALSE]
LangchainDelta(e) == IF ~e.choices THEN built ELSE Joined(LangchainChunk(e))

\* The streaming branch of generate_content_async is `pass`.
GoogleDelta(e) == built

\* Variant: pieces are joined by id only.
UpdateToolCallsById(calls, p) ==
    LET same == {j \in DOMAIN calls : p.ids > 0 /\ calls[j].index = p.index}
    IN IF same = {} THEN Append(calls, NewCall(p))
       ELSE [calls EXCEPT ![CHOOSE j \in same : TRUE] = Add(@, p)]

\* update_tool_calls joins a piece to the first call with its index (None is
\* equal to None) or its id, and concatenates ids and names like arguments.
UpdateToolCalls(calls, p) ==
    LET same == {j \in DOMAIN calls : calls[j].index = p.index}
    IN IF same = {} THEN Append(calls, NewCall(p))
       ELSE LET j == CHOOSE j \in same : \A k \in same : j <= k
            IN [calls EXCEPT ![j] = Add(@, p)]

\* The usage is that of the last chunk that had choices.
LlamaIndexDelta(e) ==
    IF ~e.choices THEN built
    ELSE [built EXCEPT !.text = @ \/ e.text, !.usage = e.usage,
            !.calls = IF e.piece = NoPiece THEN @ ELSE UpdateToolCalls(@, e.piece)]

Delta(e) == CASE adapter = "agno" -> AgnoDelta(e) [] adapter = "google" -> GoogleDelta(e)
              [] adapter = "langchain" -> LangchainDelta(e)
              [] adapter = "llama_index" -> LlamaIndexDelta(e)
              [] adapter = "openai" -> OpenAIDelta(e)
              [] adapter = "smolagents" -> SmolagentsDelta(e)

StreamChunk ==
    /\ stage = "chunks" /\ chunks < MaxChunks
    /\ \E e \in Chunks :
         /\ e.usage => ~said.usage
         /\ ~e.choices => chunks > 0
         /\ said' = Said(e)
         /\ IF LangchainBreaks(e)
            THEN Fail("dict has no role") /\ UNCHANGED built
            ELSE built' = Delta(e) /\ UNCHANGED <<stage, error>>
    /\ chunks' = chunks + 1
    /\ UNCHANGED <<adapter, style, mode, round, told, history, sent>>

StreamEnds ==
    /\ stage = "chunks" /\ chunks > 0
    /\ stage' = "span"
    /\ UNCHANGED <<adapter, style, mode, round, said, built, chunks, told, history, sent, error>>

-----------------------------------------------------------------------------
(* after_llm_call: the span callback reads the framework's message.        *)

\* The model calls the wrappers see: the functions of whole answers, and what
\* is asynchronous in langchain (its own events) and in llama_index (take_step).
Wrapped == mode = "whole" \/ (mode = "astream" /\ adapter \in {"langchain", "llama_index"})

Tells(text, calls, args, usage) ==
    [text |-> text, calls |-> calls, args |-> args, usage |-> usage]

\* The calls, or else the text.
AgnoSpan(b) == IF b.calls # <<>> THEN Tells(FALSE, Len(b.calls), TRUE, b.usage)
               ELSE Tells(b.text, 0, FALSE, b.usage)

\* Variant: the first part of the message only.
GoogleSpanFirst(b) == IF b.text THEN Tells(TRUE, 0, FALSE, b.usage)
                      ELSE Tells(FALSE, IF b.calls = <<>> THEN 0 ELSE 1, TRUE, b.usage)

\* The text, or else the calls.
GoogleSpan(b) == IF b.text THEN Tells(TRUE, 0, FALSE, b.usage)
                 ELSE Tells(FALSE, Len(b.calls), b.calls # <<>>, b.usage)

\* message.tool_calls are the calls that could be parsed.
LangchainSpan(b) == IF b.text THEN Tells(TRUE, 0, FALSE, b.usage)
                    ELSE Tells(FALSE, Len(Parsed(b.calls)), Parsed(b.calls) # <<>>, b.usage)

\* The usage is read from the raw response, which generate puts in its message.
SmolagentsSpan(b) == IF b.text THEN Tells(TRUE, 0, FALSE, b.usage)
                     ELSE Tells(FALSE, Len(b.calls), b.calls # <<>>, b.usage)

\* Reads the arguments from an attribute that does not exist ("tool_kwars").
LlamaIndexSpan(b) == IF b.calls # <<>> THEN Tells(FALSE, Len(b.calls), FALSE, b.usage)
                     ELSE Tells(b.text, 0, FALSE, b.usage)

\* The first output item: the reasoning, the text, or one call.
OpenAISpan(b) == IF b.thinks THEN Tells(FALSE, 0, FALSE, b.usage)
                 ELSE IF b.text THEN Tells(TRUE, 0, FALSE, b.usage)
                 ELSE IF b.calls # <<>> THEN Tells(FALSE, 1, TRUE, b.usage)
                 ELSE EmptySpan

SpanOf(b) == CASE adapter = "agno" -> AgnoSpan(b) [] adapter = "google" -> GoogleSpan(b)
               [] adapter = "langchain" -> LangchainSpan(b)
               [] adapter = "llama_index" -> LlamaIndexSpan(b)
               [] adapter = "openai" -> OpenAISpan(b)
               [] adapter = "smolagents" -> SmolagentsSpan(b)

\* smolagents' callback has no value for a message that is empty.
AfterLlmCall ==
    /\ stage = "span"
    /\ IF adapter = "smolagents" /\ Wrapped /\ ~built.text /\ built.calls = <<>>
       THEN Fail("empty message") /\ UNCHANGED told
       ELSE /\ told' = IF Wrapped THEN SpanOf(built) ELSE EmptySpan
            /\ stage' = IF built.calls = <<>> THEN "end" ELSE "tools"
            /\ UNCHANGED error
    /\ UNCHANGED <<adapter, style, mode, round, said, built, chunks, history, sent>>

-----------------------------------------------------------------------------
(* The framework runs the calls and notes them.                            *)

\* Variant: every selection gets a new id.
SelectedIdFresh(i) == Id(round, i, Generated)

\* llama_index's selection gets an id where the call has none, which the
\* assistant message does not have; invalid arguments become none.
SelectedId(i) == IF built.calls[i].ids = 0 THEN Id(round, i, Generated)
                 ELSE Id(round, i, built.calls[i].ids)

\* Without parallel calls a whole answer is cut down to its first call, in the
\* message as well.
LlamaIndexKeeps == IF mode = "whole" THEN {1, Len(built.calls)} ELSE {Len(built.calls)}

Keeps == IF adapter = "llama_index" THEN LlamaIndexKeeps ELSE {Len(built.calls)}

AnswerId(i) == IF adapter = "llama_index" THEN SelectedId(i)
               ELSE Id(round, i, built.calls[i].ids)

\* langchain runs only what it could parse; google keeps the results of a turn
\* in one content.
Results(n) ==
    LET run == IF adapter = "langchain" THEN Parsed(built.calls) ELSE [i \in 1..n |-> i]
        ids == [i \in DOMAIN run |-> AnswerId(run[i])]
    IN IF adapter = "google" THEN <<Held("user", <<>>, ids)>>
       ELSE [i \in DOMAIN ids |-> Held("tool", <<>>, <<ids[i]>>)]

RunTools ==
    /\ stage = "tools"
    /\ \E n \in Keeps :
         LET calls == [i \in 1..n |-> [id |-> Id(round, i, built.calls[i].ids),
                                       valid |-> built.calls[i].valid]]
         IN history' = Append(history, Held("assistant", calls, <<>>)) \o Results(n)
    \* langchain's agent stops at a message without a parsed call.
    /\ stage' = IF round < MaxRounds
                /\ (adapter = "langchain" => \E i \in DOMAIN built.calls : built.calls[i].valid)
             THEN "request" ELSE "end"
    /\ UNCHANGED <<adapter, style, mode, round, said, built, chunks, told, sent, error>>

ChatNext == AinvokeStream \/ Request \/ Answer \/ StreamChunk \/ StreamEnds \/ AfterLlmCall \/ RunTools

ChatSpec == ChatInit /\ [][ChatNext]_chatVars

-----------------------------------------------------------------------------
(* What the adapters promise.                                              *)

\* What llama_index keeps of the calls whose pieces repeat their id and name:
\* the arguments, and the name of a call that came in one piece.
ArgumentsWhole ==
    /\ Len(built.calls) = Len(said.calls)
    /\ \A i \in 1..Len(said.calls) :
         /\ built.calls[i].args = said.calls[i].args
         /\ built.calls[i].names = said.calls[i].names <=> said.calls[i].args = 1

\* The message the framework gets makes the calls the provider means, each with
\* its id, its name and all its pieces in one place however the pieces of several
\* calls were interleaved, and has its text. Lost are google's streams, which
\* yield nothing; on llama_index calls without an index run into one, and a
\* name or an id that is repeated is concatenated.
AnswerIsWhole ==
    stage = "span" =>
      \/ built.calls = said.calls /\ built.text = said.text
      \/ adapter = "google" /\ mode = "astream"
      \/ /\ adapter = "llama_index" /\ built.text = said.text
         /\ \/ style = "noindex" /\ Len(said.calls) > 1
            \/ style = "repeats" /\ ArgumentsWhole

\* Tokens the provider reported reach the framework, and from there the span,
\* except those of a stream on google (nothing is yielded), langchain (only
\* deltas are converted) and llama_index (usage anywhere but in a last chunk
\* with choices), those of streams no wrapper sees, and those of an openai
\* answer with nothing in it.
UsageArrives ==
    /\ stage = "span" /\ said.usage /\ ~built.usage
         => mode # "whole" /\ adapter \in {"google", "langchain", "llama_index"}
    /\ stage \in {"tools", "end"} /\ built.usage /\ ~told.usage
         => ~Wrapped \/ (adapter = "openai" /\ ~built.text /\ built.calls = <<>>)

\* The span of a model call that asks for tools names each of them, unless the
\* answer has text too, or is read to its first item only (openai), or has calls
\* that could not be parsed (langchain), or no wrapper sees it.
SpanNamesCalls ==
    stage = "tools" /\ Wrapped =>
      \/ told.calls = Len(built.calls)
      \/ adapter = "langchain" /\ told.calls = Len(Parsed(built.calls))
      \/ built.text /\ adapter \in {"google", "langchain", "smolagents"}
      \/ adapter = "openai" /\ (built.text \/ built.thinks \/ Len(built.calls) > 1)

\* Every call of an assistant message in a request is answered by exactly one
\* later tool message, and every tool message answers a call: providers refuse
\* anything else.  Only ids the provider left out break it.
RequestPaired ==
    style # "noids" =>
      /\ \A k \in DOMAIN sent : \A i \in DOMAIN sent[k].calls :
           Cardinality({j \in DOMAIN sent :
             sent[j].role = "tool" /\ sent[j].answers = sent[k].calls[i] /\ j > k}) = 1
      /\ \A j \in DOMAIN sent : sent[j].role = "tool" =>
           \E k \in 1..(j - 1) : \E i \in DOMAIN sent[k].calls :
             sent[k].calls[i] = sent[j].answers

\* The streams that fail whatever the provider says.
StreamsThatFail == {<<"agno", "astream">>, <<"langchain", "stream">>}

\* No answer comes through a stream that always fails. Through any other, one
\* with usage, valid arguments and something in it always does, but for a whole
\* one without calls on llama_index.
ProperAnswersPass ==
    /\ stage \in {"span", "tools", "end"} => <<adapter, mode>> \notin StreamsThatFail
    /\ stage = "failed" /\ <<adapter, mode>> \notin StreamsThatFail
         /\ said.usage /\ (said.text \/ said.calls # <<>>) /\ ~AnyInvalid(said.calls)
         => adapter = "llama_index" /\ mode = "whole" /\ said.calls = <<>>

\* A proper answer comes through an adapter that works, and whole: AnswerIsWhole and
\* ProperAnswersPass.
AnswerArrives == AnswerIsWhole /\ ProperAnswersPass

\* The span tells what the answer cost and which tools it asked for: UsageArrives
\* and SpanNamesCalls.
SpanIsTrue == UsageArrives /\ SpanNamesCalls

=============================================================================
