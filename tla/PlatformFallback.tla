--------------------------- MODULE PlatformFallback ---------------------------
(***************************************************************************)
(* One request of the gateway in hybrid mode: the platform resolves it to a *)
(* list of attempts, the gateway walks the list until one answers           *)
(* (run_platform_attempts, iterate_streaming_attempts), and every outcome   *)
(* is posted back to the platform over three channels:                      *)
(*   "background"  FastAPI's BackgroundTasks, run in order after a response *)
(*                 that succeeded, dropped with one that did not            *)
(*   "inline"      _flush_pending_usage_reports, before an error response   *)
(*   "task"        a task of its own, created when a stream ends            *)
(* Posts retry, race the deadline of the flush, and may be recorded by the  *)
(* platform although their answer is lost.                                  *)
(***************************************************************************)
EXTENDS Naturals, Sequences, FiniteSets

CONSTANTS Formats,      \* subset of {"chat", "messages", "responses"}
          MaxAttempts,  \* bound: attempts the platform resolves to
          MaxRounds,    \* max_tool_iterations
          MaxTries,     \* usage_max_retries: 0 posts nothing
          Faults        \* subset of AllFaults that may occur

AllFaults == {"cancel",      \* the request's task is cancelled
              "disconnect",  \* the client of a stream goes away
              "refused",     \* the platform answers a report with a 4xx
              "outage",      \* a report meets a 5xx, a timeout or a network error
              "protocol",    \* a report raises anything else
              "deadline",    \* the flush runs out of usage_timeout_ms
              "provider"}    \* an attempt names a provider LLMProvider does not know

Attempts == 1..MaxAttempts
Outcomes == {"success", "error"}
Vias     == {"background", "inline", "task"}
Kinds    == {"timeout", "unavailable", "invalid", "unknown"}
Fates    == {"untried", "unknown", "failed", "capped", "rejected",
             "served", "unbilled", "broken", "left"}
Answers  == {"none", "ok", "refused", "invalid", "capped", "timedOut", "failed", "gone"}

VARIABLES
  pc,
  format, streaming, tools,  \* the request: route, request.stream, tool_ctx.use_tool_loop
  n,                 \* len(route.attempts)
  cur,               \* the attempt the loop is at
  locked,            \* locked_in; for a stream: the first chunk is in hand
  rounds,            \* rounds of the tool loop on this attempt
  lastError,         \* kind of last_exc
  answer,            \* the response, decided (sent once pc = "over")
  queue,             \* background_tasks
  pending,           \* pending_error_reports
  inflight,          \* reports being posted
  backend,           \* the eagerly opened tool backend is open
  \* what the world has seen
  received,          \* the platform's records
  fate,              \* what became of each attempt
  toolsRun,          \* attempts whose tool calls were executed
  mishaps

walk    == <<n, cur, locked, rounds, lastError, fate, toolsRun>>
reports == <<queue, pending, inflight, received>>
vars    == <<pc, format, streaming, tools, walk, answer, reports, backend, mishaps>>

Report == [attempt : Attempts, outcome : Outcomes]
Post   == [attempt : Attempts, outcome : Outcomes, via : Vias,
           tries : 1..MaxTries, waiting : BOOLEAN]

TypeOK ==
  /\ pc \in {"start", "open", "attempt", "tools", "flush", "unpulled", "flowing", "over"}
  /\ format \in Formats
  /\ streaming \in BOOLEAN /\ tools \in BOOLEAN /\ locked \in BOOLEAN /\ backend \in BOOLEAN
  /\ n \in 0..MaxAttempts /\ cur \in 0..n /\ rounds \in 0..MaxRounds
  /\ lastError \in Kinds \cup {"none"} /\ answer \in Answers
  /\ queue \in Seq(Report) /\ pending \subseteq Attempts /\ inflight \subseteq Post
  /\ received \in [Attempts -> [Outcomes -> Nat]]
  /\ fate \in [Attempts -> Fates] /\ toolsRun \subseteq Attempts
  /\ mishaps \subseteq Faults

Init ==
  /\ pc = "start" /\ format \in Formats /\ streaming \in BOOLEAN /\ tools \in BOOLEAN
  /\ n = 0 /\ cur = 0 /\ locked = FALSE /\ rounds = 0
  /\ lastError = "none" /\ answer = "none"
  /\ queue = <<>> /\ pending = {} /\ inflight = {} /\ backend = FALSE
  /\ received = [a \in Attempts |-> [o \in Outcomes |-> 0]]
  /\ fate = [a \in Attempts |-> "untried"] /\ toolsRun = {} /\ mishaps = {}

request == <<format, streaming, tools>>

\* Tool-loop streams of the messages and responses routes have one attempt only.
Single == streaming /\ tools /\ format # "chat"

\* The first post of attempt a's outcome: none where usage_max_retries is 0.
FirstPosts(a, o, via) ==
  IF MaxTries = 0 THEN {}
  ELSE {[attempt |-> a, outcome |-> o, via |-> via, tries |-> 1, waiting |-> FALSE]}

Sending(via) == {p \in inflight : p.via = via}

-----------------------------------------------------------------------------
(***************************************************************************)
(* Resolving the route, opening the tool backend.                          *)
(***************************************************************************)

\* create_response rejects a route that lists a provider without the Responses API,
\* and fails on one that lists a provider unknown to LLMProvider.
EnsureProvidersSupportResponses(k) ==
  /\ format = "responses" /\ k > 0
  /\ pc' = "over" /\ answer' \in {"invalid", "failed"} /\ UNCHANGED cur

\* _resolve_platform_credentials rejects, or returns attempts; an empty list is a 502.
Resolve ==
  /\ pc = "start"
  /\ \/ pc' = "over" /\ answer' = "refused" /\ UNCHANGED <<n, cur>>
     \/ \E k \in 0..MaxAttempts :
          /\ n' = k
          /\ \/ EnsureProvidersSupportResponses(k)
             \/ k = 0 /\ pc' = "over" /\ answer' = "failed" /\ UNCHANGED cur
             \/ /\ k > 0 /\ cur' = 1
                /\ pc' = IF streaming /\ tools THEN "open" ELSE "attempt"
                /\ UNCHANGED answer
  /\ UNCHANGED <<request, locked, rounds, lastError, fate, toolsRun, reports, backend, mishaps>>

\* A stream opens its tool backend once, before the first attempt.
OpenBackend ==
  /\ pc = "open" /\ ~Single
  /\ \/ pc' = "attempt" /\ backend' = TRUE /\ UNCHANGED answer
     \/ pc' = "over" /\ answer' \in {"failed", "timedOut"} /\ UNCHANGED backend
  /\ UNCHANGED <<request, walk, reports, mishaps>>

\* run_single_attempt_stream: the response starts before the provider is called;
\* an MCP pool is entered when the client pulls.
OpenSingleAttempt ==
  /\ pc = "open" /\ Single
  /\ \/ pc' = "unpulled" /\ answer' = "ok" /\ locked' = TRUE /\ backend' \in BOOLEAN
     \/ pc' = "over" /\ answer' \in {"failed", "timedOut"} /\ UNCHANGED <<locked, backend>>
  /\ UNCHANGED <<request, n, cur, rounds, lastError, fate, toolsRun, reports, mishaps>>

-----------------------------------------------------------------------------
(***************************************************************************)
(* The walk along the attempts.                                            *)
(***************************************************************************)

\* _classify_upstream_error
Retryable(kind) == kind \in {"timeout", "unavailable"}

\* The status of the response that tells this failure.
Verdict(kind) == CASE kind = "timeout" -> "timedOut"
                   [] kind = "invalid" -> "invalid"
                   [] OTHER            -> "failed"

\* The request ends in an error response: the queued background tasks are
\* dropped, and the pending error reports are posted inline first.
EndInError(verdict, failed) ==
  /\ answer' = verdict
  /\ queue' = <<>>
  /\ pending' = {}
  /\ IF failed = {}
     THEN pc' = "over" /\ backend' = FALSE /\ UNCHANGED inflight
     ELSE /\ pc' = "flush"
          /\ inflight' = inflight \cup UNION {FirstPosts(a, "error", "inline") : a \in failed}
          /\ UNCHANGED backend

\* Faulty: lock-in is forgotten.
FallsThroughLocked(kind) == Retryable(kind)

\* The walk goes on past a failure of this kind.
FallsThrough(kind) == Retryable(kind) /\ ~locked

\* The handler of `except BaseException` in both walks.
AttemptFails(kind) ==
  /\ fate' = [fate EXCEPT ![cur] = "failed"]
  /\ lastError' = kind
  /\ IF FallsThrough(kind) /\ cur < n
     THEN /\ pc' = "attempt" /\ cur' = cur + 1 /\ rounds' = 0
          /\ queue' = Append(queue, [attempt |-> cur, outcome |-> "error"])
          /\ pending' = pending \cup {cur}
          /\ UNCHANGED <<answer, inflight, backend>>
     ELSE EndInError(Verdict(kind), pending \cup {cur}) /\ UNCHANGED <<cur, rounds>>
  /\ UNCHANGED <<request, n, locked, received, toolsRun>>

\* LLMProvider(attempt.provider) stands before the try: its ValueError is no
\* HTTPException, so it ends the request without the flush of pending_error_reports.
\* (The streaming walk makes the same call inside its try: see CallFails.)
UnknownProvider ==
  /\ pc = "attempt" /\ ~streaming /\ rounds = 0 /\ ~locked
  /\ format # "responses" /\ "provider" \in Faults
  /\ mishaps' = mishaps \cup {"provider"}
  /\ fate' = [fate EXCEPT ![cur] = "unknown"]
  /\ EndInError("failed", {})
  /\ UNCHANGED <<request, n, cur, locked, rounds, lastError, received, toolsRun>>

\* The upstream call, the first chunk of it, or the tool loop raises.
CallFails == /\ pc = "attempt"
             /\ \E kind \in Kinds : AttemptFails(kind)
             /\ UNCHANGED mishaps

\* `except HTTPException: raise`: the gateway's own rejection inside an attempt.
CallRejected ==
  /\ pc = "attempt" /\ ~streaming
  /\ fate' = [fate EXCEPT ![cur] = "rejected"]
  /\ EndInError("failed", pending)
  /\ UNCHANGED <<request, n, cur, locked, rounds, lastError, received, toolsRun, mishaps>>

\* The attempt answers with calls of the gateway's tools.  A non-streaming loop
\* locks in; a stream does so only if the round yielded a chunk (see FirstChunk).
ToolRound ==
  /\ pc = "attempt" /\ tools
  /\ pc' = "tools"
  /\ locked' = (locked \/ ~streaming)
  /\ UNCHANGED <<request, n, cur, rounds, lastError, fate, toolsRun, answer, reports, backend, mishaps>>

\* The tools have run; past max_tool_iterations the loop raises.
RunTools ==
  /\ pc = "tools"
  /\ toolsRun' = toolsRun \cup {cur}
  /\ UNCHANGED <<request, n, cur, locked, received, mishaps>>
  /\ \/ /\ rounds + 1 < MaxRounds
        /\ pc' = "attempt" /\ rounds' = rounds + 1
        /\ UNCHANGED <<lastError, fate, answer, queue, pending, inflight, backend>>
     \/ /\ rounds + 1 = MaxRounds /\ ~streaming
        /\ fate' = [fate EXCEPT ![cur] = "capped"]
        /\ EndInError("capped", pending)
        /\ UNCHANGED <<rounds, lastError>>
     \/ /\ rounds + 1 = MaxRounds /\ streaming
        /\ fate' = [fate EXCEPT ![cur] = "failed"]
        /\ lastError' = "unknown"
        /\ EndInError(Verdict("unknown"), pending \cup {cur})
        /\ UNCHANGED rounds

\* run_platform_attempts returns: the success is queued behind the failures.
Succeed ==
  /\ pc = "attempt" /\ ~streaming
  /\ pc' = "over" /\ answer' = "ok"
  /\ locked' = (locked \/ tools)
  /\ fate' = [fate EXCEPT ![cur] = "served"]
  /\ queue' = Append(queue, [attempt |-> cur, outcome |-> "success"])
  /\ pending' = {}
  /\ UNCHANGED <<request, n, cur, rounds, lastError, toolsRun, inflight, received, backend, mishaps>>

\* A stream commits to the attempt that yields a chunk, or that ends without one.
FirstChunk ==
  /\ pc = "attempt" /\ streaming
  /\ pc' = "unpulled" /\ answer' = "ok" /\ locked' = TRUE
  /\ pending' = {}
  /\ UNCHANGED <<request, n, cur, rounds, lastError, fate, toolsRun,
                 queue, inflight, received, backend, mishaps>>

-----------------------------------------------------------------------------
(***************************************************************************)
(* The committed stream.                                                   *)
(***************************************************************************)

StartPulling == /\ pc = "unpulled" /\ pc' = "flowing"
                /\ UNCHANGED <<request, walk, answer, reports, backend, mishaps>>

\* The end of the stream, with the reports each outcome sends.
StreamEndsWith(served, broken, unbilled) ==
  /\ pc = "flowing"
  /\ pc' = "over" /\ backend' = FALSE
  /\ \E how \in {"served", "broken", "unbilled"} :
       /\ fate' = [fate EXCEPT ![cur] = how]
       /\ inflight' = inflight \cup UNION
            { FirstPosts(cur, o, "task") : o \in CASE how = "served" -> served
                                                [] how = "broken" -> broken
                                                [] OTHER          -> unbilled }
  /\ UNCHANGED <<request, n, cur, locked, rounds, lastError, toolsRun,
                 answer, queue, pending, received, mishaps>>

\* Faulty: a stream without usage is reported as a success of zero tokens.
StreamEndsBilled == StreamEndsWith({"success"}, {"error"}, {"success"})

\* build_streaming_response's callbacks in hybrid mode: usage and mid-stream
\* errors create a task; a stream without usage reports nothing.
StreamEnds == StreamEndsWith({"success"}, {"error"}, {})

\* The client goes: on_incomplete settles nothing in hybrid mode.  A generator
\* that was never started does not close the backend.  Whether the background
\* tasks still run depends on how the server learns of the disconnect.
ClientGone ==
  /\ pc \in {"unpulled", "flowing"} /\ "disconnect" \in Faults
  /\ mishaps' = mishaps \cup {"disconnect"}
  /\ pc' = "over" /\ answer' = "gone"
  /\ fate' = [fate EXCEPT ![cur] = "left"]
  /\ backend' = (backend /\ pc = "unpulled")
  /\ queue' \in {queue, <<>>}
  /\ UNCHANGED <<request, n, cur, locked, rounds, lastError, toolsRun, pending, inflight, received>>

-----------------------------------------------------------------------------
(***************************************************************************)
(* Cancellation of the request's task.                                     *)
(***************************************************************************)

\* Before and after the walk a cancellation simply propagates.
CancelQuietly ==
  /\ "cancel" \in Faults /\ pc \in {"start", "open", "flush"}
  /\ mishaps' = mishaps \cup {"cancel"}
  /\ pc' = "over" /\ answer' = "gone" /\ backend' = FALSE
  /\ inflight' = inflight \ Sending("inline")
  /\ UNCHANGED <<request, walk, queue, pending, received>>

\* Within an attempt, `except BaseException` meets the CancelledError too: it is
\* classified "unknown".  The streaming walk re-raises it and skips the flush;
\* the other one turns it into an HTTPException, which is flushed for.
CancelAttempt ==
  /\ "cancel" \in Faults /\ pc \in {"attempt", "tools"}
  /\ mishaps' = mishaps \cup {"cancel"}
  /\ IF ~streaming
     THEN AttemptFails("unknown")
     ELSE /\ fate' = [fate EXCEPT ![cur] = "failed"]
          /\ lastError' = "unknown"
          /\ EndInError("gone", {})
          /\ UNCHANGED <<request, n, cur, locked, rounds, received, toolsRun>>

-----------------------------------------------------------------------------
(***************************************************************************)
(* The channels: _flush_pending_usage_reports, BackgroundTasks, and         *)
(* _report_platform_usage, whose steps interleave with everything else.    *)
(***************************************************************************)

\* Faulty: the flush has no deadline.
FlushNeverTimesOut ==
  /\ pc = "flush" /\ Sending("inline") = {} /\ pc' = "over"
  /\ UNCHANGED <<request, walk, answer, reports, backend, mishaps>>

FlushEnds ==
  /\ pc = "flush" /\ Sending("inline") = {}
  /\ pc' = "over" /\ backend' = FALSE
  /\ UNCHANGED <<request, walk, answer, reports, mishaps>>

FlushTimesOut ==
  /\ pc = "flush" /\ Sending("inline") # {} /\ "deadline" \in Faults
  /\ mishaps' = mishaps \cup {"deadline"}
  /\ pc' = "over" /\ backend' = FALSE
  /\ inflight' = inflight \ Sending("inline")
  /\ UNCHANGED <<request, walk, answer, queue, pending, received>>

\* The response has gone out: its background tasks run one after the other.
NextBackground ==
  /\ pc = "over" /\ queue # <<>> /\ Sending("background") = {}
  /\ inflight' = inflight \cup FirstPosts(Head(queue).attempt, Head(queue).outcome, "background")
  /\ queue' = Tail(queue)
  /\ UNCHANGED <<pc, request, walk, answer, pending, received, backend, mishaps>>

\* The platform adds a record.
Recorded(p) == received' = [received EXCEPT ![p.attempt][p.outcome] = @ + 1]

PostDone(p) == inflight' = inflight \ {p}

\* Another try after the backoff, unless this was the last one.
PostAgain(p) ==
  inflight' = (inflight \ {p}) \cup
              (IF p.tries = MaxTries THEN {} ELSE {[p EXCEPT !.waiting = TRUE]})

outside == <<pc, request, walk, answer, pending, backend>>

PostAccepted(p) ==
  /\ ~p.waiting /\ Recorded(p) /\ PostDone(p)
  /\ UNCHANGED <<outside, queue, mishaps>>

PostRefused(p) ==
  /\ ~p.waiting /\ "refused" \in Faults /\ PostDone(p)
  /\ mishaps' = mishaps \cup {"refused"}
  /\ UNCHANGED <<outside, queue, received>>

\* A 5xx, a timeout or a network error; the platform may have recorded it.
PostFails(p) ==
  /\ ~p.waiting /\ "outage" \in Faults /\ PostAgain(p)
  /\ mishaps' = mishaps \cup {"outage"}
  /\ Recorded(p) \/ UNCHANGED received
  /\ UNCHANGED <<outside, queue>>

\* Any other exception escapes; out of a background task it drops the rest.
PostRaises(p) ==
  /\ ~p.waiting /\ "protocol" \in Faults /\ PostDone(p)
  /\ mishaps' = mishaps \cup {"protocol"}
  /\ Recorded(p) \/ UNCHANGED received
  /\ queue' = IF p.via = "background" THEN <<>> ELSE queue
  /\ UNCHANGED outside

Backoff(p) ==
  /\ p.waiting
  /\ inflight' = (inflight \ {p}) \cup {[p EXCEPT !.waiting = FALSE, !.tries = @ + 1]}
  /\ UNCHANGED <<outside, queue, received, mishaps>>

PostStep == \E p \in inflight : \/ PostAccepted(p) \/ PostRefused(p) \/ PostFails(p)
                                \/ PostRaises(p) \/ Backoff(p)

-----------------------------------------------------------------------------
Walk    == \/ Resolve \/ OpenBackend \/ OpenSingleAttempt \/ UnknownProvider \/ CallFails \/ CallRejected
           \/ ToolRound \/ RunTools \/ Succeed \/ FirstChunk \/ StartPulling \/ StreamEnds
Mishap  == ClientGone \/ CancelQuietly \/ CancelAttempt
Flush   == FlushEnds \/ FlushTimesOut
Channel == NextBackground \/ PostStep

Next == Walk \/ Mishap \/ Flush \/ Channel

\* The handler's coroutine is scheduled, awaits return (upstream calls have their
\* own timeouts), and wait_for's timer fires; not a word about the platform.
Spec == Init /\ [][Next]_vars /\ WF_vars(Walk) /\ WF_vars(Flush)

\* Posts end because httpx has a timeout.
PostsEnd == WF_vars(Channel)

-----------------------------------------------------------------------------
(***************************************************************************)
(* Properties.                                                             *)
(***************************************************************************)

\* The request is answered and no report is queued or on its way.
Quiet == pc = "over" /\ queue = <<>> /\ inflight = {}

\* Unless something went wrong on the way (an attempt of an unknown provider is
\* such a thing: it drops the reports of the failures before it), and if reports
\* are posted at all, the platform ends up with exactly one record of each attempt
\* that failed or was served, and the right one: the two copies of an error report
\* (background_tasks and pending_error_reports) are never both sent and never
\* both dropped.
OutcomesReachPlatform ==
  MaxTries > 0 /\ Quiet /\ mishaps = {} =>
    \A a \in Attempts :
      /\ fate[a] \in {"failed", "broken"} => received[a] = [success |-> 0, error |-> 1]
      /\ fate[a] = "served"               => received[a] = [success |-> 1, error |-> 0]

\* A second record of one report needs a retry: without a platform outage no
\* report is sent twice, whatever else goes wrong.
SecondRecordNeedsOutage ==
  \A a \in Attempts, o \in Outcomes : received[a][o] > 1 => "outage" \in mishaps

\* The platform never holds a success and an error of one attempt.
OneOutcomePerAttempt ==
  \A a \in Attempts : received[a]["success"] = 0 \/ received[a]["error"] = 0

\* The platform bills an attempt (a success record) only if that attempt's
\* answer was delivered whole to the client.
BilledIsServed ==
  \A a \in Attempts : received[a]["success"] > 0 => fate[a] = "served" /\ answer = "ok"

\* Lock-in: the gateway's tools run on behalf of at most one provider in a
\* non-streaming request, however the later rounds fail.
ToolsRunForOneProvider == ~streaming => Cardinality(toolsRun) <= 1

\* A provider's failure reaches the client only if every attempt of the route
\* failed, the request had locked in, no other provider could do better, or the
\* gateway could not even make the next call.
GaveUpForAReason ==
  answer \in {"timedOut", "invalid", "failed"} /\ lastError # "none" =>
    \/ \A a \in 1..n : fate[a] \in {"failed", "rejected"}
    \/ locked
    \/ lastError \in {"invalid", "unknown"}
    \/ fate[cur] \in {"rejected", "unknown"}

\* A tool backend opened for a stream is closed by the time the request is
\* over, unless the client left before the first chunk was pulled.
BackendLeakHasCause == pc = "over" /\ backend => fate[cur] = "left"

\* A platform that never answers a report cannot hold back the response: the
\* flush is bounded by its own timer.
AnswerComes == <>(pc = "over")

\* The reporting of every request comes to an end on all three channels, as long
\* as every post does.
ReportingEnds == PostsEnd => <>[]Quiet

=============================================================================
