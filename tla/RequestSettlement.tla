-------------------------- MODULE RequestSettlement --------------------------
(***************************************************************************)
(* One standalone request of the chat, messages or responses route, from    *)
(* the pre-debit to the end of its response: which of its statements settle *)
(* the reservation, on every path through the handlers of _pipeline.py and  *)
(* the generator of streaming.py.                                           *)
(*                                                                          *)
(* `pc` names the await (or the yield) the coroutine is suspended at.  What *)
(* can go wrong there is named in Faults, so that a configuration can say   *)
(* which failures the promise survives:                                     *)
(*   disconnect  the client goes while the stream is being pulled or sent   *)
(*   early       the client goes before the first chunk is asked for        *)
(*   cancel      the task is cancelled at any other await                   *)
(*   database    the settling statement fails, or its commit is not seen    *)
(*   log         writing the usage log raises                               *)
(*   selector    the model selector cannot be resolved                      *)
(*   guardrails  a guardrail's answer is JSON, but no object                *)
(***************************************************************************)
EXTENDS Naturals

CONSTANTS Formats,    \* subset of {"chat", "messages", "responses"}
          Faults,     \* see above
          Policies,   \* values of config.stream_missing_usage_policy
          MaxChunks   \* bound: chunks of a stream

VARIABLES
  pc,
  format,      \* the route: which adapter
  policy,      \* stream_missing_usage_policy
  streaming,   \* request.stream
  handle,      \* ReservationHandle.reserved
  settled,     \* the flag of streaming_generator
  usage,       \* what extract_usage and _merge_usage made of the response's usage
  chunks,      \* chunks yielded
  answer,      \* how the response ended
  stated,      \* history: the token counts the provider stated
  \* what the statements did
  releases,    \* updates that gave the estimate back
  charges,     \* updates that added to users.spend
  rows,        \* kinds of usage-log rows put
  mishaps      \* history: the faults met outside the handled ones

config == <<format, policy, streaming>>
meter  == <<usage, stated>>
vars == <<pc, config, handle, settled, meter, chunks, answer,
          releases, charges, rows, mishaps>>

\* The setup of the request, the calls upstream, the statements that settle.
Setup    == {"pricing", "setup", "tools"}   \* "support", "dispatch": no await
Upstream == {"calling", "opening"}
Writes   == {"logServed", "logFailed", "logStream", "logStreamError"}
Settles  == {"reconcile", "refund", "settleStream", "refundStreamError"}
Yields   == {"yielded", "yieldDone", "yieldError", "yieldErrorDone"}
Pulls    == {"pulling", "incompleteCancelled", "incomplete"}

PCs == {"start", "support", "dispatch", "unpulled", "over"} \cup Setup \cup Upstream \cup Writes
       \cup Settles \cup Yields \cup Pulls

\* The usage of a response: whether any arrived, which of its counts are known
\* and which of them its total_tokens sums up.
Counts  == {"input", "output", "cached"}
NoUsage == [seen |-> FALSE, counts |-> {}, total |-> {}]
Usage(counts) == [seen |-> TRUE, counts |-> counts, total |-> counts \ {"cached"}]

TypeOK ==
  /\ pc \in PCs
  /\ format \in Formats /\ policy \in Policies
  /\ streaming \in BOOLEAN /\ handle \in BOOLEAN /\ settled \in BOOLEAN
  /\ usage \in [seen : BOOLEAN, counts : SUBSET Counts, total : SUBSET Counts]
  /\ stated \subseteq Counts
  /\ chunks \in 0..MaxChunks
  /\ answer \in {"none", "served", "error", "gone"}
  /\ releases \in Nat /\ charges \in Nat
  /\ rows \subseteq {"served", "free", "estimated", "failed"}
  /\ mishaps \subseteq Faults

Init ==
  /\ pc = "start" /\ streaming \in BOOLEAN /\ format \in Formats /\ policy \in Policies
  /\ handle = FALSE /\ settled = FALSE /\ usage = NoUsage /\ stated = {}
  /\ chunks = 0 /\ answer = "none"
  /\ releases = 0 /\ charges = 0 /\ rows = {} /\ mishaps = {}

Goto(l) == pc' = l

\* Control moves on; nothing else.
Plain == UNCHANGED <<config, handle, settled, meter, chunks, answer,
                     releases, charges, rows, mishaps>>

\* The response ends here, by the fault f if there was one.
EndBy(how, fs) ==
  /\ pc' = "over" /\ answer' = how /\ mishaps' = mishaps \cup fs

-----------------------------------------------------------------------------
(***************************************************************************)
(* resolve_request_context and prepare_gateway_tools.                      *)
(***************************************************************************)

\* A reservation whose commit takes effect and raises leaves no handle here; what
\* it leaves in users.reserved is in BudgetLedger.
Reserve ==
  /\ pc = "start"
  /\ \/ /\ EndBy("error", {})
        /\ UNCHANGED handle
     \/ /\ Goto("pricing")
        /\ handle' \in BOOLEAN
        /\ UNCHANGED <<answer, mishaps>>
  /\ UNCHANGED <<config, settled, meter, chunks, releases, charges, rows>>

\* Missing pricing is rejected after the reservation, which is refunded.
PricingGate == /\ pc = "pricing"
               /\ Goto("setup") \/ Goto("refund")
               /\ Plain

\* Attachments are resolved and the reservation topped up; any exception refunds.
NormalizeAndTopUp ==
  /\ pc = "setup"
  /\ \/ /\ Goto(IF format = "responses" THEN "support" ELSE "tools")
        /\ handle' \in {handle, TRUE}
     \/ Goto("refund") /\ UNCHANGED handle
  /\ UNCHANGED <<config, settled, meter, chunks, answer, releases, charges, rows, mishaps>>

\* The selector cannot be resolved: the exception passes through the route.
SelectorRaises == "selector" \in Faults /\ EndBy("error", {"selector"})

\* create_response resolves the selector first, and refunds if the provider does
\* not speak the Responses API.
EnsureProviderSupportsResponses ==
  /\ pc = "support"
  /\ \/ (Goto("tools") \/ Goto("refund")) /\ UNCHANGED <<answer, mishaps>>
     \/ SelectorRaises
  /\ UNCHANGED <<config, handle, settled, meter, chunks, releases, charges, rows>>

\* prepare_gateway_tools refunds on every rejection of its own, which are
\* HTTPExceptions.  The TypeError of a guardrail's answer that has no keys
\* (_validate_one) is none: it passes through.
PrepareTools ==
  /\ pc = "tools"
  /\ \/ (Goto("dispatch") \/ Goto("refund")) /\ UNCHANGED <<answer, mishaps>>
     \/ "guardrails" \in Faults /\ EndBy("error", {"guardrails"})
  /\ UNCHANGED <<config, handle, settled, meter, chunks, releases, charges, rows>>

\* The routes resolve the selector outside every try block.
Dispatch(f) ==
  /\ pc = "dispatch" /\ format = f
  /\ \/ /\ Goto(IF streaming THEN "opening" ELSE "calling")
        /\ UNCHANGED <<answer, mishaps>>
     \/ f # "responses" /\ SelectorRaises
  /\ UNCHANGED <<config, handle, settled, meter, chunks, releases, charges, rows>>

ChatCompletions == Dispatch("chat")
CreateMessage   == Dispatch("messages")
CreateResponse  == Dispatch("responses")

-----------------------------------------------------------------------------
(***************************************************************************)
(* The statements.                                                         *)
(***************************************************************************)

\* reconcile_reservation and refund_reservation as they reach the database.
Reconciled == /\ charges' = charges + 1
              /\ releases' = IF handle THEN releases + 1 ELSE releases
Refunded   == /\ releases' = IF handle THEN releases + 1 ELSE releases
              /\ UNCHANGED charges

NotSettled == UNCHANGED <<charges, releases>>

\* log_usage puts a row and control goes to `next`, or it raises.
PutRow(kind, next, raised) ==
  \/ /\ rows' = rows \cup {kind}
     /\ Goto(next)
     /\ UNCHANGED mishaps
  \/ /\ "log" \in Faults
     /\ mishaps' = mishaps \cup {"log"}
     /\ Goto(raised)
     /\ UNCHANGED rows

\* The settling statement `effect`, and what its failure leads to: it did not
\* take effect, or it did and the commit's answer was lost.
Settle(effect, next, raised) ==
  \/ /\ effect
     /\ Goto(next)
     /\ UNCHANGED mishaps
  \/ /\ "database" \in Faults
     /\ handle \/ pc \in {"reconcile", "settleStream"}   \* a statement is sent
     /\ mishaps' = mishaps \cup {"database"}
     /\ effect \/ NotSettled
     /\ Goto(raised)

-----------------------------------------------------------------------------
(***************************************************************************)
(* run_standalone_non_stream.                                              *)
(***************************************************************************)

\* A response without usage gets no row in the messages format.
LogSuccessWithoutUsage == format # "messages"

\* Exceptions of the gateway's own backends and HTTPExceptions refund; every
\* other one is logged first.
CallProvider ==
  /\ pc = "calling"
  /\ \/ \E counts \in {{"input", "output"}, Counts} :
          Goto("logServed") /\ usage' = Usage(counts) /\ stated' = counts
     \/ Goto(IF LogSuccessWithoutUsage THEN "logServed" ELSE "reconcile") /\ UNCHANGED meter
     \/ (Goto("refund") \/ Goto("logFailed")) /\ UNCHANGED meter
  /\ UNCHANGED <<config, handle, settled, chunks, answer, releases, charges, rows, mishaps>>

LogServed ==
  /\ pc = "logServed"
  /\ PutRow("served", "reconcile", "logFailed")
  /\ UNCHANGED <<config, handle, settled, meter, chunks, answer, releases, charges>>

\* An exception of the reconcile is caught like one of the provider call.
ReconcileCall ==
  /\ pc = "reconcile"
  /\ Settle(Reconciled, "over", "logFailed")
  /\ answer' = IF pc' = "over" THEN "served" ELSE answer
  /\ UNCHANGED <<config, handle, settled, meter, chunks, rows>>

\* _log_failure_and_refund: no refund when the row cannot be put.
LogFailed ==
  /\ pc = "logFailed"
  /\ PutRow("failed", "refund", "over")
  /\ answer' = IF pc' = "over" THEN "error" ELSE answer
  /\ UNCHANGED <<config, handle, settled, meter, chunks, releases, charges>>

\* The refund before an error response: release_reservation and its like.
RefundCall ==
  /\ pc = "refund"
  /\ Settle(Refunded, "over", "over")
  /\ answer' = "error"
  /\ UNCHANGED <<config, handle, settled, meter, chunks, rows>>

-----------------------------------------------------------------------------
(***************************************************************************)
(* run_single_attempt_stream and streaming_generator.                      *)
(***************************************************************************)

\* A faulty variant of OpenStream: a failure answers without a refund.
OpenStreamUnrefunded ==
  /\ pc = "opening"
  /\ \/ Goto("unpulled") /\ UNCHANGED <<answer, mishaps>>
     \/ EndBy("error", {})
  /\ UNCHANGED <<config, handle, settled, meter, chunks, releases, charges, rows>>

OpenStream ==
  /\ pc = "opening"
  /\ Goto("unpulled") \/ Goto("refund") \/ Goto("logFailed")
  /\ Plain

FirstPull == pc = "unpulled" /\ Goto("pulling") /\ Plain

\* What a chunk may carry: the first event of a message stream states the input,
\* its delta events what the provider counted so far; the other formats state all
\* counts in one chunk, if the provider and the stream_options allow it.
Kinds == IF format # "messages" THEN {"chunk"}
         ELSE IF chunks = 0 THEN {"start"} ELSE {"text", "delta"}
Carried(kind) == CASE kind = "chunk" -> {{}, {"input", "output"}, Counts}
                   [] kind = "start" -> SUBSET {"input", "cached"}
                   [] kind = "text"  -> {{}}
                   [] kind = "delta" -> SUBSET Counts

\* extract_stream_usage of the three adapters.
ChatUsage(counts) == IF counts = {} THEN NoUsage ELSE Usage(counts)
ResponseUsage(counts) == IF counts = {} THEN NoUsage ELSE Usage(counts)
MessagesStreamUsage(kind, counts) ==
  IF kind = "delta" \/ (kind = "start" /\ counts # {}) THEN Usage(counts) ELSE NoUsage

ExtractStreamUsage(kind, counts) ==
  CASE format = "chat"      -> ChatUsage(counts)
    [] format = "responses" -> ResponseUsage(counts)
    [] format = "messages"  -> MessagesStreamUsage(kind, counts)

\* A faulty variant of MergeUsage: the last chunk's usage counts.
MergeUsageLatest(u, v) == IF v.seen THEN v ELSE u

\* Counts are kept one by one, the last one that is not zero; so is the total.
MergeUsage(u, v) ==
  IF ~v.seen THEN u
  ELSE [seen |-> TRUE, counts |-> u.counts \cup v.counts,
        total |-> IF v.total = {} THEN u.total ELSE v.total]

\* The next chunk, the end of the stream, or an exception.
Pull ==
  /\ pc = "pulling"
  /\ \/ /\ chunks < MaxChunks /\ chunks' = chunks + 1
        /\ \E kind \in Kinds : \E counts \in Carried(kind) :
             /\ usage' = MergeUsage(usage, ExtractStreamUsage(kind, counts))
             /\ stated' = stated \cup counts
        /\ Goto("yielded")
     \/ /\ Goto("yieldDone") \/ Goto("yieldError")
        /\ UNCHANGED <<chunks, meter>>
  /\ UNCHANGED <<config, handle, settled, answer, releases, charges, rows, mishaps>>

\* OPENAI_STREAM_FORMAT also ends a failed stream with the done marker.
YieldDoneOnError == format = "chat"

\* A faulty variant of Resume: settled after the callbacks, if at all.
ResumeUnmarked ==
  /\ UNCHANGED settled
  /\ \/ pc = "yielded" /\ Goto("pulling")
     \/ pc = "yieldDone" /\ Goto("logStream")
     \/ pc = "yieldError" /\ Goto(IF YieldDoneOnError THEN "yieldErrorDone" ELSE "logStreamError")
     \/ pc = "yieldErrorDone" /\ Goto("logStreamError")

\* The client took what was yielded.  `settled` is set before the callbacks.
Resume ==
  \/ /\ pc = "yielded"
     /\ Goto("pulling") /\ UNCHANGED settled
  \/ /\ pc = "yieldDone"
     /\ settled' = TRUE /\ Goto("logStream")
  \/ /\ pc = "yieldError" /\ YieldDoneOnError
     /\ Goto("yieldErrorDone") /\ UNCHANGED settled
  \/ /\ pc = IF YieldDoneOnError THEN "yieldErrorDone" ELSE "yieldError"
     /\ settled' = TRUE /\ Goto("logStreamError")

ResumeStream ==
  Resume /\ UNCHANGED <<config, handle, meter, chunks, answer, releases, charges,
                        rows, mishaps>>

\* Where the generator goes when its body is left: to `finally`.
Finally == IF settled THEN "over" ELSE "incomplete"

\* on_complete and on_no_usage: the row first, the settlement after it.
StreamRow == IF usage.seen THEN "served"
             ELSE IF policy = "allow_free" THEN "free"
             ELSE IF policy = "estimate" THEN "estimated" ELSE "failed"

LogStream ==
  /\ pc = "logStream"
  /\ PutRow(StreamRow, "settleStream", Finally)
  /\ answer' = IF pc' = "over" THEN "served" ELSE answer
  /\ UNCHANGED <<config, handle, settled, meter, chunks, releases, charges>>

StreamSettlement == IF ~usage.seen /\ policy = "allow_free" THEN Refunded ELSE Reconciled

SettleStream ==
  /\ pc = "settleStream"
  /\ Settle(StreamSettlement, Finally, Finally)
  /\ answer' = "served"
  /\ UNCHANGED <<config, handle, settled, meter, chunks, rows>>

\* on_error; what the callbacks raise is swallowed.
LogStreamError ==
  /\ pc = "logStreamError"
  /\ PutRow("failed", "refundStreamError", Finally)
  /\ answer' = IF pc' = "over" THEN "error" ELSE answer
  /\ UNCHANGED <<config, handle, settled, meter, chunks, releases, charges>>

RefundStreamError ==
  /\ pc = "refundStreamError"
  /\ Settle(Refunded, Finally, Finally)
  /\ answer' = "error"
  /\ UNCHANGED <<config, handle, settled, meter, chunks, rows>>

-----------------------------------------------------------------------------
(***************************************************************************)
(* Disconnects and cancellations.                                          *)
(***************************************************************************)

\* The client goes: the generator is closed at its yield, or the pull it is
\* suspended in is cancelled.
Disconnect ==
  /\ "disconnect" \in Faults
  /\ \/ pc \in Yields /\ Goto("incomplete")
     \/ pc = "pulling" /\ Goto("incompleteCancelled")
  /\ answer' = "gone"
  /\ UNCHANGED <<config, handle, settled, meter, chunks, releases, charges, rows, mishaps>>

\* on_incomplete in the CancelledError handler: settled once it returns.
IncompleteCancelled ==
  /\ pc = "incompleteCancelled"
  /\ Settle(Refunded, "over", "over")
  /\ settled' = TRUE
  /\ UNCHANGED <<config, handle, meter, chunks, answer, rows>>

\* on_incomplete in the finally block.
Incomplete ==
  /\ pc = "incomplete"
  /\ Settle(Refunded, "over", "over")
  /\ UNCHANGED <<config, handle, settled, meter, chunks, answer, rows>>

\* A generator that was never started runs no finally block.
Abandon ==
  /\ pc = "unpulled" /\ "early" \in Faults
  /\ EndBy("gone", {"early"})
  /\ UNCHANGED <<config, handle, settled, meter, chunks, releases, charges, rows>>

\* CancelledError at any other await: no handler refunds on it, except that the
\* generator still runs its finally block.  A statement may have taken effect.
Cancel ==
  /\ "cancel" \in Faults
  /\ pc \in Setup \cup Upstream \cup Writes \cup Settles \cup {"incompleteCancelled", "incomplete"}
  /\ Goto(IF pc \in {"logStream", "settleStream", "logStreamError", "refundStreamError",
                     "incompleteCancelled"}
          THEN Finally ELSE "over")
  /\ answer' = "gone" /\ mishaps' = mishaps \cup {"cancel"}
  /\ \/ NotSettled
     \/ pc = "reconcile" /\ Reconciled
     \/ pc = "settleStream" /\ StreamSettlement
     \/ pc \in {"refund", "refundStreamError", "incompleteCancelled", "incomplete"} /\ Refunded
  /\ UNCHANGED <<config, handle, settled, meter, chunks, rows>>

-----------------------------------------------------------------------------
Handler ==
  \/ Reserve \/ PricingGate \/ NormalizeAndTopUp \/ EnsureProviderSupportsResponses
  \/ PrepareTools \/ ChatCompletions \/ CreateMessage \/ CreateResponse
  \/ CallProvider \/ LogServed \/ ReconcileCall \/ LogFailed \/ RefundCall
  \/ OpenStream \/ FirstPull \/ Pull \/ ResumeStream \/ LogStream \/ SettleStream
  \/ LogStreamError \/ RefundStreamError \/ IncompleteCancelled \/ Incomplete

Environment == Disconnect \/ Abandon \/ Cancel

Next == Handler \/ Environment

\* The event loop resumes a coroutine whose await is done; calls upstream and to
\* the database return; a client reads or goes.
Spec == Init /\ [][Next]_vars /\ WF_vars(Handler)

-----------------------------------------------------------------------------
(***************************************************************************)
(* Properties.                                                             *)
(***************************************************************************)

Hold == CASE ~handle -> "none"
          [] handle /\ releases = 0 -> "held"
          [] handle /\ releases = 1 -> "ended"
          [] OTHER -> "given back twice"

Bill == CASE charges = 0 -> "none" [] charges = 1 -> "charged" [] OTHER -> "charged twice"

\* Until a mishap, whatever the client and the provider do, the handlers keep the
\* promise of SettlementContract: at most one hold, ended at most once by one
\* charge or one refund, and always ended.  A mishap closes the account.
Contract == INSTANCE SettlementContract WITH
  hold <- IF mishaps = {} THEN Hold ELSE IF handle THEN "ended" ELSE "none",
  bill <- IF mishaps = {} THEN Bill ELSE "charged"
KeepsContract == Contract!Spec

\* The module docstring of _pipeline.py: every downstream success path
\* reconciles and every failure path refunds, client disconnects included.
EveryPathSettles == pc = "over" => Hold # "held"

\* What was served is charged, unless it ended without usage and the policy
\* makes it free, or a mishap kept the charge from being written.
ServedIsCharged ==
  pc = "over" /\ answer = "served" =>
    charges > 0 \/ (~usage.seen /\ policy = "allow_free") \/ mishaps # {}

\* The row of a metered stream holds every count any of its events stated, and
\* its total sums them up; the total of a message stream only sums up the last
\* event that counted.
RowIsWhole ==
  "served" \in rows =>
    /\ usage.counts = stated
    /\ IF format = "messages" THEN usage.total \subseteq stated
                              ELSE usage.total = stated \ {"cached"}

\* Whatever fails, and whichever handler runs after it, spend is written at most
\* once for the response, and only after the usage row of a metered one was put.
ChargedOnce == charges <= 1 /\ (charges = 1 /\ usage.seen => "served" \in rows)

\* A hold is left behind only where nothing could settle it: a cancelled task, a
\* failed settling statement, a log write that raised, an unresolvable selector,
\* a guardrail's odd answer, a stream nobody pulled.
LeakHasCause == pc = "over" /\ Hold = "held" => mishaps # {}

\* An estimate is given back twice, out of other requests' holds, only when the
\* answer of a settling statement was lost and a second handler settled again.
TwiceHasCause == releases > 1 => mishaps \cap {"cancel", "database"} # {}

\* A response in error was not charged, unless the answer of its commit was lost.
ErrorNotCharged ==
  pc = "over" /\ answer = "error" /\ charges > 0 => "database" \in mishaps

=============================================================================
