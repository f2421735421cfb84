------------------------------- MODULE Gateway -------------------------------
(***************************************************************************)
(* One process of the gateway, from a request of one of its three main      *)
(* routes to the end of the process.  The configuration decides which of    *)
(* its two halves serves the request (resolve_request_context):             *)
(*   standalone  RequestSettlement, whose rows go to the batching writer,   *)
(*               UsageLogWriter, next to those of other requests            *)
(*   hybrid      PlatformFallback, which has neither database nor writer    *)
(* Both halves have pc, format, streaming, answer and mishaps in common:    *)
(* they are one coroutine.  The process ends after its requests.            *)
(***************************************************************************)
EXTENDS Naturals, Sequences, FiniteSets, SequencesExt

CONSTANTS Formats,         \* subset of {"chat", "messages", "responses"}
          Policies,        \* values of config.stream_missing_usage_policy
          ServiceFaults,   \* what may go wrong standalone: RequestSettlement
          PlatformFaults,  \* what may go wrong in hybrid mode: PlatformFallback
          Others,          \* usage rows of other requests
          MaxBatch,        \* BatchLogWriter._max_batch
          MaxRounds,       \* max_tool_iterations
          MaxTries,        \* usage_max_retries
          MaxChunks,       \* bound: chunks of a standalone stream
          MaxAttempts      \* bound: attempts the platform resolves to

ASSUME GatewayAssumption ==
  /\ Formats \subseteq {"chat", "messages", "responses"}
  /\ Policies \subseteq {"allow_free", "estimate", "fail"}
  /\ ServiceFaults \subseteq {"disconnect", "early", "cancel", "database", "log", "selector",
                             "guardrails"}
  /\ PlatformFaults \subseteq {"cancel", "disconnect", "refused", "outage", "protocol", "deadline",
                              "provider"}
  /\ MaxBatch \in Nat \ {0} /\ MaxRounds \in Nat \ {0} /\ MaxTries \in Nat
  /\ MaxChunks \in Nat /\ MaxAttempts \in Nat
  /\ Others \cap {"served", "free", "estimated", "failed"} = {}   \* rows of other requests

VARIABLES
  hybrid,                                     \* config.is_hybrid_mode
  pc, format, streaming, answer, mishaps,     \* the request
  policy, handle, settled, usage, chunks, stated, releases, charges, rows,
  queue, batch, last, task, stop, puts, commits, failed,
  tools, n, cur, locked, rounds, lastError, background, pending, inflight,
  backend, received, fate, toolsRun

request  == <<pc, format, streaming, answer, mishaps>>
service  == <<policy, handle, settled, usage, chunks, stated, releases, charges, rows>>
writer   == <<queue, batch, last, task, stop, puts, commits, failed>>
platform == <<tools, n, cur, locked, rounds, lastError, background, pending, inflight,
              backend, received, fate, toolsRun>>
vars     == <<hybrid, request, service, writer, platform>>

\* A request puts at most one row of a kind; its rows are told apart by kind.
Rows == {"served", "free", "estimated", "failed"} \cup Others

Service  == INSTANCE RequestSettlement WITH Faults <- ServiceFaults
Writer   == INSTANCE UsageLogWriter
Platform == INSTANCE PlatformFallback WITH Faults <- PlatformFaults, queue <- background

\* Each half ignores some settings; they are left at one value.
Init ==
  /\ hybrid \in BOOLEAN
  /\ Service!Init /\ Writer!Init /\ Platform!Init
  /\ IF hybrid THEN policy = CHOOSE p \in Policies : TRUE ELSE ~tools

-----------------------------------------------------------------------------
\* A step of a standalone request: log_usage puts the row it makes.
Serve ==
  /\ ~hybrid /\ Service!Next
  /\ IF rows' = rows THEN UNCHANGED writer
                     ELSE \E row \in rows' : row \notin rows /\ Writer!Put(row)
  /\ UNCHANGED <<hybrid, platform>>

OtherRequestLogs ==
  /\ ~hybrid /\ \E row \in Others : Writer!Put(row)
  /\ UNCHANGED <<hybrid, request, service, platform>>

\* The batching writer's own steps.
WriteLog ==
  /\ ~hybrid /\ (Writer!Task \/ Writer!Shutdown)
  /\ UNCHANGED <<hybrid, request, service, platform>>

\* The lifespan of the application ends after the last request: the writer is stopped.
EndLifespan ==
  /\ ~hybrid /\ pc = "over" /\ Writer!Stop
  /\ UNCHANGED <<hybrid, request, service, platform>>

\* A step of a request in hybrid mode, with the platform's own log of it.
Walk(step) == hybrid /\ step /\ UNCHANGED <<hybrid, service, writer>>

Next ==
  \/ Serve \/ OtherRequestLogs \/ WriteLog \/ EndLifespan
  \/ Walk(Platform!Next)

\* Each half's own fairness: the event loop runs every coroutine that can run.
Spec ==
  /\ Init /\ [][Next]_vars
  /\ WF_vars(Serve /\ Service!Handler)
  /\ WF_vars(WriteLog)
  /\ WF_vars(Walk(Platform!Walk)) /\ WF_vars(Walk(Platform!Flush))

-----------------------------------------------------------------------------
(***************************************************************************)
(* Properties: what each half promises, and that the log matches the spend. *)
(***************************************************************************)

TypeOK == IF hybrid THEN Platform!TypeOK ELSE Service!TypeOK /\ Writer!TypeOK

\* Until a mishap, a standalone request's hold ends once, by one charge or one
\* refund, on every path through the handlers: _pipeline.py's module docstring.
KeepsContract == Service!KeepsContract

\* A request is charged at most once; what was served is charged what its row
\* says and what was answered with an error is not, or a fault kept the
\* settling statement or its answer.
BillIsRight ==
  Service!ChargedOnce /\ Service!ServedIsCharged /\ Service!ErrorNotCharged /\ Service!RowIsWhole

\* A hold is left behind, or given back out of other requests' holds, only
\* where nothing could settle it or the answer of a settlement was lost.
HoldsHaveCause == Service!LeakHasCause /\ Service!TwiceHasCause

\* Once the process has ended, the usage log holds every row once, but for rows
\* whose own flush failed; in particular the row of what users.spend was charged
\* for, and of a request served without a fault nothing that was not charged.
LogMatchesSpend ==
  /\ Writer!CommittedOnce /\ Writer!MissingHasCause
  /\ stop = "returned" =>
       LET log == ToSet(Writer!Log) IN
       /\ charges > 0 /\ (streaming \/ usage.seen) =>
            {"served", "estimated", "failed"} \cap (log \cup failed) # {}
       /\ mishaps = {} /\ {"served", "estimated"} \cap log # {} => charges = 1

\* In hybrid mode the platform ends up with one record of each attempt that
\* failed or was served, unless a fault lost or doubled it, and what it holds is
\* true: no attempt is both billed and failed, and only what was delivered whole
\* is billed.
PlatformIsToldRight ==
  /\ Platform!OutcomesReachPlatform /\ Platform!OneOutcomePerAttempt
  /\ Platform!BilledIsServed /\ Platform!SecondRecordNeedsOutage

\* The walk along the attempts ends where it should: one provider's rounds run
\* the tools, a failure is final for a reason, an opened backend is closed.
WalkEndsWell ==
  Platform!ToolsRunForOneProvider /\ Platform!GaveUpForAReason /\ Platform!BackendLeakHasCause

\* The response comes in either mode, whatever the platform does with reports;
\* the reporting ends if every post does, and every usage row is off the writer's
\* hands sooner or later, stopped or not.
EverythingEnds == Platform!AnswerComes /\ Platform!ReportingEnds /\ Writer!CatchesUp

=============================================================================
