---------------------------- MODULE GatewayProofs ----------------------------
(***************************************************************************)
(* Proofs about Gateway, for any formats, policies, faults, rows of other  *)
(* requests and bounds: the settlement of a standalone request, its usage  *)
(* log, and the walk and the reports of a request in hybrid mode.          *)
(***************************************************************************)
EXTENDS Gateway, LibraryLemmas, FiniteSetTheorems, TLAPS

-----------------------------------------------------------------------------
(***************************************************************************)
(* The settlement of a standalone request.                                 *)
(***************************************************************************)

\* The usage that was read off the response says what the provider stated.
MeterInv ==
  /\ format \in Formats
  /\ usage \in [seen : BOOLEAN, counts : SUBSET Service!Counts, total : SUBSET Service!Counts]
  /\ usage.counts = stated
  /\ IF format = "messages" THEN usage.total \subseteq stated
     ELSE /\ stated \in {{}, {"input", "output"}, Service!Counts}
          /\ usage.total = stated \ {"cached"}

\* Where nothing has been settled, logged or lost yet.
Unsettled == Service!Setup \cup Service!Upstream \cup Service!Yields
             \cup {"start", "support", "dispatch", "unpulled", "pulling", "logServed"}
Unanswered == Service!Setup \cup Service!Upstream \cup {"start", "support", "dispatch"}
Streaming == {"logStream", "settleStream", "logStreamError", "refundStreamError"}

\* A metered charge has its row.
Billable == "served" \in rows \/ "estimated" \in rows
Metered  == charges = 1 => /\ usage.seen => "served" \in rows
                           /\ streaming => Billable \/ "failed" \in rows

\* What the coroutine has done, by where it stands.
StandsInv ==
  /\ charges \in {0, 1} /\ releases \in {0, 1, 2} /\ handle \in BOOLEAN
  /\ rows \subseteq {"served", "free", "estimated", "failed"}
  /\ ~handle => releases = 0
  /\ Metered
  /\ pc \in Unsettled =>
       charges = 0 /\ releases = 0 /\ rows = {} /\ mishaps = {} /\ answer = "none" /\ ~settled
  /\ pc = "start" => ~handle
  /\ pc \in Unanswered => ~usage.seen
  /\ pc \in {"calling", "logServed", "reconcile"} => ~streaming
  /\ pc = "reconcile" =>
       /\ charges = 0 /\ releases = 0 /\ mishaps = {} /\ ~settled
       /\ usage.seen => "served" \in rows
  /\ pc \in {"logFailed", "refund"} =>
       /\ ~settled /\ releases < 2
       /\ charges = 1 \/ releases > 0 => "database" \in mishaps
       /\ mishaps = {} => ~Billable
  /\ pc \in Streaming =>
       charges = 0 /\ releases = 0 /\ mishaps = {} /\ settled
  /\ pc \in {"logStream", "logStreamError"} => rows = {}
  /\ pc = "settleStream" => rows = {Service!StreamRow}
  /\ pc = "refundStreamError" => rows = {"failed"}
  /\ pc \in {"incompleteCancelled", "incomplete"} => charges = 0 /\ ~settled /\ rows = {} /\ answer = "gone"
  /\ pc = "incompleteCancelled" => releases = 0 /\ mishaps = {}
  /\ pc = "incomplete" => releases < 2 /\ (releases = 0 \/ "cancel" \in mishaps)
  /\ pc = "over" =>
       /\ answer = "served" => charges = 1 \/ (~usage.seen /\ policy = "allow_free") \/ mishaps # {}
       /\ answer = "error" /\ charges > 0 => "database" \in mishaps
       /\ handle /\ releases = 0 => mishaps # {}
       /\ releases = 2 => "cancel" \in mishaps \/ "database" \in mishaps
       /\ mishaps = {} /\ Billable => charges = 1

ServiceInv == pc \in Service!PCs /\ MeterInv /\ StandsInv

\* In hybrid mode nothing of it has happened.
ServiceIdle ==
  /\ ~handle /\ charges = 0 /\ releases = 0 /\ rows = {} /\ usage = Service!NoUsage /\ stated = {}

-----------------------------------------------------------------------------
(***************************************************************************)
(* The request in hybrid mode.                                             *)
(***************************************************************************)
Walking == {"start", "open", "attempt", "tools"}
Before  == Walking \cup {"unpulled", "flowing"}
Posts   == [attempt : Platform!Attempts, outcome : Platform!Outcomes, via : Platform!Vias,
            tries : Nat, waiting : BOOLEAN]

PlatformTypes ==
  /\ pc \in Before \cup {"flush", "over"}
  /\ n \in Nat /\ cur \in Nat /\ n <= MaxAttempts /\ cur <= n
  /\ pc \in Before \ {"start"} => cur > 0
  /\ pc = "start" => cur = 0
  /\ fate \in [Platform!Attempts -> Platform!Fates]
  /\ received \in [Platform!Attempts -> [Platform!Outcomes -> Nat]]
  /\ background \in Seq(Platform!Report) /\ inflight \subseteq Posts
  /\ pending \subseteq Platform!Attempts

\* Where the report of an outcome may be: queued for the background tasks, being
\* posted, recorded by the platform.
Queued(a, o) == \E i \in 1..Len(background) : background[i].attempt = a /\ background[i].outcome = o
Posted(a, o) == \E p \in inflight : p.attempt = a /\ p.outcome = o
Got(a, o)    == received[a][o] > 0
Sent(a, o)   == Queued(a, o) \/ Posted(a, o) \/ Got(a, o)

\* The attempts behind the current one have failed, and wait to be reported.
WalkInv ==
  /\ pc \in Before =>
       /\ inflight = {}
       /\ \A a \in Platform!Attempts, o \in Platform!Outcomes : received[a][o] = 0
       /\ \A a \in Platform!Attempts : fate[a] = IF a < cur THEN "failed" ELSE "untried"
       /\ Len(background) = IF cur = 0 THEN 0 ELSE cur - 1
       /\ \A i \in 1..Len(background) : background[i] = [attempt |-> i, outcome |-> "error"]
  /\ pc \in Walking => answer = "none" /\ \A a \in Platform!Attempts : a \in pending <=> a < cur
  /\ pc \in {"start", "open"} => ~backend /\ toolsRun = {} /\ lastError = "none"
  /\ pc = "open" => streaming /\ cur = 1
  /\ pc \in {"unpulled", "flowing"} => answer = "ok" /\ streaming

\* What is reported of an attempt, wherever the report is, is true.
ReportsTrue ==
  \A a \in Platform!Attempts :
    /\ Sent(a, "success") => fate[a] = "served" /\ pc = "over" /\ answer = "ok"
    /\ Sent(a, "error") => fate[a] \in {"failed", "broken"}

\* A report is in one place.
ReportsOnce ==
  /\ \A p \in inflight : \A q \in inflight : p.attempt = q.attempt => p = q
  /\ \A p \in inflight : \A i \in 1..Len(background) : background[i].attempt # p.attempt
  /\ \A i, j \in 1..Len(background) : background[i].attempt = background[j].attempt => i = j
  /\ "outage" \notin mishaps =>
       \A a \in Platform!Attempts : \A o \in Platform!Outcomes :
         received[a][o] <= 1 /\ (Got(a, o) => ~Queued(a, o) /\ ~Posted(a, o))

\* Without a mishap no report is lost, if any is sent.
ReportsThere ==
  MaxTries > 0 /\ mishaps = {} /\ pc \in {"flush", "over"} =>
    \A a \in Platform!Attempts :
      /\ fate[a] \in {"failed", "broken"} => Sent(a, "error")
      /\ fate[a] = "served" => Sent(a, "success")

ReportsInv == ReportsTrue /\ ReportsOnce /\ ReportsThere

\* How the walk went.
EndInv ==
  /\ ~streaming => ~backend
  /\ ~streaming /\ toolsRun # {} => locked
  /\ ~streaming => \A a \in toolsRun : a = cur
  /\ ~streaming /\ pc = "tools" => locked
  /\ pc = "over" /\ backend => fate[cur] = "left"
  /\ Platform!GaveUpForAReason

PlatformInv == PlatformTypes /\ WalkInv /\ ReportsInv /\ EndInv

\* Where a process runs standalone nothing of it has happened.
PlatformIdle ==
  /\ received = [a \in Platform!Attempts |-> [o \in Platform!Outcomes |-> 0]]
  /\ fate = [a \in Platform!Attempts |-> "untried"]
  /\ toolsRun = {} /\ lastError = "none" /\ ~backend

-----------------------------------------------------------------------------
(***************************************************************************)
(* The usage log.                                                          *)
(***************************************************************************)
\* A row is in one place: still on the queue, in a batch, in the last batch, or logged.
Places(q, b, l, g) ==
  /\ q \in Seq(Rows) /\ b \in Seq(Rows) /\ l \in Seq(Rows) /\ g \in Seq(Rows)
  /\ Once(q) /\ Once(b) /\ Once(l) /\ Once(g)
  /\ Apart(q, b) /\ Apart(q, l) /\ Apart(q, g) /\ Apart(b, l) /\ Apart(b, g) /\ Apart(l, g)

WriterInv ==
  /\ Places(queue, batch, last, Writer!Log)
  /\ puts \in Seq(Rows) /\ commits \in Seq(Seq(Rows))
  /\ \A x \in Rows : x \in ToSet(puts) <=> \/ x \in ToSet(queue) \/ x \in ToSet(batch) \/ x \in ToSet(last)
                                           \/ x \in ToSet(Writer!Log) \/ x \in failed
  /\ task # "flushing" => batch = <<>>
  /\ stop # "flushing" => last = <<>>
  /\ stop = "not called" \/ pc = "over"
  /\ stop \notin {"not called", "cancelling"} => task = "ended" /\ queue = <<>>

\* The rows the request puts are on their way with the others.
RowsInv == \A kind \in {"served", "free", "estimated", "failed"} : kind \in ToSet(puts) <=> kind \in rows

GatewayInv ==
  IF hybrid THEN /\ ServiceIdle /\ PlatformInv /\ answer # "served"
                 /\ puts = <<>> /\ commits = <<>> /\ stop = "not called"
            ELSE PlatformIdle /\ ServiceInv /\ WriterInv /\ RowsInv

-----------------------------------------------------------------------------
(***************************************************************************)
(* The steps of a standalone request.                                      *)
(***************************************************************************)

\* Steps that read no usage keep what was read.
LEMMA MeterKept == ASSUME MeterInv, UNCHANGED <<usage, stated, format>> PROVE MeterInv'
  BY DEF MeterInv

\* Up to the call upstream nothing is settled.
LEMMA StillUnsettled ==
  ASSUME ServiceInv, pc \in Unsettled, pc' \in (Unsettled \cup {"refund", "logFailed"}) \ {"start"},
         pc' \in {"calling", "logServed"} => ~streaming,
         UNCHANGED <<format, policy, streaming, settled, answer, releases, charges, rows, mishaps>>,
         handle' \in BOOLEAN, MeterInv', pc' \in Unanswered => ~usage'.seen
  PROVE  ServiceInv'
  <1>1. pc' \in Service!PCs
    BY DEF Unsettled, Service!PCs, Service!Setup, Service!Upstream, Service!Writes,
           Service!Settles, Service!Yields, Service!Pulls
  <1>2. charges = 0 /\ releases = 0 /\ rows = {} /\ mishaps = {} /\ answer = "none" /\ ~settled
    BY DEF ServiceInv, StandsInv
  <1>3. CASE pc' \in Unsettled
    BY <1>1, <1>2, <1>3
    DEF ServiceInv, StandsInv, Metered, Billable, Unsettled, Unanswered, Streaming, Service!Setup,
        Service!Upstream, Service!Yields
  <1>4. CASE pc' \in {"refund", "logFailed"}
    BY <1>1, <1>2, <1>4
    DEF ServiceInv, StandsInv, Metered, Billable, Unsettled, Unanswered, Streaming, Service!Setup,
        Service!Upstream, Service!Yields
  <1> QED BY <1>3, <1>4

\* An error response before anything was settled.
LEMMA EndsUnsettled ==
  ASSUME ServiceInv, pc \in Unsettled, pc' = "over", answer' \in {"error", "gone"},
         UNCHANGED <<format, policy, streaming, settled, usage, stated, handle, releases, charges, rows>>,
         ~handle \/ mishaps' # {}
  PROVE  ServiceInv'
  <1>1. charges = 0 /\ releases = 0 /\ rows = {} /\ ~settled /\ MeterInv'
    BY MeterKept DEF ServiceInv, StandsInv
  <1> QED BY <1>1
      DEF ServiceInv, StandsInv, Metered, Billable, Unsettled, Unanswered, Streaming, Service!PCs, Service!Setup,
          Service!Upstream, Service!Yields

LEMMA SetupSteps ==
  ASSUME ServiceInv,
         \/ Service!Reserve \/ Service!PricingGate \/ Service!NormalizeAndTopUp
         \/ Service!EnsureProviderSupportsResponses \/ Service!PrepareTools
         \/ Service!ChatCompletions \/ Service!CreateMessage \/ Service!CreateResponse
         \/ Service!OpenStream \/ Service!FirstPull
  PROVE  ServiceInv'
  <1> USE DEF Service!config, Service!meter, Service!Goto, Service!EndBy, Service!Plain
  <1> DEFINE Kept == UNCHANGED <<format, policy, streaming, settled, usage, stated, releases, charges, rows>>
             On(l) == pc' = l /\ Kept /\ UNCHANGED <<answer, mishaps>> /\ handle' \in BOOLEAN
             Off   == /\ pc' = "over" /\ answer' = "error" /\ Kept /\ handle' = handle
                      /\ ~handle \/ mishaps' # {}
  <1>1. /\ pc \in Unsettled /\ handle \in BOOLEAN /\ (pc = "start" => ~handle)
        /\ pc = "unpulled" \/ ~usage.seen
    <2>1. pc \in {"start", "pricing", "setup", "support", "tools", "dispatch", "opening", "unpulled"}
      BY DEF Service!Reserve, Service!PricingGate, Service!NormalizeAndTopUp,
             Service!EnsureProviderSupportsResponses, Service!PrepareTools, Service!ChatCompletions,
             Service!CreateMessage, Service!CreateResponse, Service!OpenStream, Service!FirstPull,
             Service!Dispatch
    <2> QED BY <2>1
        DEF ServiceInv, StandsInv, Unsettled, Unanswered, Service!Setup, Service!Upstream
  <1>2. ASSUME NEW l, On(l), l = "pulling" \/ ~usage.seen,
               l \in {"pricing", "setup", "refund", "support", "tools", "dispatch", "opening",
                      "unpulled", "pulling", "logFailed", "calling"},
               l = "calling" => ~streaming
        PROVE  ServiceInv'
    <2>1. MeterInv'
      BY <1>2, MeterKept DEF ServiceInv
    <2>2. pc' \in (Unsettled \cup {"refund", "logFailed"}) \ {"start"}
      BY <1>2 DEF Unsettled, Service!Setup, Service!Upstream
    <2>3. pc' \in Unanswered => ~usage'.seen
      BY <1>1, <1>2 DEF Unanswered, Service!Setup, Service!Upstream
    <2> QED BY <1>1, <1>2, <2>1, <2>2, <2>3, StillUnsettled
  <1>3. ASSUME Off PROVE ServiceInv'
    BY <1>1, <1>3, EndsUnsettled
  <1>4. CASE Service!Reserve
    <2>1. ~usage.seen /\ (Off \/ On("pricing"))
      BY <1>1, <1>4 DEF Service!Reserve
    <2> QED BY <1>2, <1>3, <2>1
  <1>5. CASE Service!PricingGate
    <2>1. ~usage.seen /\ (On("setup") \/ On("refund"))
      BY <1>1, <1>5 DEF Service!PricingGate
    <2> QED BY <1>2, <2>1
  <1>10. CASE Service!PrepareTools
    <2>1. ~usage.seen /\ (On("dispatch") \/ On("refund") \/ Off)
      BY <1>1, <1>10 DEF Service!PrepareTools
    <2> QED BY <1>2, <1>3, <2>1
  <1>6. CASE Service!NormalizeAndTopUp
    <2>1. ~usage.seen /\ (On("support") \/ On("tools") \/ On("refund"))
      BY <1>1, <1>6 DEF Service!NormalizeAndTopUp
    <2> QED BY <1>2, <2>1
  <1>7. CASE Service!EnsureProviderSupportsResponses
    <2>1. ~usage.seen /\ (On("tools") \/ On("refund") \/ Off)
      BY <1>1, <1>7 DEF Service!EnsureProviderSupportsResponses, Service!SelectorRaises
    <2> QED BY <1>2, <1>3, <2>1
  <1>8. ASSUME NEW f, Service!Dispatch(f) PROVE ServiceInv'
    <2>1. ~usage.seen /\ (On("opening") \/ (~streaming /\ On("calling")) \/ Off)
      BY <1>1, <1>8 DEF Service!Dispatch, Service!SelectorRaises
    <2> QED BY <1>2, <1>3, <2>1
  <1>9. CASE Service!OpenStream \/ Service!FirstPull
    <2>1. (~usage.seen /\ (On("unpulled") \/ On("refund") \/ On("logFailed"))) \/ On("pulling")
      BY <1>1, <1>9 DEF Service!OpenStream, Service!FirstPull
    <2> QED BY <1>2, <2>1
  <1> QED BY <1>4, <1>5, <1>6, <1>7, <1>8, <1>9, <1>10
      DEF Service!ChatCompletions, Service!CreateMessage, Service!CreateResponse

LEMMA CallProviderStep == ASSUME ServiceInv, Service!CallProvider PROVE ServiceInv'
  <1>1. /\ pc \in Unsettled /\ ~streaming /\ MeterInv /\ handle \in BOOLEAN /\ ~usage.seen
        /\ charges = 0 /\ releases = 0 /\ rows = {} /\ mishaps = {} /\ ~settled
    BY DEF ServiceInv, StandsInv, Unsettled, Unanswered, Service!Upstream, Service!CallProvider
  <1>2. /\ pc' \in {"logServed", "reconcile", "refund", "logFailed"}
        /\ UNCHANGED <<format, policy, streaming, handle, settled, chunks, answer, releases,
                       charges, rows, mishaps>>
        /\ pc' = "reconcile" => UNCHANGED <<usage, stated>> /\ format = "messages"
    BY DEF Service!CallProvider, Service!Goto, Service!config, Service!meter,
           Service!LogSuccessWithoutUsage
  <1>3. MeterInv'
    <2>1. CASE UNCHANGED <<usage, stated>>
      BY <1>1, <1>2, <2>1, MeterKept
    <2>2. ASSUME NEW counts \in {{"input", "output"}, Service!Counts},
                 usage' = Service!Usage(counts), stated' = counts
          PROVE  MeterInv'
      <3>1. counts \subseteq Service!Counts
        BY DEF Service!Counts
      <3> QED BY <1>1, <1>2, <2>2, <3>1 DEF MeterInv, Service!Usage
    <2> QED BY <2>1, <2>2 DEF Service!CallProvider, Service!meter
  <1>4. CASE pc' # "reconcile"
    <2>1. pc' \in (Unsettled \cup {"refund", "logFailed"}) \ {"start"}
      BY <1>2, <1>4 DEF Unsettled
    <2>2. pc' \notin Unanswered
      BY <1>2 DEF Unanswered, Service!Setup, Service!Upstream
    <2> QED BY <2>2, <1>1, <1>2, <1>3, <2>1, StillUnsettled
  <1>5. CASE pc' = "reconcile"
    <2> QED BY <1>1, <1>2, <1>3, <1>5
        DEF ServiceInv, StandsInv, Metered, Billable, Unsettled, Unanswered, Streaming, Service!PCs,
            Service!Setup, Service!Upstream, Service!Yields, Service!Settles
  <1> QED BY <1>4, <1>5

\* A response that was received: its row first, its charge after it.
LEMMA ServedSteps ==
  ASSUME ServiceInv, Service!LogServed \/ Service!ReconcileCall PROVE ServiceInv'
  <1> USE DEF Service!config, Service!meter, Service!Goto, Service!PutRow, Service!Settle,
              Service!Reconciled, Service!NotSettled
  <1>1. CASE Service!LogServed
    <2>1. /\ pc = "logServed" /\ charges = 0 /\ releases = 0 /\ rows = {} /\ mishaps = {} /\ ~settled
          /\ answer = "none" /\ ~streaming /\ handle \in BOOLEAN
      BY <1>1 DEF Service!LogServed, ServiceInv, StandsInv, Unsettled
    <2>2. /\ UNCHANGED <<format, policy, streaming, handle, settled, usage, stated, answer, releases, charges>>
          /\ \/ pc' = "reconcile" /\ rows' = {"served"} /\ mishaps' = {}
             \/ pc' = "logFailed" /\ rows' = {} /\ mishaps' = {"log"}
      BY <1>1, <2>1 DEF Service!LogServed
    <2>3. MeterInv'
      BY <2>2, MeterKept DEF ServiceInv
    <2> QED BY <2>1, <2>2, <2>3
        DEF ServiceInv, StandsInv, Metered, Billable, Unsettled, Unanswered, Streaming, Service!PCs,
          Service!Setup, Service!Upstream, Service!Yields, Service!Settles, Service!Writes
  <1>2. CASE Service!ReconcileCall
    <2>1. /\ pc = "reconcile" /\ charges = 0 /\ releases = 0 /\ mishaps = {} /\ ~settled
          /\ usage.seen => "served" \in rows
          /\ rows \subseteq {"served", "free", "estimated", "failed"}
          /\ ~streaming /\ handle \in BOOLEAN
      BY <1>2 DEF Service!ReconcileCall, ServiceInv, StandsInv
    <2>2. /\ UNCHANGED <<format, policy, streaming, handle, settled, usage, stated, rows>>
          /\ \/ pc' = "over" /\ answer' = "served" /\ mishaps' = {} /\ charges' = 1
             \/ pc' = "logFailed" /\ mishaps' = {"database"} /\ charges' \in {0, 1}
          /\ releases' = IF charges' = 1 /\ handle THEN 1 ELSE 0
      BY <1>2, <2>1 DEF Service!ReconcileCall
    <2>3. MeterInv'
      BY <2>2, MeterKept DEF ServiceInv
    <2> QED BY <2>1, <2>2, <2>3
        DEF ServiceInv, StandsInv, Metered, Billable, Unsettled, Unanswered, Streaming, Service!PCs,
          Service!Setup, Service!Upstream, Service!Yields, Service!Settles, Service!Writes
  <1> QED BY <1>1, <1>2

\* A failure: its row first, the refund after it.
LEMMA FailedSteps ==
  ASSUME ServiceInv, Service!LogFailed \/ Service!RefundCall PROVE ServiceInv'
  <1> USE DEF Service!config, Service!meter, Service!Goto, Service!PutRow, Service!Settle,
              Service!Refunded, Service!NotSettled
  <1>1. /\ pc \in {"logFailed", "refund"} /\ ~settled /\ releases \in {0, 1} /\ charges \in {0, 1}
        /\ charges = 1 \/ releases > 0 => "database" \in mishaps
        /\ mishaps = {} => ~Billable
        /\ rows \subseteq {"served", "free", "estimated", "failed"} /\ Metered
        /\ handle \in BOOLEAN /\ (~handle => releases = 0)
    BY DEF Service!LogFailed, Service!RefundCall, ServiceInv, StandsInv
  <1>2. UNCHANGED <<format, policy, streaming, handle, settled, usage, stated, charges>>
    BY DEF Service!LogFailed, Service!RefundCall
  <1>3. MeterInv'
    BY <1>2, MeterKept DEF ServiceInv
  <1>4. CASE Service!LogFailed
    <2>1. /\ UNCHANGED releases
          /\ \/ /\ pc' = "refund" /\ rows' = rows \cup {"failed"}
                /\ UNCHANGED <<mishaps, answer>>
             \/ /\ pc' = "over" /\ UNCHANGED rows /\ mishaps' = mishaps \cup {"log"}
                /\ answer' = "error"
      BY <1>4 DEF Service!LogFailed
    <2>2. Metered' /\ (Billable' <=> Billable)
      BY <1>1, <1>2, <2>1 DEF Metered, Billable
    <2>3. rows' \subseteq {"served", "free", "estimated", "failed"}
      BY <1>1, <2>1
    <2>4. CASE pc' = "refund"
      BY <1>1, <1>2, <1>3, <2>1, <2>2, <2>3, <2>4
      DEF ServiceInv, StandsInv, Metered, Billable, Unsettled, Unanswered, Streaming, Service!PCs,
          Service!Setup, Service!Upstream, Service!Yields, Service!Settles, Service!Writes
    <2>5. CASE pc' = "over"
      BY <1>1, <1>2, <1>3, <2>1, <2>2, <2>3, <2>5
      DEF ServiceInv, StandsInv, Metered, Billable, Unsettled, Unanswered, Streaming, Service!PCs,
          Service!Setup, Service!Upstream, Service!Yields, Service!Settles, Service!Writes
    <2> QED BY <2>1, <2>4, <2>5
  <1>5. CASE Service!RefundCall
    <2>1. /\ pc' = "over" /\ answer' = "error" /\ UNCHANGED rows
          /\ \/ mishaps' = mishaps /\ releases' = IF handle THEN releases + 1 ELSE releases
             \/ mishaps' = mishaps \cup {"database"} /\ releases' \in {releases, IF handle THEN releases + 1 ELSE releases}
      BY <1>5 DEF Service!RefundCall
    <2>2. Metered' /\ (Billable' <=> Billable)
      BY <1>1, <1>2, <2>1 DEF Metered, Billable
    <2>3. /\ releases' \in {0, 1, 2} /\ (~handle => releases' = 0)
          /\ handle /\ releases' = 0 => mishaps' # {}
          /\ releases' = 2 => "database" \in mishaps'
          /\ charges' = 1 => "database" \in mishaps'
          /\ mishaps' = {} => mishaps = {}
      BY <1>1, <1>2, <2>1
    <2> QED BY <1>1, <1>2, <1>3, <2>1, <2>2, <2>3
        DEF ServiceInv, StandsInv, Metered, Billable, Unsettled, Unanswered, Streaming, Service!PCs,
          Service!Setup, Service!Upstream, Service!Yields, Service!Settles, Service!Writes
  <1> QED BY <1>4, <1>5

\* What a chunk carries is in the usage afterwards, and nothing else.
LEMMA PullStep == ASSUME ServiceInv, Service!Pull PROVE ServiceInv'
  <1>1. /\ pc = "pulling" /\ pc \in Unsettled /\ MeterInv /\ handle \in BOOLEAN
    BY DEF ServiceInv, StandsInv, Unsettled, Service!Pull
  <1>2. /\ pc' \in {"yielded", "yieldDone", "yieldError"}
        /\ UNCHANGED <<format, policy, streaming, handle, settled, answer, releases, charges, rows, mishaps>>
    BY DEF Service!Pull, Service!Goto, Service!config
  <1>3. MeterInv'
    <2>1. CASE UNCHANGED <<usage, stated>>
      BY <1>1, <1>2, <2>1, MeterKept
    <2>2. ASSUME NEW kind \in Service!Kinds, NEW counts \in Service!Carried(kind),
                 usage' = Service!MergeUsage(usage, Service!ExtractStreamUsage(kind, counts)),
                 stated' = stated \cup counts
          PROVE  MeterInv'
      <3>1. counts \subseteq Service!Counts
        BY DEF Service!Kinds, Service!Carried, Service!Counts
      <3>2. CASE format = "messages"
        <4> DEFINE v == Service!MessagesStreamUsage(kind, counts)
        <4>1. usage' = Service!MergeUsage(usage, v)
          BY <2>2, <3>2 DEF Service!ExtractStreamUsage
        <4>2. counts = {} \/ v = Service!Usage(counts)
          <5>1. kind = "text" => counts = {}
            BY DEF Service!Carried
          <5>2. kind \in {"start", "text", "delta"}
            BY <3>2 DEF Service!Kinds
          <5> QED BY <5>1, <5>2 DEF Service!MessagesStreamUsage
        <4>3. v = Service!NoUsage \/ v = Service!Usage(counts)
          BY DEF Service!MessagesStreamUsage
        <4> HIDE DEF v
        <4>4. CASE v = Service!NoUsage /\ counts = {}
          BY <1>1, <1>2, <2>2, <3>2, <4>1, <4>4 DEF MeterInv, Service!MergeUsage, Service!NoUsage
        <4>5. CASE v = Service!Usage(counts)
          <5>1. /\ v.seen /\ v.counts = counts /\ v.total = counts \ {"cached"}
            BY <4>5 DEF Service!Usage
          <5>2. usage' = [seen |-> TRUE, counts |-> usage.counts \cup counts,
                          total |-> IF v.total = {} THEN usage.total ELSE v.total]
            BY <4>1, <5>1 DEF Service!MergeUsage
          <5>3. /\ usage.counts = stated /\ usage.total \subseteq stated
                /\ stated \subseteq Service!Counts
            BY <1>1, <3>2 DEF MeterInv
          <5>4. /\ usage'.counts = stated' /\ usage'.total \subseteq stated'
                /\ usage' \in [seen : BOOLEAN, counts : SUBSET Service!Counts, total : SUBSET Service!Counts]
            BY <2>2, <3>1, <5>1, <5>2, <5>3
          <5> QED BY <1>1, <1>2, <3>2, <5>4 DEF MeterInv
        <4> QED BY <4>2, <4>3, <4>4, <4>5
      <3>3. CASE format # "messages"
        <4>0. format \in {"chat", "responses"}
          BY <1>1, <3>3, GatewayAssumption DEF MeterInv
        <4>1. counts \in {{}, {"input", "output"}, Service!Counts}
          BY <3>3 DEF Service!Kinds, Service!Carried
        <4>2. CASE counts = {}
          <5>1. usage' = usage
            BY <2>2, <4>0, <4>2, <1>1
            DEF Service!ExtractStreamUsage, Service!ChatUsage, Service!ResponseUsage,
                Service!MergeUsage, Service!NoUsage, MeterInv, ServiceInv
          <5> QED BY <1>1, <1>2, <2>2, <4>2, <5>1 DEF MeterInv
        <4>3. CASE counts # {}
          <5> DEFINE v == Service!Usage(counts)
          <5>1. usage' = Service!MergeUsage(usage, v)
            BY <2>2, <4>0, <4>3 DEF Service!ExtractStreamUsage, Service!ChatUsage, Service!ResponseUsage
          <5>2. /\ v.seen /\ v.counts = counts /\ v.total = counts \ {"cached"}
            BY DEF Service!Usage
          <5>3. v.total = {"input", "output"}
            BY <4>1, <4>3, <5>2 DEF Service!Counts
          <5> HIDE DEF v
          <5>4. usage' = [seen |-> TRUE, counts |-> usage.counts \cup counts, total |-> {"input", "output"}]
            BY <5>1, <5>2, <5>3 DEF Service!MergeUsage
          <5>5. /\ usage.counts = stated /\ stated \in {{}, {"input", "output"}, Service!Counts}
            BY <1>1, <3>3 DEF MeterInv
          <5>6. /\ stated' \in {{"input", "output"}, Service!Counts}
                /\ stated' \ {"cached"} = {"input", "output"}
            BY <2>2, <4>1, <4>3, <5>5 DEF Service!Counts
          <5>7. /\ usage'.counts = stated' /\ usage'.total = stated' \ {"cached"}
                /\ usage' \in [seen : BOOLEAN, counts : SUBSET Service!Counts, total : SUBSET Service!Counts]
            BY <2>2, <5>4, <5>5, <5>6, <3>1 DEF Service!Counts
          <5> QED BY <1>1, <1>2, <3>3, <5>6, <5>7 DEF MeterInv
        <4> QED BY <4>2, <4>3
      <3> QED BY <3>2, <3>3
    <2> QED BY <2>1, <2>2 DEF Service!Pull, Service!meter
  <1>4. pc' \in (Unsettled \cup {"refund", "logFailed"}) \ {"start"} /\ pc' \notin Unanswered
    BY <1>2 DEF Unsettled, Unanswered, Service!Setup, Service!Upstream, Service!Yields
  <1> QED BY <1>1, <1>2, <1>3, <1>4, StillUnsettled

\* The client takes what was yielded; the stream is over for the callbacks.
LEMMA ResumeStep == ASSUME ServiceInv, Service!ResumeStream PROVE ServiceInv'
  <1>1. /\ pc \in Unsettled /\ pc \notin Unanswered /\ pc # "logServed" /\ handle \in BOOLEAN
        /\ charges = 0 /\ releases = 0 /\ rows = {} /\ mishaps = {} /\ answer = "none" /\ ~settled
    BY DEF ServiceInv, StandsInv, Unsettled, Unanswered, Service!Setup, Service!Upstream,
           Service!Yields, Service!ResumeStream, Service!Resume, Service!YieldDoneOnError
  <1>2. /\ UNCHANGED <<format, policy, streaming, handle, usage, stated, answer, releases, charges, rows, mishaps>>
        /\ \/ pc' \in {"pulling", "yieldErrorDone"} /\ settled' = settled
           \/ pc' \in {"logStream", "logStreamError"} /\ settled' = TRUE
    BY DEF Service!ResumeStream, Service!Resume, Service!Goto, Service!config, Service!meter
  <1>3. MeterInv'
    BY <1>2, MeterKept DEF ServiceInv
  <1>4. CASE settled' = settled /\ pc' \in {"pulling", "yieldErrorDone"}
    <2>1. pc' \in (Unsettled \cup {"refund", "logFailed"}) \ {"start"} /\ pc' \notin Unanswered
      BY <1>4 DEF Unsettled, Unanswered, Service!Setup, Service!Upstream, Service!Yields
    <2>2. pc' \notin {"calling", "logServed"}
      BY <1>4
    <2> QED BY <1>1, <1>2, <1>3, <1>4, <2>1, <2>2, StillUnsettled
  <1>5. CASE settled' = TRUE /\ pc' \in {"logStream", "logStreamError"}
    BY <1>1, <1>2, <1>3, <1>5
    DEF ServiceInv, StandsInv, Metered, Billable, Unsettled, Unanswered, Streaming, Service!PCs,
          Service!Setup, Service!Upstream, Service!Yields, Service!Settles, Service!Writes,
          Service!Pulls
  <1> QED BY <1>2, <1>4, <1>5

\* The callbacks of a stream that ended: the row, then the settlement.
LEMMA StreamLogSteps ==
  ASSUME ServiceInv, Service!LogStream \/ Service!LogStreamError PROVE ServiceInv'
  <1>1. /\ charges = 0 /\ releases = 0 /\ rows = {} /\ mishaps = {} /\ settled /\ handle \in BOOLEAN
        /\ pc \in Streaming
    BY DEF Service!LogStream, Service!LogStreamError, ServiceInv, StandsInv, Streaming
  <1>2. UNCHANGED <<format, policy, streaming, handle, settled, usage, stated, charges, releases>>
    BY DEF Service!LogStream, Service!LogStreamError, Service!config, Service!meter
  <1>3. MeterInv'
    BY <1>2, MeterKept DEF ServiceInv
  <1>4. Service!StreamRow' = Service!StreamRow /\ Service!StreamRow \in {"served", "free", "estimated", "failed"}
    BY <1>2 DEF Service!StreamRow
  <1>5. \/ pc' = "settleStream" /\ rows' = {Service!StreamRow} /\ mishaps' = {}
        \/ pc' = "refundStreamError" /\ rows' = {"failed"} /\ mishaps' = {}
        \/ pc' = "over" /\ rows' = {} /\ mishaps' = {"log"} /\ answer' \in {"served", "error"}
    BY <1>1
    DEF Service!LogStream, Service!LogStreamError, Service!PutRow, Service!Goto, Service!Finally
  <1>6. CASE pc' = "settleStream" /\ rows' = {Service!StreamRow} /\ mishaps' = {}
    BY <1>1, <1>2, <1>3, <1>4, <1>6
    DEF ServiceInv, StandsInv, Metered, Billable, Unsettled, Unanswered, Streaming, Service!PCs,
          Service!Setup, Service!Upstream, Service!Yields, Service!Settles, Service!Writes,
          Service!Pulls
  <1>7. CASE pc' = "refundStreamError" /\ rows' = {"failed"} /\ mishaps' = {}
    BY <1>1, <1>2, <1>3, <1>7
    DEF ServiceInv, StandsInv, Metered, Billable, Unsettled, Unanswered, Streaming, Service!PCs,
          Service!Setup, Service!Upstream, Service!Yields, Service!Settles, Service!Writes,
          Service!Pulls
  <1>8. CASE pc' = "over" /\ rows' = {} /\ mishaps' = {"log"} /\ answer' \in {"served", "error"}
    BY <1>1, <1>2, <1>3, <1>8
    DEF ServiceInv, StandsInv, Metered, Billable, Unsettled, Unanswered, Streaming, Service!PCs,
          Service!Setup, Service!Upstream, Service!Yields, Service!Settles, Service!Writes,
          Service!Pulls
  <1> QED BY <1>5, <1>6, <1>7, <1>8

\* What a stream's row says and what its settlement does.
LEMMA RowAndCharge ==
  ASSUME ServiceInv, pc = "settleStream"
  PROVE  /\ usage.seen => rows = {"served"}
         /\ ~usage.seen /\ policy = "allow_free" => ~Billable
         /\ usage.seen \/ policy # "allow_free" => Billable \/ "failed" \in rows
  <1>1. rows = {Service!StreamRow}
    BY DEF ServiceInv, StandsInv
  <1> QED BY <1>1 DEF Service!StreamRow, Billable

LEMMA StreamSettleSteps ==
  ASSUME ServiceInv, Service!SettleStream \/ Service!RefundStreamError PROVE ServiceInv'
  <1>1. /\ charges = 0 /\ releases = 0 /\ mishaps = {} /\ settled /\ handle \in BOOLEAN
        /\ rows \subseteq {"served", "free", "estimated", "failed"}
    BY DEF Service!SettleStream, Service!RefundStreamError, ServiceInv, StandsInv, Streaming
  <1>2. UNCHANGED <<format, policy, streaming, handle, settled, usage, stated, rows>>
    BY DEF Service!SettleStream, Service!RefundStreamError, Service!config, Service!meter
  <1>3. MeterInv'
    BY <1>2, MeterKept DEF ServiceInv
  <1>4. CASE Service!SettleStream
    <2>1. /\ pc = "settleStream" /\ pc' = "over" /\ answer' = "served"
          /\ mishaps' \in {{}, {"database"}}
          /\ \/ /\ charges' = 1 /\ releases' = IF handle THEN 1 ELSE 0
                /\ usage.seen \/ policy # "allow_free"
             \/ /\ charges' = 0 /\ releases' = IF handle THEN 1 ELSE 0
                /\ ~usage.seen /\ policy = "allow_free"
             \/ charges' = 0 /\ releases' = 0 /\ mishaps' = {"database"}
      BY <1>1, <1>4
      DEF Service!SettleStream, Service!Settle, Service!StreamSettlement, Service!Reconciled,
          Service!Refunded, Service!NotSettled, Service!Goto, Service!Finally
    <2>2. Metered' /\ (Billable' <=> Billable)
      BY <1>2, <2>1, RowAndCharge DEF Metered, Billable
    <2> QED BY <1>1, <1>2, <1>3, <2>1, <2>2, RowAndCharge
        DEF ServiceInv, StandsInv, Metered, Billable, Unsettled, Unanswered, Streaming, Service!PCs,
          Service!Setup, Service!Upstream, Service!Yields, Service!Settles, Service!Writes,
          Service!Pulls
  <1>5. CASE Service!RefundStreamError
    <2>1. /\ pc = "refundStreamError" /\ pc' = "over" /\ answer' = "error" /\ charges' = 0
          /\ \/ mishaps' = {} /\ releases' = IF handle THEN 1 ELSE 0
             \/ mishaps' = {"database"} /\ releases' \in {0, IF handle THEN 1 ELSE 0}
      BY <1>1, <1>5
      DEF Service!RefundStreamError, Service!Settle, Service!Refunded, Service!NotSettled,
          Service!Goto, Service!Finally
    <2>2. rows = {"failed"} /\ ~Billable'
      BY <1>2, <2>1 DEF ServiceInv, StandsInv, Billable
    <2> QED BY <1>1, <1>2, <1>3, <2>1, <2>2
        DEF ServiceInv, StandsInv, Metered, Billable, Unsettled, Unanswered, Streaming, Service!PCs,
          Service!Setup, Service!Upstream, Service!Yields, Service!Settles, Service!Writes,
          Service!Pulls
  <1> QED BY <1>4, <1>5
\* The client goes, or the task is cancelled.
LEMMA LeaveSteps ==
  ASSUME ServiceInv, Service!Disconnect \/ Service!Abandon PROVE ServiceInv'
  <1> USE DEF Service!config, Service!meter, Service!Goto, Service!EndBy
  <1>1. /\ pc \in Unsettled /\ handle \in BOOLEAN
        /\ charges = 0 /\ releases = 0 /\ rows = {} /\ mishaps = {} /\ ~settled
    BY DEF ServiceInv, StandsInv, Unsettled, Service!Yields, Service!Disconnect, Service!Abandon
  <1>2. CASE Service!Disconnect
    <2>1. /\ pc' \in {"incomplete", "incompleteCancelled"} /\ answer' = "gone"
          /\ UNCHANGED <<format, policy, streaming, handle, settled, usage, stated, releases,
                         charges, rows, mishaps>>
      BY <1>2 DEF Service!Disconnect
    <2>2. MeterInv'
      BY <2>1, MeterKept DEF ServiceInv
    <2> QED BY <1>1, <2>1, <2>2
        DEF ServiceInv, StandsInv, Metered, Billable, Unsettled, Unanswered, Streaming, Service!PCs,
            Service!Setup, Service!Upstream, Service!Yields, Service!Settles, Service!Writes,
            Service!Pulls
  <1>3. CASE Service!Abandon
    BY <1>1, <1>3, EndsUnsettled DEF Service!Abandon
  <1> QED BY <1>2, <1>3

\* The generator's own refund when it is left before it settled.
LEMMA IncompleteSteps ==
  ASSUME ServiceInv, Service!IncompleteCancelled \/ Service!Incomplete PROVE ServiceInv'
  <1>1. /\ charges = 0 /\ rows = {} /\ answer = "gone" /\ handle \in BOOLEAN
        /\ releases \in {0, 1} /\ (releases = 1 => "cancel" \in mishaps)
        /\ ~handle => releases = 0
    BY DEF ServiceInv, StandsInv, Service!IncompleteCancelled, Service!Incomplete
  <1>2. UNCHANGED <<format, policy, streaming, handle, usage, stated, answer, rows>>
    BY DEF Service!IncompleteCancelled, Service!Incomplete, Service!config, Service!meter
  <1>3. /\ pc' = "over" /\ charges' = 0
        /\ releases' \in {releases, IF handle THEN releases + 1 ELSE releases}
        /\ mishaps \subseteq mishaps'
        /\ mishaps' = {} => releases' = IF handle THEN releases + 1 ELSE releases
    BY <1>1
    DEF Service!IncompleteCancelled, Service!Incomplete, Service!Settle, Service!Refunded,
        Service!NotSettled, Service!Goto
  <1>4. /\ releases' \in {0, 1, 2} /\ (~handle => releases' = 0)
        /\ handle /\ releases' = 0 => mishaps' # {}
        /\ releases' = 2 => "cancel" \in mishaps'
    BY <1>1, <1>3
  <1>5. MeterInv'
    BY <1>2, MeterKept DEF ServiceInv
  <1> QED BY <1>1, <1>2, <1>3, <1>4, <1>5
      DEF ServiceInv, StandsInv, Metered, Billable, Unsettled, Unanswered, Streaming, Service!PCs,
          Service!Setup, Service!Upstream, Service!Yields

LEMMA CancelStep == ASSUME ServiceInv, Service!Cancel PROVE ServiceInv'
  <1> USE DEF Service!config, Service!meter, Service!Goto, Service!NotSettled
  <1>1. /\ UNCHANGED <<format, policy, streaming, handle, settled, usage, stated, rows>>
        /\ answer' = "gone" /\ "cancel" \in mishaps'
    BY DEF Service!Cancel
  <1>2. MeterInv'
    BY <1>1, MeterKept DEF ServiceInv
  <1>3. /\ charges \in {0, 1} /\ releases \in {0, 1, 2} /\ handle \in BOOLEAN /\ Metered
        /\ rows \subseteq {"served", "free", "estimated", "failed"} /\ (~handle => releases = 0)
    BY DEF ServiceInv, StandsInv
  <1>4. ASSUME pc' = "over", charges' \in {0, 1}, releases' \in {0, 1, 2},
               ~handle => releases' = 0, Metered'
        PROVE  ServiceInv'
    BY <1>1, <1>2, <1>3, <1>4
    DEF ServiceInv, StandsInv, Billable, Unsettled, Unanswered, Streaming, Service!PCs,
        Service!Setup, Service!Upstream, Service!Yields
  <1>5. CASE UNCHANGED <<charges, releases>> /\ pc' = "over"
    <2>1. Metered'
      BY <1>1, <1>3, <1>5 DEF Metered, Billable
    <2> QED BY <1>3, <1>4, <1>5, <2>1
  <1>6. CASE pc = "reconcile" /\ Service!Reconciled
    <2>1. /\ charges = 0 /\ releases = 0 /\ ~streaming /\ (usage.seen => "served" \in rows)
      BY <1>6 DEF ServiceInv, StandsInv
    <2>2. pc' = "over" /\ charges' = 1 /\ releases' \in {0, 1} /\ (~handle => releases' = 0)
      BY <1>6, <2>1 DEF Service!Reconciled, Service!Cancel
    <2>3. Metered'
      BY <1>1, <2>1 DEF Metered
    <2> QED BY <1>4, <2>2, <2>3
  <1>7. CASE pc = "settleStream" /\ Service!StreamSettlement
    <2>1. /\ charges = 0 /\ releases = 0 /\ settled
      BY <1>7 DEF ServiceInv, StandsInv, Streaming
    <2>2. /\ pc' = "over" /\ charges' \in {0, 1} /\ releases' \in {0, 1} /\ (~handle => releases' = 0)
          /\ charges' = 1 => usage.seen \/ policy # "allow_free"
      BY <1>7, <2>1
      DEF Service!StreamSettlement, Service!Reconciled, Service!Refunded, Service!Cancel, Service!Finally
    <2>3. Metered'
      BY <1>1, <1>7, <2>2, RowAndCharge DEF Metered, Billable
    <2> QED BY <1>4, <2>2, <2>3
  <1>8. CASE pc \in {"refund", "refundStreamError", "incomplete"} /\ Service!Refunded
    <2>1. releases \in {0, 1}
      BY <1>8 DEF ServiceInv, StandsInv, Streaming
    <2>2. pc = "refundStreamError" => settled
      BY DEF ServiceInv, StandsInv, Streaming
    <2>3. /\ pc' = "over" /\ charges' = charges /\ releases' \in {0, 1, 2} /\ (~handle => releases' = 0)
      BY <1>3, <1>8, <2>1, <2>2 DEF Service!Refunded, Service!Cancel, Service!Finally
    <2>4. Metered'
      BY <1>1, <1>3, <2>3 DEF Metered, Billable
    <2> QED BY <1>3, <1>4, <2>3, <2>4
  <1>9. CASE pc = "incompleteCancelled"
    <2>1. charges = 0 /\ releases = 0 /\ rows = {} /\ ~settled
      BY <1>9 DEF ServiceInv, StandsInv
    <2>2. pc' = "incomplete" /\ charges' = 0 /\ releases' \in {0, 1} /\ (~handle => releases' = 0)
      BY <1>9, <2>1 DEF Service!Cancel, Service!Finally, Service!Refunded
    <2> QED BY <1>1, <1>2, <1>3, <2>1, <2>2
        DEF ServiceInv, StandsInv, Metered, Billable, Unsettled, Unanswered, Streaming, Service!PCs,
            Service!Setup, Service!Upstream, Service!Yields, Service!Pulls
  <1>10. CASE UNCHANGED <<charges, releases>> /\ pc # "incompleteCancelled"
    <2>1. pc \in Streaming => settled
      BY DEF ServiceInv, StandsInv
    <2>2. pc' = "over"
      BY <1>10, <2>1 DEF Service!Cancel, Service!Finally, Streaming
    <2> QED BY <1>5, <1>10, <2>2
  <1> QED BY <1>6, <1>7, <1>8, <1>9, <1>10 DEF Service!Cancel

LEMMA ServiceStep == ASSUME ServiceInv, Service!Next PROVE ServiceInv'
  BY SetupSteps, CallProviderStep, ServedSteps, FailedSteps, PullStep, ResumeStep, StreamLogSteps,
     StreamSettleSteps, LeaveSteps, IncompleteSteps, CancelStep
  DEF Service!Next, Service!Handler, Service!Environment

\* A step puts one row or none.
LEMMA RowStep ==
  ASSUME Service!Next
  PROVE  rows' = rows \/ \E kind \in {"served", "free", "estimated", "failed"} : rows' = rows \cup {kind}
  <1>1. CASE Service!Reserve \/ Service!PricingGate \/ Service!NormalizeAndTopUp
             \/ Service!EnsureProviderSupportsResponses \/ Service!PrepareTools
             \/ Service!ChatCompletions \/ Service!CreateMessage \/ Service!CreateResponse
             \/ Service!CallProvider \/ Service!ReconcileCall \/ Service!RefundCall
             \/ Service!OpenStream \/ Service!FirstPull \/ Service!Pull \/ Service!ResumeStream
             \/ Service!SettleStream \/ Service!RefundStreamError
             \/ Service!IncompleteCancelled \/ Service!Incomplete \/ Service!Environment
    BY <1>1
    DEF Service!Reserve, Service!PricingGate, Service!NormalizeAndTopUp, Service!Plain,
        Service!EnsureProviderSupportsResponses, Service!PrepareTools, Service!ChatCompletions,
        Service!CreateMessage, Service!CreateResponse, Service!Dispatch, Service!CallProvider,
        Service!ReconcileCall, Service!RefundCall, Service!OpenStream, Service!FirstPull,
        Service!Pull, Service!ResumeStream, Service!SettleStream, Service!RefundStreamError,
        Service!IncompleteCancelled, Service!Incomplete, Service!Environment, Service!Disconnect,
        Service!Abandon, Service!Cancel
  <1>2. CASE Service!LogServed \/ Service!LogFailed \/ Service!LogStream \/ Service!LogStreamError
    BY <1>2
    DEF Service!LogServed, Service!LogFailed, Service!LogStream, Service!LogStreamError,
        Service!PutRow, Service!StreamRow
  <1> QED BY <1>1, <1>2 DEF Service!Next, Service!Handler

\* A response that is over takes no step.
LEMMA OverIsOver == ASSUME Service!Next PROVE pc # "over"
  BY DEF Service!Next, Service!Handler, Service!Environment, Service!Reserve, Service!PricingGate,
         Service!NormalizeAndTopUp,
         Service!EnsureProviderSupportsResponses, Service!PrepareTools, Service!ChatCompletions,
         Service!CreateMessage, Service!CreateResponse, Service!Dispatch, Service!CallProvider,
         Service!LogServed, Service!ReconcileCall, Service!LogFailed, Service!RefundCall,
         Service!OpenStream, Service!FirstPull, Service!Pull, Service!ResumeStream, Service!Resume,
         Service!YieldDoneOnError, Service!LogStream, Service!SettleStream, Service!LogStreamError,
         Service!RefundStreamError, Service!IncompleteCancelled, Service!Incomplete,
         Service!Disconnect, Service!Abandon, Service!Cancel, Service!Yields, Service!Setup,
         Service!Upstream, Service!Writes, Service!Settles
-----------------------------------------------------------------------------
(***************************************************************************)
(* The steps of the usage log.                                             *)
(***************************************************************************)

\* A batch, the background task's or the last one, is committed.
LEMMA PlacesCommit ==
  ASSUME NEW q, NEW b, NEW l, NEW g, Places(q, b, l, g)
  PROVE  /\ Places(q, <<>>, l, g \o b) /\ Places(q, b, <<>>, g \o l)
         /\ Places(q, <<>>, l, g) /\ Places(q, b, <<>>, g)
         /\ \A x : x \in ToSet(g \o b) <=> x \in ToSet(g) \/ x \in ToSet(b)
         /\ \A x : x \in ToSet(g \o l) <=> x \in ToSet(g) \/ x \in ToSet(l)
  <1>1. Apart(g, b) /\ Apart(g, l)
    BY DEF Places, Apart
  <1>2. /\ g \o b \in Seq(Rows) /\ Once(g \o b)
        /\ \A x : x \in ToSet(g \o b) <=> x \in ToSet(g) \/ x \in ToSet(b)
    BY <1>1, ConcatOnce DEF Places
  <1>3. /\ g \o l \in Seq(Rows) /\ Once(g \o l)
        /\ \A x : x \in ToSet(g \o l) <=> x \in ToSet(g) \/ x \in ToSet(l)
    BY <1>1, ConcatOnce DEF Places
  <1>4. <<>> \in Seq(Rows) /\ Once(<<>>) /\ \A x : x \notin ToSet(<<>>)
    BY EmptyOnce, EmptySeq
  <1> QED BY <1>2, <1>3, <1>4 DEF Places, Apart

\* A batch is taken off the queue.
LEMMA PlacesTake ==
  ASSUME NEW q, NEW l, NEW g, Places(q, <<>>, l, g)
  PROVE  LET t == Writer!Taken(q) IN
         /\ Places(t.rest, t.first, l, g)
         /\ \A x : x \in ToSet(q) <=> x \in ToSet(t.rest) \/ x \in ToSet(t.first)
  <1>1. PICK k \in 0..Len(q) : Writer!Taken(q) = [first |-> SubSeq(q, 1, k), rest |-> SubSeq(q, k + 1, Len(q))]
    <2>1. Len(q) \in Nat /\ MaxBatch \in Nat
      BY GatewayAssumption DEF Places
    <2>2. (IF Len(q) < MaxBatch THEN Len(q) ELSE MaxBatch) \in 0..Len(q)
      BY <2>1
    <2> QED BY <2>2 DEF Writer!Taken
  <1> DEFINE front == SubSeq(q, 1, k)
             back  == SubSeq(q, k + 1, Len(q))
  <1>2. /\ front \in Seq(Rows) /\ back \in Seq(Rows)
        /\ \A x : x \in ToSet(q) <=> x \in ToSet(front) \/ x \in ToSet(back)
        /\ Once(front) /\ Once(back) /\ Apart(front, back)
    BY SplitOnce DEF Places
  <1>3. Writer!Taken(q).first = front /\ Writer!Taken(q).rest = back
    BY <1>1
  <1> HIDE DEF front, back
  <1>4. Places(back, front, l, g)
    BY <1>2 DEF Places, Apart
  <1> QED BY <1>2, <1>3, <1>4

\* The shutdown takes all that is left.
LEMMA PlacesAll ==
  ASSUME NEW q, NEW b, NEW g, Places(q, b, <<>>, g)
  PROVE  Places(<<>>, b, q, g)
  <1>1. <<>> \in Seq(Rows) /\ Once(<<>>) /\ \A x : x \notin ToSet(<<>>)
    BY EmptyOnce, EmptySeq
  <1> QED BY <1>1 DEF Places, Apart

\* The writer's module names the operators of its sequences for itself.
LEMMA WriterNames ==
  /\ \A s : Writer!ToSet(s) = ToSet(s)
  /\ Writer!Log = FlattenSeq(commits) /\ Writer!Log' = FlattenSeq(commits')
  BY DEF Writer!ToSet, ToSet, Writer!Log, Writer!FlattenSeq, FlattenSeq

LEMMA CommittedLog ==
  ASSUME WriterInv, NEW b \in Seq(Rows), Writer!Committed(b)
  PROVE  commits' \in Seq(Seq(Rows)) /\ Writer!Log' = Writer!Log \o b
  <1>1. commits \in Seq(Seq(Rows)) /\ commits' = Append(commits, b)
    BY DEF WriterInv, Writer!Committed
  <1>2. FlattenSeq(Append(commits, b)) = FlattenSeq(commits) \o b
    BY <1>1, FlattenAppend
  <1>3. Append(commits, b) \in Seq(Seq(Rows))
    BY <1>1, AppendProperties
  <1> QED BY <1>1, <1>2, <1>3, WriterNames

LEMMA PutStep ==
  ASSUME WriterInv, NEW row \in Rows, Writer!Put(row), pc' = pc \/ pc # "over"
  PROVE  WriterInv' /\ \A x : x \in ToSet(puts') <=> x \in ToSet(puts) \/ x = row
  <1>1. /\ stop = "not called" /\ row \notin ToSet(puts)
        /\ queue' = Append(queue, row) /\ puts' = Append(puts, row)
        /\ UNCHANGED <<batch, last, task, stop, commits, failed>>
    BY WriterNames DEF Writer!Put
  <1>2. /\ row \notin ToSet(queue) /\ row \notin ToSet(batch) /\ row \notin ToSet(last)
        /\ row \notin ToSet(Writer!Log)
    BY <1>1 DEF WriterInv
  <1>3. Writer!Log' = Writer!Log
    BY <1>1 DEF Writer!Log
  <1>4. /\ Places(queue', batch, last, Writer!Log)
        /\ \A x : x \in ToSet(queue') <=> x \in ToSet(queue) \/ x = row
    <2>1. Places(queue, batch, last, Writer!Log)
      BY DEF WriterInv
    <2>2. queue \in Seq(Rows) /\ Once(queue)
      BY <2>1 DEF Places
    <2>3. /\ queue' \in Seq(Rows) /\ Once(queue')
          /\ \A x : x \in ToSet(queue') <=> x \in ToSet(queue) \/ x = row
      BY <1>1, <1>2, <2>2, AppendOnce
    <2> QED BY <1>2, <2>1, <2>3 DEF Places, Apart
  <1>5. /\ puts' \in Seq(Rows)
        /\ \A x : x \in ToSet(puts') <=> x \in ToSet(puts) \/ x = row
    BY <1>1, AppendOnce DEF WriterInv
  <1> QED BY <1>1, <1>3, <1>4, <1>5 DEF WriterInv

LEMMA TaskStep ==
  ASSUME WriterInv, Writer!Task, pc' = pc PROVE WriterInv'
  <1>1. CASE Writer!Collect
    <2>1. /\ task = "collecting" /\ queue' = Writer!Taken(queue).rest /\ batch' = Writer!Taken(queue).first
          /\ task' = "flushing" /\ UNCHANGED <<last, stop, puts, commits, failed>> /\ Writer!Log' = Writer!Log
      BY <1>1 DEF Writer!Collect, Writer!Log
    <2>2. Places(queue, <<>>, last, Writer!Log) /\ batch = <<>>
      BY <2>1 DEF WriterInv
    <2>3. /\ Places(queue', batch', last, Writer!Log)
          /\ \A x : x \in ToSet(queue) <=> x \in ToSet(queue') \/ x \in ToSet(batch')
      BY <2>1, <2>2, PlacesTake
    <2>4. \A x : x \notin ToSet(batch)
      BY <2>2, EmptyOnce
    <2> QED BY <2>1, <2>3, <2>4 DEF WriterInv
  <1>2. CASE Writer!Flush \/ Writer!FlushFails \/ Writer!TaskCancelled
    <2>1. /\ UNCHANGED <<queue, last, stop, puts>> /\ batch' = <<>>
          /\ (task' = "collecting" /\ task # "ended") \/ task' = "ended"
      BY <1>2 DEF Writer!Flush, Writer!FlushFails, Writer!TaskCancelled
    <2>2. \/ Writer!Committed(batch) /\ failed' \in {failed, failed \cup ToSet(batch)}
          \/ UNCHANGED commits /\ (failed' = failed \cup ToSet(batch) \/ (failed' = failed /\ batch = <<>>))
      BY <1>2, WriterNames DEF Writer!Flush, Writer!FlushFails, Writer!TaskCancelled, WriterInv
    <2>3. task = "ended" => task' = "ended"
      BY <2>1
    <2>4. Places(queue, batch, last, Writer!Log) /\ batch \in Seq(Rows)
      BY DEF WriterInv, Places
    <2>5. \A x : x \notin ToSet(<<>>)
      BY EmptyOnce
    <2>6. CASE Writer!Committed(batch) /\ failed' \in {failed, failed \cup ToSet(batch)}
      <3>1. Writer!Log' = Writer!Log \o batch /\ commits' \in Seq(Seq(Rows))
        BY <2>4, <2>6, CommittedLog
      <3>2. /\ Places(queue', batch', last', Writer!Log')
            /\ \A x : x \in ToSet(Writer!Log') <=> x \in ToSet(Writer!Log) \/ x \in ToSet(batch)
        BY <2>1, <2>4, <3>1, PlacesCommit
      <3>3. \A x : x \in failed' <=> x \in failed \/ (x \in failed' /\ x \in ToSet(batch))
        BY <2>6
      <3> QED BY <2>1, <2>3, <2>5, <3>1, <3>2, <3>3 DEF WriterInv
    <2>7. CASE UNCHANGED commits /\ (failed' = failed \cup ToSet(batch) \/ (failed' = failed /\ batch = <<>>))
      <3>1. Writer!Log' = Writer!Log /\ commits' \in Seq(Seq(Rows))
        BY <2>7 DEF Writer!Log, WriterInv
      <3>2. Places(queue', batch', last', Writer!Log')
        BY <2>1, <2>4, <3>1, PlacesCommit
      <3>3. \A x : x \in failed' <=> x \in failed \/ x \in ToSet(batch)
        BY <2>5, <2>7
      <3> QED BY <2>1, <2>3, <2>5, <3>1, <3>2, <3>3 DEF WriterInv
    <2> QED BY <2>2, <2>6, <2>7
  <1> QED BY <1>1, <1>2 DEF Writer!Task

LEMMA ShutdownStep ==
  ASSUME WriterInv, Writer!Shutdown \/ (Writer!Stop /\ pc = "over"), pc' = pc PROVE WriterInv'
  <1>0. \A x : x \notin ToSet(<<>>)
    BY EmptyOnce
  <1>1. CASE Writer!FlushAll
    <2>1. /\ stop = "cancelling" /\ task = "ended" /\ last' = queue /\ queue' = <<>> /\ Writer!Log' = Writer!Log
          /\ UNCHANGED <<batch, task, puts, commits, failed>>
          /\ stop' = IF queue = <<>> THEN "returned" ELSE "flushing"
      BY <1>1 DEF Writer!FlushAll, Writer!Log
    <2>2. last = <<>> /\ Places(queue, batch, <<>>, Writer!Log)
      BY <2>1 DEF WriterInv
    <2>3. Places(queue', batch', last', Writer!Log')
      BY <2>1, <2>2, PlacesAll
    <2> QED BY <1>0, <2>1, <2>2, <2>3 DEF WriterInv
  <1>2. CASE Writer!LastFlush
    <2>1. /\ stop = "flushing" /\ stop' = "returned" /\ last' = <<>>
          /\ UNCHANGED <<queue, batch, task, puts>>
          /\ \/ Writer!Committed(last) /\ failed' \in {failed, failed \cup ToSet(last)}
             \/ UNCHANGED commits /\ failed' = failed \cup ToSet(last)
      BY <1>2, WriterNames DEF Writer!LastFlush
    <2>2. Places(queue, batch, last, Writer!Log) /\ last \in Seq(Rows)
      BY DEF WriterInv, Places
    <2>3. CASE Writer!Committed(last) /\ failed' \in {failed, failed \cup ToSet(last)}
      <3>1. Writer!Log' = Writer!Log \o last /\ commits' \in Seq(Seq(Rows))
        BY <2>2, <2>3, CommittedLog
      <3>2. /\ Places(queue', batch', last', Writer!Log')
            /\ \A x : x \in ToSet(Writer!Log') <=> x \in ToSet(Writer!Log) \/ x \in ToSet(last)
        BY <2>1, <2>2, <3>1, PlacesCommit
      <3>3. \A x : x \in failed' <=> x \in failed \/ (x \in failed' /\ x \in ToSet(last))
        BY <2>3
      <3> QED BY <1>0, <2>1, <3>1, <3>2, <3>3 DEF WriterInv
    <2>4. CASE UNCHANGED commits /\ failed' = failed \cup ToSet(last)
      <3>1. Writer!Log' = Writer!Log /\ commits' \in Seq(Seq(Rows))
        BY <2>4 DEF Writer!Log, WriterInv
      <3>2. Places(queue', batch', last', Writer!Log')
        BY <2>1, <2>2, <3>1, PlacesCommit
      <3>3. \A x : x \in failed' <=> x \in failed \/ x \in ToSet(last)
        BY <2>4
      <3> QED BY <1>0, <2>1, <3>1, <3>2, <3>3 DEF WriterInv
    <2> QED BY <2>1, <2>3, <2>4
  <1>3. CASE Writer!Stop /\ pc = "over"
    <2>1. Writer!Log' = Writer!Log
      BY <1>3 DEF Writer!Stop, Writer!Log
    <2> QED BY <1>3, <2>1 DEF WriterInv, Writer!Stop
  <1> QED BY <1>1, <1>2, <1>3 DEF Writer!Shutdown
-----------------------------------------------------------------------------
(***************************************************************************)
(* The steps of a request in hybrid mode: the walk along the attempts.     *)
(***************************************************************************)

\* Up to the answer all that is reported is what is queued: the failures.
LEMMA BeforeReports ==
  ASSUME PlatformTypes', WalkInv', pc' \in Before PROVE ReportsInv'
  <1>1. /\ inflight' = {} /\ \A a \in Platform!Attempts, o \in Platform!Outcomes : received'[a][o] = 0
        /\ \A a \in Platform!Attempts : fate'[a] = IF a < cur' THEN "failed" ELSE "untried"
        /\ \A i \in 1..Len(background') : background'[i] = [attempt |-> i, outcome |-> "error"]
        /\ \A i \in 1..Len(background') : i < cur'
        /\ pc' \notin {"flush", "over"}
    <2>1. /\ inflight' = {} /\ \A a \in Platform!Attempts, o \in Platform!Outcomes : received'[a][o] = 0
          /\ \A a \in Platform!Attempts : fate'[a] = IF a < cur' THEN "failed" ELSE "untried"
          /\ Len(background') = IF cur' = 0 THEN 0 ELSE cur' - 1
          /\ \A i \in 1..Len(background') : background'[i] = [attempt |-> i, outcome |-> "error"]
      BY DEF WalkInv
    <2>2. cur' \in Nat /\ pc' \notin {"flush", "over"}
      BY DEF PlatformTypes, Before, Walking
    <2>3. \A i \in 1..Len(background') : i < cur'
      BY <2>1, <2>2
    <2> QED BY <2>1, <2>2, <2>3
  <1>2. ReportsTrue'
    <2>1. ASSUME NEW a \in Platform!Attempts, NEW o \in Platform!Outcomes, Sent(a, o)'
          PROVE  o = "error" /\ fate'[a] = "failed"
      <3>1. ~Got(a, o)' /\ ~Posted(a, o)'
        BY <1>1 DEF Got, Posted
      <3>2. PICK i \in 1..Len(background') : background'[i].attempt = a /\ background'[i].outcome = o
        BY <2>1, <3>1 DEF Sent, Queued
      <3>3. background'[i] = [attempt |-> i, outcome |-> "error"] /\ i < cur'
        BY <1>1
      <3>4. a = i /\ o = "error"
        BY <3>2, <3>3
      <3> QED BY <1>1, <3>3, <3>4
    <2> QED BY <2>1 DEF ReportsTrue, Platform!Outcomes
  <1>3. ReportsOnce'
    <2>1. ASSUME NEW i \in 1..Len(background') PROVE background'[i].attempt = i
      <3>1. background'[i] = [attempt |-> i, outcome |-> "error"]
        BY <1>1
      <3> QED BY <3>1
    <2>2. \A a \in Platform!Attempts : \A o \in Platform!Outcomes : received'[a][o] <= 1 /\ ~Got(a, o)'
      BY <1>1 DEF Got
    <2> QED BY <1>1, <2>1, <2>2 DEF ReportsOnce
  <1>4. ReportsThere'
    BY <1>1 DEF ReportsThere
  <1> QED BY <1>2, <1>3, <1>4 DEF ReportsInv

\* Steps of the walk that decide the fate of no attempt.
LEMMA WalkOn ==
  ASSUME PlatformInv, pc \in Before, pc' \in Before \ {"start", "open"}, cur' = cur, n' = n, cur > 0,
         UNCHANGED <<streaming, inflight, received, fate, background>>, pending' \in {pending, {}},
         pc' \in Walking => pc \in Walking /\ answer' = answer /\ pending' = pending,
         pc' \in {"unpulled", "flowing"} => answer' = "ok" /\ streaming,
         ~streaming => ~backend',
         ~streaming /\ toolsRun' # {} => locked',
         ~streaming => \A a \in toolsRun' : a = cur,
         ~streaming /\ pc' = "tools" => locked'
  PROVE  PlatformInv'
  <1>1. PlatformTypes'
    BY DEF PlatformInv, PlatformTypes, Before, Walking
  <1>2. WalkInv'
    BY DEF PlatformInv, WalkInv, Before, Walking
  <1>3. answer' \in {"none", "ok"} /\ pc' # "over"
    BY DEF PlatformInv, WalkInv, Before, Walking
  <1>4. EndInv'
    BY <1>3 DEF EndInv, Platform!GaveUpForAReason
  <1> QED BY <1>1, <1>2, <1>4, BeforeReports DEF PlatformInv

LEMMA WalkOnSteps ==
  ASSUME PlatformInv,
         Platform!ToolRound \/ Platform!FirstChunk \/ Platform!StartPulling
  PROVE  PlatformInv'
  <1> USE DEF Platform!request, Platform!reports, Platform!walk
  <1>0. /\ pc \in {"attempt", "unpulled"} => cur > 0
        /\ ~streaming => ~backend
        /\ ~streaming /\ toolsRun # {} => locked
        /\ ~streaming => \A a \in toolsRun : a = cur
    BY DEF PlatformInv, PlatformTypes, EndInv, Before, Walking
  <1>1. CASE Platform!ToolRound
    BY <1>0, <1>1, WalkOn DEF Platform!ToolRound, Before, Walking
  <1>2. CASE Platform!FirstChunk
    BY <1>0, <1>2, WalkOn DEF Platform!FirstChunk, Before, Walking
  <1>3. CASE Platform!StartPulling
    <2>1. answer = "ok" /\ streaming
      BY <1>3 DEF Platform!StartPulling, PlatformInv, WalkInv
    <2> QED BY <1>0, <1>3, <2>1, WalkOn DEF Platform!StartPulling, Before, Walking
  <1> QED BY <1>1, <1>2, <1>3

\* Where nothing has been reported and no attempt was made the request may end.
LEMMA EndsUntried ==
  ASSUME PlatformInv, pc \in {"start", "open"}, pc' = "over",
         UNCHANGED <<streaming, locked, lastError, toolsRun, inflight, received, fate,
                     background, pending, cur>>,
         n' \in Nat, n' <= MaxAttempts, cur <= n', ~backend'
  PROVE  PlatformInv'
  <1>1. /\ inflight = {} /\ \A a \in Platform!Attempts, o \in Platform!Outcomes : received[a][o] = 0
        /\ lastError = "none" /\ toolsRun = {} /\ cur \in {0, 1} /\ Len(background) = 0
        /\ \A a \in Platform!Attempts : fate[a] = "untried"
    <2>1. cur <= 1
      BY DEF PlatformInv, PlatformTypes, WalkInv, Before, Walking
    <2> QED BY <2>1 DEF PlatformInv, PlatformTypes, WalkInv, Before, Walking, Platform!Attempts
  <1>2. PlatformTypes'
    BY DEF PlatformInv, PlatformTypes, Before, Walking
  <1>3. WalkInv'
    BY DEF WalkInv, Before, Walking
  <1>4. ReportsInv'
    <2>1. \A a \in Platform!Attempts, o \in Platform!Outcomes : ~Sent(a, o)'
      BY <1>1 DEF Sent, Queued, Posted, Got
    <2> QED BY <1>1, <2>1
        DEF ReportsInv, ReportsTrue, ReportsOnce, ReportsThere, Platform!Outcomes, Got
  <1>5. EndInv'
    BY <1>1 DEF EndInv, Platform!GaveUpForAReason
  <1> QED BY <1>2, <1>3, <1>4, <1>5 DEF PlatformInv

\* An attempt fails and the next one is tried: its report is queued.
LEMMA FallsThroughStep ==
  ASSUME PlatformInv, pc \in {"attempt", "tools"}, NEW kind,
         Platform!AttemptFails(kind), Platform!FallsThrough(kind) /\ cur < n
  PROVE  PlatformInv'
  <1> DEFINE r == [attempt |-> cur, outcome |-> "error"]
  <1>1. /\ fate' = [fate EXCEPT ![cur] = "failed"] /\ pc' = "attempt" /\ cur' = cur + 1
        /\ background' = Append(background, r) /\ pending' = pending \cup {cur}
        /\ UNCHANGED <<answer, inflight, backend, streaming, n, locked, received, toolsRun>>
        /\ ~locked /\ cur < n
    BY DEF Platform!AttemptFails, Platform!request, Platform!FallsThrough
  <1>2. /\ n \in Nat /\ cur \in Nat /\ cur > 0 /\ n <= MaxAttempts /\ cur \in Platform!Attempts
        /\ cur' \in Nat /\ cur' > 0 /\ cur' <= n
    <2>1. n \in Nat /\ cur \in Nat /\ cur > 0 /\ n <= MaxAttempts
      BY DEF PlatformInv, PlatformTypes, Before, Walking
    <2>2. cur \in Platform!Attempts
      BY <1>1, <2>1, GatewayAssumption DEF Platform!Attempts
    <2> QED BY <1>1, <2>1, <2>2
  <1>3. /\ r \in Platform!Report /\ background \in Seq(Platform!Report) /\ Len(background) = cur - 1
        /\ \A i \in 1..Len(background) : background[i] = [attempt |-> i, outcome |-> "error"]
    BY <1>2 DEF Platform!Report, Platform!Outcomes, PlatformInv, PlatformTypes, WalkInv, Before, Walking
  <1>4. /\ background' \in Seq(Platform!Report) /\ Len(background') = cur
        /\ \A i \in 1..Len(background') : background'[i] = [attempt |-> i, outcome |-> "error"]
    <2>1. /\ background' \in Seq(Platform!Report) /\ Len(background') = Len(background) + 1
          /\ \A i \in 1..Len(background) : background'[i] = background[i]
          /\ background'[Len(background) + 1] = r
      BY <1>1, <1>3, AppendProperties
    <2>2. Len(background) + 1 = cur
      BY <1>2, <1>3
    <2>3. \A i \in 1..cur : i \in 1..Len(background) \/ i = cur
      BY <1>2, <1>3
    <2> QED BY <1>3, <2>1, <2>2, <2>3
  <1>5. PlatformTypes'
    <2>1. fate' \in [Platform!Attempts -> Platform!Fates]
      BY <1>1, <1>2 DEF PlatformInv, PlatformTypes, Platform!Fates
    <2> QED BY <1>1, <1>2, <1>4, <2>1 DEF PlatformInv, PlatformTypes, Before, Walking
  <1>6. WalkInv'
    <2>1. /\ inflight = {} /\ answer = "none"
          /\ \A a \in Platform!Attempts, o \in Platform!Outcomes : received[a][o] = 0
          /\ \A a \in Platform!Attempts : fate[a] = IF a < cur THEN "failed" ELSE "untried"
          /\ \A a \in Platform!Attempts : a \in pending <=> a < cur
      BY DEF PlatformInv, WalkInv, Before, Walking
    <2>2. \A a \in Platform!Attempts : a < cur' <=> (a < cur \/ a = cur)
      BY <1>1, <1>2 DEF Platform!Attempts
    <2>3. \A a \in Platform!Attempts : fate'[a] = IF a < cur' THEN "failed" ELSE "untried"
      BY <1>1, <1>2, <2>1, <2>2 DEF PlatformInv, PlatformTypes
    <2>4. \A a \in Platform!Attempts : a \in pending' <=> a < cur'
      BY <1>1, <2>1, <2>2
    <2>5. Len(background') = IF cur' = 0 THEN 0 ELSE cur' - 1
      BY <1>1, <1>2, <1>4
    <2> QED BY <1>1, <1>4, <2>1, <2>3, <2>4, <2>5 DEF WalkInv, Walking
  <1>7. EndInv'
    <2>1. answer' = "none"
      BY <1>1 DEF PlatformInv, WalkInv, Before, Walking
    <2> QED BY <1>1, <2>1 DEF PlatformInv, EndInv, Platform!GaveUpForAReason
  <1>8. pc' \in Before
    BY <1>1 DEF Before, Walking
  <1> QED BY <1>5, <1>6, <1>7, <1>8, BeforeReports DEF PlatformInv

\* The first posts of an outcome are its own: one, or none without tries.
LEMMA FirstPostsAre ==
  ASSUME NEW a \in Platform!Attempts, NEW o \in Platform!Outcomes, NEW via \in Platform!Vias
  PROVE  /\ \A p \in Platform!FirstPosts(a, o, via) :
              p \in Posts /\ p.attempt = a /\ p.outcome = o /\ \A q \in Platform!FirstPosts(a, o, via) : p = q
         /\ MaxTries > 0 => Platform!FirstPosts(a, o, via) # {}
  <1> DEFINE post == [attempt |-> a, outcome |-> o, via |-> via, tries |-> 1, waiting |-> FALSE]
  <1>1. post \in Posts /\ post.attempt = a /\ post.outcome = o
    BY DEF Posts
  <1>2. Platform!FirstPosts(a, o, via) = IF MaxTries = 0 THEN {} ELSE {post}
    BY DEF Platform!FirstPosts
  <1> HIDE DEF post
  <1>3. CASE MaxTries = 0
    BY <1>2, <1>3
  <1>4. CASE MaxTries # 0
    <2>1. Platform!FirstPosts(a, o, via) = {post}
      BY <1>2, <1>4
    <2> QED BY <1>1, <2>1
  <1> QED BY <1>3, <1>4

\* The walk ends in an error response: the failures are posted before it.
LEMMA EndsInError ==
  ASSUME PlatformInv, pc \in {"attempt", "tools"}, NEW verdict, NEW lost \in SUBSET Platform!Attempts,
         Platform!EndInError(verdict, lost), UNCHANGED <<streaming, n, cur, locked, received>>,
         NEW how \in {"failed", "capped", "rejected", "unknown"}, fate' = [fate EXCEPT ![cur] = how],
         \A a \in lost : a < cur \/ (a = cur /\ how = "failed"),
         mishaps' = {} => \A a \in Platform!Attempts : a < cur \/ (a = cur /\ how = "failed") => a \in lost,
         ~streaming /\ toolsRun' # {} => locked, ~streaming => \A a \in toolsRun' : a = cur,
         Platform!GaveUpForAReason'
  PROVE  PlatformInv'
  <1>1. /\ background' = <<>> /\ pending' = {}
        /\ \/ lost = {} /\ pc' = "over" /\ backend' = FALSE /\ inflight' = inflight
           \/ /\ pc' = "flush" /\ backend' = backend
              /\ inflight' = inflight \cup UNION {Platform!FirstPosts(a, "error", "inline") : a \in lost}
    BY DEF Platform!EndInError
  <1>2. /\ inflight = {} /\ \A a \in Platform!Attempts, o \in Platform!Outcomes : received[a][o] = 0
        /\ \A a \in Platform!Attempts : fate[a] = IF a < cur THEN "failed" ELSE "untried"
    BY DEF PlatformInv, WalkInv, Before, Walking
  <1>3. inflight' = UNION {Platform!FirstPosts(a, "error", "inline") : a \in lost}
    BY <1>1, <1>2
  <1>4. \A a \in Platform!Attempts :
          /\ \A p \in Platform!FirstPosts(a, "error", "inline") :
               /\ p \in Posts /\ p.attempt = a /\ p.outcome = "error"
               /\ \A q \in Platform!FirstPosts(a, "error", "inline") : p = q
          /\ MaxTries > 0 => Platform!FirstPosts(a, "error", "inline") # {}
    <2>1. "error" \in Platform!Outcomes /\ "inline" \in Platform!Vias
      BY DEF Platform!Outcomes, Platform!Vias
    <2> QED BY <2>1, FirstPostsAre
  <1>5. /\ \A a \in Platform!Attempts : fate'[a] = IF a = cur THEN how ELSE fate[a]
        /\ fate' \in [Platform!Attempts -> Platform!Fates]
    BY DEF PlatformInv, PlatformTypes, Platform!Fates
  <1>6. PlatformTypes'
    <2>1. inflight' \subseteq Posts
      BY <1>3, <1>4
    <2>2. <<>> \in Seq(Platform!Report)
      BY EmptySeq
    <2> QED BY <1>1, <1>5, <2>1, <2>2 DEF PlatformInv, PlatformTypes, Before, Walking
  <1>7. WalkInv'
    BY <1>1 DEF WalkInv, Before, Walking
  <1>8. ReportsInv'
    <2>1. \A a \in Platform!Attempts, o \in Platform!Outcomes :
            /\ Sent(a, o)' => o = "error" /\ a \in lost
            /\ MaxTries > 0 /\ o = "error" /\ a \in lost => Sent(a, o)'
      <3>1. \A a \in Platform!Attempts, o \in Platform!Outcomes : ~Queued(a, o)' /\ ~Got(a, o)'
        BY <1>1, <1>2 DEF Queued, Got
      <3>2. ASSUME NEW a \in Platform!Attempts, NEW o \in Platform!Outcomes, Posted(a, o)'
            PROVE  o = "error" /\ a \in lost
        <4>1. PICK p \in inflight' : p.attempt = a /\ p.outcome = o
          BY <3>2 DEF Posted
        <4>2. PICK b \in lost : p \in Platform!FirstPosts(b, "error", "inline")
          BY <1>3
        <4> QED BY <1>4, <4>1, <4>2
      <3>3. ASSUME NEW a \in Platform!Attempts, MaxTries > 0, a \in lost PROVE Posted(a, "error")'
        <4>1. PICK p \in Platform!FirstPosts(a, "error", "inline") : TRUE
          BY <1>4, <3>3
        <4>2. p \in inflight'
          BY <1>3, <3>3, <4>1
        <4> QED BY <1>4, <4>1, <4>2 DEF Posted
      <3> QED BY <3>1, <3>2, <3>3 DEF Sent
    <2>2. ReportsTrue'
      <3>1. \A a \in lost : a \in Platform!Attempts /\ fate'[a] = "failed"
        <4>1. cur \in Nat /\ ~(cur < cur)
          BY DEF PlatformInv, PlatformTypes
        <4> QED BY <1>2, <1>5, <4>1
      <3>2. \A a \in Platform!Attempts : ~Sent(a, "success")' /\ (Sent(a, "error")' => a \in lost)
        BY <2>1 DEF Platform!Outcomes
      <3> QED BY <3>1, <3>2 DEF ReportsTrue
    <2>3. ReportsOnce'
      <3>1. ASSUME NEW p \in inflight', NEW q \in inflight', p.attempt = q.attempt PROVE p = q
        <4>1. PICK a \in lost : p \in Platform!FirstPosts(a, "error", "inline")
          BY <1>3
        <4>2. PICK b \in lost : q \in Platform!FirstPosts(b, "error", "inline")
          BY <1>3
        <4>3. a = b
          BY <1>4, <3>1, <4>1, <4>2
        <4> QED BY <1>4, <4>1, <4>2, <4>3
      <3>2. \A a \in Platform!Attempts : \A o \in Platform!Outcomes : received'[a][o] <= 1 /\ ~Got(a, o)'
        BY <1>2 DEF Got
      <3> QED BY <1>1, <3>1, <3>2 DEF ReportsOnce
    <2>4. ReportsThere'
      <3>1. SUFFICES ASSUME MaxTries > 0, mishaps' = {}, NEW a \in Platform!Attempts
                     PROVE  /\ fate'[a] \in {"failed", "broken"} => a \in lost
                            /\ fate'[a] # "served"
        BY <2>1 DEF ReportsThere, Platform!Outcomes
      <3> QED BY <1>2, <1>5, <3>1
    <2> QED BY <2>2, <2>3, <2>4 DEF ReportsInv
  <1>9. EndInv'
    BY <1>1 DEF PlatformInv, EndInv
  <1> QED BY <1>6, <1>7, <1>8, <1>9 DEF PlatformInv

LEMMA AttemptFailsStep ==
  ASSUME PlatformInv, pc \in {"attempt", "tools"}, NEW kind \in Platform!Kinds, Platform!AttemptFails(kind)
  PROVE  PlatformInv'
  <1>1. CASE Platform!FallsThrough(kind) /\ cur < n
    BY <1>1, FallsThroughStep
  <1>2. CASE ~(Platform!FallsThrough(kind) /\ cur < n)
    <2>1. /\ fate' = [fate EXCEPT ![cur] = "failed"] /\ lastError' = kind
          /\ Platform!EndInError(Platform!Verdict(kind), pending \cup {cur})
          /\ UNCHANGED <<streaming, n, cur, locked, received, toolsRun>>
      BY <1>2 DEF Platform!AttemptFails, Platform!request
    <2>2. /\ n \in Nat /\ cur \in Nat /\ cur > 0 /\ n <= MaxAttempts /\ cur <= n
          /\ fate \in [Platform!Attempts -> Platform!Fates] /\ pending \subseteq Platform!Attempts
      BY DEF PlatformInv, PlatformTypes, Before, Walking
    <2>3. cur \in Platform!Attempts
      BY <2>2, GatewayAssumption DEF Platform!Attempts
    <2>4. /\ \A a \in Platform!Attempts : fate[a] = IF a < cur THEN "failed" ELSE "untried"
          /\ \A a \in Platform!Attempts : a \in pending <=> a < cur
      BY DEF PlatformInv, WalkInv, Before, Walking
    <2>5. Platform!GaveUpForAReason'
      <3>1. CASE locked \/ kind \in {"invalid", "unknown"}
        BY <2>1, <3>1 DEF Platform!GaveUpForAReason
      <3>2. CASE cur = n
        <4>1. \A a \in 1..n : a \in Platform!Attempts /\ (a < cur \/ a = cur)
          BY <2>2, <3>2, GatewayAssumption DEF Platform!Attempts
        <4>2. \A a \in 1..n : fate'[a] = "failed"
          BY <2>1, <2>2, <2>4, <4>1
        <4> QED BY <2>1, <4>2 DEF Platform!GaveUpForAReason
      <3>3. locked \/ kind \in {"invalid", "unknown"} \/ cur = n
        BY <1>2, <2>2 DEF Platform!FallsThrough, Platform!Retryable, Platform!Kinds
      <3> QED BY <3>1, <3>2, <3>3
    <2>6. /\ ~streaming /\ toolsRun # {} => locked
          /\ ~streaming => \A a \in toolsRun : a = cur
      BY DEF PlatformInv, EndInv
    <2>7. pending \cup {cur} \in SUBSET Platform!Attempts
      BY <2>2, <2>3
    <2>8. \A a \in Platform!Attempts : a \in pending \cup {cur} <=> a < cur \/ a = cur
      BY <2>4
    <2> HIDE DEF Platform!GaveUpForAReason
    <2> QED BY <2>1, <2>5, <2>6, <2>7, <2>8, EndsInError
  <1> QED BY <1>1, <1>2

LEMMA FailureSteps ==
  ASSUME PlatformInv,
         \/ Platform!CallFails \/ Platform!CallRejected \/ Platform!CancelAttempt
         \/ Platform!UnknownProvider
  PROVE  PlatformInv'
  <1>1. /\ pc \in {"attempt", "tools"}
        /\ pending \subseteq Platform!Attempts
        /\ \A a \in Platform!Attempts : a \in pending <=> a < cur
        /\ ~streaming /\ toolsRun # {} => locked
        /\ ~streaming => \A a \in toolsRun : a = cur
    BY DEF PlatformInv, PlatformTypes, WalkInv, EndInv, Walking, Platform!CallFails,
           Platform!CallRejected, Platform!CancelAttempt, Platform!UnknownProvider
  <1>2. CASE Platform!CallFails
    BY <1>1, <1>2, AttemptFailsStep DEF Platform!CallFails
  <1>3. CASE Platform!CallRejected
    <2>1. /\ fate' = [fate EXCEPT ![cur] = "rejected"] /\ Platform!EndInError("failed", pending)
          /\ UNCHANGED <<streaming, n, cur, locked, received, toolsRun, lastError>>
      BY <1>3 DEF Platform!CallRejected, Platform!request
    <2>2. fate'[cur'] = "rejected"
      <3>1. cur \in Platform!Attempts /\ fate \in [Platform!Attempts -> Platform!Fates]
        BY <1>1, GatewayAssumption DEF PlatformInv, PlatformTypes, Before, Walking, Platform!Attempts
      <3> QED BY <2>1, <3>1
    <2>3. Platform!GaveUpForAReason'
      BY <2>2 DEF Platform!GaveUpForAReason
    <2>4. pending \in SUBSET Platform!Attempts /\ "rejected" \in {"failed", "capped", "rejected", "unknown"}
      BY <1>1
    <2>5. /\ \A a \in pending : a < cur \/ (a = cur /\ "rejected" = "failed")
          /\ \A a \in Platform!Attempts : a < cur \/ (a = cur /\ "rejected" = "failed") => a \in pending
      BY <1>1
    <2>6. /\ ~streaming /\ toolsRun' # {} => locked
          /\ ~streaming => \A a \in toolsRun' : a = cur
      BY <1>1, <2>1
    <2> QED BY <1>1, <2>1, <2>3, <2>4, <2>5, <2>6, EndsInError
  <1>4. CASE Platform!CancelAttempt
    <2>1. CASE ~streaming
      <3>1. "unknown" \in Platform!Kinds
        BY DEF Platform!Kinds
      <3> QED BY <1>1, <1>4, <2>1, <3>1, AttemptFailsStep DEF Platform!CancelAttempt
    <2>2. CASE streaming
      <3>1. /\ fate' = [fate EXCEPT ![cur] = "failed"] /\ Platform!EndInError("gone", {})
            /\ UNCHANGED <<streaming, n, cur, locked, received, toolsRun>> /\ mishaps' # {}
        BY <1>4, <2>2 DEF Platform!CancelAttempt, Platform!request
      <3>2. answer' = "gone"
        BY <3>1 DEF Platform!EndInError
      <3>3. Platform!GaveUpForAReason'
        BY <3>2 DEF Platform!GaveUpForAReason
      <3>4. {} \in SUBSET Platform!Attempts /\ "failed" \in {"failed", "capped", "rejected", "unknown"}
        OBVIOUS
      <3>5. /\ ~streaming /\ toolsRun' # {} => locked
            /\ ~streaming => \A a \in toolsRun' : a = cur
        BY <2>2
      <3> QED BY <1>1, <3>1, <3>3, <3>4, <3>5, EndsInError
    <2> QED BY <2>1, <2>2
  <1>5. CASE Platform!UnknownProvider
    <2>1. /\ fate' = [fate EXCEPT ![cur] = "unknown"] /\ Platform!EndInError("failed", {})
          /\ UNCHANGED <<streaming, n, cur, locked, received, toolsRun>> /\ mishaps' # {}
      BY <1>5 DEF Platform!UnknownProvider, Platform!request
    <2>2. fate'[cur'] = "unknown"
      <3>1. cur \in Platform!Attempts /\ fate \in [Platform!Attempts -> Platform!Fates]
        BY <1>1, GatewayAssumption DEF PlatformInv, PlatformTypes, Before, Walking, Platform!Attempts
      <3> QED BY <2>1, <3>1
    <2>3. Platform!GaveUpForAReason'
      BY <2>2 DEF Platform!GaveUpForAReason
    <2>4. {} \in SUBSET Platform!Attempts /\ "unknown" \in {"failed", "capped", "rejected", "unknown"}
      OBVIOUS
    <2>5. /\ ~streaming /\ toolsRun' # {} => locked
          /\ ~streaming => \A a \in toolsRun' : a = cur
      BY <1>1, <2>1
    <2> QED BY <1>1, <2>1, <2>3, <2>4, <2>5, EndsInError
  <1> QED BY <1>2, <1>3, <1>4, <1>5

\* The tools run for the provider that asked for them; past the cap the walk ends.
LEMMA RunToolsStep == ASSUME PlatformInv, Platform!RunTools PROVE PlatformInv'
  <1>1. /\ pc = "tools" /\ toolsRun' = toolsRun \cup {cur}
        /\ UNCHANGED <<streaming, n, cur, locked, received>>
    BY DEF Platform!RunTools, Platform!request
  <1>2. /\ cur > 0 /\ pending \subseteq Platform!Attempts
        /\ \A a \in Platform!Attempts : a \in pending <=> a < cur
        /\ ~streaming => locked
        /\ ~streaming => \A a \in toolsRun' : a = cur
        /\ ~streaming => ~backend
    BY <1>1 DEF PlatformInv, PlatformTypes, WalkInv, EndInv, Before, Walking
  <1>3. CASE pc' = "attempt" /\ UNCHANGED <<lastError, fate, answer, background, pending, inflight, backend>>
    BY <1>1, <1>2, <1>3, WalkOn DEF Before, Walking
  <1>4. CASE fate' = [fate EXCEPT ![cur] = "capped"] /\ Platform!EndInError("capped", pending)
    <2>1. answer' = "capped"
      BY <1>4 DEF Platform!EndInError
    <2>2. Platform!GaveUpForAReason'
      BY <2>1 DEF Platform!GaveUpForAReason
    <2>3. pending \in SUBSET Platform!Attempts /\ "capped" \in {"failed", "capped", "rejected", "unknown"}
      BY <1>2
    <2>4. /\ \A a \in pending : a < cur \/ (a = cur /\ "capped" = "failed")
          /\ \A a \in Platform!Attempts : a < cur \/ (a = cur /\ "capped" = "failed") => a \in pending
      BY <1>2
    <2> QED BY <1>1, <1>2, <1>4, <2>2, <2>3, <2>4, EndsInError
  <1>5. CASE /\ streaming /\ fate' = [fate EXCEPT ![cur] = "failed"] /\ lastError' = "unknown"
             /\ Platform!EndInError(Platform!Verdict("unknown"), pending \cup {cur})
    <2>1. Platform!GaveUpForAReason'
      BY <1>5 DEF Platform!GaveUpForAReason
    <2>2. cur \in Platform!Attempts
      BY <1>1, GatewayAssumption DEF PlatformInv, PlatformTypes, Before, Walking, Platform!Attempts
    <2>3. pending \cup {cur} \in SUBSET Platform!Attempts /\ "failed" \in {"failed", "capped", "rejected", "unknown"}
      BY <1>2, <2>2
    <2>4. /\ \A a \in pending \cup {cur} : a < cur \/ (a = cur /\ "failed" = "failed")
          /\ \A a \in Platform!Attempts : a < cur \/ (a = cur /\ "failed" = "failed") => a \in pending \cup {cur}
      BY <1>2
    <2> QED BY <1>1, <1>2, <1>5, <2>1, <2>3, <2>4, EndsInError
  <1> QED BY <1>3, <1>4, <1>5 DEF Platform!RunTools

\* The route is resolved and the tool backend opened before the first attempt.
LEMMA OpeningSteps ==
  ASSUME PlatformInv,
         Platform!Resolve \/ Platform!OpenBackend \/ Platform!OpenSingleAttempt
  PROVE  PlatformInv'
  <1> USE DEF Platform!request, Platform!reports, Platform!walk
  <1>1. /\ pc \in {"start", "open"} /\ n \in Nat /\ cur \in Nat /\ cur <= n /\ n <= MaxAttempts
        /\ pc = "start" => cur = 0
        /\ pc = "open" => cur = 1 /\ streaming
        /\ answer = "none" /\ ~backend /\ toolsRun = {} /\ lastError = "none"
    BY DEF PlatformInv, PlatformTypes, WalkInv, Walking, Platform!Resolve, Platform!OpenBackend,
           Platform!OpenSingleAttempt
  <1>2. CASE Platform!Resolve
    <2>1. /\ pc = "start" /\ UNCHANGED <<streaming, locked, lastError, fate, toolsRun, background,
                                         pending, inflight, received, backend>>
      BY <1>2 DEF Platform!Resolve
    <2>2. CASE pc' = "over" /\ cur' = cur /\ n' \in 0..MaxAttempts
      <3>1. n' \in Nat /\ n' <= MaxAttempts /\ cur <= n'
        BY <1>1, <2>1, <2>2, GatewayAssumption
      <3> QED BY <1>1, <2>1, <2>2, <3>1, EndsUntried
    <2>3. CASE /\ n' \in 0..MaxAttempts /\ n' > 0 /\ cur' = 1 /\ answer' = answer
               /\ pc' = IF streaming /\ tools THEN "open" ELSE "attempt"
      <3>1. n' \in Nat /\ n' <= MaxAttempts /\ cur' <= n' /\ cur' \in Nat /\ cur' > 0
        BY <2>3, GatewayAssumption
      <3>2. PlatformTypes'
        BY <2>1, <2>3, <3>1 DEF PlatformInv, PlatformTypes, Before, Walking
      <3>3. /\ inflight = {} /\ \A a \in Platform!Attempts, o \in Platform!Outcomes : received[a][o] = 0
            /\ \A a \in Platform!Attempts : fate[a] = "untried"
            /\ \A a \in Platform!Attempts : a \notin pending /\ ~(a < 1)
            /\ Len(background) = 0
        BY <1>1, <2>1 DEF PlatformInv, WalkInv, Before, Walking, Platform!Attempts
      <3>4. WalkInv'
        BY <1>1, <2>1, <2>3, <3>3 DEF WalkInv, Before, Walking
      <3>5. EndInv'
        BY <1>1, <2>1, <2>3 DEF PlatformInv, EndInv, Platform!GaveUpForAReason
      <3>6. pc' \in Before
        BY <2>3 DEF Before, Walking
      <3> QED BY <3>2, <3>4, <3>5, <3>6, BeforeReports DEF PlatformInv
    <2>4. n = n' => n' \in 0..MaxAttempts
      BY <1>1, GatewayAssumption
    <2> QED BY <1>2, <2>2, <2>3, <2>4 DEF Platform!Resolve, Platform!EnsureProvidersSupportResponses
  <1>3. CASE Platform!OpenBackend \/ Platform!OpenSingleAttempt
    <2>1. /\ pc = "open" /\ UNCHANGED <<streaming, n, cur, lastError, fate, toolsRun, background,
                                        pending, inflight, received>>
          /\ \/ pc' = "attempt" /\ answer' = answer /\ locked' = locked
             \/ pc' = "unpulled" /\ answer' = "ok"
             \/ pc' = "over" /\ UNCHANGED <<backend, locked>>
      BY <1>3 DEF Platform!OpenBackend, Platform!OpenSingleAttempt
    <2>2. CASE pc' = "over" /\ UNCHANGED <<backend, locked>>
      BY <1>1, <2>1, <2>2, EndsUntried
    <2>3. CASE (pc' = "attempt" /\ answer' = answer) \/ (pc' = "unpulled" /\ answer' = "ok")
      <3>1. cur > 0
        BY <1>1, <2>1
      <3> QED BY <1>1, <2>1, <2>3, <3>1, WalkOn DEF Before, Walking
    <2> QED BY <2>1, <2>2, <2>3
  <1> QED BY <1>2, <1>3

\* A request that is not streamed is served: the success is queued last.
LEMMA SucceedStep == ASSUME PlatformInv, Platform!Succeed PROVE PlatformInv'
  <1> DEFINE r == [attempt |-> cur, outcome |-> "success"]
  <1>1. /\ pc = "attempt" /\ ~streaming /\ pc' = "over" /\ answer' = "ok"
        /\ locked' = (locked \/ tools) /\ fate' = [fate EXCEPT ![cur] = "served"]
        /\ background' = Append(background, r) /\ pending' = {}
        /\ UNCHANGED <<streaming, n, cur, lastError, toolsRun, inflight, received, backend>>
    BY DEF Platform!Succeed, Platform!request
  <1>2. /\ n \in Nat /\ cur \in Nat /\ cur > 0 /\ n <= MaxAttempts /\ cur <= n
        /\ fate \in [Platform!Attempts -> Platform!Fates]
    BY <1>1 DEF PlatformInv, PlatformTypes, Before, Walking
  <1>3. cur \in Platform!Attempts
    BY <1>2, GatewayAssumption DEF Platform!Attempts
  <1>4. /\ r \in Platform!Report /\ background \in Seq(Platform!Report) /\ Len(background) = cur - 1
        /\ \A i \in 1..Len(background) : background[i] = [attempt |-> i, outcome |-> "error"]
        /\ inflight = {} /\ \A a \in Platform!Attempts, o \in Platform!Outcomes : received[a][o] = 0
        /\ \A a \in Platform!Attempts : fate[a] = IF a < cur THEN "failed" ELSE "untried"
    BY <1>1, <1>2, <1>3 DEF Platform!Report, Platform!Outcomes, PlatformInv, PlatformTypes, WalkInv, Before, Walking
  <1>5. /\ background' \in Seq(Platform!Report) /\ Len(background') = cur
        /\ \A i \in 1..Len(background') :
             background'[i] = [attempt |-> i, outcome |-> IF i = cur THEN "success" ELSE "error"]
    <2>1. /\ background' \in Seq(Platform!Report) /\ Len(background') = Len(background) + 1
          /\ \A i \in 1..Len(background) : background'[i] = background[i]
          /\ background'[Len(background) + 1] = r
      BY <1>1, <1>4, AppendProperties
    <2>2. Len(background) + 1 = cur
      BY <1>2, <1>4
    <2>3. \A i \in 1..cur : (i \in 1..Len(background) /\ i # cur) \/ i = cur
      BY <1>2, <1>4
    <2> QED BY <1>4, <2>1, <2>2, <2>3
  <1>6. /\ \A a \in Platform!Attempts : fate'[a] = IF a = cur THEN "served" ELSE fate[a]
        /\ fate' \in [Platform!Attempts -> Platform!Fates]
    BY <1>1, <1>2 DEF Platform!Fates
  <1>7. PlatformTypes'
    BY <1>1, <1>5, <1>6 DEF PlatformInv, PlatformTypes, Before, Walking
  <1>8. WalkInv'
    BY <1>1 DEF WalkInv, Before, Walking
  <1>9. \A i \in 1..Len(background') :
          /\ background'[i].attempt = i /\ i <= cur
          /\ background'[i].outcome = IF i = cur THEN "success" ELSE "error"
    BY <1>2, <1>5
  <1>10. ReportsInv'
    <2>1. ASSUME NEW a \in Platform!Attempts, NEW o \in Platform!Outcomes
          PROVE  Sent(a, o)' <=> a <= cur /\ o = IF a = cur THEN "success" ELSE "error"
      <3>1. ~Posted(a, o)' /\ ~Got(a, o)'
        BY <1>1, <1>4 DEF Posted, Got
      <3>2. a <= cur => a \in 1..Len(background')
        BY <1>2, <1>5, GatewayAssumption DEF Platform!Attempts
      <3>3. Queued(a, o)' <=> a <= cur /\ o = IF a = cur THEN "success" ELSE "error"
        BY <1>9, <3>2 DEF Queued
      <3> QED BY <3>1, <3>3 DEF Sent
    <2>2. \A a \in Platform!Attempts : /\ a <= cur <=> (a < cur \/ a = cur)
                                       /\ ~(cur < cur)
      BY <1>2, GatewayAssumption DEF Platform!Attempts
    <2>3. ReportsTrue'
      BY <1>1, <1>4, <1>6, <2>1, <2>2 DEF ReportsTrue, Platform!Outcomes
    <2>4. ReportsOnce'
      <3>1. \A a \in Platform!Attempts : \A o \in Platform!Outcomes : received'[a][o] <= 1 /\ ~Got(a, o)'
        BY <1>1, <1>4 DEF Got
      <3>2. inflight' = {}
        BY <1>1, <1>4
      <3> QED BY <1>9, <3>1, <3>2 DEF ReportsOnce
    <2>5. ReportsThere'
      BY <1>4, <1>6, <2>1, <2>2 DEF ReportsThere, Platform!Outcomes
    <2> QED BY <2>3, <2>4, <2>5 DEF ReportsInv
  <1>11. EndInv'
    BY <1>1 DEF PlatformInv, EndInv, Platform!GaveUpForAReason
  <1> QED BY <1>7, <1>8, <1>10, <1>11 DEF PlatformInv

\* The committed stream ends, for one reason or another.
LEMMA StreamSteps ==
  ASSUME PlatformInv, Platform!StreamEnds \/ Platform!ClientGone PROVE PlatformInv'
  <1>1. /\ pc \in {"unpulled", "flowing"} /\ pc' = "over" /\ answer = "ok" /\ streaming
        /\ UNCHANGED <<streaming, n, cur, locked, lastError, toolsRun, pending, received>>
    BY DEF PlatformInv, WalkInv, Platform!StreamEnds, Platform!StreamEndsWith, Platform!ClientGone,
           Platform!request
  <1>2. /\ n \in Nat /\ cur \in Nat /\ cur > 0 /\ n <= MaxAttempts /\ cur <= n
        /\ fate \in [Platform!Attempts -> Platform!Fates]
        /\ background \in Seq(Platform!Report)
    BY <1>1 DEF PlatformInv, PlatformTypes, Before, Walking
  <1>3. cur \in Platform!Attempts
    BY <1>2, GatewayAssumption DEF Platform!Attempts
  <1>4. /\ Len(background) = cur - 1
        /\ \A i \in 1..Len(background) : background[i] = [attempt |-> i, outcome |-> "error"]
        /\ inflight = {} /\ \A a \in Platform!Attempts, o \in Platform!Outcomes : received[a][o] = 0
        /\ \A a \in Platform!Attempts : fate[a] = IF a < cur THEN "failed" ELSE "untried"
    BY <1>1, <1>2 DEF PlatformInv, WalkInv, Before, Walking
  <1>5. ASSUME NEW i \in 1..Len(background)
        PROVE  background[i].attempt = i /\ background[i].outcome = "error" /\ i < cur
    <2>1. background[i] = [attempt |-> i, outcome |-> "error"]
      BY <1>4
    <2>2. i < cur
      BY <1>2, <1>4
    <2> QED BY <2>1, <2>2
  <1>6. \A a \in Platform!Attempts : a < cur => a \in 1..Len(background)
    BY <1>2, <1>4, GatewayAssumption DEF Platform!Attempts
  <1>7. cur \in Nat /\ ~(cur < cur)
    BY <1>2
  <1>8. WalkInv'
    BY <1>1 DEF WalkInv, Before, Walking
  <1>9. CASE Platform!StreamEnds
    <2>1. PICK how \in {"served", "broken", "unbilled"} :
            /\ fate' = [fate EXCEPT ![cur] = how]
            /\ inflight' = inflight \cup UNION
                 { Platform!FirstPosts(cur, o, "task") : o \in CASE how = "served" -> {"success"}
                                                               [] how = "broken" -> {"error"}
                                                               [] OTHER          -> {} }
      BY <1>9 DEF Platform!StreamEnds, Platform!StreamEndsWith
    <2>2. backend' = FALSE /\ answer' = answer /\ background' = background /\ mishaps' = mishaps
      BY <1>9 DEF Platform!StreamEnds, Platform!StreamEndsWith
    <2> DEFINE os == CASE how = "served" -> {"success"} [] how = "broken" -> {"error"} [] OTHER -> {}
               first(o) == Platform!FirstPosts(cur, o, "task")
    <2>3. inflight' = UNION {first(o) : o \in os} /\ os \subseteq Platform!Outcomes
      BY <1>4, <2>1 DEF Platform!Outcomes
    <2>4. /\ "success" \in os <=> how = "served"
          /\ "error" \in os <=> how = "broken"
      BY <2>1
    <2>5. \A o \in Platform!Outcomes :
            /\ \A p \in first(o) : p \in Posts /\ p.attempt = cur /\ p.outcome = o /\ \A q \in first(o) : p = q
            /\ MaxTries > 0 => first(o) # {}
      <3>1. "task" \in Platform!Vias
        BY DEF Platform!Vias
      <3> QED BY <1>3, <3>1, FirstPostsAre
    <2>6. \A o1, o2 \in os : o1 = o2
      BY <2>1
    <2> HIDE DEF os, first
    <2>7. /\ \A a \in Platform!Attempts : fate'[a] = IF a = cur THEN how ELSE fate[a]
          /\ fate' \in [Platform!Attempts -> Platform!Fates]
      BY <1>2, <2>1 DEF Platform!Fates
    <2>8. PlatformTypes'
      <3>1. inflight' \subseteq Posts
        BY <2>3, <2>5
      <3> QED BY <1>1, <2>2, <2>7, <3>1 DEF PlatformInv, PlatformTypes, Before, Walking
    <2>9. ReportsInv'
      <3>1. ASSUME NEW a \in Platform!Attempts, NEW o \in Platform!Outcomes
            PROVE  /\ Sent(a, o)' => (a < cur /\ o = "error") \/ (a = cur /\ o \in os)
                   /\ a < cur /\ o = "error" => Sent(a, o)'
                   /\ MaxTries > 0 /\ a = cur /\ o \in os => Sent(a, o)'
        <4>1. ~Got(a, o)'
          BY <1>1, <1>4 DEF Got
        <4>2. Queued(a, o)' <=> a < cur /\ o = "error"
          BY <1>5, <1>6, <2>2 DEF Queued
        <4>3. ASSUME Posted(a, o)' PROVE a = cur /\ o \in os
          <5>1. PICK p \in inflight' : p.attempt = a /\ p.outcome = o
            BY <4>3 DEF Posted
          <5>2. PICK o2 \in os : p \in first(o2)
            BY <2>3, <5>1
          <5> QED BY <2>3, <2>5, <5>1, <5>2
        <4>4. ASSUME MaxTries > 0, a = cur, o \in os PROVE Posted(a, o)'
          <5>1. PICK p \in first(o) : TRUE
            BY <2>5, <4>4
          <5>2. p \in inflight'
            BY <2>3, <4>4, <5>1
          <5> QED BY <2>5, <4>4, <5>1, <5>2 DEF Posted
        <4> QED BY <4>1, <4>2, <4>3, <4>4 DEF Sent
      <3>2. ReportsTrue'
        BY <1>1, <1>4, <1>7, <2>2, <2>4, <2>7, <3>1 DEF ReportsTrue, Platform!Outcomes
      <3>3. ReportsOnce'
        <4>1. \A a \in Platform!Attempts : \A o \in Platform!Outcomes : received'[a][o] <= 1 /\ ~Got(a, o)'
          BY <1>1, <1>4 DEF Got
        <4>2. \A p \in inflight' : p.attempt = cur /\ \E o \in os : p \in first(o)
          BY <2>3, <2>5
        <4>3. \A p \in inflight' : \A q \in inflight' : p = q
          BY <2>3, <2>5, <2>6, <4>2
        <4> QED BY <1>5, <1>7, <2>2, <4>1, <4>2, <4>3 DEF ReportsOnce
      <3>4. ReportsThere'
        BY <1>4, <2>1, <2>4, <2>7, <3>1 DEF ReportsThere, Platform!Outcomes
      <3> QED BY <3>2, <3>3, <3>4 DEF ReportsInv
    <2>10. EndInv'
      BY <1>1, <2>2 DEF PlatformInv, EndInv, Platform!GaveUpForAReason
    <2> QED BY <1>8, <2>8, <2>9, <2>10 DEF PlatformInv
  <1>10. CASE Platform!ClientGone
    <2>1. /\ fate' = [fate EXCEPT ![cur] = "left"] /\ mishaps' # {} /\ answer' = "gone"
          /\ background' = background \/ background' = <<>>
          /\ inflight' = inflight
      BY <1>10 DEF Platform!ClientGone
    <2>2. /\ \A a \in Platform!Attempts : fate'[a] = IF a = cur THEN "left" ELSE fate[a]
          /\ fate' \in [Platform!Attempts -> Platform!Fates]
      BY <1>2, <2>1 DEF Platform!Fates
    <2>3. PlatformTypes'
      <3>1. background' \in Seq(Platform!Report)
        BY <1>2, <2>1, EmptySeq
      <3> QED BY <1>1, <2>1, <2>2, <3>1 DEF PlatformInv, PlatformTypes, Before, Walking
    <2>4. ReportsInv'
      <3>1. \A i \in 1..Len(background') :
              background'[i].attempt = i /\ background'[i].outcome = "error" /\ i < cur
        BY <1>5, <2>1
      <3>2. ASSUME NEW a \in Platform!Attempts, NEW o \in Platform!Outcomes, Sent(a, o)'
            PROVE  a < cur /\ o = "error"
        BY <1>1, <1>4, <2>1, <3>1, <3>2 DEF Sent, Queued, Posted, Got
      <3>3. ReportsTrue'
        BY <1>4, <1>7, <2>2, <3>2 DEF ReportsTrue, Platform!Outcomes
      <3>4. ReportsOnce'
        <4>1. \A a \in Platform!Attempts : \A o \in Platform!Outcomes : received'[a][o] <= 1 /\ ~Got(a, o)'
          BY <1>1, <1>4 DEF Got
        <4>2. inflight' = {}
          BY <1>4, <2>1
        <4> QED BY <3>1, <4>1, <4>2 DEF ReportsOnce
      <3>5. ReportsThere'
        BY <2>1 DEF ReportsThere
      <3> QED BY <3>3, <3>4, <3>5 DEF ReportsInv
    <2>5. fate'[cur'] = "left"
      BY <1>1, <1>3, <2>2
    <2>6. EndInv'
      BY <1>1, <2>1, <2>5 DEF PlatformInv, EndInv, Platform!GaveUpForAReason
    <2> QED BY <1>8, <2>3, <2>4, <2>6 DEF PlatformInv
  <1> QED BY <1>9, <1>10

-----------------------------------------------------------------------------
(***************************************************************************)
(* The steps of a request in hybrid mode: the reports.                     *)
(***************************************************************************)

\* After the walk reports only move, and get lost by mishaps alone.
LEMMA ReportsMove ==
  ASSUME PlatformInv, pc \in {"flush", "over"}, pc' \in {pc, "over"},
         UNCHANGED <<streaming, n, cur, locked, lastError, fate, toolsRun, pending>>,
         answer' = answer \/ (pc = "flush" /\ answer' = "gone"),
         (pc' = pc /\ backend' = backend) \/ backend' = FALSE,
         background' \in Seq(Platform!Report), inflight' \subseteq Posts,
         received' \in [Platform!Attempts -> [Platform!Outcomes -> Nat]],
         ReportsOnce',
         \A a \in Platform!Attempts, o \in Platform!Outcomes : Sent(a, o)' => Sent(a, o),
         MaxTries > 0 /\ mishaps' = {} =>
                          /\ mishaps = {}
                          /\ \A a \in Platform!Attempts, o \in Platform!Outcomes : Sent(a, o) => Sent(a, o)'
  PROVE  PlatformInv'
  <1>1. PlatformTypes'
    BY DEF PlatformInv, PlatformTypes, Before, Walking
  <1>2. WalkInv'
    BY DEF WalkInv, Before, Walking
  <1>3. ReportsTrue'
    BY DEF PlatformInv, ReportsInv, ReportsTrue, Platform!Outcomes
  <1>4. ReportsThere'
    BY DEF PlatformInv, ReportsInv, ReportsThere, Platform!Outcomes
  <1>5. EndInv'
    BY DEF PlatformInv, EndInv, Platform!GaveUpForAReason
  <1> QED BY <1>1, <1>2, <1>3, <1>4, <1>5 DEF PlatformInv, ReportsInv

\* The flush ends, or is given up, or the request is cancelled around the walk.
LEMMA FlushSteps ==
  ASSUME PlatformInv,
         Platform!FlushEnds \/ Platform!FlushTimesOut \/ Platform!CancelQuietly
  PROVE  PlatformInv'
  <1> USE DEF Platform!request, Platform!walk, Platform!reports
  <1>1. /\ pc' = "over" /\ backend' = FALSE
        /\ UNCHANGED <<streaming, n, cur, locked, lastError, fate, toolsRun, pending, background, received>>
        /\ inflight' \subseteq inflight /\ mishaps \subseteq mishaps'
        /\ inflight' = inflight \/ mishaps' # {}
        /\ answer' = answer \/ answer' = "gone"
    BY DEF Platform!FlushEnds, Platform!FlushTimesOut, Platform!CancelQuietly
  <1>2. CASE pc \in {"start", "open"}
    <2>1. inflight = {} /\ n \in Nat /\ n <= MaxAttempts /\ cur <= n
      BY <1>2 DEF PlatformInv, PlatformTypes, WalkInv, Before, Walking
    <2> QED BY <1>1, <1>2, <2>1, EndsUntried
  <1>3. CASE pc = "flush"
    <2>1. /\ background' \in Seq(Platform!Report) /\ inflight' \subseteq Posts
          /\ received' \in [Platform!Attempts -> [Platform!Outcomes -> Nat]]
      BY <1>1 DEF PlatformInv, PlatformTypes
    <2>2. \A a \in Platform!Attempts, o \in Platform!Outcomes : Sent(a, o)' => Sent(a, o)
      BY <1>1 DEF Sent, Queued, Posted, Got
    <2>3. ReportsOnce'
      BY <1>1 DEF PlatformInv, ReportsInv, ReportsOnce, Queued, Posted, Got
    <2>4. mishaps' = {} => \A a \in Platform!Attempts, o \in Platform!Outcomes : Sent(a, o) => Sent(a, o)'
      BY <1>1 DEF Sent, Queued, Posted, Got
    <2> QED BY <1>1, <1>3, <2>1, <2>2, <2>3, <2>4, ReportsMove
  <1>4. pc \in {"start", "open", "flush"}
    BY DEF Platform!FlushEnds, Platform!FlushTimesOut, Platform!CancelQuietly
  <1> QED BY <1>2, <1>3, <1>4

\* The next background task takes the first report off the queue.
LEMMA NextBackgroundStep == ASSUME PlatformInv, Platform!NextBackground PROVE PlatformInv'
  <1> DEFINE sent == Platform!FirstPosts(background[1].attempt, background[1].outcome, "background")
             p == [attempt |-> background[1].attempt, outcome |-> background[1].outcome,
                   via |-> "background", tries |-> 1, waiting |-> FALSE]
  <1>1. /\ pc = "over" /\ background # <<>> /\ background \in Seq(Platform!Report) /\ inflight \subseteq Posts
    BY DEF Platform!NextBackground, PlatformInv, PlatformTypes
  <1>2. /\ Len(background) \in Nat \ {0} /\ background[1] \in Platform!Report /\ Head(background) = background[1]
        /\ Tail(background) \in Seq(Platform!Report) /\ Len(Tail(background)) = Len(background) - 1
        /\ \A i \in 1..Len(Tail(background)) : Tail(background)[i] = background[i + 1]
    BY <1>1, HeadTailProperties
  <1>3. /\ inflight' = inflight \cup sent /\ background' = Tail(background)
        /\ UNCHANGED <<pc, streaming, n, cur, locked, lastError, fate, toolsRun, pending, answer,
                       received, backend, mishaps>>
    BY <1>2 DEF Platform!NextBackground, Platform!request, Platform!walk
  <1>4. /\ p \in Posts /\ p.attempt = background[1].attempt /\ p.outcome = background[1].outcome
        /\ sent \subseteq {p} /\ (MaxTries > 0 => p \in sent)
    <2>1. p \in Posts
      BY <1>2 DEF Posts, Platform!Report, Platform!Vias
    <2> QED BY <2>1, GatewayAssumption DEF Platform!FirstPosts
  <1> HIDE DEF p, sent
  <1>5. /\ \A i \in 1..Len(background') : i + 1 \in 1..Len(background) /\ background'[i] = background[i + 1]
        /\ 1 \in 1..Len(background)
        /\ \A i \in 1..Len(background) : i = 1 \/ (i - 1 \in 1..Len(background') /\ (i - 1) + 1 = i)
    BY <1>2, <1>3
  <1>6. ASSUME NEW a \in Platform!Attempts, NEW o \in Platform!Outcomes
        PROVE  /\ Queued(a, o) <=> Queued(a, o)' \/ (p.attempt = a /\ p.outcome = o)
               /\ Posted(a, o)' => Posted(a, o) \/ (p.attempt = a /\ p.outcome = o)
               /\ Posted(a, o) => Posted(a, o)'
               /\ MaxTries > 0 /\ p.attempt = a /\ p.outcome = o => Posted(a, o)'
               /\ Got(a, o)' <=> Got(a, o)
    <2>1. ASSUME Queued(a, o) PROVE Queued(a, o)' \/ (p.attempt = a /\ p.outcome = o)
      <3>1. PICK i \in 1..Len(background) : background[i].attempt = a /\ background[i].outcome = o
        BY <2>1 DEF Queued
      <3>2. CASE i # 1
        <4>1. i - 1 \in 1..Len(background') /\ background'[i - 1] = background[i]
          BY <1>5, <3>2
        <4> QED BY <3>1, <4>1 DEF Queued
      <3> QED BY <1>4, <3>1, <3>2
    <2>2. ASSUME Queued(a, o)' PROVE Queued(a, o)
      BY <1>5, <2>2 DEF Queued
    <2>3. p.attempt = a /\ p.outcome = o => Queued(a, o)
      BY <1>4, <1>5 DEF Queued
    <2>4. /\ Posted(a, o)' => Posted(a, o) \/ (p.attempt = a /\ p.outcome = o)
          /\ Posted(a, o) => Posted(a, o)'
          /\ MaxTries > 0 /\ p.attempt = a /\ p.outcome = o => Posted(a, o)'
      BY <1>3, <1>4 DEF Posted
    <2>5. Got(a, o)' <=> Got(a, o)
      BY <1>3 DEF Got
    <2> QED BY <2>1, <2>2, <2>3, <2>4, <2>5
  <1>7. ReportsOnce'
    <2>1. /\ \A q \in inflight : \A r \in inflight : q.attempt = r.attempt => q = r
          /\ \A q \in inflight : \A i \in 1..Len(background) : background[i].attempt # q.attempt
          /\ \A i, j \in 1..Len(background) : background[i].attempt = background[j].attempt => i = j
          /\ "outage" \notin mishaps =>
               \A a \in Platform!Attempts : \A o \in Platform!Outcomes :
                 received[a][o] <= 1 /\ (Got(a, o) => ~Queued(a, o) /\ ~Posted(a, o))
      BY DEF PlatformInv, ReportsInv, ReportsOnce
    <2>2. \A q \in inflight : q.attempt # p.attempt
      BY <1>4, <1>5, <2>1
    <2>3. \A q \in inflight' : \A r \in inflight' : q.attempt = r.attempt => q = r
      BY <1>3, <1>4, <2>1, <2>2
    <2>4. ASSUME NEW i \in 1..Len(background') PROVE i + 1 \in 1..Len(background) /\ i + 1 # 1
      BY <1>2, <1>5
    <2>5. \A q \in inflight' : \A i \in 1..Len(background') : background'[i].attempt # q.attempt
      BY <1>3, <1>4, <1>5, <2>1, <2>4
    <2>6. ASSUME NEW i \in 1..Len(background'), NEW j \in 1..Len(background'),
                 background'[i].attempt = background'[j].attempt
          PROVE  i = j
      <3>1. i + 1 = j + 1
        BY <1>5, <2>1, <2>4, <2>6
      <3> QED BY <3>1
    <2>7. "outage" \notin mishaps' =>
             \A a \in Platform!Attempts : \A o \in Platform!Outcomes :
               received'[a][o] <= 1 /\ (Got(a, o)' => ~Queued(a, o)' /\ ~Posted(a, o)')
      BY <1>3, <1>6, <2>1
    <2> QED BY <2>3, <2>5, <2>6, <2>7 DEF ReportsOnce
  <1>8. \A a \in Platform!Attempts, o \in Platform!Outcomes :
          (Sent(a, o)' => Sent(a, o)) /\ (MaxTries > 0 /\ Sent(a, o) => Sent(a, o)')
    BY <1>6 DEF Sent
  <1>9. /\ background' \in Seq(Platform!Report) /\ inflight' \subseteq Posts
        /\ received' \in [Platform!Attempts -> [Platform!Outcomes -> Nat]]
    BY <1>1, <1>2, <1>3, <1>4 DEF PlatformInv, PlatformTypes
  <1> QED BY <1>1, <1>3, <1>7, <1>8, <1>9, ReportsMove

\* A post is accepted, refused, tried again or given up.
LEMMA PostMoves ==
  ASSUME PlatformInv, NEW p \in inflight, NEW p2 \in Posts,
         p2.attempt = p.attempt, p2.outcome = p.outcome,
         UNCHANGED <<pc, streaming, n, cur, locked, lastError, fate, toolsRun, answer, pending, backend>>,
         NEW again \in BOOLEAN, inflight' = (inflight \ {p}) \cup (IF again THEN {p2} ELSE {}),
         NEW recorded \in BOOLEAN,
         received' = IF recorded THEN [received EXCEPT ![p.attempt][p.outcome] = @ + 1] ELSE received,
         background' \in {background, <<>>}, mishaps \subseteq mishaps',
         "outage" \notin mishaps' => ~(again /\ recorded),
         mishaps' = {} => background' = background /\ (again \/ recorded)
  PROVE  PlatformInv'
  <1> DEFINE att == p.attempt
             out == p.outcome
  <1>1. /\ pc \in {"flush", "over"} /\ att \in Platform!Attempts /\ out \in Platform!Outcomes
        /\ background \in Seq(Platform!Report) /\ inflight \subseteq Posts
        /\ received \in [Platform!Attempts -> [Platform!Outcomes -> Nat]]
    BY DEF PlatformInv, PlatformTypes, WalkInv, Posts
  <1> HIDE DEF att, out
  <1>2. /\ received' \in [Platform!Attempts -> [Platform!Outcomes -> Nat]]
        /\ \A a \in Platform!Attempts : \A o \in Platform!Outcomes :
             received'[a][o] = IF recorded /\ a = att /\ o = out THEN received[a][o] + 1 ELSE received[a][o]
    BY <1>1 DEF att, out
  <1>3. /\ inflight' \subseteq Posts /\ background' \in Seq(Platform!Report)
    BY <1>1, EmptySeq
  <1>4. /\ \A q \in inflight : \A r \in inflight : q.attempt = r.attempt => q = r
        /\ \A q \in inflight : \A i \in 1..Len(background) : background[i].attempt # q.attempt
        /\ \A i, j \in 1..Len(background) : background[i].attempt = background[j].attempt => i = j
        /\ "outage" \notin mishaps =>
             \A a \in Platform!Attempts : \A o \in Platform!Outcomes :
               received[a][o] <= 1 /\ (Got(a, o) => ~Queued(a, o) /\ ~Posted(a, o))
    BY DEF PlatformInv, ReportsInv, ReportsOnce
  <1>5. /\ Posted(att, out)
        /\ \A q \in inflight' : \/ q \in inflight /\ q # p /\ q.attempt # att
                                \/ again /\ q = p2 /\ q.attempt = att /\ q.outcome = out
    BY <1>4 DEF Posted, att, out
  <1>6. \A i \in 1..Len(background') : i \in 1..Len(background) /\ background'[i] = background[i]
                                       /\ background[i].attempt # att
    BY <1>4 DEF att
  <1>7. ASSUME NEW a \in Platform!Attempts, NEW o \in Platform!Outcomes
        PROVE  /\ Queued(a, o)' => Queued(a, o) /\ a # att
               /\ Posted(a, o)' => (Posted(a, o) /\ a # att) \/ (again /\ a = att /\ o = out)
               /\ Got(a, o)' => Got(a, o) \/ (recorded /\ a = att /\ o = out)
               /\ Got(a, o) => Got(a, o)'
               /\ recorded /\ a = att /\ o = out => Got(a, o)'
               /\ again /\ a = att /\ o = out => Posted(a, o)'
               /\ Posted(a, o) => Posted(a, o)' \/ (a = att /\ o = out)
               /\ background' = background => (Queued(a, o)' <=> Queued(a, o))
    <2>1. Queued(a, o)' => Queued(a, o) /\ a # att
      BY <1>6 DEF Queued
    <2>2. Posted(a, o)' => (Posted(a, o) /\ a # att) \/ (again /\ a = att /\ o = out)
      BY <1>5 DEF Posted
    <2>3. received[a][o] \in Nat
      BY <1>1
    <2>4. /\ Got(a, o)' => Got(a, o) \/ (recorded /\ a = att /\ o = out)
          /\ Got(a, o) => Got(a, o)'
          /\ recorded /\ a = att /\ o = out => Got(a, o)'
      BY <1>2, <2>3 DEF Got
    <2>5. again /\ a = att /\ o = out => Posted(a, o)'
      BY DEF Posted, att, out
    <2>6. Posted(a, o) => Posted(a, o)' \/ (a = att /\ o = out)
      BY DEF Posted, att, out
    <2>7. background' = background => (Queued(a, o)' <=> Queued(a, o))
      BY DEF Queued
    <2> QED BY <2>1, <2>2, <2>4, <2>5, <2>6, <2>7
  <1>8. ReportsOnce'
    <2>1. \A q \in inflight' : \A r \in inflight' : q.attempt = r.attempt => q = r
      BY <1>4, <1>5
    <2>2. \A q \in inflight' : \A i \in 1..Len(background') : background'[i].attempt # q.attempt
      BY <1>4, <1>5, <1>6
    <2>3. \A i, j \in 1..Len(background') : background'[i].attempt = background'[j].attempt => i = j
      BY <1>4, <1>6
    <2>4. ASSUME "outage" \notin mishaps', NEW a \in Platform!Attempts, NEW o \in Platform!Outcomes
          PROVE  received'[a][o] <= 1 /\ (Got(a, o)' => ~Queued(a, o)' /\ ~Posted(a, o)')
      <3>1. received[a][o] \in Nat /\ received[a][o] <= 1 /\ (Got(a, o) => ~Queued(a, o) /\ ~Posted(a, o))
        BY <1>1, <1>4, <2>4
      <3>2. ~(again /\ recorded)
        BY <2>4
      <3>3. CASE a = att /\ o = out
        <4>1. received[a][o] = 0 /\ ~Got(a, o)
          BY <1>5, <3>1, <3>3 DEF Got
        <4>2. received'[a][o] <= 1
          BY <1>2, <4>1
        <4> QED BY <1>7, <3>2, <3>3, <4>1, <4>2
      <3>4. CASE ~(a = att /\ o = out)
        BY <1>2, <1>7, <3>1, <3>4
      <3> QED BY <3>3, <3>4
    <2> QED BY <2>1, <2>2, <2>3, <2>4 DEF ReportsOnce
  <1>9. \A a \in Platform!Attempts, o \in Platform!Outcomes : Sent(a, o)' => Sent(a, o)
    BY <1>5, <1>7 DEF Sent
  <1>10. mishaps' = {} => /\ mishaps = {}
                          /\ \A a \in Platform!Attempts, o \in Platform!Outcomes : Sent(a, o) => Sent(a, o)'
    BY <1>7 DEF Sent
  <1> QED BY <1>1, <1>2, <1>3, <1>8, <1>9, <1>10, ReportsMove

LEMMA PostStepKeeps == ASSUME PlatformInv, Platform!PostStep PROVE PlatformInv'
  <1> USE DEF Platform!outside, Platform!request, Platform!walk
  <1>1. PICK p \in inflight : \/ Platform!PostAccepted(p) \/ Platform!PostRefused(p) \/ Platform!PostFails(p)
                              \/ Platform!PostRaises(p) \/ Platform!Backoff(p)
    BY DEF Platform!PostStep
  <1>2. p \in Posts
    BY DEF PlatformInv, PlatformTypes
  <1> DEFINE Kept == UNCHANGED <<pc, streaming, n, cur, locked, lastError, fate, toolsRun, answer,
                                 pending, backend>>
             Received(b) == received' = IF b THEN [received EXCEPT ![p.attempt][p.outcome] = @ + 1] ELSE received
             Inflight(b, q) == inflight' = (inflight \ {p}) \cup (IF b THEN {q} ELSE {})
  <1>3. CASE Platform!PostAccepted(p)
    <2>1. Kept /\ Received(TRUE) /\ Inflight(FALSE, p) /\ UNCHANGED <<background, mishaps>>
      BY <1>3 DEF Platform!PostAccepted, Platform!Recorded, Platform!PostDone
    <2> QED BY <1>2, <2>1, PostMoves
  <1>4. CASE Platform!PostRefused(p)
    <2>1. /\ Kept /\ Received(FALSE) /\ Inflight(FALSE, p) /\ UNCHANGED background
          /\ mishaps \subseteq mishaps' /\ mishaps' # {}
      BY <1>4 DEF Platform!PostRefused, Platform!PostDone
    <2> QED BY <1>2, <2>1, PostMoves
  <1>5. CASE Platform!PostFails(p)
    <2> DEFINE q == [p EXCEPT !.waiting = TRUE]
    <2>1. q \in Posts /\ q.attempt = p.attempt /\ q.outcome = p.outcome
      BY <1>2 DEF Posts
    <2> HIDE DEF q
    <2>2. PICK r \in BOOLEAN : Received(r)
      <3>1. Received(TRUE) \/ Received(FALSE)
        BY <1>5 DEF Platform!PostFails, Platform!Recorded
      <3> QED BY <3>1
    <2>3. PICK a \in BOOLEAN : Inflight(a, q)
      <3>1. Inflight(TRUE, q) \/ Inflight(FALSE, q)
        BY <1>5 DEF Platform!PostFails, Platform!PostAgain, q
      <3> QED BY <3>1
    <2>4. Kept /\ UNCHANGED background /\ mishaps \subseteq mishaps' /\ "outage" \in mishaps'
      BY <1>5 DEF Platform!PostFails
    <2> QED BY <1>2, <2>1, <2>2, <2>3, <2>4, PostMoves
  <1>6. CASE Platform!PostRaises(p)
    <2>1. PICK r \in BOOLEAN : Received(r)
      <3>1. Received(TRUE) \/ Received(FALSE)
        BY <1>6 DEF Platform!PostRaises, Platform!Recorded
      <3> QED BY <3>1
    <2>2. /\ Kept /\ Inflight(FALSE, p) /\ background' \in {background, <<>>}
          /\ mishaps \subseteq mishaps' /\ mishaps' # {}
      BY <1>6 DEF Platform!PostRaises, Platform!PostDone
    <2> QED BY <1>2, <2>1, <2>2, PostMoves
  <1>7. CASE Platform!Backoff(p)
    <2> DEFINE q == [p EXCEPT !.waiting = FALSE, !.tries = @ + 1]
    <2>1. q \in Posts /\ q.attempt = p.attempt /\ q.outcome = p.outcome
      <3> DEFINE u == [p EXCEPT !.waiting = FALSE]
      <3>1. u \in Posts /\ u.attempt = p.attempt /\ u.outcome = p.outcome
        BY <1>2 DEF Posts
      <3>2. q = [u EXCEPT !.tries = @ + 1]
        OBVIOUS
      <3> HIDE DEF u
      <3>3. u.tries + 1 \in Nat
        BY <3>1 DEF Posts
      <3> QED BY <3>1, <3>2, <3>3 DEF Posts
    <2>2. Kept /\ Received(FALSE) /\ Inflight(TRUE, q) /\ UNCHANGED <<background, mishaps>>
      BY <1>7 DEF Platform!Backoff
    <2> HIDE DEF q
    <2> QED BY <1>2, <2>1, <2>2, PostMoves
  <1> QED BY <1>1, <1>3, <1>4, <1>5, <1>6, <1>7

LEMMA PlatformStep == ASSUME PlatformInv, Platform!Next PROVE PlatformInv'
  BY OpeningSteps, WalkOnSteps, FailureSteps, RunToolsStep, SucceedStep, StreamSteps, FlushSteps,
     NextBackgroundStep, PostStepKeeps
  DEF Platform!Next, Platform!Walk, Platform!Mishap, Platform!Flush, Platform!Channel

\* "served" is the other mode's word.
LEMMA NeverServed == ASSUME Platform!Next, answer # "served" PROVE answer' # "served"
  <1>1. ASSUME NEW verdict, NEW lost, Platform!EndInError(verdict, lost), verdict # "served"
        PROVE  answer' # "served"
    BY <1>1 DEF Platform!EndInError
  <1>2. \A kind : Platform!Verdict(kind) # "served"
    BY DEF Platform!Verdict
  <1>3. ASSUME NEW kind, Platform!AttemptFails(kind) PROVE answer' # "served"
    BY <1>1, <1>2, <1>3 DEF Platform!AttemptFails
  <1>4. CASE \/ Platform!CallFails \/ Platform!CallRejected \/ Platform!RunTools
             \/ Platform!CancelAttempt \/ Platform!UnknownProvider
    BY <1>1, <1>2, <1>3, <1>4
    DEF Platform!CallFails, Platform!CallRejected, Platform!RunTools, Platform!CancelAttempt,
        Platform!UnknownProvider
  <1>5. CASE \/ Platform!Resolve \/ Platform!OpenBackend \/ Platform!OpenSingleAttempt \/ Platform!ToolRound
             \/ Platform!Succeed \/ Platform!FirstChunk \/ Platform!StartPulling \/ Platform!StreamEnds
             \/ Platform!ClientGone \/ Platform!CancelQuietly \/ Platform!FlushEnds
             \/ Platform!FlushTimesOut \/ Platform!NextBackground
    BY <1>5
    DEF Platform!Resolve, Platform!EnsureProvidersSupportResponses, Platform!OpenBackend,
        Platform!OpenSingleAttempt, Platform!ToolRound, Platform!Succeed, Platform!FirstChunk,
        Platform!StartPulling, Platform!StreamEnds, Platform!StreamEndsWith, Platform!ClientGone,
        Platform!CancelQuietly, Platform!FlushEnds, Platform!FlushTimesOut, Platform!NextBackground
  <1>6. CASE Platform!PostStep
    BY <1>6
    DEF Platform!PostStep, Platform!PostAccepted, Platform!PostRefused, Platform!PostFails,
        Platform!PostRaises, Platform!Backoff, Platform!outside
  <1> QED BY <1>4, <1>5, <1>6
      DEF Platform!Next, Platform!Walk, Platform!Mishap, Platform!Flush, Platform!Channel

-----------------------------------------------------------------------------
(***************************************************************************)
(* The process.                                                            *)
(***************************************************************************)
LEMMA ServiceSame == ASSUME ServiceInv, UNCHANGED <<request, service>> PROVE ServiceInv'
  BY DEF ServiceInv, MeterInv, StandsInv, Metered, Billable, Unsettled, Unanswered, Streaming,
         Service!StreamRow, request, service

LEMMA WriterSame ==
  ASSUME WriterInv, UNCHANGED writer, pc' = pc \/ pc # "over" PROVE WriterInv'
  <1>1. Writer!Log' = Writer!Log
    BY DEF Writer!Log, writer
  <1> QED BY <1>1 DEF WriterInv, writer

LEMMA PlatformSame == ASSUME PlatformIdle, UNCHANGED platform PROVE PlatformIdle'
  BY DEF PlatformIdle, platform

LEMMA Kinds ==
  \A kind \in {"served", "free", "estimated", "failed"} : kind \in Rows /\ kind \notin Others
  BY GatewayAssumption DEF Rows

LEMMA GatewayInit == ASSUME Init PROVE GatewayInv
  <1> USE DEF Init
  <1>1. Service!Init /\ Writer!Init /\ Platform!Init
    OBVIOUS
  <1>2. CASE hybrid
    <2>1. ServiceIdle /\ answer # "served"
      BY <1>1 DEF Service!Init, ServiceIdle
    <2>2. puts = <<>> /\ commits = <<>> /\ stop = "not called"
      BY <1>1 DEF Writer!Init
    <2>3. PlatformTypes
      BY <1>1, EmptySeq, GatewayAssumption
      DEF Platform!Init, PlatformTypes, Platform!Fates, Platform!Outcomes, Before, Walking
    <2>4. WalkInv
      <3>1. \A a \in Platform!Attempts : ~(a < 0) /\ a \notin pending
        BY <1>1 DEF Platform!Attempts, Platform!Init
      <3> QED BY <1>1, <3>1 DEF Platform!Init, WalkInv, Walking
    <2>5. ReportsInv
      <3>1. \A a \in Platform!Attempts, o \in Platform!Outcomes : ~Sent(a, o) /\ received[a][o] = 0
        BY <1>1 DEF Platform!Init, Sent, Queued, Posted, Got
      <3> QED BY <1>1, <3>1
          DEF ReportsInv, ReportsTrue, ReportsOnce, ReportsThere, Platform!Outcomes, Platform!Init, Got
    <2>6. EndInv
      BY <1>1 DEF Platform!Init, EndInv, Platform!GaveUpForAReason
    <2> QED BY <1>2, <2>1, <2>2, <2>3, <2>4, <2>5, <2>6 DEF GatewayInv, PlatformInv
  <1>3. CASE ~hybrid
    <2>1. PlatformIdle
      BY <1>1 DEF Platform!Init, PlatformIdle
    <2>2. ServiceInv
      <3>0. /\ pc = "start" /\ handle = FALSE /\ settled = FALSE /\ answer = "none"
            /\ releases = 0 /\ charges = 0 /\ rows = {} /\ mishaps = {}
            /\ usage = [seen |-> FALSE, counts |-> {}, total |-> {}]
        BY <1>1, Zenon DEF Service!Init, Service!NoUsage
      <3>a. ~usage.seen
        BY <3>0
      <3>b. ~handle /\ handle \in BOOLEAN /\ ~settled
        BY <3>0
      <3>1. /\ pc = "start" /\ ~handle /\ handle \in BOOLEAN /\ ~settled /\ ~usage.seen /\ answer = "none"
            /\ releases = 0 /\ charges = 0 /\ rows = {} /\ mishaps = {}
        BY <3>0, <3>a, <3>b, Zenon
      <3>2. MeterInv
        <4>1. format \in Formats /\ stated = {} /\ usage = [seen |-> FALSE, counts |-> {}, total |-> {}]
          BY <1>1 DEF Service!Init, Service!NoUsage
        <4>2. usage \in [seen : BOOLEAN, counts : SUBSET Service!Counts, total : SUBSET Service!Counts]
          BY <4>1
        <4>3. usage.counts = {} /\ usage.total = {}
          BY <4>1
        <4> QED BY <4>1, <4>2, <4>3 DEF MeterInv
      <3>3. StandsInv
        BY <3>1 DEF StandsInv, Metered, Billable, Streaming
      <3> QED BY <3>1, <3>2, <3>3 DEF ServiceInv, Service!PCs
    <2>3. WriterInv /\ RowsInv
      <3>1. Writer!Log = <<>>
        BY <1>1, FlattenEmpty, WriterNames DEF Writer!Init
      <3> QED BY <1>1, <3>1, EmptyOnce, EmptySeq
          DEF Service!Init, Writer!Init, WriterInv, RowsInv, Places, Apart
    <2> QED BY <1>3, <2>1, <2>2, <2>3 DEF GatewayInv
  <1> QED BY <1>2, <1>3

LEMMA ServeStep == ASSUME GatewayInv, Serve PROVE GatewayInv'
  <1>1. /\ ~hybrid /\ ~hybrid' /\ PlatformIdle' /\ ServiceInv /\ WriterInv /\ RowsInv /\ Service!Next
    BY PlatformSame DEF GatewayInv, Serve
  <1>2. ServiceInv' /\ pc # "over"
    BY <1>1, ServiceStep, OverIsOver
  <1>3. CASE rows' = rows
    <2>1. UNCHANGED writer
      BY <1>3 DEF Serve
    <2>2. WriterInv' /\ RowsInv'
      BY <1>1, <1>2, <1>3, <2>1, WriterSame DEF RowsInv, writer
    <2> QED BY <1>1, <1>2, <2>2 DEF GatewayInv
  <1>4. CASE rows' # rows
    <2>1. PICK row \in rows' : row \notin rows /\ Writer!Put(row)
      BY <1>4 DEF Serve
    <2>2. PICK kind \in {"served", "free", "estimated", "failed"} : rows' = rows \cup {kind}
      BY <1>1, <1>4, RowStep
    <2>3. row = kind /\ row \in Rows
      BY <2>1, <2>2, Kinds
    <2>4. WriterInv' /\ \A x : x \in ToSet(puts') <=> x \in ToSet(puts) \/ x = row
      BY <1>1, <1>2, <2>1, <2>3, PutStep
    <2>5. RowsInv'
      BY <1>1, <2>2, <2>3, <2>4 DEF RowsInv
    <2> QED BY <1>1, <1>2, <2>4, <2>5 DEF GatewayInv
  <1> QED BY <1>3, <1>4

LEMMA LogSteps ==
  ASSUME GatewayInv, OtherRequestLogs \/ WriteLog \/ EndLifespan PROVE GatewayInv'
  <1>1. /\ ~hybrid /\ ~hybrid' /\ UNCHANGED <<request, service, platform>>
        /\ PlatformIdle /\ ServiceInv /\ WriterInv /\ RowsInv /\ pc' = pc /\ rows' = rows
    <2>1. ~hybrid /\ UNCHANGED <<hybrid, request, service, platform>>
      BY DEF OtherRequestLogs, WriteLog, EndLifespan
    <2>2. hybrid' = hybrid /\ pc' = pc /\ rows' = rows
      BY <2>1 DEF request, service
    <2> QED BY <2>1, <2>2 DEF GatewayInv
  <1>2. PlatformIdle' /\ ServiceInv'
    BY <1>1, PlatformSame, ServiceSame
  <1>3. CASE OtherRequestLogs
    <2>1. PICK row \in Others : Writer!Put(row)
      BY <1>3 DEF OtherRequestLogs
    <2>2. row \in Rows
      BY DEF Rows
    <2>3. WriterInv' /\ \A x : x \in ToSet(puts') <=> x \in ToSet(puts) \/ x = row
      BY <1>1, <2>1, <2>2, PutStep
    <2>4. RowsInv'
      BY <1>1, <2>3, Kinds DEF RowsInv
    <2> QED BY <1>1, <1>2, <2>3, <2>4 DEF GatewayInv
  <1>4. CASE WriteLog \/ EndLifespan
    <2>1. WriterInv' /\ puts' = puts
      <3>1. puts' = puts
        BY <1>4
        DEF WriteLog, EndLifespan, Writer!Task, Writer!Shutdown, Writer!Collect, Writer!Flush,
            Writer!FlushFails, Writer!TaskCancelled, Writer!FlushAll, Writer!LastFlush, Writer!Stop
      <3> QED BY <1>1, <1>4, <3>1, TaskStep, ShutdownStep DEF WriteLog, EndLifespan
    <2>2. RowsInv'
      BY <1>1, <2>1 DEF RowsInv
    <2> QED BY <1>1, <1>2, <2>1, <2>2 DEF GatewayInv
  <1> QED BY <1>3, <1>4

LEMMA WalkStep == ASSUME GatewayInv, Walk(Platform!Next) PROVE GatewayInv'
  <1>1. /\ hybrid /\ hybrid' /\ Platform!Next /\ PlatformInv /\ ServiceIdle /\ answer # "served"
        /\ UNCHANGED <<service, writer>> /\ puts = <<>> /\ commits = <<>> /\ stop = "not called"
    BY DEF GatewayInv, Walk
  <1>2. PlatformInv' /\ answer' # "served"
    BY <1>1, PlatformStep, NeverServed
  <1>3. ServiceIdle' /\ puts' = <<>> /\ commits' = <<>> /\ stop' = "not called"
    BY <1>1 DEF ServiceIdle, service, writer
  <1> QED BY <1>1, <1>2, <1>3 DEF GatewayInv

LEMMA StutterStep == ASSUME GatewayInv, UNCHANGED vars PROVE GatewayInv'
  <1>1. UNCHANGED <<hybrid, request, service, writer, platform>>
    BY DEF vars
  <1>2. CASE ~hybrid
    <2>1. PlatformIdle' /\ ServiceInv' /\ WriterInv' /\ RowsInv'
      BY <1>1, <1>2, PlatformSame, ServiceSame, WriterSame
      DEF GatewayInv, RowsInv, request, service, writer
    <2> QED BY <1>1, <1>2, <2>1 DEF GatewayInv
  <1>3. CASE hybrid
    <2>1. PlatformTypes' /\ WalkInv' /\ EndInv'
      BY <1>1, <1>3
      DEF GatewayInv, PlatformInv, PlatformTypes, WalkInv, EndInv, Platform!GaveUpForAReason,
          Before, Walking, request, platform
    <2>2. ReportsInv'
      <3>1. /\ background' = background /\ inflight' = inflight /\ received' = received /\ fate' = fate
            /\ pc' = pc /\ answer' = answer /\ mishaps' = mishaps /\ ReportsInv
        BY <1>1, <1>3 DEF request, platform, GatewayInv, PlatformInv
      <3>2. \A a, o : /\ Sent(a, o)' <=> Sent(a, o)
                      /\ Queued(a, o)' <=> Queued(a, o)
                      /\ Posted(a, o)' <=> Posted(a, o)
                      /\ Got(a, o)' <=> Got(a, o)
        BY <3>1 DEF Sent, Queued, Posted, Got
      <3>3. ReportsTrue'
        BY <3>1, <3>2 DEF ReportsInv, ReportsTrue
      <3>4. ReportsOnce'
        BY <3>1, <3>2 DEF ReportsInv, ReportsOnce
      <3>5. ReportsThere'
        BY <3>1, <3>2 DEF ReportsInv, ReportsThere
      <3> QED BY <3>3, <3>4, <3>5 DEF ReportsInv
    <2> QED BY <1>1, <1>3, <2>1, <2>2
        DEF GatewayInv, PlatformInv, ServiceIdle, request, service, writer
  <1> QED BY <1>2, <1>3

THEOREM GatewayKeepsInv == Spec => []GatewayInv
  <1>1. Init => GatewayInv
    BY GatewayInit
  <1>2. GatewayInv /\ [Next]_vars => GatewayInv'
    BY ServeStep, LogSteps, WalkStep, StutterStep DEF Next
  <1> QED BY <1>1, <1>2, PTL DEF Spec

-----------------------------------------------------------------------------
(***************************************************************************)
(* What follows.                                                           *)
(***************************************************************************)

\* Whatever fails in a standalone request and whichever handler runs after it,
\* its spend is written at most once, after the row of a metered response; what
\* was served is charged and what ended in error is not, but for a mishap; the
\* row holds every count the provider stated.
THEOREM BillRight == Spec => []BillIsRight
  <1>1. ASSUME GatewayInv, hybrid PROVE BillIsRight
    <2>1. charges = 0 /\ rows = {} /\ answer # "served"
      BY <1>1 DEF GatewayInv, ServiceIdle
    <2> QED BY <2>1
        DEF BillIsRight, Service!ChargedOnce, Service!ServedIsCharged, Service!ErrorNotCharged, Service!RowIsWhole
  <1>2. ASSUME GatewayInv, ~hybrid PROVE BillIsRight
    <2>1. MeterInv /\ StandsInv
      BY <1>2 DEF GatewayInv, ServiceInv
    <2>2. Service!ChargedOnce /\ Service!ErrorNotCharged
      BY <2>1 DEF StandsInv, Metered, Service!ChargedOnce, Service!ErrorNotCharged
    <2>3. Service!ServedIsCharged
      BY <2>1 DEF StandsInv, Service!ServedIsCharged
    <2>4. Service!RowIsWhole
      BY <2>1 DEF MeterInv, Service!RowIsWhole
    <2> QED BY <2>2, <2>3, <2>4 DEF BillIsRight
  <1>3. GatewayInv => BillIsRight
    BY <1>1, <1>2
  <1> QED BY <1>3, GatewayKeepsInv, PTL

\* A hold is left behind, or given back out of other requests' holds, only where
\* nothing could settle it or a settlement's answer was lost.
THEOREM HoldsCaused == Spec => []HoldsHaveCause
  <1>1. ASSUME GatewayInv PROVE HoldsHaveCause
    <2>1. CASE hybrid
      <3>1. ~handle /\ releases = 0
        BY <1>1, <2>1 DEF GatewayInv, ServiceIdle
      <3>2. Service!Hold = "none"
        BY <3>1 DEF Service!Hold
      <3> QED BY <3>1, <3>2 DEF HoldsHaveCause, Service!LeakHasCause, Service!TwiceHasCause
    <2>2. CASE ~hybrid
      <3>1. StandsInv /\ pc \in Service!PCs
        BY <1>1, <2>2 DEF GatewayInv, ServiceInv
      <3>2. Service!Hold = "held" => handle /\ releases = 0
        BY <3>1 DEF StandsInv, Service!Hold
      <3>3. Service!LeakHasCause
        BY <3>1, <3>2 DEF StandsInv, Service!LeakHasCause
      <3>4. releases > 1 => "cancel" \in mishaps \/ "database" \in mishaps
        BY <3>1
        DEF StandsInv, Unsettled, Streaming, Service!PCs, Service!Setup, Service!Upstream, Service!Yields,
            Service!Writes, Service!Settles, Service!Pulls
      <3> QED BY <3>3, <3>4 DEF HoldsHaveCause, Service!TwiceHasCause
    <2> QED BY <2>1, <2>2
  <1> QED BY <1>1, GatewayKeepsInv, PTL

\* The usage log after the process has ended holds every row once but for those
\* whose own flush failed, the row of what was charged among them, and without a
\* fault of the request no row of a served response that was not charged.
THEOREM LogMatches == Spec => []LogMatchesSpend
  <1>1. ASSUME GatewayInv, hybrid PROVE LogMatchesSpend
    <2>1. puts = <<>> /\ commits = <<>> /\ stop = "not called"
      BY <1>1 DEF GatewayInv
    <2>2. Writer!Log = <<>> /\ DOMAIN Writer!Log = {}
      <3>1. Writer!Log = <<>>
        BY <2>1, FlattenEmpty, WriterNames
      <3>2. <<>> \in Seq({}) /\ Len(<<>>) = 0
        BY EmptySeq
      <3>3. DOMAIN <<>> = 1..0
        BY <3>2, LenProperties
      <3> QED BY <3>1, <3>3
    <2>3. Writer!CommittedOnce
      BY <2>2 DEF Writer!CommittedOnce
    <2>4. Writer!MissingHasCause
      BY <2>1 DEF Writer!MissingHasCause
    <2> QED BY <2>1, <2>3, <2>4 DEF LogMatchesSpend
  <1>2. ASSUME GatewayInv, ~hybrid PROVE LogMatchesSpend
    <2>1. ServiceInv /\ WriterInv /\ RowsInv
      BY <1>2 DEF GatewayInv
    <2>2. Writer!CommittedOnce
      <3>1. Writer!Log \in Seq(Rows) /\ Once(Writer!Log)
        BY <2>1 DEF WriterInv, Places
      <3>2. DOMAIN Writer!Log = 1..Len(Writer!Log)
        BY <3>1
      <3> QED BY <3>1, <3>2 DEF Once, Writer!CommittedOnce
    <2>3. ASSUME stop = "returned"
          PROVE  \A x \in Rows : x \in ToSet(puts) <=> x \in ToSet(Writer!Log) \/ x \in failed
      <3>1. stop \notin {"not called", "cancelling"} /\ task # "flushing" /\ stop # "flushing"
        BY <2>1, <2>3 DEF WriterInv
      <3>2. queue = <<>> /\ batch = <<>> /\ last = <<>>
        BY <2>1, <3>1 DEF WriterInv
      <3>3. \A x : x \notin ToSet(<<>>)
        BY EmptyOnce
      <3> QED BY <2>1, <3>2, <3>3 DEF WriterInv
    <2>4. Writer!MissingHasCause
      <3>1. SUFFICES ASSUME stop = "returned", NEW i \in DOMAIN puts
                     PROVE  puts[i] \in ToSet(Writer!Log) \/ puts[i] \in failed
        BY WriterNames DEF Writer!MissingHasCause
      <3>2. puts \in Seq(Rows)
        BY <2>1 DEF WriterInv
      <3>3. puts[i] \in Rows
        BY <3>1, <3>2
      <3>4. puts[i] \in ToSet(puts)
        BY <3>1, Zenon DEF ToSet
      <3> QED BY <2>3, <3>1, <3>3, <3>4
    <2>5. ASSUME stop = "returned"
          PROVE  \A kind \in {"served", "free", "estimated", "failed"} :
                   kind \in rows <=> kind \in ToSet(Writer!Log) \/ kind \in failed
      BY <2>1, <2>3, <2>5, Kinds DEF RowsInv
    <2>6. ASSUME stop = "returned" PROVE pc = "over"
      BY <2>1, <2>6 DEF WriterInv
    <2>7. ASSUME stop = "returned", charges > 0, streaming \/ usage.seen
          PROVE  {"served", "estimated", "failed"} \cap (ToSet(Writer!Log) \cup failed) # {}
      <3>1. Metered /\ charges = 1
        BY <2>1, <2>7 DEF ServiceInv, StandsInv
      <3>2. "served" \in rows \/ "estimated" \in rows \/ "failed" \in rows
        BY <2>7, <3>1 DEF Metered, Billable
      <3> QED BY <2>5, <2>7, <3>2
    <2>8. ASSUME stop = "returned", mishaps = {}, {"served", "estimated"} \cap ToSet(Writer!Log) # {}
          PROVE  charges = 1
      <3>1. Billable
        BY <2>5, <2>8 DEF Billable
      <3> QED BY <2>1, <2>6, <2>8, <3>1 DEF ServiceInv, StandsInv
    <2> QED BY <2>2, <2>4, <2>7, <2>8, WriterNames DEF LogMatchesSpend
  <1>3. GatewayInv => LogMatchesSpend
    BY <1>1, <1>2
  <1> QED BY <1>3, GatewayKeepsInv, PTL

\* In hybrid mode the platform holds one true record of each attempt that failed
\* or was served once every report is out and nothing went wrong; never both a
\* success and an error of one attempt; a success only of what was delivered
\* whole; and a second record of one report only after an outage.
THEOREM PlatformToldRight == Spec => []PlatformIsToldRight
  <1>1. ASSUME GatewayInv, hybrid PROVE PlatformIsToldRight
    <2>1. PlatformTypes /\ WalkInv /\ ReportsTrue /\ ReportsOnce /\ ReportsThere
      BY <1>1 DEF GatewayInv, PlatformInv, ReportsInv
    <2>2. \A a \in Platform!Attempts, o \in Platform!Outcomes :
            received[a] \in [Platform!Outcomes -> Nat] /\ received[a][o] \in Nat
      BY <2>1 DEF PlatformTypes
    <2>3. ASSUME NEW a \in Platform!Attempts
          PROVE  /\ Got(a, "success") => fate[a] = "served" /\ answer = "ok"
                 /\ Got(a, "error") => fate[a] \in {"failed", "broken"}
      BY <2>1 DEF ReportsTrue, Sent
    <2>4. ASSUME NEW a \in Platform!Attempts
          PROVE  received[a]["success"] = 0 \/ received[a]["error"] = 0
      BY <2>2, <2>3 DEF Got, Platform!Outcomes
    <2>5. Platform!OneOutcomePerAttempt
      BY <2>4 DEF Platform!OneOutcomePerAttempt
    <2>6. Platform!BilledIsServed
      BY <2>3 DEF Platform!BilledIsServed, Got
    <2>7. Platform!SecondRecordNeedsOutage
      <3>1. \A a \in Platform!Attempts, o \in Platform!Outcomes :
              "outage" \notin mishaps => received[a][o] <= 1
        BY <2>1 DEF ReportsOnce
      <3> QED BY <2>2, <3>1 DEF Platform!SecondRecordNeedsOutage
    <2>8. ASSUME MaxTries > 0, Platform!Quiet, mishaps = {}, NEW a \in Platform!Attempts
          PROVE  /\ fate[a] \in {"failed", "broken"} => received[a] = [success |-> 0, error |-> 1]
                 /\ fate[a] = "served"               => received[a] = [success |-> 1, error |-> 0]
      <3>1. pc = "over" /\ background = <<>> /\ inflight = {}
        BY <2>8 DEF Platform!Quiet
      <3>2. \A o \in Platform!Outcomes : Sent(a, o) <=> Got(a, o)
        BY <3>1 DEF Sent, Queued, Posted
      <3>3. \A o \in Platform!Outcomes : received[a][o] \in Nat /\ received[a][o] <= 1
        BY <2>1, <2>2, <2>8 DEF ReportsOnce
      <3>4. received[a] = [o \in Platform!Outcomes |-> received[a][o]]
        <4>1. received[a] \in [Platform!Outcomes -> Nat]
          BY <2>1 DEF PlatformTypes
        <4> QED BY <4>1
      <3>5. fate[a] \in {"failed", "broken"} => received[a]["error"] = 1 /\ received[a]["success"] = 0
        BY <2>1, <2>4, <2>8, <3>1, <3>2, <3>3 DEF ReportsThere, Got, Platform!Outcomes
      <3>6. fate[a] = "served" => received[a]["success"] = 1 /\ received[a]["error"] = 0
        BY <2>1, <2>4, <2>8, <3>1, <3>2, <3>3 DEF ReportsThere, Got, Platform!Outcomes
      <3> QED BY <3>4, <3>5, <3>6 DEF Platform!Outcomes
    <2>9. Platform!OutcomesReachPlatform
      BY <2>8 DEF Platform!OutcomesReachPlatform
    <2> QED BY <2>5, <2>6, <2>7, <2>9 DEF PlatformIsToldRight
  <1>2. ASSUME GatewayInv, ~hybrid PROVE PlatformIsToldRight
    <2>1. \A a \in Platform!Attempts : fate[a] = "untried"
      BY <1>2 DEF GatewayInv, PlatformIdle
    <2>2. \A a \in Platform!Attempts, o \in Platform!Outcomes : received[a][o] = 0
      BY <1>2 DEF GatewayInv, PlatformIdle
    <2> QED BY <2>1, <2>2
        DEF PlatformIsToldRight, Platform!OutcomesReachPlatform, Platform!OneOutcomePerAttempt,
            Platform!BilledIsServed, Platform!SecondRecordNeedsOutage, Platform!Outcomes
  <1>3. GatewayInv => PlatformIsToldRight
    BY <1>1, <1>2
  <1> QED BY <1>3, GatewayKeepsInv, PTL

\* The walk's module names the size of a set for itself.
LEMMA PlatformCounts == \A s : Platform!Cardinality(s) = Cardinality(s)
  BY DEF Platform!Cardinality, Cardinality

\* One provider's rounds run the tools of a request that is not streamed, a
\* failure is final for a reason, and a backend that was opened is closed.
THEOREM WalkDoesEndWell == Spec => []WalkEndsWell
  <1>1. ASSUME GatewayInv, hybrid PROVE WalkEndsWell
    <2>1. EndInv
      BY <1>1 DEF GatewayInv, PlatformInv
    <2>2. ASSUME ~streaming PROVE Cardinality(toolsRun) <= 1
      <3>1. toolsRun = {} \/ toolsRun = {cur}
        BY <2>1, <2>2 DEF EndInv
      <3>2. Cardinality({}) = 0 /\ Cardinality({cur}) = 1
        BY FS_EmptySet, FS_Singleton
      <3> QED BY <3>1, <3>2
    <2>3. Platform!ToolsRunForOneProvider
      BY <2>2, PlatformCounts DEF Platform!ToolsRunForOneProvider
    <2> QED BY <2>1, <2>3
        DEF EndInv, WalkEndsWell, Platform!BackendLeakHasCause
  <1>2. ASSUME GatewayInv, ~hybrid PROVE WalkEndsWell
    <2>1. toolsRun = {} /\ lastError = "none" /\ ~backend
      BY <1>2 DEF GatewayInv, PlatformIdle
    <2>2. Cardinality(toolsRun) = 0
      BY <2>1, FS_EmptySet
    <2>3. Platform!ToolsRunForOneProvider
      BY <2>2, PlatformCounts DEF Platform!ToolsRunForOneProvider
    <2> QED BY <2>1, <2>3
        DEF WalkEndsWell, Platform!GaveUpForAReason, Platform!BackendLeakHasCause
  <1>3. GatewayInv => WalkEndsWell
    BY <1>1, <1>2
  <1> QED BY <1>3, GatewayKeepsInv, PTL

-----------------------------------------------------------------------------
(***************************************************************************)
(* The contract.                                                           *)
(***************************************************************************)

\* What a step of a standalone request does to its account: a hold is taken, or
\* one statement takes effect, or none; no mishap is forgotten.
LEMMA Effects ==
  ASSUME ServiceInv, Service!Next
  PROVE  /\ mishaps \subseteq mishaps'
         /\ \/ handle' = handle /\ (Service!NotSettled \/ Service!Reconciled \/ Service!Refunded)
            \/ /\ ~handle /\ handle' = TRUE /\ Service!NotSettled
               /\ mishaps = {} /\ mishaps' = mishaps
  <1> DEFINE Settled == Service!NotSettled \/ Service!Reconciled \/ Service!Refunded
  <1>1. CASE Service!Reserve \/ Service!NormalizeAndTopUp
    <2>1. handle \in BOOLEAN /\ (pc = "start" => ~handle) /\ (pc \in {"start", "setup"} => mishaps = {})
      BY DEF ServiceInv, StandsInv, Unsettled, Service!Setup
    <2> QED BY <1>1, <2>1
        DEF Service!Reserve, Service!NormalizeAndTopUp, Service!EndBy, Service!NotSettled
  <1>2. CASE \/ Service!PricingGate \/ Service!EnsureProviderSupportsResponses \/ Service!PrepareTools
             \/ Service!ChatCompletions \/ Service!CreateMessage \/ Service!CreateResponse
             \/ Service!OpenStream \/ Service!FirstPull \/ Service!ResumeStream \/ Service!Disconnect
             \/ Service!Abandon
    BY <1>2
    DEF Service!PricingGate, Service!EnsureProviderSupportsResponses, Service!PrepareTools,
        Service!ChatCompletions, Service!CreateMessage, Service!CreateResponse, Service!Dispatch,
        Service!OpenStream, Service!FirstPull, Service!ResumeStream, Service!Disconnect, Service!Abandon,
        Service!Plain, Service!SelectorRaises, Service!EndBy, Service!NotSettled
  <1>3. CASE Service!CallProvider \/ Service!Pull
    BY <1>3 DEF Service!CallProvider, Service!Pull, Service!NotSettled
  <1>4. CASE Service!LogServed \/ Service!LogFailed \/ Service!LogStream \/ Service!LogStreamError
    BY <1>4
    DEF Service!LogServed, Service!LogFailed, Service!LogStream, Service!LogStreamError, Service!PutRow,
        Service!NotSettled
  <1>5. CASE \/ Service!ReconcileCall \/ Service!RefundCall \/ Service!SettleStream
             \/ Service!RefundStreamError \/ Service!IncompleteCancelled \/ Service!Incomplete
    <2>1. ASSUME NEW effect, NEW next, NEW raised, effect => Settled,
                 Service!Settle(effect, next, raised)
          PROVE  Settled /\ mishaps \subseteq mishaps'
      BY <2>1 DEF Service!Settle
    <2>2. Service!StreamSettlement => Settled
      BY DEF Service!StreamSettlement
    <2> HIDE DEF Settled
    <2>3. (Service!Reconciled => Settled) /\ (Service!Refunded => Settled)
      BY DEF Settled
    <2>4. Settled /\ mishaps \subseteq mishaps'
      <3>1. CASE Service!ReconcileCall
        BY <2>1, <2>3, <3>1 DEF Service!ReconcileCall
      <3>2. CASE Service!RefundCall
        BY <2>1, <2>3, <3>2 DEF Service!RefundCall
      <3>3. CASE Service!SettleStream
        BY <2>1, <2>2, <3>3 DEF Service!SettleStream
      <3>4. CASE Service!RefundStreamError
        BY <2>1, <2>3, <3>4 DEF Service!RefundStreamError
      <3>5. CASE Service!IncompleteCancelled \/ Service!Incomplete
        BY <2>1, <2>3, <3>5 DEF Service!IncompleteCancelled, Service!Incomplete
      <3> QED BY <1>5, <3>1, <3>2, <3>3, <3>4, <3>5
    <2>5. handle' = handle
      BY <1>5
      DEF Service!ReconcileCall, Service!RefundCall, Service!SettleStream, Service!RefundStreamError,
          Service!IncompleteCancelled, Service!Incomplete
    <2> QED BY <2>4, <2>5 DEF Settled
  <1>6. CASE Service!Cancel
    <2>1. Service!StreamSettlement => Settled
      BY DEF Service!StreamSettlement
    <2> QED BY <1>6, <2>1 DEF Service!Cancel
  <1> QED BY <1>1, <1>2, <1>3, <1>4, <1>5, <1>6
      DEF Service!Next, Service!Handler, Service!Environment

\* The account of SettlementContract: what stands for its two variables.
Held   == IF mishaps = {} THEN Service!Hold ELSE IF handle THEN "ended" ELSE "none"
Billed == IF mishaps = {} THEN Service!Bill ELSE "charged"

\* Its values where nothing went wrong, and where something did.
Values ==
  /\ mishaps # {} /\ handle => Held = "ended" /\ Billed = "charged"
  /\ mishaps # {} /\ ~handle => Held = "none" /\ Billed = "charged"
  /\ mishaps = {} /\ ~handle => Held = "none"
  /\ mishaps = {} /\ handle /\ releases = 0 => Held = "held"
  /\ mishaps = {} /\ handle /\ releases = 1 => Held = "ended"
  /\ mishaps = {} /\ charges = 0 => Billed = "none"
  /\ mishaps = {} /\ charges = 1 => Billed = "charged"

LEMMA Account == Values
  <1>1. ~handle => Service!Hold = "none"
    BY DEF Service!Hold
  <1>2. handle /\ releases = 0 => Service!Hold = "held"
    BY DEF Service!Hold
  <1>3. handle /\ releases = 1 => Service!Hold = "ended"
    <2>1. handle /\ releases = 1 => ~(handle /\ releases = 0)
      OBVIOUS
    <2> QED BY <2>1 DEF Service!Hold
  <1>4. (charges = 0 => Service!Bill = "none") /\ (charges = 1 => Service!Bill = "charged")
    <2>1. charges = 1 => charges # 0
      OBVIOUS
    <2> QED BY <2>1 DEF Service!Bill
  <1> QED BY <1>1, <1>2, <1>3, <1>4 DEF Values, Held, Billed

LEMMA AccountNext == Values'
  BY Account, PTL

\* The platform's half forgets no mishap either.
LEMMA PlatformMishaps == ASSUME Platform!Next PROVE mishaps \subseteq mishaps'
  <1>1. CASE Platform!Walk
    BY <1>1
    DEF Platform!Walk, Platform!Resolve, Platform!EnsureProvidersSupportResponses, Platform!OpenBackend,
        Platform!OpenSingleAttempt, Platform!UnknownProvider, Platform!CallFails, Platform!CallRejected,
        Platform!ToolRound, Platform!RunTools, Platform!Succeed, Platform!FirstChunk, Platform!StartPulling,
        Platform!StreamEnds, Platform!StreamEndsWith
  <1>2. CASE Platform!Mishap \/ Platform!Flush \/ Platform!NextBackground
    BY <1>2
    DEF Platform!Mishap, Platform!ClientGone, Platform!CancelQuietly, Platform!CancelAttempt,
        Platform!Flush, Platform!FlushEnds, Platform!FlushTimesOut, Platform!NextBackground
  <1>3. CASE Platform!PostStep
    BY <1>3
    DEF Platform!PostStep, Platform!PostAccepted, Platform!PostRefused, Platform!PostFails,
        Platform!PostRaises, Platform!Backoff
  <1> QED BY <1>1, <1>2, <1>3 DEF Platform!Next, Platform!Channel

\* A step of the process moves the account as the contract allows.
LEMMA AccountStep ==
  ASSUME GatewayInv, Next \/ UNCHANGED vars
  PROVE  \/ Held' = Held /\ Billed' = Billed
         \/ Held = "none" /\ Billed = "none" /\ Held' = "held" /\ Billed' = Billed
         \/ Held = "held" /\ Held' = "ended" /\ Billed' = Billed
         \/ /\ Billed = "none" /\ Billed' = "charged"
            /\ \/ Held = "none" /\ Held' = Held
               \/ Held = "held" /\ Held' = "ended"
  <1>1. ASSUME UNCHANGED <<mishaps, handle, releases, charges>>
        PROVE  Held' = Held /\ Billed' = Billed
    BY <1>1 DEF Held, Billed, Service!Hold, Service!Bill
  <1>2. CASE OtherRequestLogs \/ WriteLog \/ EndLifespan
    <2>1. UNCHANGED <<request, service>>
      BY <1>2 DEF OtherRequestLogs, WriteLog, EndLifespan
    <2> QED BY <1>1, <2>1 DEF request, service
  <1>3. CASE UNCHANGED vars
    <2>1. UNCHANGED <<request, service>>
      BY <1>3 DEF vars
    <2> QED BY <1>1, <2>1 DEF request, service
  <1>4. CASE Walk(Platform!Next)
    <2>1. ~handle /\ handle' = handle /\ charges = 0 /\ charges' = 0
      BY <1>4 DEF Walk, GatewayInv, ServiceIdle, service
    <2>2. mishaps \subseteq mishaps'
      BY <1>4, PlatformMishaps DEF Walk
    <2>3. Held = "none" /\ Held' = "none"
      BY <2>1, Account, AccountNext DEF Values
    <2>4. \/ Billed' = "charged" /\ Billed \in {"none", "charged"}
          \/ mishaps' = {} /\ Billed' = "none" /\ Billed = "none"
      BY <2>1, <2>2, Account, AccountNext DEF Values
    <2> QED BY <2>3, <2>4
  <1>5. CASE Serve
    <2>1. ServiceInv /\ Service!Next /\ handle \in BOOLEAN
      BY <1>5 DEF GatewayInv, Serve, ServiceInv, StandsInv
    <2>2. mishaps = {} => releases = 0 /\ charges = 0
      BY <2>1, OverIsOver
      DEF ServiceInv, StandsInv, Unsettled, Streaming, Service!PCs, Service!Setup, Service!Upstream,
          Service!Yields, Service!Writes, Service!Settles, Service!Pulls
    <2>3. CASE mishaps # {}
      <3>1. mishaps' # {}
        BY <2>1, <2>3, Effects
      <3>2. handle' = handle
        BY <2>1, <2>3, Effects
      <3> QED BY <2>3, <3>1, <3>2, Account, AccountNext DEF Values
    <2>4. CASE mishaps = {} /\ mishaps' # {}
      <3>1. handle' = handle
        BY <2>1, <2>4, Effects
      <3>2. Billed = "none" /\ Billed' = "charged" /\ (handle => Held = "held") /\ (~handle => Held = "none")
        BY <2>2, <2>4, Account, AccountNext DEF Values
      <3>3. (handle => Held' = "ended") /\ (~handle => Held' = "none")
        BY <2>4, <3>1, AccountNext DEF Values
      <3> QED BY <3>2, <3>3
    <2>5. CASE mishaps = {} /\ mishaps' = {}
      <3>1. Billed = "none" /\ (handle => Held = "held") /\ (~handle => Held = "none")
        BY <2>2, <2>5, Account DEF Values
      <3>2. CASE ~handle /\ handle' = TRUE /\ Service!NotSettled
        BY <2>2, <2>5, <3>1, <3>2, AccountNext DEF Values, Service!NotSettled
      <3>3. CASE handle' = handle /\ Service!NotSettled
        BY <2>2, <2>5, <3>1, <3>3, AccountNext DEF Values, Service!NotSettled
      <3>4. CASE handle' = handle /\ Service!Reconciled
        BY <2>2, <2>5, <3>1, <3>4, AccountNext DEF Values, Service!Reconciled
      <3>5. CASE handle' = handle /\ Service!Refunded
        BY <2>2, <2>5, <3>1, <3>5, AccountNext DEF Values, Service!Refunded
      <3> QED BY <2>1, <3>2, <3>3, <3>4, <3>5, Effects
    <2> QED BY <2>3, <2>4, <2>5
  <1> QED BY <1>2, <1>3, <1>4, <1>5 DEF Next

\* Until a mishap, whatever the client and the provider do, a standalone request
\* takes at most one hold and ends it at most once, by one charge or one refund:
\* the process implements SettlementContract, its liveness apart.
THEOREM Settles == Spec => Service!Contract!Init /\ [][Service!Contract!Next]_(Service!Contract!vars)
  <1>1. Init => Service!Contract!Init
    <2>1. Init => handle = FALSE /\ charges = 0 /\ mishaps = {}
      BY DEF Init, Service!Init
    <2> QED BY <2>1 DEF Service!Contract!Init, Service!Hold, Service!Bill
  <1>2. GatewayInv /\ [Next]_vars => [Service!Contract!Next]_(Service!Contract!vars)
    BY AccountStep
    DEF Held, Billed, Service!Contract!Next, Service!Contract!vars, Service!Contract!Take,
        Service!Contract!End, Service!Contract!GiveBack, Service!Contract!Charge
  <1> QED BY <1>1, <1>2, GatewayKeepsInv, PTL DEF Spec
=============================================================================
