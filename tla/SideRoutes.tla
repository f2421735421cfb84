----------------------------- MODULE SideRoutes -----------------------------
(***************************************************************************)
(* The routes that settle their own reservation instead of going through   *)
(* _pipeline.py (embeddings, rerank, moderations, images, transcription    *)
(* and speech), and the batch routes, which reserve nothing but leave a    *)
(* temporary file, a job at the provider and usage rows behind.            *)
(*                                                                         *)
(* Every handler is the same sequence with gaps: whose budget, which price, *)
(* pre-debit, price gate, provider call, usage row, settlement.  `pc` names *)
(* the await a handler is suspended at.  The requests share the budgets of  *)
(* the users; reserve_budget is one step here (BudgetLedger has its steps). *)
(* Money is counted in whole units of a token, a call or an image.          *)
(*                                                                         *)
(* Faults that a behaviour may meet:                                       *)
(*   cancel    the task of the request is cancelled at an await            *)
(*   database  a settling statement fails, or its commit is not seen       *)
(*   log       putting a usage row raises                                  *)
(*   reply     a provider created the batch but its answer is lost         *)
(*   disk      the temporary file cannot be written or removed             *)
(***************************************************************************)
EXTENDS Integers, Sequences, FiniteSets, Functions

CONSTANTS Requests, Users,
          Budgeted,    \* users whose budget has a cap
          Cap,         \* that cap
          NoUser,      \* a key without user, a body without the user field
          Master,      \* the request came with the master key
          NoPrice,     \* find_model_pricing returned None
          Prices,      \* unit prices in the table
          MaxUnits,    \* bound: units of one request
          Faults       \* see above

ASSUME SideRoutesAssumption ==
  /\ IsFiniteSet(Requests) /\ IsFiniteSet(Users) /\ Budgeted \subseteq Users
  /\ Cap \in Nat /\ MaxUnits \in Nat
  /\ NoUser \notin Users /\ Master \notin Users \cup {NoUser}
  /\ Prices \subseteq Nat /\ NoPrice \notin Nat
  /\ Faults \subseteq {"cancel", "database", "log", "reply", "disk"}

VARIABLES
  \* the requests
  pc,
  key,        \* user of the API key, or Master
  user,       \* whose budget the request is on
  local,      \* what the handler knows until the provider has answered:
              \*   route, price, units asked for, and whether _is_model_free
  handle,     \* ReservationHandle: reserved, estimate
  cost,
  answer,
  \* what the handlers left behind
  spend, reserved,      \* columns of users
  rows,                 \* statuses of the usage rows put for a request
  files,                \* requests whose temporary file exists
  job,                  \* the batch a create request started at the provider
  \* history
  charges, releases, billed, mishaps

inputs   == <<key, user>>
ledger   == <<spend, reserved, charges, releases, billed>>
leftover == <<rows, files, job>>
vars     == <<inputs, local, pc, handle, cost, answer, ledger, leftover, mishaps>>

Settling    == {"embeddings", "rerank", "moderations", "images", "transcription", "speech"}
BatchRoutes == {"createBatch", "retrieveBatch", "cancelBatch", "listBatches", "batchResults"}

PCs == {"idle", "selector", "pricing", "reserve", "gate", "upload", "call", "logServed",
        "reconcile", "logFailed", "refund", "creating", "logBatch", "logBatchFailed", "atProvider",
        "logResults", "over"}

Handles == [reserved: BOOLEAN, estimate: Nat]
NoHold  == [reserved |-> FALSE, estimate |-> 0]

Locals  == [route: Settling \cup BatchRoutes \cup {"none"}, price: Prices \cup {NoPrice},
            want: 0..MaxUnits, free: BOOLEAN]
NoLocal == [route |-> "none", price |-> NoPrice, want |-> 0, free |-> FALSE]

TypeOK ==
  /\ pc \in [Requests -> PCs]
  /\ local \in [Requests -> Locals]
  /\ user \in [Requests -> Users \cup {NoUser}]
  /\ handle \in [Requests -> Handles]
  /\ cost \in [Requests -> Nat]
  /\ spend \in [Users -> Nat] /\ reserved \in [Users -> Nat]
  /\ rows \in [Requests -> SUBSET {"success", "error"}]
  /\ files \subseteq Requests
  /\ job \in [Requests -> {"none", "running", "done", "cancelled"}]
  /\ mishaps \in [Requests -> SUBSET Faults]

All(v) == [r \in Requests |-> v]

Init ==
  /\ pc = All("idle") /\ key = All(NoUser) /\ user = All(NoUser) /\ local = All(NoLocal)
  /\ handle = All(NoHold) /\ cost = All(0) /\ answer = All("none")
  /\ spend = [u \in Users |-> 0] /\ reserved = [u \in Users |-> 0]
  /\ rows = All({}) /\ files = {} /\ job = All("none")
  /\ charges = All(0) /\ releases = All(0) /\ billed = All(0) /\ mishaps = All({})

-----------------------------------------------------------------------------
(***************************************************************************)
(* The helpers.                                                            *)
(***************************************************************************)

\* A faulty variant of resolve_user_id: the body's user goes first.
ResolveUserNamed(k, named, reject) == IF named # NoUser THEN named ELSE IF k = Master THEN NoUser ELSE k

\* resolve_user_id with config.reject_user_mismatch; NoUser stands for its errors.
ResolveUser(k, named, reject) ==
  IF k = Master THEN named
  ELSE IF reject /\ named \notin {NoUser, k} THEN NoUser ELSE k

\* Estimates by price and units asked for, costs by price, units asked for and
\* units the provider reported (-1: none); without pricing both are 0.
Counts   == 0..MaxUnits
PerUnit  == [p \in Prices |-> [asked \in Counts |-> asked * p]]
PerCall  == [p \in Prices |-> [asked \in Counts |-> p]]
Unpriced == [p \in Prices |-> [asked \in Counts |-> 0]]
Units    == -1..MaxUnits
Reported == [p \in Prices |-> [asked \in Counts |-> [n \in Units |-> IF n = -1 THEN 0 ELSE n * p]]]
Whole(f) == [p \in Prices |-> [asked \in Counts |-> [n \in Units |-> f[p][asked]]]]

\* The handlers, by the order of their steps after resolve_user_id and the rate
\* limit, their estimate and their cost.  From the call on they are alike: the
\* usage row and the reconcile in the try block, a refund for an HTTPException,
\* an error row and a refund for any other exception.
create_embedding ==
  [steps |-> <<"selector", "pricing", "reserve", "gate", "call">>,
   estimate |-> PerUnit, cost |-> Reported]

create_rerank ==
  [steps |-> <<"selector", "pricing", "reserve", "gate", "call">>,
   estimate |-> PerUnit, cost |-> Reported]

\* Exempt from the price gate; a flat rate known before the call.  Its branch for
\* NotImplementedError differs in the status of the answer only.
create_moderation ==
  [steps |-> <<"selector", "pricing", "reserve", "call">>,
   estimate |-> PerCall, cost |-> Whole(PerCall)]

\* Without data in the response, the images asked for are billed.
create_image ==
  [steps |-> <<"selector", "pricing", "reserve", "gate", "call">>,
   estimate |-> PerUnit,
   cost |-> [p \in Prices |-> [asked \in Counts |-> [n \in Units |->
               IF n <= 0 THEN asked * p ELSE n * p]]]]

\* Audio reserves before it resolves the selector, an estimate of 0.
create_transcription ==
  [steps |-> <<"reserve", "selector", "upload", "call">>,
   estimate |-> Unpriced, cost |-> Whole(Unpriced)]

create_speech ==
  [steps |-> <<"reserve", "selector", "call">>,
   estimate |-> Unpriced, cost |-> Whole(Unpriced)]

Handler == [embeddings |-> create_embedding, rerank |-> create_rerank,
            moderations |-> create_moderation, images |-> create_image,
            transcription |-> create_transcription, speech |-> create_speech]

Estimate(rt, p, asked) == IF p = NoPrice THEN 0 ELSE Handler[rt].estimate[p][asked]

Cost(rt, p, asked, n) == IF p = NoPrice THEN 0 ELSE Handler[rt].cost[p][asked][n]

Goto(r, l) == pc' = [pc EXCEPT ![r] = l]

Forget(r) == local' = [local EXCEPT ![r] = NoLocal]

\* The handler returns or raises; the faults met are remembered.
Ends(r, how, fs) == /\ Goto(r, "over") /\ Forget(r)
                    /\ answer' = [answer EXCEPT ![r] = how]
                    /\ mishaps' = [mishaps EXCEPT ![r] = @ \cup fs]

Proceeds(r, l) == Goto(r, l) /\ UNCHANGED <<answer, mishaps>>

Goes(r, l) == Proceeds(r, l) /\ UNCHANGED local

\* The step of its handler that follows the one r is at.
Following(r) ==
  LET steps == Handler[local[r].route].steps IN
  CHOOSE l \in PCs : \E i \in 1..(Len(steps) - 1) : steps[i] = pc[r] /\ steps[i + 1] = l

Outside(fault) == fault \in Faults

\* log_writer.put of a row; control goes on to `next`, or to `raised`.
PutRow(r, kind, next, raised) ==
  \/ /\ rows' = [rows EXCEPT ![r] = @ \cup {kind}]
     /\ Goto(r, next) /\ UNCHANGED mishaps
  \/ /\ Outside("log") /\ Goto(r, raised)
     /\ mishaps' = [mishaps EXCEPT ![r] = @ \cup {"log"}]
     /\ UNCHANGED rows

Monus(a, b) == IF a >= b THEN a - b ELSE 0

\* reconcile_reservation (amount c) and refund_reservation (amount 0), as far as
\* they reach the database.
Release(r) ==
  IF handle[r].reserved
  THEN /\ reserved' = [reserved EXCEPT ![user[r]] = Monus(@, handle[r].estimate)]
       /\ releases' = [releases EXCEPT ![r] = @ + 1]
  ELSE UNCHANGED <<reserved, releases>>

Reconciled(r) ==
  /\ Release(r)
  /\ spend' = [spend EXCEPT ![user[r]] = @ + cost[r]]
  /\ charges' = [charges EXCEPT ![r] = @ + 1]
  /\ billed' = [billed EXCEPT ![r] = @ + cost[r]]

Refunded(r) == Release(r) /\ UNCHANGED <<spend, charges, billed>>

\* A statement is sent only if it has something to write.
Sends(r) == handle[r].reserved \/ (pc[r] = "reconcile" /\ cost[r] > 0)

\* The statement took effect; or its failure raises to `raised`, with or without
\* effect.
Settle(r, effect, next, raised) ==
  \/ effect /\ Goto(r, next) /\ UNCHANGED mishaps
  \/ /\ Outside("database") /\ Sends(r)
     /\ effect \/ UNCHANGED ledger
     /\ mishaps' = [mishaps EXCEPT ![r] = @ \cup {"database"}]
     /\ Goto(r, raised)

-----------------------------------------------------------------------------
(***************************************************************************)
(* The six settling routes.                                                *)
(***************************************************************************)

\* Whose budget, and the rate limit; each may reject.
Begin(r, rt, k, named) ==
  /\ pc[r] = "idle"
  /\ \/ \E reject \in BOOLEAN :
          /\ ResolveUser(k, named, reject) # NoUser
          /\ user' = [user EXCEPT ![r] = ResolveUser(k, named, reject)]
          /\ key' = [key EXCEPT ![r] = k]
          /\ local' = [local EXCEPT ![r].route = rt]
          /\ Proceeds(r, Head(Handler[rt].steps))
     \/ Ends(r, "error", {}) /\ UNCHANGED <<key, user>>
  /\ UNCHANGED <<handle, cost, ledger, leftover>>

\* find_model_pricing by instance; _is_model_free, later, asks any-llm to split
\* the selector and does not know named instances.
ReadPrice(r) ==
  /\ pc[r] = "pricing"
  /\ \E p \in Prices \cup {NoPrice}, n \in 0..MaxUnits, named \in BOOLEAN :
        local' = [local EXCEPT ![r].price = p, ![r].want = n, ![r].free = p = 0 /\ ~named]
  /\ Proceeds(r, Following(r))
  /\ UNCHANGED <<inputs, handle, cost, ledger, leftover>>

\* A faulty variant of Fits: only what is spent counts.
FitsSpend(u, e) == spend[u] < Cap /\ spend[u] + e <= Cap

\* The conditional UPDATE of reserve_budget.
Fits(u, e) == spend[u] + reserved[u] < Cap /\ spend[u] + reserved[u] + e <= Cap

\* The hold of r is in the row.
TakesHold(r) ==
  LET u == user[r]  e == Estimate(local[r].route, local[r].price, local[r].want) IN
  /\ u \in Budgeted /\ ~local[r].free /\ Fits(u, e)
  /\ handle' = [handle EXCEPT ![r] = [reserved |-> TRUE, estimate |-> e]]
  /\ reserved' = [reserved EXCEPT ![u] = @ + e]

\* reserve_budget: unknown and blocked users are refused, users without a budget
\* and free models hold nothing.  When the answer of the commit is lost it raises,
\* and its caller has no handle (the history keeps it) to refund.
ReserveBudget(r) ==
  /\ pc[r] = "reserve"
  /\ \/ Ends(r, "error", {}) /\ UNCHANGED <<handle, reserved>>
     \/ /\ user[r] \notin Budgeted \/ local[r].free
        /\ Goes(r, Following(r))
        /\ UNCHANGED <<handle, reserved>>
     \/ TakesHold(r) /\ Goes(r, Following(r))
     \/ Outside("database") /\ TakesHold(r) /\ Ends(r, "error", {"database"})
  /\ UNCHANGED <<inputs, cost, spend, charges, releases, billed, leftover>>

\* resolve_provider_selector raises for an unknown provider; no handler refunds it.
ResolveSelector(r) ==
  /\ pc[r] = "selector"
  /\ Goes(r, Following(r)) \/ Ends(r, "error", {})
  /\ UNCHANGED <<inputs, handle, cost, ledger, leftover>>

\* pricing_required_but_missing, under either value of config.require_pricing.
PriceGate(r) ==
  /\ pc[r] = "gate"
  /\ Goes(r, Following(r)) \/ (local[r].price = NoPrice /\ Goes(r, "refund"))
  /\ UNCHANGED <<inputs, handle, cost, ledger, leftover>>

\* The upload is read; one that is too large answers 413.
ReadUpload(r) ==
  /\ pc[r] = "upload"
  /\ Goes(r, Following(r)) \/ Ends(r, "error", {})
  /\ UNCHANGED <<inputs, handle, cost, ledger, leftover>>

\* The provider call: a result with n units or without usage, an HTTPException,
\* or any other exception.
CallProvider(r) ==
  /\ pc[r] = "call"
  /\ Forget(r)
  /\ \/ \E n \in Units :
          /\ cost' = [cost EXCEPT ![r] = Cost(local[r].route, local[r].price, local[r].want, n)]
          /\ Proceeds(r, "logServed")
     \/ (Proceeds(r, "refund") \/ Proceeds(r, "logFailed")) /\ UNCHANGED cost
  /\ UNCHANGED <<inputs, handle, ledger, leftover>>

\* The usage row carries the cost, and is put before the reconcile.
LogServed(r) ==
  /\ pc[r] = "logServed"
  /\ PutRow(r, "success", "reconcile", "logFailed")
  /\ UNCHANGED <<inputs, local, handle, cost, answer, ledger, files, job>>

\* An exception of the reconcile is handled like one of the provider call.
ReconcileServed(r) ==
  /\ pc[r] = "reconcile"
  /\ Settle(r, Reconciled(r), "over", "logFailed")
  /\ answer' = [answer EXCEPT ![r] = IF pc'[r] = "over" THEN "served" ELSE @]
  /\ UNCHANGED <<inputs, local, handle, cost, leftover>>

\* The error row first; without it there is no refund.
LogFailed(r) ==
  /\ pc[r] = "logFailed"
  /\ PutRow(r, "error", "refund", "over")
  /\ answer' = [answer EXCEPT ![r] = IF pc'[r] = "over" THEN "error" ELSE @]
  /\ UNCHANGED <<inputs, local, handle, cost, ledger, files, job>>

\* The refund before the error response.
RefundFailed(r) ==
  /\ pc[r] = "refund"
  /\ Settle(r, Refunded(r), "over", "over")
  /\ answer' = [answer EXCEPT ![r] = "error"]
  /\ UNCHANGED <<inputs, local, handle, cost, leftover>>

-----------------------------------------------------------------------------
(***************************************************************************)
(* The batch routes.                                                       *)
(***************************************************************************)

\* create_batch up to its call: the selector, batch support, and the temporary
\* file, which is written outside the try block.
BeginCreateBatch(r) ==
  /\ pc[r] = "idle"
  /\ \/ Ends(r, "error", {}) /\ UNCHANGED files
     \/ files' = files \cup {r} /\ Goes(r, "creating")
     \/ Outside("disk") /\ files' = files \cup {r} /\ Ends(r, "error", {"disk"})
  /\ UNCHANGED <<inputs, handle, cost, ledger, rows, job>>

\* The finally block of create_batch; a failing unlink is only logged.
Unlink(r) ==
  \/ files' = files \ {r}
  \/ Outside("disk") /\ UNCHANGED files

UnlinkFault(r) == IF r \in files' THEN {"disk"} ELSE {}

\* acreate_batch returned or raised, an HTTPException or (logged) another one.
\* The provider may have created the batch all the same.
CreateBatch(r) ==
  /\ pc[r] = "creating"
  /\ UNCHANGED local
  /\ \/ /\ Unlink(r)
        /\ job' = [job EXCEPT ![r] = "running"]
        /\ Goto(r, "logBatch")
        /\ mishaps' = [mishaps EXCEPT ![r] = @ \cup UnlinkFault(r)]
        /\ UNCHANGED answer
     \/ /\ \/ Goto(r, "logBatchFailed") /\ UNCHANGED <<files, answer>>
           \/ Unlink(r) /\ Goto(r, "over") /\ answer' = [answer EXCEPT ![r] = "error"]
        /\ \/ UNCHANGED job /\ mishaps' = [mishaps EXCEPT ![r] = @ \cup
                                    IF pc'[r] = "over" THEN UnlinkFault(r) ELSE {}]
           \/ /\ Outside("reply")
              /\ job' = [job EXCEPT ![r] = "running"]
              /\ mishaps' = [mishaps EXCEPT ![r] = @ \cup {"reply"} \cup
                                    IF pc'[r] = "over" THEN UnlinkFault(r) ELSE {}]
  /\ UNCHANGED <<inputs, handle, cost, ledger, rows>>

\* A faulty variant of LogBatchFailed: the file goes only if the row could be put.
LogBatchFailedEarly(r) ==
  /\ pc[r] = "logBatchFailed"
  /\ PutRow(r, "error", "over", "over")
  /\ IF "error" \in rows'[r] THEN files' = files \ {r} ELSE UNCHANGED files
  /\ answer' = [answer EXCEPT ![r] = "error"]
  /\ UNCHANGED <<inputs, local, handle, cost, ledger, job>>

\* The error row of create_batch, whose outcome the finally block does not mind.
LogBatchFailed(r) ==
  /\ pc[r] = "logBatchFailed"
  /\ \/ rows' = [rows EXCEPT ![r] = @ \cup {"error"}] /\ Unlink(r)
        /\ Ends(r, "error", UnlinkFault(r))
     \/ Outside("log") /\ UNCHANGED rows /\ Unlink(r)
        /\ Ends(r, "error", {"log"} \cup UnlinkFault(r))
  /\ UNCHANGED <<inputs, handle, cost, ledger, job>>

\* The row of a batch that was created; the file is gone by then.
LogBatch(r) ==
  /\ pc[r] = "logBatch"
  /\ PutRow(r, "success", "over", "over")
  /\ answer' = [answer EXCEPT ![r] = IF rows'[r] # rows[r] THEN "served" ELSE "error"]
  /\ UNCHANGED <<inputs, local, handle, cost, ledger, files, job>>

\* _resolve_batch_provider: an instance of the configuration or one of any-llm's;
\* another one is rejected.
BeginBatchQuery(r, rt) ==
  /\ pc[r] = "idle"
  /\ \/ Proceeds(r, "atProvider") /\ local' = [local EXCEPT ![r].route = rt]
     \/ Ends(r, "error", {})
  /\ UNCHANGED <<inputs, handle, cost, ledger, leftover>>

AtProvider(r, rt) == pc[r] = "atProvider" /\ local[r].route = rt

\* The provider fails, or (results) the batch is not complete.
BatchQueryFails(r) ==
  /\ pc[r] = "atProvider"
  /\ Ends(r, "error", {})
  /\ UNCHANGED <<inputs, handle, cost, ledger, leftover>>

RetrieveBatch(r) ==
  /\ AtProvider(r, "retrieveBatch")
  /\ Ends(r, "served", {})
  /\ UNCHANGED <<inputs, handle, cost, ledger, leftover>>

ListBatches(r) ==
  /\ AtProvider(r, "listBatches")
  /\ Ends(r, "served", {})
  /\ UNCHANGED <<inputs, handle, cost, ledger, leftover>>

CancelBatch(r) ==
  /\ AtProvider(r, "cancelBatch")
  /\ \E c \in Requests : /\ job[c] \in {"running", "cancelled"}
                         /\ job' = [job EXCEPT ![c] = "cancelled"]
  /\ Ends(r, "served", {})
  /\ UNCHANGED <<inputs, handle, cost, ledger, rows, files>>

\* The results of a complete batch; every retrieval puts a row of its own.
RetrieveBatchResults(r) ==
  /\ \/ /\ AtProvider(r, "batchResults")
        /\ \E c \in Requests : job[c] = "done"
        /\ Proceeds(r, "logResults") /\ Forget(r) /\ UNCHANGED rows
     \/ /\ pc[r] = "logResults"
        /\ PutRow(r, "success", "over", "over")
        /\ answer' = [answer EXCEPT ![r] = IF rows'[r] # rows[r] THEN "served" ELSE "error"]
        /\ UNCHANGED local
  /\ UNCHANGED <<inputs, handle, cost, ledger, files, job>>

\* The provider completes a job.
JobCompletes(r) ==
  /\ job[r] = "running"
  /\ job' = [job EXCEPT ![r] = "done"]
  /\ UNCHANGED <<inputs, local, pc, handle, cost, answer, ledger, rows, files, mishaps>>

-----------------------------------------------------------------------------
\* The task is cancelled at an await: no handler refunds on CancelledError, but
\* create_batch runs its finally block, and what was sent may have been done.
Cancel(r) ==
  /\ Outside("cancel") /\ pc[r] \notin {"idle", "selector", "gate", "over"}
  /\ Ends(r, "gone", {"cancel"})
  /\ \/ UNCHANGED <<handle, ledger, job>>
     \/ pc[r] = "reserve" /\ TakesHold(r) /\ UNCHANGED <<spend, charges, releases, billed, job>>
     \/ pc[r] = "reconcile" /\ Reconciled(r) /\ UNCHANGED <<handle, job>>
     \/ pc[r] = "refund" /\ Refunded(r) /\ UNCHANGED <<handle, job>>
     \/ pc[r] = "creating" /\ job' = [job EXCEPT ![r] = "running"] /\ UNCHANGED <<handle, ledger>>
  /\ files' = IF pc[r] \in {"creating", "logBatchFailed"} THEN files \ {r} ELSE files
  /\ UNCHANGED <<inputs, cost, rows>>

Handle(r) ==
  \/ ResolveSelector(r) \/ ReadPrice(r) \/ ReserveBudget(r) \/ PriceGate(r) \/ ReadUpload(r)
  \/ CallProvider(r) \/ LogServed(r) \/ ReconcileServed(r) \/ LogFailed(r) \/ RefundFailed(r)
  \/ CreateBatch(r) \/ LogBatchFailed(r) \/ LogBatch(r)
  \/ RetrieveBatch(r) \/ ListBatches(r) \/ CancelBatch(r) \/ RetrieveBatchResults(r)
  \/ BatchQueryFails(r)

Arrive(r) ==
  \/ \E rt \in Settling, k \in Users \cup {NoUser, Master}, named \in Users \cup {NoUser} :
       Begin(r, rt, k, named)
  \/ BeginCreateBatch(r)
  \/ \E rt \in BatchRoutes \ {"createBatch"} : BeginBatchQuery(r, rt)

Next == \E r \in Requests : Arrive(r) \/ Handle(r) \/ JobCompletes(r) \/ Cancel(r)

Spec == Init /\ [][Next]_vars

-----------------------------------------------------------------------------
(***************************************************************************)
(* Properties.                                                             *)
(***************************************************************************)

Outstanding(r) == handle[r].reserved /\ releases[r] = 0

HeldBy(u) == {r \in Requests : user[r] = u /\ Outstanding(r)}

\* What the requests of u cost beyond their estimates.
Overrun(u) ==
  SumFunctionOnSet([r \in Requests |-> Monus(billed[r], handle[r].estimate)],
                   {r \in Requests : user[r] = u})

\* Requests of six routes race for one budget: unless some hold was given back
\* twice, the reserved column is the sum of the outstanding estimates, and spent
\* plus reserved money passes the cap only by what calls cost above their estimate.
CommittedWithinCap ==
  \A u \in Budgeted :
    (\A r \in Requests : user[r] = u => releases[r] <= 1) =>
      /\ reserved[u] = SumFunctionOnSet([r \in Requests |-> handle[r].estimate], HeldBy(u))
      /\ spend[u] + reserved[u] <= Cap + Overrun(u)

\* Spend is what the usage rows say: every unit of it belongs to one request that
\* put its success row, was settled once, and came with the master key or a key of
\* the user that pays; a row without its charge has a fault behind it.
SpendIsLogged ==
  /\ \A u \in Users :
       spend[u] = SumFunctionOnSet(billed, {r \in Requests : user[r] = u})
  /\ \A r \in Requests :
       /\ billed[r] > 0 => /\ "success" \in rows[r] /\ charges[r] = 1
                           /\ billed[r] = cost[r] /\ key[r] \in {Master, user[r]}
       /\ pc[r] = "over" /\ "success" \in rows[r] /\ billed[r] < cost[r] => mishaps[r] # {}

\* What a handler leaves behind when it is over has a cause among the faults it
\* met: a positive hold, a hold given back twice, a temporary file, a batch at the
\* provider whose id no client was told.
LeftoversHaveCause ==
  \A r \in Requests : pc[r] = "over" =>
    /\ Outstanding(r) /\ handle[r].estimate > 0
         => mishaps[r] \cap {"cancel", "database", "log"} # {}
    /\ releases[r] > 1 => "database" \in mishaps[r]
    /\ r \in files => "disk" \in mishaps[r]
    /\ job[r] # "none" /\ answer[r] # "served" => mishaps[r] \cap {"cancel", "log", "reply"} # {}

=============================================================================
