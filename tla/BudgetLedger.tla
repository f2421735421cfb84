---------------------------- MODULE BudgetLedger ----------------------------
(***************************************************************************)
(* The budget columns of one row of `users`, and every statement that      *)
(* reads or writes them: the pre-debit of a request (reserve_budget and    *)
(* increase_reservation), its settlement (reconcile_reservation and        *)
(* refund_reservation), the lazy period reset (_cas_reset_user_budget) and *)
(* the admin endpoints for users and budgets.                              *)
(*                                                                         *)
(* A request holds no lock between statements, so reserve_budget is three  *)
(* steps (read the user, read the budget, write), each on what an earlier  *)
(* step saw; any other request or an admin may run in between.  One        *)
(* UPDATE followed by its commit is one step, which may fail, or take      *)
(* effect and raise all the same when the commit's answer is lost: then    *)
(* the handler goes the way of a failure on a row that has changed.        *)
(*                                                                         *)
(* Money is counted in whole units.  Times are positive; Never is NULL.    *)
(***************************************************************************)
EXTENDS Integers, Sequences, FiniteSets

CONSTANTS Requests,     \* requests billed to the user
          Budgets,      \* budgets an admin may create
          NoBudget,     \* users.budget_id IS NULL
          Uncapped,     \* budgets.max_budget IS NULL
          Caps,         \* values of max_budget
          Durations,    \* values of budget_duration_sec, 0 for NULL
          Strategy,     \* config.budget_strategy
          MaxEstimate,  \* bound: the largest total estimate of a request
          MaxCost,      \* bound: the largest cost of one call
          MaxTime,      \* bound: the last instant of the clock
          MaxAdminOps   \* bound: how many admin calls a behaviour has

ASSUME ConstantsAssumption ==
  /\ IsFiniteSet(Requests)
  /\ NoBudget \notin Budgets
  /\ Uncapped \notin Nat
  /\ Caps \subseteq Nat \cup {Uncapped}
  /\ Durations \subseteq Nat
  /\ Strategy \in {"for_update", "cas", "disabled"}
  /\ MaxEstimate \in Nat
  /\ MaxCost \in Nat
  /\ MaxTime \in Nat \ {0}
  /\ MaxAdminOps \in Nat

Never == 0

VARIABLES
  \* the row of users
  alive,      \* deleted_at IS NULL
  blocked,
  spend,
  reserved,
  budgetId,
  resetAt,    \* next_budget_reset_at
  \* the tables budgets and budget_reset_logs
  budgets,    \* ids of the rows of budgets
  cap,        \* budgets.max_budget
  dur,        \* budgets.budget_duration_sec
  resetLog,
  \* the requests
  pc,         \* where each handler is
  stage,      \* the call it last made: the pre-debit, its top-up, the side call
  amount,     \* the estimate reserve_budget was called with
  seen,       \* what it read before its next write
  est,        \* ReservationHandle.estimate
  handle,     \* requests whose ReservationHandle.reserved is True
  \* the environment
  now,
  adminOps,
  \* history, read by properties only
  taken,      \* units a request's handle put into the row and has not given back
  orphaned,   \* units put into the row by calls that never returned a handle
  excess,     \* units given back that their handle had not put there any more
  exposure,   \* units committed without a capped hold behind them
  highCap     \* the largest cap ever in force

row     == <<alive, blocked, spend, reserved, budgetId, resetAt>>
tables  == <<budgets, cap, dur>>
local   == <<pc, stage, amount, seen, est, handle>>
clock   == <<now, adminOps>>
history == <<taken, orphaned, excess, exposure, highCap>>
vars    == <<row, tables, resetLog, local, clock, history>>

Amounts == 0..MaxEstimate
Costs   == 0..MaxCost

Reads == [budget: Budgets \cup {NoBudget}, resetAt: Nat, spend: Nat,
          cap: Nat \cup {Uncapped}, dur: Nat, at: Nat]

NothingSeen == [budget |-> NoBudget, resetAt |-> Never, spend |-> 0,
                cap |-> Uncapped, dur |-> 0, at |-> 0]

Larger(a, b) == IF a >= b THEN a ELSE b

\* The units of `reserved` that some request still has to give back.
HeldUnits == {u \in Requests \X (1..MaxEstimate) : u[2] <= taken[u[1]]}

\* Every unit that was reserved and not given back.
Outstanding == Cardinality(HeldUnits) + orphaned

RowTypeOK ==
  /\ alive \in BOOLEAN /\ blocked \in BOOLEAN
  /\ spend \in Nat /\ reserved \in Nat
  /\ budgetId \in Budgets \cup {NoBudget}
  /\ resetAt \in Nat

TablesTypeOK ==
  /\ budgets \subseteq Budgets
  /\ cap \in [Budgets -> Nat \cup {Uncapped}]
  /\ dur \in [Budgets -> Nat]
  /\ resetLog \in Seq([due: Nat, at: Nat, previous: Nat, erased: Nat, budget: Budgets])

LocalTypeOK ==
  /\ pc \in [Requests -> {"idle", "budget", "reset", "gate", "running", "unsure", "failed",
                        "done"}]
  /\ stage \in [Requests -> {"reserve", "topup", "billed"}]
  /\ amount \in [Requests -> Amounts]
  /\ seen \in [Requests -> Reads]
  /\ \A r \in Requests : pc[r] \in {"budget", "reset", "gate"} => seen[r].budget \in Budgets
  /\ est \in [Requests -> Amounts]
  /\ \A r \in Requests : pc[r] = "idle" => est[r] = 0
  /\ \A r \in Requests : est[r] + amount[r] <= MaxEstimate
  /\ handle \subseteq Requests

OtherTypeOK ==
  /\ now \in 1..MaxTime /\ adminOps \in 0..MaxAdminOps
  /\ taken \in [Requests -> Amounts]
  /\ orphaned \in Nat /\ excess \in Nat /\ exposure \in Nat /\ highCap \in Nat

TypeOK == RowTypeOK /\ TablesTypeOK /\ LocalTypeOK /\ OtherTypeOK

NextReset(t, d) == IF d = 0 THEN Never ELSE t + d   \* calculate_next_reset

Init ==
  /\ alive = TRUE /\ blocked = FALSE
  /\ spend = 0 /\ reserved = 0
  /\ budgets = Budgets
  /\ cap \in [Budgets -> Caps]
  /\ dur \in [Budgets -> Durations]
  /\ budgetId \in Budgets \cup {NoBudget}
  /\ resetAt = IF budgetId = NoBudget THEN Never ELSE NextReset(1, dur[budgetId])
  /\ resetLog = << >>
  /\ pc = [r \in Requests |-> "idle"]
  /\ stage = [r \in Requests |-> "reserve"]
  /\ amount = [r \in Requests |-> 0]
  /\ seen = [r \in Requests |-> NothingSeen]
  /\ est = [r \in Requests |-> 0]
  /\ handle = {}
  /\ now = 1 /\ adminOps = 0
  /\ taken = [r \in Requests |-> 0]
  /\ orphaned = 0 /\ excess = 0 /\ exposure = 0
  /\ highCap \in ({0} \cup {cap[b] : b \in Budgets}) \ {Uncapped}
  /\ \A b \in Budgets : cap[b] # Uncapped => cap[b] <= highCap

-----------------------------------------------------------------------------
(***************************************************************************)
(* reserve_budget.  Called with the first estimate, and again by           *)
(* increase_reservation with what the attachments added.                   *)
(***************************************************************************)

\* reserve_budget raised.  A first call leaves no handle behind; a top-up
\* leaves its caller holding the old one, to be refunded.
Rejected(call) == IF call = "topup" THEN "failed" ELSE "done"

\* get_active_user and the checks on what it returned.
ReadUser(r, a, call) ==
  /\ stage' = [stage EXCEPT ![r] = call]
  /\ \/ /\ ~alive \/ blocked
        /\ pc' = [pc EXCEPT ![r] = Rejected(call)]
        /\ UNCHANGED <<amount, seen>>
     \/ /\ alive /\ ~blocked
        /\ Strategy = "disabled" \/ budgetId = NoBudget
        /\ pc' = [pc EXCEPT ![r] = "running"]
        /\ UNCHANGED <<amount, seen>>
     \/ /\ alive /\ ~blocked
        /\ Strategy # "disabled" /\ budgetId # NoBudget
        /\ pc' = [pc EXCEPT ![r] = "budget"]
        /\ amount' = [amount EXCEPT ![r] = a]
        /\ seen' = [seen EXCEPT ![r] =
                      [budget |-> budgetId, resetAt |-> resetAt, spend |-> spend,
                       cap |-> Uncapped, dur |-> 0, at |-> 0]]
  /\ UNCHANGED <<row, tables, resetLog, est, handle, clock, history>>

\* resolve_request_context pre-debits the estimate of a new request.
StartReserve(r) ==
  /\ pc[r] = "idle"
  /\ \E a \in Amounts : ReadUser(r, a, "reserve")

\* increase_reservation, once per request, when the prompt grew.
StartTopUp(r) ==
  /\ pc[r] = "running" /\ stage[r] = "reserve"
  /\ \E a \in 1..(MaxEstimate - est[r]) : ReadUser(r, a, "topup")

\* Its locals die when reserve_budget returns.
Return(r) == /\ amount' = [amount EXCEPT ![r] = 0]
             /\ seen' = [seen EXCEPT ![r] = NothingSeen]

\* _get_budget, then `now`: is a period reset due by what was read?
ReadBudget(r) ==
  LET b == seen[r].budget IN
  /\ pc[r] = "budget"
  /\ \/ /\ b \notin budgets
        /\ pc' = [pc EXCEPT ![r] = "running"]
        /\ Return(r)
     \/ /\ b \in budgets
        /\ seen' = [seen EXCEPT ![r] =
                      [budget |-> b, resetAt |-> seen[r].resetAt, spend |-> seen[r].spend,
                       cap |-> cap[b], dur |-> dur[b], at |-> now]]
        /\ pc' = [pc EXCEPT ![r] =
                    IF seen[r].resetAt # Never /\ now >= seen[r].resetAt
                    THEN "reset" ELSE "gate"]
        /\ UNCHANGED amount
  /\ UNCHANGED <<row, tables, resetLog, stage, est, handle, clock, history>>

\* reserve_budget catches nothing: what one of its statements raises ends it.
Raises(r) == pc' = [pc EXCEPT ![r] = Rejected(stage[r])] /\ Return(r)

\* A statement failed, without effect.
ReserveFails(r) ==
  /\ pc[r] \in {"budget", "reset", "gate"}
  /\ Raises(r)
  /\ UNCHANGED <<row, tables, resetLog, stage, est, handle, clock, history>>

\* A faulty variant of ResetStillDue: any deadline will do.
ResetUnguarded(r) == alive /\ resetAt # Never

\* The WHERE clause of the reset, on the row as it is now.
ResetStillDue(r) == alive /\ resetAt # Never /\ resetAt <= seen[r].at

\* _cas_reset_user_budget: spend and the period are reset, `reserved` is not.
\* The log row takes previous_spend from the user object read earlier.  Its
\* except clause passes on a commit that raised, the reset done or not.
CasReset(r) ==
  /\ pc[r] = "reset"
  /\ \/ pc' = [pc EXCEPT ![r] = "gate"] /\ UNCHANGED <<amount, seen>>
     \/ ResetStillDue(r) /\ Raises(r)
  /\ \/ /\ ResetStillDue(r)
        /\ spend' = 0
        /\ resetAt' = NextReset(seen[r].at, seen[r].dur)
        /\ resetLog' = Append(resetLog,
             [due |-> resetAt, at |-> seen[r].at, previous |-> seen[r].spend,
              erased |-> spend, budget |-> seen[r].budget])
     \/ /\ ~ResetStillDue(r)
        /\ UNCHANGED <<spend, resetAt, resetLog>>
  /\ UNCHANGED <<alive, blocked, reserved, budgetId, tables, stage, est, handle,
                 clock, history>>

\* A faulty variant of FitsUnderCap: pending holds are not counted.
FitsUnderSpend(r) == /\ alive
                     /\ spend < seen[r].cap
                     /\ spend + amount[r] <= seen[r].cap

\* The conditional UPDATE, on the row as it is now and the cap as it was read.
FitsUnderCap(r) ==
  /\ alive
  /\ spend + reserved < seen[r].cap
  /\ spend + reserved + amount[r] <= seen[r].cap

\* Does the UPDATE match the row?
Matches(r) == IF seen[r].cap = Uncapped THEN alive ELSE FitsUnderCap(r)

\* It does: the estimate is in the row.
Pledge(r) ==
  /\ Matches(r)
  /\ reserved' = reserved + amount[r]
  /\ exposure' = IF seen[r].cap = Uncapped THEN exposure + amount[r] ELSE exposure
  /\ UNCHANGED <<excess, highCap>>

\* The handle returned, or what increase_reservation adds to the old one.
Granted(r) ==
  /\ est' = [est EXCEPT ![r] = est[r] + amount[r]]
  /\ handle' = handle \cup {r}
  /\ pc' = [pc EXCEPT ![r] = "running"]
  /\ Return(r)

\* A free model reserves nothing; an uncapped budget adds the estimate without
\* looking at the row count; a capped one is rejected when no row matched.  A
\* commit that raised leaves the estimate in the row and no handle for it.
Gate(r) ==
  /\ pc[r] = "gate"
  /\ \/ /\ pc' = [pc EXCEPT ![r] = "running"] /\ Return(r)
        /\ UNCHANGED <<reserved, est, handle, history>>
     \/ /\ Pledge(r) /\ Granted(r)
        /\ taken' = [taken EXCEPT ![r] = taken[r] + amount[r]]
        /\ UNCHANGED orphaned
     \/ /\ Pledge(r) /\ Raises(r)
        /\ orphaned' = orphaned + amount[r]
        /\ UNCHANGED <<est, handle, taken>>
     \/ /\ ~Matches(r) /\ seen[r].cap = Uncapped /\ Granted(r)
        /\ UNCHANGED <<reserved, history>>
     \/ /\ ~Matches(r) /\ seen[r].cap # Uncapped /\ Raises(r)
        /\ UNCHANGED <<reserved, est, handle, history>>
  /\ UNCHANGED <<alive, blocked, spend, budgetId, resetAt, tables, resetLog,
                 stage, clock>>

-----------------------------------------------------------------------------
(***************************************************************************)
(* Settlement.                                                             *)
(***************************************************************************)

\* _release_reserved: subtraction clamped at zero.
Released(r) == Larger(reserved - est[r], 0)

\* What reconcile and refund do to the hold of r: nothing when the handle
\* reserved nothing or the user is deleted.  The handle does not know whether
\* its estimate is still in the row.
GiveBack(r) ==
  IF r \in handle /\ alive
  THEN /\ reserved' = Released(r)
       /\ taken' = [taken EXCEPT ![r] = 0]
       /\ excess' = excess + (est[r] - taken[r])
  ELSE UNCHANGED <<reserved, taken, excess>>

\* The part of cost c that no capped hold stood for.
Overrun(r, c) == IF r \in handle THEN Larger(c - est[r], 0) ELSE c

\* The settling statement took effect: its handler is done, or was told it
\* failed and is about to refund.  run_standalone_non_stream refunds on any
\* exception, its own reconcile's included, and the stream generator's finally
\* refunds when its first refund was cancelled.
Settled(r) == \/ pc' = [pc EXCEPT ![r] = "done"]
              \/ pc[r] = "running" /\ pc' = [pc EXCEPT ![r] = "unsure"]

\* reconcile_reservation: the request was served.
Reconcile(r) ==
  /\ pc[r] = "running"
  /\ \E c \in Costs :
       /\ spend' = IF alive THEN spend + c ELSE spend
       /\ exposure' = exposure + Overrun(r, c)
  /\ GiveBack(r)
  /\ Settled(r)
  /\ UNCHANGED <<alive, blocked, budgetId, resetAt, tables, resetLog, stage, amount,
                 seen, est, handle, clock, orphaned, highCap>>

\* refund_reservation: the request failed, or its top-up was rejected.
Refund(r) ==
  /\ pc[r] \in {"running", "unsure", "failed"}
  /\ GiveBack(r)
  /\ Settled(r)
  /\ UNCHANGED <<alive, blocked, spend, budgetId, resetAt, tables, resetLog, stage,
                 amount, seen, est, handle, clock, orphaned, exposure, highCap>>

\* The settling UPDATE failed, or its handler was cancelled before it, and
\* nothing tries again.
SettlementLost(r) ==
  /\ pc[r] \in {"running", "unsure", "failed"}
  /\ pc' = [pc EXCEPT ![r] = "done"]
  /\ UNCHANGED <<row, tables, resetLog, stage, amount, seen, est, handle, clock, history>>

\* _bill_vision_side_call: spend committed through a handle with no hold, at
\* most once, after the attachments were resolved.
BillSideCall(r) ==
  /\ pc[r] = "running" /\ stage[r] # "billed"
  /\ stage' = [stage EXCEPT ![r] = "billed"]
  /\ \E c \in Costs :
       /\ spend' = IF alive THEN spend + c ELSE spend
       /\ exposure' = exposure + c
  /\ UNCHANGED <<alive, blocked, reserved, budgetId, resetAt, tables, resetLog, pc,
                 amount, seen, est, handle, clock, taken, orphaned, excess, highCap>>

RequestStep(r) ==
  \/ StartReserve(r) \/ StartTopUp(r) \/ ReadBudget(r) \/ ReserveFails(r)
  \/ CasReset(r) \/ Gate(r)
  \/ Reconcile(r) \/ Refund(r) \/ SettlementLost(r) \/ BillSideCall(r)

-----------------------------------------------------------------------------
(***************************************************************************)
(* The admin endpoints, and time.                                          *)
(***************************************************************************)

AdminCall == adminOps < MaxAdminOps /\ adminOps' = adminOps + 1

\* Assigning a budget starts a new period; spend and reserved stay.
Assign(b) ==
  /\ budgetId' = b
  /\ resetAt' = IF b = NoBudget THEN Never ELSE NextReset(now, dur[b])

\* A faulty variant of ReviveUser: the revived row starts from zero.
ReviveUserFromZero ==
  /\ AdminCall /\ ~alive
  /\ alive' = TRUE
  /\ spend' = 0 /\ reserved' = 0
  /\ blocked' \in BOOLEAN
  /\ \E b \in budgets \cup {NoBudget} : Assign(b)
  /\ UNCHANGED <<tables, resetLog, local, now, history>>

\* create_user on a soft-deleted row revives it with no spend.
ReviveUser ==
  /\ AdminCall /\ ~alive
  /\ alive' = TRUE
  /\ spend' = 0
  /\ blocked' \in BOOLEAN
  /\ \E b \in budgets \cup {NoBudget} : Assign(b)
  /\ UNCHANGED <<reserved, tables, resetLog, local, now, history>>

UpdateUser ==
  /\ AdminCall /\ alive
  /\ blocked' \in BOOLEAN
  /\ \/ \E b \in budgets : Assign(b)
     \/ UNCHANGED <<budgetId, resetAt>>
  /\ UNCHANGED <<alive, spend, reserved, tables, resetLog, local, now, history>>

\* delete_user is a soft delete: the row keeps its columns.
DeleteUser ==
  /\ AdminCall /\ alive
  /\ alive' = FALSE
  /\ UNCHANGED <<blocked, spend, reserved, budgetId, resetAt, tables, resetLog,
                 local, now, history>>

\* update_budget: max_budget and budget_duration_sec can be changed, not unset.
UpdateBudget ==
  /\ AdminCall
  /\ \E b \in budgets :
       /\ \E m \in (Caps \ {Uncapped}) \cup {cap[b]} :
            /\ cap' = [cap EXCEPT ![b] = m]
            /\ highCap' = IF m = Uncapped THEN highCap ELSE Larger(highCap, m)
       /\ \E d \in (Durations \ {0}) \cup {dur[b]} : dur' = [dur EXCEPT ![b] = d]
  /\ UNCHANGED <<row, budgets, resetLog, local, now, taken, orphaned,
                 excess, exposure>>

\* delete_budget: users are detached; a budget with a reset log row cannot go,
\* because budget_reset_logs.budget_id is not nullable.
DeleteBudget ==
  /\ AdminCall
  /\ \E b \in budgets :
       /\ \A i \in DOMAIN resetLog : resetLog[i].budget # b
       /\ budgets' = budgets \ {b}
       /\ budgetId' = IF budgetId = b THEN NoBudget ELSE budgetId
  /\ UNCHANGED <<alive, blocked, spend, reserved, resetAt, cap, dur, resetLog, local,
                 now, history>>

Tick ==
  /\ now < MaxTime
  /\ now' = now + 1
  /\ UNCHANGED <<row, tables, resetLog, local, adminOps, history>>

AdminStep == ReviveUser \/ UpdateUser \/ DeleteUser \/ UpdateBudget \/ DeleteBudget

Next == (\E r \in Requests : RequestStep(r)) \/ AdminStep \/ Tick

Spec == Init /\ [][Next]_vars

-----------------------------------------------------------------------------
(***************************************************************************)
(* Properties.                                                             *)
(***************************************************************************)

\* users.reserved is the sum of what was reserved and not given back, through
\* stale reads, resets, top-ups, deletion, revival and statements whose answer
\* was lost: it never holds more, and less only by what some settlement gave
\* back a second time (or for a handle of an uncapped budget whose user was
\* deleted under it, which had put nothing there).  So the clamp of
\* _release_reserved hides no more than that, and without a second give-back
\* no settlement takes the units of another request.
ReservedMatchesHolds == reserved <= Outstanding /\ Outstanding <= reserved + excess

\* reserve_budget's promise against concurrent overspending, of the units that
\* are really outstanding: spend plus those goes past every cap that was ever
\* in force only by what was never pre-debited under a cap (costs above their
\* estimate, side calls, requests let through without a reservation) and by
\* what was given back twice.
CommittedUnderCap == spend + Outstanding <= highCap + exposure + excess

\* The lazy reset fires at most once per period and never before its end, even
\* when several requests at the boundary all read the old period: each reset
\* replaces a deadline later than every instant at which one was done.
ResetOncePerPeriod ==
  /\ \A i \in DOMAIN resetLog : resetLog[i].due <= resetLog[i].at
  /\ \A i, j \in DOMAIN resetLog : i < j => resetLog[i].at < resetLog[j].due
  /\ \A i \in DOMAIN resetLog : resetAt = Never \/ resetLog[i].at < resetAt

\* budget_reset_logs.previous_spend is what the reset erased.
ResetLogIsExact == \A i \in DOMAIN resetLog : resetLog[i].previous = resetLog[i].erased

\* reconcile_reservation's docstring: an estimate whose settlement was lost
\* stays in users.reserved until the next budget reset zeroes it.
ResetClearsLostHolds ==
  [][resetLog' # resetLog => \A r \in Requests : taken'[r] > 0 => pc[r] # "done"]_vars

-----------------------------------------------------------------------------
(***************************************************************************)
(* The inductive invariant behind the properties above.                    *)
(***************************************************************************)

\* What the handlers carry between steps: a hold is part of its handle's estimate.
LocalsInv ==
  /\ \A r \in Requests : pc[r] = "idle" => r \notin handle
  /\ \A r \in Requests : r \notin handle => est[r] = 0
  /\ \A r \in Requests : taken[r] <= est[r]

\* A cap read earlier is not above what has been in force.
CapInv ==
  /\ \A b \in Budgets : cap[b] # Uncapped => cap[b] <= highCap
  /\ \A r \in Requests : seen[r].cap # Uncapped => seen[r].cap <= highCap
  /\ CommittedUnderCap

\* Resets and the instants the handlers remember are in the past.
PeriodInv ==
  /\ ResetOncePerPeriod
  /\ \A i \in DOMAIN resetLog : resetLog[i].at <= now
  /\ \A r \in Requests : seen[r].at <= now

\* The conjunction that every step preserves: the accounts, the caps and the
\* periods hold together through every interleaving of requests and admins.
IInv == TypeOK /\ LocalsInv /\ ReservedMatchesHolds /\ CapInv /\ PeriodInv

=============================================================================
