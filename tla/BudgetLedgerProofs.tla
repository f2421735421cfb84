------------------------- MODULE BudgetLedgerProofs -------------------------
(***************************************************************************)
(* Proofs about BudgetLedger, for every value of its constants, and about  *)
(* ModelCatalog: the prices the ledger's charges are made of, for any      *)
(* clock and any number of tasks that list models.                         *)
(***************************************************************************)
EXTENDS BudgetLedger, ModelCatalog, LibraryLemmas, FiniteSetTheorems, TLAPS

-----------------------------------------------------------------------------
(***************************************************************************)
(* Types.                                                                  *)
(***************************************************************************)

LEMMA InitTypeOK == Init => TypeOK
<1> SUFFICES ASSUME Init PROVE TypeOK
  OBVIOUS
<1> USE ConstantsAssumption DEF Init, Never
<1>1. cap \in [Budgets -> Nat \cup {Uncapped}] /\ dur \in [Budgets -> Nat]
  OBVIOUS
<1>2. resetAt \in Nat
  BY <1>1 DEF NextReset
<1>3. RowTypeOK
  BY <1>2 DEF RowTypeOK
<1>4. TablesTypeOK
  BY <1>1 DEF TablesTypeOK
<1>5. LocalTypeOK
  BY DEF LocalTypeOK, Amounts, Reads, NothingSeen
<1>6. highCap \in Nat
  BY <1>1
<1>7. /\ now \in 1..MaxTime /\ adminOps \in 0..MaxAdminOps
      /\ orphaned \in Nat /\ excess \in Nat /\ exposure \in Nat
  OBVIOUS
<1>8. taken \in [Requests -> Amounts]
  BY DEF Amounts
<1>9. OtherTypeOK
  BY <1>6, <1>7, <1>8 DEF OtherTypeOK
<1> QED
  BY <1>3, <1>4, <1>5, <1>9 DEF TypeOK

LEMMA RowType ==
  ASSUME TypeOK, [Next]_vars
  PROVE  RowTypeOK'
<1> USE DEF TypeOK, RowTypeOK
<1>1. CASE UNCHANGED row
  BY <1>1 DEF row
<1>2. ASSUME NEW r \in Requests, CasReset(r) PROVE RowTypeOK'
  <2>1. seen[r].at \in Nat /\ seen[r].dur \in Nat
    BY <1>2 DEF LocalTypeOK, Reads
  <2>2. resetAt' \in Nat /\ spend' \in Nat
    BY <1>2, <2>1 DEF CasReset, NextReset, Never
  <2> QED BY <1>2, <2>2 DEF CasReset
<1>3. ASSUME NEW r \in Requests, Gate(r) PROVE RowTypeOK'
  <2>1. reserved' \in Nat
    BY <1>3 DEF Gate, Pledge, LocalTypeOK, Amounts
  <2> QED BY <1>3, <2>1 DEF Gate
<1>4. ASSUME NEW r \in Requests, Reconcile(r) \/ Refund(r) PROVE RowTypeOK'
  <2>1. reserved' \in Nat
    BY <1>4, ConstantsAssumption
       DEF Reconcile, Refund, GiveBack, Released, Larger, LocalTypeOK, Amounts
  <2>2. spend' \in Nat
    BY <1>4, ConstantsAssumption DEF Reconcile, Refund, Costs
  <2> QED BY <1>4, <2>1, <2>2 DEF Reconcile, Refund
<1>5. ASSUME NEW r \in Requests, BillSideCall(r) PROVE RowTypeOK'
  <2>1. spend' \in Nat
    BY <1>5, ConstantsAssumption DEF BillSideCall, Costs
  <2> QED BY <1>5, <2>1 DEF BillSideCall
<1>6. ASSUME ReviveUser \/ UpdateUser PROVE RowTypeOK'
  <2>1. resetAt' \in Nat /\ budgetId' \in Budgets \cup {NoBudget}
    BY <1>6 DEF ReviveUser, UpdateUser, Assign, NextReset, Never, TablesTypeOK, OtherTypeOK
  <2>2. CASE ReviveUser
    BY <2>1, <2>2 DEF ReviveUser
  <2>3. CASE UpdateUser
    BY <2>1, <2>3 DEF UpdateUser
  <2> QED BY <1>6, <2>2, <2>3
<1>7. CASE DeleteUser
  BY <1>7 DEF DeleteUser
<1>8. CASE DeleteBudget
  BY <1>8 DEF DeleteBudget
<1>9. CASE UpdateBudget \/ Tick
  BY <1>1, <1>9 DEF UpdateBudget, Tick
<1>10. ASSUME NEW r \in Requests,
              \/ StartReserve(r) \/ StartTopUp(r) \/ ReadBudget(r) \/ ReserveFails(r)
              \/ SettlementLost(r)
       PROVE  RowTypeOK'
  BY <1>1, <1>10 DEF StartReserve, StartTopUp, ReadUser, ReadBudget, ReserveFails, SettlementLost
<1>11. CASE UNCHANGED vars
  BY <1>1, <1>11 DEF vars
<1> QED
  BY <1>2, <1>3, <1>4, <1>5, <1>6, <1>7, <1>8, <1>9, <1>10, <1>11
     DEF Next, RequestStep, AdminStep

LEMMA TablesType ==
  ASSUME TypeOK, [Next]_vars
  PROVE  TablesTypeOK'
<1> USE DEF TypeOK, TablesTypeOK
<1>1. CASE UNCHANGED <<tables, resetLog>>
  BY <1>1 DEF tables
<1>2. ASSUME NEW r \in Requests, CasReset(r) PROVE TablesTypeOK'
  <2>1. /\ seen[r].at \in Nat /\ seen[r].spend \in Nat
        /\ seen[r].budget \in Budgets /\ resetAt \in Nat /\ spend \in Nat
    BY <1>2 DEF CasReset, LocalTypeOK, RowTypeOK, Reads
  <2>2. resetLog' \in Seq([due: Nat, at: Nat, previous: Nat, erased: Nat, budget: Budgets])
    <3>1. CASE ResetStillDue(r)
      <4>1. resetLog' = Append(resetLog,
              [due |-> resetAt, at |-> seen[r].at, previous |-> seen[r].spend,
               erased |-> spend, budget |-> seen[r].budget])
        BY <1>2, <3>1 DEF CasReset
      <4> QED BY <2>1, <4>1
    <3>2. CASE ~ResetStillDue(r)
      BY <1>2, <3>2 DEF CasReset
    <3> QED BY <3>1, <3>2
  <2> QED BY <1>2, <2>2 DEF CasReset, tables
<1>3. CASE UpdateBudget
  <2>1. /\ cap' \in [Budgets -> Nat \cup {Uncapped}]
        /\ dur' \in [Budgets -> Nat]
    BY <1>3, ConstantsAssumption DEF UpdateBudget
  <2> QED BY <1>3, <2>1 DEF UpdateBudget
<1>4. CASE DeleteBudget
  BY <1>4 DEF DeleteBudget
<1>5. CASE ReviveUser \/ UpdateUser \/ DeleteUser \/ Tick
  BY <1>1, <1>5 DEF ReviveUser, UpdateUser, DeleteUser, Tick
<1>6. ASSUME NEW r \in Requests,
             \/ StartReserve(r) \/ StartTopUp(r) \/ ReadBudget(r) \/ ReserveFails(r) \/ Gate(r)
             \/ Reconcile(r) \/ Refund(r) \/ SettlementLost(r) \/ BillSideCall(r)
      PROVE  TablesTypeOK'
  BY <1>1, <1>6 DEF StartReserve, StartTopUp, ReadUser, ReadBudget, ReserveFails, Gate,
                    Reconcile, Refund, SettlementLost, BillSideCall
<1>7. CASE UNCHANGED vars
  BY <1>1, <1>7 DEF vars
<1> QED
  BY <1>2, <1>3, <1>4, <1>5, <1>6, <1>7 DEF Next, RequestStep, AdminStep

LEMMA ReturnType ==
  ASSUME TypeOK, NEW r \in Requests, Return(r)
  PROVE  /\ amount' \in [Requests -> Amounts] /\ seen' \in [Requests -> Reads]
         /\ amount'[r] = 0
         /\ \A q \in Requests : q # r => amount'[q] = amount[q] /\ seen'[q] = seen[q]
  BY ConstantsAssumption DEF Return, Amounts, Reads, NothingSeen, Never, TypeOK, LocalTypeOK

LEMMA ReadUserType ==
  ASSUME TypeOK, NEW r \in Requests, NEW a \in Amounts, NEW call \in {"reserve", "topup"},
         est[r] + a <= MaxEstimate, ReadUser(r, a, call)
  PROVE  LocalTypeOK'
<1> USE DEF TypeOK, LocalTypeOK
<1>1. pc' \in [Requests -> {"idle", "budget", "reset", "gate", "running", "unsure", "failed",
                       "done"}]
  BY DEF ReadUser, Rejected
<1>2. seen' \in [Requests -> Reads]
  BY ConstantsAssumption DEF ReadUser, Reads, RowTypeOK
<1>3. /\ amount' \in [Requests -> Amounts]
      /\ stage' \in [Requests -> {"reserve", "topup", "billed"}]
  BY DEF ReadUser
<1>4. \A q \in Requests : pc'[q] \in {"budget", "reset", "gate"} => seen'[q].budget \in Budgets
  BY <1>1, <1>2 DEF ReadUser, Rejected, RowTypeOK
<1>5. \A q \in Requests : est[q] + amount'[q] <= MaxEstimate
  BY DEF ReadUser
<1>6. \A q \in Requests : pc'[q] = "idle" => pc[q] = "idle"
  BY DEF ReadUser, Rejected
<1> QED BY <1>1, <1>2, <1>3, <1>4, <1>5, <1>6 DEF ReadUser

LEMMA ReadBudgetType ==
  ASSUME TypeOK, NEW r \in Requests, ReadBudget(r)
  PROVE  LocalTypeOK'
<1> USE DEF TypeOK, LocalTypeOK
<1>1. pc[r] = "budget" /\ UNCHANGED <<stage, est, handle>>
  BY DEF ReadBudget
<1>2. /\ pc' \in [Requests -> {"idle", "budget", "reset", "gate", "running", "unsure", "failed",
                       "done"}]
      /\ pc'[r] # "idle"
      /\ \A q \in Requests : q # r => pc'[q] = pc[q]
  BY DEF ReadBudget
<1>3. CASE seen[r].budget \notin budgets
  <2>1. pc'[r] = "running" /\ Return(r)
    BY <1>3 DEF ReadBudget
  <2> QED BY <1>1, <1>2, <2>1, ReturnType, ConstantsAssumption DEF Amounts
<1>4. CASE seen[r].budget \in budgets
  <2> DEFINE b == seen[r].budget
             new == [budget |-> b, resetAt |-> seen[r].resetAt, spend |-> seen[r].spend,
                     cap |-> cap[b], dur |-> dur[b], at |-> now]
  <2>1. b \in Budgets /\ cap[b] \in Nat \cup {Uncapped} /\ dur[b] \in Nat /\ now \in Nat
    BY <1>4, ConstantsAssumption DEF TablesTypeOK, OtherTypeOK
  <2>2. new \in Reads /\ new.budget = b
    BY <2>1 DEF Reads
  <2>3. seen' = [seen EXCEPT ![r] = new] /\ UNCHANGED amount
    BY <1>4 DEF ReadBudget
  <2> HIDE DEF new
  <2>4. seen' \in [Requests -> Reads]
    BY <2>2, <2>3
  <2>5. \A q \in Requests : pc'[q] \in {"budget", "reset", "gate"} => seen'[q].budget \in Budgets
    <3> TAKE q \in Requests
    <3>1. CASE q = r
      BY <3>1, <2>1, <2>2, <2>3
    <3>2. CASE q # r
      BY <3>2, <1>2, <2>3
    <3> QED BY <3>1, <3>2
  <2>6. \A q \in Requests : pc'[q] = "idle" => pc[q] = "idle"
    BY <1>2
  <2> QED BY <1>1, <1>2, <2>3, <2>4, <2>5, <2>6
<1> QED BY <1>3, <1>4

\* What ends reserve_budget by an exception leaves the handle as it was.
LEMMA RaisesType ==
  ASSUME TypeOK, NEW r \in Requests, Raises(r), UNCHANGED <<stage, est, handle>>
  PROVE  LocalTypeOK'
<1> USE DEF TypeOK, LocalTypeOK
<1>1. /\ pc' \in [Requests -> {"idle", "budget", "reset", "gate", "running", "unsure", "failed",
                             "done"}]
      /\ pc'[r] \in {"failed", "done"}
      /\ \A q \in Requests : q # r => pc'[q] = pc[q]
  BY DEF Raises, Rejected
<1>2. Return(r)
  BY DEF Raises
<1> QED BY <1>1, <1>2, ReturnType, ConstantsAssumption DEF Amounts

LEMMA GateType ==
  ASSUME TypeOK, NEW r \in Requests, Gate(r)
  PROVE  LocalTypeOK'
<1> USE DEF TypeOK, LocalTypeOK
<1>1. Return(r) /\ pc[r] = "gate" /\ UNCHANGED stage
  BY DEF Gate, Granted, Raises
<1>2. /\ pc' \in [Requests -> {"idle", "budget", "reset", "gate", "running", "unsure", "failed",
                             "done"}]
      /\ pc'[r] \in {"running", "failed", "done"}
      /\ \A q \in Requests : q # r => pc'[q] = pc[q]
  BY DEF Gate, Granted, Raises, Rejected
<1>3. /\ est' \in [Requests -> Amounts]
      /\ \A q \in Requests : q # r => est'[q] = est[q]
  BY ConstantsAssumption DEF Gate, Granted, Amounts
<1>4. handle' \subseteq Requests
  BY DEF Gate, Granted
<1>5. /\ amount' \in [Requests -> Amounts] /\ seen' \in [Requests -> Reads]
      /\ amount'[r] = 0
      /\ \A q \in Requests : q # r => amount'[q] = amount[q] /\ seen'[q] = seen[q]
  BY <1>1, ReturnType
<1>6. \A q \in Requests : pc'[q] \in {"budget", "reset", "gate"} => seen'[q].budget \in Budgets
  BY <1>2, <1>5
<1>7. \A q \in Requests : pc'[q] = "idle" => est'[q] = 0
  BY <1>2, <1>3
<1>8. \A q \in Requests : est'[q] + amount'[q] <= MaxEstimate
  BY <1>3, <1>5, ConstantsAssumption DEF Amounts
<1> QED BY <1>1, <1>2, <1>3, <1>4, <1>5, <1>6, <1>7, <1>8

LEMMA LocalType ==
  ASSUME TypeOK, [Next]_vars
  PROVE  LocalTypeOK'
<1> USE DEF TypeOK, LocalTypeOK
<1>1. CASE UNCHANGED local
  BY <1>1 DEF local
<1>2. ASSUME NEW r \in Requests, StartReserve(r) PROVE LocalTypeOK'
  <2>1. PICK a \in Amounts : ReadUser(r, a, "reserve")
    BY <1>2 DEF StartReserve
  <2>2. est[r] + a <= MaxEstimate
    BY <1>2, ConstantsAssumption DEF StartReserve, Amounts
  <2> QED BY <2>1, <2>2, ReadUserType
<1>3. ASSUME NEW r \in Requests, StartTopUp(r) PROVE LocalTypeOK'
  <2>1. PICK a \in 1..(MaxEstimate - est[r]) : ReadUser(r, a, "topup")
    BY <1>3 DEF StartTopUp
  <2>2. a \in Amounts /\ est[r] + a <= MaxEstimate
    BY <2>1, ConstantsAssumption DEF Amounts
  <2> QED BY <2>1, <2>2, ReadUserType
<1>4. ASSUME NEW r \in Requests, CasReset(r) PROVE LocalTypeOK'
  <2>1. UNCHANGED <<stage, est, handle>>
    BY <1>4 DEF CasReset
  <2>2. CASE Raises(r)
    BY <2>1, <2>2, RaisesType
  <2>3. CASE pc' = [pc EXCEPT ![r] = "gate"] /\ UNCHANGED <<amount, seen>>
    BY <1>4, <2>1, <2>3 DEF CasReset
  <2> QED BY <1>4, <2>2, <2>3 DEF CasReset
<1>5. ASSUME NEW r \in Requests, Reconcile(r) PROVE LocalTypeOK'
  BY <1>5 DEF Reconcile, Settled
<1>6. ASSUME NEW r \in Requests, Refund(r) PROVE LocalTypeOK'
  BY <1>6 DEF Refund, Settled
<1>7. ASSUME NEW r \in Requests, SettlementLost(r) PROVE LocalTypeOK'
  BY <1>7 DEF SettlementLost
<1>8. ASSUME NEW r \in Requests, BillSideCall(r) PROVE LocalTypeOK'
  BY <1>8 DEF BillSideCall
<1>9. CASE AdminStep \/ Tick
  BY <1>1, <1>9 DEF AdminStep, ReviveUser, UpdateUser, DeleteUser, UpdateBudget,
                    DeleteBudget, Tick
<1>10. CASE UNCHANGED vars
  BY <1>1, <1>10 DEF vars
<1>11. ASSUME NEW r \in Requests, ReserveFails(r) PROVE LocalTypeOK'
  BY <1>11, RaisesType DEF ReserveFails
<1> QED
  BY <1>2, <1>3, <1>4, <1>5, <1>6, <1>7, <1>8, <1>9, <1>10, <1>11, ReadBudgetType, GateType
     DEF Next, RequestStep

LEMMA OtherType ==
  ASSUME TypeOK, LocalsInv, [Next]_vars
  PROVE  OtherTypeOK'
<1> USE ConstantsAssumption DEF TypeOK, OtherTypeOK
<1>1. CASE UNCHANGED <<clock, history>>
  BY <1>1 DEF clock, history
<1>2. ASSUME NEW r \in Requests, Gate(r), \A q \in Requests : taken[q] <= est[q]
      PROVE  OtherTypeOK'
  <2>1. /\ taken[r] \in Nat /\ amount[r] \in Nat /\ taken[r] + amount[r] <= MaxEstimate
    <3>1. /\ taken[r] \in Nat /\ amount[r] \in Nat /\ est[r] \in Nat
          /\ taken[r] <= est[r] /\ est[r] + amount[r] <= MaxEstimate
      BY <1>2 DEF LocalTypeOK, Amounts
    <3> QED BY <3>1
  <2>2. /\ exposure' \in Nat /\ orphaned' \in Nat /\ excess' = excess /\ highCap' = highCap
        /\ UNCHANGED clock
    BY <1>2, <2>1 DEF Gate, Pledge, history
  <2>3. taken' \in [Requests -> Amounts]
    <3>1. taken[r] + amount[r] \in Amounts
      BY <2>1 DEF Amounts
    <3>2. taken' = taken \/ taken' = [taken EXCEPT ![r] = taken[r] + amount[r]]
      BY <1>2 DEF Gate, history
    <3> QED BY <3>1, <3>2
  <2> QED BY <2>2, <2>3 DEF clock
<1>3. ASSUME NEW r \in Requests, Reconcile(r) \/ Refund(r),
             \A q \in Requests : taken[q] <= est[q]
      PROVE  OtherTypeOK'
  <2>1. GiveBack(r) /\ UNCHANGED <<clock, orphaned, highCap>>
    BY <1>3 DEF Reconcile, Refund
  <2>2. est[r] - taken[r] \in Nat
    BY <1>3 DEF LocalTypeOK, Amounts
  <2>3. excess' \in Nat /\ taken' \in [Requests -> Amounts]
    BY <2>1, <2>2 DEF GiveBack, Amounts
  <2>4. exposure' \in Nat
    BY <1>3 DEF Reconcile, Refund, Overrun, Larger, Costs, LocalTypeOK, Amounts
  <2> QED BY <2>1, <2>3, <2>4 DEF clock
<1>5. ASSUME NEW r \in Requests, BillSideCall(r) PROVE OtherTypeOK'
  BY <1>5 DEF BillSideCall, Costs, clock
<1>6. CASE UpdateBudget
  <2>1. highCap' \in Nat
    BY <1>6 DEF UpdateBudget, Larger, TablesTypeOK
  <2> QED BY <1>6, <2>1 DEF UpdateBudget, AdminCall
<1>7. CASE ReviveUser \/ UpdateUser \/ DeleteUser \/ DeleteBudget
  BY <1>7 DEF ReviveUser, UpdateUser, DeleteUser, DeleteBudget, AdminCall, history
<1>8. CASE Tick
  BY <1>8 DEF Tick, history
<1>9. ASSUME NEW r \in Requests,
             \/ StartReserve(r) \/ StartTopUp(r) \/ ReadBudget(r) \/ ReserveFails(r)
             \/ CasReset(r) \/ SettlementLost(r)
      PROVE  OtherTypeOK'
  BY <1>1, <1>9 DEF StartReserve, StartTopUp, ReadUser, ReadBudget, ReserveFails, CasReset,
                    SettlementLost
<1>10. CASE UNCHANGED vars
  BY <1>1, <1>10 DEF vars
<1>11. \A q \in Requests : taken[q] <= est[q]
  BY DEF LocalsInv
<1> QED
  BY <1>2, <1>3, <1>11, <1>5, <1>6, <1>7, <1>8, <1>9, <1>10 DEF Next, RequestStep, AdminStep

-----------------------------------------------------------------------------
(***************************************************************************)
(* The units of a hold.                                                    *)
(***************************************************************************)

\* The units m+1 to n of one request.
Units(r, m, n) == {r} \X ((m + 1)..n)

LEMMA UnitsCount ==
  \A r : \A m, n \in Nat :
    m <= n => IsFiniteSet(Units(r, m, n)) /\ Cardinality(Units(r, m, n)) = n - m
<1> SUFFICES ASSUME NEW r, NEW m \in Nat, NEW n \in Nat, m <= n
             PROVE  IsFiniteSet(Units(r, m, n)) /\ Cardinality(Units(r, m, n)) = n - m
  OBVIOUS
<1> DEFINE I == (m + 1)..n
<1>1. IsFiniteSet({r}) /\ Cardinality({r}) = 1
  BY FS_Singleton
<1>2. m + 1 \in Int /\ n \in Int
  OBVIOUS
<1>3. IsFiniteSet(I) /\ Cardinality(I) = IF m + 1 > n THEN 0 ELSE n - (m + 1) + 1
  BY <1>2, FS_Interval
<1>4. Cardinality(I) = n - m
  BY <1>3
<1> HIDE DEF I
<1>5. IsFiniteSet({r} \X I) /\ Cardinality({r} \X I) = Cardinality({r}) * Cardinality(I)
  BY <1>1, <1>3, FS_Product
<1>6. Units(r, m, n) = {r} \X I
  BY DEF Units, I
<1> QED BY <1>1, <1>4, <1>5, <1>6

LEMMA HeldUnitsFinite == IsFiniteSet(HeldUnits)
<1>1. IsFiniteSet(1..MaxEstimate)
  BY ConstantsAssumption, FS_Interval
<1>2. IsFiniteSet(Requests \X (1..MaxEstimate))
  BY <1>1, ConstantsAssumption, FS_Product
<1>3. HeldUnits \subseteq Requests \X (1..MaxEstimate)
  BY DEF HeldUnits
<1> QED BY <1>2, <1>3, FS_Subset

\* Granting adds the new units of one request to the account.
LEMMA UnitsAdded ==
  ASSUME TypeOK, LocalsInv, NEW r \in Requests,
         taken' = [taken EXCEPT ![r] = taken[r] + amount[r]]
  PROVE  Cardinality(HeldUnits') = Cardinality(HeldUnits) + amount[r]
<1> DEFINE New == Units(r, taken[r], taken[r] + amount[r])
<1>1. /\ taken[r] \in Nat /\ amount[r] \in Nat /\ taken[r] + amount[r] <= MaxEstimate
      /\ taken \in [Requests -> Nat]
  <2>1. /\ taken[r] \in Nat /\ amount[r] \in Nat /\ est[r] \in Nat /\ MaxEstimate \in Nat
        /\ taken[r] <= est[r] /\ est[r] + amount[r] <= MaxEstimate
    BY ConstantsAssumption DEF TypeOK, LocalTypeOK, OtherTypeOK, LocalsInv, Amounts
  <2>2. taken \in [Requests -> Nat]
    BY DEF TypeOK, OtherTypeOK, Amounts
  <2> QED BY <2>1, <2>2
<1>2. IsFiniteSet(New) /\ Cardinality(New) = amount[r]
  <2>1. /\ taken[r] + amount[r] \in Nat /\ taken[r] <= taken[r] + amount[r]
        /\ (taken[r] + amount[r]) - taken[r] = amount[r]
    BY <1>1
  <2>2. IsFiniteSet(New) /\ Cardinality(New) = (taken[r] + amount[r]) - taken[r]
    BY <1>1, <2>1, UnitsCount
  <2> QED BY <2>1, <2>2
<1>3. taken'[r] = taken[r] + amount[r] /\ \A q \in Requests : q # r => taken'[q] = taken[q]
  BY <1>1
<1>4. HeldUnits' = HeldUnits \cup New
  <2>1. ASSUME NEW u \in HeldUnits' PROVE u \in HeldUnits \cup New
    <3>1. u \in Requests \X (1..MaxEstimate) /\ u[2] <= taken'[u[1]]
      BY <2>1 DEF HeldUnits
    <3>2. CASE u[1] = r
      BY <1>1, <1>3, <3>1, <3>2, ConstantsAssumption DEF HeldUnits, Units
    <3>3. CASE u[1] # r
      BY <1>3, <3>1, <3>3 DEF HeldUnits
    <3> QED BY <3>2, <3>3
  <2>2. ASSUME NEW u \in HeldUnits PROVE u \in HeldUnits'
    <3>1. u \in Requests \X (1..MaxEstimate) /\ u[2] <= taken[u[1]]
      BY DEF HeldUnits
    <3>2. u[2] <= taken'[u[1]]
      BY <1>1, <1>3, <3>1, ConstantsAssumption
    <3> QED BY <3>1, <3>2 DEF HeldUnits
  <2>3. ASSUME NEW u \in New PROVE u \in HeldUnits'
    <3>1. /\ u \in Requests \X (1..MaxEstimate) /\ u[1] = r /\ u[2] <= taken'[r]
      BY <1>1, <1>3, ConstantsAssumption DEF Units
    <3> QED BY <3>1 DEF HeldUnits
  <2> QED BY <2>1, <2>2, <2>3
<1>5. HeldUnits \cap New = {}
  BY <1>1 DEF HeldUnits, Units
<1> HIDE DEF New
<1>6. Cardinality(HeldUnits \cup New) = Cardinality(HeldUnits) + Cardinality(New) - Cardinality({})
  BY <1>2, <1>5, HeldUnitsFinite, FS_Union
<1>7. Cardinality(HeldUnits) \in Nat
  BY HeldUnitsFinite, FS_CardinalityType
<1> QED BY <1>1, <1>2, <1>4, <1>6, <1>7, FS_EmptySet

\* Settling takes exactly the units of one request out of the account.
LEMMA UnitsRemoved ==
  ASSUME TypeOK, NEW r \in Requests, taken' = [taken EXCEPT ![r] = 0]
  PROVE  Cardinality(HeldUnits') = Cardinality(HeldUnits) - taken[r]
<1> DEFINE Old == Units(r, 0, taken[r])
<1>1. taken[r] \in Nat /\ taken[r] <= MaxEstimate /\ taken \in [Requests -> Nat]
  BY ConstantsAssumption DEF TypeOK, OtherTypeOK, Amounts
<1>2. Old \subseteq HeldUnits
  BY <1>1, ConstantsAssumption DEF HeldUnits, Units
<1>3. Cardinality(Old) = taken[r]
  <2>1. Cardinality(Old) = taken[r] - 0
    BY <1>1, UnitsCount
  <2> QED BY <1>1, <2>1
<1>4. taken'[r] = 0 /\ \A q \in Requests : q # r => taken'[q] = taken[q]
  BY <1>1
<1>5. HeldUnits' = HeldUnits \ Old
  <2>1. ASSUME NEW u \in HeldUnits' PROVE u \in HeldUnits \ Old
    <3>1. u \in Requests \X (1..MaxEstimate) /\ u[2] <= taken'[u[1]]
      BY <2>1 DEF HeldUnits
    <3>2. u[1] # r
      BY <1>4, <3>1, ConstantsAssumption
    <3> QED BY <1>4, <3>1, <3>2 DEF HeldUnits, Units
  <2>2. ASSUME NEW u \in HeldUnits, u \notin Old PROVE u \in HeldUnits'
    <3>1. u \in Requests \X (1..MaxEstimate) /\ u[2] <= taken[u[1]]
      BY <2>2 DEF HeldUnits
    <3>2. CASE u[1] = r
      BY <1>1, <2>2, <3>1, <3>2, ConstantsAssumption DEF Units
    <3>3. CASE u[1] # r
      BY <1>4, <3>1, <3>3 DEF HeldUnits
    <3> QED BY <3>2, <3>3
  <2> QED BY <2>1, <2>2
<1> HIDE DEF Old
<1>6. HeldUnits \cap Old = Old
  BY <1>2
<1>7. Cardinality(HeldUnits \ Old) = Cardinality(HeldUnits) - Cardinality(HeldUnits \cap Old)
  BY HeldUnitsFinite, FS_Difference
<1> QED BY <1>3, <1>5, <1>6, <1>7

-----------------------------------------------------------------------------
(***************************************************************************)
(* The inductive invariant, part by part.                                  *)
(***************************************************************************)

\* The units outstanding are a natural number.
LEMMA OutstandingType ==
  ASSUME TypeOK
  PROVE  Outstanding \in Nat
BY HeldUnitsFinite, FS_CardinalityType DEF Outstanding, TypeOK, OtherTypeOK

\* The units of one request are among them.
LEMMA UnitsWithin ==
  ASSUME TypeOK, NEW r \in Requests
  PROVE  taken[r] <= Outstanding
<1>1. taken[r] \in Nat /\ taken[r] <= MaxEstimate /\ orphaned \in Nat
  BY ConstantsAssumption DEF TypeOK, OtherTypeOK, Amounts
<1>2. Units(r, 0, taken[r]) \subseteq HeldUnits
  BY <1>1, ConstantsAssumption DEF HeldUnits, Units
<1>3. Cardinality(Units(r, 0, taken[r])) = taken[r] - 0
  BY <1>1, UnitsCount
<1>4. /\ Cardinality(Units(r, 0, taken[r])) <= Cardinality(HeldUnits)
      /\ Cardinality(HeldUnits) \in Nat
  BY <1>2, HeldUnitsFinite, FS_Subset, FS_CardinalityType
<1> QED BY <1>1, <1>3, <1>4 DEF Outstanding

LEMMA InitIInv == Init => IInv
<1> SUFFICES ASSUME Init PROVE IInv
  OBVIOUS
<1>1. TypeOK
  BY InitTypeOK
<1>2. LocalsInv
  BY DEF Init, LocalsInv
<1>3. Outstanding = 0
  <2>1. HeldUnits = {}
    BY DEF Init, HeldUnits
  <2> QED BY <2>1, FS_EmptySet DEF Init, Outstanding
<1>4. ReservedMatchesHolds
  BY <1>3 DEF Init, ReservedMatchesHolds
<1>5. CapInv
  <2>1. spend + Outstanding <= highCap + exposure + excess
    BY <1>1, <1>3 DEF Init, TypeOK, OtherTypeOK
  <2> QED BY <2>1 DEF Init, CapInv, CommittedUnderCap, NothingSeen
<1>6. PeriodInv
  BY DEF Init, PeriodInv, ResetOncePerPeriod, NothingSeen
<1> QED BY <1>1, <1>2, <1>4, <1>5, <1>6 DEF IInv

\* What the gate makes of the handle and of the hold behind it.
LEMMA GateMoves ==
  ASSUME TypeOK, LocalsInv, NEW r \in Requests, Gate(r)
  PROVE  /\ \A q \in Requests : q # r => est'[q] = est[q] /\ taken'[q] = taken[q]
         /\ taken'[r] <= est'[r]
<1>1. /\ est[r] \in Nat /\ taken[r] \in Nat /\ amount[r] \in Nat /\ taken[r] <= est[r]
      /\ est \in [Requests -> Amounts] /\ taken \in [Requests -> Amounts]
  BY DEF TypeOK, LocalTypeOK, OtherTypeOK, LocalsInv, Amounts
<1>2. CASE UNCHANGED <<est, taken>>
  BY <1>1, <1>2
<1>3. CASE Granted(r) /\ UNCHANGED taken
  <2>1. est'[r] = est[r] + amount[r] /\ \A q \in Requests : q # r => est'[q] = est[q]
    BY <1>1, <1>3 DEF Granted
  <2> QED BY <1>1, <1>3, <2>1
<1>4. CASE Granted(r) /\ taken' = [taken EXCEPT ![r] = taken[r] + amount[r]]
  <2>1. est'[r] = est[r] + amount[r] /\ \A q \in Requests : q # r => est'[q] = est[q]
    BY <1>1, <1>4 DEF Granted
  <2>2. taken'[r] = taken[r] + amount[r] /\ \A q \in Requests : q # r => taken'[q] = taken[q]
    BY <1>1, <1>4
  <2> QED BY <1>1, <2>1, <2>2
<1> QED BY <1>2, <1>3, <1>4 DEF Gate, history

LEMMA LocalsStep ==
  ASSUME TypeOK, LocalsInv, [Next]_vars
  PROVE  LocalsInv'
<1> USE DEF LocalsInv
<1>1. CASE UNCHANGED <<local, taken>>
  BY <1>1 DEF local
<1>2. ASSUME NEW r \in Requests, Gate(r) PROVE LocalsInv'
  <2>1. /\ pc[r] = "gate" /\ pc'[r] # "idle"
        /\ \A q \in Requests : q # r => pc'[q] = pc[q]
    BY <1>2 DEF Gate, Granted, Raises, Rejected, TypeOK, LocalTypeOK
  <2>2. \/ handle' = handle /\ est' = est
        \/ handle' = handle \cup {r}
    BY <1>2 DEF Gate, Granted
  <2>3. /\ \A q \in Requests : q # r => est'[q] = est[q] /\ taken'[q] = taken[q]
        /\ taken'[r] <= est'[r]
    BY <1>2, GateMoves
  <2>4. \A q \in Requests : taken'[q] <= est'[q]
    BY <2>3
  <2> QED BY <2>1, <2>2, <2>3, <2>4
<1>3. ASSUME NEW r \in Requests,
             \/ StartReserve(r) \/ StartTopUp(r) \/ ReadBudget(r) \/ ReserveFails(r) \/ CasReset(r)
             \/ Reconcile(r) \/ Refund(r) \/ SettlementLost(r) \/ BillSideCall(r)
      PROVE  LocalsInv'
  <2>1. UNCHANGED <<est, handle>>
    BY <1>3 DEF StartReserve, StartTopUp, ReadUser, ReadBudget, ReserveFails, CasReset, Reconcile,
                Refund, SettlementLost, BillSideCall
  <2>2. \A q \in Requests : pc'[q] = "idle" => pc[q] = "idle"
    BY <1>3 DEF StartReserve, StartTopUp, ReadUser, ReadBudget, ReserveFails, CasReset, Reconcile,
                Refund, SettlementLost, BillSideCall, Settled, Raises, Rejected, TypeOK, LocalTypeOK
  <2>3. taken' = taken \/ taken' = [taken EXCEPT ![r] = 0]
    BY <1>3 DEF StartReserve, StartTopUp, ReadUser, ReadBudget, ReserveFails, CasReset, Reconcile,
                Refund, SettlementLost, BillSideCall, GiveBack, history
  <2>4. est \in [Requests -> Nat] /\ taken \in [Requests -> Nat]
    BY DEF TypeOK, LocalTypeOK, OtherTypeOK, Amounts
  <2>5. \A q \in Requests : taken'[q] <= est[q]
    BY <2>3, <2>4
  <2> QED BY <2>1, <2>2, <2>5
<1>4. CASE AdminStep \/ Tick
  BY <1>1, <1>4 DEF AdminStep, ReviveUser, UpdateUser, DeleteUser, UpdateBudget,
                    DeleteBudget, Tick, history
<1>5. CASE UNCHANGED vars
  BY <1>1, <1>5 DEF vars, history
<1> QED BY <1>2, <1>3, <1>4, <1>5 DEF Next, RequestStep

\* A settlement takes from the units outstanding what the row had of its hold;
\* the rest of its estimate is in excess.
LEMMA SettledUnits ==
  ASSUME TypeOK, LocalsInv, NEW r \in Requests, GiveBack(r), orphaned' = orphaned
  PROVE  IF r \in handle /\ alive
         THEN /\ reserved' = Larger(reserved - est[r], 0)
              /\ Outstanding' = Outstanding - taken[r]
              /\ excess' = excess + (est[r] - taken[r])
         ELSE UNCHANGED <<reserved, Outstanding, excess>>
<1>1. Cardinality(HeldUnits) \in Nat /\ orphaned \in Nat /\ taken[r] \in Nat
  BY HeldUnitsFinite, FS_CardinalityType DEF TypeOK, OtherTypeOK, Amounts
<1>2. CASE r \in handle /\ alive
  <2>1. /\ reserved' = Larger(reserved - est[r], 0)
        /\ taken' = [taken EXCEPT ![r] = 0]
        /\ excess' = excess + (est[r] - taken[r])
    BY <1>2 DEF GiveBack, Released
  <2>2. Cardinality(HeldUnits') = Cardinality(HeldUnits) - taken[r]
    BY <2>1, UnitsRemoved
  <2>3. Outstanding' = Outstanding - taken[r]
    BY <1>1, <2>2 DEF Outstanding
  <2> QED BY <1>2, <2>1, <2>3
<1>3. CASE ~(r \in handle /\ alive)
  BY <1>3 DEF GiveBack, Outstanding, HeldUnits
<1> QED BY <1>2, <1>3

\* Numbers: what a settlement leaves of the account.
LEMMA ReleaseKeeps ==
  \A reservedBy, out, more, part, whole \in Nat :
    /\ reservedBy <= out /\ out <= reservedBy + more /\ part <= whole /\ part <= out
    => /\ Larger(reservedBy - whole, 0) <= out - part
       /\ out - part <= Larger(reservedBy - whole, 0) + (more + (whole - part))
  BY DEF Larger

\* What the gate adds to the row it adds to the units outstanding, whether or
\* not its caller learns of it.
LEMMA GateUnits ==
  ASSUME TypeOK, LocalsInv, NEW r \in Requests, Gate(r)
  PROVE  /\ UNCHANGED <<excess, spend, highCap>>
         /\ \/ UNCHANGED <<reserved, Outstanding, exposure>>
            \/ Pledge(r) /\ Outstanding' = Outstanding + amount[r]
<1>1. Cardinality(HeldUnits) \in Nat /\ orphaned \in Nat /\ amount[r] \in Nat
  BY HeldUnitsFinite, FS_CardinalityType DEF TypeOK, OtherTypeOK, LocalTypeOK, Amounts
<1>2. CASE UNCHANGED <<reserved, history>>
  BY <1>2 DEF Gate, history, Outstanding, HeldUnits
<1>3. CASE /\ Pledge(r) /\ UNCHANGED orphaned
           /\ taken' = [taken EXCEPT ![r] = taken[r] + amount[r]]
  <2>1. Cardinality(HeldUnits') = Cardinality(HeldUnits) + amount[r]
    BY <1>3, UnitsAdded
  <2>2. Outstanding' = Outstanding + amount[r]
    BY <1>1, <1>3, <2>1 DEF Outstanding
  <2> QED BY <1>3, <2>2 DEF Gate, Pledge
<1>4. CASE Pledge(r) /\ orphaned' = orphaned + amount[r] /\ UNCHANGED taken
  <2>1. Outstanding' = Outstanding + amount[r]
    BY <1>1, <1>4 DEF Outstanding, HeldUnits
  <2> QED BY <1>4, <2>1 DEF Gate, Pledge
<1> QED BY <1>2, <1>3, <1>4 DEF Gate

\* Every other step leaves the account alone.
LEMMA AccountUntouched ==
  ASSUME [Next]_vars
  PROVE  \/ \E r \in Requests : Gate(r) \/ Reconcile(r) \/ Refund(r)
         \/ UNCHANGED <<reserved, taken, orphaned, excess, Outstanding>>
<1>1. ASSUME UNCHANGED <<reserved, taken, orphaned, excess>>
      PROVE  UNCHANGED <<reserved, taken, orphaned, excess, Outstanding>>
  BY <1>1 DEF Outstanding, HeldUnits
<1>2. ASSUME NEW r \in Requests,
             \/ StartReserve(r) \/ StartTopUp(r) \/ ReadBudget(r) \/ ReserveFails(r) \/ CasReset(r)
             \/ SettlementLost(r) \/ BillSideCall(r)
      PROVE  UNCHANGED <<reserved, taken, orphaned, excess>>
  BY <1>2 DEF StartReserve, StartTopUp, ReadUser, ReadBudget, ReserveFails, CasReset,
              SettlementLost, BillSideCall, row, history
<1>3. ASSUME AdminStep \/ Tick \/ UNCHANGED vars
      PROVE  UNCHANGED <<reserved, taken, orphaned, excess>>
  BY <1>3 DEF AdminStep, ReviveUser, UpdateUser, DeleteUser, UpdateBudget, DeleteBudget,
              Tick, vars, row, history
<1> QED BY <1>1, <1>2, <1>3 DEF Next, RequestStep

LEMMA HoldStep ==
  ASSUME TypeOK, LocalsInv, ReservedMatchesHolds, [Next]_vars
  PROVE  ReservedMatchesHolds'
<1>1. /\ reserved \in Nat /\ Outstanding \in Nat /\ excess \in Nat
      /\ reserved <= Outstanding /\ Outstanding <= reserved + excess
  BY OutstandingType DEF ReservedMatchesHolds, TypeOK, RowTypeOK, OtherTypeOK
<1>2. ASSUME NEW r \in Requests, Gate(r) PROVE ReservedMatchesHolds'
  <2>1. amount[r] \in Nat
    BY DEF TypeOK, LocalTypeOK, Amounts
  <2>2. CASE UNCHANGED <<reserved, Outstanding>>
    BY <1>1, <1>2, <2>2, GateUnits DEF ReservedMatchesHolds
  <2>3. CASE reserved' = reserved + amount[r] /\ Outstanding' = Outstanding + amount[r]
    BY <1>1, <1>2, <2>1, <2>3, GateUnits DEF ReservedMatchesHolds
  <2> QED BY <1>2, <2>2, <2>3, GateUnits DEF Pledge
<1>3. ASSUME NEW r \in Requests, Reconcile(r) \/ Refund(r) PROVE ReservedMatchesHolds'
  <2>1. GiveBack(r) /\ orphaned' = orphaned
    BY <1>3 DEF Reconcile, Refund
  <2>2. CASE r \in handle /\ alive
    <3>1. /\ reserved' = Larger(reserved - est[r], 0)
          /\ Outstanding' = Outstanding - taken[r]
          /\ excess' = excess + (est[r] - taken[r])
      BY <2>1, <2>2, SettledUnits
    <3>2. est[r] \in Nat /\ taken[r] \in Nat /\ taken[r] <= est[r]
      BY DEF TypeOK, LocalTypeOK, OtherTypeOK, LocalsInv, Amounts
    <3>3. taken[r] <= Outstanding
      BY UnitsWithin
    <3>4. /\ Larger(reserved - est[r], 0) <= Outstanding - taken[r]
          /\ Outstanding - taken[r] <= Larger(reserved - est[r], 0) + (excess + (est[r] - taken[r]))
      BY <1>1, <3>2, <3>3, ReleaseKeeps
    <3> QED BY <3>1, <3>4 DEF ReservedMatchesHolds
  <2>3. CASE ~(r \in handle /\ alive)
    BY <1>1, <2>1, <2>3, SettledUnits DEF ReservedMatchesHolds
  <2> QED BY <2>2, <2>3
<1>4. CASE UNCHANGED <<reserved, taken, orphaned, excess, Outstanding>>
  BY <1>1, <1>4 DEF ReservedMatchesHolds
<1> QED BY <1>2, <1>3, <1>4, AccountUntouched

\* Numbers: a cost is covered by the units its settlement takes, or it is
\* exposure, or its handle had given them back before.
LEMMA CostCovered ==
  \A paid, out, high, open, more, cost, part, whole, over \in Nat :
    /\ paid + out <= high + open + more /\ part <= whole /\ part <= out /\ over >= cost - whole
    => (paid + cost) + (out - part) <= high + (open + over) + (more + (whole - part))
  OBVIOUS

LEMMA CapReconcile ==
  ASSUME TypeOK, LocalsInv, CommittedUnderCap, NEW r \in Requests, Reconcile(r)
  PROVE  CommittedUnderCap'
<1>1. /\ spend \in Nat /\ exposure \in Nat /\ highCap \in Nat /\ excess \in Nat
      /\ est[r] \in Nat /\ taken[r] \in Nat /\ taken[r] <= est[r]
      /\ Outstanding \in Nat
  BY OutstandingType DEF TypeOK, RowTypeOK, OtherTypeOK, LocalTypeOK, LocalsInv, Amounts
<1>2. PICK c \in Costs : /\ spend' = IF alive THEN spend + c ELSE spend
                         /\ exposure' = exposure + Overrun(r, c)
  BY DEF Reconcile
<1>3. c \in Nat
  BY ConstantsAssumption DEF Costs
<1>4. GiveBack(r) /\ orphaned' = orphaned /\ highCap' = highCap
  BY DEF Reconcile
<1>5. Overrun(r, c) \in Nat /\ Overrun(r, c) >= IF r \in handle THEN c - est[r] ELSE c
  BY <1>1, <1>3 DEF Overrun, Larger
<1>6. spend + Outstanding <= highCap + exposure + excess
  BY DEF CommittedUnderCap
<1>7. CASE r \in handle /\ alive
  <2>1. Outstanding' = Outstanding - taken[r] /\ excess' = excess + (est[r] - taken[r])
    BY <1>4, <1>7, SettledUnits
  <2>2. spend' = spend + c /\ exposure' = exposure + Overrun(r, c)
    BY <1>2, <1>7
  <2>3. taken[r] <= Outstanding
    BY UnitsWithin
  <2>4. Overrun(r, c) >= c - est[r]
    BY <1>5, <1>7
  <2>5. (spend + c) + (Outstanding - taken[r])
          <= highCap + (exposure + Overrun(r, c)) + (excess + (est[r] - taken[r]))
    BY <1>1, <1>3, <1>5, <1>6, <2>3, <2>4, CostCovered
  <2> QED BY <1>4, <2>1, <2>2, <2>5 DEF CommittedUnderCap
<1>8. CASE ~(r \in handle /\ alive)
  <2>1. Outstanding' = Outstanding /\ excess' = excess
    BY <1>4, <1>8, SettledUnits
  <2>2. CASE alive
    <3>1. spend' = spend + c /\ exposure' = exposure + Overrun(r, c) /\ Overrun(r, c) >= c
      BY <1>2, <1>5, <1>8, <2>2
    <3> QED BY <1>1, <1>3, <1>4, <1>5, <1>6, <2>1, <3>1 DEF CommittedUnderCap
  <2>3. CASE ~alive
    <3>1. spend' = spend /\ exposure' = exposure + Overrun(r, c)
      BY <1>2, <2>3
    <3> QED BY <1>1, <1>4, <1>5, <1>6, <2>1, <3>1 DEF CommittedUnderCap
  <2> QED BY <2>2, <2>3
<1> QED BY <1>7, <1>8

\* No cap grows past highCap, and no remembered cap is past it.
LEMMA CapsStep ==
  ASSUME IInv, [Next]_vars
  PROVE  /\ highCap' >= highCap
         /\ (\A b \in Budgets : cap[b] # Uncapped => cap[b] <= highCap)'
         /\ (\A r \in Requests : seen[r].cap # Uncapped => seen[r].cap <= highCap)'
<1> USE ConstantsAssumption DEF IInv, CapInv, TypeOK, OtherTypeOK, TablesTypeOK, LocalTypeOK, Reads
<1>1. highCap \in Nat /\ \A r \in Requests : seen[r].cap \in Nat \cup {Uncapped}
  OBVIOUS
<1>2. CASE UpdateBudget
  <2> PICK b \in budgets : \E m \in (Caps \ {Uncapped}) \cup {cap[b]} :
               /\ cap' = [cap EXCEPT ![b] = m]
               /\ highCap' = IF m = Uncapped THEN highCap ELSE Larger(highCap, m)
    BY <1>2 DEF UpdateBudget
  <2>1. PICK m \in (Caps \ {Uncapped}) \cup {cap[b]} :
               /\ cap' = [cap EXCEPT ![b] = m]
               /\ highCap' = IF m = Uncapped THEN highCap ELSE Larger(highCap, m)
    OBVIOUS
  <2>2. m \in Nat \cup {Uncapped} /\ b \in Budgets
    BY <2>1
  <2>3. highCap' \in Nat /\ highCap' >= highCap /\ (m # Uncapped => m <= highCap')
    BY <1>1, <2>1, <2>2 DEF Larger
  <2>4. \A d \in Budgets : cap'[d] # Uncapped => cap'[d] <= highCap'
    BY <1>1, <2>1, <2>2, <2>3
  <2>5. UNCHANGED seen
    BY <1>2 DEF UpdateBudget, local
  <2> QED BY <1>1, <2>3, <2>4, <2>5
<1>3. ASSUME NEW r \in Requests, ReadBudget(r)
      PROVE  (\A q \in Requests : seen[q].cap # Uncapped => seen[q].cap <= highCap)'
  <2>1. seen'[r].cap # Uncapped => seen'[r].cap <= highCap
    <3>1. CASE seen[r].budget \in budgets
      BY <1>3, <3>1 DEF ReadBudget
    <3>2. CASE seen[r].budget \notin budgets
      BY <1>3, <3>2 DEF ReadBudget, Return, NothingSeen
    <3> QED BY <3>1, <3>2
  <2>2. \A q \in Requests : q # r => seen'[q] = seen[q]
    BY <1>3 DEF ReadBudget, Return
  <2> QED BY <1>3, <2>1, <2>2 DEF ReadBudget, history
<1>4. ASSUME NEW r \in Requests, StartReserve(r) \/ StartTopUp(r) \/ ReserveFails(r) \/ CasReset(r) \/ Gate(r)
      PROVE  (\A q \in Requests : seen[q].cap # Uncapped => seen[q].cap <= highCap)'
  <2>1. seen'[r].cap = Uncapped \/ seen' = seen
    BY <1>4 DEF StartReserve, StartTopUp, ReadUser, ReserveFails, CasReset, Gate, Granted, Raises,
                Return, NothingSeen
  <2>2. \A q \in Requests : q # r => seen'[q] = seen[q]
    BY <1>4 DEF StartReserve, StartTopUp, ReadUser, ReserveFails, CasReset, Gate, Granted, Raises,
                Return
  <2>3. highCap' = highCap
    BY <1>4 DEF StartReserve, StartTopUp, ReadUser, ReserveFails, CasReset, Gate, Pledge, history
  <2> QED BY <2>1, <2>2, <2>3
<1>5. CASE UNCHANGED <<cap, highCap>>
  <2>1. CASE UNCHANGED seen
    BY <1>1, <1>5, <2>1
  <2>2. CASE \E r \in Requests : \/ StartReserve(r) \/ StartTopUp(r) \/ ReadBudget(r)
                                 \/ ReserveFails(r) \/ CasReset(r) \/ Gate(r)
    BY <1>1, <1>3, <1>4, <1>5, <2>2
  <2>3. \/ UNCHANGED seen
        \/ \E r \in Requests : \/ StartReserve(r) \/ StartTopUp(r) \/ ReadBudget(r)
                               \/ ReserveFails(r) \/ CasReset(r) \/ Gate(r)
    BY <1>5, <1>2 DEF Next, RequestStep, AdminStep, Reconcile, Refund, SettlementLost,
           BillSideCall, ReviveUser, UpdateUser, DeleteUser, UpdateBudget, DeleteBudget, Tick, local, vars
  <2> QED BY <2>1, <2>2, <2>3
<1>6. UNCHANGED <<cap, highCap>> \/ UpdateBudget
  BY DEF Next, RequestStep, AdminStep, StartReserve, StartTopUp, ReadUser, ReadBudget, ReserveFails,
         CasReset, Gate, Pledge, Reconcile, Refund, SettlementLost, BillSideCall, ReviveUser, UpdateUser, DeleteUser,
         DeleteBudget, Tick, vars, tables, history
<1> QED BY <1>2, <1>5, <1>6

\* Numbers: less spent under a cap that did not fall.
LEMMA SpentLess ==
  \A paid, before, out, high, higher, open, more \in Nat :
    paid <= before /\ before + out <= high + open + more /\ high <= higher
    => paid + out <= higher + open + more
  OBVIOUS

LEMMA CapStep ==
  ASSUME IInv, [Next]_vars
  PROVE  CapInv'
<1>1. TypeOK /\ LocalsInv /\ CommittedUnderCap
  BY DEF IInv, CapInv
<1>2. /\ spend \in Nat /\ exposure \in Nat /\ excess \in Nat /\ highCap \in Nat
      /\ Outstanding \in Nat /\ reserved \in Nat
  BY <1>1, OutstandingType DEF TypeOK, RowTypeOK, OtherTypeOK
<1>3. highCap' \in Nat /\ highCap' >= highCap
  <2>1. highCap' \in Nat
    BY <1>1, OtherType DEF OtherTypeOK
  <2> QED BY <2>1, CapsStep
<1>4. spend + Outstanding <= highCap + exposure + excess
  BY <1>1 DEF CommittedUnderCap
<1>5. ASSUME spend' = spend \/ spend' = 0, UNCHANGED <<Outstanding, exposure, excess>>
      PROVE  CommittedUnderCap'
  <2>1. spend' \in Nat /\ spend' <= spend
    BY <1>2, <1>5
  <2>2. highCap <= highCap'
    BY <1>2, <1>3
  <2>3. spend' + Outstanding <= highCap' + exposure + excess
    BY <1>2, <1>3, <1>4, <2>1, <2>2, SpentLess
  <2> QED BY <1>5, <2>3 DEF CommittedUnderCap
<1>6. ASSUME NEW r \in Requests, Gate(r) PROVE CommittedUnderCap'
  <2>1. amount[r] \in Nat /\ UNCHANGED <<excess, spend, highCap>>
    BY <1>1, <1>6, GateUnits DEF TypeOK, LocalTypeOK, Amounts
  <2>2. CASE UNCHANGED <<Outstanding, exposure>>
    BY <1>5, <2>1, <2>2
  <2>3. CASE Pledge(r) /\ Outstanding' = Outstanding + amount[r]
    <3>1. CASE seen[r].cap = Uncapped
      BY <1>2, <1>4, <2>1, <2>3, <3>1 DEF Pledge, CommittedUnderCap
    <3>2. CASE seen[r].cap # Uncapped
      <4>1. spend + reserved + amount[r] <= seen[r].cap /\ seen[r].cap <= highCap
        BY <2>3, <3>2 DEF Pledge, Matches, FitsUnderCap, IInv, CapInv
      <4>2. seen[r].cap \in Nat
        BY <1>1, <3>2 DEF TypeOK, LocalTypeOK, Reads
      <4>3. Outstanding <= reserved + excess
        BY DEF IInv, ReservedMatchesHolds
      <4>4. spend + (Outstanding + amount[r]) <= highCap + exposure + excess
        BY <1>2, <2>1, <4>1, <4>2, <4>3
      <4>5. exposure' = exposure
        BY <2>3, <3>2 DEF Pledge
      <4> QED BY <2>1, <2>3, <4>4, <4>5 DEF CommittedUnderCap
    <3> QED BY <3>1, <3>2
  <2> QED BY <1>1, <1>6, <2>2, <2>3, GateUnits
<1>7. ASSUME NEW r \in Requests, Refund(r) PROVE CommittedUnderCap'
  <2>1. GiveBack(r) /\ UNCHANGED <<orphaned, spend, exposure, highCap>>
    BY <1>7 DEF Refund
  <2>2. CASE r \in handle /\ alive
    <3>1. Outstanding' = Outstanding - taken[r] /\ excess' = excess + (est[r] - taken[r])
      BY <1>1, <2>1, <2>2, SettledUnits
    <3>2. est[r] \in Nat /\ taken[r] \in Nat /\ taken[r] <= est[r]
      BY <1>1 DEF TypeOK, LocalTypeOK, OtherTypeOK, LocalsInv, Amounts
    <3>3. spend + (Outstanding - taken[r]) <= highCap + exposure + (excess + (est[r] - taken[r]))
      BY <1>2, <1>4, <3>2
    <3> QED BY <2>1, <3>1, <3>3 DEF CommittedUnderCap
  <2>3. CASE ~(r \in handle /\ alive)
    BY <1>1, <1>5, <2>1, <2>3, SettledUnits
  <2> QED BY <2>2, <2>3
<1>8. ASSUME NEW r \in Requests, BillSideCall(r) PROVE CommittedUnderCap'
  <2>1. PICK c \in Costs : /\ spend' = IF alive THEN spend + c ELSE spend
                           /\ exposure' = exposure + c
    BY <1>8 DEF BillSideCall
  <2>2. c \in Nat
    BY ConstantsAssumption DEF Costs
  <2>3. UNCHANGED <<excess, highCap, Outstanding>>
    BY <1>8 DEF BillSideCall, Outstanding, HeldUnits
  <2> QED BY <1>2, <1>4, <2>1, <2>2, <2>3 DEF CommittedUnderCap
<1>9. ASSUME NEW r \in Requests,
             \/ StartReserve(r) \/ StartTopUp(r) \/ ReadBudget(r) \/ ReserveFails(r) \/ CasReset(r)
             \/ SettlementLost(r)
      PROVE  CommittedUnderCap'
  <2>1. spend' = spend \/ spend' = 0
    BY <1>9 DEF StartReserve, StartTopUp, ReadUser, ReadBudget, ReserveFails, CasReset,
                SettlementLost, row
  <2>2. UNCHANGED <<taken, orphaned, exposure, excess>>
    BY <1>9 DEF StartReserve, StartTopUp, ReadUser, ReadBudget, ReserveFails, CasReset,
                SettlementLost, history
  <2>3. UNCHANGED Outstanding
    BY <2>2 DEF Outstanding, HeldUnits
  <2> QED BY <1>5, <2>1, <2>2, <2>3
<1>10. ASSUME AdminStep \/ Tick \/ UNCHANGED vars PROVE CommittedUnderCap'
  <2>1. spend' = spend \/ spend' = 0
    BY <1>10 DEF AdminStep, ReviveUser, UpdateUser, DeleteUser, UpdateBudget, DeleteBudget, Tick,
                 vars, row
  <2>2. UNCHANGED <<taken, orphaned, exposure, excess>>
    BY <1>10 DEF AdminStep, ReviveUser, UpdateUser, DeleteUser, UpdateBudget, DeleteBudget, Tick,
                 vars, history
  <2>3. UNCHANGED Outstanding
    BY <2>2 DEF Outstanding, HeldUnits
  <2> QED BY <1>5, <2>1, <2>2, <2>3
<1>11. ASSUME NEW r \in Requests, Reconcile(r) PROVE CommittedUnderCap'
  BY <1>1, <1>11, CapReconcile
<1>12. CommittedUnderCap'
  BY <1>6, <1>7, <1>8, <1>9, <1>10, <1>11 DEF Next, RequestStep
<1> QED BY <1>12, CapsStep DEF CapInv

\* Times in order.
LEMMA Later  == \A a, n, t \in Nat : a <= n /\ n < t => a < t
  OBVIOUS
LEMMA Before == \A a, n, t \in Nat : a < n /\ n <= t => a <= t
  OBVIOUS

\* A log with one more entry.
LEMMA LogGrows ==
  ASSUME NEW E, NEW log \in Seq(E), NEW x, NEW longer, longer = Append(log, x)
  PROVE  /\ DOMAIN log = 1..Len(log) /\ Len(log) \in Nat
         /\ DOMAIN longer = 1..(Len(log) + 1)
         /\ \A i \in DOMAIN log : longer[i] = log[i]
         /\ longer[Len(log) + 1] = x
  OBVIOUS

\* A reset happens at an instant the handler read earlier, on a deadline that is
\* still there; every other write of the deadline moves it past the clock.
LEMMA PeriodStep ==
  ASSUME TypeOK, PeriodInv, [Next]_vars
  PROVE  PeriodInv'
<1>1. /\ now \in Nat /\ resetAt \in Nat
      /\ resetLog \in Seq([due: Nat, at: Nat, previous: Nat, erased: Nat, budget: Budgets])
      /\ seen \in [Requests -> Reads] /\ dur \in [Budgets -> Nat]
  BY ConstantsAssumption DEF TypeOK, RowTypeOK, TablesTypeOK, LocalTypeOK, OtherTypeOK
<1>2. \A r \in Requests : seen[r].at \in Nat /\ seen[r].dur \in Nat
  BY <1>1 DEF Reads
<1>3. \A i \in DOMAIN resetLog : resetLog[i].at \in Nat /\ resetLog[i].due \in Nat
  <2> TAKE i \in DOMAIN resetLog
  <2> DEFINE Entry == [due: Nat, at: Nat, previous: Nat, erased: Nat, budget: Budgets]
  <2>1. resetLog[i] \in Entry
    <3> HIDE DEF Entry
    <3>1. resetLog \in Seq(Entry)
      BY <1>1 DEF Entry
    <3> QED BY <3>1
  <2> QED BY <2>1
<1>4. ASSUME resetLog' = resetLog, now' \in Nat, now' >= now,
             resetAt' = resetAt \/ resetAt' = Never \/ resetAt' > now
      PROVE  ResetOncePerPeriod' /\ \A i \in DOMAIN resetLog' : resetLog'[i].at <= now'
  <2>1. \A i \in DOMAIN resetLog : resetLog[i].at <= now'
    <3> TAKE i \in DOMAIN resetLog
    <3>1. resetLog[i].at \in Nat /\ resetLog[i].at <= now
      BY <1>3 DEF PeriodInv
    <3>2. now' \in Nat /\ now' >= now
      BY <1>4
    <3>3. now \in Nat
      BY <1>1
    <3> QED BY <3>1, <3>2, <3>3
  <2>2. \A i \in DOMAIN resetLog : resetAt' = Never \/ resetLog[i].at < resetAt'
    <3> TAKE i \in DOMAIN resetLog
    <3>1. /\ resetLog[i].at \in Nat /\ resetLog[i].at <= now
          /\ (resetAt = Never \/ resetLog[i].at < resetAt)
      BY <1>3 DEF PeriodInv, ResetOncePerPeriod
    <3>2. CASE resetAt' = resetAt
      BY <3>1, <3>2
    <3>3. CASE resetAt' = Never
      BY <3>3
    <3>4. CASE resetAt' > now
      <4>1. resetLog[i].at \in Nat /\ resetLog[i].at <= now /\ now \in Nat
        BY <1>1, <3>1
      <4>2. resetAt' \in Nat /\ now < resetAt'
        BY <1>1, <3>4, RowType DEF RowTypeOK
      <4> QED BY <4>1, <4>2, Later
    <3> QED BY <1>4, <3>2, <3>3, <3>4
  <2> QED BY <1>4, <2>1, <2>2 DEF PeriodInv, ResetOncePerPeriod
<1>5. ASSUME NEW r \in Requests, CasReset(r) PROVE PeriodInv'
  <2> DEFINE new == [due |-> resetAt, at |-> seen[r].at, previous |-> seen[r].spend,
                     erased |-> spend, budget |-> seen[r].budget]
  <2>1. now' = now /\ seen[r].at <= now
    BY <1>5 DEF CasReset, clock, PeriodInv
  <2>4. \A q \in Requests : seen'[q].at <= now
    <3>1. \A q \in Requests : seen'[q] = seen[q] \/ seen'[q].at = 0
      BY <1>1, <1>5 DEF CasReset, Raises, Return, NothingSeen
    <3> QED BY <1>1, <3>1 DEF PeriodInv
  <2>2. CASE ResetStillDue(r)
    <3>1. /\ resetLog' = Append(resetLog, new)
          /\ resetAt' = NextReset(seen[r].at, seen[r].dur)
      BY <1>5, <2>2 DEF CasReset
    <3>2. resetAt # Never /\ resetAt <= seen[r].at
      BY <2>2 DEF ResetStillDue
    <3>3. new.due = resetAt /\ new.at = seen[r].at
      OBVIOUS
    <3> HIDE DEF new
    <3>4. /\ DOMAIN resetLog = 1..Len(resetLog) /\ Len(resetLog) \in Nat
          /\ DOMAIN resetLog' = 1..(Len(resetLog) + 1)
          /\ \A i \in DOMAIN resetLog : resetLog'[i] = resetLog[i]
          /\ resetLog'[Len(resetLog) + 1] = new
      <4> DEFINE Entry == [due: Nat, at: Nat, previous: Nat, erased: Nat, budget: Budgets]
      <4>1. resetLog \in Seq(Entry)
        BY <1>1
      <4> HIDE DEF Entry
      <4> QED BY <3>1, <4>1, LogGrows
    <3>5. \A i \in DOMAIN resetLog : resetLog[i].at < resetAt
      BY <3>2 DEF PeriodInv, ResetOncePerPeriod
    <3>6. \A i \in DOMAIN resetLog : resetLog[i].at <= seen[r].at /\ resetLog[i].at < new.due
      <4> TAKE i \in DOMAIN resetLog
      <4>1. resetLog[i].at \in Nat /\ resetLog[i].at < resetAt
        BY <1>3, <3>5
      <4>2. resetAt \in Nat /\ resetAt <= seen[r].at /\ seen[r].at \in Nat
        BY <1>1, <1>2, <3>2
      <4>3. resetLog[i].at <= seen[r].at
        BY <4>1, <4>2, Before
      <4> QED BY <3>3, <4>1, <4>3
    <3>7. resetAt' = Never \/ seen[r].at < resetAt'
      BY <1>2, <3>1 DEF NextReset, Never
    <3>8. \A i \in DOMAIN resetLog' : i \in DOMAIN resetLog \/ i = Len(resetLog) + 1
      BY <3>4
    <3>9. \A i \in DOMAIN resetLog' : resetLog'[i].due <= resetLog'[i].at
      BY <3>2, <3>3, <3>4, <3>8 DEF PeriodInv, ResetOncePerPeriod
    <3>10. \A i, j \in DOMAIN resetLog' : i < j => resetLog'[i].at < resetLog'[j].due
      <4> SUFFICES ASSUME NEW i \in DOMAIN resetLog', NEW j \in DOMAIN resetLog', i < j
                   PROVE  resetLog'[i].at < resetLog'[j].due
        OBVIOUS
      <4>1. i \in DOMAIN resetLog
        BY <3>4
      <4>2. CASE j \in DOMAIN resetLog
        BY <4>1, <4>2, <3>4 DEF PeriodInv, ResetOncePerPeriod
      <4>3. CASE j = Len(resetLog) + 1
        BY <4>1, <4>3, <3>4, <3>6
      <4> QED BY <4>2, <4>3, <3>8
    <3>11. \A i \in DOMAIN resetLog' : resetLog'[i].at <= seen[r].at
      BY <1>2, <3>3, <3>4, <3>6, <3>8
    <3>12. \A i \in DOMAIN resetLog' : resetLog'[i].at \in Nat
      BY <1>2, <1>3, <3>3, <3>4, <3>8
    <3>13. \A i \in DOMAIN resetLog' : resetAt' = Never \/ resetLog'[i].at < resetAt'
      <4>1. resetAt' \in Nat
        BY RowType DEF RowTypeOK
      <4> QED BY <1>2, <3>7, <3>11, <3>12, <4>1
    <3>14. \A i \in DOMAIN resetLog' : resetLog'[i].at <= now
      BY <1>1, <1>2, <2>1, <3>11, <3>12
    <3>15. (\A q \in Requests : seen[q].at <= now)'
      BY <2>1, <2>4
    <3> QED BY <2>1, <3>9, <3>10, <3>13, <3>14, <3>15 DEF PeriodInv, ResetOncePerPeriod
  <2>3. CASE ~ResetStillDue(r)
    <3>1. UNCHANGED <<resetLog, resetAt>>
      BY <1>5, <2>3 DEF CasReset
    <3> QED BY <2>1, <2>4, <3>1 DEF PeriodInv, ResetOncePerPeriod
  <2> QED BY <2>2, <2>3
<1>6. ASSUME NEW r \in Requests,
             StartReserve(r) \/ StartTopUp(r) \/ ReadBudget(r) \/ ReserveFails(r) \/ Gate(r)
      PROVE  PeriodInv'
  <2>1. UNCHANGED <<resetLog, resetAt, now>>
    BY <1>6 DEF StartReserve, StartTopUp, ReadUser, ReadBudget, ReserveFails, Gate, row, clock
  <2>2. \A q \in Requests : q # r => seen'[q] = seen[q]
    <3>1. CASE StartReserve(r) \/ StartTopUp(r)
      BY <1>1, <3>1 DEF StartReserve, StartTopUp, ReadUser
    <3>2. CASE ReadBudget(r)
      BY <1>1, <3>2 DEF ReadBudget, Return
    <3>3. CASE ReserveFails(r) \/ Gate(r)
      BY <1>1, <3>3 DEF ReserveFails, Gate, Granted, Raises, Return
    <3> QED BY <1>6, <3>1, <3>2, <3>3
  <2>3. seen'[r] = seen[r] \/ seen'[r].at = 0 \/ seen'[r].at = now
    <3>1. CASE StartReserve(r) \/ StartTopUp(r)
      BY <1>1, <3>1 DEF StartReserve, StartTopUp, ReadUser
    <3>2. CASE ReadBudget(r)
      BY <1>1, <3>2 DEF ReadBudget, Return, NothingSeen
    <3>3. CASE ReserveFails(r) \/ Gate(r)
      BY <1>1, <3>3 DEF ReserveFails, Gate, Granted, Raises, Return, NothingSeen
    <3> QED BY <1>6, <3>1, <3>2, <3>3
  <2>4. \A q \in Requests : seen'[q].at <= now
    <3> TAKE q \in Requests
    <3>1. seen[q].at <= now
      BY DEF PeriodInv
    <3>2. CASE q # r
      BY <2>2, <3>1, <3>2
    <3>3. CASE q = r
      BY <1>1, <2>3, <3>1, <3>3
    <3> QED BY <3>2, <3>3
  <2> QED BY <2>1, <2>4 DEF PeriodInv, ResetOncePerPeriod
<1>7. CASE UNCHANGED <<resetLog, resetAt, now, seen>>
  BY <1>7 DEF PeriodInv, ResetOncePerPeriod
<1>8. ASSUME NEW r \in Requests,
             Reconcile(r) \/ Refund(r) \/ SettlementLost(r) \/ BillSideCall(r)
      PROVE  UNCHANGED <<resetLog, resetAt, now, seen>>
  BY <1>8 DEF Reconcile, Refund, SettlementLost, BillSideCall, row, clock
<1>9. ASSUME DeleteUser \/ UpdateBudget \/ DeleteBudget \/ UNCHANGED vars
      PROVE  UNCHANGED <<resetLog, resetAt, now, seen>>
  BY <1>9 DEF DeleteUser, UpdateBudget, DeleteBudget, vars, row, local, clock
<1>10. ASSUME ReviveUser \/ UpdateUser PROVE PeriodInv'
  <2>1. resetLog' = resetLog /\ now' = now /\ seen' = seen
    BY <1>10 DEF ReviveUser, UpdateUser, local
  <2>2. resetAt' = resetAt \/ resetAt' = Never \/ resetAt' > now
    BY <1>1, <1>10 DEF ReviveUser, UpdateUser, Assign, NextReset, Never, TypeOK, TablesTypeOK
  <2> QED BY <1>1, <1>4, <2>1, <2>2 DEF PeriodInv
<1>11. ASSUME Tick PROVE PeriodInv'
  <2>1. resetLog' = resetLog /\ now' = now + 1 /\ seen' = seen /\ resetAt' = resetAt
    BY <1>11 DEF Tick, local, row
  <2>2. \A q \in Requests : seen'[q].at <= now'
    BY <1>1, <1>2, <2>1 DEF PeriodInv
  <2> QED BY <1>1, <1>4, <2>1, <2>2 DEF PeriodInv
<1> QED
  BY <1>5, <1>6, <1>7, <1>8, <1>9, <1>10, <1>11 DEF Next, RequestStep, AdminStep

-----------------------------------------------------------------------------
(***************************************************************************)
(* The theorems.                                                           *)
(***************************************************************************)

\* The invariant is inductive: reserve, settle, reset and the admin endpoints
\* keep the accounts together in any order.
THEOREM Inductive == Spec => []IInv
<1>1. Init => IInv
  BY InitIInv
<1>2. IInv /\ [Next]_vars => IInv'
  BY RowType, TablesType, LocalType, OtherType, LocalsStep, HoldStep, CapStep, PeriodStep
     DEF IInv, TypeOK
<1> QED BY <1>1, <1>2, PTL DEF Spec

\* Every column, handle and history variable keeps its type: `users.reserved`
\* never goes below zero, whatever is released and however often, because of
\* the clamp, and no handle gives back less than what it put into the row.
THEOREM TypeCorrect == Spec => []TypeOK
<1>1. IInv => TypeOK
  BY DEF IInv
<1> QED BY <1>1, Inductive, PTL

\* The account users.reserved is what was reserved and not given back, up to
\* what was given back twice, for any number of concurrent requests and any
\* statement whose answer is lost.
THEOREM Account == Spec => []ReservedMatchesHolds
<1>1. IInv => ReservedMatchesHolds
  BY DEF IInv
<1> QED BY <1>1, Inductive, PTL

\* The conditional UPDATE of reserve_budget keeps the spend and the units
\* outstanding under the caps in force, up to what was never pre-debited and
\* what was given back twice.
THEOREM Cap == Spec => []CommittedUnderCap
<1>1. IInv => CommittedUnderCap
  BY DEF IInv, CapInv
<1> QED BY <1>1, Inductive, PTL

\* The lazy reset fires at most once per period, however many requests read the
\* old period before it fired.
THEOREM OneResetPerPeriod == Spec => []ResetOncePerPeriod
<1>1. IInv => ResetOncePerPeriod
  BY DEF IInv, PeriodInv
<1> QED BY <1>1, Inductive, PTL

-----------------------------------------------------------------------------
(***************************************************************************)
(* ModelCatalog: what its tables hold.                                     *)
(***************************************************************************)

Row == [form : Forms, at : Times, price : Prices, by : {"former", "api", "config"}]

AdminType ==
    /\ admin = [a \in Admins |-> admin[a]]
    /\ \A a \in Admins : admin[a].kind = "set" =>
         admin[a].form = "colon" /\ admin[a].at \in Times /\ admin[a].price \in Prices

CatalogType ==
    /\ today \in Times
    /\ entry \in {NoEntry} \cup [there : {TRUE}, at : {0, Undated}, price : {1}]
    /\ rows \in SUBSET Row
    /\ AdminType
    /\ lister \in [Listers -> {"idle", "waiting", "fetching"}]
    /\ posted \in [Times -> SUBSET (Prices \cup {Unpriced})]

\* One row for a key and a date; rows of the slash form are a former version's.
OneRowADate == \A r, q \in rows : r.form = q.form /\ r.at = q.at => r = q
SlashIsFormer == \A r \in rows : r.form = "slash" => r.by = "former"

\* Some row holds by t, or the defaults have a price.
Priced(t) == (\E r \in rows : r.at <= t) \/ (defaults /\ dataset)
AdmittedHasPrice == request = "admitted" /\ ~removed => Priced(today)

\* A date whose price was told has a row, of a price that was told or may have
\* been left there, and one of which nothing was told has at most the config's.
PostedAt(t) ==
    /\ Unpriced \notin posted[t] => \E r \in rows : r.form = "colon" /\ r.at = t
    /\ \A r \in rows : r.form = "colon" /\ r.at = t =>
         \/ posted[t] = {Unpriced} /\ r.by = "config"
         \/ posted[t] # {Unpriced} /\ (Unpriced \in posted[t] \/ r.price \in posted[t])
PostedInv == \A t \in Times : PostedAt(t)

\* Who fetches a list holds the lock, and found no valid one.
FetchInv == \A l \in Listers : lister[l] = "fetching" => holder = {l} /\ cache # "valid"

CatalogInv ==
    /\ CatalogType /\ OneRowADate /\ SlashIsFormer /\ AdmittedHasPrice /\ FreeNeedsDeletion
    /\ PostedInv /\ FetchInv

\* A set of rows that is not empty has a latest one, and Latest is one.
LEMMA LatestIs ==
  ASSUME NEW rs \in SUBSET Row, rs # {}
  PROVE  Latest(rs) \in rs /\ \A q \in rs : q.at <= Latest(rs).at
  <1> DEFINE T == {LastTime - r.at : r \in rs}
  <1>1. \A r \in Row : r.at \in 0..LastTime /\ LastTime - r.at \in Nat
    BY TimeAssumption DEF Row, Times
  <1>2. T \in SUBSET Nat /\ T # {}
    BY <1>1
  <1>3. Min(T) \in T /\ \A y \in T : Min(T) <= y
    BY <1>2, Least
  <1>4. PICK r \in rs : Min(T) = LastTime - r.at
    BY <1>3
  <1>5. ASSUME NEW q \in rs PROVE q.at <= r.at
    <2>1. LastTime - r.at <= LastTime - q.at
      BY <1>3, <1>4
    <2>2. q.at \in Nat /\ r.at \in Nat
      BY <1>1
    <2> QED BY <2>1, <2>2, TimeAssumption
  <1>6. \E x \in rs : \A q \in rs : q.at <= x.at
    BY <1>5
  <1> QED BY <1>6 DEF Latest

\* The price in force under a key is that of one of its rows, and there is one
\* exactly if a row holds by then.
LEMMA FindIs ==
  ASSUME rows \in SUBSET Row, NEW form, NEW t
  PROVE  /\ Effective(form, t) = {} => FindByModelKey(form, t) = Unpriced
         /\ Effective(form, t) # {} => /\ Latest(Effective(form, t)) \in Effective(form, t)
                                       /\ FindByModelKey(form, t) = Latest(Effective(form, t)).price
                                       /\ FindByModelKey(form, t) \in Prices
                                       /\ FindByModelKey(form, t) # Unpriced
  <1>1. Effective(form, t) \in SUBSET Row
    BY DEF Effective, At
  <1>2. CASE Effective(form, t) = {}
    BY <1>2 DEF FindByModelKey
  <1>3. CASE Effective(form, t) # {}
    <2>1. Latest(Effective(form, t)) \in Effective(form, t)
      BY <1>1, <1>3, LatestIs
    <2>2. FindByModelKey(form, t) = Latest(Effective(form, t)).price
      BY <1>3 DEF FindByModelKey
    <2>3. Latest(Effective(form, t)).price \in Prices
      BY <1>1, <2>1 DEF Row
    <2>4. \A p \in Prices : p # Unpriced
      BY DEF Prices, Unpriced
    <2> QED BY <1>3, <2>1, <2>2, <2>3, <2>4
  <1> QED BY <1>2, <1>3

\* A model has a price at t if a row of either key holds by t or the dataset
\* may be asked and knows it.
LEMMA PricedIs ==
  ASSUME rows \in SUBSET Row, NEW t
  PROVE  FindModelPricing(t) # Unpriced <=> Priced(t)
  <1>1. \A r \in rows : r.form = "colon" \/ r.form = "slash"
    BY DEF Row, Forms
  <1>2. (\E r \in rows : r.at <= t) <=> Effective("colon", t) # {} \/ Effective("slash", t) # {}
    BY <1>1 DEF Effective, At
  <1>3. \A form : FindByModelKey(form, t) # Unpriced <=> Effective(form, t) # {}
    BY FindIs
  <1>4. DefaultModelPricing # Unpriced <=> dataset
    BY DEF DefaultModelPricing, DefaultPrice, Unpriced
  <1> QED BY <1>2, <1>3, <1>4 DEF FindModelPricing, Priced

-----------------------------------------------------------------------------
(* The invariant.                                                          *)

\* The tables a former version left satisfy it.
LEMMA CatalogStarts == CatalogInit => CatalogInv
  <1> SUFFICES ASSUME CatalogInit PROVE CatalogInv
    OBVIOUS
  <1>1. today \in Times
    BY TimeAssumption DEF CatalogInit, Times
  <1>6. entry \in {NoEntry} \cup [there : {TRUE}, at : {0, Undated}, price : {1}]
    BY Zenon DEF CatalogInit
  <1>2. rows \in SUBSET Row /\ OneRowADate /\ SlashIsFormer
    BY TimeAssumption DEF CatalogInit, Row, Forms, Times, Prices, OneRowADate, SlashIsFormer
  <1>3. AdminType
    BY DEF CatalogInit, NoCall, AdminType
  <1>7. posted \in [Times -> SUBSET (Prices \cup {Unpriced})]
    BY DEF CatalogInit
  <1>8. PostedInv /\ FetchInv
    BY DEF CatalogInit, PostedInv, PostedAt, FetchInv
  <1>4. lister \in [Listers -> {"idle", "waiting", "fetching"}]
    BY DEF CatalogInit
  <1>5. AdmittedHasPrice /\ FreeNeedsDeletion
    BY DEF CatalogInit, AdmittedHasPrice, FreeNeedsDeletion
  <1> QED BY <1>1, <1>2, <1>3, <1>4, <1>5, <1>6, <1>7, <1>8, Zenon DEF CatalogInv, CatalogType

\* What a date means at the moment is a date.
LEMMA DatedIs ==
  ASSUME today \in Times, NEW at \in Times \cup {Undated}
  PROVE  Dated(at) \in Times
  BY DEF Dated

\* Having no date is no date.
LEMMA UndatedIs == Undated \notin Times /\ 0 \in Times
  BY TimeAssumption DEF Undated, Times

\* Rows that take the place of those of their key and date, or add to the others.
LEMMA RowPut ==
  ASSUME NEW rs \in SUBSET Row, NEW new \in Row,
         \A r, q \in rs : r.form = q.form /\ r.at = q.at => r = q,
         \A r \in rs : r.form = "slash" => r.by = "former", new.form = "colon",
         NEW ns, ns = (rs \ {r \in rs : r.form = new.form /\ r.at = new.at}) \cup {new}
  PROVE  /\ ns \in SUBSET Row
         /\ \A r, q \in ns : r.form = q.form /\ r.at = q.at => r = q
         /\ \A r \in ns : r.form = "slash" => r.by = "former"
         /\ \A t : (\E r \in rs : r.at <= t) => \E r \in ns : r.at <= t
  OBVIOUS

\* What the API and the configuration write is a row under the colon key.
LEMMA ColonRow ==
  ASSUME NEW at \in Times, NEW price \in Prices, NEW by \in {"api", "config"}
  PROVE  LET new == [form |-> "colon", at |-> at, price |-> price, by |-> by]
         IN  new \in Row /\ new.form = "colon" /\ new.at = at
  BY DEF Row, Forms

\* A price that holds today holds tomorrow.
LEMMA TimePasses ==
  ASSUME CatalogInv, DayPasses PROVE CatalogInv'
  <1> USE DEF CatalogInv, DayPasses, config, prices, listing
  <1>1. today' \in Times /\ today <= today' /\ today \in Nat /\ today' \in Nat
    BY TimeAssumption DEF CatalogType, Times
  <1>2. CatalogType'
    BY <1>1 DEF CatalogType, AdminType, Undated, NoEntry
  <1>3. OneRowADate' /\ SlashIsFormer' /\ FreeNeedsDeletion'
    BY DEF OneRowADate, SlashIsFormer, FreeNeedsDeletion
  <1>4. AdmittedHasPrice'
    <2>1. \A r \in rows : r.at \in Nat
      BY DEF CatalogType, Row, Times
    <2>2. Priced(today) => Priced(today')
      BY <1>1, <2>1 DEF Priced
    <2> QED BY <2>2 DEF AdmittedHasPrice, Priced
  <1>5. PostedInv' /\ FetchInv'
    BY DEF PostedInv, PostedAt, FetchInv
  <1> QED BY <1>2, <1>3, <1>4, <1>5

\* Steps that leave the rows, the clock and the request alone.
LEMMA NothingPriced ==
  ASSUME CatalogInv, UNCHANGED <<today, config, rows, request, removed, posted>>, AdminType',
         lister' \in [Listers -> {"idle", "waiting", "fetching"}], FetchInv'
  PROVE  CatalogInv'
  <1>1. CatalogType'
    BY DEF CatalogInv, CatalogType, config
  <1>2. OneRowADate' /\ SlashIsFormer' /\ FreeNeedsDeletion' /\ AdmittedHasPrice'
    BY DEF CatalogInv, OneRowADate, SlashIsFormer, FreeNeedsDeletion, AdmittedHasPrice, Priced, config
  <1>3. PostedInv'
    BY DEF CatalogInv, PostedInv, PostedAt
  <1> QED BY <1>1, <1>2, <1>3 DEF CatalogInv

\* The lists are no business of the admins.
LEMMA ListsStay ==
  ASSUME CatalogInv, UNCHANGED listing
  PROVE  lister' \in [Listers -> {"idle", "waiting", "fetching"}] /\ FetchInv'
  BY DEF CatalogInv, CatalogType, listing, FetchInv

\* A call that is over asks for nothing.
LEMMA CallOver ==
  ASSUME CatalogInv, NEW a \in Admins, Returns(a) PROVE AdminType'
  <1>1. admin = [b \in Admins |-> admin[b]] /\ admin' = [admin EXCEPT ![a] = NoCall]
    BY DEF CatalogInv, CatalogType, AdminType, Returns
  <1>2. admin' = [b \in Admins |-> admin'[b]]
    BY <1>1
  <1>3. \A b \in Admins : admin'[b] = IF b = a THEN NoCall ELSE admin[b]
    BY <1>1
  <1>4. NoCall.kind # "set"
    BY DEF NoCall
  <1> QED BY <1>2, <1>3, <1>4 DEF CatalogInv, CatalogType, AdminType

\* The reads of an administrator's call, before its commit.
LEMMA AdminReads ==
  ASSUME CatalogInv, NEW a \in Admins, SetPricing(a) \/ DeletePricing(a) PROVE CatalogInv'
  <1>1. PICK call : /\ Call(a, call)
                    /\ call.kind = "set" =>
                         call.form = "colon" /\ call.at \in Times /\ call.price \in Prices
    <2>1. CASE SetPricing(a)
      <3>1. PICK form \in Forms, at \in Times \cup {Undated}, price \in Prices :
              Call(a, [kind |-> "set", form |-> "colon", at |-> Dated(at), price |-> price,
                       read |-> PriceOf("colon", Dated(at))])
        BY <2>1 DEF SetPricing, NormalizePricingKey
      <3>2. Dated(at) \in Times
        BY DatedIs DEF CatalogInv, CatalogType
      <3> QED BY <3>1, <3>2
    <2>2. CASE DeletePricing(a)
      <3>1. PICK ts : Call(a, [kind |-> "delete", targets |-> ts])
        BY <2>2, Zenon DEF DeletePricing
      <3> QED BY <3>1
    <2> QED BY <2>1, <2>2
  <1>2. UNCHANGED <<today, config, rows, request, removed, posted, listing>>
    BY <1>1 DEF Call
  <1>3. admin = [b \in Admins |-> admin[b]] /\ admin' = [admin EXCEPT ![a] = call]
    BY <1>1 DEF CatalogInv, CatalogType, AdminType, Call
  <1>4. admin' = [b \in Admins |-> admin'[b]]
    BY <1>3
  <1>5. \A b \in Admins : admin'[b] = IF b = a THEN call ELSE admin[b]
    BY <1>3
  <1>6. AdminType'
    BY <1>1, <1>4, <1>5 DEF CatalogInv, CatalogType, AdminType
  <1> QED BY <1>2, <1>6, ListsStay, NothingPriced

\* A price is set under the one key for its date, and the answer tells it.
LEMMA SetCommits ==
  ASSUME CatalogInv, NEW a \in Admins, CommitSet(a) PROVE CatalogInv'
  <1> DEFINE form == admin[a].form
             at == admin[a].at
             price == admin[a].price
  <1>1. UNCHANGED <<today, config, calls, request, removed, listing>> /\ AdminType'
    BY CallOver DEF CommitSet, Returns
  <1>2. lister' \in [Listers -> {"idle", "waiting", "fetching"}] /\ FetchInv'
    BY <1>1, ListsStay
  <1>3. CASE UNCHANGED <<rows, posted>>
    BY <1>1, <1>2, <1>3, NothingPriced
  <1>4. ASSUME Writes(a), NEW known \in {{}, posted[at]},
               posted' = [posted EXCEPT ![at] = known \cup {Answered(admin[a])}]
        PROVE  CatalogInv'
    <2>1. form = "colon" /\ at \in Times /\ price \in Prices /\ price # Unpriced
      BY DEF CommitSet, CatalogInv, CatalogType, AdminType, Prices, Unpriced
    <2>2. PICK new : new = [form |-> "colon", at |-> at, price |-> price, by |-> "api"]
      OBVIOUS
    <2>3. new \in Row /\ new.form = "colon" /\ new.at = at /\ new.price = price
      BY <2>1, <2>2, ColonRow
    <2>4. RowOf(form, at) = {r \in rows : r.form = "colon" /\ r.at = at}
      BY <2>1 DEF RowOf, At
    <2>5. /\ rows \in SUBSET Row
          /\ \A r, q \in rows : r.form = q.form /\ r.at = q.at => r = q
          /\ \A r \in rows : r.form = "slash" => r.by = "former"
      BY DEF CatalogInv, CatalogType, OneRowADate, SlashIsFormer
    <2>6. /\ rows' \in SUBSET Row
          /\ \A r, q \in rows' : r.form = q.form /\ r.at = q.at => r = q
          /\ \A r \in rows' : r.form = "slash" => r.by = "former"
          /\ \A t : (\E r \in rows : r.at <= t) => \E r \in rows' : r.at <= t
          /\ \A r : r.at # at => (r \in rows' <=> r \in rows)
          /\ \E r \in rows' : r.form = "colon" /\ r.at = at
          /\ \A r \in rows' : r.form = "colon" /\ r.at = at => r.price = Answered(admin[a])
          /\ Answered(admin[a]) \in Prices
      <3>1. CASE price = admin[a].read
        <4>1. rows' = rows /\ RowOf(form, at) # {}
          BY <1>4, <2>1, <3>1 DEF Writes
        <4>2. PICK q \in RowOf(form, at) : PriceOf(form, at) = q.price
          BY <4>1 DEF PriceOf
        <4>3. Answered(admin[a]) = q.price
          BY <3>1, <4>2 DEF Answered
        <4>4. q \in rows /\ q.form = "colon" /\ q.at = at /\ q.price \in Prices
          BY <2>4, <2>5 DEF Row
        <4> QED BY <2>5, <4>1, <4>3, <4>4
      <3>2. CASE price # admin[a].read
        <4>1. rows' = (rows \ {r \in rows : r.form = new.form /\ r.at = new.at}) \cup {new}
          BY <1>4, <2>1, <2>2, <2>3, <2>4, <3>2 DEF Writes
        <4>2. Answered(admin[a]) = price
          BY <3>2 DEF Answered
        <4>3. /\ rows' \in SUBSET Row
              /\ \A r, q \in rows' : r.form = q.form /\ r.at = q.at => r = q
              /\ \A r \in rows' : r.form = "slash" => r.by = "former"
              /\ \A t : (\E r \in rows : r.at <= t) => \E r \in rows' : r.at <= t
          BY <2>3, <2>5, <4>1, RowPut
        <4> QED BY <2>1, <2>3, <4>1, <4>2, <4>3
      <3> QED BY <3>1, <3>2
    <2>7. /\ posted' \in [Times -> SUBSET (Prices \cup {Unpriced})]
          /\ \A t \in Times : t # at => posted'[t] = posted[t]
          /\ posted'[at] = known \cup {Answered(admin[a])}
      <3>1. posted \in [Times -> SUBSET (Prices \cup {Unpriced})]
        BY DEF CatalogInv, CatalogType
      <3>2. known \cup {Answered(admin[a])} \in SUBSET (Prices \cup {Unpriced})
        BY <2>1, <2>6, <3>1
      <3> QED BY <1>4, <2>1, <3>1, <3>2
    <2>8. CatalogType'
      BY <1>1, <1>2, <2>6, <2>7 DEF CatalogInv, CatalogType, config
    <2>9. AdmittedHasPrice'
      BY <1>1, <2>6 DEF CatalogInv, AdmittedHasPrice, Priced, config
    <2>10. OneRowADate' /\ SlashIsFormer' /\ FreeNeedsDeletion'
      BY <1>1, <2>6 DEF CatalogInv, OneRowADate, SlashIsFormer, FreeNeedsDeletion
    <2>11. ASSUME NEW t \in Times PROVE PostedAt(t)'
      <3>1. CASE t # at
        BY <2>6, <2>7, <3>1 DEF CatalogInv, PostedInv, PostedAt
      <3>2. CASE t = at
        <4>1. Answered(admin[a]) # Unpriced
          BY <2>6 DEF Prices, Unpriced
        <4>2. posted'[t] # {Unpriced} /\ Answered(admin[a]) \in posted'[t]
          BY <2>7, <3>2, <4>1
        <4> QED BY <2>6, <3>2, <4>2 DEF PostedAt
      <3> QED BY <3>1, <3>2
    <2> QED BY <1>2, <2>8, <2>9, <2>10, <2>11 DEF CatalogInv, PostedInv
  <1> QED BY <1>3, <1>4 DEF CommitSet

\* Rows go, a request admitted by then is marked, and of their dates nothing is
\* told for certain any more.
LEMMA DeleteCommits ==
  ASSUME CatalogInv, NEW a \in Admins, CommitDelete(a) PROVE CatalogInv'
  <1>1. UNCHANGED <<today, config, calls, request, listing>> /\ AdminType'
    BY CallOver DEF CommitDelete, Returns
  <1>2. lister' \in [Listers -> {"idle", "waiting", "fetching"}] /\ FetchInv'
    BY <1>1, ListsStay
  <1>3. CASE UNCHANGED <<rows, removed, posted>>
    BY <1>1, <1>2, <1>3, NothingPriced
  <1>4. ASSUME rows' = {r \in rows : ~Deleted(a, r.form, r.at)},
               removed' = (removed \/ request = "admitted"), NEW lost \in BOOLEAN,
               posted' = [t \in Times |-> IF ~Deleted(a, "colon", t) THEN posted[t]
                                          ELSE {Unpriced} \cup IF lost THEN posted[t] ELSE {}]
        PROVE  CatalogInv'
    <2>1. rows' \in SUBSET rows
      BY <1>4
    <2>2. posted \in [Times -> SUBSET (Prices \cup {Unpriced})]
      BY DEF CatalogInv, CatalogType
    <2>3. \A t \in Times : posted'[t] = IF ~Deleted(a, "colon", t) THEN posted[t]
                                        ELSE {Unpriced} \cup IF lost THEN posted[t] ELSE {}
      BY <1>4
    <2>4. \A t \in Times : posted'[t] \in SUBSET (Prices \cup {Unpriced})
      BY <2>2, <2>3
    <2>5. posted' \in [Times -> SUBSET (Prices \cup {Unpriced})]
      BY <1>4, <2>4
    <2>6. CatalogType'
      BY <1>1, <1>2, <2>1, <2>5 DEF CatalogInv, CatalogType, config
    <2>7. OneRowADate' /\ SlashIsFormer'
      BY <2>1 DEF CatalogInv, OneRowADate, SlashIsFormer
    <2>8. AdmittedHasPrice' /\ FreeNeedsDeletion'
      BY <1>1, <1>4 DEF CatalogInv, AdmittedHasPrice, FreeNeedsDeletion
    <2>9. ASSUME NEW t \in Times PROVE PostedAt(t)'
      <3>1. CASE Deleted(a, "colon", t)
        <4>1. ~\E r \in rows' : r.form = "colon" /\ r.at = t
          BY <1>4, <3>1
        <4>2. Unpriced \in posted'[t]
          BY <2>3, <3>1
        <4> QED BY <4>1, <4>2 DEF PostedAt
      <3>2. CASE ~Deleted(a, "colon", t)
        <4>1. \A r : r.form = "colon" /\ r.at = t => (r \in rows' <=> r \in rows)
          BY <1>4, <3>2
        <4>2. posted'[t] = posted[t]
          BY <2>3, <3>2
        <4>3. PostedAt(t)
          BY DEF CatalogInv, PostedInv
        <4> QED BY <4>1, <4>2, <4>3 DEF PostedAt
      <3> QED BY <3>1, <3>2
    <2> QED BY <1>2, <2>6, <2>7, <2>8, <2>9 DEF CatalogInv, PostedInv
  <1> QED BY <1>3, <1>4 DEF CommitDelete

\* A restart may add the row of the configuration, of a date that has none.
LEMMA StartsAgain ==
  ASSUME CatalogInv, Restart PROVE CatalogInv'
  <1>1. UNCHANGED <<today, config, posted>> /\ request' = "new" /\ AdminType'
    BY DEF Restart, NoCall, AdminType
  <1>2. lister' \in [Listers -> {"idle", "waiting", "fetching"}] /\ FetchInv'
    BY DEF Restart, FetchInv
  <1>3. rows' \in SUBSET Row /\ OneRowADate' /\ SlashIsFormer' /\ PostedInv'
    <2>1. CASE entry.there /\ Configured /\ ~\E r \in At("colon") : r.at = Dated(entry.at)
      <3>1. entry \in [there : {TRUE}, at : {0, Undated}, price : {1}]
        <4>1. entry = NoEntry \/ entry \in [there : {TRUE}, at : {0, Undated}, price : {1}]
          BY Zenon DEF CatalogInv, CatalogType
        <4>2. ~NoEntry.there
          BY Zenon DEF NoEntry
        <4> QED BY <2>1, <4>1, <4>2, Zenon
      <3>2. Dated(entry.at) \in Times /\ entry.price \in Prices
        BY <3>1, DatedIs, UndatedIs DEF CatalogInv, CatalogType, Prices
      <3>3. PICK new : new = [form |-> "colon", at |-> Dated(entry.at), price |-> entry.price,
                              by |-> "config"]
        OBVIOUS
      <3>4. /\ new \in Row /\ new.form = "colon" /\ new.at = Dated(entry.at)
            /\ new.by = "config"
        BY <3>2, <3>3, ColonRow
      <3>5. {r \in rows : r.form = new.form /\ r.at = new.at} = {}
        BY <2>1, <3>4 DEF At
      <3>6. rows' = (rows \ {r \in rows : r.form = new.form /\ r.at = new.at}) \cup {new}
        BY <2>1, <3>3, <3>5 DEF Restart, InitializePricing
      <3>7. /\ rows \in SUBSET Row
            /\ \A r, q \in rows : r.form = q.form /\ r.at = q.at => r = q
            /\ \A r \in rows : r.form = "slash" => r.by = "former"
        BY DEF CatalogInv, CatalogType, OneRowADate, SlashIsFormer
      <3>8. /\ rows' \in SUBSET Row
            /\ \A r, q \in rows' : r.form = q.form /\ r.at = q.at => r = q
            /\ \A r \in rows' : r.form = "slash" => r.by = "former"
        BY <3>4, <3>6, <3>7, RowPut
      <3>9. ASSUME NEW t \in Times PROVE PostedAt(t)'
        <4>1. PostedAt(t) /\ posted'[t] = posted[t]
          BY <1>1 DEF CatalogInv, PostedInv
        <4>2. rows' = rows \cup {new}
          BY <3>5, <3>6
        <4>3. CASE t # new.at
          BY <4>1, <4>2, <4>3 DEF PostedAt
        <4>4. CASE t = new.at
          <5>1. ~\E r \in rows : r.form = "colon" /\ r.at = t
            BY <3>4, <3>5, <4>4
          <5>2. Unpriced \in posted[t]
            BY <4>1, <5>1 DEF PostedAt
          <5> QED BY <3>4, <4>1, <4>2, <5>1, <5>2 DEF PostedAt
        <4> QED BY <4>3, <4>4
      <3> QED BY <3>8, <3>9 DEF OneRowADate, SlashIsFormer, PostedInv
    <2>2. CASE ~(entry.there /\ Configured /\ ~\E r \in At("colon") : r.at = Dated(entry.at))
      <3>1. rows' = rows
        BY <2>2 DEF Restart, InitializePricing
      <3> QED BY <1>1, <3>1
              DEF CatalogInv, CatalogType, OneRowADate, SlashIsFormer, PostedInv, PostedAt
    <2> QED BY <2>1, <2>2
  <1>4. CatalogType'
    BY <1>1, <1>2, <1>3 DEF CatalogInv, CatalogType, config
  <1>5. AdmittedHasPrice' /\ FreeNeedsDeletion'
    BY <1>1 DEF AdmittedHasPrice, FreeNeedsDeletion
  <1> QED BY <1>2, <1>3, <1>4, <1>5 DEF CatalogInv

\* The gate and the settlement read the same price.
LEMMA RequestMoves ==
  ASSUME CatalogInv, Admit \/ SettleRequest PROVE CatalogInv'
  <1>1. UNCHANGED <<today, config, rows, admin, calls, removed, posted, listing>>
    BY DEF Admit, SettleRequest
  <1>2. CatalogType' /\ OneRowADate' /\ SlashIsFormer'
    BY <1>1 DEF CatalogInv, CatalogType, AdminType, OneRowADate, SlashIsFormer, config, listing
  <1>3. FindModelPricing(today) # Unpriced <=> Priced(today)
    BY PricedIs DEF CatalogInv, CatalogType
  <1>4. AdmittedHasPrice' /\ FreeNeedsDeletion'
    <2>1. CASE Admit
      BY <1>1, <1>3, <2>1
         DEF Admit, GatePrice, AdmittedHasPrice, FreeNeedsDeletion, Priced, config
    <2>2. CASE SettleRequest
      BY <1>1, <1>3, <2>2
         DEF SettleRequest, CatalogInv, AdmittedHasPrice, FreeNeedsDeletion
    <2> QED BY <2>1, <2>2
  <1>5. PostedInv' /\ FetchInv'
    BY <1>1 DEF CatalogInv, PostedInv, PostedAt, FetchInv, listing
  <1> QED BY <1>2, <1>4, <1>5 DEF CatalogInv

\* Model lists are no business of the prices.  The look at the cache, the fetch
\* and its storing are under one lock.
LEMMA Lists ==
  ASSUME CatalogInv, CacheExpires \/ \E l \in Listers : List(l) \/ TakeLock(l) \/ Fetched(l)
  PROVE  CatalogInv'
  <1>1. UNCHANGED <<today, config, prices>>
    BY DEF CacheExpires, List, TakeLock, Fetched
  <1>2. lister' \in [Listers -> {"idle", "waiting", "fetching"}]
    BY DEF CatalogInv, CatalogType, CacheExpires, List, TakeLock, Fetched
  <1>3. AdminType'
    BY <1>1 DEF CatalogInv, CatalogType, AdminType, prices
  <1>4. FetchInv'
    <2> USE DEF CatalogInv, FetchInv
    <2>0. lister \in [Listers -> {"idle", "waiting", "fetching"}]
      BY DEF CatalogType
    <2>1. CASE CacheExpires
      BY <2>1 DEF CacheExpires
    <2>2. ASSUME NEW l \in Listers, List(l) PROVE FetchInv'
      BY <2>0, <2>2 DEF List
    <2>3. ASSUME NEW l \in Listers, TakeLock(l) PROVE FetchInv'
      BY <2>0, <2>3 DEF TakeLock, StillNeeded, LockFree
    <2>4. ASSUME NEW l \in Listers, Fetched(l) PROVE FetchInv'
      BY <2>0, <2>4 DEF Fetched
    <2> QED BY <2>1, <2>2, <2>3, <2>4
  <1> QED BY <1>1, <1>2, <1>3, <1>4, NothingPriced DEF prices

\* Every step.
LEMMA CatalogStep == ASSUME CatalogInv, [CatalogNext]_catalogVars PROVE CatalogInv'
  <1>1. CASE UNCHANGED catalogVars
    <2>1. UNCHANGED <<today, config, rows, request, removed, posted, admin, listing>>
      BY <1>1 DEF catalogVars, config, listing
    <2>2. AdminType'
      BY <2>1 DEF CatalogInv, CatalogType, AdminType
    <2> QED BY <2>1, <2>2, ListsStay, NothingPriced
  <1>2. CASE CatalogNext
    BY <1>2, TimePasses, AdminReads, SetCommits, DeleteCommits, StartsAgain, RequestMoves, Lists
       DEF CatalogNext
  <1> QED BY <1>1, <1>2

\* In every reachable state of the catalogue the rows are those that
\* set_model_pricing and initialize_pricing_from_config can have written, and a
\* request that was admitted as paid still finds a price.
THEOREM CatalogInvariant == CatalogSpec => []CatalogInv
  <1>1. CatalogInit => CatalogInv
    BY CatalogStarts
  <1>2. CatalogInv /\ [CatalogNext]_catalogVars => CatalogInv'
    BY CatalogStep
  <1> QED BY <1>1, <1>2, PTL DEF CatalogSpec

-----------------------------------------------------------------------------
(* What it implies.                                                        *)

\* GET /pricing/{key} shows what a request is billed at.
LEMMA AdminReadsTheBill == ASSUME CatalogInv PROVE ReadersAgree
  <1> SUFFICES ASSUME ~FormerRow, NEW form \in Forms, NEW t \in 0..today,
                      GetPricing(form, t) # Unpriced
               PROVE  GetPricing(form, t) = FindModelPricing(t)
    BY DEF ReadersAgree
  <1>1. Effective("slash", t) = {}
    BY DEF CatalogInv, SlashIsFormer, FormerRow, Effective, At
  <1> DEFINE c == Candidates(form)
             with == {i \in DOMAIN c : Effective(c[i], t) # {}}
  <1>2. with # {} /\ GetPricing(form, t) = FindByModelKey(c[Min(with)], t)
    BY DEF GetPricing
  <1>3. Effective(c[Min(with)], t) # {} /\ c[Min(with)] = "colon"
    <2>1. /\ DOMAIN c \in SUBSET {1, 2}
          /\ \A i \in DOMAIN c : c[i] \in {"colon", "slash"}
      BY DEF Candidates, Forms
    <2> HIDE DEF c
    <2>2. with \in SUBSET Nat
      BY <2>1
    <2>3. Min(with) \in with
      BY <1>2, <2>2, Least
    <2> QED BY <1>1, <2>1, <2>3
  <1>4. FindByModelKey("colon", t) # Unpriced
    BY <1>3, FindIs DEF CatalogInv, CatalogType
  <1> QED BY <1>2, <1>3, <1>4 DEF FindModelPricing

\* GET /models does, if no row is in the future.
LEMMA ListIsTheBill == ASSUME CatalogInv PROVE ListedIsBilled
  <1> SUFFICES ASSUME PricingMap # Unpriced, \A r \in At("colon") : r.at <= today
               PROVE  PricingMap = FindModelPricing(today)
    BY DEF ListedIsBilled
  <1>1. At("colon") # {} /\ Effective("colon", today) = At("colon")
    BY DEF PricingMap, Effective
  <1>2. FindByModelKey("colon", today) # Unpriced
    BY <1>1, FindIs DEF CatalogInv, CatalogType
  <1> QED BY <1>1, <1>2 DEF PricingMap, FindModelPricing, FindByModelKey

\* Whoever reads a price of the model reads the one a request is billed at
\* (find_model_pricing), and only a deletion makes an admitted request free.
THEOREM PricesAlwaysAgree == CatalogSpec => []PricesAgree
  <1>1. CatalogInv => PricesAgree
    BY AdminReadsTheBill, ListIsTheBill DEF PricesAgree, CatalogInv
  <1> QED BY <1>1, CatalogInvariant, PTL

\* What a date's price was told to be is in force from then on.
LEMMA PostedIsBilled == ASSUME CatalogInv PROVE PostedPriceHolds
  <1> SUFFICES ASSUME NEW t \in 0..today, Unpriced \notin posted[t]
               PROVE  \/ FindModelPricing(today) \in posted[t]
                      \/ \E u \in (t + 1)..today :
                           \/ posted[u] # {Unpriced}
                           \/ \E r \in At("colon") : r.at = u /\ r.by = "config"
    BY DEF PostedPriceHolds
  <1>1. today \in Nat /\ t \in Times /\ t \in Nat /\ t <= today
    BY TimeAssumption DEF CatalogInv, CatalogType, Times
  <1>2. rows \in SUBSET Row /\ \A r \in rows : r.at \in Times /\ r.at \in Nat
    BY TimeAssumption DEF CatalogInv, CatalogType, Row, Times
  <1>3. \A u \in Times : PostedAt(u)
    BY DEF CatalogInv, PostedInv
  <1>4. PICK r \in rows : r.form = "colon" /\ r.at = t
    BY <1>1, <1>3 DEF PostedAt
  <1>5. r \in Effective("colon", today)
    BY <1>1, <1>4 DEF Effective, At
  <1>6. PICK late \in Effective("colon", today) :
          /\ \A q \in Effective("colon", today) : q.at <= late.at
          /\ FindByModelKey("colon", today) = late.price /\ late.price # Unpriced
    <2>1. Effective("colon", today) \in SUBSET Row
      BY <1>2 DEF Effective, At
    <2>2. /\ Latest(Effective("colon", today)) \in Effective("colon", today)
          /\ FindByModelKey("colon", today) = Latest(Effective("colon", today)).price
          /\ FindByModelKey("colon", today) # Unpriced
      BY <1>2, <1>5, FindIs
    <2>3. \A q \in Effective("colon", today) : q.at <= Latest(Effective("colon", today)).at
      BY <1>5, <2>1, LatestIs
    <2> QED BY <2>2, <2>3
  <1>7. FindModelPricing(today) = late.price
    BY <1>6 DEF FindModelPricing
  <1>8. /\ late \in rows /\ late.form = "colon" /\ late.at <= today /\ t <= late.at
        /\ late.at \in Times /\ late.at \in Nat
    BY <1>2, <1>4, <1>5, <1>6 DEF Effective, At
  <1>9. CASE late.at = t
    BY <1>1, <1>3, <1>7, <1>8, <1>9 DEF PostedAt
  <1>10. CASE late.at # t
    <2>1. late.at \in (t + 1)..today
      BY <1>1, <1>8, <1>10
    <2>2. posted[late.at] # {Unpriced} \/ late.by = "config"
      BY <1>3, <1>8 DEF PostedAt
    <2>3. late \in At("colon")
      BY <1>8 DEF At
    <2> QED BY <2>1, <2>2, <2>3
  <1> QED BY <1>9, <1>10

\* A price an admin was told of is billed from its date on, through restarts
\* (initialize_pricing_from_config) and the calls of other admins
\* (set_pricing, delete_pricing), until one deletes it or dates a later one.
THEOREM PostedPricesHold == CatalogSpec => []PostedPriceHolds
  <1>1. CatalogInv => PostedPriceHolds
    BY PostedIsBilled
  <1> QED BY <1>1, CatalogInvariant, PTL

\* From the look under the lock to the storing of the list nobody else stores
\* one or asks the provider (discover_provider_models).
THEOREM FetchesAreNeeded == CatalogSpec => []FetchIsNeeded
  <1>1. CatalogInv => FetchIsNeeded
    BY DEF CatalogInv, FetchInv, FetchIsNeeded
  <1> QED BY <1>1, CatalogInvariant, PTL

=============================================================================
