------------------------- MODULE SettlementContract -------------------------
(***************************************************************************)
(* What the pipeline promises about one request's hold on the budget, taken *)
(* alone: it is taken at most once, ended at most once, either by charging  *)
(* the request or by giving the estimate back, and a hold that was taken is *)
(* ended.                                                                   *)
(***************************************************************************)

VARIABLES hold,   \* "none", "held" or "ended"
          bill    \* "none" or "charged"

vars == <<hold, bill>>

TypeOK == hold \in {"none", "held", "ended"} /\ bill \in {"none", "charged"}

Init == hold = "none" /\ bill = "none"

Take == hold = "none" /\ bill = "none" /\ hold' = "held" /\ UNCHANGED bill

GiveBack == hold = "held" /\ hold' = "ended" /\ UNCHANGED bill

\* A request that holds nothing (no budget, free model) is charged as well.
Charge ==
  /\ bill = "none" /\ bill' = "charged"
  /\ \/ hold = "none" /\ UNCHANGED hold
     \/ hold = "held" /\ hold' = "ended"

End == GiveBack \/ Charge

Next == Take \/ End

Spec == Init /\ [][Next]_vars /\ WF_vars(hold = "held" /\ End)

=============================================================================
