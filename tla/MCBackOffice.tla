---------------------------- MODULE MCBackOffice ----------------------------
(* Instances for TLC of the desks behind the market: the card-hour wallet  *)
(* and its refunds, purchases delivered by hand, the cases about them,     *)
(* questions about top-ups, and the queue in front of the payment          *)
(* provider. They share no row that two of them write but the appeals of a *)
(* purchase, which ManualOrders opens and closes as it likes, so the first *)
(* state settles which of them moves.                                      *)
EXTENDS CardHourWallet, ManualOrders, ManualAppeals, TopupAppeals, QueryBudget, TLC

CONSTANTS t1, t2, a1, a2, r1, r2, p1, p2

VARIABLE desk

(* A hosting order costs a top-up; the sale and the grant are one unit.    *)
MCPrice == [x \in Topups \cup Grants \cup Sales \cup Orders |->
               IF x \in Grants \cup Sales THEN 1 ELSE 2]

officeVars == <<desk, vars, manualVars, appealVars, claimVars, budgetVars>>

OfficeInit ==
    /\ desk \in {"wallet", "orders", "cases", "claims", "queries"}
    /\ Init /\ ManualInit /\ AppealInit /\ ClaimInit /\ BudgetInit

OfficeNext ==
    /\ \/ desk = "wallet" /\ Next
       \/ desk # "wallet" /\ UNCHANGED vars
    /\ \/ desk = "orders" /\ ManualNext
       \/ desk # "orders" /\ UNCHANGED manualVars
    /\ \/ desk = "cases" /\ AppealNext
       \/ desk # "cases" /\ UNCHANGED appealVars
    /\ \/ desk = "claims" /\ ClaimNext
       \/ desk # "claims" /\ UNCHANGED claimVars
    /\ \/ desk = "queries" /\ BudgetNext
       \/ desk # "queries" /\ UNCHANGED budgetVars
    /\ UNCHANGED desk

OfficeSpec == OfficeInit /\ [][OfficeNext]_officeVars

-----------------------------------------------------------------------------
(* Every card-hour of the wallet is accounted for: WalletIsExplained.      *)
WalletIsSound == desk = "wallet" => TypeOK /\ WalletIsExplained

(* The card-hours held for purchases delivered by hand are explained, and  *)
(* an order never runs ahead of its delivery.                              *)
ManualOrdersAreSound ==
    desk = "orders" => ManualTypeOK /\ ManualMoneyIsExplained /\ OrderFollowsDelivery

(* Cases are worked one at a time and step by step, and refunds outside    *)
(* the platform are verified by a second administrator on what is there.   *)
CasesAreSound ==
    /\ desk = "cases" => AppealTypeOK /\ CasesAreOrderly /\ RefundIsVerified
    /\ desk = "claims" => ClaimTypeOK /\ ClaimIsOnePath

(* The payment provider is not asked too often, nor anyone kept waiting.   *)
QueriesAreBounded == desk = "queries" => BudgetTypeOK /\ BudgetIsKept

(* A capture is clean, and what is completed, revoked, closed or verified  *)
(* stays so, whoever comes late with what he read before.                  *)
OfficeEndsAreFinal == [][/\ desk = "orders" => CaptureIsClean
                         /\ desk = "cases" => CasesStayClosed]_officeVars

-----------------------------------------------------------------------------
Symmetry == Permutations({t1, t2}) \cup Permutations({a1, a2})
            \cup Permutations({r1, r2}) \cup Permutations({p1, p2})

(* Bounds: requests in flight are about one purchase, and the second case  *)
(* of a purchase is not about a refund.                                    *)
OnePurchase == desk = "orders" =>
    \A d, e \in Desks : errand[d] # NoErrand /\ errand[e] # NoErrand => errand[d].d = errand[e].d
FirstRefund == \A d \in Disputed, n \in Numbers \ {1} : offline[d][n] = NoOffline
=============================================================================
