--------------------------- MODULE CardHourWallet ---------------------------
(* The card-hour wallet of one organization and what moves money through   *)
(* it: top-ups, trial grants, orders paid at once, hosting orders that hold *)
(* money first, and the refund of a top-up, which two administrators       *)
(* decide and an executor carries out under a claim that goes stale after  *)
(* 120 s (card-hour-store-core.ts, card-hour-topup-refund-service.ts).     *)
(*                                                                         *)
(* A batch is one transaction, and its statements repeat every test of the *)
(* reads before it but one: beginTopupRefund looks for the hold before the *)
(* batch only, so that read is a step of its own. A refund is named by its *)
(* top-up (topup_order_id is unique); it is PENDING only at version 1, so  *)
(* the version that decideTopupRefund compares adds nothing to the status. *)
EXTENDS Integers, FiniteSets, FiniteSetsExt

CONSTANTS
    Topups,    \* top-up orders of the organization
    Grants,    \* trial grants
    Sales,     \* supply and exchange orders, paid in one transaction
    Orders,    \* hosting contracts, paid from a hold
    Price,     \* card-hours of each of them
    Admins,    \* finance administrators
    Requests,  \* executor requests running at once
    Proofs,    \* refund numbers of the payment provider
    Outcomes,  \* what an executor reports to finishTopupRefund
    MaxClaims, \* bound: claims of one refund
    NoProof

ASSUME WalletAssumption ==
    /\ IsFiniteSet(Topups) /\ IsFiniteSet(Sales) /\ IsFiniteSet(Orders)
    /\ Price \in [Topups \cup Grants \cup Sales \cup Orders -> Nat \ {0}]
    /\ Outcomes \subseteq {"MANUAL_REQUIRED", "FAILED", "SUCCEEDED"}
    /\ MaxClaims \in Nat
    /\ NoProof \notin Proofs

VARIABLES
    wallet,  \* card_hour_wallets
    topup,   \* card_hour_topup_orders.status
    grant,   \* card_hour_trial_grants
    sale,    \* card_hour_order_payments.status
    hold,    \* card_hour_order_holds
    refund,  \* card_hour_topup_refunds
    ledger,  \* business keys of card_hour_ledger_batches
    req      \* executor requests in flight

vars == <<wallet, topup, grant, sale, hold, refund, ledger, req>>

NoRefund == [status |-> "NONE", by |-> "NONE", decider |-> "NONE", claims |-> 0,
             token |-> 0, old |-> FALSE, proof |-> NoProof]
Idle == [step |-> "idle"]

Init ==
    /\ wallet = [available |-> 0, held |-> 0, topup |-> 0, spent |-> 0]
    /\ topup = [t \in Topups |-> "PENDING"]
    /\ grant = [g \in Grants |-> [status |-> "NONE", by |-> "NONE", decider |-> "NONE"]]
    /\ sale = [s \in Sales |-> "NONE"]
    /\ hold = [o \in Orders |-> [status |-> "NONE", settled |-> 0]]
    /\ refund = [t \in Topups |-> NoRefund]
    /\ ledger = {}
    /\ req = [r \in Requests |-> Idle]

-----------------------------------------------------------------------------
(* Statements the batches share. A batch whose guard fails is rolled back. *)
Credited(n) == [wallet EXCEPT !.available = @ + n, !.topup = @ + n]
Locked(n)   == [wallet EXCEPT !.available = @ - n, !.held = @ + n]
Freed(n)    == [wallet EXCEPT !.available = @ + n, !.held = @ - n]
Destroyed(n) == [wallet EXCEPT !.held = @ - n]

Post(kind, id) ==
    /\ <<kind, id>> \notin ledger
    /\ ledger' = ledger \cup {<<kind, id>>}

-----------------------------------------------------------------------------
(* applyTopupEvent with a CAPTURED event.                                  *)
Capture(t) ==
    /\ topup[t] = "PENDING"
    /\ topup' = [topup EXCEPT ![t] = "CAPTURED"]
    /\ wallet' = Credited(Price[t])
    /\ Post("topup", t)
    /\ UNCHANGED <<grant, sale, hold, refund, req>>

RequestGrant(g, a) ==
    /\ grant[g].status = "NONE"
    /\ grant' = [grant EXCEPT ![g].status = "REQUESTED", ![g].by = a]
    /\ UNCHANGED <<wallet, topup, sale, hold, refund, ledger, req>>

RejectGrant(g, a) ==
    /\ grant[g].status = "REQUESTED"
    /\ grant[g].by # a
    /\ grant' = [grant EXCEPT ![g].status = "REJECTED", ![g].decider = a]
    /\ UNCHANGED <<wallet, topup, sale, hold, refund, ledger, req>>

ApproveGrant(g, a) ==
    /\ grant[g].status = "REQUESTED"
    /\ grant[g].by # a
    /\ grant' = [grant EXCEPT ![g].status = "POSTED", ![g].decider = a]
    /\ wallet' = Credited(Price[g])
    /\ Post("trial-grant", g)
    /\ UNCHANGED <<topup, sale, hold, refund, req>>

(* captureOrder and the capture of a supply order.                         *)
PaySale(s) ==
    /\ sale[s] = "NONE"
    /\ wallet.available >= Price[s]
    /\ sale' = [sale EXCEPT ![s] = "CAPTURED"]
    /\ wallet' = [wallet EXCEPT !.available = @ - Price[s], !.spent = @ + Price[s]]
    /\ Post("order", s)
    /\ UNCHANGED <<topup, grant, hold, refund, req>>

-----------------------------------------------------------------------------
(* holdHostingOrder: money is set apart, no ledger batch is posted.        *)
HoldOrder(o) ==
    /\ hold[o].status = "NONE"
    /\ wallet.available >= Price[o]
    /\ hold' = [hold EXCEPT ![o].status = "HELD"]
    /\ wallet' = Locked(Price[o])
    /\ UNCHANGED <<topup, grant, sale, refund, ledger, req>>

(* settleHostingOrder, and resolveHostingDispute with SETTLE: n card-hours *)
(* are spent, the rest of the hold is free again.                          *)
SettleOrder(o, n) ==
    /\ hold[o].status = "HELD"
    /\ hold' = [hold EXCEPT ![o] = [status |-> "SETTLED", settled |-> n]]
    /\ wallet' = [wallet EXCEPT !.available = @ + (Price[o] - n),
                                !.held = @ - Price[o], !.spent = @ + n]
    /\ Post("order", o)
    /\ UNCHANGED <<topup, grant, sale, refund, req>>

(* releaseHostingOrder: a cancelled reservation; no ledger batch either.   *)
ReleaseOrder(o) ==
    /\ hold[o].status = "HELD"
    /\ hold' = [hold EXCEPT ![o].status = "RELEASED"]
    /\ wallet' = Freed(Price[o])
    /\ UNCHANGED <<topup, grant, sale, refund, ledger, req>>

(* refundFailedHostingOrder, and resolveHostingDispute with REFUND.        *)
RefundOrder(o) ==
    /\ hold[o].status = "HELD"
    /\ hold' = [hold EXCEPT ![o].status = "RELEASED"]
    /\ wallet' = Freed(Price[o])
    /\ Post("order-refund", o)
    /\ UNCHANGED <<topup, grant, sale, refund, req>>

-----------------------------------------------------------------------------
RequestRefund(t, a) ==
    /\ topup[t] = "CAPTURED"
    /\ refund[t].status = "NONE"
    /\ refund' = [refund EXCEPT ![t].status = "PENDING", ![t].by = a]
    /\ UNCHANGED <<wallet, topup, grant, sale, hold, ledger, req>>

DecideRefund(t, a, verdict) ==
    /\ refund[t].status = "PENDING"
    /\ refund[t].by # a
    /\ refund' = [refund EXCEPT ![t].status = verdict, ![t].decider = a]
    /\ UNCHANGED <<wallet, topup, grant, sale, hold, ledger, req>>

(* beginTopupRefund up to the batch. Its staleBefore is 120 s before the   *)
(* request began, so only the claim that is old now counts as stale later. *)
ReadRefund(r, t) ==
    /\ req[r] = Idle
    /\ \/ refund[t].status \in {"APPROVED", "FAILED"}
       \/ refund[t].status = "PROCESSING" /\ refund[t].old
    /\ req' = [req EXCEPT ![r] = [step |-> "claim", t |-> t,
                                  sawHold |-> <<"refund-hold", t>> \in ledger,
                                  stale |-> refund[t].token]]
    /\ UNCHANGED <<wallet, topup, grant, sale, hold, refund, ledger>>

Claimable(r, t) ==
    \/ refund[t].status \in {"APPROVED", "FAILED"}
    \/ refund[t].status = "PROCESSING" /\ refund[t].token = req[r].stale

Claimed(t) == [refund EXCEPT ![t].status = "PROCESSING", ![t].claims = @ + 1,
                             ![t].token = refund[t].claims + 1, ![t].old = FALSE]

(* Mutant: the hold is posted under a fresh key by whoever saw none.       *)
ClaimRefundUnkeyed(r, t) ==
    /\ req[r].step = "claim"
    /\ req[r].t = t
    /\ refund[t].claims < MaxClaims
    /\ Claimable(r, t)
    /\ refund' = Claimed(t)
    /\ \/ /\ req[r].sawHold
          /\ UNCHANGED <<wallet, ledger>>
       \/ /\ ~req[r].sawHold
          /\ wallet.available >= Price[t]
          /\ wallet' = Locked(Price[t])
          /\ ledger' = ledger \cup {<<"refund-hold", t>>}
    /\ req' = [req EXCEPT ![r] = [step |-> "execute", t |-> t, token |-> refund'[t].token]]
    /\ UNCHANGED <<topup, grant, sale, hold>>

(* The batch of beginTopupRefund: it takes the claim and, when no hold was *)
(* seen, sets the credited card-hours apart.                               *)
ClaimRefund(r, t) ==
    /\ req[r].step = "claim"
    /\ req[r].t = t
    /\ refund[t].claims < MaxClaims
    /\ Claimable(r, t)
    /\ refund' = Claimed(t)
    /\ \/ /\ req[r].sawHold
          /\ UNCHANGED <<wallet, ledger>>
       \/ /\ ~req[r].sawHold
          /\ wallet.available >= Price[t]
          /\ wallet' = Locked(Price[t])
          /\ Post("refund-hold", t)
    /\ req' = [req EXCEPT ![r] = [step |-> "execute", t |-> t, token |-> refund'[t].token]]
    /\ UNCHANGED <<topup, grant, sale, hold>>

(* The batch is rolled back, or the process stops: the request is over. An *)
(* executor that stops after its claim leaves the refund PROCESSING.       *)
Abort(r) ==
    /\ req[r].step # "idle"
    /\ req' = [req EXCEPT ![r] = Idle]
    /\ UNCHANGED <<wallet, topup, grant, sale, hold, refund, ledger>>

(* 120 s pass over a claim.                                                *)
ClaimAges(t) ==
    /\ refund[t].status = "PROCESSING"
    /\ ~refund[t].old
    /\ refund' = [refund EXCEPT ![t].old = TRUE]
    /\ UNCHANGED <<wallet, topup, grant, sale, hold, ledger, req>>

(* The statements that settle a refund: the held card-hours are destroyed, *)
(* the top-up is closed, and the provider's number is recorded once.       *)
Settles(t, p) ==
    /\ wallet.held >= Price[t]
    /\ topup[t] = "CAPTURED"
    /\ \A u \in Topups \ {t} : refund[u].proof # p
    /\ wallet' = Destroyed(Price[t])
    /\ topup' = [topup EXCEPT ![t] = "CLOSED"]
    /\ refund' = [refund EXCEPT ![t].status = "SUCCEEDED", ![t].token = 0,
                                ![t].old = FALSE, ![t].proof = p]
    /\ Post("refund-settle", t)

(* Mutant: finishTopupRefund trusts the caller's claim.                    *)
FinishRefundUnowned(r, t) ==
    /\ req[r].step = "execute"
    /\ req[r].t = t
    /\ \/ \E status \in Outcomes \ {"SUCCEEDED"} :
             /\ refund' = [refund EXCEPT ![t].status = status, ![t].token = 0, ![t].old = FALSE]
             /\ UNCHANGED <<wallet, topup, ledger>>
       \/ /\ "SUCCEEDED" \in Outcomes
          /\ \E p \in Proofs : Settles(t, p)
    /\ req' = [req EXCEPT ![r] = Idle]
    /\ UNCHANGED <<grant, sale, hold>>

(* finishTopupRefund: only the claim that is still on the row may report.  *)
FinishRefund(r, t) ==
    /\ req[r].step = "execute"
    /\ req[r].t = t
    /\ refund[t].status = "PROCESSING"
    /\ refund[t].token = req[r].token
    /\ \/ \E status \in Outcomes \ {"SUCCEEDED"} :
             /\ refund' = [refund EXCEPT ![t].status = status, ![t].token = 0, ![t].old = FALSE]
             /\ UNCHANGED <<wallet, topup, ledger>>
       \/ /\ "SUCCEEDED" \in Outcomes
          /\ \E p \in Proofs : Settles(t, p)
    /\ req' = [req EXCEPT ![r] = Idle]
    /\ UNCHANGED <<grant, sale, hold>>

(* confirmManualTopupRefund: the administrator who approved records the    *)
(* refund made in the merchant console.                                    *)
ConfirmManual(t, a, p) ==
    /\ refund[t].status = "MANUAL_REQUIRED"
    /\ refund[t].decider = a
    /\ Settles(t, p)
    /\ UNCHANGED <<grant, sale, hold, req>>

-----------------------------------------------------------------------------
Spending ==
    \/ \E t \in Topups : Capture(t)
    \/ \E g \in Grants, a \in Admins : RequestGrant(g, a) \/ RejectGrant(g, a) \/ ApproveGrant(g, a)
    \/ \E s \in Sales : PaySale(s)
    \/ \E o \in Orders : HoldOrder(o) \/ ReleaseOrder(o) \/ RefundOrder(o)
    \/ \E o \in Orders : \E n \in 1..Price[o] : SettleOrder(o, n)

Refunding ==
    \/ \E t \in Topups, a \in Admins :
          \/ RequestRefund(t, a)
          \/ DecideRefund(t, a, "APPROVED")
          \/ DecideRefund(t, a, "REJECTED")
          \/ \E p \in Proofs : ConfirmManual(t, a, p)
    \/ \E r \in Requests, t \in Topups : ReadRefund(r, t) \/ ClaimRefund(r, t) \/ FinishRefund(r, t)
    \/ \E r \in Requests : Abort(r)
    \/ \E t \in Topups : ClaimAges(t)

Next == Spending \/ Refunding

Spec == Init /\ [][Next]_vars

-----------------------------------------------------------------------------
RefundStatus == {"NONE", "PENDING", "APPROVED", "PROCESSING", "MANUAL_REQUIRED",
                 "SUCCEEDED", "FAILED", "REJECTED"}
Nobody == {"NONE"}

(* The balances are never negative, whatever orders and refunds compete    *)
(* for them (the CHECKs of card_hour_wallets never fire), and a claim      *)
(* token is on the row exactly while the refund is PROCESSING (the CHECK   *)
(* of card_hour_topup_refunds).                                            *)
TypeOK ==
    /\ wallet \in [available: Nat, held: Nat, topup: Nat, spent: Nat]
    /\ topup \in [Topups -> {"PENDING", "CAPTURED", "CLOSED"}]
    /\ grant \in [Grants -> [status: {"NONE", "REQUESTED", "REJECTED", "POSTED"},
                             by: Admins \cup Nobody, decider: Admins \cup Nobody]]
    /\ sale \in [Sales -> {"NONE", "CAPTURED"}]
    /\ hold \in [Orders -> [status: {"NONE", "HELD", "SETTLED", "RELEASED"}, settled: Nat]]
    /\ refund \in [Topups -> [status: RefundStatus, by: Admins \cup Nobody,
                              decider: Admins \cup Nobody, claims: 0..MaxClaims,
                              token: 0..MaxClaims, old: BOOLEAN, proof: Proofs \cup {NoProof}]]
    /\ \A t \in Topups : refund[t].status = "PROCESSING" <=> refund[t].token # 0

Worth(S) == MapThenSumSet(LAMBDA x : Price[x], S)
Settled  == MapThenSumSet(LAMBDA o : hold[o].settled, Orders)
Posted(kind, S) == {x \in S : <<kind, x>> \in ledger}

(* held_micros is one number shared by hosting orders and refunds. It is   *)
(* exactly the money of the open hosting holds and of the refunds whose    *)
(* hold is posted and not yet settled: no executor, however late or often  *)
(* it retries, sets the same top-up apart twice, and no refund is settled  *)
(* with the money an order holds.                                          *)
HeldIsExplained ==
    wallet.held = Worth({o \in Orders : hold[o].status = "HELD"})
                  + Worth(Posted("refund-hold", Topups) \ Posted("refund-settle", Topups))

(* Card-hours are neither made nor lost: what was credited is available,   *)
(* held, spent on an order, or destroyed with the top-up it came from, and *)
(* lifetime_spent_micros is what the orders cost.                          *)
Conserved ==
    /\ wallet.available + wallet.held + wallet.spent
           = wallet.topup - Worth({t \in Topups : topup[t] = "CLOSED"})
    /\ wallet.spent = Worth({s \in Sales : sale[s] = "CAPTURED"}) + Settled

(* Both together: every card-hour of the wallet is accounted for, whatever *)
(* interleaves.                                                            *)
WalletIsExplained == HeldIsExplained /\ Conserved

(* A refund, its money and its top-up agree: card-hours are set apart from *)
(* the first claim on and never for a refund that is not approved, and     *)
(* they are destroyed once, when the refund has succeeded and the top-up   *)
(* is closed. A top-up refunded to the customer cannot be spent as well.   *)
RefundFollowsMoney ==
    \A t \in Topups :
        /\ <<"refund-hold", t>> \in ledger <=>
               refund[t].status \in {"PROCESSING", "MANUAL_REQUIRED", "FAILED", "SUCCEEDED"}
        /\ <<"refund-settle", t>> \in ledger <=> refund[t].status = "SUCCEEDED"
        /\ topup[t] = "CLOSED" <=> refund[t].status = "SUCCEEDED"

(* Card-hours are given or taken back only where two administrators agreed. *)
DualControl ==
    /\ \A t \in Posted("refund-hold", Topups) :
           refund[t].by \in Admins /\ refund[t].decider \in Admins \ {refund[t].by}
    /\ \A g \in Posted("trial-grant", Grants) :
           grant[g].by \in Admins /\ grant[g].decider \in Admins \ {grant[g].by}

(* One refund at the payment provider settles one top-up.                  *)
ProofsAreUnique ==
    \A t, u \in Topups :
        refund[t].proof = refund[u].proof /\ refund[t].proof # NoProof => t = u

(* The three together: a refund is decided by two, paid once, and proved   *)
(* by a transfer of its own.                                               *)
RefundsAreControlled == RefundFollowsMoney /\ DualControl /\ ProofsAreUnique

(* Between hosting orders, when none holds money, the accounts             *)
(* USER_AVAILABLE and USER_HELD of the double-entry ledger show what the   *)
(* wallet shows. The entries of each batch: a sale debits AVAILABLE, the   *)
(* settlement of a hosting order debits HELD by what it settled, a         *)
(* refunded order and the hold of a top-up refund move between the two.    *)
(* The code does not keep this one: see "Disagreements" in the README.     *)
LedgerExplainsWallet ==
    (\A o \in Orders : hold[o].status # "HELD") =>
        /\ wallet.available = Worth(Posted("topup", Topups)) + Worth(Posted("trial-grant", Grants))
                              - Worth(Posted("order", Sales)) + Worth(Posted("order-refund", Orders))
                              - Worth(Posted("refund-hold", Topups))
        /\ wallet.held = Worth(Posted("refund-hold", Topups)) - Worth(Posted("refund-settle", Topups))
                         - Settled - Worth(Posted("order-refund", Orders))
=============================================================================
