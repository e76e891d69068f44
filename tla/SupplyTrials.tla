---------------------------- MODULE SupplyTrials ----------------------------
(* Delivery of paid trial orders and the refund of what Alipay captured, on *)
(* top of SupplyPayments: the five routes that drive the SSH provisioner    *)
(* and then write order and delivery in separate batches, and the refund a  *)
(* second administrator approves and an executor carries out under a claim  *)
(* that goes stale after five minutes (admin-refund-executor.ts,            *)
(* admin-store-core.ts).                                                    *)
(*                                                                          *)
(* A request may end between any two of its steps. Whether an order's       *)
(* window has begun and its credential still holds is not modelled: those   *)
(* tests can only refuse a start. A buyer submits one key.                  *)
EXTENDS SupplyPayments

CONSTANTS
    Amounts,   \* what a refund may be asked for
    Admins,    \* administrators
    MaxClaims  \* bound: executions of one refund

ASSUME TrialsAssumption == Amounts \subseteq 1..Total /\ MaxClaims \in Nat

VARIABLES
    receipts, \* steps of the key route on record, by order
    node,     \* what the SSH provisioner holds for an order
    refund,   \* admin_approvals with admin_refund_executions, by request id
    returned  \* refunds Alipay has made

trialVars == <<order, late, alloc, delivery, check, payVars, trialReq, receipts, node, refund, returned>>
deliveryVars == <<receipts, node>>
refundVars == <<refund, returned>>

NoRefund == [status |-> "NONE", o |-> "NONE", amount |-> 0, by |-> "NONE", decider |-> "NONE",
             run |-> "NONE", claims |-> 0, token |-> 0, old |-> FALSE]

TrialsInit ==
    /\ PaymentsInit
    /\ receipts = [o \in TrialOrders |-> {}]
    /\ node = [o \in TrialOrders |-> "none"]
    /\ refund = [c \in Refs |-> NoRefund]
    /\ returned = {}

-----------------------------------------------------------------------------
(* transitionTrialOrder and updateTrialDelivery compare the version the    *)
(* caller read, which is comparing the status.                             *)
MoveOrder(o, from, to, hours) ==
    /\ order[o] = from
    /\ order' = [order EXCEPT ![o] = to]
    /\ alloc' = [alloc EXCEPT ![o] = hours]

MoveDelivery(o, from, to) ==
    /\ delivery[o] = from
    /\ delivery' = [delivery EXCEPT ![o] = to]

Ends(w)       == trialReq' = [trialReq EXCEPT ![w] = Idle]
Goes(w, step) == trialReq' = [trialReq EXCEPT ![w].step = step]
Begins(w, step, o) == trialReq[w] = Idle /\ trialReq' = [trialReq EXCEPT ![w] = [step |-> step, o |-> o]]

(* A request stops: a test fails, an answer is lost, or the process dies.  *)
Stop(w) ==
    /\ trialReq[w] # Idle
    /\ Ends(w)
    /\ UNCHANGED <<order, late, alloc, delivery, check, payVars, deliveryVars, refundVars>>

(* POST ssh-key: reads a paid order, installs the key, and moves order,    *)
(* delivery, delivery and order in four batches. Their receipts carry the  *)
(* key, so another request with the same key passes what is done.          *)
ReadForKey(w, o) ==
    /\ order[o] = "PAID"
    /\ delivery[o] = "AWAITING_KEY"
    /\ Begins(w, "register", o)
    /\ UNCHANGED <<order, late, alloc, delivery, check, payVars, deliveryVars, refundVars>>

RegisterKey(w) ==
    /\ trialReq[w].step = "register"
    /\ node' = [node EXCEPT ![trialReq[w].o] = IF @ = "none" THEN "key" ELSE @]
    /\ Goes(w, "provisioning")
    /\ UNCHANGED <<order, late, alloc, delivery, check, payVars, receipts, refundVars>>

Passes(w, step) == step \in receipts[trialReq[w].o] /\ UNCHANGED <<order, alloc, delivery, receipts>>
Records(w, step) == receipts' = [receipts EXCEPT ![trialReq[w].o] = @ \cup {step}]

OrderProvisioning(w) ==
    /\ trialReq[w].step = "provisioning"
    /\ \/ Passes(w, "provisioning")
       \/ /\ MoveOrder(trialReq[w].o, "PAID", "PROVISIONING", "LOCKED")
          /\ Records(w, "provisioning")
          /\ UNCHANGED delivery
    /\ Goes(w, "preparing")
    /\ UNCHANGED <<late, check, payVars, node, refundVars>>

DeliveryProvisioning(w) ==
    /\ trialReq[w].step = "preparing"
    /\ \/ Passes(w, "preparing")
       \/ /\ MoveDelivery(trialReq[w].o, "AWAITING_KEY", "PROVISIONING")
          /\ Records(w, "preparing")
          /\ UNCHANGED <<order, alloc>>
    /\ Goes(w, "ready")
    /\ UNCHANGED <<late, check, payVars, node, refundVars>>

DeliveryReady(w) ==
    /\ trialReq[w].step = "ready"
    /\ \/ Passes(w, "ready")
       \/ /\ MoveDelivery(trialReq[w].o, "PROVISIONING", "READY")
          /\ Records(w, "ready")
          /\ UNCHANGED <<order, alloc>>
    /\ Goes(w, "delivered")
    /\ UNCHANGED <<late, check, payVars, node, refundVars>>

OrderDelivered(w) ==
    /\ trialReq[w].step = "delivered"
    /\ \/ Passes(w, "delivered")
       \/ /\ MoveOrder(trialReq[w].o, "PROVISIONING", "DELIVERED", "LOCKED")
          /\ Records(w, "delivered")
          /\ UNCHANGED delivery
    /\ Ends(w)
    /\ UNCHANGED <<late, check, payVars, node, refundVars>>

(* POST connection-check: what the probe reports is recorded when it is    *)
(* known, whatever has become of the order meanwhile.                      *)
ReadForCheck(w, o) ==
    /\ order[o] = "DELIVERED"
    /\ delivery[o] = "READY"
    /\ Begins(w, "probing", o)
    /\ UNCHANGED <<order, late, alloc, delivery, check, payVars, deliveryVars, refundVars>>

RecordCheck(w, result) ==
    /\ trialReq[w].step = "probing"
    /\ check' = [check EXCEPT ![trialReq[w].o] = result]
    /\ Ends(w)
    /\ UNCHANGED <<order, late, alloc, delivery, payVars, deliveryVars, refundVars>>

(* POST service-start, service-complete, cleanup: read, tell the node,     *)
(* move the delivery, move the order.                                      *)
ReadForStart(w, o) ==
    /\ order[o] = "DELIVERED"
    /\ delivery[o] = "READY"
    /\ check[o] = "PASSED"
    /\ Begins(w, "start", o)
    /\ UNCHANGED <<order, late, alloc, delivery, check, payVars, deliveryVars, refundVars>>

ReadForStop(w, o) ==
    /\ order[o] = "IN_SERVICE"
    /\ delivery[o] = "IN_SERVICE"
    /\ Begins(w, "stop", o)
    /\ UNCHANGED <<order, late, alloc, delivery, check, payVars, deliveryVars, refundVars>>

(* Mutant: cleanup does not wait for the order to be completed.            *)
ReadForCleanupEarly(w, o) ==
    /\ delivery[o] = "CLEANING"
    /\ Begins(w, "clean", o)
    /\ UNCHANGED <<order, late, alloc, delivery, check, payVars, deliveryVars, refundVars>>

ReadForCleanup(w, o) ==
    /\ order[o] = "COMPLETED"
    /\ delivery[o] = "CLEANING"
    /\ Begins(w, "clean", o)
    /\ UNCHANGED <<order, late, alloc, delivery, check, payVars, deliveryVars, refundVars>>

(* The provisioner is not in the repository: it is taken to refuse a       *)
(* command that would bring an order's node back to an earlier state.      *)
TellNode(w) ==
    LET o == trialReq[w].o
    IN /\ \/ trialReq[w].step = "start" /\ node[o] \in {"key", "running"}
             /\ node' = [node EXCEPT ![o] = "running"] /\ Goes(w, "started")
          \/ trialReq[w].step = "stop" /\ node[o] \in {"running", "stopped"}
             /\ node' = [node EXCEPT ![o] = "stopped"] /\ Goes(w, "stopped")
          \/ trialReq[w].step = "clean" /\ node[o] \in {"stopped", "clean"}
             /\ node' = [node EXCEPT ![o] = "clean"] /\ Goes(w, "cleaned")
       /\ UNCHANGED <<order, late, alloc, delivery, check, payVars, receipts, refundVars>>

DeliveryFollows(w) ==
    /\ \/ /\ trialReq[w].step = "started"
          /\ MoveDelivery(trialReq[w].o, "READY", "IN_SERVICE")
          /\ Goes(w, "serving")
       \/ /\ trialReq[w].step = "stopped"
          /\ MoveDelivery(trialReq[w].o, "IN_SERVICE", "CLEANING")
          /\ Goes(w, "completing")
    /\ UNCHANGED <<order, late, alloc, check, payVars, deliveryVars, refundVars>>

OrderFollows(w) ==
    /\ \/ trialReq[w].step = "serving" /\ MoveOrder(trialReq[w].o, "DELIVERED", "IN_SERVICE", "IN_SERVICE")
       \/ trialReq[w].step = "completing" /\ MoveOrder(trialReq[w].o, "IN_SERVICE", "COMPLETED", "LOCKED")
    /\ Ends(w)
    /\ UNCHANGED <<late, delivery, check, payVars, deliveryVars, refundVars>>

CleanupFollows(w) ==
    /\ trialReq[w].step = "cleaned"
    /\ MoveDelivery(trialReq[w].o, "CLEANING", "COMPLETED")
    /\ alloc' = [alloc EXCEPT ![trialReq[w].o] = IF @ \in {"LOCKED", "IN_SERVICE"} THEN "RELEASED" ELSE @]
    /\ Ends(w)
    /\ UNCHANGED <<order, late, check, payVars, deliveryVars, refundVars>>

-----------------------------------------------------------------------------
(* requestRefund and decideRefund.                                         *)
RequestRefund(c, a, o, n) ==
    /\ refund[c].status = "NONE"
    /\ payment[o].status \in {"CAPTURED", "REFUND_PENDING"}
    /\ refund' = [refund EXCEPT ![c].status = "PENDING", ![c].o = o, ![c].amount = n, ![c].by = a]
    /\ UNCHANGED <<order, late, alloc, delivery, check, payVars, trialReq, deliveryVars, returned>>

DecideRefund(c, a, verdict) ==
    /\ refund[c].status = "PENDING"
    /\ refund[c].by # a
    /\ refund' = [refund EXCEPT ![c].status = verdict, ![c].decider = a]
    /\ UNCHANGED <<order, late, alloc, delivery, check, payVars, trialReq, deliveryVars, returned>>

(* Mutant: the trigger that keeps one execution per order is missing.      *)
ClaimableAlongside(c) ==
    \/ refund[c].run \in {"NONE", "FAILED"}
    \/ refund[c].run = "PROCESSING" /\ refund[c].old

Claimable(c) ==
    /\ \/ refund[c].run \in {"NONE", "FAILED"}
       \/ refund[c].run = "PROCESSING" /\ refund[c].old
    /\ \A d \in Refs \ {c} : ~(refund[d].o = refund[c].o /\ refund[d].run = "PROCESSING")

(* beginRefundExecution, by anybody but who asked for the refund.          *)
ClaimRefund(w, c, a) ==
    /\ trialReq[w] = Idle
    /\ refund[c].status = "APPROVED"
    /\ refund[c].by # a
    /\ refund[c].claims < MaxClaims
    /\ Claimable(c)
    /\ refund' = [refund EXCEPT ![c].run = "PROCESSING", ![c].claims = @ + 1,
                                ![c].token = refund[c].claims + 1, ![c].old = FALSE]
    /\ trialReq' = [trialReq EXCEPT ![w] = [step |-> "claimed", o |-> refund[c].o, c |-> c,
                                  token |-> refund[c].claims + 1]]
    /\ UNCHANGED <<order, late, alloc, delivery, check, payVars, deliveryVars, returned>>

ClaimAges(c) ==
    /\ refund[c].run = "PROCESSING"
    /\ ~refund[c].old
    /\ refund' = [refund EXCEPT ![c].old = TRUE]
    /\ UNCHANGED <<order, late, alloc, delivery, check, payVars, trialReq, deliveryVars, returned>>

OnRecord(o, c) == \E e \in payEvents[o] : e.ref = c
Left(o) == Total - Refunded(payEvents[o])

(* The executor reads the order; it goes to Alipay only with an amount     *)
(* that is left, and never for a refund that is on record.                 *)
Refundable(o, c) ==
    /\ payment[o].provider = "ALIPAY"
    /\ payment[o].status \in {"CAPTURED", "REFUND_PENDING"}
    /\ refund[c].amount <= Left(o)

ReadForRefund(w) ==
    /\ trialReq[w].step = "claimed"
    /\ LET o == trialReq[w].o
           c == trialReq[w].c
       IN \/ OnRecord(o, c) /\ Goes(w, "succeeded")
          \/ /\ ~OnRecord(o, c)
             /\ ~Refundable(o, c)
             /\ Goes(w, "failed")
          \/ /\ ~OnRecord(o, c)
             /\ Refundable(o, c)
             /\ trialReq' = [trialReq EXCEPT ![w] = [step |-> "paying", o |-> o, c |-> c, token |-> trialReq[w].token,
                    event |-> [type |-> IF refund[c].amount = Left(o) THEN "REFUNDED_FULL"
                                        ELSE "REFUNDED_PARTIAL",
                               ref |-> c, amount |-> refund[c].amount]]]
    /\ UNCHANGED <<order, late, alloc, delivery, check, payVars, deliveryVars, refundVars>>

Sum(S) == MapThenSumSet(LAMBDA c : refund[c].amount, S)
Returned(o) == Sum({c \in returned : refund[c].o = o})

(* Alipay makes a refund once per request id, never beyond the amount of   *)
(* the trade, and closes a trade that is refunded whole. The answer may be *)
(* lost, and the refund refused.                                           *)
CallAlipay(w) ==
    /\ trialReq[w].step = "paying"
    /\ LET o == trialReq[w].o
           c == trialReq[w].c
           fits == c \in returned \/ Returned(o) + refund[c].amount <= Total
       IN \/ /\ fits
             /\ returned' = returned \cup {c}
             /\ alipay' = [alipay EXCEPT ![o] =
                    IF Sum({d \in returned' : refund[d].o = o}) = Total THEN "closed" ELSE @]
             /\ \E answer \in {"returned", "failed"} : Goes(w, answer)
          \/ Goes(w, "failed") /\ UNCHANGED <<returned, alipay>>
    /\ UNCHANGED <<order, late, alloc, delivery, check, payment, payEvents, debit, deliveryVars, refund>>

(* applyTrialPaymentEvent(REFUNDED) up to its batch.                       *)
ReadForEvent(w) ==
    /\ trialReq[w].step = "returned"
    /\ LET o == trialReq[w].o
           c == trialReq[w].c
           fits == /\ payment[o].status \in {"CAPTURED", "REFUND_PENDING"}
                   /\ refund[c].amount <= Left(o)
       IN \/ OnRecord(o, c) /\ Goes(w, "succeeded")
          \/ ~OnRecord(o, c) /\ ~fits /\ Goes(w, "failed")
          \/ /\ ~OnRecord(o, c)
             /\ fits
             /\ trialReq' = [trialReq EXCEPT ![w] = [step |-> "recording", o |-> o, c |-> c,
                            token |-> trialReq[w].token, event |-> trialReq[w].event, saw |-> Seen(o)]]
    /\ UNCHANGED <<order, late, alloc, delivery, check, payVars, deliveryVars, refundVars>>

RecordRefund(w) ==
    /\ trialReq[w].step = "recording"
    /\ \/ /\ Post(trialReq[w].o, trialReq[w].event, trialReq[w].saw)
          /\ Goes(w, "succeeded")
       \/ /\ ~Postable(trialReq[w].o, trialReq[w].event, trialReq[w].saw)
          /\ Goes(w, IF OnRecord(trialReq[w].o, trialReq[w].c) THEN "succeeded" ELSE "failed")
          /\ UNCHANGED <<order, alloc, delivery, payment, payEvents>>
    /\ UNCHANGED <<late, check, debit, alipay, deliveryVars, refundVars>>

(* finishRefundExecution: only the claim that is still on the row reports. *)
(* A success whose report does not get through is reported as a failure.   *)
FinishRefund(w, result) ==
    /\ trialReq[w].step \in {"succeeded", "failed"}
    /\ result \in {"SUCCEEDED", "FAILED"}
    /\ result = "SUCCEEDED" => trialReq[w].step = "succeeded"
    /\ refund[trialReq[w].c].run = "PROCESSING"
    /\ refund[trialReq[w].c].token = trialReq[w].token
    /\ refund' = [refund EXCEPT ![trialReq[w].c].old = FALSE, ![trialReq[w].c].run = result]
    /\ Ends(w)
    /\ UNCHANGED <<order, late, alloc, delivery, check, payVars, deliveryVars, returned>>

-----------------------------------------------------------------------------
TrialsNext ==
    \/ \E o \in TrialOrders : CreateOrder(o) /\ UNCHANGED <<deliveryVars, refundVars>>
    \/ \E o \in TrialOrders : HoldExpires(o) /\ UNCHANGED <<deliveryVars, refundVars>>
    \/ \E o \in TrialOrders : EnsurePayment(o) /\ UNCHANGED <<deliveryVars, refundVars>>
    \/ \E o \in TrialOrders : BuyerPays(o) /\ UNCHANGED <<deliveryVars, refundVars>>
    \/ \E o \in TrialOrders : TradeTimesOut(o) /\ UNCHANGED <<deliveryVars, refundVars>>
    \/ \E w \in Workers, o \in TrialOrders : Notify(w, o) /\ UNCHANGED <<deliveryVars, refundVars>>
    \/ \E w \in Workers : PostNotified(w) /\ UNCHANGED <<deliveryVars, refundVars>>
    \/ \E w \in Workers, o \in TrialOrders : ReadFacts(w, o) /\ UNCHANGED <<deliveryVars, refundVars>>
    \/ \E w \in Workers : Settle(w) /\ UNCHANGED <<deliveryVars, refundVars>>
    \/ \E w \in Workers, o \in TrialOrders : ReadForKey(w, o)
    \/ \E w \in Workers, o \in TrialOrders : ReadForCheck(w, o)
    \/ \E w \in Workers, o \in TrialOrders : ReadForStart(w, o)
    \/ \E w \in Workers, o \in TrialOrders : ReadForStop(w, o)
    \/ \E w \in Workers, o \in TrialOrders : ReadForCleanup(w, o)
    \/ \E w \in Workers : RegisterKey(w)
    \/ \E w \in Workers : OrderProvisioning(w)
    \/ \E w \in Workers : DeliveryProvisioning(w)
    \/ \E w \in Workers : DeliveryReady(w)
    \/ \E w \in Workers : OrderDelivered(w)
    \/ \E w \in Workers, result \in {"PASSED", "FAILED"} : RecordCheck(w, result)
    \/ \E w \in Workers : TellNode(w)
    \/ \E w \in Workers : DeliveryFollows(w)
    \/ \E w \in Workers : OrderFollows(w)
    \/ \E w \in Workers : CleanupFollows(w)
    \/ \E c \in Refs, a \in Admins, o \in TrialOrders, n \in Amounts : RequestRefund(c, a, o, n)
    \/ \E c \in Refs, a \in Admins, verdict \in {"APPROVED", "REJECTED"} : DecideRefund(c, a, verdict)
    \/ \E w \in Workers, c \in Refs, a \in Admins : ClaimRefund(w, c, a)
    \/ \E c \in Refs : ClaimAges(c)
    \/ \E w \in Workers : ReadForRefund(w)
    \/ \E w \in Workers : CallAlipay(w)
    \/ \E w \in Workers : ReadForEvent(w)
    \/ \E w \in Workers : RecordRefund(w)
    \/ \E w \in Workers, result \in {"SUCCEEDED", "FAILED"} : FinishRefund(w, result)
    \/ \E w \in Workers : Stop(w)

TrialsSpec == TrialsInit /\ [][TrialsNext]_trialVars

-----------------------------------------------------------------------------
OrderStatus == {"NONE", "PAYMENT_PENDING", "PAID", "PROVISIONING", "DELIVERED", "IN_SERVICE",
                "COMPLETED", "REFUND_PENDING", "REFUNDED"}
DeliveryStatus == {"NONE", "AWAITING_PAYMENT", "AWAITING_KEY", "PROVISIONING", "READY", "IN_SERVICE",
                   "CLEANING", "COMPLETED"}
Event == [type : {"CAPTURED", "CLOSED"} \cup RefundTypes, ref : Refs \cup {"notify", "card-hours"},
          amount : 1..Total]

(* The types of the tables, the provisioner and Alipay.                    *)
TrialsTypeOK ==
    /\ order \in [TrialOrders -> OrderStatus]
    /\ late \in [TrialOrders -> BOOLEAN]
    /\ alloc \in [TrialOrders -> Counted \cup {"NONE", "CANCELLED"}]
    /\ delivery \in [TrialOrders -> DeliveryStatus]
    /\ check \in [TrialOrders -> {"NONE", "PASSED", "FAILED"}]
    /\ payment \in [TrialOrders -> [status : {"NONE", "PENDING", "CAPTURED", "CLOSED", "REFUND_PENDING", "REFUNDED"},
                               provider : {"NONE", "ALIPAY", "KAI_CARD_HOUR"}]]
    /\ \A o \in TrialOrders : payEvents[o] \subseteq Event
    /\ debit \in [TrialOrders -> {"NONE", "CAPTURED"}]
    /\ alipay \in [TrialOrders -> {"none", "open", "paid", "closed"}]
    /\ receipts \in [TrialOrders -> SUBSET {"provisioning", "preparing", "ready", "delivered"}]
    /\ node \in [TrialOrders -> {"none", "key", "running", "stopped", "clean"}]
    /\ \A c \in Refs : /\ refund[c].run \in {"NONE", "PROCESSING", "FAILED", "SUCCEEDED"}
                       /\ refund[c].token = refund[c].claims
    /\ returned \subseteq Refs

InUse(o) == node[o] \in {"key", "running", "stopped"}

(* The hours of the node are sold once, and nobody is on the node without  *)
(* holding its hours, from the first key that is installed until what the  *)
(* buyer left is wiped, unless a refund took the hours back while the key  *)
(* was being installed; hours are given back only by a node that is clean. *)
NodeIsExclusive ==
    /\ TrialsTypeOK
    /\ \A o, p \in TrialOrders : o # p /\ Overlap(o, p) =>
          /\ ~(alloc[o] \in Occupying /\ alloc[p] \in Occupying)
          /\ InUse(o) /\ InUse(p) => "REFUNDED" \in {order[o], order[p]}
    /\ \A o \in TrialOrders :
          /\ InUse(o) /\ order[o] # "REFUNDED" => alloc[o] \in {"LOCKED", "IN_SERVICE"}
          /\ node[o] = "running" => delivery[o] \in {"READY", "IN_SERVICE"}
          /\ alloc[o] = "RELEASED" => node[o] = "clean" /\ order[o] = "COMPLETED"
    /\ HoursSold <= MaxHours
    /\ Cardinality({o \in TrialOrders : order[o] # "NONE"}) <= MaxBuyers

RefundedTo(o) == Refunded(payEvents[o])

(* However claims go stale, answers are lost and executors overlap: one    *)
(* execution of an order runs at a time, every refund on record was made   *)
(* at Alipay and by two administrators, a case that succeeded is on        *)
(* record, a payment that says REFUNDED has its whole amount on record,    *)
(* and hours given back mean that all the money is.                        *)
RefundsAreSound ==
    /\ \A c \in Refs :
          /\ \A d \in Refs \ {c} : ~(/\ refund[c].run = "PROCESSING" /\ refund[d].run = "PROCESSING"
                                     /\ refund[c].o = refund[d].o)
          /\ refund[c].claims > 0 => refund[c].by # refund[c].decider /\ refund[c].status = "APPROVED"
          /\ refund[c].run = "SUCCEEDED" => c \in returned /\ OnRecord(refund[c].o, c)
    /\ \A o \in TrialOrders :
          /\ \A e \in payEvents[o] : e.type \in RefundTypes => e.ref \in returned /\ refund[e.ref].o = o
          /\ payment[o] = [status |-> "REFUNDED", provider |-> "ALIPAY"] => RefundedTo(o) = Total
          /\ order[o] = "REFUNDED" => RefundedTo(o) = Total

(* An order is paid once, in one way, before anything is delivered for it; *)
(* and the recovery script would repair exactly what the older release can *)
(* have left half done: its repair is recognised as one when it looks      *)
(* again, and it never decides to touch any other order.                   *)
PaidOnceOrRepairable ==
    \A o \in TrialOrders :
        LET paid == debit[o] = "CAPTURED"
            f    == Facts(o)
        IN /\ paid => \A e \in payEvents[o] : e.ref # "notify"
           /\ delivery[o] \notin {"NONE", "AWAITING_PAYMENT"} =>
                 Cardinality({e \in payEvents[o] : e.type = "CAPTURED"}) = 1
           /\ Classify(f) \in {"COMPLETE_CAPTURE", "REVERSE_UNDELIVERED"} =>
                 /\ o \in HalfPaid
                 /\ Classify(Recover(f)) \in {"COMPLETE", "REVERSED"}
           /\ o \notin HalfPaid /\ paid /\ payment[o].status = "CAPTURED" => Classify(f) = "COMPLETE"
=============================================================================
