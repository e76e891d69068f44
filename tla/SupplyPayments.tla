--------------------------- MODULE SupplyPayments ---------------------------
(* Trial orders of an H100 node: the reservation of its hours, the payment  *)
(* by Alipay or in card-hours, and the classification that the recovery     *)
(* script makes of what an order's rows say (supply-store-core.ts,          *)
(* supply-card-hour-settlement.ts, supply-card-hour-recovery.ts, the Alipay *)
(* callback).                                                               *)
(*                                                                          *)
(* A buyer places one order ever, so an order stands for its buyer. Orders  *)
(* and deliveries never return to a status they have left, so comparing     *)
(* their versions is comparing their statuses; the version of a payment is  *)
(* the number of its events. The commission of a card-hour payment is       *)
(* written and reversed with the debit and is not kept apart from it.       *)
EXTENDS Integers, FiniteSets, FiniteSetsExt

CONSTANTS
    TrialOrders,  \* buyers, each with the order it may place on the node
    Slots,        \* the hours of the node an order asks for
    MaxHours,     \* hours a promotion sells (80)
    MaxBuyers,    \* buyers of the pool (10)
    AlipayTrials, \* orders paid by Alipay: their payment row was made for it
    HalfPaid,     \* orders the release that captured in two steps may have debited
    Total,        \* what an order costs
    Refs,         \* stable request ids of refunds
    Workers       \* requests running at once

ASSUME SupplyAssumption ==
    /\ MaxHours \in Nat /\ MaxBuyers \in Nat /\ Total \in Nat \ {0}
    /\ AlipayTrials \subseteq TrialOrders
    /\ HalfPaid \subseteq TrialOrders \ AlipayTrials
    /\ {"notify", "card-hours", "recovery"} \cap Refs = {}

VARIABLES
    order,     \* supply_trial_orders.status
    late,      \* expires_at has passed
    alloc,     \* supply_allocation_bindings.status
    delivery,  \* supply_trial_deliveries.status
    check,     \* latest row of supply_trial_connection_checks
    payment,   \* supply_trial_payments
    payEvents, \* supply_trial_payment_events
    debit,     \* card_hour_order_payments.status
    alipay,    \* the trade at Alipay
    trialReq   \* requests in flight

payVars == <<payment, payEvents, debit, alipay>>

Idle == [step |-> "idle"]
NoPayment == [status |-> "NONE", provider |-> "NONE"]
Captured == [type |-> "CAPTURED", ref |-> "card-hours", amount |-> Total]

(* What the release that debited first and captured later could leave.     *)
HalfCaptured ==
    [order : {"PAYMENT_PENDING"}, alloc : {"RESERVED"}, late : BOOLEAN, events : {{}},
     payment : {NoPayment, [status |-> "PENDING", provider |-> "KAI_CARD_HOUR"]}]
    \cup
    [order : {"REFUND_PENDING"}, alloc : {"LOCKED"}, late : {TRUE}, events : {{Captured}},
     payment : {[status |-> "REFUND_PENDING", provider |-> "KAI_CARD_HOUR"]}]

PaymentsInit ==
    \E old \in SUBSET HalfPaid : \E half \in [old -> HalfCaptured] :
        /\ order = [o \in TrialOrders |-> IF o \in old THEN half[o].order ELSE "NONE"]
        /\ late = [o \in TrialOrders |-> o \in old /\ half[o].late]
        /\ alloc = [o \in TrialOrders |-> IF o \in old THEN half[o].alloc ELSE "NONE"]
        /\ payment = [o \in TrialOrders |-> IF o \in old THEN half[o].payment ELSE NoPayment]
        /\ payEvents = [o \in TrialOrders |-> IF o \in old THEN half[o].events ELSE {}]
        /\ delivery = [o \in TrialOrders |-> IF o \in old THEN "AWAITING_PAYMENT" ELSE "NONE"]
        /\ debit = [o \in TrialOrders |-> IF o \in old THEN "CAPTURED" ELSE "NONE"]
        /\ check = [o \in TrialOrders |-> "NONE"]
        /\ alipay = [o \in TrialOrders |-> "none"]
        /\ trialReq = [w \in Workers |-> Idle]

-----------------------------------------------------------------------------
(* Mutant: a node in service does not count as occupied.                   *)
OccupyingUntilService == {"RESERVED", "LOCKED"}
Occupying == {"RESERVED", "LOCKED", "IN_SERVICE"}
Counted   == {"RESERVED", "LOCKED", "IN_SERVICE", "RELEASED"}
Overlap(o, p) == Slots[o] \cap Slots[p] # {}
HoursOf(S) == MapThenSumSet(LAMBDA o : Cardinality(Slots[o]), S)
HoursSold == HoursOf({o \in TrialOrders : alloc[o] \in Counted})

(* What the former release reserved had passed the tests of CreateOrder.   *)
ASSUME HalfPaidAssumption ==
    /\ IsFiniteSet(TrialOrders) /\ \A o \in TrialOrders : IsFiniteSet(Slots[o])
    /\ \A o, p \in HalfPaid : o # p => ~Overlap(o, p)
    /\ HoursOf(HalfPaid) <= MaxHours
    /\ Cardinality(HalfPaid) <= MaxBuyers

(* createTrialOrder: its batch repeats every test of the reads before it.  *)
CreateOrder(o) ==
    /\ order[o] = "NONE"
    /\ HoursSold + Cardinality(Slots[o]) <= MaxHours
    /\ Cardinality({p \in TrialOrders : order[p] # "NONE"}) < MaxBuyers
    /\ \A p \in TrialOrders : alloc[p] \in Occupying => ~Overlap(o, p)
    /\ order' = [order EXCEPT ![o] = "PAYMENT_PENDING"]
    /\ alloc' = [alloc EXCEPT ![o] = "RESERVED"]
    /\ delivery' = [delivery EXCEPT ![o] = "AWAITING_PAYMENT"]
    /\ UNCHANGED <<late, check, payVars, trialReq>>

(* 15 minutes pass. Nothing releases the hours of an order nobody paid.    *)
HoldExpires(o) ==
    /\ order[o] = "PAYMENT_PENDING"
    /\ ~late[o]
    /\ late' = [late EXCEPT ![o] = TRUE]
    /\ UNCHANGED <<order, alloc, delivery, check, payVars, trialReq>>

-----------------------------------------------------------------------------
(* ensureTrialPayment for Alipay. No route calls it any more, its rows are *)
(* still there.                                                            *)
EnsurePayment(o) ==
    /\ o \in AlipayTrials
    /\ order[o] # "NONE"
    /\ payment[o] = NoPayment
    /\ payment' = [payment EXCEPT ![o] = [status |-> "PENDING", provider |-> "ALIPAY"]]
    /\ alipay' = [alipay EXCEPT ![o] = "open"]
    /\ UNCHANGED <<order, late, alloc, delivery, check, payEvents, debit, trialReq>>

(* The buyer pays, or Alipay gives an unpaid trade up.                     *)
BuyerPays(o) ==
    /\ alipay[o] = "open"
    /\ alipay' = [alipay EXCEPT ![o] = "paid"]
    /\ UNCHANGED <<order, late, alloc, delivery, check, payment, payEvents, debit, trialReq>>

TradeTimesOut(o) ==
    /\ alipay[o] = "open"
    /\ alipay' = [alipay EXCEPT ![o] = "closed"]
    /\ UNCHANGED <<order, late, alloc, delivery, check, payment, payEvents, debit, trialReq>>

-----------------------------------------------------------------------------
RefundTypes == {"REFUNDED_PARTIAL", "REFUNDED_FULL"}
Refunded(S) == MapThenSumSet(LAMBDA e : e.amount, {e \in S : e.type \in RefundTypes})
Untouched == {"AWAITING_PAYMENT", "AWAITING_KEY"}

(* What applyTrialPaymentEvent reads before its batch.                     *)
Seen(o) == [status |-> payment[o].status, events |-> payEvents[o], order |-> order[o], late |-> late[o],
            delivery |-> delivery[o]]

(* The batch compares the version of the payment, neither the order's nor  *)
(* the delivery's; one transaction has one event of each type (UNIQUE).    *)
Postable(o, e, saw) ==
    /\ payEvents[o] = saw.events
    /\ \A x \in payEvents[o] : x.type # e.type

(* The batch of applyTrialPaymentEvent. The hours are released when the    *)
(* whole amount is back and the delivery, as it was read, had not begun.   *)
Post(o, e, saw) ==
    LET pending == e.type = "CAPTURED" /\ saw.order = "PAYMENT_PENDING"
        full    == e.type \in RefundTypes /\ Refunded(saw.events) + e.amount = Total
        release == full /\ saw.delivery \in Untouched
        status  == CASE pending             -> IF saw.late THEN "REFUND_PENDING" ELSE "CAPTURED"
                     [] e.type = "CLOSED"   -> "CLOSED"
                     [] full                -> "REFUNDED"
                     [] OTHER               -> saw.status
    IN /\ Postable(o, e, saw)
       /\ payEvents' = [payEvents EXCEPT ![o] = @ \cup {e}]
       /\ payment' = [payment EXCEPT ![o].status = status]
       /\ order' = [order EXCEPT ![o] =
             CASE pending /\ @ = "PAYMENT_PENDING" -> IF saw.late THEN "REFUND_PENDING" ELSE "PAID"
               [] release -> "REFUNDED"
               [] OTHER   -> @]
       /\ alloc' = [alloc EXCEPT ![o] =
             CASE pending -> "LOCKED" [] release -> "CANCELLED" [] OTHER -> @]
       /\ delivery' = [delivery EXCEPT ![o] =
             IF pending /\ order'[o] = "PAID" THEN "AWAITING_KEY" ELSE @]

(* The Alipay callback up to that batch. An event that is on record is     *)
(* answered from the record.                                               *)
Notify(w, o) ==
    /\ trialReq[w] = Idle
    /\ payment[o].provider = "ALIPAY"
    /\ \E type \in {"CAPTURED", "CLOSED"} :
          /\ alipay[o] = IF type = "CAPTURED" THEN "paid" ELSE "closed"
          /\ \A e \in payEvents[o] : e.type # type
          /\ trialReq' = [trialReq EXCEPT ![w] =
                [step |-> "notified", o |-> o, saw |-> Seen(o),
                 event |-> [type |-> type, ref |-> "notify", amount |-> Total]]]
    /\ UNCHANGED <<order, late, alloc, delivery, check, payVars>>

PostNotified(w) ==
    /\ trialReq[w].step = "notified"
    /\ Post(trialReq[w].o, trialReq[w].event, trialReq[w].saw)
    /\ trialReq' = [trialReq EXCEPT ![w] = Idle]
    /\ UNCHANGED <<late, check, debit, alipay>>

-----------------------------------------------------------------------------
(* What readSupplyPaymentFacts reads of an order.                          *)
Facts(o) == [order |-> order[o], late |-> late[o], alloc |-> alloc[o], delivery |-> delivery[o],
             check |-> check[o], payment |-> payment[o], events |-> payEvents[o], debit |-> debit[o]]

(* settleSupplyCardHours up to its batch: a debit on record is answered or *)
(* sent to review, never repeated. Its clock stops here.                   *)
ReadFacts(w, o) ==
    /\ trialReq[w] = Idle
    /\ order[o] = "PAYMENT_PENDING"
    /\ ~late[o]
    /\ debit[o] = "NONE"
    /\ payEvents[o] = {}
    /\ payment[o] \in {NoPayment, [status |-> "PENDING", provider |-> "KAI_CARD_HOUR"]}
    /\ trialReq' = [trialReq EXCEPT ![w] = [step |-> "settling", o |-> o]]
    /\ UNCHANGED <<order, late, alloc, delivery, check, payVars>>

(* supplyCaptureStatements, for facts whose payment row the batch may have *)
(* to make first.                                                          *)
Capturable(f) ==
    /\ f.order = "PAYMENT_PENDING"
    /\ f.alloc = "RESERVED"
    /\ f.delivery = "AWAITING_PAYMENT"
    /\ f.payment \in {NoPayment, [status |-> "PENDING", provider |-> "KAI_CARD_HOUR"]}
WithCapture(f) ==
    [f EXCEPT !.order = "PAID", !.alloc = "LOCKED", !.delivery = "AWAITING_KEY", !.debit = "CAPTURED",
              !.payment = [status |-> "CAPTURED", provider |-> "KAI_CARD_HOUR"],
              !.events = @ \cup {Captured}]

(* Mutant: debit and capture are no longer one batch, and the order may    *)
(* have been paid since.                                                   *)
SettleApart(w) ==
    /\ trialReq[w].step = "settling"
    /\ debit[trialReq[w].o] = "NONE"
    /\ debit' = [debit EXCEPT ![trialReq[w].o] = "CAPTURED"]
    /\ trialReq' = [trialReq EXCEPT ![w] = Idle]
    /\ UNCHANGED <<order, late, alloc, delivery, check, payment, payEvents, alipay>>

(* Its batch: the debit of the wallet, its ledger entries and the capture  *)
(* are one transaction.                                                    *)
Settle(w) ==
    /\ trialReq[w].step = "settling"
    /\ LET o == trialReq[w].o
            f == WithCapture(Facts(o))
       IN /\ Capturable(Facts(o))
          /\ debit[o] = "NONE"
          /\ order' = [order EXCEPT ![o] = f.order]
          /\ alloc' = [alloc EXCEPT ![o] = f.alloc]
          /\ delivery' = [delivery EXCEPT ![o] = f.delivery]
          /\ payment' = [payment EXCEPT ![o] = f.payment]
          /\ payEvents' = [payEvents EXCEPT ![o] = f.events]
          /\ debit' = [debit EXCEPT ![o] = f.debit]
    /\ trialReq' = [trialReq EXCEPT ![w] = Idle]
    /\ UNCHANGED <<late, check, alipay>>

-----------------------------------------------------------------------------
(* supplyCaptureComplete and reversalProven.                               *)
Complete(f) ==
    /\ f.debit = "CAPTURED"
    /\ f.payment = [status |-> "CAPTURED", provider |-> "KAI_CARD_HOUR"]
    /\ Captured \in f.events
    /\ \A e \in f.events : e.type \notin RefundTypes
    /\ f.order \in {"PAID", "PROVISIONING", "DELIVERED", "IN_SERVICE", "COMPLETED"}
    /\ f.alloc \in {"LOCKED", "IN_SERVICE", "RELEASED"}
    /\ f.delivery # "AWAITING_PAYMENT"

Undelivered(f) == f.delivery = "AWAITING_PAYMENT" /\ f.check = "NONE"

Reversed(f) ==
    /\ f.debit = "REFUNDED"
    /\ f.order = "REFUNDED"
    /\ f.payment = [status |-> "REFUNDED", provider |-> "KAI_CARD_HOUR"]
    /\ f.alloc = "CANCELLED"
    /\ Undelivered(f)
    /\ {e.ref : e \in {x \in f.events : x.type \in RefundTypes}} = {"recovery"}

(* classifySupplyPayment.                                                  *)
Reversible(f) ==
    /\ f.order \in {"PAYMENT_PENDING", "REFUND_PENDING"}
    /\ f.late
    /\ f.alloc \in {"RESERVED", "LOCKED", "CANCELLED"}
Unclear(f) ==
    \/ f.debit # "CAPTURED"
    \/ ~Undelivered(f)
    \/ f.payment.provider = "ALIPAY"
    \/ f.payment.status \notin {"NONE", "PENDING", "REFUND_PENDING"}
    \/ f.events \notin {{}, {Captured}}
Classify(f) ==
    IF f.debit = "NONE" /\ f.events = {} /\ f.payment.status \in {"NONE", "PENDING"} THEN "UNPAID"
    ELSE IF Complete(f) THEN "COMPLETE"
    ELSE IF Reversed(f) THEN "REVERSED"
    ELSE IF Unclear(f) THEN "MANUAL_REVIEW"
    ELSE IF Capturable(f) /\ ~f.late /\ f.events = {} THEN "COMPLETE_CAPTURE"
    ELSE IF Reversible(f) THEN "REVERSE_UNDELIVERED"
    ELSE "MANUAL_REVIEW"

(* recoverSupplyPayment, which the recovery script runs on a copy of the   *)
(* database nobody else writes.                                            *)
WithReversal(f) ==
    [f EXCEPT !.order = "REFUNDED", !.alloc = "CANCELLED", !.debit = "REFUNDED",
              !.payment = [status |-> "REFUNDED", provider |-> "KAI_CARD_HOUR"],
              !.events = @ \cup {[type |-> "REFUNDED_FULL", ref |-> "recovery", amount |-> Total]}]
Recover(f) ==
    CASE Classify(f) = "COMPLETE_CAPTURE"    -> WithCapture(f)
      [] Classify(f) = "REVERSE_UNDELIVERED" -> WithReversal(f)
      [] OTHER                               -> f
=============================================================================
