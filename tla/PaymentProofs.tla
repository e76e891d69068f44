----------------------------- MODULE PaymentProofs -----------------------------
(***************************************************************************)
(* TLAPS proofs about payments: TopupReconciliation, for any number of     *)
(* orders, requests and callers, and the trial orders of SupplyTrials, for *)
(* any number of buyers, hours, refunds and requests at once.              *)
(***************************************************************************)
EXTENDS TopupReconciliation, SupplyTrials, SumTheorems, FiniteSetTheorems, TLAPS

(* What a posted order looks like, and what the handlers that are about to *)
(* post know about the trade: the facts that make CreditedExactlyOnce and  *)
(* AcknowledgedPaymentIsSettled inductive.                                 *)
PostedOnce ==
    \A o \in Orders :
        /\ credits[o] = IF o \in ledger THEN 1 ELSE 0
        /\ status[o] = "CAPTURED" => o \in ledger
        /\ o \in ledger => trade[o] \in Paid /\ status[o] \in {"CAPTURED", "CLOSED"}
        /\ status[o] = "CLOSED" => o \in ledger \/ trade[o] \in {"closed", "refunded"}
        /\ \A e \in events[o] : e[2] = "CAPTURED" => o \in ledger
        /\ o \in QixiangOrders => trade[o] \in {"none", "open", "paid"}
        /\ o \in AlipayOrders => status[o] # "NONE"

HandlersKnowTheTrade ==
    \A c \in Callers :
        call[c] # IdleCall =>
            /\ status[call[c].order] # "NONE"
            /\ c \in Claimants => call[c].type = "CAPTURED"
            /\ call[c].step = "leased" => c \in Claimants
            /\ call[c].step \in {"confirmed", "posting"} =>
                 IF call[c].type = "CAPTURED"
                 THEN trade[call[c].order] \in Paid
                 ELSE trade[call[c].order] \in {"closed", "refunded"}

(* Who may still open a checkout: nobody has when the row is unclaimed, and *)
(* one request at a time has claimed it.                                   *)
CheckoutOwned ==
    /\ \A o \in Orders :
         /\ opened[o] <= 1
         /\ status[o] = "NONE" \/ (status[o] = "PENDING" /\ ~checkout[o])
              => /\ opened[o] = 0
                 /\ \A r \in Requests : req[r].step = "claimed" => req[r].order # o
    /\ \A r \in Requests : req[r].step = "claimed" => opened[req[r].order] = 0
    /\ \A r, s \in Requests :
         req[r].step = "claimed" /\ req[s].step = "claimed" /\ req[r].order = req[s].order => r = s

-----------------------------------------------------------------------------
(* Type correctness of every reachable state.                              *)

(* The initial state is well typed.                                        *)
LEMMA InitTypeOK == Init => TypeOK
BY ChannelsAreDisjoint, CallersAreDisjoint, EscalateAfterIsPositive
   DEF Init, TypeOK, Orders, Callers, Claimants, Statuses, OpenStatuses, EventIds, RequestStates,
       CallStates, IdleRequest, IdleCall, EventTypes, Paid

(* A step of a checkout request keeps the types.                           *)
LEMMA RequestTypeOK ==
    ASSUME TypeOK, NEW r \in Requests, RequestStep(r)
    PROVE  TypeOK'
<1> USE DEF TypeOK, Statuses, OpenStatuses, RequestStates, IdleRequest, Paid
<1>1. ASSUME NEW o \in Orders, CreateTopup(r, o) PROVE TypeOK'
  BY <1>1 DEF CreateTopup, claimVars, postingVars, providerVars, rowVars
<1>2. CASE ClaimCheckout(r)
  BY <1>2 DEF ClaimCheckout, claimVars, postingVars, providerVars, rowVars, Orders
<1>3. CASE RefuseCheckout(r)
  BY <1>3 DEF RefuseCheckout, claimVars, postingVars, providerVars, rowVars, Orders
<1>4. CASE OpenCheckout(r)
  BY <1>4 DEF OpenCheckout, claimVars, postingVars, providerVars, rowVars, Orders
<1>5. CASE AttachCheckout(r)
  BY <1>5 DEF AttachCheckout, claimVars, postingVars, providerVars, rowVars, Orders
<1>6. CASE MarkReconciliationRequired(r)
  BY <1>6 DEF MarkReconciliationRequired, claimVars, postingVars, providerVars, rowVars, Orders
<1> QED BY <1>1, <1>2, <1>3, <1>4, <1>5, <1>6 DEF RequestStep

(* A step of a reconciliation call keeps the types.                        *)
LEMMA CallTypeOK ==
    ASSUME TypeOK, NEW c \in Callers, CallStep(c)
    PROVE  TypeOK'
<1> USE EscalateAfterIsPositive
    DEF TypeOK, Statuses, OpenStatuses, CallStates, IdleCall, Paid, EventTypes
<1>1. ASSUME NEW o \in Orders, ClaimReconciliation(c, o) PROVE TypeOK'
  BY <1>1, CallersAreDisjoint
     DEF ClaimReconciliation, rowVars, postingVars, providerVars, Claimants, Callers, Orders
<1>2. ASSUME NEW o \in Orders, ReceiveAlipay(c, o) PROVE TypeOK'
  BY <1>2 DEF ReceiveAlipay, rowVars, claimVars, postingVars, providerVars
<1>3. ASSUME NEW o \in Orders, AcknowledgeCaptured(c, o) PROVE TypeOK'
  BY <1>3 DEF AcknowledgeCaptured, rowVars, claimVars, postingVars, providerVars
<1>4. CASE QueryConfirms(c)
  BY <1>4 DEF QueryConfirms, rowVars, claimVars, postingVars, providerVars
<1>5. CASE QueryFails(c)
  BY <1>5 DEF QueryFails, rowVars, claimVars, postingVars, providerVars
<1>6. CASE CheckTopupEvent(c)
  BY <1>6 DEF CheckTopupEvent, Answer, rowVars, claimVars, postingVars, providerVars
<1>7. CASE PostTopupEvent(c)
  BY <1>7 DEF PostTopupEvent, Answer, EventId, EventIds, rowVars, claimVars, postingVars, providerVars
<1>8. CASE HandleRejection(c)
  BY <1>8 DEF HandleRejection, rowVars, claimVars, postingVars, providerVars
<1>9. CASE Release(c)
  BY <1>9 DEF Release, rowVars, claimVars, postingVars, providerVars
<1> QED BY <1>1, <1>2, <1>3, <1>4, <1>5, <1>6, <1>7, <1>8, <1>9 DEF CallStep

(* A step of the provider or the clock keeps the types.                    *)
LEMMA OrderTypeOK ==
    ASSUME TypeOK, NEW o \in Orders, OrderStep(o)
    PROVE  TypeOK'
<1> USE DEF TypeOK, Statuses, OpenStatuses, Paid, rowVars, claimVars, postingVars, providerVars
<1>1. CASE CustomerPays(o) BY <1>1 DEF CustomerPays
<1>2. CASE AlipayCloses(o) BY <1>2 DEF AlipayCloses
<1>3. CASE RefundCloses(o) BY <1>3 DEF RefundCloses
<1>4. CASE CheckoutAges(o) BY <1>4 DEF CheckoutAges
<1>5. CASE QueryFallsDue(o) BY <1>5 DEF QueryFallsDue
<1>6. CASE LeaseAges(o) BY <1>6 DEF LeaseAges
<1> QED BY <1>1, <1>2, <1>3, <1>4, <1>5, <1>6 DEF OrderStep

(* So every step does.                                                     *)
LEMMA NextTypeOK == TypeOK /\ [Next]_vars => TypeOK'
<1> SUFFICES ASSUME TypeOK, [Next]_vars PROVE TypeOK'
  OBVIOUS
<1>1. CASE Restart
  BY <1>1 DEF Restart, TypeOK, RequestStates, CallStates, rowVars, claimVars, postingVars, providerVars
<1>2. CASE UNCHANGED vars
  BY <1>2 DEF vars, TypeOK, rowVars, claimVars, postingVars, providerVars
<1> QED BY <1>1, <1>2, RequestTypeOK, CallTypeOK, OrderTypeOK DEF Next

(* Every reachable state has the types of TypeOK, and a lease without a     *)
(* token has no age (card_hour_topup_reconciliation_claims).                *)
THEOREM TypeCorrect == Spec => []TypeOK
BY InitTypeOK, NextTypeOK, PTL DEF Spec

-----------------------------------------------------------------------------
(* Wallet credit.                                                          *)

CreditInv == PostedOnce /\ HandlersKnowTheTrade

(* Nothing is credited at first.                                           *)
LEMMA InitCredit == Init => CreditInv
BY ChannelsAreDisjoint DEF Init, CreditInv, PostedOnce, HandlersKnowTheTrade, IdleCall, Orders, Paid

(* A checkout request credits nothing.                                     *)
LEMMA RequestCredit ==
    ASSUME TypeOK, CreditInv, NEW r \in Requests, RequestStep(r)
    PROVE  CreditInv'
<1> USE DEF CreditInv, PostedOnce, HandlersKnowTheTrade, TypeOK, Paid
<1>1. ASSUME NEW o \in Orders, CreateTopup(r, o) PROVE CreditInv'
  BY <1>1 DEF CreateTopup, postingVars, providerVars
<1>2. CASE ClaimCheckout(r)
  BY <1>2 DEF ClaimCheckout, postingVars, providerVars
<1>3. CASE RefuseCheckout(r)
  BY <1>3 DEF RefuseCheckout, postingVars, providerVars
<1>4. CASE OpenCheckout(r)
  <2>1. req[r].order \in QixiangOrders
    BY <1>4 DEF OpenCheckout, RequestStates, IdleRequest
  <2> QED BY <1>4, <2>1 DEF OpenCheckout, rowVars, postingVars, Orders
<1>5. CASE AttachCheckout(r)
  BY <1>5 DEF AttachCheckout, postingVars, providerVars
<1>6. CASE MarkReconciliationRequired(r)
  BY <1>6 DEF MarkReconciliationRequired, postingVars, providerVars
<1> QED BY <1>1, <1>2, <1>3, <1>4, <1>5, <1>6 DEF RequestStep

(* A reconciliation call credits an order at most once, for a paid trade.  *)
LEMMA CallCredit ==
    ASSUME TypeOK, CreditInv, NEW c \in Callers, CallStep(c)
    PROVE  CreditInv'
<1> USE DEF CreditInv, PostedOnce, HandlersKnowTheTrade, TypeOK, Paid
<1>1. ASSUME NEW o \in Orders, ClaimReconciliation(c, o) PROVE CreditInv'
  BY <1>1 DEF ClaimReconciliation, rowVars, postingVars, providerVars, OpenStatuses, IdleCall
<1>2. ASSUME NEW o \in Orders, ReceiveAlipay(c, o) PROVE CreditInv'
  <2>1. o \in AlipayOrders /\ c \notin Claimants
    BY <1>2, CallersAreDisjoint DEF ReceiveAlipay, Claimants
  <2>2. PICK type \in EventTypes :
          /\ trade[o] \in (IF type = "CAPTURED" THEN Paid ELSE {"closed", "refunded"})
          /\ call' = [call EXCEPT ![c] =
               [step |-> "confirmed", order |-> o, type |-> type, attempt |-> 0]]
    BY <1>2 DEF ReceiveAlipay
  <2> QED BY <1>2, <2>1, <2>2 DEF ReceiveAlipay, rowVars, postingVars, providerVars, IdleCall, EventTypes
<1>3. ASSUME NEW o \in Orders, AcknowledgeCaptured(c, o) PROVE CreditInv'
  BY <1>3 DEF AcknowledgeCaptured, rowVars, postingVars
<1>4. CASE QueryConfirms(c)
  BY <1>4 DEF QueryConfirms, rowVars, postingVars, providerVars, IdleCall, CallStates
<1>5. CASE QueryFails(c)
  BY <1>5 DEF QueryFails, rowVars, postingVars, providerVars, IdleCall, CallStates
<1>6. CASE CheckTopupEvent(c)
  BY <1>6 DEF CheckTopupEvent, rowVars, postingVars, IdleCall, CallStates
<1>7. CASE PostTopupEvent(c)
  BY <1>7 DEF PostTopupEvent, Accepts, EventId, IdleCall, CallStates, EventTypes
<1>8. CASE HandleRejection(c)
  BY <1>8 DEF HandleRejection, rowVars, postingVars, providerVars, IdleCall, CallStates
<1>9. CASE Release(c)
  BY <1>9 DEF Release, rowVars, postingVars, providerVars, IdleCall
<1> QED BY <1>1, <1>2, <1>3, <1>4, <1>5, <1>6, <1>7, <1>8, <1>9 DEF CallStep

(* The provider and the clock credit nothing.                              *)
LEMMA OrderCredit ==
    ASSUME TypeOK, CreditInv, NEW o \in Orders, OrderStep(o)
    PROVE  CreditInv'
<1> USE DEF CreditInv, PostedOnce, HandlersKnowTheTrade, TypeOK, Paid
<1>1. CASE CustomerPays(o) BY <1>1 DEF CustomerPays, rowVars, postingVars
<1>2. CASE AlipayCloses(o)
  BY <1>2, ChannelsAreDisjoint DEF AlipayCloses, rowVars, postingVars
<1>3. CASE RefundCloses(o) BY <1>3 DEF RefundCloses, postingVars, providerVars
<1>4. CASE CheckoutAges(o) BY <1>4 DEF CheckoutAges, postingVars, providerVars
<1>5. CASE QueryFallsDue(o) BY <1>5 DEF QueryFallsDue, rowVars, postingVars, providerVars
<1>6. CASE LeaseAges(o) BY <1>6 DEF LeaseAges, rowVars, postingVars, providerVars
<1> QED BY <1>1, <1>2, <1>3, <1>4, <1>5, <1>6 DEF OrderStep

(* No step disturbs the credit of an order.                                *)
LEMMA NextCredit == TypeOK /\ CreditInv /\ [Next]_vars => CreditInv'
<1> SUFFICES ASSUME TypeOK, CreditInv, [Next]_vars PROVE CreditInv'
  OBVIOUS
<1> USE DEF CreditInv, PostedOnce, HandlersKnowTheTrade
<1>1. CASE Restart
  BY <1>1 DEF Restart, IdleCall, rowVars, postingVars, providerVars
<1>2. CASE UNCHANGED vars
  BY <1>2 DEF vars, rowVars, postingVars, providerVars
<1> QED BY <1>1, <1>2, RequestCredit, CallCredit, OrderCredit DEF Next

(* Every reachable state is well typed and credits each order at most      *)
(* once.                                                                   *)
LEMMA CreditInvariant == Spec => [](TypeOK /\ CreditInv)
<1>1. Init => TypeOK /\ CreditInv
  BY InitTypeOK, InitCredit
<1>2. (TypeOK /\ CreditInv) /\ [Next]_vars => (TypeOK /\ CreditInv)'
  BY NextTypeOK, NextCredit
<1> QED BY <1>1, <1>2, PTL DEF Spec

(* The wallet of a captured order is credited exactly once, with its ledger *)
(* batch, and only for a trade that was paid, whatever the entrances,       *)
(* retries, expired leases and restarts.                                   *)
THEOREM CreditedOnce == Spec => []CreditedExactlyOnce
<1>1. TypeOK /\ CreditInv => CreditedExactlyOnce
  BY DEF TypeOK, CreditInv, PostedOnce, CreditedExactlyOnce
<1> QED BY <1>1, CreditInvariant, PTL

-----------------------------------------------------------------------------
(* Answers to payment callbacks.                                           *)

(* A callback that is answered has had its payment settled.                *)
LEMMA AnswerSettles ==
    ASSUME TypeOK, CreditInv, CreditInv', AcknowledgedPaymentIsSettled, NEW c \in Callers,
           CheckTopupEvent(c) \/ PostTopupEvent(c)
    PROVE  AcknowledgedPaymentIsSettled'
<1> USE DEF AcknowledgedPaymentIsSettled, TypeOK, CreditInv
<1>1. PICK o \in Orders : o = call[c].order /\ call[c] # IdleCall
  BY DEF CheckTopupEvent, PostTopupEvent, CallStates, IdleCall
<1>2. ASSUME NEW p \in acked
      PROVE  credits'[p] = 1 \/ (status'[p] = "CLOSED" /\ trade'[p] = "refunded")
  <2>1. p \in Orders /\ (credits[p] = 1 \/ (status[p] = "CLOSED" /\ trade[p] = "refunded"))
    BY <1>2
  <2>2. CASE CheckTopupEvent(c)
    BY <2>1, <2>2 DEF CheckTopupEvent, rowVars, postingVars
  <2>3. CASE PostTopupEvent(c)
    BY <2>1, <2>3, <1>1 DEF PostTopupEvent, Accepts, PostedOnce
  <2> QED BY <2>2, <2>3
<1>3. CASE acked' = acked
  BY <1>2, <1>3
<1>4. CASE acked' # acked
  <2>1. call[c].type = "CAPTURED" /\ acked' = acked \cup {o}
    BY <1>1, <1>4 DEF CheckTopupEvent, PostTopupEvent, Answer
  <2>2. trade[o] \in Paid /\ trade' = trade /\ status[o] # "NONE"
    BY <1>1, <2>1, CallersAreDisjoint DEF CheckTopupEvent, PostTopupEvent, HandlersKnowTheTrade
  <2>3. o \in ledger' \/ (status'[o] = "CLOSED" /\ trade'[o] = "refunded")
    <3>1. CASE CheckTopupEvent(c)
      <4>1. EventId(c, "CAPTURED") \in events[o] \/ ~Accepts(o, "CAPTURED")
        BY <3>1, <2>1, <1>1, <1>4 DEF CheckTopupEvent
      <4>2. o \in ledger \/ status[o] \in {"CAPTURED", "CLOSED"}
        BY <4>1, <2>2 DEF EventId, Accepts, PostedOnce, Statuses, OpenStatuses
      <4> QED BY <4>2, <3>1, <2>2 DEF PostedOnce, Paid, CheckTopupEvent, rowVars, postingVars
    <3>2. CASE PostTopupEvent(c)
      <4>1. CASE o \in ledger'
        BY <4>1
      <4>2. CASE o \notin ledger'
        <5>1. EventId(c, "CAPTURED") \in events[o] \/ ~Accepts(o, "CAPTURED") \/ o \in ledger
          BY <4>2, <3>2, <2>1, <1>1 DEF PostTopupEvent
        <5>2. o \in ledger \/ status[o] \in {"CAPTURED", "CLOSED"}
          BY <5>1, <2>2 DEF EventId, Accepts, PostedOnce, Statuses, OpenStatuses
        <5>3. o \notin ledger /\ status'[o] = status[o]
          BY <4>2, <3>2, <2>1, <1>1 DEF PostTopupEvent
        <5> QED BY <5>2, <5>3, <2>2 DEF PostedOnce, Paid
      <4> QED BY <4>1, <4>2
    <3> QED BY <3>1, <3>2
  <2>4. credits'[o] = 1 \/ (status'[o] = "CLOSED" /\ trade'[o] = "refunded")
    BY <2>3 DEF PostedOnce
  <2> QED BY <1>2, <2>1, <2>4
<1> QED BY <1>3, <1>4

(* No step unsettles a payment that was acknowledged.                      *)
LEMMA NextSettles ==
    TypeOK /\ CreditInv /\ CreditInv' /\ AcknowledgedPaymentIsSettled /\ [Next]_vars
      => AcknowledgedPaymentIsSettled'
<1> SUFFICES ASSUME TypeOK, CreditInv, CreditInv', AcknowledgedPaymentIsSettled, [Next]_vars
             PROVE  AcknowledgedPaymentIsSettled'
  OBVIOUS
<1> USE DEF AcknowledgedPaymentIsSettled, TypeOK, CreditInv, PostedOnce, rowVars, postingVars, providerVars
<1>1. ASSUME NEW r \in Requests, RequestStep(r) PROVE AcknowledgedPaymentIsSettled'
  <2>1. /\ credits' = credits /\ acked' = acked
        /\ \A o \in Orders : status[o] = "CLOSED" => status'[o] = "CLOSED"
        /\ \A o \in Orders : trade[o] = "refunded" => trade'[o] = "refunded"
    BY <1>1 DEF RequestStep, CreateTopup, ClaimCheckout, RefuseCheckout, OpenCheckout,
                AttachCheckout, MarkReconciliationRequired
  <2> QED BY <2>1
<1>2. ASSUME NEW c \in Callers, CallStep(c) PROVE AcknowledgedPaymentIsSettled'
  <2>1. CASE CheckTopupEvent(c) \/ PostTopupEvent(c)
    BY <2>1, AnswerSettles
  <2>2. ASSUME NEW o \in Orders, AcknowledgeCaptured(c, o) PROVE AcknowledgedPaymentIsSettled'
    BY <2>2 DEF AcknowledgeCaptured
  <2>3. CASE \/ \E o \in Orders : ClaimReconciliation(c, o) \/ ReceiveAlipay(c, o)
             \/ QueryConfirms(c) \/ QueryFails(c) \/ HandleRejection(c) \/ Release(c)
    BY <2>3 DEF ClaimReconciliation, ReceiveAlipay, QueryConfirms, QueryFails, HandleRejection, Release
  <2> QED BY <1>2, <2>1, <2>2, <2>3 DEF CallStep
<1>3. ASSUME NEW o \in Orders, OrderStep(o) PROVE AcknowledgedPaymentIsSettled'
  BY <1>3 DEF OrderStep, CustomerPays, AlipayCloses, RefundCloses, CheckoutAges, QueryFallsDue, LeaseAges
<1>4. CASE Restart
  BY <1>4 DEF Restart
<1>5. CASE UNCHANGED vars
  BY <1>5 DEF vars
<1> QED BY <1>1, <1>2, <1>3, <1>4, <1>5 DEF Next

(* A payment callback answered "success" never loses the payment.          *)
THEOREM AcknowledgedIsSettled == Spec => []AcknowledgedPaymentIsSettled
<1>1. Init => AcknowledgedPaymentIsSettled
  BY DEF Init, AcknowledgedPaymentIsSettled
<1> QED BY <1>1, NextSettles, CreditInvariant, PTL DEF Spec

(* A payment is credited once, and acknowledged only with its credit, for   *)
(* any number of orders, callers and retries.                              *)
THEOREM TopupsSettleOnce == Spec => []PaidOnceAndSettled
<1>1. CreditedExactlyOnce /\ AcknowledgedPaymentIsSettled => PaidOnceAndSettled
  BY DEF PaidOnceAndSettled
<1> QED BY <1>1, CreditedOnce, AcknowledgedIsSettled, PTL

-----------------------------------------------------------------------------
(* Checkouts at the provider.                                              *)

(* A checkout is opened by the request that owns the order's reservation   *)
(* of it.                                                                  *)
LEMMA RequestOwned ==
    ASSUME TypeOK, CheckoutOwned, NEW r \in Requests, RequestStep(r)
    PROVE  CheckoutOwned'
<1> USE DEF CheckoutOwned, TypeOK, RequestStates, IdleRequest, Orders
<1>1. ASSUME NEW o \in Orders, CreateTopup(r, o) PROVE CheckoutOwned'
  BY <1>1 DEF CreateTopup, providerVars
<1>2. CASE ClaimCheckout(r)
  BY <1>2 DEF ClaimCheckout, providerVars
<1>3. CASE RefuseCheckout(r)
  BY <1>3 DEF RefuseCheckout, providerVars
<1>4. CASE OpenCheckout(r)
  BY <1>4 DEF OpenCheckout, rowVars
<1>5. CASE AttachCheckout(r)
  \* Only a row that takes its URL goes back to PENDING, and r, which has
  \* opened its checkout, owns no call any more.
  <2>1. opened' = opened /\ \A q \in Requests : req'[q].step = "claimed" => q # r /\ req'[q] = req[q]
    BY <1>5 DEF AttachCheckout, providerVars
  <2>2. \A o \in Orders :
           status'[o] = "NONE" \/ (status'[o] = "PENDING" /\ ~checkout'[o])
             => status[o] = "NONE" \/ (status[o] = "PENDING" /\ ~checkout[o])
    BY <1>5 DEF AttachCheckout
  <2> QED BY <2>1, <2>2
<1>6. CASE MarkReconciliationRequired(r)
  BY <1>6 DEF MarkReconciliationRequired, providerVars
<1> QED BY <1>1, <1>2, <1>3, <1>4, <1>5, <1>6 DEF RequestStep

(* No other step opens a checkout.                                         *)
LEMMA NextOwned == TypeOK /\ CheckoutOwned /\ [Next]_vars => CheckoutOwned'
<1> SUFFICES ASSUME TypeOK, CheckoutOwned, [Next]_vars PROVE CheckoutOwned'
  OBVIOUS
<1> USE DEF CheckoutOwned, TypeOK
<1>1. ASSUME NEW c \in Callers, CallStep(c) PROVE CheckoutOwned'
  <2>1. checkout' = checkout /\ opened' = opened /\ req' = req
    BY <1>1 DEF CallStep, ClaimReconciliation, ReceiveAlipay, AcknowledgeCaptured, QueryConfirms,
                QueryFails, CheckTopupEvent, PostTopupEvent, HandleRejection, Release,
                rowVars, providerVars
  <2>2. CASE status' = status
    BY <2>1, <2>2
  <2>3. CASE PostTopupEvent(c)
    <3>1. call[c].type \in EventTypes
      BY <2>3 DEF PostTopupEvent, CallStates, IdleCall
    <3>2. \A o \in Orders : status'[o] # status[o] => status'[o] \in EventTypes
      BY <2>3, <3>1 DEF PostTopupEvent
    <3> QED BY <2>1, <3>2 DEF EventTypes
  <2> QED BY <1>1, <2>2, <2>3
          DEF CallStep, ClaimReconciliation, ReceiveAlipay, AcknowledgeCaptured, QueryConfirms,
              QueryFails, CheckTopupEvent, HandleRejection, Release, rowVars
<1>2. ASSUME NEW o \in Orders, OrderStep(o) PROVE CheckoutOwned'
  <2>1. /\ checkout' = checkout /\ opened' = opened /\ req' = req
        /\ \A p \in Orders : status'[p] # status[p] => status'[p] = "CLOSED"
    BY <1>2 DEF OrderStep, CustomerPays, AlipayCloses, RefundCloses, CheckoutAges, QueryFallsDue,
                LeaseAges, rowVars, providerVars
  <2> QED BY <2>1
<1>3. CASE Restart
  BY <1>3 DEF Restart, IdleRequest, rowVars, providerVars
<1>4. CASE UNCHANGED vars
  BY <1>4 DEF vars, rowVars, providerVars
<1> QED BY <1>1, <1>2, <1>3, <1>4, RequestOwned DEF Next

(* Retries, races and crashes of checkout requests never open a second      *)
(* checkout for an order.                                                  *)
THEOREM CheckoutOpenedOnce == Spec => []OneCheckoutPerOrder
<1>1. Init => CheckoutOwned
  BY DEF Init, CheckoutOwned, IdleRequest
<1>2. CheckoutOwned => OneCheckoutPerOrder
  BY DEF CheckoutOwned, OneCheckoutPerOrder
<1> QED BY <1>1, <1>2, NextOwned, TypeCorrect, PTL DEF Spec

-----------------------------------------------------------------------------
(* What no step takes back.                                                *)

(* A lease changes hands when it is none or old; otherwise its holder,     *)
(* answered, releases it.                                                  *)
LEMMA LeaseStep ==
    ASSUME TypeOK, [Next]_vars, NEW o \in Orders,
           claim[o] # NoToken, ~claimOld[o], claim'[o] # claim[o]
    PROVE  call[claim[o]].step = "answered" /\ call[claim[o]].order = o /\ call'[claim[o]] = IdleCall
<1> USE DEF TypeOK, rowVars, claimVars, postingVars, providerVars
<1>1. ASSUME NEW c \in Callers, CallStep(c)
      PROVE  call[claim[o]].step = "answered" /\ call[claim[o]].order = o /\ call'[claim[o]] = IdleCall
  <2>1. ASSUME NEW p \in Orders, ClaimReconciliation(c, p) PROVE FALSE
    BY <2>1 DEF ClaimReconciliation
  <2>2. CASE Release(c)
    BY <2>2 DEF Release
  <2> QED BY <1>1, <2>1, <2>2
          DEF CallStep, ReceiveAlipay, AcknowledgeCaptured, QueryConfirms, QueryFails,
              CheckTopupEvent, PostTopupEvent, HandleRejection
<1>2. ASSUME NEW r \in Requests, RequestStep(r) PROVE FALSE
  BY <1>2 DEF RequestStep, CreateTopup, ClaimCheckout, RefuseCheckout, OpenCheckout,
              AttachCheckout, MarkReconciliationRequired
<1>3. ASSUME NEW p \in Orders, OrderStep(p) PROVE FALSE
  BY <1>3 DEF OrderStep, CustomerPays, AlipayCloses, RefundCloses, CheckoutAges, QueryFallsDue, LeaseAges
<1>4. CASE Restart
  BY <1>4 DEF Restart
<1>5. CASE UNCHANGED vars
  BY <1>5 DEF vars
<1> QED BY <1>1, <1>2, <1>3, <1>4, <1>5 DEF Next

(* Of a settled order only a refund changes the status, of one that is     *)
(* handed to reconciliation only a capture does: the statements of the     *)
(* checkout name the statuses they start from, and so does the batch.      *)
LEMMA SettledStep ==
    ASSUME TypeOK, [Next]_vars, NEW o \in Orders
    PROVE  /\ status[o] = "CAPTURED" => status'[o] \in {"CAPTURED", "CLOSED"}
           /\ status[o] = "CLOSED" => status'[o] = "CLOSED"
           /\ status[o] = "RECONCILIATION_REQUIRED"
                => status'[o] \in {"RECONCILIATION_REQUIRED", "CAPTURED"}
           /\ checkout[o] => checkout'[o]
<1> USE DEF TypeOK, rowVars, claimVars, postingVars, providerVars
<1>1. ASSUME NEW r \in Requests, RequestStep(r)
      PROVE  /\ status'[o] # status[o] => status[o] \in {"NONE", "PENDING", "PROCESSING"}
             /\ checkout[o] => checkout'[o]
  BY <1>1 DEF RequestStep, CreateTopup, ClaimCheckout, RefuseCheckout, OpenCheckout,
              AttachCheckout, MarkReconciliationRequired
<1>2. ASSUME NEW c \in Callers, CallStep(c)
      PROVE  /\ checkout'[o] = checkout[o]
             /\ status'[o] # status[o] =>
                    \/ status[o] \in {"PENDING", "PROCESSING"}
                    \/ (status[o] = "RECONCILIATION_REQUIRED" /\ status'[o] = "CAPTURED")
  <2>1. CASE PostTopupEvent(c)
    <3> DEFINE p == call[c].order
               commits == Accepts(p, call[c].type) /\ EventId(c, call[c].type) \notin events[p]
                              /\ (call[c].type = "CAPTURED" => p \notin ledger)
    <3>1. /\ checkout' = checkout
          /\ status' = [status EXCEPT ![p] = IF commits THEN call[c].type ELSE @]
      BY <2>1 DEF PostTopupEvent
    <3>2. status'[o] # status[o] => o = p /\ Accepts(p, call[c].type) /\ status'[o] = call[c].type
      BY <3>1
    <3> QED BY <3>1, <3>2 DEF Accepts
  <2> QED BY <1>2, <2>1
          DEF CallStep, ClaimReconciliation, ReceiveAlipay, AcknowledgeCaptured, QueryConfirms,
              QueryFails, CheckTopupEvent, HandleRejection, Release
<1>3. ASSUME NEW p \in Orders, OrderStep(p)
      PROVE  /\ checkout'[o] = checkout[o]
             /\ status'[o] # status[o] => status[o] = "CAPTURED" /\ status'[o] = "CLOSED"
  BY <1>3 DEF OrderStep, CustomerPays, AlipayCloses, RefundCloses, CheckoutAges, QueryFallsDue, LeaseAges
<1>4. CASE Restart
  BY <1>4 DEF Restart
<1>5. CASE UNCHANGED vars
  BY <1>5 DEF vars
<1> QED BY <1>1, <1>2, <1>3, <1>4, <1>5 DEF Next

(* No late handler takes a fresh lease from another, and no retry, query   *)
(* or callback reopens an order that is settled, loses its checkout or     *)
(* takes it from reconciliation but by a capture.                          *)
THEOREM TakesNothingBack == Spec => NothingIsTakenBack
<1>1. TypeOK /\ [Next]_vars
          => [\A o \in Orders :
                 claim[o] # NoToken /\ ~claimOld[o] /\ claim'[o] # claim[o]
                   => /\ call[claim[o]].step = "answered"
                      /\ call[claim[o]].order = o
                      /\ call'[claim[o]] = IdleCall]_vars
  BY LeaseStep
<1>2. TypeOK /\ [Next]_vars
          => [\A o \in Orders :
                 /\ status[o] = "CAPTURED" => status'[o] \in {"CAPTURED", "CLOSED"}
                 /\ status[o] = "CLOSED" => status'[o] = "CLOSED"
                 /\ status[o] = "RECONCILIATION_REQUIRED"
                      => status'[o] \in {"RECONCILIATION_REQUIRED", "CAPTURED"}
                 /\ checkout[o] => checkout'[o]]_vars
  BY SettledStep
<1>3. Spec => FreshLeaseIsKept
  BY <1>1, TypeCorrect, PTL DEF Spec, FreshLeaseIsKept
<1>4. Spec => SettledOrdersStaySettled
  BY <1>2, TypeCorrect, PTL DEF Spec, SettledOrdersStaySettled
<1> QED BY <1>3, <1>4 DEF NothingIsTakenBack

-----------------------------------------------------------------------------
(* Refinement of TopupPromise.                                             *)

(* A Qixiang order is closed only when it is credited.                     *)
LEMMA QixiangOrdersCloseCredited ==
    ASSUME TypeOK, CreditInv, NEW o \in QixiangOrders
    PROVE  status[o] = "CLOSED" => credits[o] = 1
BY DEF TypeOK, CreditInv, PostedOnce, Orders

(* Every step maps to a step of the abstract specification or to a         *)
(* stutter.                                                                *)
LEMMA PromiseStep ==
    ASSUME TypeOK, CreditInv, CreditInv', [Next]_vars
    PROVE  [Promise!Next]_(Promise!vars)
<1> DEFINE paidNow == {o \in QixiangOrders : trade[o] \in Paid}
           creditNow == [o \in QixiangOrders |-> credits[o]]
           closedNow == {o \in QixiangOrders : status[o] = "CLOSED"}
<1> USE DEF Promise!Next, Promise!vars, TypeOK
<1>1. CASE UNCHANGED <<status, credits, trade>>
  BY <1>1
<1>2. ASSUME NEW r \in Requests, RequestStep(r) PROVE [Promise!Next]_(Promise!vars)
  <2>1. /\ credits' = credits
        /\ \A o \in Orders : status'[o] = "CLOSED" <=> status[o] = "CLOSED"
        /\ \A o \in Orders : trade'[o] \in Paid <=> trade[o] \in Paid
    BY <1>2 DEF RequestStep, CreateTopup, ClaimCheckout, RefuseCheckout, OpenCheckout, AttachCheckout,
                MarkReconciliationRequired, RequestStates, IdleRequest, rowVars, postingVars,
                providerVars, Paid, Orders
  <2>2. paidNow' = paidNow /\ creditNow' = creditNow /\ closedNow' = closedNow
    BY <2>1 DEF Orders
  <2> QED BY <2>2
<1>3. ASSUME NEW c \in Callers, PostTopupEvent(c), ~UNCHANGED <<status, credits, trade>>
      PROVE  [Promise!Next]_(Promise!vars)
  <2>1. PICK o \in Orders : o = call[c].order /\ call[c] # IdleCall
    BY <1>3 DEF PostTopupEvent, CallStates, IdleCall
  <2>2. /\ trade' = trade
        /\ status' = [status EXCEPT ![o] = call[c].type]
        /\ Accepts(o, call[c].type)
        /\ credits' = [credits EXCEPT ![o] = IF call[c].type = "CAPTURED" THEN @ + 1 ELSE @]
    BY <1>3, <2>1 DEF PostTopupEvent
  <2>3. CASE o \in AlipayOrders
    <3>1. o \notin QixiangOrders
      BY <2>3, ChannelsAreDisjoint
    <3>2. paidNow' = paidNow /\ creditNow' = creditNow /\ closedNow' = closedNow
      BY <2>2, <3>1 DEF Orders
    <3> QED BY <3>2
  <2>4. CASE o \in QixiangOrders
    <3>1. call[c].type = "CAPTURED" /\ trade[o] \in Paid
      BY <1>3, <2>1, <2>4 DEF PostTopupEvent, CreditInv, PostedOnce, HandlersKnowTheTrade
    <3>2. credits[o] = 0 /\ status[o] # "CLOSED" /\ o \in paidNow /\ o \notin closedNow
      BY <2>2, <2>4, <3>1 DEF Accepts, CreditInv, PostedOnce
    <3>3. paidNow' = paidNow
      BY <2>2
    <3>4. creditNow' = [creditNow EXCEPT ![o] = 1]
      <4>1. credits'[o] = 1 /\ \A p \in QixiangOrders : p # o => credits'[p] = credits[p]
        BY <2>2, <2>4, <3>1, <3>2 DEF Orders
      <4> QED BY <2>4, <4>1
    <3>5. closedNow' = closedNow
      <4>1. status'[o] # "CLOSED" /\ \A p \in QixiangOrders : p # o => status'[p] = status[p]
        BY <2>2, <2>4, <3>1 DEF Orders
      <4> QED BY <2>4, <4>1, <3>2
    <3>6. Promise!Credit(o)
      BY <2>4, <3>2, <3>3, <3>4, <3>5 DEF Promise!Credit
    <3> QED BY <2>4, <3>6
  <2> QED BY <2>3, <2>4 DEF Orders
<1>4. ASSUME NEW c \in Callers, CallStep(c), ~PostTopupEvent(c)
      PROVE  [Promise!Next]_(Promise!vars)
  BY <1>1, <1>4 DEF CallStep, ClaimReconciliation, ReceiveAlipay, AcknowledgeCaptured, QueryConfirms,
                    QueryFails, CheckTopupEvent, HandleRejection, Release, rowVars, postingVars,
                    providerVars
<1>5. ASSUME NEW o \in Orders, CustomerPays(o) \/ AlipayCloses(o)
      PROVE  [Promise!Next]_(Promise!vars)
  <2>1. creditNow' = creditNow /\ closedNow' = closedNow
    BY <1>5 DEF CustomerPays, AlipayCloses, rowVars, postingVars
  <2>2. CASE o \in QixiangOrders
    <3>1. CustomerPays(o)
      BY <1>5, <2>2, ChannelsAreDisjoint DEF AlipayCloses
    <3>2. o \notin paidNow /\ paidNow' = paidNow \cup {o}
      BY <3>1, <2>2 DEF CustomerPays, Paid, Orders
    <3> QED BY <2>1, <2>2, <3>2 DEF Promise!Pay
  <2>3. CASE o \notin QixiangOrders
    <3>1. paidNow' = paidNow
      BY <1>5, <2>3 DEF CustomerPays, AlipayCloses, Orders
    <3> QED BY <2>1, <3>1
  <2> QED BY <2>2, <2>3
<1>6. ASSUME NEW o \in Orders, RefundCloses(o) PROVE [Promise!Next]_(Promise!vars)
  <2>1. creditNow' = creditNow /\ paidNow' = paidNow
    BY <1>6 DEF RefundCloses, postingVars, providerVars
  <2>2. CASE o \in QixiangOrders
    <3>1. creditNow[o] = 1 /\ o \notin closedNow /\ closedNow' = closedNow \cup {o}
      BY <1>6, <2>2 DEF RefundCloses, CreditInv, PostedOnce, Orders
    <3> QED BY <2>1, <2>2, <3>1 DEF Promise!Close
  <2>3. CASE o \notin QixiangOrders
    <3>1. closedNow' = closedNow
      BY <1>6, <2>3 DEF RefundCloses, Orders
    <3> QED BY <2>1, <3>1
  <2> QED BY <2>2, <2>3
<1>7. ASSUME NEW o \in Orders, CheckoutAges(o) \/ QueryFallsDue(o) \/ LeaseAges(o)
      PROVE  [Promise!Next]_(Promise!vars)
  BY <1>1, <1>7 DEF CheckoutAges, QueryFallsDue, LeaseAges, rowVars, postingVars, providerVars
<1>8. CASE Restart \/ UNCHANGED vars
  BY <1>1, <1>8 DEF Restart, vars, rowVars, postingVars, providerVars
<1> QED BY <1>1, <1>2, <1>3, <1>4, <1>5, <1>6, <1>7, <1>8 DEF Next, OrderStep

(* The five entrances together implement the promise made to the customer. *)
THEOREM TopupsImplementPromise == Spec => ImplementsPromise
<1>1. Init => Promise!Init
  BY ChannelsAreDisjoint DEF Init, Promise!Init, Orders, Paid
<1>2. TypeOK /\ CreditInv /\ CreditInv' /\ [Next]_vars => [Promise!Next]_(Promise!vars)
  BY PromiseStep
<1> QED BY <1>1, <1>2, CreditInvariant, PTL DEF Spec, ImplementsPromise, Promise!Spec

-----------------------------------------------------------------------------
(* Trial orders (SupplyTrials). Statuses, deliveries and nodes only go     *)
(* forward; what a request has read stays true of all that comes after.    *)
AfterPaid      == {"PAID", "PROVISIONING", "DELIVERED", "IN_SERVICE", "COMPLETED", "REFUNDED"}
AfterDelivered == {"DELIVERED", "IN_SERVICE", "COMPLETED", "REFUNDED"}
AfterStart     == {"IN_SERVICE", "COMPLETED", "REFUNDED"}
AfterStop      == {"COMPLETED", "REFUNDED"}
AwaitedOn == {"AWAITING_KEY", "PROVISIONING", "READY", "IN_SERVICE", "CLEANING", "COMPLETED"}
PreparedOn == {"PROVISIONING", "READY", "IN_SERVICE", "CLEANING", "COMPLETED"}
ReadyOn   == {"READY", "IN_SERVICE", "CLEANING", "COMPLETED"}
ServedOn  == {"IN_SERVICE", "CLEANING", "COMPLETED"}
CleaningOn == {"CLEANING", "COMPLETED"}
KeyOn     == {"key", "running", "stopped", "clean"}
RunningOn == {"running", "stopped", "clean"}
StoppedOn == {"stopped", "clean"}

(* The rows of an order, by its status.                                    *)
Placed(o) ==
    \/ order[o] = "NONE" /\ alloc[o] = "NONE" /\ delivery[o] = "NONE" /\ receipts[o] = {}
    \/ order[o] = "PAYMENT_PENDING" /\ alloc[o] = "RESERVED" /\ delivery[o] = "AWAITING_PAYMENT" /\ receipts[o] = {}
    \/ order[o] = "REFUND_PENDING" /\ alloc[o] = "LOCKED" /\ delivery[o] = "AWAITING_PAYMENT" /\ receipts[o] = {}
    \/ order[o] = "PAID" /\ alloc[o] = "LOCKED" /\ delivery[o] = "AWAITING_KEY" /\ receipts[o] = {}
    \/ order[o] = "PROVISIONING" /\ alloc[o] = "LOCKED" /\ delivery[o] \in {"AWAITING_KEY", "PROVISIONING", "READY"}
    \/ order[o] = "DELIVERED" /\ alloc[o] = "LOCKED" /\ delivery[o] \in {"READY", "IN_SERVICE"}
    \/ order[o] = "IN_SERVICE" /\ alloc[o] = "IN_SERVICE" /\ delivery[o] \in {"IN_SERVICE", "CLEANING"}
    \/ /\ order[o] = "COMPLETED" /\ delivery[o] \in CleaningOn
       /\ alloc[o] = "LOCKED" \/ (alloc[o] = "RELEASED" /\ node[o] = "clean")
    \/ order[o] = "REFUNDED" /\ alloc[o] = "CANCELLED" /\ delivery[o] # "NONE"

(* The node is where the delivery is, or a step ahead.                     *)
Hosted(o) ==
    /\ \/ node[o] = "none" /\ delivery[o] \in {"NONE", "AWAITING_PAYMENT", "AWAITING_KEY"}
       \/ node[o] = "key" /\ delivery[o] \in {"AWAITING_KEY", "PROVISIONING", "READY"}
       \/ node[o] = "running" /\ delivery[o] \in {"READY", "IN_SERVICE"}
       \/ node[o] = "stopped" /\ delivery[o] \in {"IN_SERVICE", "CLEANING"}
       \/ node[o] = "clean" /\ delivery[o] \in CleaningOn
    /\ node[o] # "none" => order[o] \in AfterPaid
    /\ order[o] \in AfterPaid \ {"PAID", "REFUNDED"} => node[o] # "none"
    /\ node[o] = "running" => order[o] \in AfterDelivered
    /\ node[o] = "stopped" => order[o] \in AfterStart
    /\ node[o] = "clean" => order[o] \in AfterStop
    /\ "preparing" \in receipts[o] => delivery[o] \in PreparedOn
    /\ "ready" \in receipts[o] => delivery[o] \in ReadyOn

ErrandSteps == {"settling", "register", "provisioning", "preparing", "ready", "delivered", "probing",
                "start", "stop", "clean", "started", "stopped", "cleaned", "serving", "completing"}
Sight == [status : {"NONE", "PENDING", "CAPTURED", "CLOSED", "REFUND_PENDING", "REFUNDED"},
          events : SUBSET Event, order : OrderStatus, late : BOOLEAN, delivery : DeliveryStatus]
Errands == [step : ErrandSteps, o : TrialOrders]
Notices == [step : {"notified"}, o : TrialOrders, saw : Sight, event : Event]
Claims  == [step : {"claimed", "succeeded", "failed"}, o : TrialOrders, c : Refs, token : Nat]
Payings == [step : {"paying", "returned", "succeeded", "failed"}, o : TrialOrders, c : Refs, token : Nat, event : Event]
Entering == [step : {"recording", "succeeded", "failed"}, o : TrialOrders, c : Refs, token : Nat,
             event : Event, saw : Sight]

(* What a request on the delivery of an order has read or done.            *)
ErrandOn(o, step) ==
    /\ step \in {"register", "provisioning", "preparing", "ready", "delivered"} =>
           order[o] \in AfterPaid /\ delivery[o] \in AwaitedOn
    /\ step \in {"provisioning", "preparing", "ready", "delivered"} => node[o] \in KeyOn
    /\ step = "preparing" => "provisioning" \in receipts[o]
    /\ step = "ready" => "preparing" \in receipts[o]
    /\ step = "delivered" => "ready" \in receipts[o]
    /\ step \in {"start", "started", "serving"} => order[o] \in AfterDelivered /\ delivery[o] \in ReadyOn
    /\ step \in {"started", "serving"} => node[o] \in RunningOn
    /\ step = "serving" => delivery[o] \in ServedOn
    /\ step \in {"stop", "stopped", "completing"} => order[o] \in AfterStart /\ delivery[o] \in ServedOn
    /\ step \in {"stopped", "completing"} => node[o] \in StoppedOn
    /\ step = "completing" => delivery[o] \in CleaningOn
    /\ step \in {"clean", "cleaned"} => order[o] \in AfterStop /\ delivery[o] \in CleaningOn
    /\ step = "cleaned" => node[o] = "clean"

(* How an order was paid, or left half paid.                               *)
Card == [status |-> "CAPTURED", provider |-> "KAI_CARD_HOUR"]
Unpaid(o) == order[o] \in {"NONE", "PAYMENT_PENDING"} /\ payment[o] = NoPayment /\ payEvents[o] = {} /\ debit[o] = "NONE"
Settled(o) == /\ order[o] \in AfterPaid \ {"REFUNDED"} /\ debit[o] = "CAPTURED"
              /\ payment[o] = Card /\ payEvents[o] = {Captured}
HalfSettled(o) ==
    /\ o \in HalfPaid /\ debit[o] = "CAPTURED"
    /\ \/ /\ order[o] = "PAYMENT_PENDING" /\ payEvents[o] = {}
          /\ payment[o] \in {NoPayment, [status |-> "PENDING", provider |-> "KAI_CARD_HOUR"]}
       \/ /\ order[o] = "REFUND_PENDING" /\ payEvents[o] = {Captured}
          /\ payment[o] = [status |-> "REFUND_PENDING", provider |-> "KAI_CARD_HOUR"]
PaidByAlipay(o) ==
    /\ o \in AlipayTrials /\ order[o] # "NONE" /\ debit[o] = "NONE" /\ payment[o].provider = "ALIPAY"
    /\ payment[o].status # "NONE"
    /\ delivery[o] # "AWAITING_PAYMENT" => \E e \in payEvents[o] : e.type = "CAPTURED"
    /\ payment[o].status = "REFUNDED" => RefundedTo(o) = Total
    /\ order[o] = "REFUNDED" => RefundedTo(o) = Total
Bought(o) == Unpaid(o) \/ Settled(o) \/ HalfSettled(o) \/ PaidByAlipay(o)

(* An order has one event of a type, and a refund on record was made.      *)
Kept(o) ==
    /\ payEvents[o] \subseteq Event /\ IsFiniteSet(payEvents[o])
    /\ \A x, y \in payEvents[o] : x.type = y.type => x = y
    /\ \A e \in payEvents[o] : /\ e.type \in RefundTypes <=> e.ref \in Refs
                               /\ e.ref \in Refs => e.ref \in returned /\ refund[e.ref].o = o
                                                    /\ refund[e.ref].status # "NONE"

(* A sight of an order that is still complete is still right.              *)
Fresh(o, saw) ==
    /\ payment[o].provider = "ALIPAY" /\ saw.events \subseteq payEvents[o]
    /\ saw.events = payEvents[o] => /\ saw.status = payment[o].status
                                    /\ saw.order = "PAYMENT_PENDING" => order[o] = "PAYMENT_PENDING"
                                    /\ saw.delivery # "NONE"

(* A refund from its request to its end.                                   *)
Asked(c) ==
    /\ refund[c].token = refund[c].claims
    /\ refund[c].status # "NONE" => refund[c].o \in TrialOrders /\ refund[c].amount \in Amounts
    /\ refund[c].status \in {"APPROVED", "REJECTED"} => refund[c].by # refund[c].decider
    /\ refund[c].claims > 0 => refund[c].status = "APPROVED"
    /\ refund[c].run # "NONE" => refund[c].claims > 0
    /\ refund[c].run = "SUCCEEDED" => c \in returned /\ OnRecord(refund[c].o, c)

(* One execution of an order runs at a time, and Alipay was asked for what *)
(* was approved.                                                           *)
Approved ==
    /\ \A c, d \in Refs : c # d /\ refund[c].run = "PROCESSING" /\ refund[d].run = "PROCESSING" =>
           refund[c].o # refund[d].o
    /\ \A c \in returned : refund[c].status = "APPROVED"

(* What the callback of Alipay carries.                                    *)
Notified(r) ==
    /\ Fresh(r.o, r.saw) /\ r.event.ref = "notify" /\ r.event.type \in {"CAPTURED", "CLOSED"}

(* What the executor of a refund carries.                                  *)
Executing(r) ==
    /\ refund[r.c].status = "APPROVED" /\ refund[r.c].o = r.o
    /\ r.step \in {"paying", "returned", "recording"} =>
           /\ payment[r.o].provider = "ALIPAY" /\ r.event.type \in RefundTypes
           /\ r.event.ref = r.c /\ r.event.amount = refund[r.c].amount
    /\ r.step \in {"returned", "recording"} => r.c \in returned
    /\ r.step = "recording" => Fresh(r.o, r.saw) /\ r.event.amount <= Total - Refunded(r.saw.events)
    /\ r.step = "succeeded" => r.c \in returned /\ OnRecord(r.o, r.c)

(* What a request carries.                                                 *)
Executions == Claims \cup Payings \cup Entering
Kinds == {Idle} \cup Errands \cup Notices \cup Executions
Carrying(r) ==
    /\ r \in Errands => ErrandOn(r.o, r.step)
    /\ r \in Notices => Notified(r)
    /\ r \in Executions => Executing(r)
Carried(w) == Carrying(trialReq[w])

Refund == [status : {"NONE", "PENDING", "APPROVED", "REJECTED"}, o : TrialOrders \cup {"NONE"},
           amount : Amounts \cup {0}, by : Admins \cup {"NONE"}, decider : Admins \cup {"NONE"},
           run : {"NONE", "PROCESSING", "FAILED", "SUCCEEDED"}, claims : Nat, token : Nat, old : BOOLEAN]

(* The rows are typed.                                                     *)
TrialRows ==
    /\ order \in [TrialOrders -> OrderStatus] /\ late \in [TrialOrders -> BOOLEAN]
    /\ alloc \in [TrialOrders -> Counted \cup {"NONE", "CANCELLED"}]
    /\ delivery \in [TrialOrders -> DeliveryStatus]
    /\ check \in [TrialOrders -> {"NONE", "PASSED", "FAILED"}]
    /\ payment \in [TrialOrders -> [status : {"NONE", "PENDING", "CAPTURED", "CLOSED", "REFUND_PENDING", "REFUNDED"},
                                    provider : {"NONE", "ALIPAY", "KAI_CARD_HOUR"}]]
    /\ payEvents \in [TrialOrders -> SUBSET Event]
    /\ debit \in [TrialOrders -> {"NONE", "CAPTURED"}]
    /\ alipay \in [TrialOrders -> {"none", "open", "paid", "closed"}]
    /\ receipts \in [TrialOrders -> SUBSET {"provisioning", "preparing", "ready", "delivered"}]
    /\ node \in [TrialOrders -> {"none", "key", "running", "stopped", "clean"}]
    /\ returned \subseteq Refs
    /\ trialReq \in [Workers -> Kinds]
    /\ refund \in [Refs -> Refund]

(* Hours are sold once, and not beyond the promotion.                      *)
Sold ==
    /\ \A o, p \in TrialOrders : o # p /\ Overlap(o, p) => ~(alloc[o] \in Occupying /\ alloc[p] \in Occupying)
    /\ HoursSold <= MaxHours
    /\ Cardinality({o \in TrialOrders : order[o] # "NONE"}) <= MaxBuyers

Trialled ==
    /\ TrialRows
    /\ \A o \in TrialOrders : Placed(o) /\ Hosted(o) /\ Bought(o) /\ Kept(o)
    /\ \A w \in Workers : Carried(w)
    /\ \A c \in Refs : Asked(c)
    /\ Approved
    /\ Sold

Here(o) == Placed(o) /\ Hosted(o) /\ Bought(o) /\ Kept(o)

(* The rows of an order stay, but for its expiry, check and trade.         *)
SameRow(o) ==
    /\ order'[o] = order[o] /\ alloc'[o] = alloc[o] /\ delivery'[o] = delivery[o]
    /\ payment'[o] = payment[o] /\ payEvents'[o] = payEvents[o] /\ debit'[o] = debit[o]
    /\ receipts'[o] = receipts[o] /\ node'[o] = node[o]

(* An order, its delivery and its node go forward,                         *)
Forward(o) ==
    /\ order[o] \in AfterPaid => order'[o] \in AfterPaid
    /\ order[o] \in AfterDelivered => order'[o] \in AfterDelivered
    /\ order[o] \in AfterStart => order'[o] \in AfterStart
    /\ order[o] \in AfterStop => order'[o] \in AfterStop
    /\ delivery[o] \in AwaitedOn => delivery'[o] \in AwaitedOn
    /\ delivery[o] \in ReadyOn => delivery'[o] \in ReadyOn
    /\ delivery[o] \in ServedOn => delivery'[o] \in ServedOn
    /\ delivery[o] \in CleaningOn => delivery'[o] \in CleaningOn
    /\ node[o] \in KeyOn => node'[o] \in KeyOn
    /\ node[o] \in RunningOn => node'[o] \in RunningOn
    /\ node[o] \in StoppedOn => node'[o] \in StoppedOn
    /\ node[o] = "clean" => node'[o] = "clean"
    /\ receipts[o] \subseteq receipts'[o]

(* and so do its payment and its events.                                   *)
Onward(o) ==
    /\ payEvents[o] \subseteq payEvents'[o]
    /\ payment[o].provider = "ALIPAY" => payment'[o].provider = "ALIPAY"
    /\ payment[o].provider = "ALIPAY" /\ payEvents'[o] = payEvents[o] =>
           /\ payment'[o].status = payment[o].status
           /\ order[o] = "PAYMENT_PENDING" => order'[o] = "PAYMENT_PENDING"

RefundOnward(c) ==
    /\ refund[c].status # "NONE" => /\ refund'[c].o = refund[c].o /\ refund'[c].amount = refund[c].amount
                                    /\ refund'[c].status # "NONE"
    /\ refund[c].status = "APPROVED" => refund'[c].status = "APPROVED"

(* A sight stays right while the order goes on.                            *)
LEMMA FreshStays ==
    ASSUME NEW o, NEW saw, Fresh(o, saw), Onward(o)
    PROVE  Fresh(o, saw)'
<1>1. saw.events \subseteq payEvents'[o]
  BY DEF Fresh, Onward
<1>2. saw.events = payEvents'[o] => payEvents'[o] = payEvents[o] /\ saw.events = payEvents[o]
  BY DEF Fresh, Onward
<1> QED BY <1>1, <1>2 DEF Fresh, Onward

(* Requests are told apart by their steps.                                 *)
LEMMA RequestKinds ==
    ASSUME NEW r \in Kinds
    PROVE  /\ r.step \in ErrandSteps <=> r \in Errands
           /\ r.step = "notified" <=> r \in Notices
           /\ r.step \in {"claimed", "paying", "returned", "recording", "succeeded", "failed"} <=> r \in Executions
           /\ r.step = "idle" <=> r = Idle
<1>1. Idle.step = "idle"
  BY DEF Idle
<1>2. \A x \in Errands : x.step \in ErrandSteps
  BY DEF Errands
<1>3. \A x \in Notices : x.step = "notified"
  BY DEF Notices
<1>4. \A x \in Executions : x.step \in {"claimed", "paying", "returned", "recording", "succeeded", "failed"}
  BY DEF Executions, Claims, Payings, Entering
<1>5. /\ "idle" \notin ErrandSteps /\ "notified" \notin ErrandSteps
      /\ \A s \in ErrandSteps : s \notin {"claimed", "paying", "returned", "recording", "succeeded", "failed"}
  BY DEF ErrandSteps
<1> QED BY <1>1, <1>2, <1>3, <1>4, <1>5 DEF Kinds

(* What an execution names.                                                *)
LEMMA ExecutionNames ==
    ASSUME NEW r \in Executions
    PROVE  /\ r.o \in TrialOrders /\ r.c \in Refs /\ r.token \in Nat
           /\ r.step \in {"paying", "returned", "recording"} => r.event \in Event
           /\ r.step = "recording" => r \in Entering /\ r.saw \in Sight
           /\ r.step \in {"paying", "returned"} => r \in Payings
BY DEF Executions, Claims, Payings, Entering

(* What a request carries stays true while the orders and refunds go on.   *)
LEMMA CarryingStays ==
    ASSUME NEW r \in Kinds, Carrying(r),
           \A o \in TrialOrders : Forward(o) /\ Onward(o),
           \A c \in Refs : RefundOnward(c), returned \subseteq returned'
    PROVE  Carrying(r)'
<1>1. CASE r = Idle
  BY <1>1, RequestKinds DEF Carrying, ErrandSteps
<1>2. CASE r \in Errands
  <2>1. ErrandOn(r.o, r.step) /\ Forward(r.o)
    BY <1>2 DEF Carrying, Errands
  <2>2. ErrandOn(r.o, r.step)'
    BY <2>1 DEF ErrandOn, Forward
  <2>3. r \notin Notices /\ r \notin Executions
    BY <1>2, RequestKinds DEF ErrandSteps
  <2> QED BY <2>2, <2>3 DEF Carrying
<1>3. CASE r \in Notices
  <2>1. Notified(r) /\ Onward(r.o)
    BY <1>3 DEF Carrying, Notices
  <2>2. Notified(r)'
    BY <2>1, FreshStays DEF Notified
  <2>3. r \notin Errands /\ r \notin Executions
    BY <1>3, RequestKinds DEF ErrandSteps
  <2> QED BY <2>2, <2>3 DEF Carrying
<1>4. CASE r \in Executions
  <2>1. Executing(r) /\ Onward(r.o) /\ RefundOnward(r.c)
    BY <1>4, ExecutionNames DEF Carrying
  <2>2. refund'[r.c].status = "APPROVED" /\ refund'[r.c].o = r.o /\ refund'[r.c].amount = refund[r.c].amount
    BY <2>1 DEF Executing, RefundOnward
  <2>3. r.step = "recording" => Fresh(r.o, r.saw)' /\ r.event.amount <= Total - Refunded(r.saw.events)
    BY <2>1, FreshStays DEF Executing
  <2>4. OnRecord(r.o, r.c) => OnRecord(r.o, r.c)'
    BY <2>1 DEF OnRecord, Onward
  <2>5. payment[r.o].provider = "ALIPAY" => payment'[r.o].provider = "ALIPAY"
    BY <2>1 DEF Onward
  <2>6. Executing(r)'
    BY <2>1, <2>2, <2>3, <2>4, <2>5 DEF Executing
  <2>7. r \notin Errands /\ r \notin Notices
    BY <1>4, RequestKinds DEF ErrandSteps
  <2> QED BY <2>6, <2>7 DEF Carrying
<1> QED BY <1>1, <1>2, <1>3, <1>4 DEF Kinds

(* Who carries what stays true carries the truth.                          *)
LEMMA Carries ==
    ASSUME NEW w, NEW r, r = trialReq'[w], Carrying(r)'
    PROVE  Carried(w)'
BY DEF Carried, Carrying, ErrandOn, Notified, Executing, Fresh, OnRecord

(* The rows of an order that stay are still right.                         *)
LEMMA HereStays ==
    ASSUME NEW o \in TrialOrders, Here(o), SameRow(o), \A e \in payEvents[o] : e.ref \in Refs => RefundOnward(e.ref),
           returned \subseteq returned'
    PROVE  Here(o)' /\ Forward(o) /\ Onward(o)
<1>1. Placed(o)' /\ Hosted(o)'
  BY DEF Here, SameRow, Placed, Hosted
<1>2. Bought(o)'
  BY DEF Here, SameRow, Bought, Unpaid, Settled, HalfSettled, PaidByAlipay, RefundedTo
<1>3. Kept(o)'
  BY DEF Here, SameRow, Kept, RefundOnward
<1>4. Forward(o) /\ Onward(o)
  BY DEF SameRow, Forward, Onward
<1> QED BY <1>1, <1>2, <1>3, <1>4 DEF Here

(* A refund that stays is still right.                                     *)
LEMMA AskedStays ==
    ASSUME NEW c \in Refs, Asked(c), refund'[c] = refund[c], returned \subseteq returned',
           refund[c].status # "NONE" => Onward(refund[c].o)
    PROVE  Asked(c)' /\ RefundOnward(c)
<1>1. refund[c].status # "NONE" => (OnRecord(refund[c].o, c) => \E e \in payEvents'[refund'[c].o] : e.ref = c)
  BY DEF OnRecord, Onward
<1>2. refund[c].run = "SUCCEEDED" => refund[c].status # "NONE"
  BY DEF Asked
<1> QED BY <1>1, <1>2 DEF Asked, RefundOnward, OnRecord

(* What a step has to show.                                                *)
LEMMA TrialStep ==
    ASSUME Trialled, TrialRows', returned \subseteq returned',
           \A o \in TrialOrders : SameRow(o) \/ (Forward(o) /\ Onward(o)),
           \A c \in Refs : RefundOnward(c),
           \A o \in TrialOrders : SameRow(o) \/ Here(o)',
           \A c \in Refs : refund'[c] = refund[c] \/ Asked(c)',
           \A w \in Workers : trialReq'[w] = trialReq[w] \/ Carried(w)',
           Approved', Sold'
    PROVE  Trialled'
<1>1. \A o \in TrialOrders : Here(o)' /\ Forward(o) /\ Onward(o)
  BY HereStays DEF Trialled, Here
<1>2. \A c \in Refs : Asked(c)'
  <2> SUFFICES ASSUME NEW c \in Refs, refund'[c] = refund[c] PROVE Asked(c)'
    OBVIOUS
  <2>1. Asked(c) /\ (refund[c].status # "NONE" => Onward(refund[c].o))
    BY <1>1 DEF Trialled, Asked
  <2> QED BY <2>1, AskedStays
<1>3. \A w \in Workers : Carried(w)'
  <2> SUFFICES ASSUME NEW w \in Workers, trialReq'[w] = trialReq[w] PROVE Carried(w)'
    OBVIOUS
  <2>1. PICK r : r = trialReq[w] /\ r = trialReq'[w]
    OBVIOUS
  <2>2. r \in Kinds /\ Carrying(r)
    BY <2>1 DEF Trialled, TrialRows, Carried
  <2>3. Carrying(r)'
    BY <1>1, <2>2, CarryingStays
  <2> QED BY <2>1, <2>3, Carries
<1> QED BY <1>1, <1>2, <1>3 DEF Trialled, Here

Size == [o \in TrialOrders |-> Cardinality(Slots[o])]
IsHours(it, S) ==
    it = [s \in SUBSET S |-> IF s = {} THEN 0 ELSE Cardinality(Slots[AnyOf(s)]) + it[s \ {AnyOf(s)}]]

(* The hours of some orders are a sum.                                     *)
LEMMA HoursAreSum ==
    ASSUME NEW S, S \subseteq TrialOrders
    PROVE  HoursOf(S) = SumOf(Size, S)
<1>1. IsFiniteSet(S)
  BY HalfPaidAssumption, FS_Subset
<1>2. ASSUME NEW it PROVE IsHours(it, S) <=> IsTable(it, Size, S)
  <2>1. \A s \in SUBSET S : s # {} => Size[AnyOf(s)] = Cardinality(Slots[AnyOf(s)])
    BY AnyIsIn DEF Size
  <2> DEFINE f == [s \in SUBSET S |-> IF s = {} THEN 0 ELSE Size[AnyOf(s)] + it[s \ {AnyOf(s)}]]
             g == [s \in SUBSET S |-> IF s = {} THEN 0 ELSE Cardinality(Slots[AnyOf(s)]) + it[s \ {AnyOf(s)}]]
  <2>2. f = g
    BY <2>1
  <2> QED BY <2>2 DEF IsHours, IsTable
<1> DEFINE jt == CHOOSE it : IsHours(it, S)
<1>3. HoursOf(S) = jt[S]
  BY DEF HoursOf, MapThenSumSet, MapThenFoldSet, IsHours, AnyOf
<1>4. IsTable(jt, Size, S)
  <2>1. PICK it : IsTable(it, Size, S)
    BY <1>1, TableExists
  <2>2. IsHours(it, S)
    BY <1>2, <2>1
  <2>3. IsHours(jt, S)
    BY <2>2
  <2> QED BY <1>2, <2>3
<1> HIDE DEF jt
<1>5. PICK it : IsTable(it, Size, S) /\ SumOf(Size, S) = it[S]
  BY <1>1, SumIsTable
<1>6. it[S] = jt[S]
  BY <1>1, <1>4, <1>5, TablesAgree
<1> QED BY <1>3, <1>5, <1>6

Worth(S) == [e \in S |-> e.amount]
IsWorth(it, S) ==
    it = [s \in SUBSET S |-> IF s = {} THEN 0 ELSE AnyOf(s).amount + it[s \ {AnyOf(s)}]]

(* What was refunded is a sum.                                             *)
LEMMA WorthIsSum ==
    ASSUME NEW S, IsFiniteSet(S)
    PROVE  MapThenSumSet(LAMBDA e : e.amount, S) = SumOf(Worth(S), S)
<1>2. ASSUME NEW it PROVE IsWorth(it, S) <=> IsTable(it, Worth(S), S)
  <2>1. \A s \in SUBSET S : s # {} => Worth(S)[AnyOf(s)] = AnyOf(s).amount
    BY AnyIsIn DEF Worth
  <2> DEFINE w == Worth(S)
  <2> DEFINE f == [s \in SUBSET S |-> IF s = {} THEN 0 ELSE w[AnyOf(s)] + it[s \ {AnyOf(s)}]]
             g == [s \in SUBSET S |-> IF s = {} THEN 0 ELSE AnyOf(s).amount + it[s \ {AnyOf(s)}]]
  <2>2. f = g
    BY <2>1
  <2> QED BY <2>2 DEF IsWorth, IsTable
<1> DEFINE jt == CHOOSE it : IsWorth(it, S)
<1>3. MapThenSumSet(LAMBDA e : e.amount, S) = jt[S]
  BY DEF MapThenSumSet, MapThenFoldSet, IsWorth, AnyOf
<1>4. IsTable(jt, Worth(S), S)
  <2>1. PICK it : IsTable(it, Worth(S), S)
    BY TableExists
  <2>2. IsWorth(it, S)
    BY <1>2, <2>1
  <2>3. IsWorth(jt, S)
    BY <2>2
  <2> QED BY <1>2, <2>3
<1> HIDE DEF jt
<1>5. PICK it : IsTable(it, Worth(S), S) /\ SumOf(Worth(S), S) = it[S]
  BY SumIsTable
<1>6. it[S] = jt[S]
  BY <1>4, <1>5, TablesAgree
<1> QED BY <1>3, <1>5, <1>6

(* An event adds its amount when it is a refund.                           *)
LEMMA RefundedWith ==
    ASSUME NEW S, IsFiniteSet(S), NEW e, e \notin S, \A x \in S \cup {e} : x.amount \in Nat
    PROVE  /\ Refunded(S) \in Nat
           /\ Refunded(S \cup {e}) = Refunded(S) + IF e.type \in RefundTypes THEN e.amount ELSE 0
<1> DEFINE R(U) == {x \in U : x.type \in RefundTypes}
<1>1. IsFiniteSet(S \cup {e})
  BY FS_AddElement, Zenon
<1>2. IsFiniteSet(R(S)) /\ IsFiniteSet(R(S \cup {e}))
  BY <1>1, FS_Subset
<1>3. Refunded(S) = SumOf(Worth(R(S)), R(S)) /\ Refunded(S \cup {e}) = SumOf(Worth(R(S \cup {e})), R(S \cup {e}))
  BY <1>2, WorthIsSum DEF Refunded
<1>4. \A x \in R(S) : Worth(R(S))[x] = x.amount
  BY DEF Worth
<1>5. \A x \in R(S \cup {e}) : Worth(R(S \cup {e}))[x] = x.amount
  BY DEF Worth
<1>6. Refunded(S) \in Nat
  BY <1>2, <1>3, <1>4, SumOfNaturals
<1>7. CASE e.type \in RefundTypes
  <2>1. R(S \cup {e}) = R(S) \cup {e} /\ e \notin R(S)
    BY <1>7
  <2> DEFINE f == Worth(R(S))
             g == Worth(R(S \cup {e}))
             A == R(S)
  <2>2. \A x \in A \cup {e} : g[x] = x.amount /\ g[x] \in Int
    BY <1>5, <2>1
  <2>3. \A x \in A : f[x] = g[x]
    BY <1>4, <2>2
  <2>4. e \notin A /\ IsFiniteSet(A) /\ Refunded(S) = SumOf(f, A) /\ Refunded(S \cup {e}) = SumOf(g, A \cup {e})
    BY <1>2, <1>3, <2>1
  <2> HIDE DEF f, g, A
  <2>5. SumOf(g, A \cup {e}) = g[e] + SumOf(g, A)
    BY <2>2, <2>4, SumWith
  <2>6. SumOf(f, A) = SumOf(g, A)
    BY <2>3, <2>4, SumOfSame
  <2> QED BY <1>6, <1>7, <2>2, <2>4, <2>5, <2>6
<1>8. CASE e.type \notin RefundTypes
  <2>1. R(S \cup {e}) = R(S)
    BY <1>8
  <2>2. Refunded(S \cup {e}) = Refunded(S)
    BY <2>1 DEF Refunded
  <2> QED BY <1>6, <1>8, <2>2
<1> QED BY <1>6, <1>7, <1>8

(* Hours that are no longer counted, and orders that go on, keep within    *)
(* the promotion.                                                          *)
LEMMA SoldStays ==
    ASSUME Sold, \A o \in TrialOrders : /\ alloc'[o] \in Occupying => alloc[o] \in Occupying
                                        /\ alloc'[o] \in Counted => alloc[o] \in Counted
                                        /\ order'[o] # "NONE" => order[o] # "NONE"
    PROVE  Sold'
<1> DEFINE A == {o \in TrialOrders : alloc[o] \in Counted}
           B == {o \in TrialOrders : alloc'[o] \in Counted}
           C == {o \in TrialOrders : order[o] # "NONE"}
           D == {o \in TrialOrders : order'[o] # "NONE"}
<1>1. B \subseteq A /\ D \subseteq C
  OBVIOUS
<1>2. IsFiniteSet(A) /\ IsFiniteSet(B) /\ IsFiniteSet(C)
  BY HalfPaidAssumption, FS_Subset
<1>3. HoursSold = SumOf(Size, A) /\ HoursSold' = SumOf(Size, B)
  <2>1. HoursSold = SumOf(Size, A)
    BY HoursAreSum DEF HoursSold
  <2>2. HoursSold' = SumOf(Size, B)
    BY HoursAreSum DEF HoursSold
  <2> QED BY <2>1, <2>2
<1>4. \A o \in A : Size[o] \in Nat
  BY HalfPaidAssumption, FS_CardinalityType DEF Size
<1>5. SumOf(Size, B) <= SumOf(Size, A) /\ SumOf(Size, A) \in Nat /\ SumOf(Size, B) \in Nat
  BY <1>1, <1>2, <1>4, SumOfPart, SumOfNaturals
<1>6. Cardinality(D) <= Cardinality(C) /\ Cardinality(C) \in Nat /\ Cardinality(D) \in Nat
  BY <1>1, <1>2, FS_Subset, FS_CardinalityType
<1>7. Cardinality(C) <= MaxBuyers
  BY DEF Sold
<1>8. Cardinality(D) <= MaxBuyers
  BY <1>6, <1>7, SupplyAssumption
<1>9. HoursSold' <= MaxHours
  BY <1>3, <1>5, SupplyAssumption DEF Sold
<1>10. \A o, p \in TrialOrders : o # p /\ Overlap(o, p) => ~(alloc'[o] \in Occupying /\ alloc'[p] \in Occupying)
  BY DEF Sold
<1> QED BY <1>8, <1>9, <1>10 DEF Sold, Overlap

(* An order that Alipay knows is one that Alipay pays.                     *)
LEMMA AlipayPays == ASSUME NEW o, Bought(o), payment[o].provider = "ALIPAY" PROVE PaidByAlipay(o)
BY DEF Bought, Unpaid, Settled, HalfSettled, Card, NoPayment

MoneyTyped ==
    /\ order \in [TrialOrders -> OrderStatus]
    /\ alloc \in [TrialOrders -> Counted \cup {"NONE", "CANCELLED"}]
    /\ delivery \in [TrialOrders -> DeliveryStatus]
    /\ payment \in [TrialOrders -> [status : {"NONE", "PENDING", "CAPTURED", "CLOSED", "REFUND_PENDING", "REFUNDED"},
                                    provider : {"NONE", "ALIPAY", "KAI_CARD_HOUR"}]]
    /\ payEvents \in [TrialOrders -> SUBSET Event]

Enters(o, e) ==
    \/ e.ref = "notify" /\ e.type \in {"CAPTURED", "CLOSED"}
    \/ /\ e.ref \in Refs /\ e.type \in RefundTypes /\ e.ref \in returned
       /\ refund[e.ref].o = o /\ refund[e.ref].status = "APPROVED"

(* What the batch of an event does, by cases.                              *)
Captures(o, late0) ==
    /\ order[o] = "PAYMENT_PENDING" /\ alloc'[o] = "LOCKED"
    /\ \/ late0 /\ payment'[o].status = "REFUND_PENDING" /\ order'[o] = "REFUND_PENDING" /\ delivery'[o] = delivery[o]
       \/ ~late0 /\ payment'[o].status = "CAPTURED" /\ order'[o] = "PAID" /\ delivery'[o] = "AWAITING_KEY"
Releases(o) ==
    /\ payment'[o].status = "REFUNDED" /\ order'[o] = "REFUNDED" /\ alloc'[o] = "CANCELLED" /\ delivery'[o] = delivery[o]
Enrolls(o, full) ==
    /\ order'[o] = order[o] /\ alloc'[o] = alloc[o] /\ delivery'[o] = delivery[o]
    /\ payment'[o].status = IF full THEN "REFUNDED" ELSE payment'[o].status
    /\ ~full => payment'[o].status \in {"CLOSED", payment[o].status}

(* The batch, taken apart.                                                 *)
LEMMA PostCases ==
    ASSUME MoneyTyped, NEW o \in TrialOrders, NEW e \in Event, NEW saw \in Sight, Fresh(o, saw), Post(o, e, saw)
    PROVE  LET full == e.type \in RefundTypes /\ Refunded(payEvents[o]) + e.amount = Total
           IN /\ MoneyTyped'
              /\ \A x \in payEvents[o] : x.type # e.type
              /\ payEvents'[o] = payEvents[o] \cup {e} /\ payment'[o].provider = payment[o].provider
              /\ \A p \in TrialOrders : p # o => /\ order'[p] = order[p] /\ alloc'[p] = alloc[p]
                                                 /\ delivery'[p] = delivery[p] /\ payment'[p] = payment[p]
                                                 /\ payEvents'[p] = payEvents[p]
              /\ \/ e.type = "CAPTURED" /\ Captures(o, saw.late)
                 \/ full /\ Releases(o)
                 \/ Enrolls(o, full)
<1> DEFINE pending == e.type = "CAPTURED" /\ saw.order = "PAYMENT_PENDING"
           full    == e.type \in RefundTypes /\ Refunded(saw.events) + e.amount = Total
           release == full /\ saw.delivery \in Untouched
           mark    == CASE pending             -> IF saw.late THEN "REFUND_PENDING" ELSE "CAPTURED"
                        [] e.type = "CLOSED"   -> "CLOSED"
                        [] full                -> "REFUNDED"
                        [] OTHER               -> saw.status
           there   == CASE pending /\ order[o] = "PAYMENT_PENDING" -> IF saw.late THEN "REFUND_PENDING" ELSE "PAID"
                        [] release -> "REFUNDED"
                        [] OTHER   -> order[o]
           hours   == CASE pending -> "LOCKED" [] release -> "CANCELLED" [] OTHER -> alloc[o]
           step    == IF pending /\ order'[o] = "PAID" THEN "AWAITING_KEY" ELSE delivery[o]
<1>1. /\ payEvents[o] = saw.events /\ \A x \in payEvents[o] : x.type # e.type
      /\ payEvents' = [payEvents EXCEPT ![o] = payEvents[o] \cup {e}]
      /\ payment' = [payment EXCEPT ![o].status = mark]
      /\ order' = [order EXCEPT ![o] = there]
      /\ alloc' = [alloc EXCEPT ![o] = hours]
      /\ delivery' = [delivery EXCEPT ![o] = step]
  BY DEF Post, Postable
<1>2. /\ saw.status = payment[o].status
      /\ saw.order = "PAYMENT_PENDING" => order[o] = "PAYMENT_PENDING"
  BY <1>1 DEF Fresh
<1>3. e.type \in {"CAPTURED", "CLOSED"} \cup RefundTypes /\ "CAPTURED" \notin RefundTypes /\ "CLOSED" \notin RefundTypes
  BY DEF Event, RefundTypes
<1>4. CASE pending
  <2>1. mark = IF saw.late THEN "REFUND_PENDING" ELSE "CAPTURED"
    BY <1>3, <1>4
  <2>2. there = IF saw.late THEN "REFUND_PENDING" ELSE "PAID"
    BY <1>2, <1>3, <1>4
  <2>3. hours = "LOCKED"
    BY <1>3, <1>4
  <2> HIDE DEF mark, there, hours
  <2>4. order'[o] = there /\ alloc'[o] = hours
    BY <1>1 DEF MoneyTyped
  <2>5. step = IF saw.late THEN delivery[o] ELSE "AWAITING_KEY"
    BY <1>4, <2>2, <2>4
  <2> HIDE DEF step
  <2>6. saw.late \in BOOLEAN
    BY DEF Sight
  <2>7. MoneyTyped'
    BY <1>1, <2>1, <2>2, <2>3, <2>5, <2>6 DEF MoneyTyped, OrderStatus, DeliveryStatus, Counted
  <2>8. /\ payment'[o].status = mark /\ payment'[o].provider = payment[o].provider /\ delivery'[o] = step
        /\ payEvents'[o] = payEvents[o] \cup {e}
    BY <1>1 DEF MoneyTyped
  <2>9. Captures(o, saw.late)
    BY <1>2, <1>4, <2>1, <2>2, <2>3, <2>4, <2>5, <2>6, <2>8 DEF Captures
  <2> QED BY <1>1, <1>4, <2>7, <2>8, <2>9 DEF MoneyTyped
<1>5. CASE ~pending
  <2>1. step = delivery[o] /\ hours = IF release THEN "CANCELLED" ELSE alloc[o]
    BY <1>5
  <2>2. there = IF release THEN "REFUNDED" ELSE order[o]
    BY <1>5
  <2>3. mark = IF full THEN "REFUNDED" ELSE IF e.type = "CLOSED" THEN "CLOSED" ELSE saw.status
    BY <1>3, <1>5
  <2> HIDE DEF mark, there, hours, step
  <2>4. mark \in {"NONE", "PENDING", "CAPTURED", "CLOSED", "REFUND_PENDING", "REFUNDED"}
    BY <2>3 DEF Sight
  <2>5. MoneyTyped'
    BY <1>1, <2>1, <2>2, <2>4 DEF MoneyTyped, OrderStatus, DeliveryStatus, Counted
  <2>6. /\ payment'[o].status = mark /\ payment'[o].provider = payment[o].provider
        /\ delivery'[o] = delivery[o] /\ order'[o] = there /\ alloc'[o] = hours
        /\ payEvents'[o] = payEvents[o] \cup {e}
    BY <1>1, <2>1 DEF MoneyTyped
  <2>7. (full /\ Releases(o)) \/ Enrolls(o, full)
    BY <1>2, <2>1, <2>2, <2>3, <2>6 DEF Releases, Enrolls
  <2>8. full <=> e.type \in RefundTypes /\ Refunded(payEvents[o]) + e.amount = Total
    BY <1>1
  <2> HIDE DEF full
  <2> QED BY <1>1, <2>5, <2>6, <2>7, <2>8 DEF MoneyTyped
<1> QED BY <1>4, <1>5

(* An event that Alipay or an executor enters keeps an order right.        *)
LEMMA PostServes ==
    ASSUME TrialRows, Sold, NEW o \in TrialOrders, \A p \in TrialOrders : Here(p),
           NEW e \in Event, NEW saw \in Sight, Fresh(o, saw), Post(o, e, saw), Enters(o, e),
           e.type \in RefundTypes => e.amount <= Total - Refunded(saw.events),
           UNCHANGED <<debit, receipts, node, refund, returned>>
    PROVE  /\ MoneyTyped' /\ Here(o)' /\ Forward(o) /\ Onward(o) /\ Sold'
           /\ \A p \in TrialOrders : p # o => SameRow(p)
<1> DEFINE full == e.type \in RefundTypes /\ Refunded(payEvents[o]) + e.amount = Total
<1>1. MoneyTyped
  BY DEF TrialRows, MoneyTyped
<1>2. /\ MoneyTyped'
      /\ \A x \in payEvents[o] : x.type # e.type
      /\ payEvents'[o] = payEvents[o] \cup {e} /\ payment'[o].provider = payment[o].provider
      /\ \A p \in TrialOrders : p # o => /\ order'[p] = order[p] /\ alloc'[p] = alloc[p]
                                         /\ delivery'[p] = delivery[p] /\ payment'[p] = payment[p]
                                         /\ payEvents'[p] = payEvents[p]
      /\ \/ e.type = "CAPTURED" /\ Captures(o, saw.late)
         \/ full /\ Releases(o)
         \/ Enrolls(o, full)
  BY <1>1, PostCases
<1>3. saw.events = payEvents[o] /\ payment[o].provider = "ALIPAY"
  BY DEF Post, Postable, Fresh
<1>4. PaidByAlipay(o) /\ Placed(o) /\ Hosted(o) /\ Kept(o)
  BY <1>3, AlipayPays DEF Here
<1>5. order[o] # "NONE" /\ delivery[o] # "NONE"
  BY <1>4 DEF PaidByAlipay, Placed, CleaningOn
<1>6. \A p \in TrialOrders : p # o => SameRow(p)
  BY <1>2 DEF SameRow
<1>7. e \notin payEvents[o] /\ payEvents'[o] # payEvents[o]
  BY <1>2
<1>8. \A x \in payEvents[o] \cup {e} : x.amount \in Nat /\ x.amount >= 1
  BY <1>4, SupplyAssumption DEF Kept, Event
<1>9. /\ Refunded(payEvents[o]) \in Nat
      /\ Refunded(payEvents'[o]) = Refunded(payEvents[o]) + IF e.type \in RefundTypes THEN e.amount ELSE 0
  <2>1. IsFiniteSet(payEvents[o])
    BY <1>4 DEF Kept
  <2> QED BY <1>2, <1>7, <1>8, <2>1, RefundedWith
<1>10. /\ Refunded(payEvents[o]) = Total => Refunded(payEvents'[o]) = Total
       /\ full => Refunded(payEvents'[o]) = Total
  BY <1>3, <1>8, <1>9, SupplyAssumption
<1> HIDE DEF full
<1>11. Kept(o)'
  <2>1. payEvents'[o] \subseteq Event /\ IsFiniteSet(payEvents'[o])
    <3>1. IsFiniteSet(payEvents[o] \cup {e})
      BY <1>4, FS_AddElement, Zenon DEF Kept
    <3> QED BY <1>2, <1>4, <3>1 DEF Kept
  <2>2. \A x, y \in payEvents'[o] : x.type = y.type => x = y
    BY <1>2, <1>4 DEF Kept
  <2>3. e.type \in RefundTypes <=> e.ref \in Refs
    BY SupplyAssumption DEF Enters, RefundTypes
  <2>4. e.ref \in Refs => e.ref \in returned /\ refund[e.ref].o = o /\ refund[e.ref].status # "NONE"
    BY SupplyAssumption DEF Enters
  <2> QED BY <1>2, <1>4, <2>1, <2>2, <2>3, <2>4 DEF Kept
<1>12. Onward(o)
  BY <1>2, <1>7 DEF Onward
<1>13. CASE e.type = "CAPTURED" /\ Captures(o, saw.late)
  <2>1. order[o] = "PAYMENT_PENDING" /\ alloc[o] = "RESERVED" /\ delivery[o] = "AWAITING_PAYMENT" /\ receipts[o] = {}
    BY <1>4, <1>13 DEF Captures, Placed
  <2>2. Placed(o)' /\ Hosted(o)' /\ Forward(o)
    BY <1>4, <1>13, <2>1 DEF Captures, Placed, Hosted, Forward, AfterPaid, AfterDelivered, AfterStart, AfterStop,
       AwaitedOn, ReadyOn, ServedOn, CleaningOn, PreparedOn
  <2>3. PaidByAlipay(o)'
    <3>1. \E x \in payEvents'[o] : x.type = "CAPTURED"
      BY <1>2, <1>13
    <3> QED BY <1>2, <1>4, <1>13, <3>1 DEF Captures, PaidByAlipay
  <2>4. Sold'
    <3>1. alloc[o] \in Occupying /\ alloc[o] \in Counted
      BY <2>1 DEF Occupying, Counted
    <3> QED BY <1>2, <1>5, <3>1, SoldStays
  <2> QED BY <1>2, <1>6, <1>11, <1>12, <2>2, <2>3, <2>4 DEF Here, Bought
<1>14. CASE (full /\ Releases(o)) \/ Enrolls(o, full)
  <2>1. /\ delivery'[o] = delivery[o]
        /\ (full /\ order'[o] = "REFUNDED" /\ alloc'[o] = "CANCELLED") \/ (order'[o] = order[o] /\ alloc'[o] = alloc[o])
        /\ full => payment'[o].status = "REFUNDED"
        /\ ~full => payment'[o].status \in {"CLOSED", payment[o].status}
    BY <1>14 DEF Releases, Enrolls
  <2>2. Placed(o)' /\ Hosted(o)' /\ Forward(o)
    <3>1. CASE order'[o] = order[o] /\ alloc'[o] = alloc[o]
      BY <1>4, <2>1, <3>1 DEF Placed, Hosted, Forward
    <3>2. CASE order'[o] = "REFUNDED" /\ alloc'[o] = "CANCELLED"
      <4>1. Placed(o)'
        BY <1>5, <2>1, <3>2 DEF Placed
      <4>2. Hosted(o)'
        BY <1>4, <2>1, <3>2 DEF Hosted, AfterPaid, AfterDelivered, AfterStart, AfterStop
      <4>3. Forward(o)
        BY <2>1, <3>2 DEF Forward, AfterPaid, AfterDelivered, AfterStart, AfterStop
      <4> QED BY <4>1, <4>2, <4>3
    <3> QED BY <2>1, <3>1, <3>2
  <2>3. PaidByAlipay(o)'
    <3>1. payment'[o].status = "REFUNDED" => Refunded(payEvents'[o]) = Total
      BY <1>4, <1>10, <2>1 DEF PaidByAlipay, RefundedTo
    <3>2. order'[o] = "REFUNDED" => Refunded(payEvents'[o]) = Total
      BY <1>4, <1>10, <2>1 DEF PaidByAlipay, RefundedTo
    <3>3. delivery'[o] # "AWAITING_PAYMENT" => \E x \in payEvents'[o] : x.type = "CAPTURED"
      BY <1>2, <1>4, <2>1 DEF PaidByAlipay
    <3>4. order'[o] # "NONE" /\ payment'[o].status # "NONE"
      BY <1>4, <1>5, <2>1 DEF PaidByAlipay
    <3> QED BY <1>2, <1>4, <3>1, <3>2, <3>3, <3>4 DEF PaidByAlipay, RefundedTo
  <2>4. Sold'
    <3>1. "CANCELLED" \notin Occupying /\ "CANCELLED" \notin Counted
      BY DEF Occupying, Counted
    <3> QED BY <1>2, <1>5, <2>1, <3>1, SoldStays
  <2> QED BY <1>2, <1>6, <1>11, <1>12, <2>2, <2>3, <2>4 DEF Here, Bought
<1> QED BY <1>2, <1>13, <1>14

(* What a request carries, said after a step, for each kind of request.    *)
LEMMA CarriesErrand == ASSUME NEW r \in Errands, ErrandOn(r.o, r.step)' PROVE r \in Kinds /\ Carrying(r)'
<1>1. r \in Kinds /\ r \notin Notices /\ r \notin Executions
  BY RequestKinds DEF Kinds, Errands, ErrandSteps
<1> QED BY <1>1 DEF Carrying
(* The same of a notice,                                                   *)
LEMMA CarriesNotice == ASSUME NEW r \in Notices, Notified(r)' PROVE r \in Kinds /\ Carrying(r)'
<1>1. r \in Kinds /\ r \notin Errands /\ r \notin Executions
  BY RequestKinds DEF Kinds, Notices, ErrandSteps
<1> QED BY <1>1 DEF Carrying
(* of an executor,                                                         *)
LEMMA CarriesExecution == ASSUME NEW r \in Executions, Executing(r)' PROVE r \in Kinds /\ Carrying(r)'
<1>1. r.step \in {"claimed", "paying", "returned", "recording", "succeeded", "failed"} /\ r \in Kinds
  BY RequestKinds DEF Kinds
<1>2. r \notin Errands /\ r \notin Notices
  BY <1>1, RequestKinds DEF Kinds, ErrandSteps
<1> QED BY <1>1, <1>2 DEF Carrying
(* and of nobody.                                                          *)
LEMMA CarriesNothing == Idle \in Kinds /\ Carrying(Idle)'
<1>1. Idle \in Kinds /\ Idle.step = "idle"
  BY DEF Kinds, Idle
<1>2. Idle \notin Errands /\ Idle \notin Notices /\ Idle \notin Executions
  BY <1>1, RequestKinds DEF Kinds, ErrandSteps
<1> QED BY <1>1, <1>2 DEF Carrying

(* One request moves.                                                      *)
Moved(w) == \E r \in Kinds : trialReq' = [trialReq EXCEPT ![w] = r] /\ Carrying(r)'
(* A request that moves keeps what is carried right.                       *)
LEMMA RequestMoves ==
    ASSUME TrialRows, NEW w \in Workers, Moved(w)
    PROVE  /\ trialReq' \in [Workers -> Kinds]
           /\ \A v \in Workers : trialReq'[v] = trialReq[v] \/ Carried(v)'
<1>1. PICK r \in Kinds : trialReq' = [trialReq EXCEPT ![w] = r] /\ Carrying(r)'
  BY DEF Moved
<1>2. trialReq \in [Workers -> Kinds]
  BY DEF TrialRows, Kinds
<1>3. trialReq' \in [Workers -> Kinds] /\ trialReq'[w] = r /\ \A v \in Workers : v # w => trialReq'[v] = trialReq[v]
  BY <1>1, <1>2
<1>4. Carried(w)'
  BY <1>1, <1>3, Carries
<1> QED BY <1>3, <1>4 DEF Kinds

(* No request moves.                                                       *)
LEMMA RequestsRest ==
    ASSUME TrialRows, trialReq' = trialReq
    PROVE  /\ trialReq' \in [Workers -> Kinds]
           /\ \A v \in Workers : trialReq'[v] = trialReq[v] \/ Carried(v)'
BY DEF TrialRows

(* A step of a request, and of nothing else.                               *)
LEMMA TrialRequestStep ==
    ASSUME Trialled, NEW w \in Workers, Moved(w),
           UNCHANGED <<order, late, alloc, delivery, check, payVars, deliveryVars, refundVars>>
    PROVE  Trialled'
<1>1. TrialRows
  BY DEF Trialled
<1>2. /\ trialReq' \in [Workers -> Kinds]
      /\ \A v \in Workers : trialReq'[v] = trialReq[v] \/ Carried(v)'
  BY <1>1, RequestMoves
<1>3. TrialRows'
  BY <1>1, <1>2 DEF TrialRows, payVars, deliveryVars, refundVars
<1>4. /\ \A o \in TrialOrders : SameRow(o)
      /\ \A c \in Refs : refund'[c] = refund[c] /\ RefundOnward(c)
      /\ returned' = returned
  BY DEF SameRow, RefundOnward, payVars, deliveryVars, refundVars
<1>5. Approved'
  BY DEF Trialled, Approved, refundVars
<1>6. Sold'
  BY SoldStays DEF Trialled
<1> QED BY <1>2, <1>3, <1>4, <1>5, <1>6, TrialStep

(* A step on the rows of one order.                                        *)
LEMMA TrialOrderStep ==
    ASSUME Trialled, NEW o \in TrialOrders, TrialRows', refund' = refund, returned' = returned,
           \A p \in TrialOrders : p # o => SameRow(p),
           Here(o)', Forward(o), Onward(o),
           \A v \in Workers : trialReq'[v] = trialReq[v] \/ Carried(v)', Sold'
    PROVE  Trialled'
<1>1. \A c \in Refs : refund'[c] = refund[c] /\ RefundOnward(c)
  BY DEF RefundOnward
<1>2. Approved'
  BY DEF Trialled, Approved
<1> QED BY <1>1, <1>2, TrialStep

(* What is known of the request of a step.                                 *)
LEMMA ErrandOf ==
    ASSUME Trialled, NEW w \in Workers, trialReq[w].step \in ErrandSteps
    PROVE  trialReq[w] \in Errands /\ trialReq[w].o \in TrialOrders /\ ErrandOn(trialReq[w].o, trialReq[w].step)
<1>1. trialReq[w] \in Kinds /\ Carrying(trialReq[w])
  BY DEF Trialled, TrialRows, Carried, Kinds
<1>2. trialReq[w] \in Errands
  BY <1>1, RequestKinds DEF Kinds
<1> QED BY <1>1, <1>2 DEF Carrying, Errands
(* The same of the callback of Alipay,                                     *)
LEMMA NoticeOf ==
    ASSUME Trialled, NEW w \in Workers, trialReq[w].step = "notified"
    PROVE  trialReq[w] \in Notices /\ Notified(trialReq[w])
<1>1. trialReq[w] \in Kinds /\ Carrying(trialReq[w])
  BY DEF Trialled, TrialRows, Carried, Kinds
<1>2. trialReq[w] \in Notices
  BY <1>1, RequestKinds DEF Kinds
<1> QED BY <1>1, <1>2 DEF Carrying
(* and of an executor.                                                     *)
LEMMA ExecutionOf ==
    ASSUME Trialled, NEW w \in Workers,
           trialReq[w].step \in {"claimed", "paying", "returned", "recording", "succeeded", "failed"}
    PROVE  trialReq[w] \in Executions /\ Executing(trialReq[w])
<1>1. trialReq[w] \in Kinds /\ Carrying(trialReq[w])
  BY DEF Trialled, TrialRows, Carried, Kinds
<1>2. trialReq[w] \in Executions
  BY <1>1, RequestKinds DEF Kinds
<1> QED BY <1>1, <1>2 DEF Carrying

(* A request that ends moves.                                              *)
LEMMA EndsMoved == ASSUME NEW w \in Workers, Ends(w) PROVE Moved(w)
BY CarriesNothing DEF Ends, Moved
(* A request that begins moves.                                            *)
LEMMA BeginsMoved ==
    ASSUME NEW w \in Workers, NEW step \in ErrandSteps, NEW o \in TrialOrders, ErrandOn(o, step)',
           trialReq' = [trialReq EXCEPT ![w] = [step |-> step, o |-> o]]
    PROVE  Moved(w)
<1> DEFINE r == [step |-> step, o |-> o]
<1>1. r \in Errands /\ r.o = o /\ r.step = step
  BY DEF Errands
<1> HIDE DEF r
<1>2. r \in Kinds /\ Carrying(r)'
  BY <1>1, CarriesErrand
<1> QED BY <1>2 DEF Moved, r
(* A request that goes on moves.                                           *)
LEMMA GoesMoved ==
    ASSUME TrialRows, NEW w \in Workers, trialReq[w] \in Errands, NEW step \in ErrandSteps, Goes(w, step),
           NEW o \in TrialOrders, o = trialReq[w].o, ErrandOn(o, step)'
    PROVE  Moved(w)
<1>1. [trialReq[w] EXCEPT !.step = step] = [step |-> step, o |-> o]
  BY DEF Errands
<1>2. trialReq' = [trialReq EXCEPT ![w] = [step |-> step, o |-> o]]
  BY <1>1 DEF Goes
<1> QED BY <1>2, BeginsMoved

(* A request stops.                                                        *)
LEMMA StopSteps == ASSUME Trialled, NEW w \in Workers, Stop(w) PROVE Trialled'
BY EndsMoved, TrialRequestStep DEF Stop
(* A request on the delivery of an order reads.                            *)
LEMMA ReadingSteps ==
    ASSUME Trialled, NEW w \in Workers, NEW o \in TrialOrders, NEW step \in {"register", "probing", "start", "stop", "clean"},
           Begins(w, step, o),
           step = "register" => order[o] = "PAID" /\ delivery[o] = "AWAITING_KEY",
           step = "start" => order[o] = "DELIVERED" /\ delivery[o] = "READY",
           step = "stop" => order[o] = "IN_SERVICE" /\ delivery[o] = "IN_SERVICE",
           step = "clean" => order[o] = "COMPLETED" /\ delivery[o] = "CLEANING",
           UNCHANGED <<order, late, alloc, delivery, check, payVars, deliveryVars, refundVars>>
    PROVE  Trialled'
<1>1. ErrandOn(o, step)'
  BY DEF ErrandOn, AfterPaid, AfterDelivered, AfterStart, AfterStop, AwaitedOn, ReadyOn, ServedOn, CleaningOn
<1>2. step \in ErrandSteps
  BY DEF ErrandSteps
<1>3. Moved(w)
  BY <1>1, <1>2, BeginsMoved DEF Begins
<1> QED BY <1>3, TrialRequestStep
(* A settlement in card-hours reads.                                       *)
LEMMA ReadFactsSteps ==
    ASSUME Trialled, NEW w \in Workers, NEW o \in TrialOrders, ReadFacts(w, o), UNCHANGED <<deliveryVars, refundVars>>
    PROVE  Trialled'
<1>1. ErrandOn(o, "settling")' /\ "settling" \in ErrandSteps
  BY DEF ErrandOn, ErrandSteps
<1>2. Moved(w)
  BY <1>1, BeginsMoved DEF ReadFacts
<1> QED BY <1>2, TrialRequestStep DEF ReadFacts

(* What a request sees of an order is right.                               *)
LEMMA SeenIsFresh ==
    ASSUME Trialled, NEW o \in TrialOrders, payment[o].provider = "ALIPAY"
    PROVE  Seen(o) \in Sight /\ Fresh(o, Seen(o)) /\ Seen(o).events = payEvents[o]
<1>1. Seen(o) \in Sight
  BY DEF Trialled, TrialRows, Seen, Sight
<1>2. PaidByAlipay(o) /\ Placed(o)
  BY AlipayPays DEF Trialled
<1>3. delivery[o] # "NONE"
  BY <1>2 DEF PaidByAlipay, Placed, CleaningOn
<1> QED BY <1>1, <1>3 DEF Fresh, Seen

(* The callback of Alipay reads.                                           *)
LEMMA NotifySteps ==
    ASSUME Trialled, NEW w \in Workers, NEW o \in TrialOrders, Notify(w, o), UNCHANGED <<deliveryVars, refundVars>>
    PROVE  Trialled'
<1>1. PICK type \in {"CAPTURED", "CLOSED"} :
          trialReq' = [trialReq EXCEPT ![w] = [step |-> "notified", o |-> o, saw |-> Seen(o),
                                     event |-> [type |-> type, ref |-> "notify", amount |-> Total]]]
  BY DEF Notify
<1>2. Seen(o) \in Sight /\ Fresh(o, Seen(o))
  BY SeenIsFresh DEF Notify
<1>3. PICK saw \in Sight : saw = Seen(o)
  BY <1>2
<1> DEFINE r == [step |-> "notified", o |-> o, saw |-> saw, event |-> [type |-> type, ref |-> "notify", amount |-> Total]]
<1>4. r.event \in Event
  BY SupplyAssumption DEF Event
<1>5. r \in Notices /\ r.o = o /\ r.saw = saw /\ r.event.ref = "notify" /\ r.event.type = type
  BY <1>4 DEF Notices
<1>6. trialReq' = [trialReq EXCEPT ![w] = r]
  BY <1>1, <1>3
<1> HIDE DEF r
<1>7. Fresh(o, saw) /\ UNCHANGED <<payment, payEvents, order>>
  BY <1>2, <1>3 DEF Notify, payVars
<1>8. Notified(r)'
  BY <1>5, <1>7 DEF Notified, Fresh
<1>9. Moved(w)
  BY <1>5, <1>6, <1>8, CarriesNotice DEF Moved
<1> QED BY <1>9, TrialRequestStep DEF Notify

(* An executor that moves to another step with what it carries.            *)
LEMMA ExecutionMoved ==
    ASSUME TrialRows, NEW w \in Workers, NEW r \in Executions, trialReq' = [trialReq EXCEPT ![w] = r], Executing(r)'
    PROVE  Moved(w)
BY CarriesExecution DEF Moved
(* An executor that comes to an end moves.                                 *)
LEMMA ExecutionEnds ==
    ASSUME TrialRows, NEW w \in Workers, NEW r \in Executions, r = trialReq[w], NEW step \in {"succeeded", "failed"}, Goes(w, step),
           refund'[r.c].status = "APPROVED", refund'[r.c].o = r.o,
           step = "succeeded" => r.c \in returned' /\ OnRecord(r.o, r.c)'
    PROVE  Moved(w)
<1> DEFINE q == [r EXCEPT !.step = step]
<1>1. q \in Executions /\ q.o = r.o /\ q.c = r.c /\ q.step = step
  BY DEF Executions, Claims, Payings, Entering
<1>2. trialReq' = [trialReq EXCEPT ![w] = q]
  BY DEF Goes
<1> HIDE DEF q
<1>3. Executing(q)'
  BY <1>1 DEF Executing, OnRecord
<1> QED BY <1>1, <1>2, <1>3, ExecutionMoved

(* The executor reads the order.                                           *)
LEMMA ReadForRefundSteps == ASSUME Trialled, NEW w \in Workers, ReadForRefund(w) PROVE Trialled'
<1>0. TrialRows
  BY DEF Trialled
<1>1. PICK r : r = trialReq[w]
  OBVIOUS
<1>2. r \in Executions /\ Executing(r) /\ r.step = "claimed" /\ r.o \in TrialOrders /\ r.c \in Refs /\ r.token \in Nat
  BY <1>1, ExecutionOf, ExecutionNames DEF ReadForRefund
<1>3. UNCHANGED <<order, alloc, delivery, payment, payEvents, refund, returned>>
  BY DEF ReadForRefund, payVars, refundVars
<1>4. refund'[r.c].status = "APPROVED" /\ refund'[r.c].o = r.o
  BY <1>2, <1>3 DEF Executing
<1>5. CASE OnRecord(r.o, r.c) /\ Goes(w, "succeeded")
  <2>1. r.c \in returned' /\ OnRecord(r.o, r.c)'
    <3>1. PICK e \in payEvents[r.o] : e.ref = r.c
      BY <1>5 DEF OnRecord
    <3>2. Kept(r.o)
      BY <1>2 DEF Trialled
    <3> QED BY <1>2, <1>3, <1>5, <3>1, <3>2 DEF Kept, OnRecord
  <2>2. Moved(w)
    BY <1>0, <1>1, <1>2, <1>4, <1>5, <2>1, ExecutionEnds
  <2> QED BY <2>2, TrialRequestStep DEF ReadForRefund
<1>6. CASE Goes(w, "failed")
  <2>1. Moved(w)
    BY <1>0, <1>1, <1>2, <1>4, <1>6, ExecutionEnds
  <2> QED BY <2>1, TrialRequestStep DEF ReadForRefund
<1>7. CASE /\ Refundable(r.o, r.c)
           /\ trialReq' = [trialReq EXCEPT ![w] = [step |-> "paying", o |-> r.o, c |-> r.c, token |-> r.token,
                    event |-> [type |-> IF refund[r.c].amount = Left(r.o) THEN "REFUNDED_FULL"
                                        ELSE "REFUNDED_PARTIAL",
                               ref |-> r.c, amount |-> refund[r.c].amount]]]
  <2>1. PICK e : e = [type |-> IF refund[r.c].amount = Left(r.o) THEN "REFUNDED_FULL" ELSE "REFUNDED_PARTIAL",
                      ref |-> r.c, amount |-> refund[r.c].amount]
    OBVIOUS
  <2>2. refund[r.c].amount \in 1..Total
    BY <1>2, TrialsAssumption DEF Executing, Trialled, Asked
  <2>3. e \in Event /\ e.ref = r.c /\ e.amount = refund[r.c].amount /\ e.type \in RefundTypes
    BY <1>2, <2>1, <2>2 DEF Event, RefundTypes
  <2> DEFINE q == [step |-> "paying", o |-> r.o, c |-> r.c, token |-> r.token, event |-> e]
  <2>4. q \in Executions /\ q.o = r.o /\ q.c = r.c /\ q.event = e /\ q.step = "paying"
    BY <1>2, <2>3 DEF Executions, Payings
  <2>5. trialReq' = [trialReq EXCEPT ![w] = q]
    BY <1>7, <2>1
  <2> HIDE DEF q
  <2>6. payment'[r.o].provider = "ALIPAY"
    BY <1>3, <1>7 DEF Refundable
  <2>7. Executing(q)'
    BY <1>3, <1>4, <2>3, <2>4, <2>6 DEF Executing
  <2>8. Moved(w)
    BY <1>0, <2>4, <2>5, <2>7, ExecutionMoved
  <2> QED BY <2>8, TrialRequestStep DEF ReadForRefund
<1> QED BY <1>1, <1>5, <1>6, <1>7 DEF ReadForRefund

(* The executor reads the payment it will enter the refund on.             *)
LEMMA ReadForEventSteps == ASSUME Trialled, NEW w \in Workers, ReadForEvent(w) PROVE Trialled'
<1>0. TrialRows
  BY DEF Trialled
<1>1. PICK r : r = trialReq[w]
  OBVIOUS
<1>2. r \in Executions /\ Executing(r) /\ r.step = "returned" /\ r.o \in TrialOrders /\ r.c \in Refs /\ r.token \in Nat
      /\ r.event \in Event
  BY <1>1, ExecutionOf, ExecutionNames DEF ReadForEvent
<1>3. UNCHANGED <<order, alloc, delivery, payment, payEvents, refund, returned>>
  BY DEF ReadForEvent, payVars, refundVars
<1>4. /\ refund'[r.c].status = "APPROVED" /\ refund'[r.c].o = r.o /\ payment[r.o].provider = "ALIPAY"
      /\ r.event.type \in RefundTypes /\ r.event.ref = r.c /\ r.event.amount = refund[r.c].amount /\ r.c \in returned
  BY <1>2, <1>3 DEF Executing
<1>5. CASE OnRecord(r.o, r.c) /\ Goes(w, "succeeded")
  <2>1. r.c \in returned' /\ OnRecord(r.o, r.c)'
    BY <1>3, <1>4, <1>5 DEF OnRecord
  <2>2. Moved(w)
    BY <1>0, <1>1, <1>2, <1>4, <1>5, <2>1, ExecutionEnds
  <2> QED BY <2>2, TrialRequestStep DEF ReadForEvent
<1>6. CASE Goes(w, "failed")
  <2>1. Moved(w)
    BY <1>0, <1>1, <1>2, <1>4, <1>6, ExecutionEnds
  <2> QED BY <2>1, TrialRequestStep DEF ReadForEvent
<1>7. CASE /\ refund[r.c].amount <= Left(r.o)
           /\ trialReq' = [trialReq EXCEPT ![w] = [step |-> "recording", o |-> r.o, c |-> r.c,
                            token |-> r.token, event |-> r.event, saw |-> Seen(r.o)]]
  <2>1. PICK saw \in Sight : saw = Seen(r.o) /\ Fresh(r.o, saw) /\ saw.events = payEvents[r.o]
    BY <1>2, <1>4, SeenIsFresh
  <2> DEFINE q == [step |-> "recording", o |-> r.o, c |-> r.c, token |-> r.token, event |-> r.event, saw |-> saw]
  <2>2. /\ q \in Executions /\ q.o = r.o /\ q.c = r.c /\ q.event = r.event /\ q.step = "recording" /\ q.saw = saw
    BY <1>2 DEF Executions, Entering
  <2>3. trialReq' = [trialReq EXCEPT ![w] = q]
    BY <1>7, <2>1
  <2> HIDE DEF q
  <2>4. Fresh(r.o, saw)'
    BY <1>3, <2>1 DEF Fresh
  <2>5. r.event.amount <= Total - Refunded(saw.events)
    BY <1>4, <1>7, <2>1 DEF Left
  <2>6. Executing(q)'
    BY <1>3, <1>4, <2>2, <2>4, <2>5 DEF Executing
  <2>7. Moved(w)
    BY <1>0, <2>2, <2>3, <2>6, ExecutionMoved
  <2> QED BY <2>7, TrialRequestStep DEF ReadForEvent
<1> QED BY <1>1, <1>5, <1>6, <1>7 DEF ReadForEvent

(* A request installs a key.                                               *)
LEMMA RegisterKeySteps == ASSUME Trialled, NEW w \in Workers, RegisterKey(w) PROVE Trialled'
<1>0. TrialRows
  BY DEF Trialled
<1>1. PICK o \in TrialOrders : o = trialReq[w].o
  BY ErrandOf DEF RegisterKey, ErrandSteps
<1>2. trialReq[w] \in Errands /\ ErrandOn(o, "register")
  BY <1>1, ErrandOf DEF RegisterKey, ErrandSteps
<1>3. /\ node' = [node EXCEPT ![o] = IF @ = "none" THEN "key" ELSE @] /\ Goes(w, "provisioning")
      /\ UNCHANGED <<order, late, alloc, delivery, check, payment, payEvents, debit, alipay, receipts, refund, returned>>
  BY <1>1 DEF RegisterKey, payVars, refundVars
<1>4. /\ node'[o] = IF node[o] = "none" THEN "key" ELSE node[o]
      /\ \A p \in TrialOrders : p # o => node'[p] = node[p]
      /\ node' \in [TrialOrders -> {"none", "key", "running", "stopped", "clean"}]
  BY <1>0, <1>3 DEF TrialRows
<1>5. Here(o)
  BY DEF Trialled, Here
<1>6. order[o] \in AfterPaid /\ delivery[o] \in AwaitedOn
  BY <1>2 DEF ErrandOn
<1>7. node'[o] \in KeyOn
  BY <1>0, <1>4 DEF TrialRows, KeyOn
<1>8. Placed(o)'
  BY <1>3, <1>4, <1>5 DEF Here, Placed
<1>9. Hosted(o)'
  <2>1. CASE node[o] = "none"
    BY <1>3, <1>4, <1>5, <1>6, <2>1 DEF Here, Hosted, AwaitedOn
  <2>2. CASE node[o] # "none"
    BY <1>3, <1>4, <1>5, <2>2 DEF Here, Hosted
  <2> QED BY <2>1, <2>2
<1>10. Bought(o)' /\ Kept(o)'
  BY <1>3, <1>5 DEF Here, Bought, Unpaid, Settled, HalfSettled, PaidByAlipay, RefundedTo, Kept
<1>11. Forward(o) /\ Onward(o)
  BY <1>3, <1>4, <1>7 DEF Forward, Onward, KeyOn, RunningOn, StoppedOn
<1>12. Moved(w)
  <2>1. ErrandOn(o, "provisioning")'
    BY <1>3, <1>6, <1>7 DEF ErrandOn
  <2> QED BY <1>0, <1>1, <1>2, <1>3, <2>1, GoesMoved DEF ErrandSteps
<1>13. TrialRows' /\ \A v \in Workers : trialReq'[v] = trialReq[v] \/ Carried(v)'
  BY <1>0, <1>3, <1>4, <1>12, RequestMoves DEF TrialRows
<1>14. \A p \in TrialOrders : p # o => SameRow(p)
  BY <1>3, <1>4 DEF SameRow
<1>15. Sold'
  BY <1>3, SoldStays DEF Trialled
<1> QED BY <1>3, <1>8, <1>9, <1>10, <1>11, <1>13, <1>14, <1>15, TrialOrderStep DEF Here

(* A request that passes a step that is done.                              *)
LEMMA PassingSteps ==
    ASSUME Trialled, NEW w \in Workers, NEW o \in TrialOrders, o = trialReq[w].o, trialReq[w] \in Errands,
           NEW step \in ErrandSteps, (Goes(w, step) /\ ErrandOn(o, step)) \/ Ends(w),
           UNCHANGED <<order, late, alloc, delivery, check, payVars, deliveryVars, refundVars>>
    PROVE  Trialled'
<1>1. CASE Goes(w, step) /\ ErrandOn(o, step)
  <2>1. ErrandOn(o, step)'
    BY <1>1 DEF ErrandOn, deliveryVars
  <2>2. Moved(w)
    BY <1>1, <2>1, GoesMoved DEF Trialled
  <2> QED BY <2>2, TrialRequestStep
<1>2. CASE Ends(w)
  BY <1>2, EndsMoved, TrialRequestStep
<1> QED BY <1>1, <1>2

(* A step on the order, delivery and receipts of an order whose payment    *)
(* stays.                                                                  *)
LEMMA KeyStep ==
    ASSUME Trialled, NEW w \in Workers, NEW o \in TrialOrders, Moved(w),
           UNCHANGED <<late, check, payVars, node, refundVars>>,
           NEW to \in OrderStatus, NEW at \in DeliveryStatus, NEW hours \in Counted \cup {"NONE", "CANCELLED"},
           NEW done \in SUBSET {"provisioning", "preparing", "ready", "delivered"}, receipts[o] \subseteq done,
           order' = [order EXCEPT ![o] = to], delivery' = [delivery EXCEPT ![o] = at],
           alloc' = [alloc EXCEPT ![o] = hours], receipts' = [receipts EXCEPT ![o] = done],
           Placed(o)', Hosted(o)', Bought(o)', Forward(o),
           hours \in Counted => alloc[o] \in Counted, hours \in Occupying => alloc[o] \in Occupying,
           to # "NONE" => order[o] # "NONE", to = "PAYMENT_PENDING" \/ order[o] # "PAYMENT_PENDING"
    PROVE  Trialled'
<1>1. TrialRows
  BY DEF Trialled
<1>2. /\ order'[o] = to /\ delivery'[o] = at /\ alloc'[o] = hours /\ receipts'[o] = done
      /\ UNCHANGED <<late, check, payment, payEvents, debit, alipay, node, refund, returned>>
      /\ \A p \in TrialOrders : p # o => /\ order'[p] = order[p] /\ delivery'[p] = delivery[p]
                                         /\ alloc'[p] = alloc[p] /\ receipts'[p] = receipts[p]
  BY <1>1 DEF TrialRows, payVars, refundVars
<1>3. /\ order' \in [TrialOrders -> OrderStatus] /\ delivery' \in [TrialOrders -> DeliveryStatus]
      /\ alloc' \in [TrialOrders -> Counted \cup {"NONE", "CANCELLED"}]
      /\ receipts' \in [TrialOrders -> SUBSET {"provisioning", "preparing", "ready", "delivered"}]
  BY <1>1 DEF TrialRows
<1>4. TrialRows' /\ \A v \in Workers : trialReq'[v] = trialReq[v] \/ Carried(v)'
  BY <1>1, <1>2, <1>3, RequestMoves DEF TrialRows
<1>5. \A p \in TrialOrders : p # o => SameRow(p)
  BY <1>2 DEF SameRow
<1>6. Kept(o)'
  BY <1>2 DEF Trialled, Kept
<1>7. Onward(o)
  BY <1>2 DEF Onward
<1>8. Sold'
  <2>1. \A p \in TrialOrders : /\ alloc'[p] \in Occupying => alloc[p] \in Occupying
                               /\ alloc'[p] \in Counted => alloc[p] \in Counted
                               /\ order'[p] # "NONE" => order[p] # "NONE"
    BY <1>2
  <2> QED BY <2>1, SoldStays DEF Trialled
<1> QED BY <1>2, <1>4, <1>5, <1>6, <1>7, <1>8, TrialOrderStep DEF Here

(* Whoever paid for an order has paid for it while it is delivered.        *)
LEMMA BoughtStays ==
    ASSUME NEW o \in TrialOrders, Bought(o), UNCHANGED <<payment, payEvents, debit>>,
           order[o] \in AfterPaid, order'[o] \in AfterPaid, order'[o] = "REFUNDED" <=> order[o] = "REFUNDED",
           delivery'[o] # "AWAITING_PAYMENT" => delivery[o] # "AWAITING_PAYMENT"
    PROVE  Bought(o)'
<1>1. Settled(o) \/ PaidByAlipay(o)
  BY DEF Bought, Unpaid, HalfSettled, AfterPaid
<1>2. Settled(o) => Settled(o)'
  BY DEF Settled
<1>3. PaidByAlipay(o) => PaidByAlipay(o)'
  BY DEF PaidByAlipay, RefundedTo, AfterPaid
<1> QED BY <1>1, <1>2, <1>3 DEF Bought

(* The order is told that its key is being installed.                      *)
LEMMA OrderProvisioningSteps == ASSUME Trialled, NEW w \in Workers, OrderProvisioning(w) PROVE Trialled'
<1>1. PICK o \in TrialOrders : o = trialReq[w].o
  BY ErrandOf DEF OrderProvisioning, ErrandSteps
<1>2. trialReq[w] \in Errands /\ ErrandOn(o, "provisioning") /\ TrialRows /\ Here(o)
  BY <1>1, ErrandOf DEF OrderProvisioning, ErrandSteps, Trialled, Here
<1>3. order[o] \in AfterPaid /\ delivery[o] \in AwaitedOn /\ node[o] \in KeyOn
  BY <1>2 DEF ErrandOn
<1>4. Goes(w, "preparing") /\ UNCHANGED <<late, check, payVars, node, refundVars>> /\ "preparing" \in ErrandSteps
  BY DEF OrderProvisioning, ErrandSteps
<1>5. CASE Passes(w, "provisioning")
  <2>1. ErrandOn(o, "preparing")
    BY <1>1, <1>3, <1>5 DEF Passes, ErrandOn
  <2>2. UNCHANGED <<order, late, alloc, delivery, check, payVars, deliveryVars, refundVars>>
    BY <1>4, <1>5 DEF Passes, deliveryVars
  <2> QED BY <1>1, <1>2, <1>4, <2>1, <2>2, PassingSteps
<1>6. CASE /\ MoveOrder(o, "PAID", "PROVISIONING", "LOCKED")
           /\ Records(w, "provisioning")
           /\ UNCHANGED delivery
  <2>1. order[o] = "PAID" /\ alloc[o] = "LOCKED" /\ delivery[o] = "AWAITING_KEY" /\ receipts[o] = {} /\ node[o] = "key"
    BY <1>2, <1>3, <1>6 DEF MoveOrder, Here, Placed, Hosted, KeyOn, CleaningOn
  <2> DEFINE done == {"provisioning"}
  <2>2. /\ order' = [order EXCEPT ![o] = "PROVISIONING"] /\ alloc' = [alloc EXCEPT ![o] = "LOCKED"]
        /\ delivery' = [delivery EXCEPT ![o] = "AWAITING_KEY"] /\ receipts' = [receipts EXCEPT ![o] = done]
    BY <1>1, <1>2, <1>6, <2>1 DEF MoveOrder, Records, TrialRows
  <2>3. order'[o] = "PROVISIONING" /\ alloc'[o] = "LOCKED" /\ delivery'[o] = "AWAITING_KEY" /\ receipts'[o] = done
        /\ node'[o] = "key"
    BY <1>2, <1>4, <2>1, <2>2 DEF TrialRows
  <2>4. Placed(o)' /\ Hosted(o)' /\ Forward(o)
    BY <2>1, <2>3 DEF Placed, Hosted, Forward, AfterPaid, AfterDelivered, AfterStart, AfterStop
  <2>5. Bought(o)'
    BY <1>2, <1>4, <2>1, <2>3, BoughtStays DEF Here, AfterPaid, payVars
  <2>6. ErrandOn(o, "preparing")'
    BY <2>3 DEF ErrandOn, AfterPaid, AwaitedOn, KeyOn
  <2>7. Moved(w)
    BY <1>1, <1>2, <1>4, <2>6, GoesMoved
  <2>8. "PROVISIONING" \in OrderStatus /\ "AWAITING_KEY" \in DeliveryStatus /\ "LOCKED" \in Counted
    BY DEF OrderStatus, DeliveryStatus, Counted
  <2> QED BY <1>4, <2>1, <2>2, <2>4, <2>5, <2>7, <2>8, KeyStep
<1> QED BY <1>1, <1>5, <1>6 DEF OrderProvisioning

(* The delivery is told that its key is being installed.                   *)
LEMMA DeliveryProvisioningSteps == ASSUME Trialled, NEW w \in Workers, DeliveryProvisioning(w) PROVE Trialled'
<1>1. PICK o \in TrialOrders : o = trialReq[w].o
  BY ErrandOf DEF DeliveryProvisioning, ErrandSteps
<1>2. trialReq[w] \in Errands /\ ErrandOn(o, "preparing") /\ TrialRows /\ Here(o)
  BY <1>1, ErrandOf DEF DeliveryProvisioning, ErrandSteps, Trialled, Here
<1>3. order[o] \in AfterPaid /\ delivery[o] \in AwaitedOn /\ node[o] \in KeyOn /\ "provisioning" \in receipts[o]
  BY <1>2 DEF ErrandOn
<1>4. Goes(w, "ready") /\ UNCHANGED <<late, check, payVars, node, refundVars>> /\ "ready" \in ErrandSteps
  BY DEF DeliveryProvisioning, ErrandSteps
<1>5. CASE Passes(w, "preparing")
  <2>1. ErrandOn(o, "ready")
    BY <1>1, <1>3, <1>5 DEF Passes, ErrandOn
  <2>2. UNCHANGED <<order, late, alloc, delivery, check, payVars, deliveryVars, refundVars>>
    BY <1>4, <1>5 DEF Passes, deliveryVars
  <2> QED BY <1>1, <1>2, <1>4, <2>1, <2>2, PassingSteps
<1>6. CASE /\ MoveDelivery(o, "AWAITING_KEY", "PROVISIONING")
           /\ Records(w, "preparing")
           /\ UNCHANGED <<order, alloc>>
  <2>1. /\ delivery[o] = "AWAITING_KEY" /\ node[o] = "key"
        /\ (order[o] = "PROVISIONING" /\ alloc[o] = "LOCKED") \/ (order[o] = "REFUNDED" /\ alloc[o] = "CANCELLED")
    BY <1>2, <1>3, <1>6 DEF MoveDelivery, Here, Placed, Hosted, KeyOn, CleaningOn
  <2>2. PICK to \in OrderStatus, hours \in Counted \cup {"NONE", "CANCELLED"},
             done \in SUBSET {"provisioning", "preparing", "ready", "delivered"} :
             to = order[o] /\ hours = alloc[o] /\ done = receipts[o] \cup {"preparing"}
    BY <1>2 DEF TrialRows
  <2>3. /\ order' = [order EXCEPT ![o] = to] /\ alloc' = [alloc EXCEPT ![o] = hours]
        /\ delivery' = [delivery EXCEPT ![o] = "PROVISIONING"] /\ receipts' = [receipts EXCEPT ![o] = done]
    BY <1>1, <1>2, <1>6, <2>2 DEF MoveDelivery, Records, TrialRows
  <2>4. order'[o] = order[o] /\ alloc'[o] = alloc[o] /\ delivery'[o] = "PROVISIONING" /\ receipts'[o] = done
        /\ node'[o] = "key"
    BY <1>2, <1>4, <1>6, <2>1, <2>3 DEF TrialRows
  <2>5. "ready" \notin receipts[o]
    BY <1>2, <2>1 DEF Here, Hosted, ReadyOn
  <2>6. Placed(o)' /\ Hosted(o)' /\ Forward(o)
    BY <2>1, <2>2, <2>4, <2>5 DEF Placed, Hosted, Forward, AfterPaid, AfterDelivered, AfterStart, AfterStop,
       PreparedOn, ReadyOn, ServedOn, CleaningOn, AwaitedOn
  <2>7. Bought(o)'
    BY <1>2, <1>3, <1>4, <2>1, <2>4, BoughtStays DEF Here, payVars
  <2>8. ErrandOn(o, "ready")'
    BY <1>3, <2>2, <2>4 DEF ErrandOn, AwaitedOn, KeyOn
  <2>9. Moved(w)
    BY <1>1, <1>2, <1>4, <2>8, GoesMoved
  <2>10. "PROVISIONING" \in DeliveryStatus
    BY DEF DeliveryStatus
  <2> QED BY <1>4, <2>1, <2>2, <2>3, <2>6, <2>7, <2>9, <2>10, KeyStep
<1> QED BY <1>1, <1>5, <1>6 DEF DeliveryProvisioning

(* The delivery is ready.                                                  *)
LEMMA DeliveryReadySteps == ASSUME Trialled, NEW w \in Workers, DeliveryReady(w) PROVE Trialled'
<1>1. PICK o \in TrialOrders : o = trialReq[w].o
  BY ErrandOf DEF DeliveryReady, ErrandSteps
<1>2. trialReq[w] \in Errands /\ ErrandOn(o, "ready") /\ TrialRows /\ Here(o)
  BY <1>1, ErrandOf DEF DeliveryReady, ErrandSteps, Trialled, Here
<1>3. order[o] \in AfterPaid /\ delivery[o] \in AwaitedOn /\ node[o] \in KeyOn /\ "preparing" \in receipts[o]
  BY <1>2 DEF ErrandOn
<1>4. Goes(w, "delivered") /\ UNCHANGED <<late, check, payVars, node, refundVars>> /\ "delivered" \in ErrandSteps
  BY DEF DeliveryReady, ErrandSteps
<1>5. CASE Passes(w, "ready")
  <2>1. ErrandOn(o, "delivered")
    BY <1>1, <1>3, <1>5 DEF Passes, ErrandOn
  <2>2. UNCHANGED <<order, late, alloc, delivery, check, payVars, deliveryVars, refundVars>>
    BY <1>4, <1>5 DEF Passes, deliveryVars
  <2> QED BY <1>1, <1>2, <1>4, <2>1, <2>2, PassingSteps
<1>6. CASE /\ MoveDelivery(o, "PROVISIONING", "READY")
           /\ Records(w, "ready")
           /\ UNCHANGED <<order, alloc>>
  <2>1. /\ delivery[o] = "PROVISIONING" /\ node[o] = "key"
        /\ (order[o] = "PROVISIONING" /\ alloc[o] = "LOCKED") \/ (order[o] = "REFUNDED" /\ alloc[o] = "CANCELLED")
    BY <1>2, <1>3, <1>6 DEF MoveDelivery, Here, Placed, Hosted, KeyOn, CleaningOn
  <2>2. PICK to \in OrderStatus, hours \in Counted \cup {"NONE", "CANCELLED"},
             done \in SUBSET {"provisioning", "preparing", "ready", "delivered"} :
             to = order[o] /\ hours = alloc[o] /\ done = receipts[o] \cup {"ready"}
    BY <1>2 DEF TrialRows
  <2>3. /\ order' = [order EXCEPT ![o] = to] /\ alloc' = [alloc EXCEPT ![o] = hours]
        /\ delivery' = [delivery EXCEPT ![o] = "READY"] /\ receipts' = [receipts EXCEPT ![o] = done]
    BY <1>1, <1>2, <1>6, <2>2 DEF MoveDelivery, Records, TrialRows
  <2>4. order'[o] = order[o] /\ alloc'[o] = alloc[o] /\ delivery'[o] = "READY" /\ receipts'[o] = done
        /\ node'[o] = "key"
    BY <1>2, <1>4, <1>6, <2>1, <2>3 DEF TrialRows
  <2>6. Placed(o)' /\ Hosted(o)' /\ Forward(o)
    BY <2>1, <2>2, <2>4 DEF Placed, Hosted, Forward, AfterPaid, AfterDelivered, AfterStart, AfterStop,
       PreparedOn, ReadyOn, ServedOn, CleaningOn, AwaitedOn
  <2>7. Bought(o)'
    BY <1>2, <1>3, <1>4, <2>1, <2>4, BoughtStays DEF Here, payVars
  <2>8. ErrandOn(o, "delivered")'
    BY <1>3, <2>2, <2>4 DEF ErrandOn, AwaitedOn, KeyOn
  <2>9. Moved(w)
    BY <1>1, <1>2, <1>4, <2>8, GoesMoved
  <2>10. "READY" \in DeliveryStatus
    BY DEF DeliveryStatus
  <2> QED BY <1>4, <2>1, <2>2, <2>3, <2>6, <2>7, <2>9, <2>10, KeyStep
<1> QED BY <1>1, <1>5, <1>6 DEF DeliveryReady

(* The order is delivered.                                                 *)
LEMMA OrderDeliveredSteps == ASSUME Trialled, NEW w \in Workers, OrderDelivered(w) PROVE Trialled'
<1>1. PICK o \in TrialOrders : o = trialReq[w].o
  BY ErrandOf DEF OrderDelivered, ErrandSteps
<1>2. trialReq[w] \in Errands /\ ErrandOn(o, "delivered") /\ TrialRows /\ Here(o)
  BY <1>1, ErrandOf DEF OrderDelivered, ErrandSteps, Trialled, Here
<1>3. order[o] \in AfterPaid /\ delivery[o] \in AwaitedOn /\ node[o] \in KeyOn /\ "ready" \in receipts[o]
  BY <1>2 DEF ErrandOn
<1>4. Ends(w) /\ UNCHANGED <<late, check, payVars, node, refundVars>> /\ "delivered" \in ErrandSteps
  BY DEF OrderDelivered, ErrandSteps
<1>5. CASE Passes(w, "delivered")
  <2>1. UNCHANGED <<order, late, alloc, delivery, check, payVars, deliveryVars, refundVars>>
    BY <1>4, <1>5 DEF Passes, deliveryVars
  <2> QED BY <1>1, <1>2, <1>4, <2>1, PassingSteps
<1>6. CASE /\ MoveOrder(o, "PROVISIONING", "DELIVERED", "LOCKED")
           /\ Records(w, "delivered")
           /\ UNCHANGED delivery
  <2>1. order[o] = "PROVISIONING" /\ alloc[o] = "LOCKED" /\ delivery[o] = "READY"
        /\ node[o] \in {"key", "running"}
    BY <1>2, <1>3, <1>6 DEF MoveOrder, Here, Placed, Hosted, ReadyOn, CleaningOn
  <2>2. PICK done \in SUBSET {"provisioning", "preparing", "ready", "delivered"} : done = receipts[o] \cup {"delivered"}
    BY <1>2 DEF TrialRows
  <2>3. /\ order' = [order EXCEPT ![o] = "DELIVERED"] /\ alloc' = [alloc EXCEPT ![o] = "LOCKED"]
        /\ delivery' = [delivery EXCEPT ![o] = "READY"] /\ receipts' = [receipts EXCEPT ![o] = done]
    BY <1>1, <1>2, <1>6, <2>1, <2>2 DEF MoveOrder, Records, TrialRows
  <2>4. order'[o] = "DELIVERED" /\ alloc'[o] = "LOCKED" /\ delivery'[o] = "READY" /\ receipts'[o] = done
        /\ node'[o] = node[o]
    BY <1>2, <1>4, <2>1, <2>3 DEF TrialRows
  <2>5. Placed(o)' /\ Hosted(o)' /\ Forward(o)
    BY <2>1, <2>2, <2>4 DEF Placed, Hosted, Forward, AfterPaid, AfterDelivered, AfterStart, AfterStop,
       PreparedOn, ReadyOn
  <2>6. Bought(o)'
    BY <1>2, <1>4, <2>1, <2>4, BoughtStays DEF Here, AfterPaid, payVars
  <2>7. Moved(w)
    BY <1>4, EndsMoved
  <2>8. "DELIVERED" \in OrderStatus /\ "READY" \in DeliveryStatus /\ "LOCKED" \in Counted
    BY DEF OrderStatus, DeliveryStatus, Counted
  <2> QED BY <1>4, <2>1, <2>2, <2>3, <2>5, <2>6, <2>7, <2>8, KeyStep
<1> QED BY <1>1, <1>5, <1>6 DEF OrderDelivered

(* A step on what no other row depends on.                                 *)
LEMMA AsideStep ==
    ASSUME Trialled, TrialRows', \A v \in Workers : trialReq'[v] = trialReq[v] \/ Carried(v)',
           UNCHANGED <<order, alloc, delivery, payment, payEvents, debit, receipts, node, refund, returned>>
    PROVE  Trialled'
<1>1. /\ \A o \in TrialOrders : SameRow(o)
      /\ \A c \in Refs : refund'[c] = refund[c] /\ RefundOnward(c)
  BY DEF SameRow, RefundOnward
<1>2. Approved' /\ Sold'
  BY SoldStays DEF Trialled, Approved
<1> QED BY <1>1, <1>2, TrialStep

(* A check is recorded.                                                    *)
LEMMA RecordCheckSteps ==
    ASSUME Trialled, NEW w \in Workers, NEW result \in {"PASSED", "FAILED"}, RecordCheck(w, result)
    PROVE  Trialled'
<1>1. TrialRows /\ Moved(w)
  BY EndsMoved DEF Trialled, RecordCheck
<1>2. check' \in [TrialOrders -> {"NONE", "PASSED", "FAILED"}]
  BY <1>1 DEF TrialRows, RecordCheck
<1>3. UNCHANGED <<order, late, alloc, delivery, payment, payEvents, debit, alipay, receipts, node, refund, returned>>
  BY DEF RecordCheck, payVars, deliveryVars, refundVars
<1>4. TrialRows' /\ \A v \in Workers : trialReq'[v] = trialReq[v] \/ Carried(v)'
  BY <1>1, <1>2, <1>3, RequestMoves DEF TrialRows
<1> QED BY <1>3, <1>4, AsideStep
(* A hold expires, a trade is paid or given up.                            *)
LEMMA ClockSteps ==
    ASSUME Trialled, NEW o \in TrialOrders, HoldExpires(o) \/ BuyerPays(o) \/ TradeTimesOut(o),
           UNCHANGED <<deliveryVars, refundVars>>
    PROVE  Trialled'
<1>1. TrialRows
  BY DEF Trialled
<1>2. UNCHANGED <<order, alloc, delivery, check, payment, payEvents, debit, trialReq, receipts, node, refund, returned>>
  BY DEF HoldExpires, BuyerPays, TradeTimesOut, payVars, deliveryVars, refundVars
<1>3. late' \in [TrialOrders -> BOOLEAN] /\ alipay' \in [TrialOrders -> {"none", "open", "paid", "closed"}]
  BY <1>1 DEF HoldExpires, BuyerPays, TradeTimesOut, TrialRows, payVars
<1>4. TrialRows' /\ \A v \in Workers : trialReq'[v] = trialReq[v] \/ Carried(v)'
  BY <1>1, <1>2, <1>3, RequestsRest DEF TrialRows
<1> QED BY <1>2, <1>4, AsideStep

(* A step on the node of an order.                                         *)
LEMMA NodeStep ==
    ASSUME Trialled, NEW w \in Workers, NEW o \in TrialOrders, Moved(w),
           UNCHANGED <<order, late, alloc, delivery, check, payVars, receipts, refundVars>>,
           NEW to \in {"running", "stopped", "clean"}, node' = [node EXCEPT ![o] = to],
           Placed(o)', Hosted(o)', Forward(o)
    PROVE  Trialled'
<1>1. TrialRows
  BY DEF Trialled
<1>2. UNCHANGED <<order, late, alloc, delivery, check, payment, payEvents, debit, alipay, receipts, refund, returned>>
  BY DEF payVars, refundVars
<1>3. node' \in [TrialOrders -> {"none", "key", "running", "stopped", "clean"}]
  BY <1>1 DEF TrialRows
<1>4. TrialRows' /\ \A v \in Workers : trialReq'[v] = trialReq[v] \/ Carried(v)'
  BY <1>1, <1>2, <1>3, RequestMoves DEF TrialRows
<1>5. \A p \in TrialOrders : p # o => SameRow(p)
  BY <1>1, <1>2 DEF SameRow, TrialRows
<1>6. Bought(o)' /\ Kept(o)'
  BY <1>2 DEF Trialled, Bought, Unpaid, Settled, HalfSettled, PaidByAlipay, RefundedTo, Kept
<1>7. Onward(o)
  BY <1>2 DEF Onward
<1>8. Sold'
  BY <1>2, SoldStays DEF Trialled
<1> QED BY <1>2, <1>4, <1>5, <1>6, <1>7, <1>8, TrialOrderStep DEF Here
(* The node is told to start, to stop or to clean.                         *)
LEMMA TellNodeSteps == ASSUME Trialled, NEW w \in Workers, TellNode(w) PROVE Trialled'
<1>1. PICK o \in TrialOrders : o = trialReq[w].o
  BY ErrandOf DEF TellNode, ErrandSteps
<1>2. trialReq[w] \in Errands /\ ErrandOn(o, trialReq[w].step) /\ TrialRows /\ Here(o)
  BY <1>1, ErrandOf DEF TellNode, ErrandSteps, Trialled, Here
<1>3. UNCHANGED <<order, late, alloc, delivery, check, payVars, receipts, refundVars>>
  BY DEF TellNode
<1>4. "started" \in ErrandSteps /\ "stopped" \in ErrandSteps /\ "cleaned" \in ErrandSteps
  BY DEF ErrandSteps
<1>5. CASE /\ trialReq[w].step = "start" /\ node[o] \in {"key", "running"}
           /\ node' = [node EXCEPT ![o] = "running"] /\ Goes(w, "started")
  <2>1. order[o] \in AfterDelivered /\ delivery[o] \in ReadyOn /\ node'[o] = "running"
    BY <1>2, <1>5 DEF ErrandOn, TrialRows
  <2>2. Placed(o)' /\ Hosted(o)' /\ Forward(o)
    BY <1>2, <1>3, <1>5, <2>1 DEF Here, Placed, Hosted, Forward, AfterDelivered, AfterPaid, ReadyOn, KeyOn, RunningOn, StoppedOn
  <2>3. ErrandOn(o, "started")'
    BY <1>3, <2>1 DEF ErrandOn, RunningOn
  <2>4. Moved(w)
    BY <1>1, <1>2, <1>4, <1>5, <2>3, GoesMoved
  <2> QED BY <1>3, <1>5, <2>2, <2>4, NodeStep
<1>6. CASE /\ trialReq[w].step = "stop" /\ node[o] \in {"running", "stopped"}
           /\ node' = [node EXCEPT ![o] = "stopped"] /\ Goes(w, "stopped")
  <2>1. order[o] \in AfterStart /\ delivery[o] \in ServedOn /\ node'[o] = "stopped"
    BY <1>2, <1>6 DEF ErrandOn, TrialRows
  <2>2. Placed(o)' /\ Hosted(o)' /\ Forward(o)
    BY <1>2, <1>3, <1>6, <2>1 DEF Here, Placed, Hosted, Forward, AfterStart, AfterPaid, ServedOn, KeyOn, RunningOn, StoppedOn
  <2>3. ErrandOn(o, "stopped")'
    BY <1>3, <2>1 DEF ErrandOn, StoppedOn
  <2>4. Moved(w)
    BY <1>1, <1>2, <1>4, <1>6, <2>3, GoesMoved
  <2> QED BY <1>3, <1>6, <2>2, <2>4, NodeStep
<1>7. CASE /\ trialReq[w].step = "clean" /\ node[o] \in {"stopped", "clean"}
           /\ node' = [node EXCEPT ![o] = "clean"] /\ Goes(w, "cleaned")
  <2>1. order[o] \in AfterStop /\ delivery[o] \in CleaningOn /\ node'[o] = "clean"
    BY <1>2, <1>7 DEF ErrandOn, TrialRows
  <2>2. Placed(o)' /\ Hosted(o)' /\ Forward(o)
    BY <1>2, <1>3, <1>7, <2>1 DEF Here, Placed, Hosted, Forward, AfterStop, AfterPaid, CleaningOn, KeyOn, RunningOn, StoppedOn
  <2>3. ErrandOn(o, "cleaned")'
    BY <1>3, <2>1 DEF ErrandOn
  <2>4. Moved(w)
    BY <1>1, <1>2, <1>4, <1>7, <2>3, GoesMoved
  <2> QED BY <1>3, <1>7, <2>2, <2>4, NodeStep
<1> QED BY <1>1, <1>5, <1>6, <1>7 DEF TellNode

(* The delivery follows the node.                                          *)
LEMMA DeliveryFollowsSteps == ASSUME Trialled, NEW w \in Workers, DeliveryFollows(w) PROVE Trialled'
<1>1. PICK o \in TrialOrders : o = trialReq[w].o
  BY ErrandOf DEF DeliveryFollows, ErrandSteps
<1>2. trialReq[w] \in Errands /\ ErrandOn(o, trialReq[w].step) /\ TrialRows /\ Here(o)
  BY <1>1, ErrandOf DEF DeliveryFollows, ErrandSteps, Trialled, Here
<1>3. UNCHANGED <<order, late, alloc, check, payVars, deliveryVars, refundVars>>
  BY DEF DeliveryFollows
<1>4. PICK to \in OrderStatus, hours \in Counted \cup {"NONE", "CANCELLED"},
           done \in SUBSET {"provisioning", "preparing", "ready", "delivered"} :
           /\ to = order[o] /\ hours = alloc[o] /\ done = receipts[o]
           /\ order' = [order EXCEPT ![o] = to] /\ alloc' = [alloc EXCEPT ![o] = hours]
           /\ receipts' = [receipts EXCEPT ![o] = done]
  BY <1>2, <1>3 DEF TrialRows, deliveryVars
<1>5. ASSUME NEW at \in {"IN_SERVICE", "CLEANING"}, delivery' = [delivery EXCEPT ![o] = at], delivery'[o] = at =>
             Moved(w) /\ Placed(o)' /\ Hosted(o)' /\ Forward(o), order[o] \in AfterPaid, delivery[o] # "AWAITING_PAYMENT"
      PROVE  Trialled'
  <2>1. delivery'[o] = at
    BY <1>2, <1>5 DEF TrialRows
  <2>2. order'[o] = order[o] /\ UNCHANGED <<late, check, payVars, node, refundVars>>
    BY <1>3 DEF deliveryVars
  <2>3. Bought(o)'
    BY <1>2, <1>3, <1>5, <2>2, BoughtStays DEF Here, payVars
  <2>4. at \in DeliveryStatus
    BY DEF DeliveryStatus
  <2> QED BY <1>4, <1>5, <2>1, <2>2, <2>3, <2>4, KeyStep
<1>6. "serving" \in ErrandSteps /\ "completing" \in ErrandSteps
  BY DEF ErrandSteps
<1>7. CASE /\ trialReq[w].step = "started"
           /\ MoveDelivery(o, "READY", "IN_SERVICE")
           /\ Goes(w, "serving")
  <2>1. order[o] \in {"DELIVERED", "REFUNDED"} /\ node[o] = "running" /\ delivery[o] = "READY"
    BY <1>2, <1>7 DEF MoveDelivery, ErrandOn, Here, Placed, Hosted, AfterDelivered, RunningOn, CleaningOn
  <2>2. delivery' = [delivery EXCEPT ![o] = "IN_SERVICE"] /\ delivery'[o] = "IN_SERVICE"
    BY <1>2, <1>7 DEF MoveDelivery, TrialRows
  <2>3. Placed(o)' /\ Hosted(o)' /\ Forward(o)
    BY <1>2, <1>3, <2>1, <2>2 DEF Here, Placed, Hosted, Forward, AfterDelivered, AfterPaid, deliveryVars,
       AwaitedOn, PreparedOn, ReadyOn, ServedOn, CleaningOn
  <2>4. ErrandOn(o, "serving")'
    BY <1>3, <2>1, <2>2 DEF ErrandOn, AfterDelivered, ReadyOn, ServedOn, RunningOn, deliveryVars
  <2>5. Moved(w)
    BY <1>1, <1>2, <1>6, <1>7, <2>4, GoesMoved
  <2> QED BY <1>5, <2>1, <2>2, <2>3, <2>5 DEF AfterPaid
<1>8. CASE /\ trialReq[w].step = "stopped"
           /\ MoveDelivery(o, "IN_SERVICE", "CLEANING")
           /\ Goes(w, "completing")
  <2>1. order[o] \in {"IN_SERVICE", "REFUNDED"} /\ node[o] = "stopped" /\ delivery[o] = "IN_SERVICE"
    BY <1>2, <1>8 DEF MoveDelivery, ErrandOn, Here, Placed, Hosted, AfterStart, StoppedOn, CleaningOn
  <2>2. delivery' = [delivery EXCEPT ![o] = "CLEANING"] /\ delivery'[o] = "CLEANING"
    BY <1>2, <1>8 DEF MoveDelivery, TrialRows
  <2>3. Placed(o)' /\ Hosted(o)' /\ Forward(o)
    BY <1>2, <1>3, <2>1, <2>2 DEF Here, Placed, Hosted, Forward, AfterStart, AfterPaid, deliveryVars,
       AwaitedOn, PreparedOn, ReadyOn, ServedOn, CleaningOn
  <2>4. ErrandOn(o, "completing")'
    BY <1>3, <2>1, <2>2 DEF ErrandOn, AfterStart, ServedOn, CleaningOn, StoppedOn, deliveryVars
  <2>5. Moved(w)
    BY <1>1, <1>2, <1>6, <1>8, <2>4, GoesMoved
  <2> QED BY <1>5, <2>1, <2>2, <2>3, <2>5 DEF AfterPaid
<1> QED BY <1>1, <1>7, <1>8 DEF DeliveryFollows
(* The order follows the delivery.                                         *)
LEMMA OrderFollowsSteps == ASSUME Trialled, NEW w \in Workers, OrderFollows(w) PROVE Trialled'
<1>1. PICK o \in TrialOrders : o = trialReq[w].o
  BY ErrandOf DEF OrderFollows, ErrandSteps
<1>2. trialReq[w] \in Errands /\ ErrandOn(o, trialReq[w].step) /\ TrialRows /\ Here(o)
  BY <1>1, ErrandOf DEF OrderFollows, ErrandSteps, Trialled, Here
<1>3. UNCHANGED <<late, delivery, check, payVars, deliveryVars, refundVars>> /\ Moved(w)
  BY EndsMoved DEF OrderFollows
<1>4. PICK at \in DeliveryStatus, done \in SUBSET {"provisioning", "preparing", "ready", "delivered"} :
           /\ at = delivery[o] /\ done = receipts[o]
           /\ delivery' = [delivery EXCEPT ![o] = at] /\ receipts' = [receipts EXCEPT ![o] = done]
  BY <1>2, <1>3 DEF TrialRows, deliveryVars
<1>5. /\ "IN_SERVICE" \in OrderStatus /\ "COMPLETED" \in OrderStatus
      /\ "IN_SERVICE" \in Counted /\ "LOCKED" \in Counted /\ "IN_SERVICE" \in Occupying /\ "LOCKED" \in Occupying
      /\ UNCHANGED <<late, check, payVars, node, refundVars>>
  BY <1>3 DEF OrderStatus, Counted, Occupying, deliveryVars
<1>6. CASE trialReq[w].step = "serving" /\ MoveOrder(o, "DELIVERED", "IN_SERVICE", "IN_SERVICE")
  <2>1. order[o] = "DELIVERED" /\ node[o] \in {"running", "stopped"} /\ delivery[o] = "IN_SERVICE" /\ alloc[o] = "LOCKED"
    BY <1>2, <1>6 DEF MoveOrder, ErrandOn, Here, Placed, Hosted, ServedOn, RunningOn, CleaningOn
  <2>2. /\ order' = [order EXCEPT ![o] = "IN_SERVICE"] /\ order'[o] = "IN_SERVICE"
        /\ alloc' = [alloc EXCEPT ![o] = "IN_SERVICE"] /\ alloc'[o] = "IN_SERVICE"
    BY <1>2, <1>6 DEF MoveOrder, TrialRows
  <2>3. Placed(o)' /\ Hosted(o)' /\ Forward(o)
    BY <1>2, <1>3, <2>1, <2>2 DEF Here, Placed, Hosted, Forward, AfterDelivered, AfterStart, AfterStop, AfterPaid, deliveryVars
  <2>4. Bought(o)'
    BY <1>2, <1>3, <2>1, <2>2, BoughtStays DEF Here, payVars, AfterPaid
  <2> QED BY <1>3, <1>4, <1>5, <2>1, <2>2, <2>3, <2>4, KeyStep
<1>7. CASE trialReq[w].step = "completing" /\ MoveOrder(o, "IN_SERVICE", "COMPLETED", "LOCKED")
  <2>1. order[o] = "IN_SERVICE" /\ node[o] \in {"stopped", "clean"} /\ delivery[o] = "CLEANING" /\ alloc[o] = "IN_SERVICE"
    BY <1>2, <1>7 DEF MoveOrder, ErrandOn, Here, Placed, Hosted, CleaningOn, StoppedOn
  <2>2. /\ order' = [order EXCEPT ![o] = "COMPLETED"] /\ order'[o] = "COMPLETED"
        /\ alloc' = [alloc EXCEPT ![o] = "LOCKED"] /\ alloc'[o] = "LOCKED"
    BY <1>2, <1>7 DEF MoveOrder, TrialRows
  <2>3. Placed(o)' /\ Hosted(o)' /\ Forward(o)
    BY <1>2, <1>3, <2>1, <2>2 DEF Here, Placed, Hosted, Forward, AfterDelivered, AfterStart, AfterStop, AfterPaid, deliveryVars, CleaningOn
  <2>4. Bought(o)'
    BY <1>2, <1>3, <2>1, <2>2, BoughtStays DEF Here, payVars, AfterPaid
  <2> QED BY <1>3, <1>4, <1>5, <2>1, <2>2, <2>3, <2>4, KeyStep
<1> QED BY <1>1, <1>6, <1>7 DEF OrderFollows

(* What the buyer left is wiped.                                           *)
LEMMA CleanupSteps == ASSUME Trialled, NEW w \in Workers, CleanupFollows(w) PROVE Trialled'
<1>1. PICK o \in TrialOrders : o = trialReq[w].o
  BY ErrandOf DEF CleanupFollows, ErrandSteps
<1>2. trialReq[w] \in Errands /\ ErrandOn(o, "cleaned") /\ TrialRows /\ Here(o)
  BY <1>1, ErrandOf DEF CleanupFollows, ErrandSteps, Trialled, Here
<1>3. UNCHANGED <<order, late, check, payVars, deliveryVars, refundVars>> /\ Moved(w)
  BY EndsMoved DEF CleanupFollows
<1>4. order[o] \in {"COMPLETED", "REFUNDED"} /\ node[o] = "clean" /\ delivery[o] = "CLEANING"
  BY <1>1, <1>2 DEF CleanupFollows, MoveDelivery, ErrandOn, AfterStop
<1>5. PICK hours \in Counted \cup {"NONE", "CANCELLED"} :
           /\ hours = IF alloc[o] \in {"LOCKED", "IN_SERVICE"} THEN "RELEASED" ELSE alloc[o]
           /\ alloc' = [alloc EXCEPT ![o] = hours]
  <2>1. (IF alloc[o] \in {"LOCKED", "IN_SERVICE"} THEN "RELEASED" ELSE alloc[o]) \in Counted \cup {"NONE", "CANCELLED"}
    BY <1>2 DEF TrialRows, Counted
  <2>2. alloc' = [alloc EXCEPT ![o] = IF alloc[o] \in {"LOCKED", "IN_SERVICE"} THEN "RELEASED" ELSE alloc[o]]
    BY <1>1 DEF CleanupFollows
  <2> QED BY <2>1, <2>2
<1>6. PICK to \in OrderStatus, done \in SUBSET {"provisioning", "preparing", "ready", "delivered"} :
           /\ to = order[o] /\ done = receipts[o]
           /\ order' = [order EXCEPT ![o] = to] /\ receipts' = [receipts EXCEPT ![o] = done]
  BY <1>2, <1>3 DEF TrialRows, deliveryVars
<1>7. /\ hours = IF alloc[o] \in {"LOCKED", "IN_SERVICE"} THEN "RELEASED" ELSE alloc[o]
      /\ alloc' = [alloc EXCEPT ![o] = hours] /\ UNCHANGED <<late, check, payVars, node, refundVars>>
      /\ to # "NONE" => order[o] # "NONE"
      /\ to = "PAYMENT_PENDING" \/ order[o] # "PAYMENT_PENDING"
      /\ receipts[o] \subseteq done
  BY <1>3, <1>4, <1>5, <1>6 DEF deliveryVars
<1>8. delivery' = [delivery EXCEPT ![o] = "COMPLETED"] /\ delivery'[o] = "COMPLETED" /\ alloc'[o] = hours
  BY <1>1, <1>2, <1>7 DEF CleanupFollows, MoveDelivery, TrialRows
<1>9. Placed(o)' /\ Hosted(o)' /\ Forward(o)
  <2>1. Placed(o)'
    BY <1>2, <1>3, <1>4, <1>7, <1>8 DEF Here, Placed, deliveryVars, CleaningOn
  <2>2. Hosted(o)' /\ Forward(o)
    BY <1>2, <1>3, <1>4, <1>8 DEF Here, Hosted, Forward, deliveryVars, CleaningOn, PreparedOn, ReadyOn, ServedOn, AwaitedOn
  <2> QED BY <2>1, <2>2
<1>10. Bought(o)'
  BY <1>2, <1>3, <1>4, <1>8, BoughtStays DEF Here, payVars, AfterPaid
<1>11. /\ "COMPLETED" \in DeliveryStatus
       /\ hours \in Counted => alloc[o] \in Counted
       /\ hours \in Occupying => alloc[o] \in Occupying
  BY <1>7 DEF DeliveryStatus, Counted, Occupying
<1> QED BY <1>3, <1>5, <1>6, <1>7, <1>8, <1>9, <1>10, <1>11, KeyStep

(* An order is placed.                                                     *)
LEMMA CreateOrderSteps ==
    ASSUME Trialled, NEW o \in TrialOrders, CreateOrder(o), UNCHANGED <<deliveryVars, refundVars>>
    PROVE  Trialled'
<1>1. TrialRows /\ Here(o) /\ Sold
  BY DEF Trialled, Here
<1>2. /\ order' = [order EXCEPT ![o] = "PAYMENT_PENDING"] /\ alloc' = [alloc EXCEPT ![o] = "RESERVED"]
      /\ delivery' = [delivery EXCEPT ![o] = "AWAITING_PAYMENT"]
      /\ UNCHANGED <<late, check, payment, payEvents, debit, alipay, trialReq, receipts, node, refund, returned>>
  BY DEF CreateOrder, payVars, deliveryVars, refundVars
<1>3. /\ order'[o] = "PAYMENT_PENDING" /\ alloc'[o] = "RESERVED" /\ delivery'[o] = "AWAITING_PAYMENT"
      /\ \A p \in TrialOrders : p # o => order'[p] = order[p] /\ alloc'[p] = alloc[p] /\ delivery'[p] = delivery[p]
  BY <1>1, <1>2 DEF TrialRows
<1>4. order[o] = "NONE" /\ alloc[o] = "NONE" /\ delivery[o] = "NONE" /\ receipts[o] = {}
  BY <1>1 DEF CreateOrder, Here, Placed
<1>5. node[o] = "none"
  BY <1>1, <1>4 DEF Here, Hosted, AfterPaid
<1>6. Unpaid(o)
  BY <1>1, <1>4 DEF Here, Bought, Settled, HalfSettled, PaidByAlipay, AfterPaid
<1>7. TrialRows' /\ \A v \in Workers : trialReq'[v] = trialReq[v] \/ Carried(v)'
  <2>1. /\ order' \in [TrialOrders -> OrderStatus] /\ delivery' \in [TrialOrders -> DeliveryStatus]
        /\ alloc' \in [TrialOrders -> Counted \cup {"NONE", "CANCELLED"}]
    BY <1>1, <1>2 DEF TrialRows, OrderStatus, DeliveryStatus, Counted
  <2> QED BY <1>1, <1>2, <2>1, RequestsRest DEF TrialRows
<1>8. Placed(o)' /\ Hosted(o)'
  BY <1>2, <1>3, <1>4, <1>5 DEF Placed, Hosted, AfterPaid
<1>9. Bought(o)' /\ Kept(o)'
  BY <1>1, <1>2, <1>3, <1>6 DEF Here, Bought, Unpaid, Kept
<1>10. Forward(o) /\ Onward(o)
  BY <1>2, <1>4, <1>5, <1>6 DEF Forward, Onward, Unpaid, NoPayment, AfterPaid, AfterDelivered, AfterStart, AfterStop,
     AwaitedOn, ReadyOn, ServedOn, CleaningOn, KeyOn, RunningOn, StoppedOn
<1>11. \A p \in TrialOrders : p # o => SameRow(p)
  BY <1>2, <1>3 DEF SameRow
<1>12. Sold'
  <2> DEFINE A == {p \in TrialOrders : alloc[p] \in Counted}
             B == {p \in TrialOrders : alloc'[p] \in Counted}
             C == {p \in TrialOrders : order[p] # "NONE"}
             D == {p \in TrialOrders : order'[p] # "NONE"}
  <2>1. B = A \cup {o} /\ o \notin A /\ D = C \cup {o} /\ o \notin C
    BY <1>3, <1>4 DEF Counted
  <2>2. IsFiniteSet(A) /\ IsFiniteSet(C)
    BY HalfPaidAssumption, FS_Subset
  <2>3. HoursSold = SumOf(Size, A) /\ HoursSold' = SumOf(Size, B)
    <3>1. HoursSold = SumOf(Size, A)
      BY HoursAreSum DEF HoursSold
    <3>2. HoursSold' = SumOf(Size, B)
      BY HoursAreSum DEF HoursSold
    <3> QED BY <3>1, <3>2
  <2>4. /\ Size[o] = Cardinality(Slots[o]) /\ \A p \in TrialOrders : Size[p] \in Nat
        /\ HoursSold + Cardinality(Slots[o]) <= MaxHours /\ Cardinality(C) < MaxBuyers
    BY HalfPaidAssumption, FS_CardinalityType DEF Size, CreateOrder
  <2>5. Cardinality(D) = Cardinality(C) + 1 /\ Cardinality(C) \in Nat
    BY <2>1, <2>2, FS_AddElement, FS_CardinalityType
  <2>6. SumOf(Size, A) \in Nat
    BY <2>2, <2>4, SumOfNaturals
  <2> HIDE DEF A, B, C
  <2>7. SumOf(Size, B) = Size[o] + SumOf(Size, A)
    <3>1. A \subseteq TrialOrders
      BY DEF A
    <3>2. \A p \in A \cup {o} : Size[p] \in Int
      BY <2>4, <3>1
    <3> QED BY <2>1, <2>2, <3>2, SumWith
  <2>8. HoursSold' <= MaxHours
    BY <2>3, <2>4, <2>6, <2>7
  <2>9. Cardinality(D) <= MaxBuyers
    BY <2>4, <2>5, SupplyAssumption
  <2>10. \A p, q \in TrialOrders : p # q /\ Overlap(p, q) => ~(alloc'[p] \in Occupying /\ alloc'[q] \in Occupying)
    <3>1. \A p \in TrialOrders : alloc[p] \in Occupying => ~Overlap(o, p) /\ ~Overlap(p, o)
      BY DEF CreateOrder, Overlap
    <3>2. \A p \in TrialOrders : p # o => alloc'[p] = alloc[p]
      BY <1>3
    <3> QED BY <1>1, <3>1, <3>2 DEF Sold
  <2> QED BY <2>8, <2>9, <2>10 DEF Sold, Overlap
<1> QED BY <1>2, <1>7, <1>8, <1>9, <1>10, <1>11, <1>12, TrialOrderStep DEF Here

(* A payment row is made for Alipay.                                       *)
LEMMA EnsurePaymentSteps ==
    ASSUME Trialled, NEW o \in TrialOrders, EnsurePayment(o), UNCHANGED <<deliveryVars, refundVars>>
    PROVE  Trialled'
<1>1. TrialRows /\ Here(o)
  BY DEF Trialled, Here
<1>2. /\ payment' = [payment EXCEPT ![o] = [status |-> "PENDING", provider |-> "ALIPAY"]]
      /\ alipay' = [alipay EXCEPT ![o] = "open"]
      /\ UNCHANGED <<order, late, alloc, delivery, check, payEvents, debit, trialReq, receipts, node, refund, returned>>
  BY DEF EnsurePayment, deliveryVars, refundVars
<1>3. /\ payment'[o] = [status |-> "PENDING", provider |-> "ALIPAY"]
      /\ \A p \in TrialOrders : p # o => payment'[p] = payment[p]
  BY <1>1, <1>2 DEF TrialRows
<1>4. o \in AlipayTrials /\ o \notin HalfPaid /\ order[o] # "NONE" /\ payment[o] = NoPayment
  BY SupplyAssumption DEF EnsurePayment
<1>5. Unpaid(o) /\ order[o] = "PAYMENT_PENDING"
  BY <1>1, <1>4 DEF Here, Bought, Unpaid, Settled, HalfSettled, PaidByAlipay, Card, NoPayment
<1>6. delivery[o] = "AWAITING_PAYMENT"
  BY <1>1, <1>5 DEF Here, Placed
<1>7. TrialRows' /\ \A v \in Workers : trialReq'[v] = trialReq[v] \/ Carried(v)'
  <2>1. /\ payment' \in [TrialOrders -> [status : {"NONE", "PENDING", "CAPTURED", "CLOSED", "REFUND_PENDING", "REFUNDED"},
                                    provider : {"NONE", "ALIPAY", "KAI_CARD_HOUR"}]]
        /\ alipay' \in [TrialOrders -> {"none", "open", "paid", "closed"}]
    BY <1>1, <1>2 DEF TrialRows
  <2> QED BY <1>1, <1>2, <2>1, RequestsRest DEF TrialRows
<1>8. Placed(o)' /\ Hosted(o)' /\ Kept(o)'
  BY <1>1, <1>2 DEF Here, Placed, Hosted, Kept
<1>9. PaidByAlipay(o)'
  BY <1>2, <1>3, <1>4, <1>5, <1>6 DEF PaidByAlipay, Unpaid
<1>10. Forward(o) /\ Onward(o)
  BY <1>2, <1>4 DEF Forward, Onward, NoPayment
<1>11. \A p \in TrialOrders : p # o => SameRow(p)
  BY <1>2, <1>3 DEF SameRow
<1>12. Sold'
  BY <1>2, SoldStays DEF Trialled
<1> QED BY <1>2, <1>7, <1>8, <1>9, <1>10, <1>11, <1>12, TrialOrderStep DEF Here, Bought

(* An order is paid in card-hours.                                         *)
LEMMA SettleSteps ==
    ASSUME Trialled, NEW w \in Workers, Settle(w), UNCHANGED <<deliveryVars, refundVars>>
    PROVE  Trialled'
<1>1. PICK o \in TrialOrders : o = trialReq[w].o
  BY ErrandOf DEF Settle, ErrandSteps
<1>2. TrialRows /\ Here(o) /\ Moved(w)
  BY EndsMoved DEF Trialled, Here, Settle, Ends
<1>3. order[o] = "PAYMENT_PENDING" /\ debit[o] = "NONE"
  BY <1>1 DEF Settle, Capturable, Facts
<1>4. alloc[o] = "RESERVED" /\ delivery[o] = "AWAITING_PAYMENT" /\ receipts[o] = {} /\ node[o] = "none"
  BY <1>2, <1>3 DEF Here, Placed, Hosted, AfterPaid, CleaningOn
<1>5. payment[o].provider # "ALIPAY"
  BY <1>1 DEF Settle, Capturable, Facts, NoPayment
<1>6. payment[o] = NoPayment /\ payEvents[o] = {}
  BY <1>2, <1>3, <1>5 DEF Here, Bought, Unpaid, Settled, HalfSettled, PaidByAlipay
<1>7. /\ order' = [order EXCEPT ![o] = "PAID"] /\ alloc' = [alloc EXCEPT ![o] = "LOCKED"]
      /\ delivery' = [delivery EXCEPT ![o] = "AWAITING_KEY"] /\ debit' = [debit EXCEPT ![o] = "CAPTURED"]
      /\ payment' = [payment EXCEPT ![o] = Card] /\ payEvents' = [payEvents EXCEPT ![o] = {Captured}]
  BY <1>1, <1>6 DEF Settle, WithCapture, Facts, Card
<1>8. UNCHANGED <<late, check, alipay, receipts, node, refund, returned>>
  BY DEF Settle, deliveryVars, refundVars
<1>9. /\ order'[o] = "PAID" /\ alloc'[o] = "LOCKED" /\ delivery'[o] = "AWAITING_KEY" /\ debit'[o] = "CAPTURED"
      /\ payment'[o] = Card /\ payEvents'[o] = {Captured}
      /\ \A p \in TrialOrders : p # o => /\ order'[p] = order[p] /\ alloc'[p] = alloc[p] /\ delivery'[p] = delivery[p]
                                         /\ debit'[p] = debit[p] /\ payment'[p] = payment[p] /\ payEvents'[p] = payEvents[p]
  BY <1>2, <1>7 DEF TrialRows
<1>10. Captured \in Event /\ Captured.type = "CAPTURED" /\ Captured.ref = "card-hours"
  BY SupplyAssumption DEF Captured, Event
<1>11. TrialRows' /\ \A v \in Workers : trialReq'[v] = trialReq[v] \/ Carried(v)'
  <2>1. /\ order' \in [TrialOrders -> OrderStatus] /\ delivery' \in [TrialOrders -> DeliveryStatus]
        /\ alloc' \in [TrialOrders -> Counted \cup {"NONE", "CANCELLED"}]
        /\ debit' \in [TrialOrders -> {"NONE", "CAPTURED"}]
    BY <1>2, <1>7 DEF TrialRows, OrderStatus, DeliveryStatus, Counted
  <2>2. payment' \in [TrialOrders -> [status : {"NONE", "PENDING", "CAPTURED", "CLOSED", "REFUND_PENDING", "REFUNDED"},
                                      provider : {"NONE", "ALIPAY", "KAI_CARD_HOUR"}]]
    BY <1>2, <1>7 DEF TrialRows, Card
  <2>3. payEvents' \in [TrialOrders -> SUBSET Event]
    BY <1>2, <1>7, <1>10 DEF TrialRows
  <2> QED BY <1>2, <1>8, <2>1, <2>2, <2>3, RequestMoves DEF TrialRows
<1>12. Placed(o)' /\ Hosted(o)'
  BY <1>4, <1>8, <1>9 DEF Placed, Hosted, AfterPaid
<1>13. Settled(o)'
  BY <1>9 DEF Settled, AfterPaid
<1>14. Kept(o)'
  <2>1. IsFiniteSet({Captured})
    BY FS_Singleton
  <2>2. Captured.type \notin RefundTypes /\ Captured.ref \notin Refs
    BY <1>10, SupplyAssumption DEF RefundTypes
  <2> QED BY <1>9, <1>10, <2>1, <2>2 DEF Kept
<1>15. Forward(o) /\ Onward(o)
  BY <1>3, <1>4, <1>6, <1>8, <1>9 DEF Forward, Onward, NoPayment, AfterPaid, AfterDelivered, AfterStart, AfterStop,
     AwaitedOn, ReadyOn, ServedOn, CleaningOn
<1>16. \A p \in TrialOrders : p # o => SameRow(p)
  BY <1>8, <1>9 DEF SameRow
<1>17. Sold'
  <2>1. \A p \in TrialOrders : /\ alloc'[p] \in Occupying => alloc[p] \in Occupying
                               /\ alloc'[p] \in Counted => alloc[p] \in Counted
                               /\ order'[p] # "NONE" => order[p] # "NONE"
    BY <1>3, <1>4, <1>9 DEF Occupying, Counted
  <2> QED BY <2>1, SoldStays DEF Trialled
<1> QED BY <1>8, <1>11, <1>12, <1>13, <1>14, <1>15, <1>16, <1>17, TrialOrderStep DEF Here, Bought

(* An event is entered.                                                    *)
LEMMA PostStep ==
    ASSUME Trialled, NEW w \in Workers, Moved(w), NEW o \in TrialOrders, NEW e \in Event, NEW saw \in Sight,
           Fresh(o, saw), Post(o, e, saw), Enters(o, e),
           e.type \in RefundTypes => e.amount <= Total - Refunded(saw.events),
           UNCHANGED <<late, check, debit, alipay, deliveryVars, refundVars>>
    PROVE  Trialled'
<1>1. TrialRows /\ Sold /\ \A p \in TrialOrders : Here(p)
  BY DEF Trialled, Here
<1>2. UNCHANGED <<late, check, debit, alipay, receipts, node, refund, returned>>
  BY DEF deliveryVars, refundVars
<1>3. /\ MoneyTyped' /\ Here(o)' /\ Forward(o) /\ Onward(o) /\ Sold'
      /\ \A p \in TrialOrders : p # o => SameRow(p)
  BY <1>1, <1>2, PostServes
<1>4. TrialRows' /\ \A v \in Workers : trialReq'[v] = trialReq[v] \/ Carried(v)'
  BY <1>1, <1>2, <1>3, RequestMoves DEF TrialRows, MoneyTyped
<1> QED BY <1>2, <1>3, <1>4, TrialOrderStep
(* What the callback brought is entered.                                   *)
LEMMA PostNotifiedSteps ==
    ASSUME Trialled, NEW w \in Workers, PostNotified(w), UNCHANGED <<deliveryVars, refundVars>>
    PROVE  Trialled'
<1>1. PICK r : r = trialReq[w]
  OBVIOUS
<1>2. r \in Notices /\ Notified(r)
  BY <1>1, NoticeOf DEF PostNotified
<1>3. r.o \in TrialOrders /\ r.event \in Event /\ r.saw \in Sight /\ Fresh(r.o, r.saw)
  BY <1>2 DEF Notices, Notified
<1>4. Enters(r.o, r.event) /\ r.event.type \notin RefundTypes
  BY <1>2 DEF Notified, Enters, RefundTypes
<1>5. Post(r.o, r.event, r.saw) /\ Moved(w) /\ UNCHANGED <<late, check, debit, alipay>>
  BY <1>1, EndsMoved DEF PostNotified, Ends
<1> QED BY <1>3, <1>4, <1>5, PostStep

(* A step on the row of one refund.                                        *)
LEMMA RefundStep ==
    ASSUME Trialled, NEW c \in Refs, refund' \in [Refs -> Refund], \A d \in Refs : d # c => refund'[d] = refund[d],
           RefundOnward(c), Asked(c)', Approved',
           trialReq' \in [Workers -> Kinds],
           \A v \in Workers : trialReq'[v] = trialReq[v] \/ Carried(v)',
           UNCHANGED <<order, late, alloc, delivery, check, payVars, deliveryVars, returned>>
    PROVE  Trialled'
<1>1. UNCHANGED <<order, late, alloc, delivery, check, payment, payEvents, debit, alipay, receipts, node, returned>>
  BY DEF payVars, deliveryVars
<1>2. TrialRows'
  BY <1>1 DEF Trialled, TrialRows
<1>3. \A o \in TrialOrders : SameRow(o)
  BY <1>1 DEF SameRow
<1>4. \A d \in Refs : RefundOnward(d) /\ (refund'[d] = refund[d] \/ Asked(d)')
  BY DEF RefundOnward
<1>5. Sold'
  BY <1>1, SoldStays DEF Trialled
<1> QED BY <1>1, <1>2, <1>3, <1>4, <1>5, TrialStep

(* One execution of an order still runs at a time.                         *)
LEMMA ApprovedStays ==
    ASSUME TrialRows, Approved, NEW c \in Refs, \A d \in Refs : d # c => refund'[d] = refund[d], returned' = returned,
           c \in returned => refund'[c].status = "APPROVED",
           refund'[c].run = "PROCESSING" =>
               \A d \in Refs : d # c /\ refund[d].run = "PROCESSING" => refund[d].o # refund'[c].o
    PROVE  Approved'
<1>1. \A d \in returned' : refund'[d].status = "APPROVED"
  BY DEF Approved, TrialRows
<1>2. \A d, e \in Refs : d # e /\ refund'[d].run = "PROCESSING" /\ refund'[e].run = "PROCESSING" =>
          refund'[d].o # refund'[e].o
  BY DEF Approved
<1> QED BY <1>1, <1>2 DEF Approved

(* A refund is asked for,                                                  *)
LEMMA RequestRefundSteps ==
    ASSUME Trialled, NEW c \in Refs, NEW a \in Admins, NEW o \in TrialOrders, NEW n \in Amounts, RequestRefund(c, a, o, n)
    PROVE  Trialled'
<1>1. TrialRows /\ Asked(c) /\ Approved
  BY DEF Trialled
<1>2. /\ refund[c] \in Refund /\ refund[c].status = "NONE"
      /\ UNCHANGED <<order, late, alloc, delivery, check, payVars, trialReq, deliveryVars, returned>>
  BY <1>1 DEF RequestRefund, TrialRows
<1>3. refund[c].claims = 0 /\ refund[c].run = "NONE" /\ c \notin returned
  BY <1>1, <1>2 DEF Asked, Approved, Refund
<1> DEFINE q == [refund[c] EXCEPT !.status = "PENDING", !.o = o, !.amount = n, !.by = a]
<1>4. refund' = [refund EXCEPT ![c] = q]
  BY <1>1 DEF RequestRefund, TrialRows
<1>5. /\ q \in Refund /\ q.status = "PENDING" /\ q.o = o /\ q.amount = n
      /\ q.claims = refund[c].claims /\ q.token = refund[c].token /\ q.run = refund[c].run
  BY <1>2 DEF Refund
<1> HIDE DEF q
<1>6. refund' \in [Refs -> Refund] /\ refund'[c] = q /\ \A d \in Refs : d # c => refund'[d] = refund[d]
  BY <1>1, <1>4, <1>5 DEF TrialRows
<1>7. RefundOnward(c)
  BY <1>2 DEF RefundOnward
<1>8. Asked(c)'
  BY <1>1, <1>3, <1>5, <1>6 DEF Asked
<1>9. Approved'
  BY <1>1, <1>2, <1>3, <1>5, <1>6, ApprovedStays
<1> QED BY <1>1, <1>2, <1>6, <1>7, <1>8, <1>9, RequestsRest, RefundStep
(* and decided.                                                            *)
LEMMA DecideRefundSteps ==
    ASSUME Trialled, NEW c \in Refs, NEW a \in Admins, NEW verdict \in {"APPROVED", "REJECTED"}, DecideRefund(c, a, verdict)
    PROVE  Trialled'
<1>1. TrialRows /\ Asked(c) /\ Approved
  BY DEF Trialled
<1>2. /\ refund[c] \in Refund /\ refund[c].status = "PENDING" /\ refund[c].by # a
      /\ UNCHANGED <<order, late, alloc, delivery, check, payVars, trialReq, deliveryVars, returned>>
  BY <1>1 DEF DecideRefund, TrialRows
<1>3. refund[c].claims = 0 /\ refund[c].run = "NONE" /\ c \notin returned
  BY <1>1, <1>2 DEF Asked, Approved, Refund
<1> DEFINE q == [refund[c] EXCEPT !.status = verdict, !.decider = a]
<1>4. refund' = [refund EXCEPT ![c] = q]
  BY <1>1 DEF DecideRefund, TrialRows
<1>5. /\ q \in Refund /\ q.status = verdict /\ q.o = refund[c].o /\ q.amount = refund[c].amount
      /\ q.claims = refund[c].claims /\ q.token = refund[c].token /\ q.run = refund[c].run
      /\ q.by = refund[c].by /\ q.decider = a
  BY <1>2 DEF Refund
<1> HIDE DEF q
<1>6. refund' \in [Refs -> Refund] /\ refund'[c] = q /\ \A d \in Refs : d # c => refund'[d] = refund[d]
  BY <1>1, <1>4, <1>5 DEF TrialRows
<1>7. RefundOnward(c)
  BY <1>2, <1>5, <1>6 DEF RefundOnward
<1>8. Asked(c)'
  BY <1>1, <1>2, <1>3, <1>5, <1>6 DEF Asked
<1>9. Approved'
  BY <1>1, <1>2, <1>3, <1>5, <1>6, ApprovedStays
<1> QED BY <1>1, <1>2, <1>6, <1>7, <1>8, <1>9, RequestsRest, RefundStep

(* An executor claims a refund.                                            *)
LEMMA ClaimRefundSteps ==
    ASSUME Trialled, NEW w \in Workers, NEW c \in Refs, NEW a \in Admins, ClaimRefund(w, c, a)
    PROVE  Trialled'
<1>1. TrialRows /\ Asked(c) /\ Approved
  BY DEF Trialled
<1>2. /\ refund[c] \in Refund /\ refund[c].status = "APPROVED" /\ Claimable(c)
      /\ UNCHANGED <<order, late, alloc, delivery, check, payVars, deliveryVars, returned>>
  BY <1>1 DEF ClaimRefund, TrialRows
<1>3. PICK o \in TrialOrders, token \in Nat : o = refund[c].o /\ token = refund[c].claims + 1
  BY <1>1, <1>2 DEF Asked, Refund
<1> DEFINE q == [refund[c] EXCEPT !.run = "PROCESSING", !.claims = token, !.token = token, !.old = FALSE]
<1>4. refund' = [refund EXCEPT ![c] = q]
  BY <1>1, <1>3 DEF ClaimRefund, TrialRows
<1>5. /\ q \in Refund /\ q.status = "APPROVED" /\ q.o = o /\ q.amount = refund[c].amount
      /\ q.claims = token /\ q.token = token /\ q.run = "PROCESSING"
      /\ q.by = refund[c].by /\ q.decider = refund[c].decider
  BY <1>2, <1>3 DEF Refund
<1> HIDE DEF q
<1>6. refund' \in [Refs -> Refund] /\ refund'[c] = q /\ \A d \in Refs : d # c => refund'[d] = refund[d]
  BY <1>1, <1>4, <1>5 DEF TrialRows
<1>7. RefundOnward(c)
  BY <1>2, <1>3, <1>5, <1>6 DEF RefundOnward
<1>8. Asked(c)'
  <2>1. token > 0 /\ o \in TrialOrders
    BY <1>2, <1>3 DEF Refund
  <2>2. refund[c].amount \in Amounts /\ refund[c].by # refund[c].decider
    BY <1>1, <1>2 DEF Asked
  <2> QED BY <1>5, <1>6, <2>1, <2>2 DEF Asked
<1>9. Approved'
  <2>1. \A d \in Refs : d # c /\ refund[d].run = "PROCESSING" => refund[d].o # q.o
    BY <1>2, <1>3, <1>5 DEF Claimable
  <2> QED BY <1>1, <1>2, <1>5, <1>6, <2>1, ApprovedStays
<1> DEFINE r == [step |-> "claimed", o |-> o, c |-> c, token |-> token]
<1>10. r \in Executions /\ r.step = "claimed" /\ r.c = c /\ r.o = o
  BY DEF Executions, Claims
<1>11. trialReq' = [trialReq EXCEPT ![w] = r]
  BY <1>3 DEF ClaimRefund
<1> HIDE DEF r
<1>12. Executing(r)'
  BY <1>5, <1>6, <1>10 DEF Executing
<1>13. Moved(w)
  BY <1>1, <1>10, <1>11, <1>12, ExecutionMoved
<1> QED BY <1>1, <1>2, <1>6, <1>7, <1>8, <1>9, <1>13, RequestMoves, RefundStep
(* A claim grows old.                                                      *)
LEMMA ClaimAgesSteps == ASSUME Trialled, NEW c \in Refs, ClaimAges(c) PROVE Trialled'
<1>1. TrialRows /\ Asked(c) /\ Approved
  BY DEF Trialled
<1>2. refund[c] \in Refund /\ UNCHANGED <<order, late, alloc, delivery, check, payVars, trialReq, deliveryVars, returned>>
  BY <1>1 DEF ClaimAges, TrialRows
<1> DEFINE q == [refund[c] EXCEPT !.old = TRUE]
<1>3. refund' = [refund EXCEPT ![c] = q]
  BY <1>1 DEF ClaimAges, TrialRows
<1>4. /\ q \in Refund /\ q.status = refund[c].status /\ q.o = refund[c].o /\ q.amount = refund[c].amount
      /\ q.claims = refund[c].claims /\ q.token = refund[c].token /\ q.run = refund[c].run
      /\ q.by = refund[c].by /\ q.decider = refund[c].decider
  BY <1>2 DEF Refund
<1> HIDE DEF q
<1>5. refund' \in [Refs -> Refund] /\ refund'[c] = q /\ \A d \in Refs : d # c => refund'[d] = refund[d]
  BY <1>1, <1>3, <1>4 DEF TrialRows
<1>6. RefundOnward(c)
  BY <1>4, <1>5 DEF RefundOnward
<1>7. Asked(c)'
  BY <1>1, <1>2, <1>4, <1>5 DEF Asked, OnRecord, payVars
<1>8. Approved'
  <2>1. refund[c].run = "PROCESSING" =>
            \A d \in Refs : d # c /\ refund[d].run = "PROCESSING" => refund[d].o # refund[c].o
    BY <1>1 DEF Approved
  <2>2. c \in returned => refund[c].status = "APPROVED"
    BY <1>1 DEF Approved
  <2> QED BY <1>1, <1>2, <1>4, <1>5, <2>1, <2>2, ApprovedStays
<1> QED BY <1>1, <1>2, <1>5, <1>6, <1>7, <1>8, RequestsRest, RefundStep

(* An executor reports.                                                    *)
LEMMA FinishRefundSteps ==
    ASSUME Trialled, NEW w \in Workers, NEW result \in {"SUCCEEDED", "FAILED"}, FinishRefund(w, result)
    PROVE  Trialled'
<1>1. PICK r : r = trialReq[w]
  OBVIOUS
<1>2. r \in Executions /\ Executing(r) /\ r.step \in {"succeeded", "failed"} /\ r.o \in TrialOrders /\ r.c \in Refs
  BY <1>1, ExecutionOf, ExecutionNames DEF FinishRefund
<1>3. PICK c \in Refs : c = r.c
  BY <1>2
<1>4. TrialRows /\ Asked(c) /\ Approved /\ Moved(w)
  BY EndsMoved DEF Trialled, FinishRefund
<1>5. /\ refund[c] \in Refund /\ refund[c].run = "PROCESSING"
      /\ UNCHANGED <<order, late, alloc, delivery, check, payVars, deliveryVars, returned>>
  BY <1>1, <1>3, <1>4 DEF FinishRefund, TrialRows
<1> DEFINE q == [refund[c] EXCEPT !.old = FALSE, !.run = result]
<1>6. refund' = [refund EXCEPT ![c] = q]
  BY <1>1, <1>3, <1>4 DEF FinishRefund, TrialRows
<1>7. /\ q \in Refund /\ q.status = refund[c].status /\ q.o = refund[c].o /\ q.amount = refund[c].amount
      /\ q.claims = refund[c].claims /\ q.token = refund[c].token /\ q.run = result
      /\ q.by = refund[c].by /\ q.decider = refund[c].decider
  BY <1>5 DEF Refund
<1> HIDE DEF q
<1>8. refund' \in [Refs -> Refund] /\ refund'[c] = q /\ \A d \in Refs : d # c => refund'[d] = refund[d]
  BY <1>4, <1>6, <1>7 DEF TrialRows
<1>9. RefundOnward(c)
  BY <1>7, <1>8 DEF RefundOnward
<1>10. Asked(c)'
  <2>1. result = "SUCCEEDED" => c \in returned /\ OnRecord(refund[c].o, c)
    BY <1>1, <1>2, <1>3 DEF FinishRefund, Executing
  <2> QED BY <1>4, <1>5, <1>7, <1>8, <2>1 DEF Asked, OnRecord, payVars
<1>11. Approved'
  <2>1. c \in returned => refund[c].status = "APPROVED"
    BY <1>4 DEF Approved
  <2> QED BY <1>4, <1>5, <1>7, <1>8, <2>1, ApprovedStays
<1> QED BY <1>4, <1>5, <1>8, <1>9, <1>10, <1>11, RequestMoves, RefundStep

(* Alipay is asked to refund.                                              *)
LEMMA CallAlipaySteps == ASSUME Trialled, NEW w \in Workers, CallAlipay(w) PROVE Trialled'
<1>0. TrialRows /\ Approved
  BY DEF Trialled
<1>1. PICK r : r = trialReq[w]
  OBVIOUS
<1>2. r \in Payings /\ Executing(r) /\ r.step = "paying" /\ r.o \in TrialOrders /\ r.c \in Refs /\ r \in Executions
  BY <1>1, ExecutionOf, ExecutionNames DEF CallAlipay
<1>3. UNCHANGED <<order, late, alloc, delivery, check, payment, payEvents, debit, receipts, node, refund>>
  BY DEF CallAlipay, deliveryVars
<1>4. refund[r.c].status = "APPROVED" /\ refund[r.c].o = r.o
  BY <1>2 DEF Executing
<1>5. /\ returned' = returned \cup {r.c} \/ returned' = returned
      /\ alipay' = alipay \/ (\E t \in {"closed", alipay[r.o]} : alipay' = [alipay EXCEPT ![r.o] = t])
      /\ Goes(w, "failed") \/ (Goes(w, "returned") /\ r.c \in returned')
  <2> DEFINE S == Sum({d \in returned' : refund[d].o = r.o})
  <2>1. CASE /\ returned' = returned \cup {r.c}
             /\ alipay' = [alipay EXCEPT ![r.o] = IF S = Total THEN "closed" ELSE @]
             /\ \E answer \in {"returned", "failed"} : Goes(w, answer)
    <3>1. PICK t : t = IF S = Total THEN "closed" ELSE alipay[r.o]
      OBVIOUS
    <3>2. t \in {"closed", alipay[r.o]} /\ alipay' = [alipay EXCEPT ![r.o] = t]
      BY <2>1, <3>1
    <3> QED BY <2>1, <3>2
  <2>2. CASE Goes(w, "failed") /\ UNCHANGED <<returned, alipay>>
    BY <2>2
  <2> QED BY <1>1, <2>1, <2>2 DEF CallAlipay
<1>6. Moved(w)
  <2>1. CASE Goes(w, "failed")
    BY <1>0, <1>1, <1>2, <1>3, <1>4, <2>1, ExecutionEnds
  <2>2. CASE Goes(w, "returned") /\ r.c \in returned'
    <3> DEFINE q == [r EXCEPT !.step = "returned"]
    <3>1. q \in Executions /\ q.o = r.o /\ q.c = r.c /\ q.event = r.event /\ q.step = "returned"
      BY <1>2 DEF Executions, Payings
    <3>2. trialReq' = [trialReq EXCEPT ![w] = q]
      BY <1>1, <2>2 DEF Goes
    <3> HIDE DEF q
    <3>3. Executing(q)'
      BY <1>2, <1>3, <2>2, <3>1 DEF Executing
    <3> QED BY <1>0, <3>1, <3>2, <3>3, ExecutionMoved
  <2> QED BY <1>5, <2>1, <2>2
<1>7. alipay' \in [TrialOrders -> {"none", "open", "paid", "closed"}]
  BY <1>0, <1>2, <1>5 DEF TrialRows
<1>8. returned \subseteq returned' /\ returned' \subseteq Refs
  BY <1>0, <1>2, <1>5 DEF TrialRows
<1>9. TrialRows' /\ \A v \in Workers : trialReq'[v] = trialReq[v] \/ Carried(v)'
  BY <1>0, <1>3, <1>6, <1>7, <1>8, RequestMoves DEF TrialRows
<1>10. /\ \A o \in TrialOrders : SameRow(o)
       /\ \A c \in Refs : refund'[c] = refund[c] /\ RefundOnward(c)
  BY <1>3 DEF SameRow, RefundOnward
<1>11. Approved'
  BY <1>0, <1>3, <1>4, <1>5 DEF Approved
<1>12. Sold'
  BY <1>3, SoldStays DEF Trialled
<1> QED BY <1>8, <1>9, <1>10, <1>11, <1>12, TrialStep

(* The refund is entered.                                                  *)
LEMMA RecordRefundSteps == ASSUME Trialled, NEW w \in Workers, RecordRefund(w) PROVE Trialled'
<1>0. TrialRows
  BY DEF Trialled
<1>1. PICK r : r = trialReq[w]
  OBVIOUS
<1>2. /\ r \in Executions /\ Executing(r) /\ r.step = "recording" /\ r.o \in TrialOrders /\ r.c \in Refs
      /\ r.event \in Event /\ r.saw \in Sight
  BY <1>1, ExecutionOf, ExecutionNames DEF RecordRefund
<1>3. UNCHANGED <<late, check, debit, alipay, deliveryVars, refundVars>>
  BY DEF RecordRefund
<1>4. refund' = refund /\ returned' = returned
  BY <1>3 DEF refundVars
<1>5. /\ refund[r.c].status = "APPROVED" /\ refund[r.c].o = r.o /\ r.c \in returned
      /\ r.event.type \in RefundTypes /\ r.event.ref = r.c /\ Fresh(r.o, r.saw)
      /\ r.event.amount <= Total - Refunded(r.saw.events)
  BY <1>2 DEF Executing
<1>6. CASE Post(r.o, r.event, r.saw) /\ Goes(w, "succeeded")
  <2>1. OnRecord(r.o, r.c)'
    <3>1. r.event \in payEvents'[r.o]
      BY <1>0, <1>2, <1>6 DEF Post, TrialRows
    <3> QED BY <1>5, <3>1 DEF OnRecord
  <2>2. Moved(w)
    BY <1>0, <1>1, <1>2, <1>4, <1>5, <1>6, <2>1, ExecutionEnds
  <2>3. Enters(r.o, r.event)
    BY <1>2, <1>5 DEF Enters
  <2> QED BY <1>2, <1>3, <1>5, <1>6, <2>2, <2>3, PostStep
<1>7. CASE /\ Goes(w, IF OnRecord(r.o, r.c) THEN "succeeded" ELSE "failed")
           /\ UNCHANGED <<order, alloc, delivery, payment, payEvents>>
  <2>1. OnRecord(r.o, r.c)' <=> OnRecord(r.o, r.c)
    BY <1>7 DEF OnRecord
  <2>2. Moved(w)
    <3>1. CASE OnRecord(r.o, r.c)
      <4>1. Goes(w, "succeeded")
        BY <1>7, <3>1
      <4> QED BY <1>0, <1>1, <1>2, <1>4, <1>5, <2>1, <3>1, <4>1, ExecutionEnds
    <3>2. CASE ~OnRecord(r.o, r.c)
      <4>1. Goes(w, "failed")
        BY <1>7, <3>2
      <4> QED BY <1>0, <1>1, <1>2, <1>4, <1>5, <4>1, ExecutionEnds
    <3> QED BY <3>1, <3>2
  <2>3. UNCHANGED <<order, late, alloc, delivery, check, payVars, deliveryVars, refundVars>>
    BY <1>3, <1>7 DEF payVars
  <2> QED BY <2>2, <2>3, TrialRequestStep
<1> QED BY <1>1, <1>6, <1>7 DEF RecordRefund

(* Orders of the former release, and none other, are there at first.       *)
LEMMA TrialsStart == TrialsInit => Trialled
<1> SUFFICES ASSUME TrialsInit PROVE Trialled
  OBVIOUS
<1>1. PICK old \in SUBSET HalfPaid : \E half \in [old -> HalfCaptured] :
        /\ order = [o \in TrialOrders |-> IF o \in old THEN half[o].order ELSE "NONE"]
        /\ late = [o \in TrialOrders |-> o \in old /\ half[o].late]
        /\ alloc = [o \in TrialOrders |-> IF o \in old THEN half[o].alloc ELSE "NONE"]
        /\ payment = [o \in TrialOrders |-> IF o \in old THEN half[o].payment ELSE NoPayment]
        /\ payEvents = [o \in TrialOrders |-> IF o \in old THEN half[o].events ELSE {}]
        /\ delivery = [o \in TrialOrders |-> IF o \in old THEN "AWAITING_PAYMENT" ELSE "NONE"]
        /\ debit = [o \in TrialOrders |-> IF o \in old THEN "CAPTURED" ELSE "NONE"]
        /\ check = [o \in TrialOrders |-> "NONE"]
        /\ alipay = [o \in TrialOrders |-> "none"]
        /\ trialReq = [w \in Workers |-> Idle]
  BY DEF TrialsInit, PaymentsInit
<1>2. PICK half \in [old -> HalfCaptured] :
        /\ order = [o \in TrialOrders |-> IF o \in old THEN half[o].order ELSE "NONE"]
        /\ late = [o \in TrialOrders |-> o \in old /\ half[o].late]
        /\ alloc = [o \in TrialOrders |-> IF o \in old THEN half[o].alloc ELSE "NONE"]
        /\ payment = [o \in TrialOrders |-> IF o \in old THEN half[o].payment ELSE NoPayment]
        /\ payEvents = [o \in TrialOrders |-> IF o \in old THEN half[o].events ELSE {}]
        /\ delivery = [o \in TrialOrders |-> IF o \in old THEN "AWAITING_PAYMENT" ELSE "NONE"]
        /\ debit = [o \in TrialOrders |-> IF o \in old THEN "CAPTURED" ELSE "NONE"]
        /\ check = [o \in TrialOrders |-> "NONE"]
        /\ alipay = [o \in TrialOrders |-> "none"]
        /\ trialReq = [w \in Workers |-> Idle]
  BY <1>1
<1>3. /\ receipts = [o \in TrialOrders |-> {}] /\ node = [o \in TrialOrders |-> "none"]
      /\ refund = [c \in Refs |-> NoRefund] /\ returned = {}
  BY DEF TrialsInit
<1>4. Captured \in Event /\ Captured.type = "CAPTURED" /\ Captured.ref = "card-hours" /\ Captured.ref \notin Refs
  BY SupplyAssumption DEF Captured, Event
<1>5. \A h \in HalfCaptured :
          \/ /\ h.order = "PAYMENT_PENDING" /\ h.alloc = "RESERVED" /\ h.events = {} /\ h.late \in BOOLEAN
             /\ h.payment \in {NoPayment, [status |-> "PENDING", provider |-> "KAI_CARD_HOUR"]}
          \/ /\ h.order = "REFUND_PENDING" /\ h.alloc = "LOCKED" /\ h.events = {Captured} /\ h.late \in BOOLEAN
             /\ h.payment = [status |-> "REFUND_PENDING", provider |-> "KAI_CARD_HOUR"]
  BY DEF HalfCaptured
<1>6. ASSUME NEW o \in TrialOrders, o \in old
      PROVE  /\ half[o] \in HalfCaptured /\ o \in HalfPaid
             /\ order[o] = half[o].order /\ late[o] = half[o].late /\ alloc[o] = half[o].alloc
             /\ payment[o] = half[o].payment /\ payEvents[o] = half[o].events
             /\ delivery[o] = "AWAITING_PAYMENT" /\ debit[o] = "CAPTURED"
  <2>1. late[o] = (o \in old /\ half[o].late) /\ half[o] \in HalfCaptured
    BY <1>2, <1>6
  <2>2. half[o].late \in BOOLEAN
    BY <1>5, <2>1
  <2> QED BY <1>2, <1>6, <2>1, <2>2
<1>7. ASSUME NEW o \in TrialOrders, o \notin old
      PROVE  /\ order[o] = "NONE" /\ late[o] = FALSE /\ alloc[o] = "NONE" /\ payment[o] = NoPayment
             /\ payEvents[o] = {} /\ delivery[o] = "NONE" /\ debit[o] = "NONE"
  BY <1>2, <1>7
<1>8. TrialRows
  <2>1. ASSUME NEW o \in TrialOrders
        PROVE  /\ order[o] \in OrderStatus /\ late[o] \in BOOLEAN /\ alloc[o] \in Counted \cup {"NONE", "CANCELLED"}
               /\ payment[o] \in [status : {"NONE", "PENDING", "CAPTURED", "CLOSED", "REFUND_PENDING", "REFUNDED"},
                                  provider : {"NONE", "ALIPAY", "KAI_CARD_HOUR"}]
               /\ payEvents[o] \subseteq Event
    <3>1. CASE o \in old
      BY <1>4, <1>5, <1>6, <3>1 DEF OrderStatus, Counted, NoPayment
    <3>2. CASE o \notin old
      <4>1. /\ order[o] = "NONE" /\ late[o] = FALSE /\ alloc[o] = "NONE" /\ payment[o] = NoPayment /\ payEvents[o] = {}
        BY <1>7, <3>2
      <4>2. /\ order[o] \in OrderStatus /\ alloc[o] \in Counted \cup {"NONE", "CANCELLED"} /\ payEvents[o] \subseteq Event
            /\ payment[o] \in [status : {"NONE", "PENDING", "CAPTURED", "CLOSED", "REFUND_PENDING", "REFUNDED"},
                               provider : {"NONE", "ALIPAY", "KAI_CARD_HOUR"}]
        BY <4>1 DEF OrderStatus, NoPayment
      <4>3. late[o] \in BOOLEAN
        BY <4>1
      <4> QED BY <4>2, <4>3
    <3> QED BY <3>1, <3>2
  <2>2. /\ order = [o \in TrialOrders |-> order[o]] /\ late = [o \in TrialOrders |-> late[o]]
        /\ alloc = [o \in TrialOrders |-> alloc[o]] /\ payment = [o \in TrialOrders |-> payment[o]]
        /\ payEvents = [o \in TrialOrders |-> payEvents[o]]
    BY <1>2
  <2>3. /\ order \in [TrialOrders -> OrderStatus] /\ late \in [TrialOrders -> BOOLEAN]
        /\ alloc \in [TrialOrders -> Counted \cup {"NONE", "CANCELLED"}] /\ payEvents \in [TrialOrders -> SUBSET Event]
        /\ payment \in [TrialOrders -> [status : {"NONE", "PENDING", "CAPTURED", "CLOSED", "REFUND_PENDING", "REFUNDED"},
                                  provider : {"NONE", "ALIPAY", "KAI_CARD_HOUR"}]]
    BY <2>1, <2>2
  <2>4. NoRefund \in Refund
    BY DEF NoRefund, Refund
  <2>5. refund \in [Refs -> Refund] /\ returned \subseteq Refs
    BY <1>3, <2>4
  <2>6. delivery \in [TrialOrders -> DeliveryStatus]
    BY <1>2 DEF DeliveryStatus
  <2>7. debit \in [TrialOrders -> {"NONE", "CAPTURED"}] /\ check \in [TrialOrders -> {"NONE", "PASSED", "FAILED"}]
    BY <1>2
  <2>8. alipay \in [TrialOrders -> {"none", "open", "paid", "closed"}]
    BY <1>2
  <2>9. /\ receipts \in [TrialOrders -> SUBSET {"provisioning", "preparing", "ready", "delivered"}]
        /\ node \in [TrialOrders -> {"none", "key", "running", "stopped", "clean"}]
    BY <1>3
  <2>10. trialReq \in [Workers -> Kinds]
    BY <1>2 DEF Kinds
  <2> QED BY <2>3, <2>5, <2>6, <2>7, <2>8, <2>9, <2>10 DEF TrialRows
<1>9. \A o \in TrialOrders : Placed(o) /\ Hosted(o) /\ Bought(o) /\ Kept(o)
  <2> TAKE o \in TrialOrders
  <2>1. receipts[o] = {} /\ node[o] = "none"
    BY <1>3
  <2>2. CASE o \in old
    <3>1. Placed(o) /\ Hosted(o)
      BY <1>5, <1>6, <2>1, <2>2 DEF Placed, Hosted, AfterPaid
    <3>2. HalfSettled(o)
      BY <1>5, <1>6, <2>2 DEF HalfSettled
    <3>3. payEvents[o] = {} \/ payEvents[o] = {Captured}
      BY <1>5, <1>6, <2>2
    <3>4. IsFiniteSet({}) /\ IsFiniteSet({Captured})
      BY FS_EmptySet, FS_Singleton
    <3>5. Captured.type \notin RefundTypes
      BY <1>4 DEF RefundTypes
    <3>6. Kept(o)
      BY <1>4, <3>3, <3>4, <3>5 DEF Kept
    <3> QED BY <3>1, <3>2, <3>6 DEF Bought
  <2>3. CASE o \notin old
    <3>1. Placed(o) /\ Hosted(o) /\ Unpaid(o)
      BY <1>7, <2>1, <2>3 DEF Placed, Hosted, AfterPaid, Unpaid
    <3>2. Kept(o)
      BY <1>7, <2>3, FS_EmptySet DEF Kept
    <3> QED BY <3>1, <3>2 DEF Bought
  <2> QED BY <2>2, <2>3
<1>10. \A w \in Workers : Carried(w)
  <2>1. Idle \notin Errands /\ Idle \notin Notices /\ Idle \notin Executions
    BY RequestKinds DEF Idle, ErrandSteps, Kinds
  <2> QED BY <1>2, <2>1 DEF Carried, Carrying
<1>11. (\A c \in Refs : Asked(c)) /\ Approved
  BY <1>3 DEF Asked, Approved, NoRefund
<1>12. Sold
  <2> DEFINE A == {o \in TrialOrders : alloc[o] \in Counted}
             C == {o \in TrialOrders : order[o] # "NONE"}
  <2>1. A \subseteq HalfPaid /\ C \subseteq HalfPaid
    BY <1>6, <1>7 DEF Counted
  <2>2. IsFiniteSet(HalfPaid) /\ IsFiniteSet(A) /\ HalfPaid \subseteq TrialOrders
    BY <2>1, SupplyAssumption, HalfPaidAssumption, FS_Subset
  <2>3. HoursSold = SumOf(Size, A) /\ HoursOf(HalfPaid) = SumOf(Size, HalfPaid)
    BY <2>2, HoursAreSum DEF HoursSold
  <2>4. \A o \in HalfPaid : Size[o] \in Nat
    BY <2>2, HalfPaidAssumption, FS_CardinalityType DEF Size
  <2>5. SumOf(Size, A) <= SumOf(Size, HalfPaid) /\ SumOf(Size, A) \in Nat /\ SumOf(Size, HalfPaid) \in Nat
    BY <2>1, <2>2, <2>4, SumOfPart, SumOfNaturals
  <2>6. Cardinality(C) <= Cardinality(HalfPaid) /\ Cardinality(C) \in Nat /\ Cardinality(HalfPaid) \in Nat
    BY <2>1, <2>2, FS_Subset, FS_CardinalityType
  <2>7. Cardinality(C) <= MaxBuyers
    BY <2>6, SupplyAssumption, HalfPaidAssumption
  <2>8. HoursSold <= MaxHours
    BY <2>3, <2>5, SupplyAssumption, HalfPaidAssumption
  <2>9. \A o \in TrialOrders : alloc[o] \in Occupying => o \in HalfPaid
    BY <1>6, <1>7 DEF Occupying
  <2> QED BY <2>7, <2>8, <2>9, HalfPaidAssumption DEF Sold
<1> QED BY <1>8, <1>9, <1>10, <1>11, <1>12 DEF Trialled

(* Every step keeps the trial orders right.                                *)
LEMMA TrialsStay == Trialled /\ [TrialsNext]_trialVars => Trialled'
<1> SUFFICES ASSUME Trialled, [TrialsNext]_trialVars PROVE Trialled'
  OBVIOUS
<1>1. CASE UNCHANGED trialVars
  <2>1. UNCHANGED <<order, late, alloc, delivery, check, payment, payEvents, debit, alipay, trialReq, receipts, node, refund, returned>>
    BY <1>1 DEF trialVars, payVars
  <2>2. TrialRows' /\ \A v \in Workers : trialReq'[v] = trialReq[v] \/ Carried(v)'
    BY <2>1 DEF Trialled, TrialRows
  <2> QED BY <2>1, <2>2, AsideStep
<1>2. CASE \E o \in TrialOrders : CreateOrder(o) /\ UNCHANGED <<deliveryVars, refundVars>>
  BY <1>2, CreateOrderSteps
<1>3. CASE \E o \in TrialOrders : (HoldExpires(o) \/ BuyerPays(o) \/ TradeTimesOut(o)) /\ UNCHANGED <<deliveryVars, refundVars>>
  BY <1>3, ClockSteps
<1>4. CASE \E o \in TrialOrders : EnsurePayment(o) /\ UNCHANGED <<deliveryVars, refundVars>>
  BY <1>4, EnsurePaymentSteps
<1>5. CASE \E w \in Workers, o \in TrialOrders : Notify(w, o) /\ UNCHANGED <<deliveryVars, refundVars>>
  BY <1>5, NotifySteps
<1>6. CASE \E w \in Workers : PostNotified(w) /\ UNCHANGED <<deliveryVars, refundVars>>
  BY <1>6, PostNotifiedSteps
<1>7. CASE \E w \in Workers, o \in TrialOrders : ReadFacts(w, o) /\ UNCHANGED <<deliveryVars, refundVars>>
  BY <1>7, ReadFactsSteps
<1>8. CASE \E w \in Workers : Settle(w) /\ UNCHANGED <<deliveryVars, refundVars>>
  BY <1>8, SettleSteps
<1>9. CASE \E w \in Workers, o \in TrialOrders : ReadForKey(w, o) \/ ReadForCheck(w, o) \/ ReadForStart(w, o)
                                                 \/ ReadForStop(w, o) \/ ReadForCleanup(w, o)
  <2> PICK w \in Workers, o \in TrialOrders : ReadForKey(w, o) \/ ReadForCheck(w, o) \/ ReadForStart(w, o)
                                              \/ ReadForStop(w, o) \/ ReadForCleanup(w, o)
    BY <1>9
  <2>1. CASE ReadForKey(w, o)
    BY <2>1, ReadingSteps DEF ReadForKey
  <2>2. CASE ReadForCheck(w, o)
    BY <2>2, ReadingSteps DEF ReadForCheck
  <2>3. CASE ReadForStart(w, o)
    BY <2>3, ReadingSteps DEF ReadForStart
  <2>4. CASE ReadForStop(w, o)
    BY <2>4, ReadingSteps DEF ReadForStop
  <2>5. CASE ReadForCleanup(w, o)
    BY <2>5, ReadingSteps DEF ReadForCleanup
  <2> QED BY <2>1, <2>2, <2>3, <2>4, <2>5
<1>10. CASE \E w \in Workers : RegisterKey(w) \/ OrderProvisioning(w) \/ DeliveryProvisioning(w)
                               \/ DeliveryReady(w) \/ OrderDelivered(w)
  BY <1>10, RegisterKeySteps, OrderProvisioningSteps, DeliveryProvisioningSteps, DeliveryReadySteps, OrderDeliveredSteps
<1>11. CASE \E w \in Workers, result \in {"PASSED", "FAILED"} : RecordCheck(w, result)
  BY <1>11, RecordCheckSteps
<1>12. CASE \E w \in Workers : TellNode(w) \/ DeliveryFollows(w) \/ OrderFollows(w) \/ CleanupFollows(w) \/ Stop(w)
  BY <1>12, TellNodeSteps, DeliveryFollowsSteps, OrderFollowsSteps, CleanupSteps, StopSteps
<1>13. CASE \E c \in Refs, a \in Admins, o \in TrialOrders, n \in Amounts : RequestRefund(c, a, o, n)
  BY <1>13, RequestRefundSteps
<1>14. CASE \E c \in Refs, a \in Admins, verdict \in {"APPROVED", "REJECTED"} : DecideRefund(c, a, verdict)
  BY <1>14, DecideRefundSteps
<1>15. CASE \E w \in Workers, c \in Refs, a \in Admins : ClaimRefund(w, c, a)
  BY <1>15, ClaimRefundSteps
<1>16. CASE \E c \in Refs : ClaimAges(c)
  BY <1>16, ClaimAgesSteps
<1>17. CASE \E w \in Workers : ReadForRefund(w) \/ CallAlipay(w) \/ ReadForEvent(w) \/ RecordRefund(w)
  BY <1>17, ReadForRefundSteps, CallAlipaySteps, ReadForEventSteps, RecordRefundSteps
<1>18. CASE \E w \in Workers, result \in {"SUCCEEDED", "FAILED"} : FinishRefund(w, result)
  BY <1>18, FinishRefundSteps
<1> QED BY <1>1, <1>2, <1>3, <1>4, <1>5, <1>6, <1>7, <1>8, <1>9, <1>10, <1>11, <1>12, <1>13, <1>14, <1>15,
           <1>16, <1>17, <1>18 DEF TrialsNext

(* Orders that are right are typed, and alone on the node.                 *)
LEMMA NodeFollows == Trialled => NodeIsExclusive
<1> SUFFICES ASSUME Trialled PROVE NodeIsExclusive
  OBVIOUS
<1>1. TrialsTypeOK
  <2>1. TrialRows /\ \A c \in Refs : Asked(c)
    BY DEF Trialled
  <2>2. \A c \in Refs : refund[c].run \in {"NONE", "PROCESSING", "FAILED", "SUCCEEDED"} /\ refund[c].token = refund[c].claims
    BY <2>1 DEF TrialRows, Asked, Refund
  <2>3. \A o \in TrialOrders : payEvents[o] \subseteq Event
    BY <2>1 DEF TrialRows
  <2> QED BY <2>1, <2>2, <2>3 DEF TrialRows, TrialsTypeOK
<1>2. ASSUME NEW o \in TrialOrders
      PROVE  /\ InUse(o) /\ order[o] # "REFUNDED" => alloc[o] \in {"LOCKED", "IN_SERVICE"}
             /\ node[o] = "running" => delivery[o] \in {"READY", "IN_SERVICE"}
             /\ alloc[o] = "RELEASED" => node[o] = "clean" /\ order[o] = "COMPLETED"
  <2>1. Placed(o) /\ Hosted(o)
    BY DEF Trialled
  <2>2. InUse(o) /\ order[o] # "REFUNDED" => alloc[o] \in {"LOCKED", "IN_SERVICE"}
    BY <2>1 DEF Placed, Hosted, InUse, AfterPaid
  <2>3. node[o] = "running" => delivery[o] \in {"READY", "IN_SERVICE"}
    BY <2>1 DEF Hosted
  <2>4. alloc[o] = "RELEASED" => node[o] = "clean" /\ order[o] = "COMPLETED"
    BY <2>1 DEF Placed
  <2> QED BY <2>2, <2>3, <2>4
<1>3. \A o, p \in TrialOrders : o # p /\ Overlap(o, p) =>
          /\ ~(alloc[o] \in Occupying /\ alloc[p] \in Occupying)
          /\ InUse(o) /\ InUse(p) => "REFUNDED" \in {order[o], order[p]}
  BY <1>2 DEF Trialled, Sold, Occupying
<1> QED BY <1>1, <1>2, <1>3 DEF NodeIsExclusive, Trialled, Sold

(* Their refunds are sound.                                                *)
LEMMA RefundsFollow == Trialled => RefundsAreSound
<1> SUFFICES ASSUME Trialled PROVE RefundsAreSound
  OBVIOUS
<1>1. ASSUME NEW c \in Refs
      PROVE  /\ \A d \in Refs \ {c} : ~(/\ refund[c].run = "PROCESSING" /\ refund[d].run = "PROCESSING"
                                        /\ refund[c].o = refund[d].o)
             /\ refund[c].claims > 0 => refund[c].by # refund[c].decider /\ refund[c].status = "APPROVED"
             /\ refund[c].run = "SUCCEEDED" => c \in returned /\ OnRecord(refund[c].o, c)
  <2>1. Asked(c) /\ Approved
    BY DEF Trialled
  <2> QED BY <2>1 DEF Asked, Approved
<1>2. ASSUME NEW o \in TrialOrders
      PROVE  /\ \A e \in payEvents[o] : e.type \in RefundTypes => e.ref \in returned /\ refund[e.ref].o = o
             /\ payment[o] = [status |-> "REFUNDED", provider |-> "ALIPAY"] => RefundedTo(o) = Total
             /\ order[o] = "REFUNDED" => RefundedTo(o) = Total
  <2>1. Bought(o) /\ Kept(o)
    BY DEF Trialled
  <2>2. \A e \in payEvents[o] : e.type \in RefundTypes => e.ref \in returned /\ refund[e.ref].o = o
    BY <2>1 DEF Kept
  <2>3. payment[o] = [status |-> "REFUNDED", provider |-> "ALIPAY"] => PaidByAlipay(o) /\ payment[o].status = "REFUNDED"
    BY <2>1, AlipayPays
  <2>4. order[o] = "REFUNDED" => PaidByAlipay(o)
    BY <2>1 DEF Bought, Unpaid, Settled, HalfSettled
  <2> QED BY <2>2, <2>3, <2>4 DEF PaidByAlipay
<1> QED BY <1>1, <1>2 DEF RefundsAreSound

(* An order that is paid and right is complete for the recovery script.    *)
LEMMA SettledIsComplete ==
    ASSUME NEW o \in TrialOrders, Placed(o), Settled(o) PROVE Classify(Facts(o)) = "COMPLETE"
<1>1. /\ Facts(o).debit = "CAPTURED" /\ Facts(o).payment = Card /\ Facts(o).events = {Captured}
      /\ Facts(o).order = order[o] /\ Facts(o).alloc = alloc[o] /\ Facts(o).delivery = delivery[o]
      /\ order[o] \in AfterPaid \ {"REFUNDED"}
  BY DEF Facts, Settled
<1>2. Captured.type \notin RefundTypes
  BY DEF Captured, RefundTypes
<1>3. order[o] \in {"PAID", "PROVISIONING", "DELIVERED", "IN_SERVICE", "COMPLETED"}
  BY <1>1 DEF AfterPaid
<1>4. alloc[o] \in {"LOCKED", "IN_SERVICE", "RELEASED"} /\ delivery[o] # "AWAITING_PAYMENT"
  BY <1>3 DEF Placed, CleaningOn
<1>5. Complete(Facts(o))
  BY <1>1, <1>2, <1>3, <1>4 DEF Complete, Card
<1> QED BY <1>1, <1>5 DEF Classify

(* An order left half paid that the script decides to repair is repaired.  *)
LEMMA RepairIsRight ==
    ASSUME NEW o \in TrialOrders, HalfSettled(o),
           Classify(Facts(o)) \in {"COMPLETE_CAPTURE", "REVERSE_UNDELIVERED"}
    PROVE  Classify(Recover(Facts(o))) \in {"COMPLETE", "REVERSED"}
<1> DEFINE f == Facts(o)
<1>1. f.debit = "CAPTURED" /\ f.order \in {"PAYMENT_PENDING", "REFUND_PENDING"}
  BY DEF Facts, HalfSettled
<1>2. ~Complete(f)
  BY <1>1 DEF Complete
<1>3. ~Unclear(f)
  BY <1>1, <1>2 DEF Classify
<1>4. Undelivered(f) /\ f.events \in {{}, {Captured}}
  BY <1>3 DEF Unclear
<1>5. Captured.type \notin RefundTypes
  BY DEF Captured, RefundTypes
<1>6. CASE Classify(f) = "COMPLETE_CAPTURE"
  <2> DEFINE g == WithCapture(f)
  <2>1. Recover(f) = g
    BY <1>6 DEF Recover
  <2>2. /\ g.order = "PAID" /\ g.alloc = "LOCKED" /\ g.delivery = "AWAITING_KEY" /\ g.debit = "CAPTURED"
        /\ g.payment = [status |-> "CAPTURED", provider |-> "KAI_CARD_HOUR"] /\ g.events = f.events \cup {Captured}
    BY DEF WithCapture, Facts
  <2> HIDE DEF g
  <2>3. Complete(g)
    BY <1>4, <1>5, <2>2 DEF Complete
  <2> QED BY <2>1, <2>2, <2>3 DEF Classify
<1>7. CASE Classify(f) = "REVERSE_UNDELIVERED"
  <2> DEFINE g == WithReversal(f)
             e == [type |-> "REFUNDED_FULL", ref |-> "recovery", amount |-> Total]
  <2>1. Recover(f) = g
    BY <1>7 DEF Recover
  <2>2. /\ g.order = "REFUNDED" /\ g.alloc = "CANCELLED" /\ g.debit = "REFUNDED"
        /\ g.payment = [status |-> "REFUNDED", provider |-> "KAI_CARD_HOUR"] /\ g.events = f.events \cup {e}
        /\ g.delivery = f.delivery /\ g.check = f.check
    BY DEF WithReversal, Facts
  <2>3. e.type \in RefundTypes /\ e.ref = "recovery"
    BY DEF RefundTypes
  <2> HIDE DEF g, e
  <2>4. {x \in g.events : x.type \in RefundTypes} = {e}
    BY <1>4, <1>5, <2>2, <2>3
  <2>5. {x.ref : x \in {y \in g.events : y.type \in RefundTypes}} = {"recovery"}
    BY <2>3, <2>4
  <2>6. Reversed(g) /\ ~Complete(g)
    BY <1>4, <2>2, <2>5 DEF Reversed, Complete, Undelivered
  <2> QED BY <2>1, <2>2, <2>6 DEF Classify
<1> QED BY <1>6, <1>7

(* They are paid once, and what is half paid can be repaired.              *)
LEMMA PaymentFollows == Trialled => PaidOnceOrRepairable
<1> SUFFICES ASSUME Trialled, NEW o \in TrialOrders
             PROVE  LET paid == debit[o] = "CAPTURED"
                        f    == Facts(o)
                    IN /\ paid => \A e \in payEvents[o] : e.ref # "notify"
                       /\ delivery[o] \notin {"NONE", "AWAITING_PAYMENT"} =>
                             Cardinality({e \in payEvents[o] : e.type = "CAPTURED"}) = 1
                       /\ Classify(f) \in {"COMPLETE_CAPTURE", "REVERSE_UNDELIVERED"} =>
                             /\ o \in HalfPaid
                             /\ Classify(Recover(f)) \in {"COMPLETE", "REVERSED"}
                       /\ o \notin HalfPaid /\ paid /\ payment[o].status = "CAPTURED" => Classify(f) = "COMPLETE"
  BY DEF PaidOnceOrRepairable
<1>1. Placed(o) /\ Bought(o) /\ Kept(o)
  BY DEF Trialled
<1>2. Captured.type = "CAPTURED" /\ Captured.ref = "card-hours"
  BY DEF Captured
<1>3. debit[o] = "CAPTURED" => \A e \in payEvents[o] : e.ref # "notify"
  BY <1>1, <1>2 DEF Bought, Unpaid, Settled, HalfSettled, PaidByAlipay
<1>4. delivery[o] \notin {"NONE", "AWAITING_PAYMENT"} => Cardinality({e \in payEvents[o] : e.type = "CAPTURED"}) = 1
  <2> SUFFICES ASSUME delivery[o] \notin {"NONE", "AWAITING_PAYMENT"}
               PROVE  Cardinality({e \in payEvents[o] : e.type = "CAPTURED"}) = 1
    OBVIOUS
  <2>1. \E e \in payEvents[o] : e.type = "CAPTURED"
    BY <1>1, <1>2 DEF Placed, Bought, Unpaid, Settled, HalfSettled, PaidByAlipay
  <2>2. PICK e \in payEvents[o] : e.type = "CAPTURED"
    BY <2>1
  <2>3. {x \in payEvents[o] : x.type = "CAPTURED"} = {e}
    BY <1>1, <2>2 DEF Kept
  <2> QED BY <2>3, FS_Singleton
<1>5. CASE Unpaid(o)
  <2>1. Classify(Facts(o)) = "UNPAID"
    BY <1>5 DEF Unpaid, Facts, NoPayment, Classify
  <2> QED BY <1>3, <1>4, <1>5, <2>1 DEF Unpaid
<1>6. CASE Settled(o)
  BY <1>1, <1>3, <1>4, <1>6, SettledIsComplete
<1>7. CASE HalfSettled(o)
  BY <1>3, <1>4, <1>7, RepairIsRight DEF HalfSettled
<1>8. CASE PaidByAlipay(o)
  <2>1. Facts(o).debit = "NONE"
    BY <1>8 DEF Facts, PaidByAlipay
  <2>2. Classify(Facts(o)) \in {"UNPAID", "MANUAL_REVIEW"}
    BY <2>1 DEF Classify, Complete, Reversed, Unclear
  <2> QED BY <1>3, <1>4, <1>8, <2>2 DEF PaidByAlipay
<1> QED BY <1>1, <1>5, <1>6, <1>7, <1>8 DEF Bought

(* Trial orders, their deliveries, nodes, payments and refunds stay right. *)
THEOREM TrialsStayRight == TrialsSpec => []Trialled
<1> QED BY TrialsStart, TrialsStay, PTL DEF TrialsSpec

(* The hours of the node are sold once and nobody is on it without holding *)
(* them, for any number of buyers, requests and nodes' hours.              *)
THEOREM NodeStaysExclusive == TrialsSpec => []NodeIsExclusive
<1> QED BY TrialsStayRight, NodeFollows, PTL

(* One execution of an order runs at a time and every refund on record was *)
(* made and approved by two, however claims go stale and answers are lost. *)
THEOREM TrialRefundsStaySound == TrialsSpec => []RefundsAreSound
<1> QED BY TrialsStayRight, RefundsFollow, PTL

(* An order is paid once, in one way, and the recovery script repairs what *)
(* the older release left half paid and touches nothing else.              *)
THEOREM PaidOnce == TrialsSpec => []PaidOnceOrRepairable
<1> QED BY TrialsStayRight, PaymentFollows, PTL
================================================================================
