------------------------ MODULE TopupReconciliation ------------------------
(***************************************************************************)
(* Cash top-ups of a card-hour wallet: one top-up order is opened at a      *)
(* payment provider, paid by the customer, and turned into wallet credit by *)
(* whichever entrance learns of the payment first.                         *)
(*                                                                         *)
(*   checkout requests  POST /api/v1/member/card-hours/topups              *)
(*   Members            POST /api/v1/member/card-hours/topups/[orderId]    *)
(*   Timer              the reconciliation worker (card-hour-reconciliation-worker.ts) *)
(*   Notifiers          GET  /api/v1/payments/qixiang-pay/notify           *)
(*   AlipayNotifiers    POST /api/v1/payments/alipay/notify                *)
(*                                                                         *)
(* Every handler awaits: it reads the database, talks to the provider and  *)
(* commits one transaction (a batch) at a time, so handlers interleave      *)
(* between those points, and each action below is one of them.  Time is     *)
(* abstracted to the three facts the code compares: a PROCESSING row is     *)
(* 120 s old (checkoutOld), the next query is due (due), a lease is 120 s   *)
(* old (claimOld).  An order has one provider trade, so trade numbers are   *)
(* not represented.                                                        *)
(***************************************************************************)
EXTENDS Integers, FiniteSets

CONSTANTS
    QixiangOrders,    \* idempotency keys of new top-ups, paid through Qixiang
    AlipayOrders,     \* PENDING rows of the older Alipay channel
    Requests,         \* concurrent checkout requests
    Timer,            \* the worker: `running` keeps its ticks from overlapping
    Members,          \* concurrent reconciliation requests of members
    Notifiers,        \* concurrent Qixiang callbacks
    AlipayNotifiers,  \* concurrent Alipay callbacks
    EscalateAfter,    \* 12 in the code: attempts before a work item is opened
    NoToken           \* claim_token IS NULL

Orders    == QixiangOrders \cup AlipayOrders
Claimants == {Timer} \cup Members \cup Notifiers
Callers   == Claimants \cup AlipayNotifiers

ASSUME ChannelsAreDisjoint == QixiangOrders \cap AlipayOrders = {}
ASSUME CallersAreDisjoint  ==
    /\ Timer \notin Members \cup Notifiers \cup AlipayNotifiers
    /\ Members \cap (Notifiers \cup AlipayNotifiers) = {}
    /\ Notifiers \cap AlipayNotifiers = {}
    /\ NoToken \notin Callers
ASSUME EscalateAfterIsPositive == EscalateAfter \in Nat \ {0}

VARIABLES
    \* card_hour_topup_orders
    status,       \* "NONE" before the row is inserted
    checkout,     \* checkout_url IS NOT NULL
    checkoutOld,  \* now - updated_at >= 120 s for a PROCESSING row
    \* card_hour_topup_reconciliation_claims
    claim, claimOld, due, attempts,
    \* card_hour_topup_events, card_hour_ledger_batches, admin_work_items
    events, ledger, workItems,
    \* times the wallet was increased for the order
    credits,
    \* handlers in flight
    req,          \* Requests -> step and order of a checkout request
    call,         \* Callers  -> step, order, event and lease.attemptCount
    \* the provider
    trade,        \* state of the trade at the provider
    opened,       \* checkouts opened there for the order
    acked         \* orders whose payment notification was answered "success"

rowVars      == <<status, checkout, checkoutOld>>
claimVars    == <<claim, claimOld, due, attempts>>
postingVars  == <<events, ledger, credits>>
providerVars == <<trade, opened, acked>>
vars == <<rowVars, claimVars, postingVars, workItems, req, call, providerVars>>

OpenStatuses == {"PENDING", "PROCESSING", "RECONCILIATION_REQUIRED"}
EventTypes   == {"CAPTURED", "CLOSED"}
Paid         == {"paid", "refunded"}

(* The status set of applyTopupEvent: a row waiting for manual             *)
(* reconciliation takes a capture, never a closure.                        *)
Accepts(o, type) ==
    \/ status[o] \in {"PENDING", "PROCESSING"}
    \/ status[o] = "RECONCILIATION_REQUIRED" /\ type = "CAPTURED"

(* provider_event_id: queries and notifications of one trade use different *)
(* identifiers, and so do the two event types.                             *)
EventId(c, type) == <<IF c \in {Timer} \cup Members THEN "query" ELSE "notify", type>>

IdleRequest == [step |-> "idle"]
IdleCall    == [step |-> "idle"]

Init ==
    /\ status = [o \in Orders |-> IF o \in AlipayOrders THEN "PENDING" ELSE "NONE"]
    /\ checkout = [o \in Orders |-> FALSE]
    /\ checkoutOld = [o \in Orders |-> FALSE]
    /\ claim = [o \in Orders |-> NoToken]
    /\ claimOld = [o \in Orders |-> FALSE]
    /\ due = [o \in Orders |-> TRUE]
    /\ attempts = [o \in Orders |-> 0]
    /\ events = [o \in Orders |-> {}]
    /\ ledger = {}
    /\ workItems = {}
    /\ credits = [o \in Orders |-> 0]
    /\ req = [r \in Requests |-> IdleRequest]
    /\ call = [c \in Callers |-> IdleCall]
    /\ trade = [o \in Orders |-> IF o \in AlipayOrders THEN "open" ELSE "none"]
    /\ opened = [o \in Orders |-> 0]
    /\ acked = {}

-----------------------------------------------------------------------------
(* Checkout: create the row, claim it, open the checkout, attach its URL.  *)

(* Mutant of ClaimCheckout: the claim does not require the row to be       *)
(* PENDING, so a retry of a slow request opens a second checkout.          *)
ClaimUnattachedCheckout(r) ==
    /\ req[r].step = "created"
    /\ LET o == req[r].order IN
         /\ status[o] \in {"PENDING", "PROCESSING"} /\ ~checkout[o]
         /\ status' = [status EXCEPT ![o] = "PROCESSING"]
         /\ checkoutOld' = [checkoutOld EXCEPT ![o] = FALSE]
         /\ req' = [req EXCEPT ![r].step = "claimed"]
    /\ UNCHANGED <<checkout, claimVars, postingVars, workItems, call, providerVars>>

(* createTopup: INSERT OR IGNORE under (organization, idempotency key); a  *)
(* repeated key finds the existing row.                                    *)
CreateTopup(r, o) ==
    /\ req[r] = IdleRequest
    /\ o \in QixiangOrders
    /\ status' = [status EXCEPT ![o] = IF @ = "NONE" THEN "PENDING" ELSE @]
    /\ req' = [req EXCEPT ![r] = [step |-> "created", order |-> o]]
    /\ UNCHANGED <<checkout, checkoutOld, claimVars, postingVars, workItems, call, providerVars>>

(* claimTopupCheckout, first statement: the request that moves the row to  *)
(* PROCESSING owns the call to the provider.                               *)
ClaimCheckout(r) ==
    /\ req[r].step = "created"
    /\ LET o == req[r].order IN
         /\ status[o] = "PENDING" /\ ~checkout[o]
         /\ status' = [status EXCEPT ![o] = "PROCESSING"]
         /\ checkoutOld' = [checkoutOld EXCEPT ![o] = FALSE]
         /\ req' = [req EXCEPT ![r].step = "claimed"]
    /\ UNCHANGED <<checkout, claimVars, postingVars, workItems, call, providerVars>>

(* claimTopupCheckout, otherwise: a PROCESSING row without URL that has    *)
(* been left for 120 s is handed to reconciliation; the request ends with  *)
(* the stored URL or with an error.                                        *)
RefuseCheckout(r) ==
    /\ req[r].step = "created"
    /\ LET o == req[r].order IN
         /\ ~(status[o] = "PENDING" /\ ~checkout[o])
         /\ status' = [status EXCEPT ![o] =
              IF @ = "PROCESSING" /\ ~checkout[o] /\ checkoutOld[o]
              THEN "RECONCILIATION_REQUIRED" ELSE @]
    /\ req' = [req EXCEPT ![r] = IdleRequest]
    /\ UNCHANGED <<checkout, checkoutOld, claimVars, postingVars, workItems, call, providerVars>>

(* createQixiangPayCheckout: the provider opens a trade for the order; the *)
(* answer may be lost (8 s timeout, unreadable body), and the provider may *)
(* not have been reached at all.                                           *)
OpenCheckout(r) ==
    /\ req[r].step = "claimed"
    /\ \E reached, answered \in BOOLEAN :
         /\ answered => reached
         /\ LET o == req[r].order IN
              /\ opened' = [opened EXCEPT ![o] = IF reached THEN @ + 1 ELSE @]
              /\ trade' = [trade EXCEPT ![o] = IF reached /\ @ = "none" THEN "open" ELSE @]
         /\ req' = [req EXCEPT ![r].step = IF answered THEN "opened" ELSE "failed"]
    /\ UNCHANGED <<rowVars, claimVars, postingVars, workItems, call, acked>>

(* attachTopupCheckout: only a PROCESSING row, or one captured meanwhile,  *)
(* takes the URL; otherwise the handler falls to the catch branch.         *)
AttachCheckout(r) ==
    /\ req[r].step = "opened"
    /\ LET o == req[r].order
           attachable == ~checkout[o] /\ status[o] \in {"PROCESSING", "CAPTURED"} IN
         /\ checkout' = [checkout EXCEPT ![o] = @ \/ attachable]
         /\ status' = [status EXCEPT ![o] =
              IF attachable /\ @ = "PROCESSING" THEN "PENDING" ELSE @]
         /\ req' = [req EXCEPT ![r] = IF attachable THEN IdleRequest ELSE [@ EXCEPT !.step = "failed"]]
    /\ UNCHANGED <<checkoutOld, claimVars, postingVars, workItems, call, providerVars>>

(* markTopupReconciliationRequired, from either catch branch of the route. *)
MarkReconciliationRequired(r) ==
    /\ req[r].step = "failed"
    /\ LET o == req[r].order IN
         status' = [status EXCEPT ![o] =
           IF @ = "PROCESSING" /\ ~checkout[o] THEN "RECONCILIATION_REQUIRED" ELSE @]
    /\ req' = [req EXCEPT ![r] = IdleRequest]
    /\ UNCHANGED <<checkout, checkoutOld, claimVars, postingVars, workItems, call, providerVars>>

-----------------------------------------------------------------------------
(* Reconciliation: lease the order, query the provider, post, release.     *)

(* Mutant of ClaimReconciliation: no further attempt once the order has     *)
(* used the attempts that escalate it.                                     *)
ClaimUntilEscalated(c, o) ==
    /\ c \in Claimants
    /\ call[c] = IdleCall
    /\ o \in QixiangOrders
    /\ c \in Notifiers => trade[o] = "paid"
    /\ status[o] \in OpenStatuses
    /\ due[o]
    /\ attempts[o] < EscalateAfter
    /\ claim[o] = NoToken \/ claimOld[o]
    /\ claim' = [claim EXCEPT ![o] = c]
    /\ claimOld' = [claimOld EXCEPT ![o] = FALSE]
    /\ due' = [due EXCEPT ![o] = FALSE]
    /\ attempts' = [attempts EXCEPT ![o] = @ + 1]
    /\ call' = [call EXCEPT ![c] =
         [step |-> "leased", order |-> o, type |-> "CAPTURED", attempt |-> attempts'[o]]]
    /\ UNCHANGED <<rowVars, postingVars, workItems, req, providerVars>>

(* claimTopupReconciliation for a timer tick, a member or a callback.  The  *)
(* callback reaches it only for a payment the provider has notified.       *)
ClaimReconciliation(c, o) ==
    /\ c \in Claimants
    /\ call[c] = IdleCall
    /\ o \in QixiangOrders
    /\ c \in Notifiers => trade[o] = "paid"
    /\ status[o] \in OpenStatuses
    /\ due[o]
    /\ claim[o] = NoToken \/ claimOld[o]
    /\ claim' = [claim EXCEPT ![o] = c]
    /\ claimOld' = [claimOld EXCEPT ![o] = FALSE]
    /\ due' = [due EXCEPT ![o] = FALSE]
    /\ attempts' = [attempts EXCEPT ![o] = IF @ < EscalateAfter THEN @ + 1 ELSE @]
    /\ call' = [call EXCEPT ![c] =
         [step |-> "leased", order |-> o, type |-> "CAPTURED", attempt |-> attempts'[o]]]
    /\ UNCHANGED <<rowVars, postingVars, workItems, req, providerVars>>

(* queryQixiangPayOrder resolves only for a paid trade that matches the row *)
QueryConfirms(c) ==
    /\ call[c].step = "leased"
    /\ trade[call[c].order] = "paid"
    /\ call' = [call EXCEPT ![c].step = "confirmed"]
    /\ UNCHANGED <<rowVars, claimVars, postingVars, workItems, req, providerVars>>

(* ... and rejects when unpaid, unreachable, deferred by the query         *)
(* executor, or timed out.                                                 *)
QueryFails(c) ==
    /\ call[c].step = "leased"
    /\ call' = [call EXCEPT ![c].step = "rejected"]
    /\ UNCHANGED <<rowVars, claimVars, postingVars, workItems, req, providerVars>>

(* A verified Alipay notification goes to applyTopupEvent without a lease. *)
(* Notifications may be delayed: a capture may arrive after the refund.    *)
ReceiveAlipay(c, o) ==
    /\ c \in AlipayNotifiers
    /\ call[c] = IdleCall
    /\ o \in AlipayOrders
    /\ \E type \in EventTypes :
         /\ trade[o] \in (IF type = "CAPTURED" THEN Paid ELSE {"closed", "refunded"})
         /\ call' = [call EXCEPT ![c] =
              [step |-> "confirmed", order |-> o, type |-> type, attempt |-> 0]]
    /\ UNCHANGED <<rowVars, claimVars, postingVars, workItems, req, providerVars>>

(* A callback is answered "success" when applyTopupEvent returns, applied  *)
(* or not.                                                                 *)
Answer(c) ==
    acked' = IF c \in Notifiers \cup AlipayNotifiers /\ call[c].type = "CAPTURED"
             THEN acked \cup {call[c].order} ELSE acked

(* applyTopupEvent up to its batch: the reads and their early returns.     *)
CheckTopupEvent(c) ==
    /\ call[c].step = "confirmed"
    /\ LET o == call[c].order
           known == EventId(c, call[c].type) \in events[o] IN
         IF known \/ ~Accepts(o, call[c].type)
         THEN /\ call' = [call EXCEPT ![c].step = "answered"]
              /\ Answer(c)
         ELSE /\ call' = [call EXCEPT ![c].step = "posting"]
              /\ UNCHANGED acked
    /\ UNCHANGED <<rowVars, claimVars, postingVars, workItems, req, trade, opened>>

(* Mutant of PostTopupEvent: the batch trusts the status read before it    *)
(* and its business key is the event's, not the order's.                   *)
PostUnchecked(c) ==
    /\ call[c].step = "posting"
    /\ LET o == call[c].order
           type == call[c].type
           id == EventId(c, type)
           commits == id \notin events[o] IN
         /\ status' = [status EXCEPT ![o] = IF commits THEN type ELSE @]
         /\ events' = [events EXCEPT ![o] = IF commits THEN @ \cup {id} ELSE @]
         /\ ledger' = IF commits /\ type = "CAPTURED" THEN ledger \cup {o} ELSE ledger
         /\ credits' = [credits EXCEPT ![o] = IF commits /\ type = "CAPTURED" THEN @ + 1 ELSE @]
    /\ call' = [call EXCEPT ![c].step = "answered"]
    /\ Answer(c)
    /\ UNCHANGED <<checkout, checkoutOld, claimVars, workItems, req, trade, opened>>

(* The batch of applyTopupEvent: it re-checks the status, and the UNIQUE   *)
(* event identifier and ledger business key abort it as a whole.           *)
PostTopupEvent(c) ==
    /\ call[c].step = "posting"
    /\ LET o == call[c].order
           type == call[c].type
           id == EventId(c, type)
           commits == Accepts(o, type) /\ id \notin events[o] /\ (type = "CAPTURED" => o \notin ledger) IN
         /\ status' = [status EXCEPT ![o] = IF commits THEN type ELSE @]
         /\ events' = [events EXCEPT ![o] = IF commits THEN @ \cup {id} ELSE @]
         /\ ledger' = IF commits /\ type = "CAPTURED" THEN ledger \cup {o} ELSE ledger
         /\ credits' = [credits EXCEPT ![o] = IF commits /\ type = "CAPTURED" THEN @ + 1 ELSE @]
    /\ call' = [call EXCEPT ![c].step = "answered"]
    /\ Answer(c)
    /\ UNCHANGED <<checkout, checkoutOld, claimVars, workItems, req, trade, opened>>

(* The worker's catch branch: escalateTopupReconciliation opens one work   *)
(* item for an order that is still open after EscalateAfter attempts.      *)
HandleRejection(c) ==
    /\ call[c].step = "rejected"
    /\ LET o == call[c].order
           escalates == c = Timer /\ call[c].attempt >= EscalateAfter
                        /\ status[o] \in OpenStatuses /\ attempts[o] >= EscalateAfter IN
         workItems' = IF escalates THEN workItems \cup {o} ELSE workItems
    /\ call' = [call EXCEPT ![c].step = "answered"]
    /\ UNCHANGED <<rowVars, claimVars, postingVars, req, providerVars>>

(* Mutant of Release: the update is not guarded by the token.              *)
ReleaseAnyToken(c) ==
    /\ call[c].step = "answered"
    /\ LET o == call[c].order IN
         /\ claim' = [claim EXCEPT ![o] = NoToken]
         /\ claimOld' = [claimOld EXCEPT ![o] = FALSE]
         /\ due' = [due EXCEPT ![o] = FALSE]
    /\ call' = [call EXCEPT ![c] = IdleCall]
    /\ UNCHANGED <<rowVars, attempts, postingVars, workItems, req, providerVars>>

(* Mutant of Release: the token is cleared, its claimed_at is not.         *)
ReleaseTokenOnly(c) ==
    /\ call[c].step = "answered"
    /\ LET o == call[c].order
           mine == claim[o] = c IN
         /\ claim' = [claim EXCEPT ![o] = IF mine THEN NoToken ELSE @]
         /\ due' = [due EXCEPT ![o] = IF mine THEN FALSE ELSE @]
    /\ call' = [call EXCEPT ![c] = IdleCall]
    /\ UNCHANGED <<rowVars, claimOld, attempts, postingVars, workItems, req, providerVars>>

(* releaseTopupReconciliation in the finally branch, guarded by the token; *)
(* an Alipay callback has nothing to release.                              *)
Release(c) ==
    /\ call[c].step = "answered"
    /\ LET o == call[c].order
           mine == claim[o] = c IN
         /\ claim' = [claim EXCEPT ![o] = IF mine THEN NoToken ELSE @]
         /\ claimOld' = [claimOld EXCEPT ![o] = IF mine THEN FALSE ELSE @]
         /\ due' = [due EXCEPT ![o] = IF mine THEN FALSE ELSE @]
    /\ call' = [call EXCEPT ![c] = IdleCall]
    /\ UNCHANGED <<rowVars, attempts, postingVars, workItems, req, providerVars>>

(* Mutant of AcknowledgeCaptured: any order the callback cannot lease is   *)
(* answered "success".                                                     *)
AcknowledgeBusy(c, o) ==
    /\ c \in Notifiers
    /\ call[c] = IdleCall
    /\ o \in QixiangOrders
    /\ trade[o] = "paid"
    /\ status[o] = "CAPTURED" \/ claim[o] # NoToken
    /\ acked' = acked \cup {o}
    /\ UNCHANGED <<rowVars, claimVars, postingVars, workItems, req, call, trade, opened>>

(* The callback's shortcut for an order that is already captured.          *)
AcknowledgeCaptured(c, o) ==
    /\ c \in Notifiers
    /\ call[c] = IdleCall
    /\ o \in QixiangOrders
    /\ trade[o] = "paid"
    /\ status[o] = "CAPTURED"
    /\ acked' = acked \cup {o}
    /\ UNCHANGED <<rowVars, claimVars, postingVars, workItems, req, call, trade, opened>>

-----------------------------------------------------------------------------
(* Environment: the customer, the clock, the refund of a captured order,   *)
(* and a restart of the single application instance.                       *)

CustomerPays(o) ==
    /\ trade[o] = "open"
    /\ trade' = [trade EXCEPT ![o] = "paid"]
    /\ UNCHANGED <<rowVars, claimVars, postingVars, workItems, req, call, opened, acked>>

(* An unpaid Alipay trade times out; a paid one is refunded in full.       *)
AlipayCloses(o) ==
    /\ o \in AlipayOrders
    /\ trade[o] \in {"open", "paid"}
    /\ trade' = [trade EXCEPT ![o] = IF @ = "open" THEN "closed" ELSE "refunded"]
    /\ UNCHANGED <<rowVars, claimVars, postingVars, workItems, req, call, opened, acked>>

(* finishTopupRefund and confirmManualTopupRefund end with this update;    *)
(* CardHourWallet models what precedes it.                                 *)
RefundCloses(o) ==
    /\ status[o] = "CAPTURED"
    /\ status' = [status EXCEPT ![o] = "CLOSED"]
    /\ UNCHANGED <<checkout, checkoutOld, claimVars, postingVars, workItems, req, call, providerVars>>

CheckoutAges(o) ==
    /\ status[o] = "PROCESSING" /\ ~checkoutOld[o]
    /\ checkoutOld' = [checkoutOld EXCEPT ![o] = TRUE]
    /\ UNCHANGED <<status, checkout, claimVars, postingVars, workItems, req, call, providerVars>>

(* next_query_at passes: 30 s after a claim, up to 300 s after a release.  *)
QueryFallsDue(o) ==
    /\ ~due[o]
    /\ due' = [due EXCEPT ![o] = TRUE]
    /\ UNCHANGED <<rowVars, claim, claimOld, attempts, postingVars, workItems, req, call, providerVars>>

(* A lease turns 120 s old, later than its next_query_at.                  *)
LeaseAges(o) ==
    /\ claim[o] # NoToken /\ due[o] /\ ~claimOld[o]
    /\ claimOld' = [claimOld EXCEPT ![o] = TRUE]
    /\ UNCHANGED <<rowVars, claim, due, attempts, postingVars, workItems, req, call, providerVars>>

Restart ==
    /\ req' = [r \in Requests |-> IdleRequest]
    /\ call' = [c \in Callers |-> IdleCall]
    /\ UNCHANGED <<rowVars, claimVars, postingVars, workItems, providerVars>>

-----------------------------------------------------------------------------
RequestStep(r) ==
    \/ \E o \in Orders : CreateTopup(r, o)
    \/ ClaimCheckout(r)
    \/ RefuseCheckout(r)
    \/ OpenCheckout(r)
    \/ AttachCheckout(r)
    \/ MarkReconciliationRequired(r)

CallStep(c) ==
    \/ \E o \in Orders : ClaimReconciliation(c, o)
    \/ \E o \in Orders : ReceiveAlipay(c, o)
    \/ \E o \in Orders : AcknowledgeCaptured(c, o)
    \/ QueryConfirms(c)
    \/ QueryFails(c)
    \/ CheckTopupEvent(c)
    \/ PostTopupEvent(c)
    \/ HandleRejection(c)
    \/ Release(c)

OrderStep(o) ==
    \/ CustomerPays(o)
    \/ AlipayCloses(o)
    \/ RefundCloses(o)
    \/ CheckoutAges(o)
    \/ QueryFallsDue(o)
    \/ LeaseAges(o)

Next ==
    \/ \E r \in Requests : RequestStep(r)
    \/ \E c \in Callers : CallStep(c)
    \/ \E o \in Orders : OrderStep(o)
    \/ Restart

Spec == Init /\ [][Next]_vars

(* The scheduler calls the worker every minute for as long as the service  *)
(* is deployed, visits due orders oldest first and never gives an open     *)
(* order up; so a step of the worker that keeps becoming possible is       *)
(* eventually taken, restarts notwithstanding.  A query of a paid trade    *)
(* that is repeated for ever is not rejected for ever.  No other entrance  *)
(* is assumed to make progress.                                            *)
WorkerFairness ==
    \A o \in QixiangOrders :
        /\ WF_vars(QueryFallsDue(o))
        /\ WF_vars(LeaseAges(o))
        /\ SF_vars(ClaimReconciliation(Timer, o))
        /\ SF_vars(QueryConfirms(Timer) /\ call[Timer].order = o)
        /\ SF_vars(CheckTopupEvent(Timer) /\ call[Timer].order = o)
        /\ SF_vars(PostTopupEvent(Timer) /\ call[Timer].order = o)
        /\ WF_vars(HandleRejection(Timer))
        /\ WF_vars(Release(Timer))

LiveSpec == Spec /\ WorkerFairness

-----------------------------------------------------------------------------
Statuses == OpenStatuses \cup {"NONE", "CAPTURED", "CLOSED"}
EventIds == {"query", "notify"} \X EventTypes

RequestStates ==
    {IdleRequest} \cup [step : {"created", "claimed", "opened", "failed"}, order : QixiangOrders]
CallStates ==
    {IdleCall} \cup
    [step : {"leased", "confirmed", "rejected", "posting", "answered"},
     order : Orders, type : EventTypes, attempt : 0..EscalateAfter]

TypeOK ==
    /\ status \in [Orders -> Statuses]
    /\ checkout \in [Orders -> BOOLEAN]
    /\ checkoutOld \in [Orders -> BOOLEAN]
    /\ claim \in [Orders -> Claimants \cup {NoToken}]
    /\ claimOld \in [Orders -> BOOLEAN]
    /\ \A o \in Orders : claimOld[o] => claim[o] # NoToken
    /\ due \in [Orders -> BOOLEAN]
    /\ attempts \in [Orders -> 0..EscalateAfter]
    /\ events \in [Orders -> SUBSET EventIds]
    /\ ledger \subseteq Orders
    /\ workItems \subseteq Orders
    /\ credits \in [Orders -> Nat]
    /\ req \in [Requests -> RequestStates]
    /\ call \in [Callers -> CallStates]
    /\ trade \in [Orders -> {"none", "open", "closed"} \cup Paid]
    /\ opened \in [Orders -> Nat]
    /\ acked \subseteq Orders

(* However the four entrances, retries, expired leases and restarts         *)
(* interleave, applyTopupEvent credits the wallet of a captured order       *)
(* exactly once, only for a trade the provider was paid for, and together   *)
(* with its ledger batch.                                                  *)
CreditedExactlyOnce ==
    \A o \in Orders :
        /\ credits[o] \in {0, 1}
        /\ credits[o] = 1 <=> o \in ledger
        /\ status[o] = "CAPTURED" => credits[o] = 1
        /\ credits[o] = 1 => trade[o] \in Paid /\ status[o] \in {"CAPTURED", "CLOSED"}

(* A payment callback is answered "success" (which stops the provider's     *)
(* retries) only when the payment is in the wallet, or the trade had        *)
(* already been refunded and closed.                                       *)
AcknowledgedPaymentIsSettled ==
    \A o \in acked : credits[o] = 1 \/ (status[o] = "CLOSED" /\ trade[o] = "refunded")

(* A payment is credited once, and no callback is told so before it is.    *)
PaidOnceAndSettled == CreditedExactlyOnce /\ AcknowledgedPaymentIsSettled

(* Retried, concurrent and interrupted checkout requests never open two     *)
(* checkouts for one order, so the customer cannot pay it twice.            *)
OneCheckoutPerOrder == \A o \in Orders : opened[o] <= 1

(* A lease younger than 120 s ends only by the release of the handler that  *)
(* took it: a late handler does not free its successor's lease.             *)
FreshLeaseIsKept ==
    [][\A o \in Orders :
         claim[o] # NoToken /\ ~claimOld[o] /\ claim'[o] # claim[o]
           => /\ call[claim[o]].step = "answered"
              /\ call[claim[o]].order = o
              /\ call'[claim[o]] = IdleCall]_vars

(* A settled order is never reopened, a saved checkout URL is never lost,   *)
(* and an order handed to reconciliation leaves it only by a capture.       *)
SettledOrdersStaySettled ==
    [][\A o \in Orders :
         /\ status[o] = "CAPTURED" => status'[o] \in {"CAPTURED", "CLOSED"}
         /\ status[o] = "CLOSED" => status'[o] = "CLOSED"
         /\ status[o] = "RECONCILIATION_REQUIRED"
              => status'[o] \in {"RECONCILIATION_REQUIRED", "CAPTURED"}
         /\ checkout[o] => checkout'[o]]_vars

(* Both together: nobody takes from a handler its fresh lease, or from an  *)
(* order what it has reached.                                              *)
NothingIsTakenBack == FreshLeaseIsKept /\ SettledOrdersStaySettled

(* What the subsystem promises, with the worker's fairness: a paid order    *)
(* is credited once, eventually, even if its checkout answer was lost, its  *)
(* callbacks never arrive and it has been escalated to a person.            *)
Promise == INSTANCE TopupPromise WITH
    Orders <- QixiangOrders,
    paid <- {o \in QixiangOrders : trade[o] \in Paid},
    credit <- [o \in QixiangOrders |-> credits[o]],
    closed <- {o \in QixiangOrders : status[o] = "CLOSED"}

ImplementsPromise == Promise!Spec
PaidIsCredited == Promise!PaidIsCredited
=============================================================================
