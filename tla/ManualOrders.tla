---------------------------- MODULE ManualOrders ----------------------------
(* A purchase from the catalog that people deliver by hand                 *)
(* (admin-store-core.ts): an operator assigns a supplier and hands the     *)
(* machine over, the supplier makes an offer and works it off, and the     *)
(* buyer holds card-hours for it, confirms the connection and accepts the  *)
(* work, which captures what was used. An open appeal freezes the capture. *)
(*                                                                         *)
(* Every write compares the version its reader saw, so a command that      *)
(* depends on one row is one step. Those that read a second row (572, 649, *)
(* 664, 221, 224) write later than they read: they are two, and "fresh"    *)
(* says that the row whose version they carry has not been written since.  *)
EXTENDS Integers, FiniteSets, FiniteSetsExt

CONSTANTS
    Purchases,  \* demands of one buyer that have an intake and a snapshot
    Suppliers,
    Desks,      \* requests in flight
    Quotes,     \* card-hour micros a supplier asks for
    Uses,       \* micros a supplier reports as used
    Funds       \* micros in the wallet of the buyer

ASSUME ManualOrdersAssumption ==
    /\ Quotes \subseteq Nat \ {0} /\ Uses \subseteq Nat \ {0} /\ Funds \in Nat
    /\ IsFiniteSet(Purchases)

VARIABLES
    handover,  \* admin_manual_delivery_statuses
    trade,     \* admin_manual_commercial_orders, at most one of a purchase
    deposit,   \* admin_manual_order_holds
    purse,     \* card_hour_wallets
    frozen,    \* purchases with an appeal that is not CLOSED
    errand     \* requests in flight

manualVars == <<handover, trade, deposit, purse, frozen, errand>>

NoErrand  == [act |-> "none"]
NoTrade   == [status |-> "NONE", supplier |-> "none", quoted |-> 0, actual |-> 0]
NoDeposit == [status |-> "NONE", amount |-> 0, captured |-> 0]

ManualInit ==
    /\ handover = [d \in Purchases |-> [status |-> "PENDING_MANUAL_DELIVERY", supplier |-> "none"]]
    /\ trade = [d \in Purchases |-> NoTrade]
    /\ deposit = [d \in Purchases |-> NoDeposit]
    /\ purse = [available |-> Funds, held |-> 0, spent |-> 0]
    /\ frozen = {}
    /\ errand = [e \in Desks |-> NoErrand]

-----------------------------------------------------------------------------
(* A row is written: its version grows, and the requests that carry the    *)
(* one before have lost.                                                   *)
Stale(row, d) == [e \in Desks |->
    IF errand[e].act # "none" /\ errand[e].row = row /\ errand[e].d = d
    THEN [errand[e] EXCEPT !.fresh = FALSE] ELSE errand[e]]

Begin(e, act, d, row, seen) ==
    /\ errand[e] = NoErrand
    /\ errand' = [errand EXCEPT ![e] = [act |-> act, d |-> d, row |-> row, fresh |-> TRUE, seen |-> seen]]

Doing(e, act, d) == errand[e].act = act /\ errand[e].d = d
Finish(e, row, d) == errand' = [Stale(row, d) EXCEPT ![e] = NoErrand]

-----------------------------------------------------------------------------
(* transitionManualDelivery: what each command needs and leads to.         *)
HandoverFrom == [START  |-> {"SUPPLIER_ASSIGNED"},
                 MARK_DELIVERED |-> {"DELIVERY_IN_PROGRESS"},
                 CANCEL |-> {"PENDING_MANUAL_DELIVERY", "SUPPLIER_ASSIGNED", "DELIVERY_IN_PROGRESS"},
                 REVOKE |-> {"AWAITING_BUYER_ACCEPTANCE", "COMPLETED"}]
HandoverTo == [START |-> "DELIVERY_IN_PROGRESS", MARK_DELIVERED |-> "AWAITING_BUYER_ACCEPTANCE",
               CANCEL |-> "CANCELLED", REVOKE |-> "ACCESS_REVOKED"]

HandOver(d, command) ==
    /\ handover[d].status \in HandoverFrom[command]
    /\ handover' = [handover EXCEPT ![d].status = HandoverTo[command]]
    /\ errand' = Stale("handover", d)
    /\ UNCHANGED <<trade, deposit, purse, frozen>>

AssignSupplier(d, s) ==
    /\ handover[d].status \in {"PENDING_MANUAL_DELIVERY", "SUPPLIER_ASSIGNED"}
    /\ handover' = [handover EXCEPT ![d] = [status |-> "SUPPLIER_ASSIGNED", supplier |-> s]]
    /\ errand' = Stale("handover", d)
    /\ UNCHANGED <<trade, deposit, purse, frozen>>

(* confirmMemberManualDelivery: for a purchase that has no order.          *)
ReadConfirm(e, d) ==
    /\ trade[d] = NoTrade
    /\ handover[d].status = "AWAITING_BUYER_ACCEPTANCE"
    /\ Begin(e, "confirm", d, "handover", "none")
    /\ UNCHANGED <<handover, trade, deposit, purse, frozen>>

Confirm(e, d) ==
    /\ Doing(e, "confirm", d)
    /\ errand[e].fresh
    /\ handover' = [handover EXCEPT ![d].status = "COMPLETED"]
    /\ Finish(e, "handover", d)
    /\ UNCHANGED <<trade, deposit, purse, frozen>>

-----------------------------------------------------------------------------
(* createSupplierManualOrderOffer: the delivery is read, and not compared  *)
(* in the batch; demand_id is unique.                                      *)
ReadOffer(e, d, s) ==
    /\ handover[d].supplier = s
    /\ handover[d].status \in {"SUPPLIER_ASSIGNED", "DELIVERY_IN_PROGRESS"}
    /\ Begin(e, "offer", d, "none", s)
    /\ UNCHANGED <<handover, trade, deposit, purse, frozen>>

Offer(e, d, q) ==
    /\ Doing(e, "offer", d)
    /\ trade[d] = NoTrade
    /\ trade' = [trade EXCEPT ![d] = [status |-> "OFFERED", supplier |-> errand[e].seen,
                                      quoted |-> q, actual |-> 0]]
    /\ Finish(e, "trade", d)
    /\ UNCHANGED <<handover, deposit, purse, frozen>>

Traded(d, from, to) ==
    /\ trade[d].status = from
    /\ trade' = [trade EXCEPT ![d].status = to]

(* acceptMemberManualOrderOffer.                                           *)
AcceptOffer(d) ==
    /\ Traded(d, "OFFERED", "CARD_HOURS_HELD")
    /\ purse.available >= trade[d].quoted
    /\ deposit' = [deposit EXCEPT ![d] = [status |-> "HELD", amount |-> trade[d].quoted, captured |-> 0]]
    /\ purse' = [purse EXCEPT !.available = @ - trade[d].quoted, !.held = @ + trade[d].quoted]
    /\ errand' = Stale("trade", d)
    /\ UNCHANGED <<handover, frozen>>

(* transitionSupplierManualOrder with PREPARE and with SERVICE_COMPLETE.   *)
Prepare(d) ==
    /\ Traded(d, "CARD_HOURS_HELD", "PREPARING")
    /\ errand' = Stale("trade", d)
    /\ UNCHANGED <<handover, deposit, purse, frozen>>

CompleteService(d, n) ==
    /\ trade[d].status = "CONNECTION_CONFIRMED"
    /\ n <= deposit[d].amount
    /\ trade' = [trade EXCEPT ![d].status = "AWAITING_ACCEPTANCE", ![d].actual = n]
    /\ errand' = Stale("trade", d)
    /\ UNCHANGED <<handover, deposit, purse, frozen>>

(* Mutant: a supplier is ready before the machine is handed over.          *)
ReadReadyEarly(e, d) ==
    /\ trade[d].status = "PREPARING"
    /\ Begin(e, "ready", d, "trade", "none")
    /\ UNCHANGED <<handover, trade, deposit, purse, frozen>>

(* READY of the supplier, CONFIRM_CONNECTION of the buyer: the delivery is *)
(* only read.                                                              *)
ReadReady(e, d) ==
    /\ trade[d].status = "PREPARING"
    /\ handover[d].status \in {"AWAITING_BUYER_ACCEPTANCE", "COMPLETED"}
    /\ Begin(e, "ready", d, "trade", "none")
    /\ UNCHANGED <<handover, trade, deposit, purse, frozen>>

ReadConnect(e, d) ==
    /\ trade[d].status = "READY"
    /\ handover[d].status = "AWAITING_BUYER_ACCEPTANCE"
    /\ Begin(e, "connect", d, "trade", "none")
    /\ UNCHANGED <<handover, trade, deposit, purse, frozen>>

Advance(e, d, act, to) ==
    /\ Doing(e, act, d)
    /\ errand[e].fresh
    /\ trade' = [trade EXCEPT ![d].status = to]
    /\ Finish(e, "trade", d)
    /\ UNCHANGED <<handover, deposit, purse, frozen>>

-----------------------------------------------------------------------------
CeilOf(n, by) == (n + by - 1) \div by

(* Cents the supplier may be paid for n micros at the starter tier: 501    *)
(* cents for 5 card-hours, less one per cent.                              *)
Gross(n)      == CeilOf(n * 501, 5000000)
Receivable(n) == Gross(n) - CeilOf(Gross(n) * 100, 10000)

(* transitionMemberOrder with ACCEPT_COMPLETION.                           *)
ReadAccept(e, d) ==
    /\ trade[d].status = "AWAITING_ACCEPTANCE"
    /\ d \notin frozen
    /\ deposit[d].status = "HELD"
    /\ Receivable(trade[d].actual) >= 1
    /\ Begin(e, "accept", d, "trade", "none")
    /\ UNCHANGED <<handover, trade, deposit, purse, frozen>>

Accepts(e, d) ==
    /\ Doing(e, "accept", d)
    /\ errand[e].fresh
    /\ handover[d].status = "AWAITING_BUYER_ACCEPTANCE"
    /\ handover' = [handover EXCEPT ![d].status = "COMPLETED"]
    /\ trade' = [trade EXCEPT ![d].status = "COMPLETED"]
    /\ deposit' = [deposit EXCEPT ![d].status = "CAPTURED", ![d].captured = trade[d].actual]
    /\ purse' = [available |-> purse.available + (deposit[d].amount - trade[d].actual),
                 held |-> purse.held - deposit[d].amount,
                 spent |-> purse.spent + trade[d].actual]
    /\ errand' = [x \in Desks |-> IF x = e THEN NoErrand
                      ELSE IF errand[x].act # "none" /\ errand[x].d = d
                           THEN [errand[x] EXCEPT !.fresh = FALSE] ELSE errand[x]]
    /\ UNCHANGED frozen

(* Mutant: the appeal is looked for before the batch only.                 *)
AcceptUnfrozen(e, d) == Accepts(e, d)

AcceptCompletion(e, d) == d \notin frozen /\ Accepts(e, d)

(* A batch that is rolled back, or a request that is lost.                 *)
DropErrand(e) ==
    /\ errand[e] # NoErrand
    /\ errand' = [errand EXCEPT ![e] = NoErrand]
    /\ UNCHANGED <<handover, trade, deposit, purse, frozen>>

(* An appeal is opened, or closed: ManualAppeals.                          *)
Freeze(d) ==
    /\ d \notin frozen
    /\ frozen' = frozen \cup {d}
    /\ UNCHANGED <<handover, trade, deposit, purse, errand>>

Thaw(d) ==
    /\ d \in frozen
    /\ frozen' = frozen \ {d}
    /\ UNCHANGED <<handover, trade, deposit, purse, errand>>

-----------------------------------------------------------------------------
ManualNext ==
    \/ \E d \in Purchases :
          \/ \E command \in DOMAIN HandoverFrom : HandOver(d, command)
          \/ \E s \in Suppliers : AssignSupplier(d, s)
          \/ AcceptOffer(d) \/ Prepare(d) \/ Freeze(d) \/ Thaw(d)
          \/ \E n \in Uses : CompleteService(d, n)
    \/ \E e \in Desks, d \in Purchases :
          \/ ReadConfirm(e, d) \/ Confirm(e, d)
          \/ \E s \in Suppliers : ReadOffer(e, d, s)
          \/ \E q \in Quotes : Offer(e, d, q)
          \/ ReadReady(e, d) \/ Advance(e, d, "ready", "READY")
          \/ ReadConnect(e, d) \/ Advance(e, d, "connect", "CONNECTION_CONFIRMED")
          \/ ReadAccept(e, d) \/ AcceptCompletion(e, d)
    \/ \E e \in Desks : DropErrand(e)

ManualSpec == ManualInit /\ [][ManualNext]_manualVars

-----------------------------------------------------------------------------
Underway == {"CARD_HOURS_HELD", "PREPARING", "READY", "CONNECTION_CONFIRMED", "AWAITING_ACCEPTANCE"}
HandedOver == {"AWAITING_BUYER_ACCEPTANCE", "COMPLETED", "ACCESS_REVOKED"}
Parties == Suppliers \cup {"none"}

ManualTypeOK ==
    /\ handover \in [Purchases -> [status: HandedOver \cup {"PENDING_MANUAL_DELIVERY", "SUPPLIER_ASSIGNED",
                         "DELIVERY_IN_PROGRESS", "CANCELLED"}, supplier: Parties]]
    /\ trade \in [Purchases -> [status: Underway \cup {"NONE", "OFFERED", "COMPLETED"},
                                supplier: Parties, quoted: Quotes \cup {0}, actual: Uses \cup {0}]]
    /\ deposit \in [Purchases -> [status: {"NONE", "HELD", "CAPTURED"},
                                  amount: Quotes \cup {0}, captured: Uses \cup {0}]]
    /\ purse \in [available: Nat, held: Nat, spent: Nat]
    /\ frozen \subseteq Purchases
    /\ \A e \in Desks : errand[e] # NoErrand =>
           errand[e] \in [act: {"confirm", "offer", "ready", "connect", "accept"}, d: Purchases,
                          row: {"none", "handover", "trade"}, fresh: BOOLEAN, seen: Parties]

(* The wallet is what the orders say, whoever commits late: card-hours are *)
(* held exactly for the orders that are under way, captured exactly for    *)
(* those completed, never more than was held, and none is lost.            *)
ManualMoneyIsExplained ==
    /\ purse.held = MapThenSumSet(LAMBDA d : IF deposit[d].status = "HELD" THEN deposit[d].amount ELSE 0,
                                  Purchases)
    /\ purse.spent = MapThenSumSet(LAMBDA d : deposit[d].captured, Purchases)
    /\ purse.available + purse.held + purse.spent = Funds
    /\ \A d \in Purchases :
           /\ deposit[d].status = "HELD" <=> trade[d].status \in Underway
           /\ deposit[d].status = "CAPTURED" <=> trade[d].status = "COMPLETED"
           /\ deposit[d].captured <= deposit[d].amount

(* An order never runs ahead of the delivery it is for: a supplier is      *)
(* ready, and a buyer connects, once the machine is handed over, and what  *)
(* is paid for has been delivered.                                         *)
OrderFollowsDelivery ==
    \A d \in Purchases :
        /\ trade[d].status \in {"READY", "CONNECTION_CONFIRMED", "AWAITING_ACCEPTANCE"} =>
               handover[d].status \in HandedOver
        /\ trade[d].status = "COMPLETED" =>
               handover[d].status \in {"COMPLETED", "ACCESS_REVOKED"}

(* Nothing is captured while an appeal is open, a capture completes the    *)
(* delivery with it, and what is completed, cancelled or revoked stays so  *)
(* for whoever read the rows before.                                       *)
CaptureIsClean ==
    \A d \in Purchases :
        /\ trade[d].status # "COMPLETED" /\ trade'[d].status = "COMPLETED" =>
               /\ d \notin frozen
               /\ handover[d].status # "COMPLETED" /\ handover'[d].status = "COMPLETED"
        /\ trade[d].status = "COMPLETED" => trade'[d] = trade[d] /\ deposit'[d] = deposit[d]
        /\ handover[d].status \in {"CANCELLED", "ACCESS_REVOKED"} => handover'[d] = handover[d]

(* A deposit can still be given back or captured. The code does not keep   *)
(* this one: see "Disagreements" in the README.                            *)
DepositIsNotStranded ==
    \A d \in Purchases :
        deposit[d].status = "HELD" => handover[d].status \notin {"CANCELLED", "ACCESS_REVOKED", "COMPLETED"}
=============================================================================
