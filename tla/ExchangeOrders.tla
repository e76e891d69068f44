--------------------------- MODULE ExchangeOrders ---------------------------
(* The orders on one listed capacity lot of the exchange, from checkout to *)
(* payment, for both databases the store runs on. exchange-store-sqlite.ts *)
(* works on a synchronous database: a handler is one action.               *)
(* exchange-store-d1.ts reads with awaits and commits one batch: a handler *)
(* is a step per read another step relies on and a step per batch, and it  *)
(* carries the clock it read. Reservations whose hold is over are expired  *)
(* by whoever finds them; no timer does it.                                *)
(*                                                                         *)
(* An order is named by the buyer's idempotency key. Its version advances  *)
(* with its status in this part of its life, so that the compare-and-set   *)
(* on the version is the test of the status.                               *)
EXTENDS Integers, FiniteSets, ExchangeCapacity

CONSTANTS
    Orders,       \* checkout keys of the buyers
    Requests,     \* requests a D1 store handles at once
    Events,       \* provider event ids
    Transactions, \* provider transaction ids
    Windows,      \* [start, end, units] a buyer may ask for
    LotUnits,     \* rate_units of the lot
    HoldTtl,      \* the 30 minutes of a hold, in ticks
    ValidUntil,   \* valid_until of the listing version
    MaxTime       \* bound of the clock

ASSUME ExchangeAssumption ==
    /\ IsFiniteSet(Orders)
    /\ Windows \subseteq [start : Nat, end : Nat, units : Nat \ {0}]
    /\ LotUnits \in Nat /\ HoldTtl \in Nat \ {0} /\ ValidUntil \in Nat /\ MaxTime \in Nat

VARIABLES
    store,   \* "sqlite" or "d1", chosen when the service is configured
    now,     \* the clock
    orders,  \* exchange_orders, _reservations, _payment_intents and _order_lifecycle
    moves,   \* exchange_capacity_transfers by their idempotency keys
    events,  \* exchange_payment_events
    req      \* local state of the D1 handlers under way

vars == <<store, now, orders, moves, events, req>>

Absent  == [status |-> "NONE", resv |-> "NONE", hold |-> 0, intent |-> "NONE",
            phase |-> "NONE", win |-> [start |-> 0, end |-> 0, units |-> 0]]
NoEvent == [order |-> "none", txn |-> "none", outcome |-> "NONE"]
Idle    == [step |-> "idle"]

MinOf(a, b) == IF a < b THEN a ELSE b

Init ==
    /\ store \in {"sqlite", "d1"}
    /\ now = 0
    /\ orders = [o \in Orders |-> Absent]
    /\ moves = [o \in Orders |-> {}]
    /\ events = [e \in Events |-> NoEvent]
    /\ req = [r \in Requests |-> Idle]

-----------------------------------------------------------------------------
(* Rows and transitions both stores share.                                 *)

(* newCheckoutRecords: the hold ends with the TTL, the listing or at the   *)
(* start of the service, whichever comes first.                            *)
HoldUntil(w) == MinOf(MinOf(now + HoldTtl, ValidUntil), w.start)

PaymentHold(o) == MinOf(now + HoldTtl, orders[o].win.start)

Stale(at) == {o \in Orders : /\ orders[o].resv \in {"HELD", "SUPPLIER_CONFIRMED"}
                             /\ orders[o].hold <= at}

Reserving(at) ==
    {o \in Orders : \/ orders[o].resv \in {"SUPPLIER_CONFIRMED", "COMMITTED"}
                    \/ orders[o].resv = "HELD" /\ orders[o].hold > at}

Taken(S) == [o \in S |-> orders[o].win]

Placed(w, hold, phase) ==
    [Absent EXCEPT !.status = "PENDING_SUPPLIER_CONFIRMATION", !.resv = "HELD",
                   !.hold = hold, !.phase = phase, !.win = w]
Confirmed(row, hold) ==
    [row EXCEPT !.status = "AWAITING_PAYMENT", !.resv = "SUPPLIER_CONFIRMED", !.hold = hold,
                !.intent = "PENDING", !.phase = "AWAITING_PAYMENT"]
Rejected(row) ==
    [row EXCEPT !.status = "CANCELLED", !.resv = "RELEASED", !.phase = "EXCEPTION"]
Captured(row) ==
    [row EXCEPT !.resv = "COMMITTED", !.intent = "CAPTURED", !.phase = "FULFILLING"]
Expired(row) == [row EXCEPT !.status = "EXPIRED", !.resv = "EXPIRED"]

ExpireRows(S) == [o \in Orders |-> IF o \in S THEN Expired(orders[o]) ELSE orders[o]]
ExpireMoves(S) == [o \in Orders |-> IF o \in S THEN moves[o] \cup {"expired"} ELSE moves[o]]

Moved(o, key) == moves' = [moves EXCEPT ![o] = @ \cup {key}]
Noted(e, o, t, outcome) ==
    events' = [events EXCEPT ![e] = [order |-> o, txn |-> t, outcome |-> outcome]]

Applied(t) == \E e \in Events : events[e].txn = t /\ events[e].outcome = "APPLIED"
Standing(o, at) == /\ orders[o].status = "AWAITING_PAYMENT"
                   /\ orders[o].resv = "SUPPLIER_CONFIRMED"
                   /\ orders[o].hold > at
Payable(o, at) == Standing(o, at) /\ orders[o].intent = "PENDING"

-----------------------------------------------------------------------------
(* The SQLite store.                                                       *)

SqliteCheckout(o, w) ==
    /\ store = "sqlite" /\ orders[o] = Absent
    /\ now < ValidUntil /\ HoldUntil(w) > now
    /\ Fits(Taken(Reserving(now) \ Stale(now)), w, LotUnits)
    /\ orders' = [ExpireRows(Stale(now)) EXCEPT ![o] = Placed(w, HoldUntil(w), "NONE")]
    /\ moves' = [ExpireMoves(Stale(now)) EXCEPT ![o] = {"hold"}]
    /\ UNCHANGED <<store, now, events, req>>

(* expireReservations, on its own: before a quote, a confirmation that is  *)
(* too late or a payment that is too late.                                 *)
SqliteExpire ==
    /\ store = "sqlite" /\ Stale(now) # {}
    /\ orders' = ExpireRows(Stale(now))
    /\ moves' = ExpireMoves(Stale(now))
    /\ UNCHANGED <<store, now, events, req>>

SqliteConfirm(o, accept) ==
    /\ store = "sqlite"
    /\ orders[o].status = "PENDING_SUPPLIER_CONFIRMATION" /\ orders[o].resv = "HELD"
    /\ orders[o].hold > now
    /\ IF accept
       THEN /\ orders' = [orders EXCEPT ![o] = Confirmed(@, PaymentHold(o))]
            /\ UNCHANGED moves
       ELSE /\ orders' = [orders EXCEPT ![o] = Rejected(@)]
            /\ Moved(o, "supplier-rejected")
    /\ UNCHANGED <<store, now, events, req>>

(* A known event is replayed and a captured order refuses a second payment *)
(* without a row; everything else leaves one. A late payment expires what  *)
(* is stale in the lot when its own reservation is.                        *)
SqlitePayment(e, o, t, matches) ==
    /\ store = "sqlite" /\ events[e] = NoEvent /\ orders[o].intent # "NONE"
    /\ \/ ~matches /\ Noted(e, o, t, "REVIEW_REQUIRED") /\ UNCHANGED <<orders, moves>>
       \/ /\ matches /\ Applied(t)
          /\ Noted(e, o, t, "IGNORED_DUPLICATE_TRANSACTION") /\ UNCHANGED <<orders, moves>>
       \/ /\ matches /\ ~Applied(t) /\ orders[o].intent # "CAPTURED" /\ ~Payable(o, now)
          /\ LET stale == IF o \in Stale(now) THEN Stale(now) ELSE {} IN
             orders' = ExpireRows(stale) /\ moves' = ExpireMoves(stale)
          /\ Noted(e, o, t, "LATE_CAPTURE_REVIEW")
       \/ /\ matches /\ ~Applied(t) /\ Payable(o, now)
          /\ orders' = [orders EXCEPT ![o] = Captured(@)]
          /\ Moved(o, "payment-locked")
          /\ Noted(e, o, t, "APPLIED")
    /\ UNCHANGED <<store, now, req>>

-----------------------------------------------------------------------------
(* The D1 store: the reads.                                                *)

Asks(r, record) == /\ store = "d1" /\ req[r] = Idle
                   /\ req' = [req EXCEPT ![r] = record]
                   /\ UNCHANGED <<store, now, orders, moves, events>>

At(r, step) == store = "d1" /\ req[r].step = step
Goto(r, step) == req' = [req EXCEPT ![r].step = step]
Finish(r) == req' = [req EXCEPT ![r] = Idle]

(* Mutant of D1ReadOffer: what is stale is left out of the sum, but not    *)
(* expired first.                                                          *)
D1ReadOfferUnswept(r, o, w) ==
    /\ orders[o] = Absent /\ now < ValidUntil
    /\ Asks(r, [step |-> "draw", op |-> "checkout", order |-> o, win |-> w, at |-> now,
                stale |-> {}, hold |-> 0])

(* createCheckout reads the listing and the reservations that are stale.   *)
D1ReadOffer(r, o, w) ==
    /\ orders[o] = Absent /\ now < ValidUntil
    /\ Asks(r, [step |-> "sweep", op |-> "checkout", order |-> o, win |-> w, at |-> now,
                stale |-> Stale(now), hold |-> 0])

(* assertD1SwapInventory, before a quote is drawn up.                      *)
D1ReadInventory(r) ==
    /\ Stale(now) # {}
    /\ Asks(r, [step |-> "sweep", op |-> "quote", at |-> now, stale |-> Stale(now)])

D1ReadConfirm(r, o, accept) ==
    /\ orders[o].status = "PENDING_SUPPLIER_CONFIRMATION" /\ orders[o].resv = "HELD"
    /\ Asks(r, IF orders[o].hold <= now
               THEN [step |-> "sweep", op |-> "confirm", at |-> now, stale |-> {o}]
               ELSE [step |-> "confirm", op |-> "confirm", order |-> o, accept |-> accept,
                     at |-> now, hold |-> PaymentHold(o)])

(* applyPaymentEvent reads the event, the payment intent, the order with   *)
(* its reservation and the events of the transaction one after the other,  *)
(* and decides by what it read.                                            *)
D1ReadEvent(r, e, o, t, matches) ==
    /\ events[e] = NoEvent /\ orders[o].intent # "NONE"
    /\ Asks(r, [step |-> IF matches THEN "intent" ELSE "record", op |-> "payment",
                event |-> e, order |-> o, txn |-> t, at |-> now, intent |-> "NONE",
                stale |-> {}, outcome |-> IF matches THEN "APPLIED" ELSE "REVIEW_REQUIRED"])

D1ReadIntent(r) ==
    /\ At(r, "intent")
    /\ req' = [req EXCEPT ![r].step = "order", ![r].at = now,
                          ![r].intent = orders[req[r].order].intent]
    /\ UNCHANGED <<store, now, orders, moves, events>>

Decide(r, step, outcome) == req' = [req EXCEPT ![r].step = step, ![r].outcome = outcome]

(* The intent is older than the order it is compared with. The order row   *)
(* and its reservation are read one after the other too, but once it has   *)
(* an intent only a capture changes one without the other, and that one is *)
(* the reservation, read last. The events of the transaction follow; one   *)
(* that is applied stays applied, so that one that is not then was not     *)
(* either when the order was read.                                         *)
D1ReadOrder(r) ==
    /\ At(r, "order")
    /\ LET o == req[r].order IN
       \/ Applied(req[r].txn) /\ Decide(r, "record", "IGNORED_DUPLICATE_TRANSACTION")
       \/ ~Applied(req[r].txn) /\ req[r].intent = "CAPTURED" /\ Finish(r)
       \/ /\ ~Applied(req[r].txn) /\ req[r].intent = "PENDING"
          /\ IF Standing(o, req[r].at) THEN Decide(r, "source", "APPLIED")
             ELSE req' = [req EXCEPT ![r].step = "sweep", ![r].outcome = "LATE_CAPTURE_REVIEW",
                                     ![r].stale = Stale(req[r].at) \cap {o}]
    /\ UNCHANGED <<store, now, orders, moves, events>>

(* The listing of the order is read before the clock is read again.        *)
D1ReadSource(r) ==
    /\ At(r, "source")
    /\ req' = [req EXCEPT ![r].step = "capture", ![r].at = now]
    /\ UNCHANGED <<store, now, orders, moves, events>>

-----------------------------------------------------------------------------
(* The D1 store: the batches. Each repeats, inside the transaction, the    *)
(* tests written here, against the clock its request read.                 *)

(* expireD1Reservations is all or nothing: one reservation that somebody   *)
(* else has expired, confirmed or paid meanwhile aborts the request.       *)
D1PostSweep(r) ==
    /\ At(r, "sweep")
    /\ IF req[r].stale \subseteq Stale(req[r].at)
       THEN /\ orders' = ExpireRows(req[r].stale)
            /\ moves' = ExpireMoves(req[r].stale)
            /\ CASE req[r].op = "checkout" -> Goto(r, "draw")
                 [] req[r].op = "payment"  -> Goto(r, "record")
                 [] OTHER                  -> Finish(r)
       ELSE Finish(r) /\ UNCHANGED <<orders, moves>>
    /\ UNCHANGED <<store, now, events>>

(* newCheckoutRecords, with the clock after the sweep.                     *)
D1DrawUp(r) ==
    /\ At(r, "draw")
    /\ IF HoldUntil(req[r].win) > now
       THEN req' = [req EXCEPT ![r].step = "place", ![r].hold = HoldUntil(req[r].win)]
       ELSE Finish(r)
    /\ UNCHANGED <<store, now, orders, moves, events>>

(* The insert counts the reservations again, alive at the time of the read.*)
D1PostCheckout(r) ==
    /\ At(r, "place")
    /\ LET o == req[r].order IN
       IF orders[o] = Absent /\ FitsD1(Taken(Reserving(req[r].at)), req[r].win, LotUnits)
       THEN /\ orders' = [orders EXCEPT ![o] = Placed(req[r].win, req[r].hold, "AWAITING_SUPPLIER")]
            /\ moves' = [moves EXCEPT ![o] = {"hold"}]
       ELSE UNCHANGED <<orders, moves>>
    /\ Finish(r)
    /\ UNCHANGED <<store, now, events>>

D1PostConfirm(r) ==
    /\ At(r, "confirm")
    /\ LET o == req[r].order IN
       IF /\ orders[o].status = "PENDING_SUPPLIER_CONFIRMATION"
          /\ orders[o].resv = "HELD" /\ orders[o].hold > req[r].at
          /\ orders[o].phase = "AWAITING_SUPPLIER"
       THEN IF req[r].accept
            THEN /\ orders' = [orders EXCEPT ![o] = Confirmed(@, req[r].hold)]
                 /\ UNCHANGED moves
            ELSE /\ orders' = [orders EXCEPT ![o] = Rejected(@)]
                 /\ Moved(o, "supplier-rejected")
       ELSE UNCHANGED <<orders, moves>>
    /\ Finish(r)
    /\ UNCHANGED <<store, now, events>>

(* Mutant of D1PostCapture: a payment that was read in time is applied to  *)
(* whatever became of the order.                                           *)
D1PostCaptureRevives(r) ==
    /\ At(r, "capture")
    /\ LET o == req[r].order IN
       IF events[req[r].event] = NoEvent /\ ~Applied(req[r].txn) /\ orders[o].intent = "PENDING"
       THEN /\ orders' = [orders EXCEPT ![o] = Captured(@)]
            /\ Moved(o, "payment-locked")
            /\ Noted(req[r].event, o, req[r].txn, "APPLIED")
            /\ Finish(r)
       ELSE Goto(r, "refused") /\ UNCHANGED <<orders, moves, events>>
    /\ UNCHANGED <<store, now>>

(* The gate repeats the tests of the order; the unique indexes refuse an   *)
(* event or a transaction that is already on record.                       *)
D1PostCapture(r) ==
    /\ At(r, "capture")
    /\ LET o == req[r].order IN
       IF events[req[r].event] = NoEvent /\ ~Applied(req[r].txn) /\ Payable(o, req[r].at)
       THEN /\ orders' = [orders EXCEPT ![o] = Captured(@)]
            /\ Moved(o, "payment-locked")
            /\ Noted(req[r].event, o, req[r].txn, "APPLIED")
            /\ Finish(r)
       ELSE Goto(r, "refused") /\ UNCHANGED <<orders, moves, events>>
    /\ UNCHANGED <<store, now>>

(* Why the batch was aborted is read afterwards, again one thing after the *)
(* other. The events stay, so that finding the transaction applied and     *)
(* then the event on record ends as finding the event at once. A payment   *)
(* whose time ran out between the two clocks is thrown back without a row. *)
D1ExplainRefusal(r) ==
    /\ At(r, "refused")
    /\ IF events[req[r].event] # NoEvent THEN Finish(r)
       ELSE IF Applied(req[r].txn) THEN Decide(r, "record", "IGNORED_DUPLICATE_TRANSACTION")
       ELSE Goto(r, "recheck")
    /\ UNCHANGED <<store, now, orders, moves, events>>

D1RereadIntent(r) ==
    /\ At(r, "recheck")
    /\ IF orders[req[r].order].intent = "CAPTURED" THEN Finish(r) ELSE Goto(r, "restate")
    /\ UNCHANGED <<store, now, orders, moves, events>>

D1RereadOrder(r) ==
    /\ At(r, "restate")
    /\ LET row == orders[req[r].order] IN
       IF row.status = "AWAITING_PAYMENT" /\ row.resv = "SUPPLIER_CONFIRMED"
       THEN Finish(r) ELSE Decide(r, "record", "LATE_CAPTURE_REVIEW")
    /\ UNCHANGED <<store, now, orders, moves, events>>

(* insertPaymentOutcomeOrReplay: an event id is recorded once.             *)
D1Record(r) ==
    /\ At(r, "record")
    /\ IF events[req[r].event] = NoEvent
       THEN Noted(req[r].event, req[r].order, req[r].txn, req[r].outcome)
       ELSE UNCHANGED events
    /\ Finish(r)
    /\ UNCHANGED <<store, now, orders, moves>>

-----------------------------------------------------------------------------
Tick == /\ now < MaxTime
        /\ now' = now + 1
        /\ UNCHANGED <<store, orders, moves, events, req>>

Sqlite ==
    \/ \E o \in Orders, w \in Windows : SqliteCheckout(o, w)
    \/ SqliteExpire
    \/ \E o \in Orders, accept \in BOOLEAN : SqliteConfirm(o, accept)
    \/ \E e \in Events, o \in Orders, t \in Transactions, matches \in BOOLEAN :
           SqlitePayment(e, o, t, matches)

D1(r) ==
    \/ \E o \in Orders, w \in Windows : D1ReadOffer(r, o, w)
    \/ D1ReadInventory(r)
    \/ \E o \in Orders, accept \in BOOLEAN : D1ReadConfirm(r, o, accept)
    \/ \E e \in Events, o \in Orders, t \in Transactions, matches \in BOOLEAN :
           D1ReadEvent(r, e, o, t, matches)
    \/ D1ReadIntent(r) \/ D1ReadOrder(r) \/ D1ReadSource(r)
    \/ D1PostSweep(r) \/ D1DrawUp(r) \/ D1PostCheckout(r) \/ D1PostConfirm(r) \/ D1PostCapture(r)
    \/ D1ExplainRefusal(r) \/ D1RereadIntent(r) \/ D1RereadOrder(r) \/ D1Record(r)

Next == Sqlite \/ (\E r \in Requests : D1(r)) \/ Tick

Spec == Init /\ [][Next]_vars

-----------------------------------------------------------------------------
Statuses == {"NONE", "PENDING_SUPPLIER_CONFIRMATION", "AWAITING_PAYMENT", "CANCELLED", "EXPIRED"}
Outcomes == {"APPLIED", "REVIEW_REQUIRED", "IGNORED_DUPLICATE_TRANSACTION", "LATE_CAPTURE_REVIEW"}

(* mapOrder: an order that is over says so, whatever phase it was in.      *)
ShownStatus(o) ==
    IF orders[o].status \in {"CANCELLED", "EXPIRED"} THEN orders[o].status
    ELSE IF orders[o].phase = "FULFILLING" THEN "FULFILLING" ELSE orders[o].status

(* The types of the rows and of what a handler carries; no hold outlasts   *)
(* the start of the service, whoever sets it.                              *)
TypeOK ==
    /\ store \in {"sqlite", "d1"} /\ now \in 0 .. MaxTime
    /\ orders \in [Orders -> [status : Statuses, hold : Nat,
                              resv : {"NONE", "HELD", "SUPPLIER_CONFIRMED", "COMMITTED",
                                      "RELEASED", "EXPIRED"},
                              intent : {"NONE", "PENDING", "CAPTURED"},
                              phase : {"NONE", "AWAITING_SUPPLIER", "AWAITING_PAYMENT",
                                       "FULFILLING", "EXCEPTION"},
                              win : Windows \cup {Absent.win}]]
    /\ \A o \in Orders : orders[o].hold <= orders[o].win.start
    /\ moves \in [Orders -> SUBSET {"hold", "expired", "supplier-rejected", "payment-locked"}]
    /\ events \in [Events -> {NoEvent} \cup
                             [order : Orders, txn : Transactions, outcome : Outcomes]]
    /\ DOMAIN req = Requests
    /\ \A r \in Requests : req[r] = Idle \/
           /\ req[r].at \in 0 .. now
           /\ req[r].step \in {"sweep", "draw", "place", "confirm", "intent", "order", "source",
                               "capture", "refused", "recheck", "restate", "record"}
           /\ req[r].step = "record" => req[r].outcome \in Outcomes

(* The capacity ledger, the reservation, the payment intent and the        *)
(* payment events tell the same story of every order: its capacity is in   *)
(* one bucket, it is paid by exactly one event whose transaction pays for  *)
(* nothing else, and money that is put aside for a refund belongs to an    *)
(* order that is over or, on D1, to one that is paid: never to one that    *)
(* can still be paid.                                                      *)
MovesOf(resv) ==
    CASE resv = "NONE"     -> {}
      [] resv \in {"HELD", "SUPPLIER_CONFIRMED"} -> {"hold"}
      [] resv = "EXPIRED"  -> {"hold", "expired"}
      [] resv = "RELEASED" -> {"hold", "supplier-rejected"}
      [] OTHER             -> {"hold", "payment-locked"}

Paying(o) == {e \in Events : events[e].order = o /\ events[e].outcome = "APPLIED"}

BooksAgree ==
    /\ TypeOK
    /\ \A o \in Orders :
           /\ moves[o] = MovesOf(orders[o].resv)
           /\ orders[o].intent = "CAPTURED" <=> orders[o].resv = "COMMITTED"
           /\ orders[o].intent = "CAPTURED" <=> Paying(o) # {}
           /\ \A e, f \in Paying(o) : e = f
    /\ \A e, f \in Events :
           events[e].outcome = "APPLIED" /\ events[f].outcome = "APPLIED"
           /\ events[e].txn = events[f].txn => e = f
    /\ \A e \in Events : events[e].outcome = "LATE_CAPTURE_REVIEW" =>
           \/ ShownStatus(events[e].order) = "EXPIRED"
           \/ store = "d1" /\ Paying(events[e].order) # {}

(* The promise of ExchangePromise, kept on both databases: whatever reads  *)
(* are old when they are acted upon, a lapsed order is not revived once    *)
(* its capacity is somebody else's, and no hour of the lot is sold twice.  *)
Stage(o) ==
    CASE orders[o].resv = "NONE" -> "none"
      [] orders[o].resv = "HELD" -> IF orders[o].hold > now THEN "held" ELSE "lapsed"
      [] orders[o].resv = "SUPPLIER_CONFIRMED" -> "confirmed"
      [] orders[o].resv = "COMMITTED" -> "paid"
      [] OTHER -> "released"

Promise == INSTANCE ExchangePromise WITH
    Windows <- Windows \cup {Absent.win},
    Slots   <- UNION {w.start .. w.end - 1 : w \in Windows},
    stage   <- [o \in Orders |-> Stage(o)],
    window  <- [o \in Orders |-> orders[o].win],
    paidBy  <- [o \in Orders |-> {events[e].txn : e \in Paying(o)}]
ImplementsOrderPromise == Promise!Spec
=============================================================================
