--------------------------- MODULE ExchangeProofs ---------------------------
(* Proofs about ExchangeOrders, for any number of orders, requests,        *)
(* events, windows and units, and about ExchangeDelivery, for any window,  *)
(* price, credentials and number of packages, on both databases.           *)
EXTENDS ExchangeOrders, ExchangeDelivery, SumTheorems, FiniteSetTheorems, TLAPS

-----------------------------------------------------------------------------
(* One order and its ledger.                                               *)

Row == [status : Statuses, hold : Nat,
        resv : {"NONE", "HELD", "SUPPLIER_CONFIRMED", "COMMITTED", "RELEASED", "EXPIRED"},
        intent : {"NONE", "PENDING", "CAPTURED"},
        phase : {"NONE", "AWAITING_SUPPLIER", "AWAITING_PAYMENT", "FULFILLING", "EXCEPTION"},
        win : Windows \cup {Absent.win}]

(* Status, reservation and intent move together.                           *)
Consistent(row) ==
    \/ row.status = "NONE" /\ row.resv = "NONE" /\ row.intent = "NONE"
    \/ row.status = "PENDING_SUPPLIER_CONFIRMATION" /\ row.resv = "HELD" /\ row.intent = "NONE"
    \/ row.status = "AWAITING_PAYMENT" /\ row.resv = "SUPPLIER_CONFIRMED" /\ row.intent = "PENDING"
    \/ row.status = "AWAITING_PAYMENT" /\ row.resv = "COMMITTED" /\ row.intent = "CAPTURED"
    \/ row.status = "CANCELLED" /\ row.resv = "RELEASED" /\ row.intent = "NONE"
    \/ row.status = "EXPIRED" /\ row.resv = "EXPIRED" /\ row.intent # "CAPTURED"

Sound(row, ledger) ==
    /\ row \in Row
    /\ Consistent(row)
    /\ row.hold <= row.win.start
    /\ ledger = MovesOf(row.resv)

(* What never changes again: the window of an order that exists, that it   *)
(* has an intent, that it is paid and that it expired.                     *)
Persists(row, next) ==
    /\ row.resv # "NONE" => next.resv # "NONE" /\ next.win = row.win
    /\ row.intent # "NONE" => next.intent # "NONE"
    /\ row.intent = "CAPTURED" => next.intent = "CAPTURED"
    /\ row.status = "EXPIRED" => next.status = "EXPIRED"

(* An order that cannot be paid any more: it expired, or it is paid.       *)
Closed(row) == row.status = "EXPIRED" \/ row.intent = "CAPTURED"

(* Only on D1 is a late payment put aside for an order that is paid.       *)
Refunds(row) == row.status = "EXPIRED" \/ (store = "d1" /\ row.intent = "CAPTURED")

(* The windows of the orders, and of one that is absent.                   *)
LEMMA WindowTypes ==
    /\ Absent \in Row
    /\ \A w \in Windows \cup {Absent.win} : w.start \in Nat
  BY ExchangeAssumption DEF Row, Absent, Statuses

(* An order that is placed holds its capacity.                             *)
LEMMA PlacedIsSound ==
    ASSUME NEW w \in Windows, NEW h \in Nat, h <= w.start, NEW p \in {"NONE", "AWAITING_SUPPLIER"}
    PROVE  Sound(Placed(w, h, p), {"hold"}) /\ Placed(w, h, p).intent # "CAPTURED"
           /\ Persists(Absent, Placed(w, h, p))
  <1> DEFINE row == Placed(w, h, p)
  <1>1. row = [Absent EXCEPT !.status = "PENDING_SUPPLIER_CONFIRMATION", !.resv = "HELD",
                             !.hold = h, !.phase = p, !.win = w]
    BY DEF Placed
  <1>2. /\ row \in Row /\ row.status = "PENDING_SUPPLIER_CONFIRMATION" /\ row.resv = "HELD"
        /\ row.intent = "NONE" /\ row.hold = h /\ row.win = w
    BY <1>1 DEF Absent, Row, Statuses
  <1>3. Absent.resv = "NONE" /\ Absent.intent = "NONE" /\ Absent.status = "NONE"
    BY DEF Absent
  <1> QED BY <1>2, <1>3 DEF Sound, Consistent, MovesOf, Persists

(* One that the supplier confirms goes on holding it, to the new deadline. *)
LEMMA ConfirmedIsSound ==
    ASSUME NEW row, NEW ledger, Sound(row, ledger), row.resv = "HELD",
           NEW h \in Nat, h <= row.win.start
    PROVE  Sound(Confirmed(row, h), ledger) /\ Confirmed(row, h).intent # "CAPTURED"
           /\ Persists(row, Confirmed(row, h))
  <1> DEFINE next == Confirmed(row, h)
  <1>0. row \in Row /\ Consistent(row) /\ ledger = MovesOf("HELD")
    BY DEF Sound
  <1>1. next = [row EXCEPT !.status = "AWAITING_PAYMENT", !.resv = "SUPPLIER_CONFIRMED", !.hold = h,
                           !.intent = "PENDING", !.phase = "AWAITING_PAYMENT"]
    BY DEF Confirmed
  <1>2. /\ next \in Row /\ next.status = "AWAITING_PAYMENT" /\ next.resv = "SUPPLIER_CONFIRMED"
        /\ next.intent = "PENDING" /\ next.hold = h /\ next.win = row.win
    BY <1>0, <1>1 DEF Row, Statuses
  <1>3. row.status # "EXPIRED"
    BY <1>0 DEF Consistent
  <1> QED BY <1>0, <1>2, <1>3 DEF Sound, Consistent, MovesOf, Persists

(* One that the supplier rejects gives it back.                            *)
LEMMA RejectedIsSound ==
    ASSUME NEW row, NEW ledger, Sound(row, ledger), row.resv = "HELD"
    PROVE  Sound(Rejected(row), ledger \cup {"supplier-rejected"})
           /\ Rejected(row).intent # "CAPTURED" /\ Persists(row, Rejected(row))
  <1> DEFINE next == Rejected(row)
  <1>0. row \in Row /\ Consistent(row) /\ ledger = MovesOf("HELD") /\ row.hold <= row.win.start
    BY DEF Sound
  <1>1. next = [row EXCEPT !.status = "CANCELLED", !.resv = "RELEASED", !.phase = "EXCEPTION"]
    BY DEF Rejected
  <1>2. /\ next \in Row /\ next.status = "CANCELLED" /\ next.resv = "RELEASED"
        /\ next.intent = row.intent /\ next.hold = row.hold /\ next.win = row.win
    BY <1>0, <1>1 DEF Row, Statuses
  <1>3. row.intent = "NONE" /\ row.status # "EXPIRED"
    BY <1>0 DEF Consistent
  <1>4. ledger \cup {"supplier-rejected"} = MovesOf("RELEASED")
    BY <1>0 DEF MovesOf
  <1> QED BY <1>0, <1>2, <1>3, <1>4 DEF Sound, Consistent, Persists

(* One that is paid commits it.                                            *)
LEMMA CapturedIsSound ==
    ASSUME NEW row, NEW ledger, Sound(row, ledger), row.status = "AWAITING_PAYMENT",
           row.resv = "SUPPLIER_CONFIRMED"
    PROVE  Sound(Captured(row), ledger \cup {"payment-locked"})
           /\ Captured(row).intent = "CAPTURED" /\ Persists(row, Captured(row))
  <1> DEFINE next == Captured(row)
  <1>0. /\ row \in Row /\ Consistent(row) /\ ledger = MovesOf("SUPPLIER_CONFIRMED")
        /\ row.hold <= row.win.start
    BY DEF Sound
  <1>1. next = [row EXCEPT !.resv = "COMMITTED", !.intent = "CAPTURED", !.phase = "FULFILLING"]
    BY DEF Captured
  <1>2. /\ next \in Row /\ next.status = "AWAITING_PAYMENT" /\ next.resv = "COMMITTED"
        /\ next.intent = "CAPTURED" /\ next.hold = row.hold /\ next.win = row.win
    BY <1>0, <1>1 DEF Row, Statuses
  <1>3. ledger \cup {"payment-locked"} = MovesOf("COMMITTED")
    BY <1>0 DEF MovesOf
  <1> QED BY <1>0, <1>2, <1>3 DEF Sound, Consistent, Persists

(* One whose hold is over gives it back.                                   *)
LEMMA ExpiredIsSound ==
    ASSUME NEW row, NEW ledger, Sound(row, ledger), row.resv \in {"HELD", "SUPPLIER_CONFIRMED"}
    PROVE  Sound(Expired(row), ledger \cup {"expired"}) /\ Expired(row).status = "EXPIRED"
           /\ Expired(row).intent # "CAPTURED" /\ Persists(row, Expired(row))
  <1> DEFINE next == Expired(row)
  <1>0. row \in Row /\ Consistent(row) /\ ledger = MovesOf(row.resv) /\ row.hold <= row.win.start
    BY DEF Sound
  <1>1. next = [row EXCEPT !.status = "EXPIRED", !.resv = "EXPIRED"]
    BY DEF Expired
  <1>2. /\ next \in Row /\ next.status = "EXPIRED" /\ next.resv = "EXPIRED"
        /\ next.intent = row.intent /\ next.hold = row.hold /\ next.win = row.win
    BY <1>0, <1>1 DEF Row, Statuses
  <1>3. row.intent # "CAPTURED"
    BY <1>0 DEF Consistent
  <1>4. ledger \cup {"expired"} = MovesOf("EXPIRED")
    BY <1>0 DEF MovesOf
  <1> QED BY <1>0, <1>2, <1>3, <1>4 DEF Sound, Consistent, Persists

-----------------------------------------------------------------------------
(* The books: rows and ledger, and the payment events.                     *)

Ledgers == [Orders -> SUBSET {"hold", "expired", "supplier-rejected", "payment-locked"}]

Rows ==
    /\ orders \in [Orders -> Row]
    /\ moves \in Ledgers
    /\ \A o \in Orders : Sound(orders[o], moves[o])

Receipt == {NoEvent} \cup [order : Orders, txn : Transactions, outcome : Outcomes]
Pays(e) == events[e].outcome = "APPLIED"

Receipts ==
    /\ events \in [Events -> Receipt]
    /\ \A e \in Events : Pays(e) => orders[events[e].order].intent = "CAPTURED"
    /\ \A o \in Orders : orders[o].intent = "CAPTURED" => \E e \in Events : Pays(e) /\ events[e].order = o
    /\ \A e, f \in Events :
           /\ Pays(e) /\ Pays(f)
           /\ events[e].order = events[f].order \/ events[e].txn = events[f].txn
           => e = f
    /\ \A e \in Events : events[e].outcome = "LATE_CAPTURE_REVIEW" => Refunds(orders[events[e].order])

Books == Rows /\ Receipts

(* What becomes of an order in a step that does not pay it.                *)
Follows(row, next, ledger) ==
    /\ Sound(next, ledger)
    /\ Persists(row, next)
    /\ next.intent = "CAPTURED" <=> row.intent = "CAPTURED"
Unpaid(o) == Follows(orders[o], orders'[o], moves'[o])

Accounts == orders' \in [Orders -> Row] /\ moves' \in Ledgers

(* The three kinds of steps: one that records no payment, one that records *)
(* why it was not applied, and one that applies it.                        *)
Silent == Accounts /\ events' = events /\ \A o \in Orders : Unpaid(o)

Reviewed(e, o, t, outcome) ==
    /\ events[e] = NoEvent
    /\ Noted(e, o, t, outcome) /\ outcome \in Outcomes \ {"APPLIED"}
    /\ Accounts /\ \A p \in Orders : Unpaid(p)
    /\ outcome = "LATE_CAPTURE_REVIEW" => Refunds(orders'[o])

Paid(e, o, t) ==
    /\ events[e] = NoEvent /\ ~Applied(t)
    /\ Noted(e, o, t, "APPLIED")
    /\ Accounts /\ \A p \in Orders \ {o} : Unpaid(p)
    /\ orders[o].intent # "CAPTURED" /\ orders'[o].intent = "CAPTURED"
    /\ Sound(orders'[o], moves'[o]) /\ Persists(orders[o], orders'[o])

Receives == \E e \in Events, o \in Orders, t \in Transactions :
                Paid(e, o, t) \/ \E outcome \in Outcomes : Reviewed(e, o, t, outcome)

(* Whatever a receipt is, it is on an order and says one of the outcomes.  *)
LEMMA ReceiptNoted ==
    ASSUME NEW book \in [Events -> Receipt], NEW e \in Events, NEW o \in Orders,
           NEW t \in Transactions, NEW outcome \in Outcomes, NEW next,
           next = [book EXCEPT ![e] = [order |-> o, txn |-> t, outcome |-> outcome]]
    PROVE  /\ next \in [Events -> Receipt]
           /\ next[e].order = o /\ next[e].txn = t /\ next[e].outcome = outcome
           /\ \A f \in Events : f # e => next[f] = book[f]
  <1>1. [order |-> o, txn |-> t, outcome |-> outcome] \in Receipt
    BY DEF Receipt
  <1>2. next[e] = [order |-> o, txn |-> t, outcome |-> outcome]
    OBVIOUS
  <1>3. next[e].order = o /\ next[e].txn = t /\ next[e].outcome = outcome
    BY <1>2
  <1>4. next \in [Events -> Receipt] /\ \A f \in Events : f # e => next[f] = book[f]
    BY <1>1
  <1> QED BY <1>3, <1>4

(* Each kind of step keeps the books.                                      *)
LEMMA SilentKeeps == ASSUME Books, Silent, store' = store PROVE Books'
  <1>1. Rows'
    BY DEF Rows, Silent, Accounts, Unpaid, Follows, Books
  <1>2. \A e \in Events : Pays(e)' = Pays(e) /\ events'[e] = events[e]
    BY DEF Silent, Pays
  <1>3. \A e \in Events : events[e].outcome \in {"APPLIED", "LATE_CAPTURE_REVIEW"} => events[e].order \in Orders
    BY DEF Books, Receipts, Receipt, NoEvent
  <1>4. \A o \in Orders : /\ orders'[o].intent = "CAPTURED" <=> orders[o].intent = "CAPTURED"
                          /\ orders[o].status = "EXPIRED" => orders'[o].status = "EXPIRED"
    BY DEF Silent, Unpaid, Follows, Persists
  <1>5. \A e \in Events : events'[e].outcome = "LATE_CAPTURE_REVIEW" => Refunds(orders[events[e].order])'
    BY <1>2, <1>3, <1>4 DEF Books, Receipts, Refunds
  <1>6. Receipts'
    BY <1>2, <1>3, <1>4, <1>5 DEF Books, Receipts, Silent, Pays
  <1> QED BY <1>1, <1>6 DEF Books

(* A payment that is recorded and not applied keeps the books,             *)
LEMMA ReviewKeeps ==
    ASSUME Books, store' = store, NEW e \in Events, NEW o \in Orders, NEW t \in Transactions,
           NEW outcome \in Outcomes, Reviewed(e, o, t, outcome)
    PROVE  Books'
  <1>1. Rows'
    BY DEF Rows, Reviewed, Accounts, Unpaid, Follows, Books
  <1>2. /\ events' \in [Events -> Receipt]
        /\ events'[e].order = o /\ events'[e].outcome = outcome /\ outcome # "APPLIED"
        /\ \A f \in Events : f # e => events'[f] = events[f]
    BY ReceiptNoted DEF Reviewed, Noted, Books, Receipts
  <1>3. events[e].outcome = "NONE"
    BY DEF Reviewed, NoEvent
  <1>4. \A f \in Events : Pays(f)' = Pays(f) /\ (Pays(f) => events'[f] = events[f])
    BY <1>2, <1>3 DEF Pays
  <1>5. \A f \in Events : events[f].outcome \in {"APPLIED", "LATE_CAPTURE_REVIEW"} => events[f].order \in Orders
    BY DEF Books, Receipts, Receipt, NoEvent
  <1>6. \A p \in Orders : /\ orders'[p].intent = "CAPTURED" <=> orders[p].intent = "CAPTURED"
                          /\ orders[p].status = "EXPIRED" => orders'[p].status = "EXPIRED"
    BY DEF Reviewed, Unpaid, Follows, Persists
  <1>7. \A f \in Events : events'[f].outcome = "LATE_CAPTURE_REVIEW" => Refunds(orders[events[f].order])'
    BY <1>2, <1>5, <1>6 DEF Books, Receipts, Reviewed, Refunds
  <1>8. \A f \in Events : Pays(f)' => orders'[events'[f].order].intent = "CAPTURED"
    BY <1>4, <1>5, <1>6 DEF Books, Receipts, Pays
  <1>9. \A p \in Orders : orders'[p].intent = "CAPTURED" => \E f \in Events : Pays(f)' /\ events'[f].order = p
    BY <1>4, <1>6 DEF Books, Receipts
  <1>10. \A f, g \in Events :
           /\ Pays(f)' /\ Pays(g)'
           /\ events'[f].order = events'[g].order \/ events'[f].txn = events'[g].txn
           => f = g
    BY <1>4 DEF Books, Receipts
  <1> QED BY <1>1, <1>2, <1>7, <1>8, <1>9, <1>10 DEF Books, Receipts

(* and so does the one that is applied, which finds no other on its order  *)
(* and none of its transaction.                                            *)
LEMMA PaymentKeeps ==
    ASSUME Books, store' = store, NEW e \in Events, NEW o \in Orders, NEW t \in Transactions,
           Paid(e, o, t)
    PROVE  Books'
  <1>1. Rows'
    <2>1. \A p \in Orders : Sound(orders'[p], moves'[p])
      BY DEF Paid, Unpaid, Follows
    <2> QED BY <2>1 DEF Rows, Paid, Accounts
  <1>2. /\ events' \in [Events -> Receipt]
        /\ events'[e].order = o /\ events'[e].outcome = "APPLIED" /\ events'[e].txn = t
        /\ \A f \in Events : f # e => events'[f] = events[f]
    <2>1. "APPLIED" \in Outcomes
      BY DEF Outcomes
    <2> QED BY <2>1, ReceiptNoted DEF Paid, Noted, Books, Receipts
  <1>3. \A f \in Events : f # e => Pays(f)' = Pays(f)
    BY <1>2 DEF Pays
  <1>4. Pays(e)' /\ ~Pays(e)
    BY <1>2 DEF Pays, Paid, NoEvent
  <1>5. \A f \in Events : events[f].outcome \in {"APPLIED", "LATE_CAPTURE_REVIEW"} => events[f].order \in Orders
    BY DEF Books, Receipts, Receipt, NoEvent
  <1>6. \A p \in Orders \ {o} : /\ orders'[p].intent = "CAPTURED" <=> orders[p].intent = "CAPTURED"
                                /\ orders[p].status = "EXPIRED" => orders'[p].status = "EXPIRED"
    BY DEF Paid, Unpaid, Follows, Persists
  <1>7. /\ orders'[o].intent = "CAPTURED" /\ orders[o].intent # "CAPTURED"
        /\ orders[o].status = "EXPIRED" => orders'[o].status = "EXPIRED"
    BY DEF Paid, Persists
  <1>8. \A f \in Events : Pays(f) => events[f].order # o /\ events[f].txn # t
    BY <1>7 DEF Books, Receipts, Paid, Applied, Pays
  <1>9. \A f \in Events : events'[f].outcome = "LATE_CAPTURE_REVIEW" => Refunds(orders[events[f].order])'
    BY <1>2, <1>5, <1>6, <1>7 DEF Books, Receipts, Refunds
  <1>10. \A f \in Events : Pays(f)' => orders'[events'[f].order].intent = "CAPTURED"
    BY <1>2, <1>3, <1>5, <1>6, <1>7, <1>8 DEF Books, Receipts, Pays
  <1>11. \A p \in Orders : orders'[p].intent = "CAPTURED" => \E f \in Events : Pays(f)' /\ events'[f].order = p
    BY <1>2, <1>3, <1>4, <1>6 DEF Books, Receipts
  <1>12. \A f, g \in Events :
           /\ Pays(f)' /\ Pays(g)'
           /\ events'[f].order = events'[g].order \/ events'[f].txn = events'[g].txn
           => f = g
    BY <1>2, <1>3, <1>8 DEF Books, Receipts
  <1> QED BY <1>1, <1>2, <1>9, <1>10, <1>11, <1>12 DEF Books, Receipts

-----------------------------------------------------------------------------
(* The changes of rows in the steps.                                       *)

(* A step changes one order, or it expires those that are stale.           *)
LEMMA OneFollows ==
    ASSUME Rows, NEW o \in Orders, NEW row, NEW ledger, Follows(orders[o], row, ledger),
           orders' = [orders EXCEPT ![o] = row], moves' \in Ledgers, moves'[o] = ledger,
           \A p \in Orders \ {o} : moves'[p] = moves[p]
    PROVE  Accounts /\ \A p \in Orders : Unpaid(p)
  <1>1. row \in Row
    BY DEF Follows, Sound
  <1>2. Accounts /\ orders'[o] = row /\ \A p \in Orders \ {o} : orders'[p] = orders[p]
    BY <1>1 DEF Rows, Accounts
  <1>3. \A p \in Orders \ {o} : Unpaid(p)
    BY <1>2 DEF Rows, Unpaid, Follows, Persists
  <1> QED BY <1>2, <1>3 DEF Unpaid

(* A step that changes no row leaves every order unpaid.                   *)
LEMMA NoneFollows ==
    ASSUME Rows, orders' = orders, moves' = moves PROVE Accounts /\ \A p \in Orders : Unpaid(p)
  BY DEF Rows, Accounts, Unpaid, Follows, Persists

(* Whoever expires reservations expires only those that are stale, however *)
(* old the clock it read.                                                  *)
LEMMA SweepFollows ==
    ASSUME Rows, NEW at, NEW S, S \subseteq Stale(at)
    PROVE  /\ ExpireRows(S) \in [Orders -> Row] /\ ExpireMoves(S) \in Ledgers
           /\ \A o \in Orders : Follows(orders[o], ExpireRows(S)[o], ExpireMoves(S)[o])
           /\ \A o \in S : o \in Orders /\ ExpireRows(S)[o].status = "EXPIRED"
  <1>1. \A o \in Orders : Sound(orders[o], moves[o])
    BY DEF Rows
  <1>2. \A o \in S : o \in Orders /\ orders[o].resv \in {"HELD", "SUPPLIER_CONFIRMED"}
    BY DEF Stale
  <1>3. ASSUME NEW o \in S
        PROVE  /\ Follows(orders[o], Expired(orders[o]), moves[o] \cup {"expired"})
               /\ Expired(orders[o]).status = "EXPIRED"
    <2>1. orders[o].intent # "CAPTURED"
      BY <1>1, <1>2 DEF Sound, Consistent
    <2> QED BY <1>1, <1>2, <2>1, ExpiredIsSound DEF Follows
  <1>4. \A o \in Orders : Follows(orders[o], orders[o], moves[o])
    BY <1>1 DEF Follows, Persists
  <1>5. \A o \in Orders : /\ o \in S => /\ ExpireRows(S)[o] = Expired(orders[o])
                                        /\ ExpireMoves(S)[o] = moves[o] \cup {"expired"}
                          /\ o \notin S => /\ ExpireRows(S)[o] = orders[o]
                                           /\ ExpireMoves(S)[o] = moves[o]
    BY DEF ExpireRows, ExpireMoves
  <1>6. \A o \in Orders : Follows(orders[o], ExpireRows(S)[o], ExpireMoves(S)[o])
    BY <1>3, <1>4, <1>5
  <1>7. ExpireRows(S) \in [Orders -> Row] /\ ExpireMoves(S) \in Ledgers
    <2>1. \A o \in Orders : ExpireRows(S)[o] \in Row
      BY <1>6 DEF Follows, Sound
    <2> QED BY <2>1 DEF ExpireRows, ExpireMoves, Rows, Ledgers
  <1> QED BY <1>2, <1>3, <1>5, <1>6, <1>7

(* A hold never outlasts the start of the service.                         *)
LEMMA HoldsAreTimely ==
    ASSUME now \in Nat
    PROVE  /\ \A w \in Windows : HoldUntil(w) \in Nat /\ HoldUntil(w) <= w.start
           /\ Rows => \A o \in Orders : /\ PaymentHold(o) \in Nat
                                        /\ PaymentHold(o) <= orders[o].win.start
  <1>1. ASSUME NEW w \in Windows PROVE HoldUntil(w) \in Nat /\ HoldUntil(w) <= w.start
    <2>1. w.start \in Nat /\ now + HoldTtl \in Nat /\ ValidUntil \in Nat
      BY WindowTypes, ExchangeAssumption
    <2> QED BY <2>1 DEF HoldUntil, MinOf
  <1>2. ASSUME Rows, NEW o \in Orders
        PROVE  PaymentHold(o) \in Nat /\ PaymentHold(o) <= orders[o].win.start
    <2>1. orders[o].win.start \in Nat
      BY <1>2, WindowTypes DEF Rows, Row
    <2>2. now + HoldTtl \in Nat
      BY ExchangeAssumption
    <2> QED BY <2>1, <2>2 DEF PaymentHold, MinOf
  <1> QED BY <1>1, <1>2

-----------------------------------------------------------------------------
(* The SQLite store.                                                       *)

(* A checkout expires what is stale and places one order.                  *)
LEMMA SqliteCheckoutIsSilent ==
    ASSUME Books, now \in Nat, NEW o \in Orders, NEW w \in Windows, SqliteCheckout(o, w)
    PROVE  Silent
  <1> DEFINE S == Stale(now)
             row == Placed(w, HoldUntil(w), "NONE")
  <1>1. Follows(orders[o], row, {"hold"})
    <2>1. orders[o] = Absent /\ Absent.intent = "NONE"
      BY DEF SqliteCheckout, Absent
    <2>2. HoldUntil(w) \in Nat /\ HoldUntil(w) <= w.start
      BY HoldsAreTimely
    <2> QED BY <2>1, <2>2, PlacedIsSound DEF Follows
  <1>2. /\ ExpireRows(S) \in [Orders -> Row] /\ ExpireMoves(S) \in Ledgers
        /\ \A p \in Orders : Follows(orders[p], ExpireRows(S)[p], ExpireMoves(S)[p])
    BY SweepFollows DEF Books
  <1>3. /\ orders' = [ExpireRows(S) EXCEPT ![o] = row] /\ events' = events
        /\ moves' = [ExpireMoves(S) EXCEPT ![o] = {"hold"}]
    BY DEF SqliteCheckout
  <1>4. row \in Row
    BY <1>1 DEF Follows, Sound
  <1> HIDE DEF S, row
  <1>5. Accounts /\ orders'[o] = row /\ moves'[o] = {"hold"}
        /\ \A p \in Orders \ {o} : orders'[p] = ExpireRows(S)[p] /\ moves'[p] = ExpireMoves(S)[p]
    BY <1>2, <1>3, <1>4 DEF Accounts, Ledgers
  <1> QED BY <1>1, <1>2, <1>3, <1>5 DEF Silent, Unpaid

(* An answer of the supplier moves one order and pays none.                *)
LEMMA SqliteConfirmIsSilent ==
    ASSUME Books, now \in Nat, NEW o \in Orders, NEW yes \in BOOLEAN, SqliteConfirm(o, yes)
    PROVE  Silent
  <1>1. /\ Rows /\ Sound(orders[o], moves[o]) /\ moves \in Ledgers /\ events' = events
        /\ orders[o].resv = "HELD" /\ orders[o].intent # "CAPTURED"
    BY DEF Books, Rows, Sound, Consistent, SqliteConfirm
  <1>2. CASE yes
    <2>1. Follows(orders[o], Confirmed(orders[o], PaymentHold(o)), moves[o])
      BY <1>1, HoldsAreTimely, ConfirmedIsSound DEF Follows
    <2>2. orders' = [orders EXCEPT ![o] = Confirmed(orders[o], PaymentHold(o))] /\ moves' = moves
      BY <1>2 DEF SqliteConfirm
    <2> QED BY <1>1, <2>1, <2>2, OneFollows DEF Silent
  <1>3. CASE ~yes
    <2>1. Follows(orders[o], Rejected(orders[o]), moves[o] \cup {"supplier-rejected"})
      BY <1>1, RejectedIsSound DEF Follows
    <2>2. /\ orders' = [orders EXCEPT ![o] = Rejected(orders[o])]
          /\ moves' = [moves EXCEPT ![o] = moves[o] \cup {"supplier-rejected"}]
      BY <1>3 DEF SqliteConfirm, Moved
    <2>3. moves' \in Ledgers /\ moves'[o] = moves[o] \cup {"supplier-rejected"}
          /\ \A p \in Orders \ {o} : moves'[p] = moves[p]
      BY <1>1, <2>2 DEF Ledgers
    <2> QED BY <1>1, <2>1, <2>2, <2>3, OneFollows DEF Silent
  <1> QED BY <1>2, <1>3

(* A payment that is applied: shared by both stores.                       *)
LEMMA CaptureIsPaid ==
    ASSUME Books, NEW e \in Events, NEW o \in Orders, NEW t \in Transactions, NEW at,
           events[e] = NoEvent, ~Applied(t), Payable(o, at),
           orders' = [orders EXCEPT ![o] = Captured(orders[o])], Moved(o, "payment-locked"),
           Noted(e, o, t, "APPLIED")
    PROVE  Paid(e, o, t)
  <1>1. /\ Sound(orders[o], moves[o]) /\ moves \in Ledgers /\ orders \in [Orders -> Row]
        /\ \A p \in Orders : Sound(orders[p], moves[p])
    BY DEF Books, Rows
  <1>2. orders[o].status = "AWAITING_PAYMENT" /\ orders[o].resv = "SUPPLIER_CONFIRMED"
        /\ orders[o].intent = "PENDING"
    BY DEF Payable, Standing
  <1>3. /\ Sound(Captured(orders[o]), moves[o] \cup {"payment-locked"})
        /\ Captured(orders[o]).intent = "CAPTURED" /\ Persists(orders[o], Captured(orders[o]))
    BY <1>1, <1>2, CapturedIsSound
  <1>4. Captured(orders[o]) \in Row
    BY <1>3 DEF Sound
  <1>5. /\ orders' \in [Orders -> Row] /\ orders'[o] = Captured(orders[o])
        /\ \A p \in Orders \ {o} : orders'[p] = orders[p]
    BY <1>1, <1>4
  <1>6. /\ moves' \in Ledgers /\ moves'[o] = moves[o] \cup {"payment-locked"}
        /\ \A p \in Orders \ {o} : moves'[p] = moves[p]
    BY <1>1 DEF Moved, Ledgers
  <1>7. \A p \in Orders \ {o} : Unpaid(p)
    BY <1>1, <1>5, <1>6 DEF Unpaid, Follows, Persists
  <1> QED BY <1>2, <1>3, <1>5, <1>6, <1>7 DEF Paid, Accounts

(* A payment event leaves one receipt: applied, late, repeated or to be    *)
(* reviewed.                                                               *)
LEMMA SqlitePaymentReceives ==
    ASSUME Books, now \in Nat, NEW e \in Events, NEW o \in Orders, NEW t \in Transactions,
           NEW matches \in BOOLEAN, SqlitePayment(e, o, t, matches)
    PROVE  Receives
  <1>0. Rows /\ events[e] = NoEvent /\ orders[o].intent # "NONE"
    BY DEF Books, SqlitePayment
  <1>1. ASSUME NEW outcome \in {"REVIEW_REQUIRED", "IGNORED_DUPLICATE_TRANSACTION"},
               Noted(e, o, t, outcome), orders' = orders, moves' = moves
        PROVE  Receives
    <2>1. Reviewed(e, o, t, outcome)
      BY <1>0, <1>1, NoneFollows DEF Reviewed, Outcomes
    <2>2. outcome \in Outcomes
      BY DEF Outcomes
    <2> QED BY <2>1, <2>2 DEF Receives
  <1>2. ASSUME orders[o].intent # "CAPTURED", ~Payable(o, now), Noted(e, o, t, "LATE_CAPTURE_REVIEW"),
               NEW stale, stale = IF o \in Stale(now) THEN Stale(now) ELSE {},
               orders' = ExpireRows(stale), moves' = ExpireMoves(stale)
        PROVE  Receives
    <2>1. stale \subseteq Stale(now)
      BY <1>2
    <2>2. Accounts /\ \A p \in Orders : Unpaid(p)
      BY <1>0, <1>2, <2>1, SweepFollows DEF Accounts, Unpaid
    <2>3. orders'[o].status = "EXPIRED"
      <3>1. CASE o \in Stale(now)
        BY <1>0, <1>2, <2>1, <3>1, SweepFollows
      <3>2. CASE o \notin Stale(now)
        <4>1. Sound(orders[o], moves[o]) /\ orders[o].hold \in Nat
          BY <1>0 DEF Rows, Row
        <4>2. orders[o].status = "EXPIRED"
          BY <1>0, <1>2, <3>2, <4>1 DEF Sound, Consistent, Stale, Payable, Standing
        <4> QED BY <2>2, <4>2 DEF Unpaid, Follows, Persists
      <3> QED BY <3>1, <3>2
    <2>4. Reviewed(e, o, t, "LATE_CAPTURE_REVIEW")
      BY <1>0, <1>2, <2>2, <2>3 DEF Reviewed, Outcomes, Refunds
    <2>5. "LATE_CAPTURE_REVIEW" \in Outcomes
      BY DEF Outcomes
    <2> QED BY <2>4, <2>5 DEF Receives
  <1>3. ASSUME ~Applied(t), Payable(o, now), orders' = [orders EXCEPT ![o] = Captured(orders[o])],
               Moved(o, "payment-locked"), Noted(e, o, t, "APPLIED")
        PROVE  Receives
    BY <1>0, <1>3, CaptureIsPaid DEF Receives
  <1> QED BY <1>1, <1>2, <1>3 DEF SqlitePayment

-----------------------------------------------------------------------------
(* The D1 store: what a handler carries.                                   *)

Checkouts == [step : {"sweep", "draw", "place"}, op : {"checkout"}, order : Orders, win : Windows,
              at : Nat, stale : SUBSET Orders, hold : Nat]
Surveys   == [step : {"sweep"}, op : {"quote", "confirm"}, at : Nat, stale : SUBSET Orders]
Answers   == [step : {"confirm"}, op : {"confirm"}, order : Orders, accept : BOOLEAN, at : Nat,
              hold : Nat]
PaymentSteps == {"intent", "order", "source", "capture", "refused", "recheck", "restate"}
Payments  == [step : {"sweep", "record"} \cup PaymentSteps, op : {"payment"},
              event : Events, order : Orders, txn : Transactions, at : Nat,
              intent : {"NONE", "PENDING", "CAPTURED"}, stale : SUBSET Orders, outcome : Outcomes]

(* A checkout carries a hold that ends before the service; an answer too,  *)
(* to an order that exists; a payment is about an order with an intent,    *)
(* and what it is about to record as late has expired, is about to, or is  *)
(* paid.                                                                   *)
Handles(x, rows) ==
    \/ x = Idle
    \/ x \in Checkouts /\ x.hold <= x.win.start
    \/ x \in Surveys
    \/ /\ x \in Answers
       /\ rows[x.order].resv # "NONE" /\ x.hold <= rows[x.order].win.start
    \/ /\ x \in Payments
       /\ rows[x.order].intent # "NONE"
       /\ x.step = "sweep" => /\ x.outcome = "LATE_CAPTURE_REVIEW"
                              /\ x.order \in x.stale \/ Closed(rows[x.order])
       /\ x.step = "record" => /\ x.outcome # "APPLIED"
                               /\ x.outcome = "LATE_CAPTURE_REVIEW" => Closed(rows[x.order])

Handlers ==
    /\ DOMAIN req = Requests
    /\ \A r \in Requests : Handles(req[r], orders) /\ (req[r] = Idle \/ req[r].at <= now)

(* The step a handler is at tells what it carries.                         *)
LEMMA HandlerAt ==
    ASSUME NEW x, NEW rows, Handles(x, rows)
    PROVE  /\ x.step \in {"draw", "place"} => x \in Checkouts /\ x.hold <= x.win.start
           /\ x.step = "confirm" => /\ x \in Answers /\ rows[x.order].resv # "NONE"
                                    /\ x.hold <= rows[x.order].win.start
           /\ x.step \in {"record"} \cup PaymentSteps =>
                /\ x \in Payments /\ rows[x.order].intent # "NONE"
                /\ x.step = "record" => /\ x.outcome # "APPLIED"
                                        /\ x.outcome = "LATE_CAPTURE_REVIEW" => Closed(rows[x.order])
           /\ x.step = "sweep" =>
                \/ x \in Checkouts /\ x.hold <= x.win.start
                \/ x \in Surveys
                \/ /\ x \in Payments /\ x.outcome = "LATE_CAPTURE_REVIEW" /\ rows[x.order].intent # "NONE"
                   /\ x.order \in x.stale \/ Closed(rows[x.order])
  <1>1. CASE x = Idle
    <2>1. x.step = "idle"
      BY <1>1 DEF Idle
    <2> QED BY <2>1 DEF PaymentSteps
  <1>2. CASE x \in Checkouts /\ x.hold <= x.win.start
    <2>1. x.step \in {"sweep", "draw", "place"}
      BY <1>2 DEF Checkouts
    <2> QED BY <1>2, <2>1 DEF PaymentSteps
  <1>3. CASE x \in Surveys
    <2>1. x.step = "sweep"
      BY <1>3 DEF Surveys
    <2> QED BY <1>3, <2>1 DEF PaymentSteps
  <1>4. CASE x \in Answers /\ rows[x.order].resv # "NONE" /\ x.hold <= rows[x.order].win.start
    <2>1. x.step = "confirm"
      BY <1>4 DEF Answers
    <2> QED BY <1>4, <2>1 DEF PaymentSteps
  <1>5. CASE x \in Payments
    <2>1. x.step \in {"sweep", "record"} \cup PaymentSteps /\ x.op = "payment"
      BY <1>5 DEF Payments
    <2>2. x # Idle /\ x \notin Checkouts /\ x \notin Surveys /\ x \notin Answers
      <3>1. x \in Checkouts => x.op = "checkout"
        BY DEF Checkouts
      <3>2. x \in Surveys => x.op \in {"quote", "confirm"}
        BY DEF Surveys
      <3>3. x \in Answers => x.op = "confirm"
        BY DEF Answers
      <3>4. Idle.step = "idle"
        BY DEF Idle
      <3> QED BY <2>1, <3>1, <3>2, <3>3, <3>4 DEF PaymentSteps
    <2>3. x.step \notin {"draw", "place", "confirm", "sweep"} \/ x.step = "sweep"
      BY <2>1 DEF PaymentSteps
    <2>4. "sweep" \notin {"record"} \cup PaymentSteps
      BY DEF PaymentSteps
    <2> QED BY <1>5, <2>1, <2>2, <2>3, <2>4 DEF Handles
  <1> QED BY <1>1, <1>2, <1>3, <1>4, <1>5 DEF Handles

(* Handlers are not invalidated by what becomes of the orders meanwhile.   *)
LEMMA HandlersStay ==
    ASSUME NEW x, NEW rows, NEW next, Handles(x, rows),
           \A o \in Orders : Persists(rows[o], next[o])
    PROVE  Handles(x, next)
  <1>1. x \in Answers \cup Payments => x.order \in Orders
    BY DEF Answers, Payments
  <1>2. ASSUME x \in Answers, rows[x.order].resv # "NONE", x.hold <= rows[x.order].win.start
        PROVE  Handles(x, next)
    BY <1>1, <1>2 DEF Persists, Handles
  <1>3. ASSUME x \in Payments, rows[x.order].intent # "NONE",
               x.step = "sweep" => /\ x.outcome = "LATE_CAPTURE_REVIEW"
                                   /\ x.order \in x.stale \/ Closed(rows[x.order]),
               x.step = "record" => /\ x.outcome # "APPLIED"
                                    /\ x.outcome = "LATE_CAPTURE_REVIEW" => Closed(rows[x.order])
        PROVE  Handles(x, next)
    BY <1>1, <1>3 DEF Persists, Handles, Closed
  <1> QED BY <1>2, <1>3 DEF Handles

(* Whoever moves on, the others stay where they are.                       *)
LEMMA HandlersMove ==
    ASSUME Handlers, now \in Nat, now' \in Nat, now <= now', NEW r \in Requests, NEW x,
           req' = [req EXCEPT ![r] = x], Handles(x, orders'), x = Idle \/ x.at <= now',
           \A o \in Orders : Persists(orders[o], orders'[o])
    PROVE  Handlers'
  <1>1. DOMAIN req' = Requests /\ req'[r] = x /\ \A s \in Requests \ {r} : req'[s] = req[s]
    BY DEF Handlers
  <1>2. ASSUME NEW s \in Requests \ {r} PROVE Handles(req[s], orders')
    BY HandlersStay DEF Handlers
  <1>3. ASSUME NEW s \in Requests PROVE req[s] = Idle \/ (req[s].at <= now /\ req[s].at \in Nat)
    BY DEF Handlers, Handles, Checkouts, Surveys, Answers, Payments
  <1>4. \A s \in Requests : Handles(req'[s], orders') /\ (req'[s] = Idle \/ req'[s].at <= now')
    BY <1>1, <1>2, <1>3
  <1> QED BY <1>1, <1>4 DEF Handlers

(* Nobody moves on, while orders change or time passes.                    *)
LEMMA HandlersRest ==
    ASSUME Handlers, now \in Nat, now' \in Nat, now <= now', req' = req,
           \A o \in Orders : Persists(orders[o], orders'[o])
    PROVE  Handlers'
  <1>2. ASSUME NEW s \in Requests PROVE Handles(req[s], orders')
    BY HandlersStay DEF Handlers
  <1>3. ASSUME NEW s \in Requests PROVE req[s] = Idle \/ (req[s].at <= now /\ req[s].at \in Nat)
    BY DEF Handlers, Handles, Checkouts, Surveys, Answers, Payments
  <1> QED BY <1>2, <1>3 DEF Handlers

-----------------------------------------------------------------------------
(* The D1 store: the reads.                                                *)

(* What every kind of step leaves of the orders.                           *)
LEMMA OrdersPersist ==
    /\ Silent => \A o \in Orders : Persists(orders[o], orders'[o])
    /\ Receives => \A o \in Orders : Persists(orders[o], orders'[o])
  BY DEF Silent, Receives, Reviewed, Paid, Unpaid, Follows

(* A handler that reads, or goes on without writing, changes no order.     *)
LEMMA ReadingIsSilent ==
    ASSUME Books, Handlers, now \in Nat, NEW r \in Requests, NEW x,
           UNCHANGED <<now, orders, moves, events>>, req' = [req EXCEPT ![r] = x],
           Handles(x, orders), x = Idle \/ x.at <= now
    PROVE  Silent /\ Handlers'
  <1>1. Silent
    BY NoneFollows DEF Books, Silent
  <1>2. \A o \in Orders : Persists(orders[o], orders'[o])
    BY <1>1, OrdersPersist
  <1>3. now' = now /\ orders' = orders /\ now <= now'
    OBVIOUS
  <1>4. Handlers'
    BY <1>2, <1>3, HandlersMove
  <1> QED BY <1>1, <1>4

(* What createCheckout, the quote and the confirmation read is what a      *)
(* handler may carry.                                                      *)
LEMMA ReadsAreSilent ==
    ASSUME Books, Handlers, now \in Nat, NEW r \in Requests,
           \/ \E o \in Orders, w \in Windows : D1ReadOffer(r, o, w)
           \/ D1ReadInventory(r)
           \/ \E o \in Orders, yes \in BOOLEAN : D1ReadConfirm(r, o, yes)
    PROVE  Silent /\ Handlers'
  <1>s. Stale(now) \in SUBSET Orders
    BY DEF Stale
  <1>1. ASSUME NEW o \in Orders, NEW w \in Windows, D1ReadOffer(r, o, w) PROVE Silent /\ Handlers'
    <2> DEFINE x == [step |-> "sweep", op |-> "checkout", order |-> o, win |-> w, at |-> now,
                     stale |-> Stale(now), hold |-> 0]
    <2>1. x \in Checkouts /\ x.hold = 0 /\ x.win = w /\ x.at = now
      BY <1>s DEF Checkouts
    <2>2. w.start \in Nat
      BY WindowTypes
    <2>3. Handles(x, orders) /\ x.at <= now
      BY <2>1, <2>2 DEF Handles
    <2>4. req' = [req EXCEPT ![r] = x] /\ UNCHANGED <<now, orders, moves, events>>
      BY <1>1 DEF D1ReadOffer, Asks
    <2> HIDE DEF x
    <2> QED BY <2>3, <2>4, ReadingIsSilent
  <1>2. ASSUME D1ReadInventory(r) PROVE Silent /\ Handlers'
    <2> DEFINE x == [step |-> "sweep", op |-> "quote", at |-> now, stale |-> Stale(now)]
    <2>1. x \in Surveys /\ x.at = now
      BY <1>s DEF Surveys
    <2>2. Handles(x, orders) /\ x.at <= now
      BY <2>1 DEF Handles
    <2>3. req' = [req EXCEPT ![r] = x] /\ UNCHANGED <<now, orders, moves, events>>
      BY <1>2 DEF D1ReadInventory, Asks
    <2> HIDE DEF x
    <2> QED BY <2>2, <2>3, ReadingIsSilent
  <1>3. ASSUME NEW o \in Orders, NEW yes \in BOOLEAN, D1ReadConfirm(r, o, yes)
        PROVE  Silent /\ Handlers'
    <2>u. UNCHANGED <<now, orders, moves, events>>
      BY <1>3 DEF D1ReadConfirm, Asks
    <2>1. CASE orders[o].hold <= now
      <3> DEFINE x == [step |-> "sweep", op |-> "confirm", at |-> now, stale |-> {o}]
      <3>1. x \in Surveys /\ x.at = now
        BY DEF Surveys
      <3>2. Handles(x, orders) /\ x.at <= now
        BY <3>1 DEF Handles
      <3>3. req' = [req EXCEPT ![r] = x]
        BY <1>3, <2>1 DEF D1ReadConfirm, Asks
      <3> HIDE DEF x
      <3> QED BY <2>u, <3>2, <3>3, ReadingIsSilent
    <2>2. CASE ~(orders[o].hold <= now)
      <3> DEFINE x == [step |-> "confirm", op |-> "confirm", order |-> o, accept |-> yes,
                       at |-> now, hold |-> PaymentHold(o)]
      <3>1. PaymentHold(o) \in Nat /\ PaymentHold(o) <= orders[o].win.start
        BY HoldsAreTimely DEF Books
      <3>2. x \in Answers /\ x.at = now /\ x.order = o /\ x.hold = PaymentHold(o)
        BY <3>1 DEF Answers
      <3>3. orders[o].resv # "NONE"
        BY <1>3 DEF D1ReadConfirm
      <3>4. Handles(x, orders) /\ x.at <= now
        BY <3>1, <3>2, <3>3 DEF Handles
      <3>5. req' = [req EXCEPT ![r] = x]
        BY <1>3, <2>2 DEF D1ReadConfirm, Asks
      <3> HIDE DEF x
      <3> QED BY <2>u, <3>4, <3>5, ReadingIsSilent
    <2> QED BY <2>1, <2>2
  <1> QED BY <1>1, <1>2, <1>3

(* The handler of a payment starts with an order that has an intent.       *)
LEMMA ReadEventIsSilent ==
    ASSUME Books, Handlers, now \in Nat, NEW r \in Requests, NEW e \in Events, NEW o \in Orders,
           NEW t \in Transactions, NEW matches \in BOOLEAN, D1ReadEvent(r, e, o, t, matches)
    PROVE  Silent /\ Handlers'
  <1> DEFINE x == [step |-> IF matches THEN "intent" ELSE "record", op |-> "payment",
                   event |-> e, order |-> o, txn |-> t, at |-> now, intent |-> "NONE",
                   stale |-> {}, outcome |-> IF matches THEN "APPLIED" ELSE "REVIEW_REQUIRED"]
  <1>1. /\ x \in Payments /\ x.at = now /\ x.order = o /\ x.step # "sweep"
        /\ x.step = "record" => x.outcome = "REVIEW_REQUIRED"
    BY DEF Payments, PaymentSteps, Outcomes
  <1>2. /\ req' = [req EXCEPT ![r] = x] /\ UNCHANGED <<now, orders, moves, events>>
        /\ orders[o].intent # "NONE"
    BY DEF D1ReadEvent, Asks
  <1> HIDE DEF x
  <1>3. Handles(x, orders) /\ x.at <= now
    BY <1>1, <1>2 DEF Handles
  <1> QED BY <1>2, <1>3, ReadingIsSilent

(* Between its reads and its batch a handler keeps what it carries in step *)
(* with the clock.                                                         *)
LEMMA StepsAreSilent ==
    ASSUME Books, Handlers, now \in Nat, NEW r \in Requests,
           D1ReadIntent(r) \/ D1ReadSource(r) \/ D1DrawUp(r)
    PROVE  Silent /\ Handlers'
  <1>f. /\ Handles(req[r], orders) /\ UNCHANGED <<now, orders, moves, events>>
        /\ (req[r] = Idle \/ req[r].at <= now)
    BY DEF Handlers, D1ReadIntent, D1ReadSource, D1DrawUp
  <1>i. Handles(Idle, orders)
    BY DEF Handles
  <1>1. ASSUME D1ReadSource(r) PROVE Silent /\ Handlers'
    <2>1. req[r] \in Payments /\ orders[req[r].order].intent # "NONE"
      BY <1>1, <1>f, HandlerAt DEF D1ReadSource, At, PaymentSteps
    <2> DEFINE x == [req[r] EXCEPT !.step = "capture", !.at = now]
    <2>2. x \in Payments /\ x.step = "capture" /\ x.at = now /\ x.order = req[r].order
      BY <2>1 DEF Payments, PaymentSteps
    <2>3. req' = [req EXCEPT ![r] = x]
      BY <1>1 DEF D1ReadSource
    <2> HIDE DEF x
    <2>4. Handles(x, orders) /\ x.at <= now
      BY <2>1, <2>2 DEF Handles
    <2> QED BY <1>f, <2>3, <2>4, ReadingIsSilent
  <1>2. ASSUME D1DrawUp(r) PROVE Silent /\ Handlers'
    <2>1. req[r] \in Checkouts /\ req[r].step = "draw"
      BY <1>2, <1>f, HandlerAt DEF D1DrawUp, At
    <2>2. CASE HoldUntil(req[r].win) > now
      <3> DEFINE x == [req[r] EXCEPT !.step = "place", !.hold = HoldUntil(req[r].win)]
      <3>1. req[r].win \in Windows /\ req[r].at \in Nat
        BY <2>1 DEF Checkouts
      <3>2. HoldUntil(req[r].win) \in Nat /\ HoldUntil(req[r].win) <= req[r].win.start
        BY <3>1, HoldsAreTimely
      <3>3. /\ x \in Checkouts /\ x.hold = HoldUntil(req[r].win) /\ x.win = req[r].win
            /\ x.at = req[r].at
        BY <2>1, <3>2 DEF Checkouts
      <3>4. req' = [req EXCEPT ![r] = x]
        BY <1>2, <2>2 DEF D1DrawUp
      <3>5. req[r].at <= now
        BY <1>f, <2>1 DEF Checkouts, Idle
      <3> HIDE DEF x
      <3>6. Handles(x, orders) /\ x.at <= now
        BY <3>2, <3>3, <3>5 DEF Handles
      <3> QED BY <1>f, <3>4, <3>6, ReadingIsSilent
    <2>3. CASE ~(HoldUntil(req[r].win) > now)
      <3>1. req' = [req EXCEPT ![r] = Idle]
        BY <1>2, <2>3 DEF D1DrawUp, Finish
      <3> QED BY <1>f, <1>i, <3>1, ReadingIsSilent
    <2> QED BY <2>2, <2>3
  <1>3. ASSUME D1ReadIntent(r) PROVE Silent /\ Handlers'
    <2>1. req[r] \in Payments /\ orders[req[r].order].intent # "NONE"
      BY <1>3, <1>f, HandlerAt DEF D1ReadIntent, At, PaymentSteps
    <2>2. orders[req[r].order].intent \in {"NONE", "PENDING", "CAPTURED"}
      BY <2>1 DEF Payments, Books, Rows, Row
    <2> DEFINE x == [req[r] EXCEPT !.step = "order", !.at = now, !.intent = orders[req[r].order].intent]
    <2>3. x \in Payments /\ x.step = "order" /\ x.at = now /\ x.order = req[r].order
      BY <2>1, <2>2 DEF Payments, PaymentSteps
    <2>4. req' = [req EXCEPT ![r] = x]
      BY <1>3 DEF D1ReadIntent
    <2> HIDE DEF x
    <2>5. Handles(x, orders) /\ x.at <= now
      BY <2>1, <2>3 DEF Handles
    <2> QED BY <1>f, <2>4, <2>5, ReadingIsSilent
  <1> QED BY <1>1, <1>2, <1>3

(* An order with an intent that cannot be paid at a time is stale then, or *)
(* it is closed.                                                           *)
LEMMA LateIsClosed ==
    ASSUME Rows, NEW o \in Orders, orders[o].intent # "NONE"
    PROVE  /\ \A at \in Nat : ~Standing(o, at) => o \in Stale(at) \/ Closed(orders[o])
           /\ orders[o].status # "AWAITING_PAYMENT" \/ orders[o].resv # "SUPPLIER_CONFIRMED"
              => Closed(orders[o])
  <1>1. Sound(orders[o], moves[o]) /\ orders[o].hold \in Nat
    BY DEF Rows, Row
  <1> QED BY <1>1 DEF Sound, Consistent, Standing, Stale, Closed

(* What the handler of a payment decides to record as late is of an order  *)
(* that is closed, or that it is about to expire.                          *)
LEMMA DecisionsAreSilent ==
    ASSUME Books, Handlers, now \in Nat, NEW r \in Requests,
           D1ReadOrder(r) \/ D1ExplainRefusal(r) \/ D1RereadIntent(r) \/ D1RereadOrder(r)
    PROVE  Silent /\ Handlers'
  <1>f. /\ Handles(req[r], orders) /\ UNCHANGED <<now, orders, moves, events>>
        /\ req[r] = Idle \/ req[r].at <= now
        /\ req[r].step \in {"order", "refused", "recheck", "restate"}
    BY DEF Handlers, D1ReadOrder, D1ExplainRefusal, D1RereadIntent, D1RereadOrder, At
  <1>1. req[r] \in Payments /\ orders[req[r].order].intent # "NONE"
    BY <1>f, HandlerAt DEF PaymentSteps
  <1>2. req[r].order \in Orders /\ req[r].at \in Nat /\ req[r].at <= now
    BY <1>1, <1>f DEF Payments, Idle
  <1>3. ASSUME NEW step \in {"record", "source", "sweep", "recheck", "restate"},
               NEW outcome \in Outcomes, NEW stale \in SUBSET Orders,
               req' = [req EXCEPT ![r].step = step, ![r].outcome = outcome, ![r].stale = stale],
               step = "sweep" => /\ outcome = "LATE_CAPTURE_REVIEW"
                                 /\ req[r].order \in stale \/ Closed(orders[req[r].order]),
               step = "record" => /\ outcome # "APPLIED"
                                  /\ outcome = "LATE_CAPTURE_REVIEW" => Closed(orders[req[r].order])
        PROVE  Silent /\ Handlers'
    <2> DEFINE x == [req[r] EXCEPT !.step = step, !.outcome = outcome, !.stale = stale]
    <2>1. /\ x \in Payments /\ x.step = step /\ x.outcome = outcome /\ x.order = req[r].order
          /\ x.at = req[r].at /\ x.stale = stale
      BY <1>1 DEF Payments, PaymentSteps
    <2>2. req' = [req EXCEPT ![r] = x]
      BY <1>3
    <2> HIDE DEF x
    <2>3. Handles(x, orders) /\ x.at <= now
      BY <1>1, <1>2, <1>3, <2>1 DEF Handles
    <2> QED BY <1>f, <2>2, <2>3, ReadingIsSilent
  <1>4. ASSUME req' = [req EXCEPT ![r] = Idle] PROVE Silent /\ Handlers'
    <2>1. Handles(Idle, orders)
      BY DEF Handles
    <2> QED BY <1>f, <1>4, <2>1, ReadingIsSilent
  <1>5. /\ req[r].stale \in SUBSET Orders /\ req[r].outcome \in Outcomes
        /\ {"IGNORED_DUPLICATE_TRANSACTION", "LATE_CAPTURE_REVIEW", "APPLIED"} \subseteq Outcomes
    BY <1>1 DEF Payments, Outcomes
  <1>6. ASSUME NEW step \in {"record", "source"}, NEW outcome \in Outcomes, Decide(r, step, outcome),
               step = "record" => /\ outcome # "APPLIED"
                                  /\ outcome = "LATE_CAPTURE_REVIEW" => Closed(orders[req[r].order])
        PROVE  Silent /\ Handlers'
    <2>1. req' = [req EXCEPT ![r].step = step, ![r].outcome = outcome, ![r].stale = req[r].stale]
      BY <1>1, <1>6 DEF Decide, Payments
    <2> QED BY <1>3, <1>5, <1>6, <2>1
  <1>7. ASSUME NEW step \in {"recheck", "restate"}, Goto(r, step) PROVE Silent /\ Handlers'
    <2>1. req' = [req EXCEPT ![r].step = step, ![r].outcome = req[r].outcome, ![r].stale = req[r].stale]
      BY <1>1, <1>7 DEF Goto, Payments
    <2> QED BY <1>3, <1>5, <1>7, <2>1
  <1>8. ASSUME D1ReadOrder(r) PROVE Silent /\ Handlers'
    <2>1. CASE ~Standing(req[r].order, req[r].at)
               /\ req' = [req EXCEPT ![r].step = "sweep", ![r].outcome = "LATE_CAPTURE_REVIEW",
                                     ![r].stale = Stale(req[r].at) \cap {req[r].order}]
      <3>1. req[r].order \in Stale(req[r].at) \/ Closed(orders[req[r].order])
        BY <1>1, <1>2, <2>1, LateIsClosed DEF Books
      <3>2. /\ Stale(req[r].at) \cap {req[r].order} \in SUBSET Orders
            /\ req[r].order \in Stale(req[r].at) \cap {req[r].order} \/ Closed(orders[req[r].order])
        BY <1>2, <3>1
      <3> QED BY <1>3, <1>5, <2>1, <3>2
    <2>2. CASE \/ Decide(r, "record", "IGNORED_DUPLICATE_TRANSACTION")
               \/ Decide(r, "source", "APPLIED")
               \/ Finish(r)
      BY <1>4, <1>5, <1>6, <2>2 DEF Finish
    <2> QED BY <1>8, <2>1, <2>2 DEF D1ReadOrder
  <1>9. ASSUME D1ExplainRefusal(r) PROVE Silent /\ Handlers'
    BY <1>4, <1>5, <1>6, <1>7, <1>9 DEF D1ExplainRefusal, Finish
  <1>10. ASSUME D1RereadIntent(r) PROVE Silent /\ Handlers'
    BY <1>4, <1>7, <1>10 DEF D1RereadIntent, Finish
  <1>11. ASSUME D1RereadOrder(r) PROVE Silent /\ Handlers'
    <2>1. orders[req[r].order].status # "AWAITING_PAYMENT" \/ orders[req[r].order].resv # "SUPPLIER_CONFIRMED"
          => Closed(orders[req[r].order])
      BY <1>1, <1>2, LateIsClosed DEF Books
    <2> QED BY <1>4, <1>5, <1>6, <1>11, <2>1 DEF D1RereadOrder, Finish
  <1> QED BY <1>8, <1>9, <1>10, <1>11

-----------------------------------------------------------------------------
(* The D1 store: the batches. However old a handler's reads are, its batch *)
(* keeps the books.                                                        *)

(* Once a sweep committed, the late payment it was made for is on an order *)
(* that is closed.                                                         *)
LEMMA PostSweepIsSilent ==
    ASSUME Books, Handlers, now \in Nat, now' = now, NEW r \in Requests, D1PostSweep(r)
    PROVE  Silent /\ Handlers'
  <1>f. /\ Handles(req[r], orders) /\ req[r].step = "sweep" /\ events' = events
        /\ (req[r] = Idle \/ req[r].at <= now)
    BY DEF Handlers, D1PostSweep, At
  <1>i. req[r].step # "idle" /\ req[r] # Idle
    BY <1>f DEF Idle
  <1>n. now' \in Nat /\ now <= now'
    OBVIOUS
  <1>m. ASSUME Silent, NEW x, req' = [req EXCEPT ![r] = x], Handles(x, orders'), x = Idle \/ x.at <= now'
        PROVE  Silent /\ Handlers'
    BY <1>n, <1>m, OrdersPersist, HandlersMove
  <1>d. Handles(Idle, orders')
    BY DEF Handles
  <1>1. CASE req[r].stale \subseteq Stale(req[r].at)
    <2> DEFINE S == req[r].stale
    <2>1. orders' = ExpireRows(S) /\ moves' = ExpireMoves(S)
      BY <1>1 DEF D1PostSweep
    <2>2. /\ ExpireRows(S) \in [Orders -> Row] /\ ExpireMoves(S) \in Ledgers
          /\ \A o \in Orders : Follows(orders[o], ExpireRows(S)[o], ExpireMoves(S)[o])
          /\ \A o \in S : o \in Orders /\ ExpireRows(S)[o].status = "EXPIRED"
      BY <1>1, SweepFollows DEF Books
    <2>3. Silent /\ \A o \in S : orders'[o].status = "EXPIRED"
      BY <1>f, <2>1, <2>2 DEF Silent, Accounts, Unpaid
    <2>p. \A o \in Orders : Persists(orders[o], orders'[o])
      BY <2>3, OrdersPersist
    <2>4. CASE req[r] \in Checkouts /\ req[r].hold <= req[r].win.start
      <3> DEFINE x == [req[r] EXCEPT !.step = "draw"]
      <3>1. /\ x \in Checkouts /\ x.hold = req[r].hold /\ x.win = req[r].win /\ x.at = req[r].at
            /\ req[r].op = "checkout"
        BY <2>4 DEF Checkouts
      <3>2. req' = [req EXCEPT ![r] = x]
        BY <1>1, <3>1 DEF D1PostSweep, Goto
      <3> HIDE DEF x
      <3>3. Handles(x, orders') /\ x.at <= now'
        BY <1>f, <1>i, <2>4, <3>1 DEF Handles
      <3> QED BY <1>m, <2>3, <3>2, <3>3
    <2>5. CASE req[r] \in Surveys
      <3>1. req[r].op \in {"quote", "confirm"}
        BY <2>5 DEF Surveys
      <3>2. req' = [req EXCEPT ![r] = Idle]
        BY <1>1, <3>1 DEF D1PostSweep, Finish
      <3> QED BY <1>d, <1>m, <2>3, <3>2
    <2>6. CASE /\ req[r] \in Payments /\ req[r].outcome = "LATE_CAPTURE_REVIEW"
               /\ orders[req[r].order].intent # "NONE"
               /\ req[r].order \in req[r].stale \/ Closed(orders[req[r].order])
      <3> DEFINE x == [req[r] EXCEPT !.step = "record"]
      <3>1. /\ x \in Payments /\ x.step = "record" /\ x.outcome = "LATE_CAPTURE_REVIEW"
            /\ x.order = req[r].order /\ x.at = req[r].at /\ req[r].op = "payment"
            /\ req[r].order \in Orders
        BY <2>6 DEF Payments
      <3>2. req' = [req EXCEPT ![r] = x]
        BY <1>1, <3>1 DEF D1PostSweep, Goto
      <3> HIDE DEF x
      <3>3. Closed(orders'[req[r].order]) /\ orders'[req[r].order].intent # "NONE"
        BY <2>p, <2>3, <2>6, <3>1 DEF Persists, Closed
      <3>4. Handles(x, orders') /\ x.at <= now'
        BY <1>f, <1>i, <3>1, <3>3 DEF Handles
      <3> QED BY <1>m, <2>3, <3>2, <3>4
    <2> QED BY <1>f, <2>4, <2>5, <2>6, HandlerAt
  <1>2. CASE ~(req[r].stale \subseteq Stale(req[r].at))
    <2>1. req' = [req EXCEPT ![r] = Idle] /\ orders' = orders /\ moves' = moves
      BY <1>2 DEF D1PostSweep, Finish
    <2> QED BY <1>f, <1>d, <2>1, ReadingIsSilent
  <1> QED BY <1>1, <1>2

(* The batch of a checkout places the order only where there is none.      *)
LEMMA PostCheckoutIsSilent ==
    ASSUME Books, Handlers, now \in Nat, now' = now, NEW r \in Requests, D1PostCheckout(r)
    PROVE  Silent /\ Handlers'
  <1>f. /\ Handles(req[r], orders) /\ req[r].step = "place" /\ events' = events
        /\ req' = [req EXCEPT ![r] = Idle]
    BY DEF Handlers, D1PostCheckout, At, Finish
  <1>1. Silent
    <2> DEFINE o == req[r].order
               row == Placed(req[r].win, req[r].hold, "AWAITING_SUPPLIER")
    <2>1. /\ req[r] \in Checkouts /\ req[r].hold <= req[r].win.start
          /\ o \in Orders /\ req[r].win \in Windows /\ req[r].hold \in Nat
      <3>1. req[r] \in Checkouts /\ req[r].hold <= req[r].win.start
        BY <1>f, HandlerAt
      <3> QED BY <3>1 DEF Checkouts
    <2>2. CASE orders' = orders /\ moves' = moves
      BY <1>f, <2>2, NoneFollows DEF Silent, Books
    <2>3. CASE ~(orders' = orders /\ moves' = moves)
      <3>1. /\ orders[o] = Absent /\ orders' = [orders EXCEPT ![o] = row]
            /\ moves' = [moves EXCEPT ![o] = {"hold"}]
        BY <2>3 DEF D1PostCheckout
      <3>2. Follows(orders[o], row, {"hold"})
        <4>1. Absent.intent = "NONE"
          BY DEF Absent
        <4> QED BY <2>1, <3>1, <4>1, PlacedIsSound DEF Follows
      <3>3. moves' \in Ledgers /\ moves'[o] = {"hold"} /\ \A p \in Orders \ {o} : moves'[p] = moves[p]
        BY <2>1, <3>1 DEF Books, Rows, Ledgers
      <3> HIDE DEF o, row
      <3> QED BY <1>f, <2>1, <3>1, <3>2, <3>3, OneFollows DEF Silent, Books
    <2> QED BY <2>2, <2>3
  <1>2. Handles(Idle, orders') /\ now' \in Nat /\ now <= now'
    BY DEF Handles
  <1> QED BY <1>f, <1>1, <1>2, OrdersPersist, HandlersMove

(* The batch of an answer moves only an order that still waits for it.     *)
LEMMA PostConfirmIsSilent ==
    ASSUME Books, Handlers, now \in Nat, now' = now, NEW r \in Requests, D1PostConfirm(r)
    PROVE  Silent /\ Handlers'
  <1>f. /\ Handles(req[r], orders) /\ req[r].step = "confirm" /\ events' = events
        /\ req' = [req EXCEPT ![r] = Idle]
    BY DEF Handlers, D1PostConfirm, At, Finish
  <1>1. Silent
    <2> DEFINE o == req[r].order
    <2>1. o \in Orders /\ req[r].hold \in Nat /\ req[r].hold <= orders[o].win.start
      <3>1. req[r] \in Answers /\ req[r].hold <= orders[o].win.start
        BY <1>f, HandlerAt
      <3> QED BY <3>1 DEF Answers
    <2>2. /\ Rows /\ Sound(orders[o], moves[o]) /\ moves \in Ledgers
          /\ orders[o].resv = "HELD" => orders[o].intent # "CAPTURED"
      BY <2>1 DEF Books, Rows, Sound, Consistent
    <2>3. CASE orders' = orders /\ moves' = moves
      BY <1>f, <2>3, NoneFollows DEF Silent, Books
    <2>4. CASE ~(orders' = orders /\ moves' = moves)
      <3>h. orders[o].resv = "HELD"
        BY <2>4 DEF D1PostConfirm
      <3>1. CASE req[r].accept
        <4>1. orders' = [orders EXCEPT ![o] = Confirmed(orders[o], req[r].hold)] /\ moves' = moves
          BY <2>4, <3>1 DEF D1PostConfirm
        <4>2. Follows(orders[o], Confirmed(orders[o], req[r].hold), moves[o])
          BY <2>1, <2>2, <3>h, ConfirmedIsSound DEF Follows
        <4> HIDE DEF o
        <4> QED BY <1>f, <2>1, <2>2, <4>1, <4>2, OneFollows DEF Silent
      <3>2. CASE ~req[r].accept
        <4>1. /\ orders' = [orders EXCEPT ![o] = Rejected(orders[o])]
              /\ moves' = [moves EXCEPT ![o] = moves[o] \cup {"supplier-rejected"}]
          BY <2>4, <3>2 DEF D1PostConfirm, Moved
        <4>2. Follows(orders[o], Rejected(orders[o]), moves[o] \cup {"supplier-rejected"})
          BY <2>1, <2>2, <3>h, RejectedIsSound DEF Follows
        <4>3. moves' \in Ledgers /\ moves'[o] = moves[o] \cup {"supplier-rejected"}
              /\ \A p \in Orders \ {o} : moves'[p] = moves[p]
          BY <2>1, <2>2, <4>1 DEF Ledgers
        <4> HIDE DEF o
        <4> QED BY <1>f, <2>1, <2>2, <4>1, <4>2, <4>3, OneFollows DEF Silent
      <3> QED BY <3>1, <3>2
    <2> QED BY <2>3, <2>4
  <1>2. Handles(Idle, orders') /\ now' \in Nat /\ now <= now'
    BY DEF Handles
  <1> QED BY <1>f, <1>1, <1>2, OrdersPersist, HandlersMove

(* The batch of a payment applies it to a payable order or refuses it.     *)
LEMMA PostCaptureKeeps ==
    ASSUME Books, Handlers, now \in Nat, now' = now, NEW r \in Requests, D1PostCapture(r)
    PROVE  (Silent \/ Receives) /\ Handlers'
  <1>f. Handles(req[r], orders) /\ req[r].step = "capture" /\ (req[r] = Idle \/ req[r].at <= now)
    BY DEF Handlers, D1PostCapture, At
  <1>p. req[r] \in Payments /\ orders[req[r].order].intent # "NONE"
    BY <1>f, HandlerAt DEF PaymentSteps
  <1>t. /\ req[r].event \in Events /\ req[r].order \in Orders /\ req[r].txn \in Transactions
        /\ req[r].at <= now
    BY <1>f, <1>p DEF Payments, Idle
  <1>1. CASE /\ events[req[r].event] = NoEvent /\ ~Applied(req[r].txn)
             /\ Payable(req[r].order, req[r].at)
    <2>1. /\ orders' = [orders EXCEPT ![req[r].order] = Captured(orders[req[r].order])]
          /\ Moved(req[r].order, "payment-locked")
          /\ Noted(req[r].event, req[r].order, req[r].txn, "APPLIED")
          /\ req' = [req EXCEPT ![r] = Idle]
      BY <1>1 DEF D1PostCapture, Finish
    <2>2. Paid(req[r].event, req[r].order, req[r].txn)
      BY <1>1, <1>t, <2>1, CaptureIsPaid
    <2>3. Receives
      BY <1>t, <2>2 DEF Receives
    <2>4. Handles(Idle, orders') /\ now' \in Nat /\ now <= now'
      BY DEF Handles
    <2> QED BY <2>1, <2>3, <2>4, OrdersPersist, HandlersMove
  <1>2. CASE ~(/\ events[req[r].event] = NoEvent /\ ~Applied(req[r].txn)
               /\ Payable(req[r].order, req[r].at))
    <2> DEFINE x == [req[r] EXCEPT !.step = "refused"]
    <2>1. x \in Payments /\ x.step = "refused" /\ x.order = req[r].order /\ x.at = req[r].at
      BY <1>p DEF Payments, PaymentSteps
    <2>2. req' = [req EXCEPT ![r] = x] /\ UNCHANGED <<now, orders, moves, events>>
      BY <1>2 DEF D1PostCapture, Goto
    <2> HIDE DEF x
    <2>3. Handles(x, orders) /\ x.at <= now
      BY <1>p, <1>t, <2>1 DEF Handles
    <2> QED BY <2>2, <2>3, ReadingIsSilent
  <1> QED BY <1>1, <1>2

(* An outcome is recorded for an event that has none.                      *)
LEMMA RecordKeeps ==
    ASSUME Books, Handlers, now \in Nat, now' = now, NEW r \in Requests, D1Record(r)
    PROVE  (Silent \/ Receives) /\ Handlers'
  <1>f. Handles(req[r], orders) /\ req[r].step = "record" /\ req' = [req EXCEPT ![r] = Idle]
        /\ orders' = orders /\ moves' = moves /\ store = "d1"
    BY DEF Handlers, D1Record, At, Finish
  <1>p. /\ req[r] \in Payments /\ req[r].outcome # "APPLIED"
        /\ req[r].outcome = "LATE_CAPTURE_REVIEW" => Closed(orders[req[r].order])
    BY <1>f, HandlerAt
  <1>t. /\ req[r].event \in Events /\ req[r].order \in Orders /\ req[r].txn \in Transactions
        /\ req[r].outcome \in Outcomes
    BY <1>p DEF Payments
  <1>n. Accounts /\ \A p \in Orders : Unpaid(p)
    BY <1>f, NoneFollows DEF Books
  <1>1. Silent \/ Receives
    <2>1. CASE events[req[r].event] = NoEvent
      <3>1. Noted(req[r].event, req[r].order, req[r].txn, req[r].outcome)
        BY <2>1 DEF D1Record
      <3>2. Reviewed(req[r].event, req[r].order, req[r].txn, req[r].outcome)
        BY <1>f, <1>p, <1>t, <1>n, <2>1, <3>1 DEF Reviewed, Refunds, Closed
      <3> QED BY <1>t, <3>2 DEF Receives
    <2>2. CASE events[req[r].event] # NoEvent
      BY <1>n, <2>2 DEF D1Record, Silent
    <2> QED BY <2>1, <2>2
  <1>2. Handles(Idle, orders') /\ now' \in Nat /\ now <= now'
    BY DEF Handles
  <1> QED BY <1>f, <1>1, <1>2, OrdersPersist, HandlersMove

-----------------------------------------------------------------------------
(* Together.                                                               *)

Kept == Books /\ Handlers /\ store \in {"sqlite", "d1"} /\ now \in 0 .. MaxTime

(* A step changes the books in one of the three ways, and no handler loses *)
(* what it relies on.                                                      *)
LEMMA StepKinds ==
    ASSUME Kept, [Next]_vars PROVE (Silent \/ Receives) /\ Handlers'
  <1>k. Books /\ Handlers /\ now \in Nat
    BY ExchangeAssumption DEF Kept
  <1>q. ASSUME Silent \/ Receives, req' = req, now' = now PROVE (Silent \/ Receives) /\ Handlers'
    <2>1. \A o \in Orders : Persists(orders[o], orders'[o])
      BY <1>q, OrdersPersist
    <2>2. now' \in Nat /\ now <= now'
      BY <1>k, <1>q
    <2> QED BY <1>k, <1>q, <2>1, <2>2, HandlersRest
  <1>1. ASSUME NEW o \in Orders, NEW w \in Windows, SqliteCheckout(o, w)
        PROVE  (Silent \/ Receives) /\ Handlers'
    BY <1>k, <1>q, <1>1, SqliteCheckoutIsSilent DEF SqliteCheckout
  <1>2. ASSUME SqliteExpire PROVE (Silent \/ Receives) /\ Handlers'
    <2>1. Silent
      BY <1>k, <1>2, SweepFollows DEF SqliteExpire, Silent, Accounts, Unpaid, Books
    <2> QED BY <1>q, <1>2, <2>1 DEF SqliteExpire
  <1>3. ASSUME NEW o \in Orders, NEW yes \in BOOLEAN, SqliteConfirm(o, yes)
        PROVE  (Silent \/ Receives) /\ Handlers'
    BY <1>k, <1>q, <1>3, SqliteConfirmIsSilent DEF SqliteConfirm
  <1>4. ASSUME NEW e \in Events, NEW o \in Orders, NEW t \in Transactions, NEW matches \in BOOLEAN,
               SqlitePayment(e, o, t, matches)
        PROVE  (Silent \/ Receives) /\ Handlers'
    BY <1>k, <1>q, <1>4, SqlitePaymentReceives DEF SqlitePayment
  <1>5. ASSUME NEW r \in Requests, D1(r) PROVE (Silent \/ Receives) /\ Handlers'
    <2>1. CASE \/ \E o \in Orders, w \in Windows : D1ReadOffer(r, o, w)
               \/ D1ReadInventory(r)
               \/ \E o \in Orders, yes \in BOOLEAN : D1ReadConfirm(r, o, yes)
      BY <1>k, <2>1, ReadsAreSilent
    <2>2. CASE \E e \in Events, o \in Orders, t \in Transactions, matches \in BOOLEAN :
                   D1ReadEvent(r, e, o, t, matches)
      BY <1>k, <2>2, ReadEventIsSilent
    <2>3. CASE \/ D1ReadIntent(r) \/ D1ReadSource(r) \/ D1DrawUp(r)
               \/ D1ReadOrder(r) \/ D1ExplainRefusal(r) \/ D1RereadIntent(r) \/ D1RereadOrder(r)
      BY <1>k, <2>3, StepsAreSilent, DecisionsAreSilent
    <2>4. CASE D1PostSweep(r)
      BY <1>k, <2>4, PostSweepIsSilent DEF D1PostSweep
    <2>5. CASE D1PostCheckout(r)
      BY <1>k, <2>5, PostCheckoutIsSilent DEF D1PostCheckout
    <2>6. CASE D1PostConfirm(r)
      BY <1>k, <2>6, PostConfirmIsSilent DEF D1PostConfirm
    <2>7. CASE D1PostCapture(r)
      BY <1>k, <2>7, PostCaptureKeeps DEF D1PostCapture
    <2>8. CASE D1Record(r)
      BY <1>k, <2>8, RecordKeeps DEF D1Record
    <2> QED BY <1>5, <2>1, <2>2, <2>3, <2>4, <2>5, <2>6, <2>7, <2>8 DEF D1
  <1>6. ASSUME Tick PROVE (Silent \/ Receives) /\ Handlers'
    <2>1. Silent
      BY <1>k, <1>6, NoneFollows DEF Tick, Silent, Books
    <2>2. now' \in Nat /\ now <= now' /\ req' = req
      BY <1>k, <1>6 DEF Tick
    <2> QED BY <1>k, <2>1, <2>2, OrdersPersist, HandlersRest
  <1>7. ASSUME UNCHANGED vars PROVE (Silent \/ Receives) /\ Handlers'
    <2>1. Silent
      BY <1>k, <1>7, NoneFollows DEF vars, Silent, Books
    <2> QED BY <1>q, <1>7, <2>1 DEF vars
  <1> QED BY <1>1, <1>2, <1>3, <1>4, <1>5, <1>6, <1>7 DEF Next, Sqlite

(* Every step keeps books, handlers and clock.                             *)
LEMMA KeptStep == Kept /\ [Next]_vars => Kept'
  <1> SUFFICES ASSUME Kept, [Next]_vars PROVE Kept'
    OBVIOUS
  <1>1. (Silent \/ Receives) /\ Handlers'
    BY StepKinds
  <1>3. store' = store /\ (now' = now \/ (now < MaxTime /\ now' = now + 1))
    <2>1. ASSUME Sqlite PROVE store' = store /\ now' = now
      BY <2>1 DEF Sqlite, SqliteCheckout, SqliteExpire, SqliteConfirm, SqlitePayment
    <2>2. ASSUME NEW r \in Requests, D1(r) PROVE store' = store /\ now' = now
      <3>1. CASE D1ReadSource(r) \/ D1PostSweep(r) \/ D1DrawUp(r) \/ D1PostCheckout(r)
                 \/ D1PostConfirm(r) \/ D1PostCapture(r) \/ D1Record(r)
        BY <3>1 DEF D1ReadSource, D1PostSweep, D1DrawUp, D1PostCheckout, D1PostConfirm, D1PostCapture,
           D1Record
      <3>2. CASE \/ \E o \in Orders, w \in Windows : D1ReadOffer(r, o, w)
                 \/ D1ReadInventory(r)
                 \/ \E o \in Orders, yes \in BOOLEAN : D1ReadConfirm(r, o, yes)
        BY <3>2 DEF D1ReadOffer, D1ReadInventory, D1ReadConfirm, Asks
      <3>3. CASE \E e \in Events, o \in Orders, t \in Transactions, matches \in BOOLEAN :
                     D1ReadEvent(r, e, o, t, matches)
        BY <3>3 DEF D1ReadEvent, Asks
      <3>4. CASE \/ D1ReadIntent(r) \/ D1ReadOrder(r)
                 \/ D1ExplainRefusal(r) \/ D1RereadIntent(r) \/ D1RereadOrder(r)
        BY <3>4 DEF D1ReadIntent, D1ReadOrder, D1ExplainRefusal, D1RereadIntent, D1RereadOrder
      <3> QED BY <2>2, <3>1, <3>2, <3>3, <3>4 DEF D1
    <2> QED BY <2>1, <2>2 DEF Next, Tick, vars
  <1>4. now' \in 0 .. MaxTime
    BY <1>3, ExchangeAssumption DEF Kept
  <1>5. Books'
    BY <1>1, <1>3, SilentKeeps, ReviewKeeps, PaymentKeeps DEF Receives, Kept
  <1> QED BY <1>1, <1>3, <1>4, <1>5 DEF Kept

(* At the beginning there is nothing to agree upon.                        *)
LEMMA KeptInit == Init => Kept
  <1> SUFFICES ASSUME Init PROVE Kept
    OBVIOUS
  <1>1. Absent \in Row /\ Absent.resv = "NONE" /\ Absent.intent = "NONE" /\ Absent.status = "NONE"
        /\ Absent.hold = 0 /\ Absent.win.start = 0
    BY WindowTypes DEF Absent
  <1>2. Sound(Absent, {})
    BY <1>1 DEF Sound, Consistent, MovesOf
  <1>3. Rows
    BY <1>1, <1>2 DEF Init, Rows, Ledgers
  <1>4. NoEvent \in Receipt /\ NoEvent.outcome = "NONE"
    BY DEF Receipt, NoEvent
  <1>5. Receipts
    BY <1>1, <1>4 DEF Init, Receipts, Pays
  <1>6. Handlers
    BY DEF Init, Handlers, Handles
  <1> QED BY <1>3, <1>5, <1>6, ExchangeAssumption DEF Init, Kept, Books

(* What is kept is what the books promise.                                 *)
LEMMA KeptBooksAgree == Kept => BooksAgree
  <1> SUFFICES ASSUME Kept PROVE BooksAgree
    OBVIOUS
  <1>1. \A o \in Orders : Sound(orders[o], moves[o])
    BY DEF Kept, Books, Rows
  <1>2. TypeOK
    <2>1. orders \in [Orders -> Row] /\ \A o \in Orders : orders[o].hold <= orders[o].win.start
      BY <1>1 DEF Sound, Kept, Books, Rows
    <2>2. moves \in [Orders -> SUBSET {"hold", "expired", "supplier-rejected", "payment-locked"}]
      BY DEF Kept, Books, Rows, Ledgers
    <2>3. events \in [Events -> {NoEvent} \cup [order : Orders, txn : Transactions, outcome : Outcomes]]
      BY DEF Kept, Books, Receipts, Receipt
    <2>4. ASSUME NEW r \in Requests
          PROVE  req[r] = Idle \/
           /\ req[r].at \in 0 .. now
           /\ req[r].step \in {"sweep", "draw", "place", "confirm", "record"} \cup PaymentSteps
           /\ req[r].step = "record" => req[r].outcome \in Outcomes
      <3>1. CASE req[r] \in Checkouts \cup Surveys \cup Answers
        <4>1. req[r].at \in Nat /\ req[r].step \in {"sweep", "draw", "place", "confirm"}
          BY <3>1 DEF Checkouts, Surveys, Answers
        <4>2. req[r] = Idle \/ req[r].at <= now
          BY DEF Kept, Handlers
        <4> QED BY <4>1, <4>2 DEF Kept
      <3>2. CASE req[r] \in Payments
        <4>1. /\ req[r].at \in Nat /\ req[r].outcome \in Outcomes
              /\ req[r].step \in {"sweep", "record"} \cup PaymentSteps
          BY <3>2 DEF Payments
        <4>2. req[r] = Idle \/ req[r].at <= now
          BY DEF Kept, Handlers
        <4> QED BY <4>1, <4>2 DEF Kept
      <3> QED BY <3>1, <3>2 DEF Kept, Handlers, Handles
    <2> QED BY <2>1, <2>2, <2>3, <2>4 DEF TypeOK, Row, Kept, Handlers, PaymentSteps
  <1>3. ASSUME NEW o \in Orders
        PROVE  /\ moves[o] = MovesOf(orders[o].resv)
               /\ orders[o].intent = "CAPTURED" <=> orders[o].resv = "COMMITTED"
               /\ orders[o].intent = "CAPTURED" <=> Paying(o) # {}
               /\ \A e, f \in Paying(o) : e = f
    <2>1. moves[o] = MovesOf(orders[o].resv) /\ (orders[o].intent = "CAPTURED" <=> orders[o].resv = "COMMITTED")
      BY <1>1 DEF Sound, Consistent
    <2>2. orders[o].intent = "CAPTURED" <=> Paying(o) # {}
      BY DEF Kept, Books, Receipts, Pays, Paying
    <2>3. \A e, f \in Paying(o) : e = f
      BY DEF Kept, Books, Receipts, Pays, Paying
    <2> QED BY <2>1, <2>2, <2>3
  <1>4. \A e, f \in Events : events[e].outcome = "APPLIED" /\ events[f].outcome = "APPLIED"
                             /\ events[e].txn = events[f].txn => e = f
    BY DEF Kept, Books, Receipts, Pays
  <1>5. ASSUME NEW e \in Events, events[e].outcome = "LATE_CAPTURE_REVIEW"
        PROVE  \/ ShownStatus(events[e].order) = "EXPIRED"
               \/ store = "d1" /\ Paying(events[e].order) # {}
    <2>1. events[e].order \in Orders /\ Refunds(orders[events[e].order])
      BY <1>5 DEF Kept, Books, Receipts, Receipt, NoEvent
    <2> QED BY <1>3, <2>1 DEF Refunds, ShownStatus
  <1> QED BY <1>2, <1>3, <1>4, <1>5 DEF BooksAgree

(* On either database, for any number of orders, requests and repeated     *)
(* payment events, ledger, reservation, intent and events of every order   *)
(* agree, however old what a handler read is when its batch commits        *)
(* (exchange-store-sqlite.ts, exchange-store-d1.ts: createCheckout,        *)
(* confirmOrder, applyPaymentEvent, expireReservations).                   *)
THEOREM BooksAlwaysAgree == Spec => []BooksAgree
  <1> QED BY KeptInit, KeptStep, KeptBooksAgree, PTL DEF Spec

-----------------------------------------------------------------------------
(* The units of the lot in an hour.                                        *)

(* The units of the rows of S, summed.                                     *)
UnitsTable(h, S) == CHOOSE it : it = [s \in SUBSET S |-> IF s = {} THEN 0
                                                         ELSE h[AnyOf(s)].units + it[s \ {AnyOf(s)}]]

(* The table adds up the units.                                            *)
LEMMA UnitsTableSums ==
    ASSUME NEW S, IsFiniteSet(S), NEW h, NEW f, \A x \in S : f[x] = h[x].units
    PROVE  UnitsTable(h, S)[S] = SumOf(f, S)
  <1> DEFINE Entries(it) == [s \in SUBSET S |-> IF s = {} THEN 0 ELSE h[AnyOf(s)].units + it[s \ {AnyOf(s)}]]
  <1>2. \A s \in SUBSET S : s # {} => f[AnyOf(s)] = h[AnyOf(s)].units
    BY AnyIsIn
  <1>3. ASSUME NEW it
        PROVE  IsTable(it, f, S) <=> it = Entries(it)
    <2> DEFINE by == [s \in SUBSET S |-> IF s = {} THEN 0 ELSE f[AnyOf(s)] + it[s \ {AnyOf(s)}]]
    <2>1. \A s \in SUBSET S : by[s] = Entries(it)[s]
      BY <1>2
    <2>2. by = Entries(it)
      BY <2>1
    <2> QED BY <2>2 DEF IsTable
  <1>4. PICK jt : IsTable(jt, f, S) /\ SumOf(f, S) = jt[S]
    BY SumIsTable
  <1>5. UnitsTable(h, S) = Entries(UnitsTable(h, S))
    BY <1>3, <1>4 DEF UnitsTable
  <1>6. IsTable(UnitsTable(h, S), f, S)
    BY <1>3, <1>5
  <1> QED BY <1>4, <1>6, TablesAgree

UnitsOf(rows) == [o \in Orders |-> rows[o].win.units]
Busy(rows, S, t) == {o \in S : rows[o].win.start <= t /\ t < rows[o].win.end}
Load(rows, S, t) == SumOf(UnitsOf(rows), Busy(rows, S, t))

(* What the exchange sums is the load.                                     *)
LEMMA UnitsAtIsLoad ==
    ASSUME NEW S \in SUBSET Orders, NEW t
    PROVE  UnitsAt(Taken(S), t) = Load(orders, S, t)
  <1> DEFINE h == Taken(S)
             T == {i \in DOMAIN h : h[i].start <= t /\ t < h[i].end}
  <1>1. T = Busy(orders, S, t) /\ T \subseteq Orders
    BY DEF Taken, Busy
  <1>2. IsFiniteSet(T)
    BY <1>1, ExchangeAssumption, FS_Subset
  <1>3. \A x \in T : UnitsOf(orders)[x] = h[x].units
    BY DEF UnitsOf, Taken
  <1>4. UnitsAt(h, t) = UnitsTable(h, T)[T]
    BY DEF UnitsAt, UnitsTable, MapThenSumSet, MapThenFoldSet, AnyOf
  <1> HIDE DEF h, T
  <1>5. UnitsTable(h, T)[T] = SumOf(UnitsOf(orders), T)
    BY <1>2, <1>3, UnitsTableSums
  <1> QED BY <1>1, <1>4, <1>5 DEF Load, h

Slots == UNION {w.start .. w.end - 1 : w \in Windows}
Sold == {o \in Orders : Stage(o) \in {"held", "confirmed", "paid"}}

(* What the promise sums is the load.                                      *)
LEMMA PromisedLoad ==
    Promise!NeverOversold <=> \A t \in Slots : Load(orders, Sold, t) <= LotUnits
  <1> DEFINE h == [o \in Orders |-> orders[o].win]
             T(t) == {o \in Promise!Selling : Promise!Takes(o, t)}
  <1>1. ASSUME NEW t \in Slots
        PROVE  T(t) = Busy(orders, Sold, t) /\ T(t) \subseteq Orders
    BY DEF Sold, Busy, Promise!Selling, Promise!Takes
  <1>2. ASSUME NEW t \in Slots
        PROVE  UnitsTable(h, T(t))[T(t)] = Load(orders, Sold, t)
    <2>1. IsFiniteSet(T(t))
      BY <1>1, ExchangeAssumption, FS_Subset
    <2>2. \A x \in T(t) : UnitsOf(orders)[x] = h[x].units
      BY <1>1 DEF UnitsOf
    <2> HIDE DEF h, T
    <2>3. UnitsTable(h, T(t))[T(t)] = SumOf(UnitsOf(orders), T(t))
      BY <2>1, <2>2, UnitsTableSums
    <2> QED BY <2>3, <1>1 DEF Load
  <1>3. Promise!NeverOversold <=> \A t \in Slots : UnitsTable(h, T(t))[T(t)] <= LotUnits
    BY DEF Promise!NeverOversold, UnitsTable, AnyOf, Slots, Promise!MapThenSumSet, Promise!MapThenFoldSet
  <1> QED BY <1>2, <1>3

(* The loads are natural numbers, and they grow with the orders they are   *)
(* of.                                                                     *)
LEMMA LoadGrows ==
    ASSUME NEW rows \in [Orders -> Row], NEW S \in SUBSET Orders, NEW T, T \subseteq S, NEW t, NEW u,
           \A o \in T : rows[o].win.start <= t /\ t < rows[o].win.end =>
                            rows[o].win.start <= u /\ u < rows[o].win.end
    PROVE  Load(rows, T, t) \in Nat /\ Load(rows, S, u) \in Nat /\ Load(rows, T, t) <= Load(rows, S, u)
  <1>1. Busy(rows, T, t) \subseteq Busy(rows, S, u) /\ Busy(rows, S, u) \subseteq Orders
    BY DEF Busy
  <1>2. IsFiniteSet(Busy(rows, S, u)) /\ IsFiniteSet(Busy(rows, T, t))
    BY <1>1, ExchangeAssumption, FS_Subset
  <1>3. \A o \in Orders : UnitsOf(rows)[o] \in Nat
    <2>1. \A w \in Windows \cup {Absent.win} : w.units \in Nat
      BY ExchangeAssumption DEF Absent
    <2> QED BY <2>1 DEF UnitsOf, Row
  <1>4. \A o \in Busy(rows, S, u) : UnitsOf(rows)[o] \in Nat
    BY <1>1, <1>3
  <1>5. \A o \in Busy(rows, T, t) : UnitsOf(rows)[o] \in Nat
    BY <1>1, <1>4
  <1> QED BY <1>1, <1>2, <1>4, <1>5, SumOfNaturals, SumOfPart DEF Load

(* An order that is added loads the hours of its window and no other.      *)
LEMMA LoadWith ==
    ASSUME NEW rows \in [Orders -> Row], NEW S \in SUBSET Orders, NEW o \in Orders \ S, NEW t \in Int,
           NEW w, w = rows[o].win
    PROVE  Load(rows, S \cup {o}, t) = IF w.start <= t /\ t < w.end THEN Load(rows, S, t) + w.units
                                       ELSE Load(rows, S, t)
  <1>1. Busy(rows, S \cup {o}, t) = IF w.start <= t /\ t < w.end THEN Busy(rows, S, t) \cup {o}
                                    ELSE Busy(rows, S, t)
    BY DEF Busy
  <1>2. IsFiniteSet(Busy(rows, S, t)) /\ o \notin Busy(rows, S, t) /\ Busy(rows, S, t) \subseteq Orders
    <2>1. Busy(rows, S, t) \subseteq Orders /\ o \notin Busy(rows, S, t)
      BY DEF Busy
    <2> QED BY <2>1, ExchangeAssumption, FS_Subset
  <1>3. \A p \in Orders : UnitsOf(rows)[p] \in Int
    <2>1. \A v \in Windows \cup {Absent.win} : v.units \in Int
      BY ExchangeAssumption DEF Absent
    <2> QED BY <2>1 DEF UnitsOf, Row
  <1>4. \A p \in Busy(rows, S, t) \cup {o} : UnitsOf(rows)[p] \in Int
    BY <1>2, <1>3
  <1>5. SumOf(UnitsOf(rows), Busy(rows, S, t) \cup {o}) = UnitsOf(rows)[o] + SumOf(UnitsOf(rows), Busy(rows, S, t))
    BY <1>2, <1>4, SumWith
  <1>6. UnitsOf(rows)[o] = w.units /\ w.units \in Int /\ SumOf(UnitsOf(rows), Busy(rows, S, t)) \in Int
    BY <1>2, <1>3, <1>4, SumOfIntegers DEF UnitsOf
  <1> QED BY <1>1, <1>5, <1>6 DEF Load

(* Of finitely many numbers there is a greatest.                           *)
LEMMA LatestOf ==
    ASSUME NEW S, IsFiniteSet(S), S # {}, NEW f, \A x \in S : f[x] \in Int
    PROVE  \E x \in S : \A y \in S : f[y] <= f[x]
  <1> DEFINE Topped(X) == \E x \in X : \A y \in X : f[y] <= f[x]
             B == {X \in SUBSET S : X # {} /\ ~Topped(X)}
  <1>1. SUFFICES ASSUME ~Topped(S) PROVE FALSE
    OBVIOUS
  <1>2. B \subseteq SUBSET S /\ B # {}
    BY <1>1
  <1>3. \A X \in B : X \subseteq S /\ X # {} /\ ~Topped(X)
    OBVIOUS
  <1>4. \A X \in SUBSET S : X \in B \/ X = {} \/ Topped(X)
    OBVIOUS
  <1> HIDE DEF B
  <1>5. PICK X \in B : \A T \in B : T \subseteq X => T = X
    BY <1>2, SmallestSubset
  <1>6. PICK a \in X : TRUE
    BY <1>3, <1>5
  <1>7. X \ {a} = {} \/ Topped(X \ {a})
    <2>1. X \ {a} \in SUBSET S /\ X \ {a} \subseteq X /\ X \ {a} # X
      BY <1>3, <1>5, <1>6
    <2>2. X \ {a} \notin B
      BY <1>5, <2>1
    <2> HIDE DEF Topped
    <2> QED BY <1>4, <2>1, <2>2
  <1>8. \A x \in X : f[x] \in Int
    BY <1>3, <1>5
  <1>9. Topped(X)
    <2>1. CASE X \ {a} = {}
      BY <1>6, <1>8, <2>1
    <2>2. CASE Topped(X \ {a})
      <3>1. PICK x \in X \ {a} : \A y \in X \ {a} : f[y] <= f[x]
        BY <2>2
      <3>2. CASE f[a] <= f[x]
        BY <3>1, <3>2
      <3>3. CASE ~(f[a] <= f[x])
        <4>1. \A y \in X : f[y] <= f[a]
          BY <1>6, <1>8, <3>1, <3>3
        <4> QED BY <1>6, <4>1
      <3> QED BY <3>2, <3>3
    <2> QED BY <1>7, <2>1, <2>2
  <1> QED BY <1>3, <1>5, <1>9

(* A sum within the lot at the start of a window and at the starts inside  *)
(* it is within the lot in every hour of it.                               *)
LEMMA StartsAreEnough ==
    ASSUME orders \in [Orders -> Row], NEW S \in SUBSET Orders, NEW w \in Windows,
           Fits(Taken(S), w, LotUnits) \/ FitsD1(Taken(S), w, LotUnits),
           NEW t \in Int, w.start <= t, t < w.end
    PROVE  Load(orders, S, t) + w.units <= LotUnits
  <1>w. /\ w.start \in Nat /\ w.end \in Nat /\ w.units \in Nat
        /\ \A o \in Orders : orders[o].win.start \in Nat /\ orders[o].win.end \in Nat
    <2>1. \A v \in Windows \cup {Absent.win} : v.start \in Nat /\ v.end \in Nat /\ v.units \in Nat
      BY ExchangeAssumption DEF Absent
    <2> QED BY <2>1 DEF Row
  <1> DEFINE B == Busy(orders, S, t)
             A == {o \in B : orders[o].win.start >= w.start}
             f == [o \in Orders |-> orders[o].win.start]
  <1>1. B \subseteq S /\ \A o \in B : orders[o].win.start <= t /\ t < orders[o].win.end
    BY DEF Busy
  <1>2. /\ A \subseteq B /\ IsFiniteSet(A) /\ \A o \in A : f[o] \in Int
    <2>1. A \subseteq Orders
      BY <1>1
    <2> QED BY <1>w, <2>1, ExchangeAssumption, FS_Subset
  <1>3. \E p \in {w.start} \cup {f[o] : o \in A} : \A o \in A : f[o] <= p
    <2>1. CASE A = {}
      BY <2>1
    <2>2. CASE A # {}
      <3> HIDE DEF A, f
      <3>1. PICK x \in A : \A y \in A : f[y] <= f[x]
        BY <1>2, <2>2, LatestOf
      <3> QED BY <3>1
    <2> QED BY <2>1, <2>2
  <1>4. PICK p \in {w.start} \cup {f[o] : o \in A} : \A o \in A : f[o] <= p
    BY <1>3
  <1>o. ASSUME NEW o \in B PROVE o \in Overlapping(Taken(S), w) /\ Taken(S)[o].start = f[o]
    BY <1>w, <1>1 DEF Overlapping, Taken
  <1>5. p \in Int /\ p >= w.start /\ p <= t
    <2>1. CASE p = w.start
      BY <1>w, <2>1
    <2>2. CASE p \in {f[o] : o \in A}
      BY <1>1, <1>2, <2>2
    <2> QED BY <1>4, <2>1, <2>2
  <1>p. p \in {w.start} \cup {Taken(S)[i].start : i \in Overlapping(Taken(S), w)}
    BY <1>4, <1>2, <1>o
  <1>6. UnitsAt(Taken(S), p) + w.units <= LotUnits
    BY <1>5, <1>p DEF Fits, FitsD1
  <1>7. ASSUME NEW o \in B PROVE orders[o].win.start <= p /\ p < orders[o].win.end
    <2>1. o \in Orders /\ orders[o].win.start \in Nat /\ orders[o].win.end \in Nat
      BY <1>w, <1>1
    <2>2. CASE o \in A
      <3>1. orders[o].win.start <= p
        BY <1>4, <2>1, <2>2
      <3> QED BY <1>1, <1>5, <2>1, <3>1
    <2>3. CASE o \notin A
      BY <1>w, <1>1, <1>5, <2>1, <2>3
    <2> QED BY <2>2, <2>3
  <1>8. \A o \in S : orders[o].win.start <= t /\ t < orders[o].win.end =>
                         orders[o].win.start <= p /\ p < orders[o].win.end
    BY <1>7 DEF Busy
  <1> HIDE DEF A, B, f
  <1>9. Load(orders, S, t) <= Load(orders, S, p) /\ Load(orders, S, t) \in Nat /\ Load(orders, S, p) \in Nat
    BY <1>8, LoadGrows
  <1>10. UnitsAt(Taken(S), p) = Load(orders, S, p)
    BY UnitsAtIsLoad
  <1>11. LotUnits \in Nat
    BY ExchangeAssumption
  <1> QED BY <1>w, <1>6, <1>9, <1>10, <1>11

-----------------------------------------------------------------------------
(* The capacity of the lot.                                                *)

(* Somebody read an order in time, and its answer is still under way.      *)
Answered(o, rows, reqs) ==
    \E q \in Requests : reqs[q] \in Answers /\ reqs[q].order = o /\ reqs[q].at < rows[o].hold

(* An order that has its capacity, or may still get it: the time of its    *)
(* hold is not over, or somebody read it when it was not.                  *)
Alive(o, rows, reqs, t) ==
    \/ rows[o].resv \in {"SUPPLIER_CONFIRMED", "COMMITTED"}
    \/ rows[o].resv = "HELD" /\ (rows[o].hold > t \/ Answered(o, rows, reqs))
Living(rows, reqs, t) == {o \in Orders : Alive(o, rows, reqs, t)}

Fitting(rows, S) == \A t \in Int : Load(rows, S, t) <= LotUnits

(* A checkout that counts what was alive at its clock misses no order that *)
(* may still be answered, but those it is about to expire.                 *)
Swept(x, rows, reqs) ==
    \A o \in Orders : rows[o].resv = "HELD" /\ rows[o].hold <= x.at /\ Answered(o, rows, reqs) =>
                          x.step = "sweep" /\ o \in x.stale

(* No hour of the lot is overbooked, by all that is or may become alive.   *)
Capacity ==
    /\ Fitting(orders, Living(orders, req, now))
    /\ \A r \in Requests : req[r] \in Checkouts => Swept(req[r], orders, req)
    /\ store = "sqlite" => \A r \in Requests : req[r] = Idle

(* What a step makes of a reservation.                                     *)
Goes(row, next) ==
    /\ \/ next = row
       \/ row.resv = "NONE" /\ next.resv = "HELD"
       \/ row.resv = "HELD" /\ next.resv \in {"SUPPLIER_CONFIRMED", "RELEASED", "EXPIRED"}
       \/ row.resv = "SUPPLIER_CONFIRMED" /\ next.resv \in {"COMMITTED", "EXPIRED"}
    /\ row.resv # "NONE" => next.win = row.win

(* A step that places no order and confirms none that is not alive.        *)
Onward ==
    \A o \in Orders :
        /\ Goes(orders[o], orders'[o])
        /\ orders[o].resv = "NONE" => orders'[o].resv = "NONE"
        /\ orders[o].resv = "HELD" /\ orders'[o].resv = "SUPPLIER_CONFIRMED" =>
               Alive(o, orders, req, now)

(* The requests are told apart by what they are for.                       *)
LEMMA RequestKinds ==
    /\ \A x \in Checkouts : x \notin Answers /\ x \notin Surveys /\ x \notin Payments /\ x # Idle
    /\ \A x \in Answers : x \notin Surveys /\ x \notin Payments /\ x # Idle
    /\ Idle \notin Surveys /\ Idle \notin Payments
  <1>1. \A x \in Checkouts : x.op = "checkout"
    BY DEF Checkouts
  <1>2. \A x \in Surveys : x.op \in {"quote", "confirm"} /\ x.step = "sweep"
    BY DEF Surveys
  <1>3. \A x \in Answers : x.op = "confirm" /\ x.step = "confirm"
    BY DEF Answers
  <1>4. \A x \in Payments : x.op = "payment" /\ x.step # "idle"
    BY DEF Payments, PaymentSteps
  <1>5. \A x \in Checkouts : x.step # "idle"
    BY DEF Checkouts
  <1>6. Idle.step = "idle"
    BY DEF Idle
  <1> QED BY <1>1, <1>2, <1>3, <1>4, <1>5, <1>6

(* Rows with the same windows are the same load.                           *)
LEMMA LoadSame ==
    ASSUME NEW rows, NEW next, NEW T \in SUBSET Orders, \A o \in T : next[o].win = rows[o].win, NEW t
    PROVE  Load(next, T, t) = Load(rows, T, t)
  <1>1. Busy(next, T, t) = Busy(rows, T, t) /\ Busy(rows, T, t) \subseteq Orders
    BY DEF Busy
  <1>2. \A o \in Busy(next, T, t) : UnitsOf(next)[o] = UnitsOf(rows)[o]
    BY DEF Busy, UnitsOf
  <1>3. IsFiniteSet(Busy(next, T, t))
    BY <1>1, ExchangeAssumption, FS_Subset
  <1> QED BY <1>1, <1>2, <1>3, SumOfSame DEF Load

(* Fewer orders of the same windows fit as well.                           *)
LEMMA FewerFit ==
    ASSUME NEW rows \in [Orders -> Row], NEW next \in [Orders -> Row], NEW S \in SUBSET Orders,
           NEW T, T \subseteq S, \A o \in T : next[o].win = rows[o].win, Fitting(rows, S)
    PROVE  Fitting(next, T)
  <1>1. ASSUME NEW t \in Int PROVE Load(next, T, t) <= LotUnits
    <2>1. Load(next, T, t) = Load(rows, T, t)
      BY LoadSame
    <2>2. /\ Load(rows, T, t) \in Nat /\ Load(rows, S, t) \in Nat /\ Load(rows, T, t) <= Load(rows, S, t)
      BY LoadGrows
    <2>3. Load(rows, S, t) <= LotUnits /\ LotUnits \in Nat
      BY ExchangeAssumption DEF Fitting
    <2> QED BY <2>1, <2>2, <2>3
  <1> QED BY <1>1 DEF Fitting

(* An order that is not alive does not come alive in a step onward, whose  *)
(* new answers are about orders with time left.                            *)
LEMMA LivingShrinks ==
    ASSUME NEW rows \in [Orders -> Row], NEW next \in [Orders -> Row], NEW reqs, NEW other,
           NEW t \in Nat, NEW u \in Nat, t <= u, NEW o \in Orders,
           Goes(rows[o], next[o]), rows[o].resv = "NONE" => next[o].resv = "NONE",
           rows[o].resv = "HELD" /\ next[o].resv = "SUPPLIER_CONFIRMED" => Alive(o, rows, reqs, t),
           Answered(o, next, other) => Answered(o, next, reqs) \/ next[o].hold > t,
           Alive(o, next, other, u)
    PROVE  Alive(o, rows, reqs, t) /\ next[o].win = rows[o].win
  <1>1. CASE next[o] = rows[o]
    <2>1. rows[o].hold \in Nat
      BY DEF Row
    <2> QED BY <1>1, <2>1 DEF Alive, Answered
  <1>2. CASE next[o] # rows[o]
    BY <1>2 DEF Alive, Goes
  <1> QED BY <1>1, <1>2

(* No row, some stale rows or one row is moved onward.                     *)
LEMMA NoneOnward == ASSUME orders' = orders PROVE Onward
  BY DEF Onward, Goes

(* Those that are expired go onward, however old the clock is.             *)
LEMMA SweepOnward ==
    ASSUME NEW at, NEW S, S \subseteq Stale(at), Rows, orders' = ExpireRows(S)
    PROVE  Onward /\ \A o \in S : orders'[o].resv # "HELD"
  <1>1. ASSUME NEW o \in Orders, o \notin S PROVE orders'[o] = orders[o]
    BY <1>1 DEF ExpireRows
  <1>2. ASSUME NEW o \in S
        PROVE  /\ o \in Orders /\ orders'[o].resv = "EXPIRED" /\ orders'[o].win = orders[o].win
               /\ orders[o].resv \in {"HELD", "SUPPLIER_CONFIRMED"}
    <2>1. o \in Orders /\ orders[o].resv \in {"HELD", "SUPPLIER_CONFIRMED"} /\ orders[o] \in Row
      BY DEF Stale, Rows
    <2>2. orders'[o] = Expired(orders[o])
      BY <2>1 DEF ExpireRows
    <2>3. Expired(orders[o]).resv = "EXPIRED" /\ Expired(orders[o]).win = orders[o].win
      BY <2>1 DEF Expired, Row
    <2> QED BY <2>1, <2>2, <2>3
  <1> QED BY <1>1, <1>2 DEF Onward, Goes

(* One that exists goes onward by itself.                                  *)
LEMMA OneOnward ==
    ASSUME Rows, NEW o \in Orders, NEW row, orders' = [orders EXCEPT ![o] = row],
           orders[o].resv # "NONE", Goes(orders[o], row),
           orders[o].resv = "HELD" /\ row.resv = "SUPPLIER_CONFIRMED" => Alive(o, orders, req, now)
    PROVE  Onward
  <1>1. orders'[o] = row /\ \A p \in Orders \ {o} : orders'[p] = orders[p]
    BY DEF Rows
  <1> QED BY <1>1 DEF Onward, Goes

(* The supplier's answer, and the capture, are steps onward.               *)
LEMMA RowsGo ==
    ASSUME NEW row \in Row
    PROVE  /\ row.resv = "HELD" => Goes(row, Rejected(row)) /\ Rejected(row).resv = "RELEASED"
           /\ row.resv = "HELD" => \A h : Goes(row, Confirmed(row, h))
           /\ row.resv = "SUPPLIER_CONFIRMED" => Goes(row, Captured(row))
  <1>1. Rejected(row).resv = "RELEASED" /\ Rejected(row).win = row.win
    BY DEF Rejected, Row
  <1>2. \A h : Confirmed(row, h).resv = "SUPPLIER_CONFIRMED" /\ Confirmed(row, h).win = row.win
    BY DEF Confirmed, Row
  <1>3. Captured(row).resv = "COMMITTED" /\ Captured(row).win = row.win
    BY DEF Captured, Row
  <1> QED BY <1>1, <1>2, <1>3 DEF Goes

(* A step onward overbooks nothing, if its new answers are about orders    *)
(* with time left.                                                         *)
LEMMA OnwardFits ==
    ASSUME Books, Books', now \in Nat, now' \in Nat, now <= now', Onward,
           Fitting(orders, Living(orders, req, now)),
           \A q \in Requests : req'[q] \in Answers =>
                                   req'[q] = req[q] \/ orders'[req'[q].order].hold > now
    PROVE  Fitting(orders', Living(orders', req', now'))
  <1>1. orders \in [Orders -> Row] /\ orders' \in [Orders -> Row]
    BY DEF Books, Rows
  <1>2. ASSUME NEW o \in Orders, Answered(o, orders', req')
        PROVE  Answered(o, orders', req) \/ orders'[o].hold > now
    BY <1>2 DEF Answered
  <1>3. ASSUME NEW o \in Orders, Alive(o, orders', req', now')
        PROVE  Alive(o, orders, req, now) /\ orders'[o].win = orders[o].win
    <2>1. /\ Goes(orders[o], orders'[o]) /\ (orders[o].resv = "NONE" => orders'[o].resv = "NONE")
          /\ orders[o].resv = "HELD" /\ orders'[o].resv = "SUPPLIER_CONFIRMED" => Alive(o, orders, req, now)
      BY DEF Onward
    <2> QED BY <1>1, <1>2, <1>3, <2>1, LivingShrinks
  <1> DEFINE S == Living(orders, req, now)
             T == Living(orders', req', now')
  <1>4. S \in SUBSET Orders /\ T \subseteq S /\ \A o \in T : orders'[o].win = orders[o].win
    BY <1>3 DEF Living
  <1> HIDE DEF S, T
  <1> SUFFICES Fitting(orders', T)
    BY DEF T
  <1>5. Fitting(orders, S)
    BY DEF S
  <1> QED BY <1>1, <1>4, <1>5, FewerFit

(* What a checkout is about to expire, or has expired, stays settled.      *)
LEMMA SweptStays ==
    ASSUME NEW rows \in [Orders -> Row], NEW next \in [Orders -> Row], NEW reqs, NEW other, NEW t \in Nat,
           NEW x, NEW y, Swept(x, rows, reqs), y.at = x.at, x.at \in Nat, x.at <= t,
           \/ y.step = "sweep" /\ y.stale = x.stale
           \/ (x.step = "sweep" => \A o \in x.stale : next[o].resv # "HELD"),
           \A o \in Orders : next[o].resv = "HELD" => next[o] = rows[o] \/ ~Answered(o, next, other),
           \A o \in Orders : Answered(o, next, other) => Answered(o, next, reqs) \/ next[o].hold > t
    PROVE  Swept(y, next, other)
  <1> SUFFICES ASSUME NEW o \in Orders, next[o].resv = "HELD", next[o].hold <= y.at, Answered(o, next, other)
               PROVE  y.step = "sweep" /\ o \in y.stale
    BY DEF Swept
  <1>1. next[o] = rows[o] /\ next[o].hold \in Nat
    BY DEF Row
  <1>2. Answered(o, next, reqs)
    BY <1>1
  <1>3. Answered(o, rows, reqs)
    BY <1>1, <1>2 DEF Answered
  <1>4. x.step = "sweep" /\ o \in x.stale
    BY <1>1, <1>3 DEF Swept
  <1> QED BY <1>1, <1>4

(* A held order that a step onward leaves is the one it was.               *)
LEMMA HeldStays == ASSUME Onward, NEW o \in Orders, orders'[o].resv = "HELD" PROVE orders'[o] = orders[o]
  BY DEF Onward, Goes
(* A checkout that found room, among all that is alive, overbooks nothing. *)
LEMMA PlacingFits ==
    ASSUME orders \in [Orders -> Row], NEW next \in [Orders -> Row], NEW L \in SUBSET Orders,
           NEW S \in SUBSET Orders, NEW T \in SUBSET Orders, T \subseteq S, T \subseteq L,
           \A p \in T : next[p].win = orders[p].win, Fitting(orders, L),
           NEW o \in Orders \ T, NEW w \in Windows, next[o].win = w,
           Fits(Taken(S), w, LotUnits) \/ FitsD1(Taken(S), w, LotUnits)
    PROVE  Fitting(next, T \cup {o})
  <1> SUFFICES ASSUME NEW t \in Int PROVE Load(next, T \cup {o}, t) <= LotUnits
    BY DEF Fitting
  <1>1. Load(next, T \cup {o}, t) = IF w.start <= t /\ t < w.end THEN Load(next, T, t) + w.units
                                    ELSE Load(next, T, t)
    BY LoadWith
  <1>2. Load(next, T, t) <= LotUnits
    <2>1. Fitting(next, T)
      BY FewerFit
    <2> QED BY <2>1 DEF Fitting
  <1>3. ASSUME w.start <= t, t < w.end PROVE Load(next, T, t) + w.units <= LotUnits
    <2>1. Load(orders, S, t) + w.units <= LotUnits
      BY <1>3, StartsAreEnough
    <2>2. /\ Load(orders, T, t) \in Nat /\ Load(orders, S, t) \in Nat
          /\ Load(orders, T, t) <= Load(orders, S, t)
      BY LoadGrows
    <2>3. Load(next, T, t) = Load(orders, T, t)
      BY LoadSame
    <2>4. w.units \in Nat /\ LotUnits \in Nat
      BY ExchangeAssumption
    <2> QED BY <2>1, <2>2, <2>3, <2>4
  <1> QED BY <1>1, <1>2, <1>3

(* A request of a D1 store moves on: the others are no worse off.          *)
LEMMA MoveKeeps ==
    ASSUME Kept, Books', now' = now, Capacity, store = "d1", store' = store, NEW r \in Requests, NEW x,
           req' = [req EXCEPT ![r] = x],
           \A o \in Orders : orders'[o].resv = "HELD" => orders'[o] = orders[o] \/ ~Answered(o, orders', req'),
           Fitting(orders', Living(orders', req', now')),
           x \in Answers => orders'[x.order].hold > now,
           x \in Checkouts =>
               \/ x.step = "sweep" /\ x.stale = Stale(now) /\ x.at = now /\ orders' = orders
               \/ /\ req[r] \in Checkouts /\ x.at = req[r].at
                  /\ req[r].step = "sweep" => \A o \in req[r].stale : orders'[o].resv # "HELD"
    PROVE  Capacity'
  <1>1. req'[r] = x /\ \A q \in Requests \ {r} : req'[q] = req[q]
    BY DEF Kept, Handlers
  <1>2. now \in Nat /\ orders \in [Orders -> Row] /\ orders' \in [Orders -> Row]
    BY ExchangeAssumption DEF Kept, Books, Rows
  <1>3. \A o \in Orders : Answered(o, orders', req') => Answered(o, orders', req) \/ orders'[o].hold > now
    BY <1>1 DEF Answered
  <1>4. ASSUME NEW q \in Requests, req[q] \in Checkouts
        PROVE  Swept(req[q], orders, req) /\ req[q].at \in Nat /\ req[q].at <= now
    BY <1>4, RequestKinds DEF Capacity, Kept, Handlers, Checkouts
  <1>5. ASSUME NEW q \in Requests \ {r}, req'[q] \in Checkouts PROVE Swept(req'[q], orders', req')
    <2>1. req[q] \in Checkouts /\ req'[q] = req[q]
      BY <1>1, <1>5
    <2> DEFINE y == req[q]
    <2>2. /\ Swept(y, orders, req) /\ y.at \in Nat /\ y.at <= now
      BY <1>4, <2>1
    <2>3. \/ y.step = "sweep" /\ y.stale = y.stale
          \/ (y.step = "sweep" => \A o \in y.stale : orders'[o].resv # "HELD")
      OBVIOUS
    <2> HIDE DEF y
    <2>4. Swept(y, orders', req')
      BY <1>2, <1>3, <2>2, <2>3, SweptStays
    <2> QED BY <2>1, <2>4 DEF y
  <1>6. ASSUME x \in Checkouts PROVE Swept(x, orders', req')
    <2>1. CASE x.step = "sweep" /\ x.stale = Stale(now) /\ x.at = now /\ orders' = orders
      BY <2>1 DEF Swept, Stale
    <2>2. CASE /\ req[r] \in Checkouts /\ x.at = req[r].at
               /\ req[r].step = "sweep" => \A o \in req[r].stale : orders'[o].resv # "HELD"
      <3> DEFINE y == req[r]
      <3>1. Swept(y, orders, req) /\ y.at \in Nat /\ y.at <= now
        BY <1>4, <2>2
      <3>2. /\ x.at = y.at
            /\ \/ x.step = "sweep" /\ x.stale = y.stale
               \/ (y.step = "sweep" => \A o \in y.stale : orders'[o].resv # "HELD")
        BY <2>2
      <3> HIDE DEF y
      <3> QED BY <1>2, <1>3, <3>1, <3>2, SweptStays
    <2> QED BY <1>6, <2>1, <2>2
  <1>7. \A q \in Requests : req'[q] \in Checkouts => Swept(req'[q], orders', req')
    BY <1>1, <1>5, <1>6
  <1> QED BY <1>7 DEF Capacity

(* A request that moves on with a step onward.                             *)
LEMMA OnwardKeeps ==
    ASSUME Kept, Books', now' = now, Capacity, store = "d1", store' = store, NEW r \in Requests, NEW x,
           req' = [req EXCEPT ![r] = x], Onward,
           x \in Answers => orders'[x.order].hold > now,
           x \in Checkouts =>
               \/ x.step = "sweep" /\ x.stale = Stale(now) /\ x.at = now /\ orders' = orders
               \/ /\ req[r] \in Checkouts /\ x.at = req[r].at
                  /\ req[r].step = "sweep" => \A o \in req[r].stale : orders'[o].resv # "HELD"
    PROVE  Capacity'
  <1>1. req'[r] = x /\ \A q \in Requests \ {r} : req'[q] = req[q]
    BY DEF Kept, Handlers
  <1>2. now \in Nat /\ now' \in Nat /\ now <= now' /\ Books
    BY ExchangeAssumption DEF Kept
  <1>3. Fitting(orders', Living(orders', req', now'))
    BY <1>1, <1>2, OnwardFits DEF Capacity
  <1>4. \A o \in Orders : orders'[o].resv = "HELD" => orders'[o] = orders[o]
    BY HeldStays
  <1> QED BY <1>3, <1>4, MoveKeeps

(* Nobody moves on.                                                        *)
LEMMA RestKeeps ==
    ASSUME Kept, Books', now' \in Nat, now <= now', Capacity, store' = store, req' = req, Onward
    PROVE  Capacity'
  <1>2. now \in Nat /\ Books /\ orders \in [Orders -> Row] /\ orders' \in [Orders -> Row]
    BY ExchangeAssumption DEF Kept, Books, Rows
  <1>3. Fitting(orders', Living(orders', req', now'))
    BY <1>2, OnwardFits DEF Capacity
  <1>4. ASSUME NEW q \in Requests, req[q] \in Checkouts
        PROVE  Swept(req[q], orders', req)
    <2> DEFINE y == req[q]
    <2>1. Swept(y, orders, req) /\ y.at \in Nat /\ y.at <= now
      BY <1>4, RequestKinds DEF Capacity, Kept, Handlers, Checkouts
    <2>2. \/ y.step = "sweep" /\ y.stale = y.stale
          \/ (y.step = "sweep" => \A o \in y.stale : orders'[o].resv # "HELD")
      OBVIOUS
    <2>3. \A o \in Orders : orders'[o].resv = "HELD" => orders'[o] = orders[o]
      BY HeldStays
    <2> HIDE DEF y
    <2> QED BY <1>2, <2>1, <2>2, <2>3, SweptStays DEF y
  <1> QED BY <1>3, <1>4 DEF Capacity

Moving == \A o \in Orders : Goes(orders[o], orders'[o])

(* Onward or placed.                                                       *)
LEMMA OnwardMoves == ASSUME Onward PROVE Moving
  BY DEF Onward, Moving

(* The order a checkout places.                                            *)
LEMMA PlacedGoes ==
    ASSUME NEW w, NEW h, NEW p
    PROVE  Goes(Absent, Placed(w, h, p)) /\ Placed(w, h, p).resv = "HELD" /\ Placed(w, h, p).win = w
  BY DEF Goes, Placed, Absent

(* On SQLite nobody's answer is under way, and what is counted is all that *)
(* is alive.                                                               *)
LEMMA SqliteCheckoutKeeps ==
    ASSUME Kept, Books', Capacity, NEW o \in Orders, NEW w \in Windows, SqliteCheckout(o, w)
    PROVE  Capacity' /\ Moving /\ now <= now'
  <1> DEFINE S == Stale(now)
             row == Placed(w, HoldUntil(w), "NONE")
             R == Reserving(now) \ Stale(now)
  <1>1. /\ store = "sqlite" /\ store' = store /\ now' = now /\ req' = req /\ orders[o] = Absent
        /\ Fits(Taken(R), w, LotUnits) /\ orders' = [ExpireRows(S) EXCEPT ![o] = row]
    BY DEF SqliteCheckout
  <1>2. /\ orders \in [Orders -> Row] /\ orders' \in [Orders -> Row] /\ now \in Nat
        /\ \A q \in Requests : req[q] = Idle
    BY <1>1, ExchangeAssumption DEF Kept, Books, Rows, Capacity
  <1>3. Absent.resv = "NONE"
    BY DEF Absent
  <1>4. o \notin S /\ o \notin R /\ S \subseteq Orders /\ R \subseteq Orders
    BY <1>1, <1>3 DEF Stale, Reserving
  <1>5. row.resv = "HELD" /\ row.win = w /\ Goes(orders[o], row)
    BY <1>1, PlacedGoes
  <1>6. ASSUME NEW p \in S
        PROVE  Expired(orders[p]).resv = "EXPIRED" /\ Goes(orders[p], Expired(orders[p]))
    <2>1. p \in Orders /\ orders[p] \in Row /\ orders[p].resv \in {"HELD", "SUPPLIER_CONFIRMED"}
      BY <1>2 DEF Stale
    <2>2. Expired(orders[p]).resv = "EXPIRED" /\ Expired(orders[p]).win = orders[p].win
      BY <2>1 DEF Expired, Row
    <2> QED BY <2>1, <2>2 DEF Goes
  <1> HIDE DEF row
  <1>7. /\ orders'[o] = row
        /\ \A p \in Orders \ {o} : p \in S => orders'[p] = Expired(orders[p])
        /\ \A p \in Orders \ {o} : p \notin S => orders'[p] = orders[p]
    BY <1>1 DEF ExpireRows
  <1>8. Moving
    <2>1. \A p \in Orders : Goes(orders[p], orders[p])
      BY DEF Goes
    <2> QED BY <1>4, <1>5, <1>6, <1>7, <2>1 DEF Moving
  <1>9. \A p \in Orders : ~Answered(p, orders, req) /\ ~Answered(p, orders', req')
    BY <1>1, <1>2, RequestKinds DEF Answered
  <1> DEFINE T == Living(orders', req', now') \ {o}
  <1>10. ASSUME NEW p \in T
         PROVE  p \in R /\ p \in Living(orders, req, now) /\ orders'[p].win = orders[p].win
    <2>1. p \in Orders \ {o} /\ Alive(p, orders', req', now)
      BY <1>1 DEF Living
    <2>2. p \notin S
      BY <1>6, <1>7, <2>1 DEF Alive
    <2>3. orders'[p] = orders[p] /\ Alive(p, orders, req, now) /\ ~Answered(p, orders, req)
      BY <1>7, <1>9, <2>1, <2>2 DEF Alive
    <2>4. p \in Reserving(now)
      BY <2>1, <2>3 DEF Alive, Reserving
    <2> QED BY <2>1, <2>2, <2>3, <2>4 DEF Living
  <1>11. Fitting(orders', Living(orders', req', now'))
    <2>1. Living(orders', req', now') = T \cup {o}
      <3>1. Alive(o, orders', req', now') \/ ~Alive(o, orders', req', now')
        OBVIOUS
      <3>2. orders'[o].hold > now
        <4>1. row.hold = HoldUntil(w)
          BY DEF row, Placed, Absent
        <4> QED BY <1>7, <4>1 DEF SqliteCheckout
      <3>3. Alive(o, orders', req', now')
        BY <1>1, <1>5, <1>7, <3>2 DEF Alive
      <3> QED BY <3>3 DEF Living
    <2> DEFINE L == Living(orders, req, now)
    <2>2. T \subseteq R /\ T \subseteq L /\ L \in SUBSET Orders /\ R \in SUBSET Orders /\ T \in SUBSET Orders
          /\ o \in Orders \ T /\ \A p \in T : orders'[p].win = orders[p].win
      BY <1>4, <1>10 DEF Living
    <2>3. orders'[o].win = w /\ Fitting(orders, L)
      BY <1>5, <1>7 DEF Capacity
    <2> HIDE DEF T, R, L
    <2>4. Fits(Taken(R), w, LotUnits)
      BY <1>1 DEF R
    <2>5. Fitting(orders', T \cup {o})
      BY <1>2, <2>2, <2>3, <2>4, PlacingFits
    <2> QED BY <2>1, <2>5
  <1>12. \A q \in Requests : req'[q] = Idle /\ req'[q] \notin Checkouts
    BY <1>1, <1>2, RequestKinds
  <1> QED BY <1>1, <1>2, <1>8, <1>11, <1>12 DEF Capacity

(* On D1 what is counted is what was alive when it was read: by then       *)
(* everything that lapsed, and might still be answered, has been expired.  *)
LEMMA PostCheckoutFits ==
    ASSUME Kept, Books', Capacity, NEW r \in Requests, D1PostCheckout(r)
    PROVE  Capacity' /\ Moving /\ now <= now'
  <1>1. /\ store = "d1" /\ store' = store /\ now' = now /\ req[r].step = "place"
        /\ req' = [req EXCEPT ![r] = Idle]
    BY DEF D1PostCheckout, At, Finish
  <1>2. /\ orders \in [Orders -> Row] /\ orders' \in [Orders -> Row] /\ now \in Nat /\ Books
    BY ExchangeAssumption DEF Kept, Books, Rows
  <1>3. req[r] \in Checkouts /\ req[r].at \in Nat /\ req[r].at <= now
        /\ req[r].order \in Orders /\ req[r].win \in Windows
    <2>1. req[r] \in Checkouts
      BY <1>1, HandlerAt DEF Kept, Handlers
    <2> QED BY <2>1, RequestKinds DEF Kept, Handlers, Checkouts
  <1>4. Idle \notin Answers /\ Idle \notin Checkouts
    BY RequestKinds
  <1>5. CASE orders' = orders
    <2>1. Onward /\ Moving
      BY <1>5, NoneOnward, OnwardMoves
    <2>2. Capacity'
      BY <1>1, <1>4, <2>1, OnwardKeeps
    <2> QED BY <1>1, <1>2, <2>1, <2>2
  <1>6. CASE orders' # orders
    <2> DEFINE o == req[r].order
               w == req[r].win
               row == Placed(w, req[r].hold, "AWAITING_SUPPLIER")
               R == Reserving(req[r].at)
               L == Living(orders, req, now)
    <2>1. /\ orders[o] = Absent /\ FitsD1(Taken(R), w, LotUnits) /\ orders' = [orders EXCEPT ![o] = row]
      BY <1>6 DEF D1PostCheckout
    <2>2. row.resv = "HELD" /\ row.win = w /\ Goes(orders[o], row) /\ orders[o].resv = "NONE"
      BY <2>1, PlacedGoes DEF Absent
    <2> HIDE DEF row
    <2>3. orders'[o] = row /\ \A p \in Orders \ {o} : orders'[p] = orders[p]
      BY <1>2, <1>3, <2>1
    <2>4. Moving
      <3>1. \A p \in Orders : Goes(orders[p], orders[p])
        BY DEF Goes
      <3> QED BY <2>2, <2>3, <3>1 DEF Moving
    <2>5. ASSUME NEW p \in Orders, Answered(p, orders', req')
          PROVE  Answered(p, orders', req) /\ p # o
      <3>1. PICK q \in Requests : req'[q] \in Answers /\ req'[q].order = p /\ req'[q].at < orders'[p].hold
        BY <2>5 DEF Answered
      <3>2. q # r /\ req'[q] = req[q]
        BY <1>1, <1>4, <3>1 DEF Kept, Handlers
      <3>3. req[q].step = "confirm"
        BY <3>1, <3>2 DEF Answers
      <3>4. orders[p].resv # "NONE"
        BY <3>1, <3>2, <3>3, HandlerAt DEF Kept, Handlers
      <3> QED BY <2>2, <3>1, <3>2, <3>4 DEF Answered
    <2> DEFINE T == Living(orders', req', now') \ {o}
    <2>6. ASSUME NEW p \in T
          PROVE  p \in R /\ p \in L /\ orders'[p].win = orders[p].win
      <3>1. p \in Orders \ {o} /\ Alive(p, orders', req', now) /\ orders'[p] = orders[p]
        BY <1>1, <2>3 DEF Living
      <3>2. Alive(p, orders, req, now)
        BY <2>5, <3>1 DEF Alive, Answered
      <3>3. orders[p].hold \in Nat
        BY <1>2, <3>1 DEF Row
      <3>4. Swept(req[r], orders, req) /\ req[r].step # "sweep"
        BY <1>1, <1>3 DEF Capacity
      <3>5. p \in R
        <4>1. CASE orders[p].resv \in {"SUPPLIER_CONFIRMED", "COMMITTED"}
          BY <3>1, <4>1 DEF Reserving
        <4>2. CASE orders[p].resv = "HELD" /\ orders[p].hold > now
          BY <1>2, <1>3, <3>1, <3>3, <4>2 DEF Reserving
        <4>3. CASE orders[p].resv = "HELD" /\ Answered(p, orders, req)
          BY <1>3, <3>1, <3>3, <3>4, <4>3 DEF Swept, Reserving
        <4> QED BY <3>2, <4>1, <4>2, <4>3 DEF Alive
      <3> QED BY <3>1, <3>2, <3>5 DEF Living
    <2>7. Fitting(orders', T \cup {o})
      <3>1. T \subseteq R /\ T \subseteq L /\ L \in SUBSET Orders /\ R \in SUBSET Orders
            /\ T \in SUBSET Orders /\ o \in Orders \ T /\ \A p \in T : orders'[p].win = orders[p].win
        BY <1>3, <2>6 DEF Living, Reserving
      <3>2. orders'[o].win = w /\ Fitting(orders, L) /\ w \in Windows
        BY <1>3, <2>2, <2>3 DEF Capacity
      <3>3. FitsD1(Taken(R), w, LotUnits)
        BY <2>1
      <3> HIDE DEF T, R, L, o, w
      <3> QED BY <1>2, <3>1, <3>2, <3>3, PlacingFits
    <2>8. Fitting(orders', Living(orders', req', now'))
      <3> DEFINE N == Living(orders', req', now')
      <3>1. N \subseteq T \cup {o} /\ T \cup {o} \in SUBSET Orders
        BY <1>3 DEF Living
      <3> HIDE DEF N, T, o
      <3>2. Fitting(orders', N)
        BY <1>2, <2>7, <3>1, FewerFit
      <3> QED BY <3>2 DEF N
    <2>9. \A p \in Orders : orders'[p].resv = "HELD" => orders'[p] = orders[p] \/ ~Answered(p, orders', req')
      BY <2>3, <2>5
    <2>10. Capacity'
      BY <1>1, <1>4, <2>8, <2>9, MoveKeeps
    <2> QED BY <1>1, <1>2, <2>4, <2>10
  <1> QED BY <1>5, <1>6

(* A request that goes on neither as a checkout nor as an answer.          *)
LEMMA OthersKeep ==
    ASSUME Kept, Books', now' = now, Capacity, store = "d1", store' = store, NEW r \in Requests, NEW x,
           req' = [req EXCEPT ![r] = x], Onward,
           x = Idle \/ (x.op # "checkout" /\ x.step # "confirm")
    PROVE  Capacity'
  <1>1. x \notin Checkouts /\ x \notin Answers
    <2>1. \A y \in Checkouts : y.op = "checkout"
      BY DEF Checkouts
    <2>2. \A y \in Answers : y.step = "confirm"
      BY DEF Answers
    <2> QED BY <2>1, <2>2, RequestKinds
  <1> QED BY <1>1, OnwardKeeps

(* The reads: a checkout knows all that is stale, an answer is about an    *)
(* order with time left.                                                   *)
LEMMA ReadsKeepCapacity ==
    ASSUME Kept, Books', Capacity, NEW r \in Requests,
           \/ \E o \in Orders, w \in Windows : D1ReadOffer(r, o, w)
           \/ D1ReadInventory(r)
           \/ \E o \in Orders, yes \in BOOLEAN : D1ReadConfirm(r, o, yes)
           \/ \E e \in Events, o \in Orders, t \in Transactions, matches \in BOOLEAN :
                  D1ReadEvent(r, e, o, t, matches)
    PROVE  Capacity' /\ orders' = orders /\ now' = now
  <1>a. ASSUME NEW x, Asks(r, x)
        PROVE  /\ store = "d1" /\ store' = store /\ now' = now /\ orders' = orders
               /\ req' = [req EXCEPT ![r] = x] /\ Onward
    BY <1>a, NoneOnward DEF Asks
  <1>1. ASSUME NEW o \in Orders, NEW w \in Windows, D1ReadOffer(r, o, w)
        PROVE  Capacity' /\ orders' = orders /\ now' = now
    <2> DEFINE x == [step |-> "sweep", op |-> "checkout", order |-> o, win |-> w, at |-> now,
                     stale |-> Stale(now), hold |-> 0]
    <2>1. Asks(r, x)
      BY <1>1 DEF D1ReadOffer
    <2>2. x.step = "sweep" /\ x.stale = Stale(now) /\ x.at = now /\ x \notin Answers
      <3>1. \A y \in Answers : y.step = "confirm"
        BY DEF Answers
      <3> QED BY <3>1
    <2> HIDE DEF x
    <2> QED BY <1>a, <2>1, <2>2, OnwardKeeps
  <1>2. ASSUME D1ReadInventory(r)
        PROVE  Capacity' /\ orders' = orders /\ now' = now
    <2> DEFINE x == [step |-> "sweep", op |-> "quote", at |-> now, stale |-> Stale(now)]
    <2>1. Asks(r, x)
      BY <1>2 DEF D1ReadInventory
    <2>2. x.op = "quote" /\ x.step = "sweep"
      OBVIOUS
    <2> HIDE DEF x
    <2> QED BY <1>a, <2>1, <2>2, OthersKeep
  <1>3. ASSUME NEW o \in Orders, NEW yes \in BOOLEAN, D1ReadConfirm(r, o, yes)
        PROVE  Capacity' /\ orders' = orders /\ now' = now
    <2>1. CASE orders[o].hold <= now
      <3> DEFINE x == [step |-> "sweep", op |-> "confirm", at |-> now, stale |-> {o}]
      <3>1. Asks(r, x)
        BY <1>3, <2>1 DEF D1ReadConfirm
      <3>2. x.op = "confirm" /\ x.step = "sweep"
        OBVIOUS
      <3> HIDE DEF x
      <3> QED BY <1>a, <3>1, <3>2, OthersKeep
    <2>2. CASE ~(orders[o].hold <= now)
      <3> DEFINE x == [step |-> "confirm", op |-> "confirm", order |-> o, accept |-> yes,
                       at |-> now, hold |-> PaymentHold(o)]
      <3>1. Asks(r, x)
        BY <1>3, <2>2 DEF D1ReadConfirm
      <3>2. x.order = o /\ x \notin Checkouts
        <4>1. \A y \in Checkouts : y.op = "checkout"
          BY DEF Checkouts
        <4> QED BY <4>1
      <3>3. orders[o].hold \in Nat /\ now \in Nat
        BY ExchangeAssumption DEF Kept, Books, Rows, Row
      <3> HIDE DEF x
      <3>4. orders'[x.order].hold > now
        BY <1>a, <2>2, <3>1, <3>2, <3>3
      <3> QED BY <1>a, <3>1, <3>2, <3>4, OnwardKeeps
    <2> QED BY <2>1, <2>2
  <1>4. ASSUME NEW e \in Events, NEW o \in Orders, NEW t \in Transactions, NEW matches \in BOOLEAN,
               D1ReadEvent(r, e, o, t, matches)
        PROVE  Capacity' /\ orders' = orders /\ now' = now
    <2> DEFINE x == [step |-> IF matches THEN "intent" ELSE "record", op |-> "payment",
                     event |-> e, order |-> o, txn |-> t, at |-> now, intent |-> "NONE",
                     stale |-> {}, outcome |-> IF matches THEN "APPLIED" ELSE "REVIEW_REQUIRED"]
    <2>1. x.op = "payment" /\ x.step \in {"intent", "record"} /\ Asks(r, x)
      BY <1>4 DEF D1ReadEvent
    <2> HIDE DEF x
    <2> QED BY <1>a, <2>1, OthersKeep
  <1> QED BY <1>1, <1>2, <1>3, <1>4

(* Between its reads and its batch a request keeps the clock it counts by; *)
(* the payment alone reads it again.                                       *)
LEMMA StepsKeepCapacity ==
    ASSUME Kept, Books', Capacity, NEW r \in Requests,
           \/ D1ReadIntent(r) \/ D1ReadOrder(r) \/ D1ReadSource(r) \/ D1DrawUp(r)
           \/ D1ExplainRefusal(r) \/ D1RereadIntent(r) \/ D1RereadOrder(r) \/ D1Record(r)
    PROVE  Capacity' /\ orders' = orders /\ now' = now
  <1>f. /\ store = "d1" /\ store' = store /\ now' = now /\ orders' = orders
        /\ Handles(req[r], orders)
    BY DEF D1ReadIntent, D1ReadOrder, D1ReadSource, D1DrawUp, D1ExplainRefusal, D1RereadIntent,
           D1RereadOrder, D1Record, At, Kept, Handlers
  <1>o. Onward
    BY <1>f, NoneOnward
  <1>i. ASSUME req' = [req EXCEPT ![r] = Idle] PROVE Capacity'
    BY <1>f, <1>i, <1>o, OthersKeep
  <1>p. ASSUME req[r].step \in PaymentSteps, NEW x, req' = [req EXCEPT ![r] = x], x.op = "payment",
               x.step \in {"capture", "order"}
        PROVE  Capacity'
    BY <1>f, <1>o, <1>p, OthersKeep
  <1>s. ASSUME req[r].step \in PaymentSteps,
               NEW step \in {"record", "sweep"} \cup PaymentSteps, NEW outcome, NEW stale,
               req' = [req EXCEPT ![r].step = step, ![r].outcome = outcome, ![r].stale = stale]
        PROVE  Capacity'
    <2>1. req[r] \in Payments
      BY <1>f, <1>s, HandlerAt
    <2> DEFINE x == [req[r] EXCEPT !.step = step, !.outcome = outcome, !.stale = stale]
    <2>2. x.op = "payment" /\ x.step = step
      BY <2>1 DEF Payments
    <2>3. req' = [req EXCEPT ![r] = x]
      BY <1>s
    <2> HIDE DEF x
    <2> QED BY <1>f, <1>o, <1>s, <2>2, <2>3, OthersKeep DEF PaymentSteps
  <1>d. ASSUME req[r].step \in PaymentSteps, NEW step \in {"record", "source"}, NEW outcome,
               Decide(r, step, outcome)
        PROVE  Capacity'
    <2>1. req[r] \in Payments
      BY <1>f, <1>d, HandlerAt
    <2>2. req' = [req EXCEPT ![r].step = step, ![r].outcome = outcome, ![r].stale = req[r].stale]
      BY <1>d, <2>1 DEF Decide, Payments
    <2> QED BY <1>d, <1>s, <2>2 DEF PaymentSteps
  <1>g. ASSUME req[r].step \in PaymentSteps, NEW step \in PaymentSteps, Goto(r, step)
        PROVE  Capacity'
    <2>1. req[r] \in Payments
      BY <1>f, <1>g, HandlerAt
    <2>2. req' = [req EXCEPT ![r].step = step, ![r].outcome = req[r].outcome, ![r].stale = req[r].stale]
      BY <1>g, <2>1 DEF Goto, Payments
    <2> QED BY <1>g, <1>s, <2>2
  <1>1. ASSUME D1ReadSource(r) \/ D1ReadIntent(r) PROVE Capacity'
    <2>0. req[r].step \in PaymentSteps
      BY <1>1 DEF D1ReadSource, D1ReadIntent, At, PaymentSteps
    <2>1. req[r] \in Payments
      BY <1>f, <2>0, HandlerAt
    <2>2. CASE D1ReadSource(r)
      <3> DEFINE x == [req[r] EXCEPT !.step = "capture", !.at = now]
      <3>1. req' = [req EXCEPT ![r] = x] /\ x.op = "payment" /\ x.step = "capture"
        BY <2>1, <2>2 DEF D1ReadSource, Payments
      <3> HIDE DEF x
      <3> QED BY <1>p, <2>0, <3>1
    <2>3. CASE D1ReadIntent(r)
      <3> DEFINE x == [req[r] EXCEPT !.step = "order", !.at = now, !.intent = orders[req[r].order].intent]
      <3>1. req' = [req EXCEPT ![r] = x] /\ x.op = "payment" /\ x.step = "order"
        BY <2>1, <2>3 DEF D1ReadIntent, Payments
      <3> HIDE DEF x
      <3> QED BY <1>p, <2>0, <3>1
    <2> QED BY <1>1, <2>2, <2>3
  <1>2. ASSUME D1DrawUp(r) PROVE Capacity'
    <2>1. CASE HoldUntil(req[r].win) > now
      <3> DEFINE x == [req[r] EXCEPT !.step = "place", !.hold = HoldUntil(req[r].win)]
      <3>1. req[r] \in Checkouts /\ req[r].step = "draw"
        BY <1>2, <1>f, HandlerAt DEF D1DrawUp, At
      <3>2. x.at = req[r].at /\ x.step = "place"
        BY <3>1 DEF Checkouts
      <3>3. req' = [req EXCEPT ![r] = x]
        BY <1>2, <2>1 DEF D1DrawUp
      <3> HIDE DEF x
      <3>4. x \notin Answers
        BY <3>2 DEF Answers
      <3> QED BY <1>f, <1>o, <3>1, <3>2, <3>3, <3>4, OnwardKeeps
    <2>2. CASE ~(HoldUntil(req[r].win) > now)
      BY <1>2, <1>i, <2>2 DEF D1DrawUp, Finish
    <2> QED BY <2>1, <2>2
  <1>3. ASSUME D1ReadOrder(r) \/ D1ExplainRefusal(r) \/ D1RereadIntent(r) \/ D1RereadOrder(r)
        PROVE  Capacity'
    <2>0. req[r].step \in PaymentSteps /\ {"recheck", "restate"} \subseteq PaymentSteps
      BY <1>3 DEF D1ReadOrder, D1ExplainRefusal, D1RereadIntent, D1RereadOrder, At, PaymentSteps
    <2>1. \/ \E step \in {"record", "source"}, outcome \in Outcomes : Decide(r, step, outcome)
          \/ \E step \in {"recheck", "restate"} : Goto(r, step)
          \/ req' = [req EXCEPT ![r] = Idle]
          \/ req' = [req EXCEPT ![r].step = "sweep", ![r].outcome = "LATE_CAPTURE_REVIEW",
                                ![r].stale = Stale(req[r].at) \cap {req[r].order}]
      BY <1>3 DEF D1ReadOrder, D1ExplainRefusal, D1RereadIntent, D1RereadOrder, Finish, Outcomes
    <2> QED BY <1>d, <1>g, <1>i, <1>s, <2>0, <2>1
  <1>4. ASSUME D1Record(r) PROVE Capacity'
    BY <1>4, <1>i DEF D1Record, Finish
  <1> QED BY <1>1, <1>2, <1>3, <1>4, <1>f

(* A sweep is all or nothing: a checkout goes on when all it had to expire *)
(* has expired.                                                            *)
LEMMA SweepKeepsCapacity ==
    ASSUME Kept, Books', Capacity, NEW r \in Requests, D1PostSweep(r)
    PROVE  Capacity' /\ Moving /\ now' = now
  <1>f. /\ store = "d1" /\ store' = store /\ now' = now /\ Rows /\ req[r].step = "sweep"
        /\ Handles(req[r], orders)
    BY DEF D1PostSweep, At, Kept, Handlers, Books
  <1>i. ASSUME req' = [req EXCEPT ![r] = Idle], Onward PROVE Capacity'
    BY <1>f, <1>i, OthersKeep
  <1>1. CASE req[r].stale \subseteq Stale(req[r].at)
    <2>1. orders' = ExpireRows(req[r].stale)
      BY <1>1 DEF D1PostSweep
    <2>2. Onward /\ \A o \in req[r].stale : orders'[o].resv # "HELD"
      BY <1>1, <1>f, <2>1, SweepOnward
    <2>3. CASE req[r] \in Checkouts
      <3> DEFINE x == [req[r] EXCEPT !.step = "draw"]
      <3>1. x.at = req[r].at /\ x.step = "draw" /\ req[r].op = "checkout"
        BY <2>3 DEF Checkouts
      <3>2. req' = [req EXCEPT ![r] = x]
        BY <1>1, <3>1 DEF D1PostSweep, Goto
      <3> HIDE DEF x
      <3>3. x \notin Answers
        BY <3>1 DEF Answers
      <3>4. Capacity'
        BY <1>f, <2>2, <2>3, <3>1, <3>2, <3>3, OnwardKeeps
      <3> QED BY <1>f, <2>2, <3>4, OnwardMoves
    <2>4. CASE req[r] \in Payments
      <3> DEFINE x == [req[r] EXCEPT !.step = "record"]
      <3>1. x.op = "payment" /\ x.step = "record" /\ req[r].op = "payment"
        BY <2>4 DEF Payments
      <3>2. req' = [req EXCEPT ![r] = x]
        BY <1>1, <3>1 DEF D1PostSweep, Goto
      <3> HIDE DEF x
      <3>3. Capacity'
        BY <1>f, <2>2, <3>1, <3>2, OthersKeep
      <3> QED BY <1>f, <2>2, <3>3, OnwardMoves
    <2>5. CASE req[r] \in Surveys
      <3>1. req[r].op \in {"quote", "confirm"}
        BY <2>5 DEF Surveys
      <3>2. req' = [req EXCEPT ![r] = Idle]
        BY <1>1, <3>1 DEF D1PostSweep, Finish
      <3> QED BY <1>f, <1>i, <2>2, <3>2, OnwardMoves
    <2> QED BY <1>f, <2>3, <2>4, <2>5, HandlerAt
  <1>2. CASE ~(req[r].stale \subseteq Stale(req[r].at))
    <2>1. req' = [req EXCEPT ![r] = Idle] /\ orders' = orders
      BY <1>2 DEF D1PostSweep, Finish
    <2>2. Onward
      BY <2>1, NoneOnward
    <2> QED BY <1>f, <1>i, <2>1, <2>2, OnwardMoves
  <1> QED BY <1>1, <1>2

(* An answer finds an order that was read in time, and a capture one that  *)
(* is confirmed.                                                           *)
LEMMA AnswersKeepCapacity ==
    ASSUME Kept, Books', Capacity, NEW r \in Requests, D1PostConfirm(r) \/ D1PostCapture(r)
    PROVE  Capacity' /\ Moving /\ now' = now
  <1>f. /\ store = "d1" /\ store' = store /\ now' = now /\ Rows /\ Handles(req[r], orders)
        /\ orders \in [Orders -> Row]
    BY DEF D1PostConfirm, D1PostCapture, At, Kept, Handlers, Books, Rows
  <1> DEFINE o == req[r].order
  <1>i. ASSUME req' = [req EXCEPT ![r] = Idle], Onward PROVE Capacity' /\ Moving /\ now' = now
    BY <1>f, <1>i, OthersKeep, OnwardMoves
  <1>n. orders' = orders => Onward
    BY NoneOnward
  <1>1. ASSUME D1PostConfirm(r) PROVE Capacity' /\ Moving /\ now' = now
    <2>1. req[r] \in Answers /\ req' = [req EXCEPT ![r] = Idle]
      BY <1>1, <1>f, HandlerAt DEF D1PostConfirm, At, Finish
    <2>2. CASE orders' = orders
      BY <1>i, <1>n, <2>1, <2>2
    <2>3. CASE orders' # orders
      <3>1. /\ orders[o].resv = "HELD" /\ orders[o].hold > req[r].at /\ o \in Orders
            /\ req[r].at \in Nat /\ orders[o] \in Row /\ orders[o].hold \in Nat
        BY <1>1, <1>f, <2>1, <2>3 DEF D1PostConfirm, Answers, Row
      <3>2. Alive(o, orders, req, now)
        BY <2>1, <3>1 DEF Alive, Answered
      <3>3. PICK row \in {Confirmed(orders[o], req[r].hold), Rejected(orders[o])} :
                orders' = [orders EXCEPT ![o] = row]
        BY <1>1, <2>3 DEF D1PostConfirm
      <3>4. Goes(orders[o], row)
        BY <3>1, <3>3, RowsGo
      <3> HIDE DEF o
      <3>5. Onward
        BY <1>f, <3>1, <3>2, <3>3, <3>4, OneOnward
      <3> QED BY <1>i, <2>1, <3>5
    <2> QED BY <2>2, <2>3
  <1>2. ASSUME D1PostCapture(r) PROVE Capacity' /\ Moving /\ now' = now
    <2>1. req[r] \in Payments /\ req[r].op = "payment" /\ o \in Orders
      <3>1. req[r] \in Payments
        BY <1>2, <1>f, HandlerAt DEF D1PostCapture, At, PaymentSteps
      <3> QED BY <3>1 DEF Payments
    <2>2. CASE /\ events[req[r].event] = NoEvent /\ ~Applied(req[r].txn) /\ Payable(o, req[r].at)
      <3>1. /\ orders[o].resv = "SUPPLIER_CONFIRMED" /\ orders[o] \in Row
            /\ orders' = [orders EXCEPT ![o] = Captured(orders[o])] /\ req' = [req EXCEPT ![r] = Idle]
        BY <1>2, <1>f, <2>1, <2>2 DEF D1PostCapture, Payable, Standing, Finish
      <3>2. Goes(orders[o], Captured(orders[o]))
        BY <3>1, RowsGo
      <3> HIDE DEF o
      <3>3. Onward
        BY <1>f, <2>1, <3>1, <3>2, OneOnward
      <3> QED BY <1>i, <3>1, <3>3
    <2>3. CASE ~(/\ events[req[r].event] = NoEvent /\ ~Applied(req[r].txn) /\ Payable(o, req[r].at))
      <3> DEFINE x == [req[r] EXCEPT !.step = "refused"]
      <3>1. orders' = orders /\ req' = [req EXCEPT ![r] = x]
        BY <1>2, <2>3 DEF D1PostCapture, Goto
      <3>2. x.op = "payment" /\ x.step = "refused"
        BY <2>1 DEF Payments
      <3> HIDE DEF x
      <3>3. Onward
        BY <1>n, <3>1
      <3>4. Capacity'
        BY <1>f, <3>1, <3>2, <3>3, OthersKeep
      <3> QED BY <1>f, <3>3, <3>4, OnwardMoves
    <2> QED BY <2>2, <2>3
  <1> QED BY <1>1, <1>2

(* The steps of the SQLite store.                                          *)
LEMMA SqliteKeepsCapacity ==
    ASSUME Kept, Books', Capacity, Sqlite
    PROVE  Capacity' /\ Moving /\ now <= now'
  <1>k. now \in Nat /\ Rows /\ orders \in [Orders -> Row]
    BY ExchangeAssumption DEF Kept, Books, Rows
  <1>r. ASSUME now' = now, store' = store, req' = req, Onward PROVE Capacity' /\ Moving /\ now <= now'
    <2>1. now' \in Nat /\ now <= now'
      BY <1>k, <1>r
    <2> QED BY <1>r, <2>1, RestKeeps, OnwardMoves
  <1>1. ASSUME NEW o \in Orders, NEW w \in Windows, SqliteCheckout(o, w)
        PROVE  Capacity' /\ Moving /\ now <= now'
    BY <1>1, SqliteCheckoutKeeps
  <1>2. ASSUME SqliteExpire PROVE Capacity' /\ Moving /\ now <= now'
    <2>1. Onward
      BY <1>2, <1>k, SweepOnward DEF SqliteExpire
    <2> QED BY <1>2, <1>r, <2>1 DEF SqliteExpire
  <1>3. ASSUME NEW o \in Orders, NEW yes \in BOOLEAN, SqliteConfirm(o, yes)
        PROVE  Capacity' /\ Moving /\ now <= now'
    <2>1. /\ orders[o].resv = "HELD" /\ orders[o].hold > now /\ orders[o] \in Row
      BY <1>3, <1>k DEF SqliteConfirm
    <2>2. Alive(o, orders, req, now)
      BY <2>1 DEF Alive
    <2>3. PICK row \in {Confirmed(orders[o], PaymentHold(o)), Rejected(orders[o])} :
              orders' = [orders EXCEPT ![o] = row]
      BY <1>3 DEF SqliteConfirm
    <2>4. Goes(orders[o], row)
      BY <2>1, <2>3, RowsGo
    <2>5. Onward
      BY <1>k, <2>1, <2>2, <2>3, <2>4, OneOnward
    <2> QED BY <1>3, <1>r, <2>5 DEF SqliteConfirm
  <1>4. ASSUME NEW e \in Events, NEW o \in Orders, NEW t \in Transactions, NEW matches \in BOOLEAN,
               SqlitePayment(e, o, t, matches)
        PROVE  Capacity' /\ Moving /\ now <= now'
    <2>1. CASE orders' = orders
      BY <1>4, <1>r, <2>1, NoneOnward DEF SqlitePayment
    <2>2. ASSUME NEW stale, stale \subseteq Stale(now), orders' = ExpireRows(stale)
          PROVE  Capacity' /\ Moving /\ now <= now'
      <3>1. Onward
        BY <1>k, <2>2, SweepOnward
      <3> QED BY <1>4, <1>r, <3>1 DEF SqlitePayment
    <2>3. CASE Payable(o, now) /\ orders' = [orders EXCEPT ![o] = Captured(@)]
      <3>1. orders[o].resv = "SUPPLIER_CONFIRMED" /\ orders' = [orders EXCEPT ![o] = Captured(orders[o])]
        BY <2>3 DEF Payable, Standing
      <3>2. Goes(orders[o], Captured(orders[o]))
        BY <1>k, <3>1, RowsGo
      <3>3. Onward
        BY <1>k, <3>1, <3>2, OneOnward
      <3> QED BY <1>4, <1>r, <3>3 DEF SqlitePayment
    <2>4. \/ orders' = orders
          \/ \E stale \in {Stale(now), {}} : orders' = ExpireRows(stale)
          \/ Payable(o, now) /\ orders' = [orders EXCEPT ![o] = Captured(@)]
      BY <1>4 DEF SqlitePayment
    <2> QED BY <2>1, <2>2, <2>3, <2>4
  <1> QED BY <1>1, <1>2, <1>3, <1>4 DEF Sqlite

(* Every step keeps the capacity of the lot, and moves each reservation    *)
(* along its path.                                                         *)
LEMMA CapacityStep ==
    ASSUME Kept, Books', Capacity, [Next]_vars
    PROVE  Capacity' /\ Moving /\ now <= now'
  <1>k. now \in Nat
    BY ExchangeAssumption DEF Kept
  <1>r. ASSUME now' \in {now, now + 1}, store' = store, req' = req, orders' = orders
        PROVE Capacity' /\ Moving /\ now <= now'
    <2>1. now' \in Nat /\ now <= now'
      BY <1>k, <1>r
    <2>2. Onward
      BY <1>r, NoneOnward
    <2> QED BY <1>r, <2>1, <2>2, RestKeeps, OnwardMoves
  <1>1. ASSUME NEW r \in Requests, D1(r) PROVE Capacity' /\ Moving /\ now <= now'
    <2>1. CASE \/ \E o \in Orders, w \in Windows : D1ReadOffer(r, o, w)
               \/ D1ReadInventory(r)
               \/ \E o \in Orders, yes \in BOOLEAN : D1ReadConfirm(r, o, yes)
               \/ \E e \in Events, o \in Orders, t \in Transactions, matches \in BOOLEAN :
                      D1ReadEvent(r, e, o, t, matches)
      BY <1>k, <2>1, ReadsKeepCapacity, NoneOnward, OnwardMoves
    <2>2. CASE \/ D1ReadIntent(r) \/ D1ReadOrder(r) \/ D1ReadSource(r) \/ D1DrawUp(r)
               \/ D1ExplainRefusal(r) \/ D1RereadIntent(r) \/ D1RereadOrder(r) \/ D1Record(r)
      BY <1>k, <2>2, StepsKeepCapacity, NoneOnward, OnwardMoves
    <2>3. CASE D1PostSweep(r)
      BY <1>k, <2>3, SweepKeepsCapacity
    <2>4. CASE D1PostCheckout(r)
      BY <2>4, PostCheckoutFits
    <2>5. CASE D1PostConfirm(r) \/ D1PostCapture(r)
      BY <1>k, <2>5, AnswersKeepCapacity
    <2> QED BY <1>1, <2>1, <2>2, <2>3, <2>4, <2>5 DEF D1
  <1>2. CASE Tick \/ UNCHANGED vars
    BY <1>2, <1>r DEF Tick, vars
  <1> QED BY <1>1, <1>2, SqliteKeepsCapacity DEF Next

(* At the beginning nobody is alive.                                       *)
LEMMA CapacityInit == Init => Capacity
  <1> SUFFICES ASSUME Init PROVE Capacity
    OBVIOUS
  <1>1. Living(orders, req, now) = {}
    BY DEF Init, Living, Alive, Absent
  <1>2. ASSUME NEW t PROVE Load(orders, {}, t) = 0
    <2>1. Busy(orders, {}, t) = {}
      BY DEF Busy
    <2> QED BY <2>1, SumOfNothing DEF Load
  <1>3. Fitting(orders, Living(orders, req, now))
    BY <1>1, <1>2, ExchangeAssumption DEF Fitting
  <1>4. \A r \in Requests : req[r] = Idle /\ req[r] \notin Checkouts
    BY RequestKinds DEF Init
  <1> QED BY <1>3, <1>4 DEF Capacity

-----------------------------------------------------------------------------
(* The promise.                                                            *)

(* What fits the lot is never oversold.                                    *)
LEMMA NeverOversoldHere == ASSUME Kept, Capacity PROVE Promise!NeverOversold
  <1>1. orders \in [Orders -> Row]
    BY DEF Kept, Books, Rows
  <1> DEFINE L == Living(orders, req, now)
  <1>2. L \in SUBSET Orders /\ Sold \subseteq L
    <2>1. ASSUME NEW o \in Sold PROVE o \in L
      <3>1. o \in Orders /\ Stage(o) \in {"held", "confirmed", "paid"}
        BY DEF Sold
      <3>2. orders[o].resv \in {"SUPPLIER_CONFIRMED", "COMMITTED"}
            \/ (orders[o].resv = "HELD" /\ orders[o].hold > now)
        BY <1>1, <3>1 DEF Stage, Row
      <3> QED BY <3>1, <3>2 DEF Living, Alive
    <2> QED BY <2>1 DEF Living
  <1> HIDE DEF L
  <1>3. Fitting(orders, Sold)
    <2>1. Fitting(orders, L)
      BY DEF Capacity, L
    <2> QED BY <1>1, <1>2, <2>1, FewerFit
  <1>4. \A t \in Slots : t \in Int
    <2>1. \A w \in Windows : w.start \in Int /\ w.end \in Int
      BY ExchangeAssumption
    <2> QED BY <2>1 DEF Slots
  <1> QED BY <1>3, <1>4, PromisedLoad DEF Fitting

(* The stages of an order follow its reservation and the clock.            *)
LEMMA StagesGo ==
    ASSUME Kept, Kept', Moving, now <= now', NEW o \in Orders
    PROVE  Promise!Goes(Stage(o), Stage(o)')
  <1>1. /\ orders[o] \in Row /\ orders'[o] \in Row /\ now \in Nat /\ now' \in Nat
        /\ orders[o].hold \in Nat /\ orders'[o].hold \in Nat
    BY ExchangeAssumption DEF Kept, Books, Rows, Row
  <1>2. Goes(orders[o], orders'[o])
    BY DEF Moving
  <1>3. CASE orders'[o] = orders[o]
    BY <1>1, <1>3 DEF Stage, Promise!Goes
  <1>4. CASE orders[o].resv = "NONE" /\ orders'[o].resv = "HELD"
    BY <1>4 DEF Stage, Promise!Goes
  <1>5. CASE orders[o].resv = "HELD" /\ orders'[o].resv \in {"SUPPLIER_CONFIRMED", "RELEASED", "EXPIRED"}
    BY <1>5 DEF Stage, Promise!Goes
  <1>6. CASE orders[o].resv = "SUPPLIER_CONFIRMED" /\ orders'[o].resv \in {"COMMITTED", "EXPIRED"}
    BY <1>6 DEF Stage, Promise!Goes
  <1> QED BY <1>2, <1>3, <1>4, <1>5, <1>6 DEF Goes

PaidWhenCaptured == \A o \in Orders : Stage(o) = "paid" <=> orders[o].intent = "CAPTURED"

(* An order is paid when its payment is captured.                          *)
LEMMA PaidIsCaptured == Books => PaidWhenCaptured
  <1> USE DEF PaidWhenCaptured
  <1> SUFFICES ASSUME Books, NEW o \in Orders PROVE Stage(o) = "paid" <=> orders[o].intent = "CAPTURED"
    OBVIOUS
  <1>1. orders[o] \in Row /\ Consistent(orders[o])
    BY DEF Books, Rows, Sound
  <1> QED BY <1>1 DEF Stage, Consistent, Row

PayersOf(o) == {events[e].txn : e \in Paying(o)}

(* Without a receipt that applies, nobody is paid and the payers stay.     *)
LEMMA UnpaidSteps ==
    ASSUME Books, Books',
           Silent \/ \E e \in Events, o \in Orders, t \in Transactions, outcome \in Outcomes :
                         Reviewed(e, o, t, outcome),
           NEW p \in Orders
    PROVE  /\ Stage(p)' = "paid" <=> Stage(p) = "paid"
           /\ PayersOf(p)' = PayersOf(p)
  <1>1. orders'[p].intent = "CAPTURED" <=> orders[p].intent = "CAPTURED"
    BY DEF Silent, Reviewed, Unpaid, Follows
  <1>p. PaidWhenCaptured /\ PaidWhenCaptured'
    BY PaidIsCaptured, PTL
  <1>2. Stage(p) = "paid" <=> orders[p].intent = "CAPTURED"
    BY <1>p DEF PaidWhenCaptured
  <1>3. Stage(p)' = "paid" <=> orders'[p].intent = "CAPTURED"
    BY <1>p DEF PaidWhenCaptured
  <1>4. \A f \in Events :
            /\ events'[f].outcome = "APPLIED" <=> events[f].outcome = "APPLIED"
            /\ events[f].outcome = "APPLIED" => events'[f] = events[f]
    <2>1. CASE Silent
      BY <2>1 DEF Silent
    <2>2. ASSUME NEW e \in Events, NEW o \in Orders, NEW t \in Transactions, NEW outcome \in Outcomes,
                 Reviewed(e, o, t, outcome)
          PROVE  \A f \in Events :
                    /\ events'[f].outcome = "APPLIED" <=> events[f].outcome = "APPLIED"
                    /\ events[f].outcome = "APPLIED" => events'[f] = events[f]
      <3>1. /\ events'[e].outcome = outcome /\ outcome # "APPLIED"
            /\ \A f \in Events : f # e => events'[f] = events[f]
        BY <2>2, ReceiptNoted DEF Reviewed, Noted, Books, Receipts
      <3>2. events[e].outcome = "NONE"
        BY <2>2 DEF Reviewed, NoEvent
      <3> QED BY <3>1, <3>2
    <2> QED BY <2>1, <2>2
  <1>5. PayersOf(p)' = PayersOf(p)
    BY <1>4 DEF PayersOf, Paying
  <1> QED BY <1>1, <1>2, <1>3, <1>5

(* A receipt that applies pays its order, with a transaction that paid     *)
(* for none, and no other.                                                 *)
LEMMA PaidSteps ==
    ASSUME Books, Books', NEW e \in Events, NEW o \in Orders, NEW t \in Transactions, Paid(e, o, t)
    PROVE  /\ \A p \in Orders \ {o} : /\ Stage(p)' = "paid" <=> Stage(p) = "paid"
                                      /\ PayersOf(p)' = PayersOf(p)
           /\ Stage(o) # "paid" /\ Stage(o)' = "paid" /\ PayersOf(o)' = {t}
           /\ \A p \in Orders : t \notin PayersOf(p)
  <1>1. \A p \in Orders : /\ Stage(p) = "paid" <=> orders[p].intent = "CAPTURED"
                          /\ Stage(p)' = "paid" <=> orders'[p].intent = "CAPTURED"
    <2>1. PaidWhenCaptured /\ PaidWhenCaptured'
      BY PaidIsCaptured, PTL
    <2> QED BY <2>1 DEF PaidWhenCaptured
  <1>2. /\ orders[o].intent # "CAPTURED" /\ orders'[o].intent = "CAPTURED" /\ ~Applied(t)
        /\ \A p \in Orders \ {o} : orders'[p].intent = "CAPTURED" <=> orders[p].intent = "CAPTURED"
    BY DEF Paid, Unpaid, Follows
  <1>3. /\ events'[e].outcome = "APPLIED" /\ events'[e].order = o /\ events'[e].txn = t
        /\ \A f \in Events : f # e => events'[f] = events[f]
    <2>1. "APPLIED" \in Outcomes
      BY DEF Outcomes
    <2> QED BY <2>1, ReceiptNoted DEF Paid, Noted, Books, Receipts
  <1>4. events[e].outcome = "NONE"
    BY DEF Paid, NoEvent
  <1>5. Paying(o) = {}
    BY <1>2 DEF Books, Receipts, Pays, Paying
  <1>6. \A p \in Orders \ {o} : PayersOf(p)' = PayersOf(p)
    BY <1>3, <1>4 DEF PayersOf, Paying
  <1>7. PayersOf(o)' = {t}
    BY <1>3, <1>5 DEF PayersOf, Paying
  <1>8. \A p \in Orders : t \notin PayersOf(p)
    BY <1>2 DEF Applied, PayersOf, Paying
  <1> QED BY <1>1, <1>2, <1>6, <1>7, <1>8

(* Every step of either store is one the promise allows.                   *)
LEMMA PromisedStep ==
    ASSUME Kept, Kept', Capacity', Silent \/ Receives, Moving, now <= now'
    PROVE  Promise!Next
  <1>b. Books /\ Books'
    BY DEF Kept
  <1>1. \A o \in Orders : Promise!Goes(Stage(o), Stage(o)')
    BY StagesGo
  <1>2. ASSUME NEW o \in Orders, Stage(o) # "none" PROVE orders'[o].win = orders[o].win
    BY <1>2 DEF Stage, Moving, Goes
  <1>3. ASSUME NEW o \in Orders
        PROVE  IF Stage(o) # "paid" /\ Stage(o)' = "paid"
               THEN \E t \in Transactions : /\ PayersOf(o)' = {t}
                                            /\ \A p \in Orders : t \notin PayersOf(p)
               ELSE PayersOf(o)' = PayersOf(o)
    <2>1. CASE Silent \/ \E e \in Events, p \in Orders, t \in Transactions, outcome \in Outcomes :
                             Reviewed(e, p, t, outcome)
      BY <1>b, <2>1, UnpaidSteps
    <2>2. ASSUME NEW e \in Events, NEW p \in Orders, NEW t \in Transactions, Paid(e, p, t)
          PROVE  IF Stage(o) # "paid" /\ Stage(o)' = "paid"
                 THEN \E u \in Transactions : /\ PayersOf(o)' = {u}
                                              /\ \A q \in Orders : u \notin PayersOf(q)
                 ELSE PayersOf(o)' = PayersOf(o)
      BY <1>b, <2>2, PaidSteps
    <2> QED BY <2>1, <2>2 DEF Receives
  <1>4. Promise!NeverOversold'
    BY NeverOversoldHere, PTL
  <1> QED BY <1>1, <1>2, <1>3, <1>4 DEF Promise!Next, PayersOf

(* Before the first order nothing is promised.                             *)
LEMMA PromisedInit == Init => Promise!Init
  <1> SUFFICES ASSUME Init PROVE Promise!Init
    OBVIOUS
  <1>1. \A o \in Orders : orders[o].resv = "NONE" /\ orders[o].win = Absent.win
    BY DEF Init, Absent
  <1>2. \A o \in Orders : Stage(o) = "none"
    BY <1>1 DEF Stage
  <1>3. \A e \in Events : events[e].outcome = "NONE"
    BY DEF Init, NoEvent
  <1>4. \A o \in Orders : Paying(o) = {}
    BY <1>3 DEF Paying
  <1> QED BY <1>1, <1>2, <1>4 DEF Promise!Init

(* On either database the orders on a lot keep the promise made to buyers  *)
(* and suppliers: whatever was read when, a reservation moves along its    *)
(* path, is paid once by a transaction of its own, and no hour of the lot  *)
(* is sold twice, for any number of orders, requests, windows and units    *)
(* (createCheckout, confirmOrder, applyPaymentEvent and                    *)
(* expireReservations of exchange-store-sqlite.ts and                      *)
(* exchange-store-d1.ts).                                                  *)
THEOREM OrdersKeepPromise == Spec => ImplementsOrderPromise
  <1>1. Init => Promise!Init /\ Kept /\ Capacity
    BY PromisedInit, KeptInit, CapacityInit
  <1>2. Kept /\ Capacity /\ [Next]_vars => Kept' /\ Capacity' /\ Promise!Next
    <2> SUFFICES ASSUME Kept, Capacity, [Next]_vars PROVE Kept' /\ Capacity' /\ Promise!Next
      OBVIOUS
    <2>1. Kept'
      BY KeptStep
    <2>2. Books'
      BY <2>1 DEF Kept
    <2>3. Capacity' /\ Moving /\ now <= now'
      BY <2>2, CapacityStep
    <2>4. Silent \/ Receives
      BY StepKinds
    <2> QED BY <2>1, <2>3, <2>4, PromisedStep
  <1>3. Kept /\ Capacity /\ [Next]_vars => Kept' /\ Capacity' /\ [Promise!Next]_(Promise!vars)
    BY <1>2
  <1> QED BY <1>1, <1>3, PTL DEF Spec, ImplementsOrderPromise, Promise!Spec

-----------------------------------------------------------------------------
(* The delivery of a paid order (ExchangeDelivery). The rows are typed, the *)
(* task is where its last package is, what was verified or claimed passed  *)
(* its review, the meter is where the task is, and acceptance, settlement  *)
(* and ledger follow the meter.                                            *)
PackageRow == [status : Live \cup {"REJECTED", "EXPIRED"}, expires : Nat,
               review : {"NONE", "PASS", "FAIL"}, claimed : BOOLEAN, passed : BOOLEAN]
EntryRow == [account : {"TEST_BUYER_SETTLEMENT_CLEARING", "TEST_SUPPLIER_PAYABLE", "TEST_BUYER_CREDIT"},
             side : {"DEBIT", "CREDIT"}, amount : Nat]

DeliveryRows ==
    /\ database \in {"sqlite", "d1"} /\ version \in Nat
    /\ resv \in {"COMMITTED", "IN_SERVICE", "FULFILLED"}
    /\ phase \in {"FULFILLING", "AWAITING_ACCEPTANCE", "COMPLETED", "EXCEPTION"}
    /\ task \in [attempt : Nat, status : {"PENDING", "PROVISIONING", "VERIFYING", "DELIVERED",
                                          "IN_SERVICE", "COMPLETED"}]
    /\ meter \in [status : {"SCHEDULED", "ACTIVE", "FINAL"}, began : Nat, available : Nat]
    /\ accept \in {"NONE", "PENDING", "ACCEPTED", "DISPUTED"}
    /\ settle \in [status : {"NONE", "BLOCKED", "ELIGIBLE", "TEST_RECORDED"}, payable : Nat, credit : Nat]
    /\ entries \in Seq(EntryRow) /\ accrued \in Seq(Nat)

Packaged ==
    /\ pkgs \in Seq(PackageRow)
    /\ \A p \in Revisions : /\ pkgs[p].status \in Live => p = Len(pkgs)
                            /\ pkgs[p].status \in {"VERIFIED", "CLAIMED"} => pkgs[p].review = "PASS"
                            /\ pkgs[p].status = "CLAIMED" => pkgs[p].claimed
    /\ \/ task.status = "PENDING" /\ pkgs = <<>> /\ task.attempt = 0
       \/ /\ task.status = "PROVISIONING" /\ task.attempt = Len(pkgs) + 1
          /\ \A p \in Revisions : pkgs[p].status \notin Live
       \/ pkgs # <<>> /\ task.attempt = Len(pkgs) /\ Shown

(* The meter runs with the task, and the rest after it.                    *)
Metering ==
    /\ task.status = "IN_SERVICE" <=> meter.status = "ACTIVE"
    /\ task.status = "COMPLETED" <=> meter.status = "FINAL"
    /\ meter.status = "FINAL" <=> settle.status # "NONE"
    /\ meter.status = "FINAL" <=> accept # "NONE"
    /\ settle.status \in {"ELIGIBLE", "TEST_RECORDED"} <=> accept = "ACCEPTED"

(* What is paid of the price, and what is written of it.                   *)
Divided ==
    /\ settle.payable + settle.credit = Gross
    /\ settle.payable * (End - Start) <= Gross * (End - meter.began)
    /\ (settle.payable + 1) * (End - Start) > Gross * (End - meter.began)

Ledger(payable, credit) == <<Entry("TEST_BUYER_SETTLEMENT_CLEARING", "DEBIT", Gross)>>
                               \o Credit("TEST_SUPPLIER_PAYABLE", payable)
                               \o Credit("TEST_BUYER_CREDIT", credit)

Booked ==
    /\ meter.status = "FINAL" => Divided
    /\ settle.status # "TEST_RECORDED" => entries = <<>> /\ accrued = <<>>
    /\ settle.status = "TEST_RECORDED" => /\ entries = Ledger(settle.payable, settle.credit)
                                        /\ Len(accrued) = IF Attributed THEN 1 ELSE 0

Served == DeliveryRows /\ Packaged /\ Metering /\ Booked /\ ServiceIsEarned

(* What a handler carries to its batch.                                    *)
Posting  == [step : {"post"}, cmd : Commands, at : Nat, version : Nat]
Expiring == [step : {"expire"}, pkg : Nat, at : Nat, status : Live]
Calling ==
    /\ clock \in 0 .. MaxClock
    /\ call \in [Calls -> {NoCall} \cup Posting \cup Expiring]
    /\ \A r \in Calls : call[r] # NoCall => call[r].at <= clock
    /\ \A r \in Calls : call[r] \in Expiring => call[r].pkg \in Revisions

Serving == Served /\ Calling

(* Requests are told apart by their steps.                                 *)
LEMMA CallKinds ==
    /\ \A x \in Posting : x # NoCall /\ x.step = "post" /\ x \notin Expiring
    /\ \A x \in Expiring : x # NoCall /\ x.step = "expire" /\ x \notin Posting
    /\ NoCall \notin Posting /\ NoCall \notin Expiring
<1>1. \A x \in Posting : x.step = "post"
  BY DEF Posting
<1>2. \A x \in Expiring : x.step = "expire"
  BY DEF Expiring
<1>3. NoCall.step = "idle"
  BY DEF NoCall
<1> QED BY <1>1, <1>2, <1>3

(* The invariant says how task and packages go together.                   *)
LEMMA ServingIsInStep == Serving => DeliveryIsInStep
<1> SUFFICES ASSUME Serving PROVE DeliveryIsInStep
  OBVIOUS
<1>1. DeliveryRows /\ Packaged /\ Calling
  BY DEF Serving, Served
<1>2. DeliveryTypeOK
  <2>1. \A r \in Calls : \/ call[r] = NoCall
                         \/ call[r].step = "post" /\ call[r].cmd \in Commands /\ call[r].at \in 0 .. clock
                         \/ call[r].step = "expire" /\ call[r].pkg \in Revisions /\ call[r].at \in 0 .. clock
    <3> SUFFICES ASSUME NEW r \in Calls, call[r] # NoCall
                 PROVE  \/ call[r].step = "post" /\ call[r].cmd \in Commands /\ call[r].at \in 0 .. clock
                        \/ call[r].step = "expire" /\ call[r].pkg \in Revisions /\ call[r].at \in 0 .. clock
      OBVIOUS
    <3>1. call[r] \in Posting \cup Expiring /\ call[r].at <= clock /\ clock \in Nat
      BY <1>1, DeliveryAssumption DEF Calling
    <3>2. CASE call[r] \in Posting
      BY <3>1, <3>2 DEF Posting
    <3>3. CASE call[r] \in Expiring
      <4>1. call[r].pkg \in Revisions
        BY <1>1, <3>3 DEF Calling
      <4> QED BY <3>1, <3>3, <4>1 DEF Expiring
    <3> QED BY <3>1, <3>2, <3>3
  <2>2. clock \in 0 .. MaxClock /\ DOMAIN call = Calls
    BY <1>1 DEF Calling
  <2> QED BY <1>1, <2>1, <2>2 DEF DeliveryTypeOK, DeliveryRows, Packaged, PackageRow, EntryRow
<1>3. \A p \in Revisions : pkgs[p].status \in Live => p = Len(pkgs)
  BY <1>1 DEF Packaged
<1>4. CASE task.status \in {"PENDING", "PROVISIONING"}
  BY <1>1, <1>2, <1>3, <1>4 DEF Packaged, Shown, DeliveryIsInStep
<1>5. CASE task.status \notin {"PENDING", "PROVISIONING"}
  <2>1. pkgs # <<>> /\ task.attempt = Len(pkgs) /\ Shown
    BY <1>1, <1>5 DEF Packaged
  <2> QED BY <1>2, <1>3, <1>5, <2>1 DEF DeliveryIsInStep
<1> QED BY <1>4, <1>5

(* A sum of one.                                                           *)
LEMMA SumOfOne ==
    ASSUME NEW f, NEW i, f[i] \in Int
    PROVE  SumOf(f, {i}) = f[i]
<1>1. {i} = {} \cup {i} /\ IsFiniteSet({}) /\ i \notin {}
  BY FS_EmptySet
<1>2. SumOf(f, {} \cup {i}) = f[i] + SumOf(f, {})
  BY <1>1, SumWith
<1> QED BY <1>1, <1>2, SumOfNothing

(* What the credits that are entered add up to.                            *)
LEMMA TotalsOfEntries ==
    ASSUME NEW D, NEW C, {i \in DOMAIN entries : entries[i].side = "DEBIT"} = {D},
           {i \in DOMAIN entries : entries[i].side = "CREDIT"} = C, IsFiniteSet(C),
           \A i \in C \cup {D} : Amounts[i] \in Int
    PROVE  Total("DEBIT") = Amounts[D] /\ Total("CREDIT") = SumOf(Amounts, C)
<1>1. \A side : Total(side) = SumOf(Amounts, {i \in DOMAIN entries : entries[i].side = side})
  BY DEF Total, SumOf
<1>2. SumOf(Amounts, {D}) = Amounts[D]
  BY SumOfOne
<1> QED BY <1>1, <1>2

(* Sequences put together.                                                 *)
IsJoined(e, s, t) ==
    /\ Len(e) = Len(s) + Len(t) /\ Len(s) \in Nat /\ Len(t) \in Nat
    /\ DOMAIN e = 1 .. Len(s) + Len(t)
    /\ \A i \in 1 .. Len(s) : e[i] = s[i]
    /\ \A i \in 1 .. Len(t) : e[Len(s) + i] = t[i]

(* What is put together has what the parts have.                           *)
LEMMA TwoJoined ==
    ASSUME NEW S, NEW s \in Seq(S), NEW t \in Seq(S)
    PROVE  s \o t \in Seq(S) /\ IsJoined(s \o t, s, t)
BY DEF IsJoined

CreditLines(payable, credit) == (IF payable > 0 THEN 1 ELSE 0) + (IF credit > 0 THEN 1 ELSE 0)

IsLedger(e, payable, credit) ==
    /\ e \in Seq(EntryRow) /\ DOMAIN e = 1 .. 1 + CreditLines(payable, credit)
    /\ e[1].side = "DEBIT" /\ e[1].amount = Gross
    /\ \A i \in 2 .. 1 + CreditLines(payable, credit) : e[i].side = "CREDIT"
    /\ payable > 0 => e[2].amount = payable
    /\ credit > 0 => e[1 + CreditLines(payable, credit)].amount = credit

(* The lines of the ledger.                                                *)
LEMMA LedgerLines ==
    ASSUME NEW payable \in Nat, NEW credit \in Nat
    PROVE  IsLedger(Ledger(payable, credit), payable, credit)
<1> DEFINE e == Ledger(payable, credit)
<1> DEFINE a == <<Entry("TEST_BUYER_SETTLEMENT_CLEARING", "DEBIT", Gross)>>
           s == Credit("TEST_SUPPLIER_PAYABLE", payable)
           t == Credit("TEST_BUYER_CREDIT", credit)
           f == a \o s
<1>1. a \in Seq(EntryRow) /\ Len(a) = 1 /\ a[1].side = "DEBIT" /\ a[1].amount = Gross
  BY DeliveryAssumption DEF Entry, EntryRow
<1>2. /\ s \in Seq(EntryRow) /\ Len(s) = IF payable > 0 THEN 1 ELSE 0
      /\ payable > 0 => s[1].side = "CREDIT" /\ s[1].amount = payable
  <2>1. CASE payable > 0
    BY <2>1 DEF Credit, Entry, EntryRow
  <2>2. CASE ~(payable > 0)
    BY <2>2 DEF Credit
  <2> QED BY <2>1, <2>2
<1>3. /\ t \in Seq(EntryRow) /\ Len(t) = IF credit > 0 THEN 1 ELSE 0
      /\ credit > 0 => t[1].side = "CREDIT" /\ t[1].amount = credit
  <2>1. CASE credit > 0
    BY <2>1 DEF Credit, Entry, EntryRow
  <2>2. CASE ~(credit > 0)
    BY <2>2 DEF Credit
  <2> QED BY <2>1, <2>2
<1>4. e = f \o t
  BY DEF Ledger
<1> HIDE DEF a, s, t
<1>5. f \in Seq(EntryRow) /\ IsJoined(f, a, s)
  BY <1>1, <1>2, TwoJoined
<1> HIDE DEF f, e
<1>6. e \in Seq(EntryRow) /\ IsJoined(e, f, t)
  BY <1>3, <1>4, <1>5, TwoJoined
<1>7. Len(f) = 1 + Len(s) /\ DOMAIN e = 1 .. 1 + Len(s) + Len(t) /\ Len(s) \in Nat /\ Len(t) \in Nat
  BY <1>1, <1>5, <1>6 DEF IsJoined
<1>8. e[1] = a[1]
  BY <1>1, <1>5, <1>6, <1>7 DEF IsJoined
<1>9. payable > 0 => e[2] = s[1] /\ Len(s) = 1
  <2> SUFFICES ASSUME payable > 0 PROVE e[2] = s[1] /\ Len(s) = 1
    OBVIOUS
  <2>1. Len(s) = 1 /\ Len(f) = 2
    BY <1>2, <1>7
  <2>2. f[Len(a) + 1] = s[1]
    BY <1>5, <2>1 DEF IsJoined
  <2>3. e[2] = f[2]
    BY <1>6, <2>1 DEF IsJoined
  <2> QED BY <1>1, <2>1, <2>2, <2>3
<1>10. credit > 0 => e[Len(f) + 1] = t[1] /\ Len(t) = 1
  BY <1>3, <1>6 DEF IsJoined
<1>11. CreditLines(payable, credit) = Len(s) + Len(t)
  BY <1>2, <1>3 DEF CreditLines
<1>12. \A i \in 2 .. 1 + Len(s) + Len(t) : e[i].side = "CREDIT"
  <2> SUFFICES ASSUME NEW i \in 2 .. 1 + Len(s) + Len(t) PROVE e[i].side = "CREDIT"
    OBVIOUS
  <2>1. CASE payable > 0 /\ i = 2
    BY <1>2, <1>9, <2>1
  <2>2. CASE credit > 0 /\ i = Len(f) + 1
    BY <1>3, <1>10, <2>2
  <2> QED BY <1>2, <1>3, <1>7, <2>1, <2>2
<1>13. credit > 0 => e[1 + Len(s) + Len(t)].amount = credit
  BY <1>3, <1>7, <1>10
<1>14. payable > 0 => e[2].amount = payable
  BY <1>2, <1>9
<1> QED BY <1>1, <1>6, <1>7, <1>8, <1>11, <1>12, <1>13, <1>14 DEF e, IsLedger

(* A ledger of a debit and the credits that divide it balances.            *)
LEMMA LedgerBalances ==
    ASSUME NEW payable \in Nat, NEW credit \in Nat, payable + credit = Gross,
           entries = Ledger(payable, credit)
    PROVE  Total("DEBIT") = Gross /\ Total("CREDIT") = Gross
<1> DEFINE m == CreditLines(payable, credit)
<1>1. /\ DOMAIN entries = 1 .. 1 + m
      /\ entries[1].side = "DEBIT" /\ entries[1].amount = Gross
      /\ \A i \in 2 .. 1 + m : entries[i].side = "CREDIT"
      /\ payable > 0 => entries[2].amount = payable
      /\ credit > 0 => entries[1 + m].amount = credit
  BY LedgerLines DEF IsLedger
<1>2. \A i \in DOMAIN entries : Amounts[i] = entries[i].amount
  BY DEF Amounts
<1>3. Gross \in Nat \ {0}
  BY DeliveryAssumption
<1>4. /\ m = 1 \/ m = 2
      /\ m = 1 => entries[2].amount = Gross
      /\ m = 2 => entries[2].amount = payable /\ entries[3].amount = credit
  BY <1>1, <1>3 DEF CreditLines
<1> HIDE DEF m
<1>6. CASE m = 2
  <2>2. DOMAIN entries = 1 .. 3
    BY <1>1, <1>6
  <2>3. Amounts[1] = Gross /\ Amounts[2] = payable /\ Amounts[3] = credit
    BY <1>1, <1>2, <1>4, <1>6, <2>2
  <2>4. /\ {i \in DOMAIN entries : entries[i].side = "DEBIT"} = {1}
        /\ {i \in DOMAIN entries : entries[i].side = "CREDIT"} = {2} \cup {3}
    <3>1. \A i \in DOMAIN entries : i = 1 \/ i = 2 \/ i = 3
      BY <2>2
    <3>2. 1 \in DOMAIN entries /\ 2 \in DOMAIN entries /\ 3 \in DOMAIN entries
      BY <2>2
    <3>3. entries[1].side = "DEBIT" /\ entries[2].side = "CREDIT" /\ entries[3].side = "CREDIT"
      BY <1>1, <1>6
    <3> QED BY <3>1, <3>2, <3>3
  <2>5. IsFiniteSet({2}) /\ IsFiniteSet({2} \cup {3}) /\ 3 \notin {2}
    <3>1. IsFiniteSet({2})
      BY FS_Singleton
    <3>2. IsFiniteSet({2} \cup {3})
      BY <3>1, FS_AddElement
    <3> QED BY <3>1, <3>2
  <2>6. \A i \in ({2} \cup {3}) \cup {1} : Amounts[i] \in Int
    BY <1>3, <2>3
  <2>7. SumOf(Amounts, {2} \cup {3}) = Amounts[3] + SumOf(Amounts, {2})
    BY <2>5, <2>6, SumWith
  <2>8. SumOf(Amounts, {2}) = Amounts[2]
    BY <2>6, SumOfOne
  <2>9. Total("DEBIT") = Amounts[1] /\ Total("CREDIT") = SumOf(Amounts, {2} \cup {3})
    BY <2>4, <2>5, <2>6, TotalsOfEntries
  <2>10. SumOf(Amounts, {2} \cup {3}) = Gross
    BY <2>3, <2>7, <2>8
  <2> QED BY <2>3, <2>9, <2>10
<1>7. CASE m = 1
  <2>2. DOMAIN entries = 1 .. 2
    BY <1>1, <1>7
  <2>3. Amounts[1] = Gross /\ Amounts[2] = Gross
    BY <1>1, <1>2, <1>4, <1>7, <2>2
  <2>4. /\ {i \in DOMAIN entries : entries[i].side = "DEBIT"} = {1}
        /\ {i \in DOMAIN entries : entries[i].side = "CREDIT"} = {2}
    <3>1. \A i \in DOMAIN entries : i = 1 \/ i = 2
      BY <2>2
    <3>2. 1 \in DOMAIN entries /\ 2 \in DOMAIN entries
      BY <2>2
    <3>3. entries[1].side = "DEBIT" /\ entries[2].side = "CREDIT"
      BY <1>1, <1>7
    <3> QED BY <3>1, <3>2, <3>3
  <2>5. IsFiniteSet({2})
    BY FS_Singleton
  <2>6. \A i \in {2} \cup {1} : Amounts[i] \in Int
    BY <1>3, <2>3
  <2>7. SumOf(Amounts, {2}) = Amounts[2]
    BY <2>6, SumOfOne
  <2>8. Total("DEBIT") = Amounts[1] /\ Total("CREDIT") = SumOf(Amounts, {2})
    BY <2>4, <2>5, <2>6, TotalsOfEntries
  <2> QED BY <2>3, <2>7, <2>8
<1> QED BY <1>4, <1>6, <1>7

(* The invariant says what is paid, and written.                           *)
LEMMA ServingIsEarned == Serving => PaidAsEarned
<1> SUFFICES ASSUME Serving PROVE PaidAsServed
  BY DEF PaidAsEarned, Serving, Served
<1>1. DeliveryRows /\ Metering /\ Booked
  BY DEF Serving, Served
<1>2. settle.payable \in Nat /\ settle.credit \in Nat
  BY <1>1 DEF DeliveryRows
<1>3. CASE settle.status = "TEST_RECORDED"
  <2>1. Divided /\ entries = Ledger(settle.payable, settle.credit) /\ Len(accrued) = IF Attributed THEN 1 ELSE 0
    BY <1>1, <1>3 DEF Metering, Booked
  <2>2. Total("DEBIT") = Gross /\ Total("CREDIT") = Gross
    BY <1>2, <2>1, LedgerBalances DEF Divided
  <2> QED BY <1>1, <1>3, <2>1, <2>2 DEF Metering, Divided, PaidAsServed
<1>4. CASE settle.status # "TEST_RECORDED"
  <2>1. entries = <<>> /\ accrued = <<>>
    BY <1>1, <1>4 DEF Booked
  <2>2. \A side : {i \in DOMAIN entries : entries[i].side = side} = {}
    BY <2>1
  <2>3. Total("DEBIT") = 0 /\ Total("CREDIT") = 0
    <3>1. \A side : Total(side) = SumOf(Amounts, {i \in DOMAIN entries : entries[i].side = side})
      BY DEF Total, SumOf
    <3> QED BY <2>2, <3>1, SumOfNothing
  <2>4. Len(accrued) = 0 /\ (meter.status = "FINAL" => Divided)
    BY <1>1, <2>1 DEF Booked
  <2> QED BY <1>1, <1>4, <2>3, <2>4 DEF Metering, Divided, PaidAsServed
<1> QED BY <1>3, <1>4

(* Whole division.                                                         *)
LEMMA Quotient ==
    ASSUME NEW n \in Nat, NEW d \in Nat \ {0}
    PROVE  n \div d \in Nat /\ (n \div d) * d <= n /\ n < (n \div d + 1) * d
<1> DEFINE q == n \div d
<1>1. q \in Int /\ d * q <= n /\ n < d * q + d
  OBVIOUS
<1> HIDE DEF q
<1>2. q >= 0
  BY <1>1
<1> QED BY <1>1, <1>2 DEF q

(* A common factor.                                                        *)
LEMMA CommonFactor ==
    ASSUME NEW x \in Int, NEW y \in Int, NEW u \in Nat \ {0}
    PROVE  (x * u <= y * u => x <= y) /\ (x * u < y * u => x < y)
OBVIOUS

(* A product of three, in another order.                                   *)
LEMMA Regroup ==
    ASSUME NEW x \in Int, NEW y \in Int, NEW u \in Int
    PROVE  x * (y * u) = (x * y) * u
OBVIOUS

(* The price of the hours of the service, rounded down, is within the      *)
(* price, and the next amount is above it.                                 *)
LEMMA ShareOfService ==
    ASSUME NEW b \in Nat, Start <= b, b < End,
           NEW q, q = (Gross * (Scheduled - (b - Start) * Units)) \div Scheduled
    PROVE  /\ Scheduled - (b - Start) * Units \in Nat
           /\ q \in 0 .. Gross
           /\ q * (End - Start) <= Gross * (End - b)
           /\ (q + 1) * (End - Start) > Gross * (End - b)
<1> DEFINE l == End - Start
           k == End - b
<1>1. /\ l \in Nat \ {0} /\ k \in Nat /\ k <= l /\ b - Start = l - k
      /\ Units \in Nat \ {0} /\ Gross \in Nat \ {0}
  BY DeliveryAssumption
<1>2. Scheduled = l * Units
  BY DEF Scheduled
<1>3. (b - Start) * Units = (l - k) * Units
  BY <1>1
<1> HIDE DEF l, k
<1>4. l * Units - (l - k) * Units = k * Units
  BY <1>1
<1>5. Scheduled - (b - Start) * Units = k * Units /\ k * Units \in Nat
  BY <1>1, <1>2, <1>3, <1>4
<1>6. q = (Gross * (k * Units)) \div (l * Units)
  BY <1>2, <1>5
<1>7. Gross * (k * Units) \in Nat /\ l * Units \in Nat \ {0}
  BY <1>1
<1>8. q \in Nat /\ q * (l * Units) <= Gross * (k * Units) /\ Gross * (k * Units) < (q + 1) * (l * Units)
  BY <1>6, <1>7, Quotient
<1>9. /\ q * (l * Units) = (q * l) * Units /\ (q + 1) * (l * Units) = ((q + 1) * l) * Units
      /\ Gross * (k * Units) = (Gross * k) * Units
  <2>1. q + 1 \in Int /\ q \in Int /\ l \in Int /\ k \in Int /\ Units \in Int /\ Gross \in Int
    BY <1>1, <1>8
  <2> QED BY <2>1, Regroup
<1>10. q * l \in Int /\ (q + 1) * l \in Int /\ Gross * k \in Int
  BY <1>1, <1>8
<1>11. q * l <= Gross * k /\ Gross * k < (q + 1) * l
  BY <1>1, <1>8, <1>9, <1>10, CommonFactor
<1>12. Gross * k <= Gross * l /\ Gross * l \in Int
  BY <1>1
<1>13. q * l <= Gross * l
  BY <1>10, <1>11, <1>12
<1>14. q <= Gross
  BY <1>1, <1>8, <1>13, CommonFactor
<1> QED BY <1>1, <1>5, <1>8, <1>11, <1>14 DEF l, k

(* At first there is a paid order and nothing else.                        *)
LEMMA ServingStarts == DeliveryInit => Serving
<1> SUFFICES ASSUME DeliveryInit PROVE Serving
  OBVIOUS
<1>1. DeliveryRows /\ Packaged /\ Metering /\ ServiceIsEarned
  <2>1. DeliveryRows
    BY DEF DeliveryInit, DeliveryRows
  <2>2. Packaged
    <3>1. pkgs = <<>> /\ Revisions = {} /\ pkgs \in Seq(PackageRow)
      BY DEF DeliveryInit, Revisions
    <3>2. task.status = "PENDING" /\ task.attempt = 0
      BY DEF DeliveryInit
    <3> QED BY <3>1, <3>2 DEF Packaged
  <2>3. Metering /\ ServiceIsEarned
    BY DEF DeliveryInit, Metering, ServiceIsEarned
  <2> QED BY <2>1, <2>2, <2>3
<1>2. Booked
  BY DEF DeliveryInit, Booked
<1>3. Calling
  <2>1. \A r \in Calls : call[r] = NoCall
    BY DEF DeliveryInit
  <2>2. call \in [Calls -> {NoCall} \cup Posting \cup Expiring] /\ clock \in 0 .. MaxClock
    BY DeliveryAssumption DEF DeliveryInit
  <2> QED BY <2>1, <2>2, CallKinds DEF Calling
<1> QED BY <1>1, <1>2, <1>3 DEF Serving, Served

(* One package that changes.                                               *)
LEMMA OnePackage ==
    ASSUME pkgs \in Seq(PackageRow), NEW p \in Revisions, NEW row \in PackageRow,
           pkgs' = [pkgs EXCEPT ![p] = row]
    PROVE  /\ pkgs' \in Seq(PackageRow) /\ Len(pkgs') = Len(pkgs) /\ Revisions' = Revisions
           /\ pkgs # <<>> /\ pkgs' # <<>> /\ Revisions = 1 .. Len(pkgs) /\ Len(pkgs) \in Nat \ {0}
           /\ pkgs'[p] = row /\ \A q \in Revisions : q # p => pkgs'[q] = pkgs[q]
BY DEF Revisions

(* Before the service, what a step does to task and packages is all.       *)
LEMMA BeforeService ==
    ASSUME Served, UNCHANGED <<database, resv, phase, service>>, version' \in {version, version + 1},
           task.status \notin {"IN_SERVICE", "COMPLETED"}, task'.status \notin {"IN_SERVICE", "COMPLETED"},
           NEW more \in {0, 1}, NEW status \in {"PENDING", "PROVISIONING", "VERIFYING", "DELIVERED"},
           task' = [status |-> status, attempt |-> task.attempt + more],
           Packaged'
    PROVE  Served'
<1>1. DeliveryRows /\ Metering /\ Booked /\ meter.status = "SCHEDULED"
  BY DEF Served, DeliveryRows, Metering
<1>2. UNCHANGED <<meter, accept, settle, entries, accrued>>
  BY DEF service
<1>3. task.attempt \in Nat
  BY <1>1 DEF DeliveryRows
<1>4. task' \in [attempt : Nat, status : {"PENDING", "PROVISIONING", "VERIFYING", "DELIVERED",
                                          "IN_SERVICE", "COMPLETED"}]
  BY <1>3
<1>5. DeliveryRows'
  BY <1>1, <1>2, <1>4 DEF DeliveryRows
<1>6. Metering'
  BY <1>1, <1>2 DEF Metering
<1>7. Booked' /\ ServiceIsEarned'
  BY <1>1, <1>2 DEF Booked, Divided, ServiceIsEarned
<1> QED BY <1>5, <1>6, <1>7 DEF Served

(* The supplier starts to provision what was paid.                         *)
LEMMA ProvisionServes == ASSUME Served, UNCHANGED database, MayProvision, StartProvisioning PROVE Served'
<1>1. /\ task.status = "PENDING" /\ task' = [status |-> "PROVISIONING", attempt |-> task.attempt + 1]
      /\ version' = version + 1 /\ UNCHANGED <<resv, phase, pkgs, service>>
  BY DEF MayProvision, StartProvisioning, Task, Bumped
<1>2. Packaged /\ pkgs = <<>> /\ task.attempt = 0
  BY <1>1 DEF Served, Packaged, Shown
<1>3. Packaged'
  <2>1. pkgs' = <<>> /\ Len(pkgs') = 0 /\ Revisions' = {} /\ task'.attempt = 1
    BY <1>1, <1>2 DEF Revisions
  <2> QED BY <1>1, <1>2, <2>1 DEF Packaged
<1> QED BY <1>1, <1>3, BeforeService

(* A package is submitted when none is alive.                              *)
LEMMA SubmitServes ==
    ASSUME Served, UNCHANGED database, NEW e \in Nat, MaySubmit, SubmitDeliveryPackage(e)
    PROVE  Served'
<1> DEFINE row == [status |-> "SUBMITTED", expires |-> e, review |-> "NONE", claimed |-> FALSE, passed |-> FALSE]
<1>1. /\ task.status = "PROVISIONING" /\ task' = [status |-> "VERIFYING", attempt |-> task.attempt + 0]
      /\ pkgs' = Append(pkgs, row) /\ \A p \in Revisions : pkgs[p].status \notin Live
      /\ version' = version + 1 /\ UNCHANGED <<resv, phase, service>>
  BY DEF MaySubmit, SubmitDeliveryPackage, Task, Bumped
<1>2. Packaged /\ task.attempt = Len(pkgs) + 1
  BY <1>1 DEF Served, Packaged, Shown
<1>3. row \in PackageRow /\ row.status = "SUBMITTED"
  BY DEF PackageRow, Live
<1> HIDE DEF row
<1>4. /\ pkgs \in Seq(PackageRow) /\ pkgs' \in Seq(PackageRow) /\ Len(pkgs') = Len(pkgs) + 1 /\ Len(pkgs) \in Nat
      /\ pkgs'[Len(pkgs')] = row /\ \A p \in Revisions : pkgs'[p] = pkgs[p]
      /\ \A p \in Revisions' : p \in Revisions \/ p = Len(pkgs')
  BY <1>1, <1>2, <1>3 DEF Packaged, Revisions
<1>5. \A p \in Revisions' : /\ pkgs'[p].status \in Live => p = Len(pkgs')
                            /\ pkgs'[p].status \in {"VERIFIED", "CLAIMED"} => pkgs'[p].review = "PASS"
                            /\ pkgs'[p].status = "CLAIMED" => pkgs'[p].claimed
  BY <1>1, <1>2, <1>3, <1>4 DEF Packaged
<1>6. pkgs' # <<>> /\ task'.attempt = Len(pkgs') /\ Shown'
  BY <1>1, <1>2, <1>3, <1>4 DEF Shown, Last
<1>7. Packaged'
  BY <1>4, <1>5, <1>6 DEF Packaged
<1> QED BY <1>1, <1>7, BeforeService

(* A package that goes on before the service: it is the last one.          *)
LEMMA PackageMoves ==
    ASSUME Served, NEW p \in Revisions, NEW row \in PackageRow, pkgs' = [pkgs EXCEPT ![p] = row],
           p = Len(pkgs),
           row.status \in {"VERIFIED", "CLAIMED"} => row.review = "PASS",
           row.status = "CLAIMED" => row.claimed,
           NEW status,
           \/ row.status = "CLAIMED" /\ status = "DELIVERED" /\ task'.attempt = task.attempt
           \/ row.status = "VERIFIED" /\ status = "DELIVERED" /\ task'.attempt = task.attempt
           \/ row.status \notin Live /\ status = "PROVISIONING" /\ task'.attempt = task.attempt + 1,
           task'.status = status, task.status \in {"VERIFYING", "DELIVERED"}
    PROVE  Packaged'
<1>1. Packaged /\ pkgs \in Seq(PackageRow) /\ task.attempt = Len(pkgs)
  BY DEF Served, Packaged
<1>2. /\ pkgs' \in Seq(PackageRow) /\ Len(pkgs') = Len(pkgs) /\ Revisions' = Revisions
      /\ pkgs' # <<>> /\ Len(pkgs) \in Nat
      /\ pkgs'[p] = row /\ \A q \in Revisions : q # p => pkgs'[q] = pkgs[q]
  BY <1>1, OnePackage
<1>3. \A q \in Revisions : q # p => pkgs[q].status \notin Live
  BY <1>1 DEF Packaged
<1>4. \A q \in Revisions' : /\ pkgs'[q].status \in Live => q = Len(pkgs')
                            /\ pkgs'[q].status \in {"VERIFIED", "CLAIMED"} => pkgs'[q].review = "PASS"
                            /\ pkgs'[q].status = "CLAIMED" => pkgs'[q].claimed
  BY <1>1, <1>2, <1>3 DEF Packaged
<1>5. CASE row.status \in {"VERIFIED", "CLAIMED"}
  <2>1. status = "DELIVERED" /\ task'.attempt = task.attempt
    BY <1>5 DEF Live
  <2>2. Last' = row
    BY <1>2 DEF Last
  <2> QED BY <1>1, <1>2, <1>4, <1>5, <2>1, <2>2 DEF Packaged, Shown
<1>6. CASE row.status \notin {"VERIFIED", "CLAIMED"}
  <2>1. row.status \notin Live /\ status = "PROVISIONING" /\ task'.attempt = task.attempt + 1
    BY <1>6
  <2>2. \A q \in Revisions' : pkgs'[q].status \notin Live
    BY <1>2, <1>3, <2>1
  <2> QED BY <1>1, <1>2, <1>4, <2>1, <2>2 DEF Packaged
<1> QED BY <1>5, <1>6

(* A verdict, a claim and a check of the package that is shown.            *)
LEMMA ReviewServes ==
    ASSUME Served, UNCHANGED database, NEW p, NEW at, NEW pass \in BOOLEAN,
           MayReview(p, at), ReviewDeliveryPackage(p, pass)
    PROVE  Served'
<1> DEFINE row == [pkgs[p] EXCEPT !.status = IF pass THEN "VERIFIED" ELSE "REJECTED",
                                  !.review = IF pass THEN "PASS" ELSE "FAIL"]
<1>1. /\ p \in Revisions /\ pkgs[p].status = "SUBMITTED" /\ task.status = "VERIFYING"
      /\ pkgs' = [pkgs EXCEPT ![p] = row]
      /\ IF pass THEN Task("DELIVERED", 0) ELSE Task("PROVISIONING", 1)
      /\ version' = version + 1 /\ UNCHANGED <<resv, phase, service>>
  BY DEF MayReview, Shows, ReviewDeliveryPackage, Bumped
<1>2. Packaged /\ pkgs[p] \in PackageRow /\ p = Len(pkgs)
  BY <1>1 DEF Served, Packaged, Live, Revisions
<1>3. /\ row \in PackageRow
      /\ row.status = IF pass THEN "VERIFIED" ELSE "REJECTED"
      /\ row.review = IF pass THEN "PASS" ELSE "FAIL"
  BY <1>2 DEF PackageRow, Live
<1> HIDE DEF row
<1>4. CASE pass
  <2>1. task' = [status |-> "DELIVERED", attempt |-> task.attempt + 0]
    BY <1>1, <1>4 DEF Task
  <2>2. task'.status = "DELIVERED" /\ task'.attempt = task.attempt
    BY <2>1 DEF Served, DeliveryRows
  <2>3. Packaged'
    BY <1>1, <1>2, <1>3, <1>4, <2>2, PackageMoves
  <2> QED BY <1>1, <2>1, <2>3, BeforeService
<1>5. CASE ~pass
  <2>1. task' = [status |-> "PROVISIONING", attempt |-> task.attempt + 1]
    BY <1>1, <1>5 DEF Task
  <2>2. Packaged'
    BY <1>1, <1>2, <1>3, <1>5, <2>1, PackageMoves DEF Live
  <2> QED BY <1>1, <2>1, <2>2, BeforeService
<1> QED BY <1>4, <1>5

(* The buyer claims the credential of the package that was verified.       *)
LEMMA ClaimServes ==
    ASSUME Served, UNCHANGED database, NEW p, NEW at, MayClaim(p, at), ClaimDeliveryPackage(p)
    PROVE  Served'
<1> DEFINE row == [pkgs[p] EXCEPT !.status = "CLAIMED", !.claimed = TRUE]
<1>1. /\ p \in Revisions /\ pkgs[p].status = "VERIFIED" /\ task.status = "DELIVERED"
      /\ pkgs' = [pkgs EXCEPT ![p] = row]
      /\ version' = version + 1 /\ UNCHANGED <<resv, phase, task, service>>
  BY DEF MayClaim, Shows, ClaimDeliveryPackage, Bumped
<1>2. Packaged /\ pkgs[p] \in PackageRow /\ p = Len(pkgs) /\ pkgs[p].review = "PASS"
  BY <1>1 DEF Served, Packaged, Live, Revisions
<1>3. row \in PackageRow /\ row.status = "CLAIMED" /\ row.review = "PASS" /\ row.claimed
  BY <1>2 DEF PackageRow, Live
<1> HIDE DEF row
<1>4. Packaged'
  BY <1>1, <1>2, <1>3, PackageMoves
<1>5. task' = [status |-> "DELIVERED", attempt |-> task.attempt + 0]
  BY <1>1 DEF Served, DeliveryRows
<1> QED BY <1>1, <1>4, <1>5, BeforeService

(* The buyer reaches the endpoint of the package that is claimed.          *)
LEMMA TestServes ==
    ASSUME Served, UNCHANGED database, NEW p, NEW at, MayTest(p, at), TestDeliveryConnection(p)
    PROVE  Served'
<1> DEFINE row == [pkgs[p] EXCEPT !.passed = TRUE]
<1>1. /\ p \in Revisions /\ pkgs[p].status = "CLAIMED" /\ task.status = "DELIVERED"
      /\ pkgs' = [pkgs EXCEPT ![p] = row]
      /\ UNCHANGED <<version, resv, phase, task, service>>
  BY DEF MayTest, Shows, TestDeliveryConnection
<1>2. Packaged /\ pkgs[p] \in PackageRow /\ p = Len(pkgs) /\ pkgs[p].review = "PASS" /\ pkgs[p].claimed
  BY <1>1 DEF Served, Packaged, Live, Revisions
<1>3. row \in PackageRow /\ row.status = "CLAIMED" /\ row.review = "PASS" /\ row.claimed
  BY <1>1, <1>2 DEF PackageRow, Live
<1> HIDE DEF row
<1>4. Packaged'
  BY <1>1, <1>2, <1>3, PackageMoves
<1>5. task' = [status |-> "DELIVERED", attempt |-> task.attempt + 0]
  BY <1>1 DEF Served, DeliveryRows
<1> QED BY <1>1, <1>4, <1>5, BeforeService

(* A package that runs out: before the service its task goes back, during  *)
(* it nothing else changes.                                                *)
LEMMA ExpireServes ==
    ASSUME Served, UNCHANGED database, NEW p \in Revisions, pkgs[p].status \in Live, Expire(p),
           database = "sqlite" \/ ExpiryCommits
    PROVE  Served'
<1> DEFINE row == [pkgs[p] EXCEPT !.status = "EXPIRED"]
<1>1. /\ pkgs' = [pkgs EXCEPT ![p] = row]
      /\ IF task.status \in {"VERIFYING", "DELIVERED"} THEN Task("PROVISIONING", 1) ELSE UNCHANGED task
      /\ version' = version + 1 /\ UNCHANGED <<resv, phase, service>>
  BY DEF Expire, Bumped
<1>2. Packaged /\ pkgs \in Seq(PackageRow) /\ pkgs[p] \in PackageRow /\ p = Len(pkgs)
  BY DEF Served, Packaged, Revisions
<1>3. /\ row \in PackageRow /\ row.status = "EXPIRED" /\ row.status \notin Live
      /\ row.review = pkgs[p].review /\ row.claimed = pkgs[p].claimed
      /\ row.passed = pkgs[p].passed /\ row.expires = pkgs[p].expires
  BY <1>2 DEF PackageRow, Live
<1> HIDE DEF row
<1>4. CASE task.status \in {"VERIFYING", "DELIVERED"}
  <2>1. task' = [status |-> "PROVISIONING", attempt |-> task.attempt + 1]
    BY <1>1, <1>4 DEF Task
  <2>2. Packaged'
    BY <1>1, <1>2, <1>3, <1>4, <2>1, PackageMoves
  <2> QED BY <1>1, <1>4, <2>1, <2>2, BeforeService
<1>5. CASE task.status \notin {"VERIFYING", "DELIVERED"}
  <2>1. task.status \in {"IN_SERVICE", "COMPLETED"} /\ task' = task
    <3>1. task.status # "PENDING" /\ task.status # "PROVISIONING"
      BY <1>2 DEF Packaged, Shown, Revisions
    <3> QED BY <1>1, <1>5, <3>1 DEF Served, DeliveryRows
  <2>2. database = "sqlite"
    BY <2>1 DEF ExpiryCommits
  <2>3. /\ pkgs' \in Seq(PackageRow) /\ Len(pkgs') = Len(pkgs) /\ Revisions' = Revisions
        /\ pkgs # <<>> /\ pkgs' # <<>> /\ Len(pkgs) \in Nat
        /\ pkgs'[p] = row /\ \A q \in Revisions : q # p => pkgs'[q] = pkgs[q]
    BY <1>1, <1>2, <1>3, OnePackage
  <2>4. Last' = row /\ Last = pkgs[p]
    BY <1>2, <2>3 DEF Last
  <2>5. Packaged'
    <3>1. \A q \in Revisions' : /\ pkgs'[q].status \in Live => q = Len(pkgs')
                                /\ pkgs'[q].status \in {"VERIFIED", "CLAIMED"} => pkgs'[q].review = "PASS"
                                /\ pkgs'[q].status = "CLAIMED" => pkgs'[q].claimed
      BY <1>2, <1>3, <2>3 DEF Packaged
    <3>2. task'.attempt = Len(pkgs') /\ Shown'
      BY <1>2, <1>3, <2>1, <2>2, <2>3, <2>4 DEF Packaged, Shown
    <3> QED BY <2>3, <3>1, <3>2 DEF Packaged
  <2>6. UNCHANGED <<meter, accept, settle, entries, accrued>>
    BY <1>1 DEF service
  <2>7. DeliveryRows' /\ Metering' /\ Booked'
    BY <1>1, <2>1, <2>6 DEF Served, DeliveryRows, Metering, Booked, Divided
  <2>8. ServiceIsEarned'
    BY <1>3, <2>3, <2>4, <2>6 DEF Served, ServiceIsEarned
  <2> QED BY <2>5, <2>7, <2>8 DEF Served
<1> QED BY <1>4, <1>5

(* The service starts: the package it starts with was looked at now.       *)
LEMMA StartServes ==
    ASSUME Served, UNCHANGED database, NEW at \in Nat, MayStart(at), TestStartService(at)
    PROVE  Served'
<1>1. /\ pkgs # <<>> /\ Len(pkgs) \in Revisions /\ Last.status = "CLAIMED" /\ Last.expires > at /\ Last.passed
      /\ Start <= at /\ at < End /\ meter.status = "SCHEDULED" /\ task.status = "DELIVERED"
  BY DEF MayStart, Shows, Last
<1>2. /\ meter' = [meter EXCEPT !.status = "ACTIVE", !.began = at]
      /\ task' = [status |-> "IN_SERVICE", attempt |-> task.attempt + 0]
      /\ resv' = "IN_SERVICE" /\ version' = version + 1
      /\ UNCHANGED <<phase, pkgs, accept, settle, entries, accrued>>
  BY DEF TestStartService, Task, Bumped
<1>3. DeliveryRows /\ Packaged /\ Metering /\ Booked
  BY DEF Served
<1>4. task.attempt \in Nat /\ task'.attempt = task.attempt /\ task'.status = "IN_SERVICE"
  BY <1>2, <1>3 DEF DeliveryRows
<1>5. /\ meter' \in [status : {"SCHEDULED", "ACTIVE", "FINAL"}, began : Nat, available : Nat]
      /\ meter'.status = "ACTIVE" /\ meter'.began = at
  BY <1>2, <1>3 DEF DeliveryRows
<1>6. DeliveryRows'
  BY <1>2, <1>3, <1>5 DEF DeliveryRows
<1>7. Packaged'
  BY <1>1, <1>2, <1>3, <1>4 DEF Packaged, Shown, Last, Revisions
<1>8. Metering' /\ Booked'
  BY <1>1, <1>2, <1>3, <1>4, <1>5 DEF Metering, Booked
<1>9. ServiceIsEarned'
  <2>1. Last.review = "PASS" /\ Last.claimed
    BY <1>1, <1>3 DEF Packaged, Last
  <2>2. Last' = Last
    BY <1>2 DEF Last
  <2> QED BY <1>1, <1>2, <1>5, <2>1, <2>2 DEF ServiceIsEarned
<1> QED BY <1>6, <1>7, <1>8, <1>9 DEF Served

(* The service ends, and its hours are priced.                             *)
LEMMA CompleteServes ==
    ASSUME Served, UNCHANGED database, NEW at, MayComplete(at), TestCompleteMetering
    PROVE  Served'
<1> DEFINE payable == (Gross * Available) \div Scheduled
<1>1. /\ meter.status = "ACTIVE" /\ task.status = "IN_SERVICE"
      /\ meter' = [meter EXCEPT !.status = "FINAL", !.available = Available]
      /\ task' = [status |-> "COMPLETED", attempt |-> task.attempt + 0]
      /\ resv' = "FULFILLED" /\ phase' = "AWAITING_ACCEPTANCE" /\ accept' = "PENDING"
      /\ settle' = [status |-> "BLOCKED", payable |-> payable, credit |-> Gross - payable]
      /\ version' = version + 1 /\ UNCHANGED <<pkgs, entries, accrued>>
  BY DEF MayComplete, TestCompleteMetering, Task, Bumped
<1>2. DeliveryRows /\ Packaged /\ Metering /\ Booked /\ ServiceIsEarned
  BY DEF Served
<1>3. meter.began \in Nat /\ Start <= meter.began /\ meter.began < End
  BY <1>1, <1>2 DEF DeliveryRows, ServiceIsEarned
<1>4. /\ Available \in Nat /\ payable \in 0 .. Gross
      /\ payable * (End - Start) <= Gross * (End - meter.began)
      /\ (payable + 1) * (End - Start) > Gross * (End - meter.began)
  BY <1>3, ShareOfService DEF Available
<1> HIDE DEF payable
<1>5. /\ payable \in Nat /\ Gross - payable \in Nat /\ payable + (Gross - payable) = Gross
  BY <1>4, DeliveryAssumption
<1>6. task.attempt \in Nat /\ task'.attempt = task.attempt /\ task'.status = "COMPLETED"
  BY <1>1, <1>2 DEF DeliveryRows
<1>7. /\ meter' \in [status : {"SCHEDULED", "ACTIVE", "FINAL"}, began : Nat, available : Nat]
      /\ meter'.status = "FINAL" /\ meter'.began = meter.began
  BY <1>1, <1>2, <1>4 DEF DeliveryRows
<1>8. settle'.status = "BLOCKED" /\ settle'.payable = payable /\ settle'.credit = Gross - payable
  BY <1>1
<1>9. DeliveryRows'
  BY <1>1, <1>2, <1>5, <1>7 DEF DeliveryRows
<1>10. Packaged'
  BY <1>1, <1>2, <1>6 DEF Packaged, Shown, Last, Revisions
<1>11. Metering'
  BY <1>1, <1>6, <1>7, <1>8 DEF Metering
<1>12. Booked'
  <2>1. Divided'
    BY <1>4, <1>5, <1>7, <1>8 DEF Divided
  <2>2. settle.status # "TEST_RECORDED"
    BY <1>1, <1>2 DEF Metering
  <2> QED BY <1>1, <1>2, <1>8, <2>1, <2>2 DEF Booked
<1>13. ServiceIsEarned'
  <2>1. Last' = Last
    BY <1>1 DEF Last
  <2> QED BY <1>1, <1>2, <1>7, <2>1 DEF ServiceIsEarned
<1> QED BY <1>9, <1>10, <1>11, <1>12, <1>13 DEF Served

(* After the service, what does not touch it.                              *)
LEMMA AfterService ==
    ASSUME Served, UNCHANGED <<database, version, resv, task, pkgs, meter>> \/
                   (version' = version + 1 /\ UNCHANGED <<database, resv, task, pkgs, meter>>),
           phase' \in {"FULFILLING", "AWAITING_ACCEPTANCE", "COMPLETED", "EXCEPTION"},
           accept' \in {"PENDING", "ACCEPTED", "DISPUTED"},
           NEW s \in {"BLOCKED", "ELIGIBLE", "TEST_RECORDED"}, settle' = [settle EXCEPT !.status = s],
           s \in {"ELIGIBLE", "TEST_RECORDED"} <=> accept' = "ACCEPTED",
           meter.status = "FINAL",
           \/ s # "TEST_RECORDED" /\ settle.status # "TEST_RECORDED" /\ UNCHANGED <<entries, accrued>>
           \/ /\ s = "TEST_RECORDED" /\ entries' = Ledger(settle.payable, settle.credit)
              /\ accrued' \in Seq(Nat) /\ Len(accrued') = IF Attributed THEN 1 ELSE 0
    PROVE  Served'
<1>1. DeliveryRows /\ Packaged /\ Metering /\ Booked /\ ServiceIsEarned
  BY DEF Served
<1>2. /\ settle' \in [status : {"NONE", "BLOCKED", "ELIGIBLE", "TEST_RECORDED"}, payable : Nat, credit : Nat]
      /\ settle'.status = s /\ settle'.payable = settle.payable /\ settle'.credit = settle.credit
      /\ settle.payable \in Nat /\ settle.credit \in Nat
  BY <1>1 DEF DeliveryRows
<1>3. entries' \in Seq(EntryRow) /\ accrued' \in Seq(Nat)
  <2>1. CASE s # "TEST_RECORDED"
    BY <1>1, <2>1 DEF DeliveryRows
  <2>2. CASE s = "TEST_RECORDED"
    <3>1. Ledger(settle.payable, settle.credit) \in Seq(EntryRow)
      BY <1>2, LedgerLines DEF IsLedger
    <3> QED BY <2>2, <3>1
  <2> QED BY <2>1, <2>2
<1>4. UNCHANGED <<database, resv, task, pkgs, meter>> /\ version' \in {version, version + 1}
  OBVIOUS
<1>5. DeliveryRows'
  BY <1>1, <1>2, <1>3, <1>4 DEF DeliveryRows
<1>6. Packaged' /\ ServiceIsEarned'
  BY <1>1, <1>4 DEF Packaged, Shown, Last, Revisions, ServiceIsEarned
<1>7. Metering'
  BY <1>1, <1>2, <1>4 DEF Metering
<1>8. Booked'
  <2>1. Divided'
    BY <1>1, <1>2, <1>4 DEF Booked, Divided
  <2>2. CASE s # "TEST_RECORDED"
    BY <1>1, <1>2, <2>1, <2>2 DEF Booked
  <2>3. CASE s = "TEST_RECORDED"
    BY <1>2, <2>1, <2>3 DEF Booked
  <2> QED BY <2>2, <2>3
<1> QED BY <1>5, <1>6, <1>7, <1>8 DEF Served

(* The buyer accepts or disputes what was metered.                         *)
LEMMA AcceptServes ==
    ASSUME Served, UNCHANGED database, NEW ok \in BOOLEAN, MayAccept, SubmitAcceptance(ok)
    PROVE  Served'
<1> DEFINE s == IF ok THEN "ELIGIBLE" ELSE "BLOCKED"
<1>1. /\ settle' = [settle EXCEPT !.status = s] /\ settle.status = "BLOCKED" /\ meter.status = "FINAL"
      /\ accept' = IF ok THEN "ACCEPTED" ELSE "DISPUTED"
      /\ phase' = IF ok THEN "COMPLETED" ELSE "EXCEPTION"
      /\ version' = version + 1 /\ UNCHANGED <<resv, task, pkgs, meter, entries, accrued>>
  BY DEF SubmitAcceptance, MayAccept, Bumped
<1>2. /\ s \in {"BLOCKED", "ELIGIBLE"} /\ (s = "ELIGIBLE" <=> accept' = "ACCEPTED")
      /\ accept' \in {"PENDING", "ACCEPTED", "DISPUTED"}
      /\ phase' \in {"FULFILLING", "AWAITING_ACCEPTANCE", "COMPLETED", "EXCEPTION"}
  BY <1>1
<1> HIDE DEF s
<1> QED BY <1>1, <1>2, AfterService

(* The settlement of an accepted order is entered once.                    *)
LEMMA RecordServes == ASSUME Served, UNCHANGED database, MayRecord, TestRecordSettlement PROVE Served'
<1>1. /\ settle' = [settle EXCEPT !.status = "TEST_RECORDED"] /\ settle.status = "ELIGIBLE"
      /\ accept = "ACCEPTED" /\ entries' = entries \o <<Entry("TEST_BUYER_SETTLEMENT_CLEARING", "DEBIT", Gross)>>
                                     \o Credit("TEST_SUPPLIER_PAYABLE", settle.payable)
                                     \o Credit("TEST_BUYER_CREDIT", settle.credit)
      /\ accrued' = IF Attributed THEN Append(accrued, (Gross * 300) \div 10000) ELSE accrued
      /\ UNCHANGED <<version, resv, phase, task, pkgs, meter, accept>>
  BY DEF MayRecord, TestRecordSettlement
<1>2. DeliveryRows /\ Metering /\ Booked
  BY DEF Served
<1>3. entries = <<>> /\ accrued = <<>> /\ meter.status = "FINAL"
  BY <1>1, <1>2 DEF Metering, Booked
<1>4. \A e : <<>> \o <<e>> = <<e>>
  OBVIOUS
<1>5. entries' = Ledger(settle.payable, settle.credit)
  BY <1>1, <1>3, <1>4 DEF Ledger
<1>6. accrued' \in Seq(Nat) /\ Len(accrued') = IF Attributed THEN 1 ELSE 0
  <2>1. (Gross * 300) \div 10000 \in Nat
    BY DeliveryAssumption, Quotient
  <2> QED BY <1>1, <1>3, <2>1
<1>7. phase' \in {"FULFILLING", "AWAITING_ACCEPTANCE", "COMPLETED", "EXCEPTION"} /\ accept' = "ACCEPTED"
  BY <1>1, <1>2 DEF DeliveryRows
<1> QED BY <1>1, <1>3, <1>5, <1>6, <1>7, AfterService

(* A command that is tested and performed at one time keeps the rows.      *)
LEMMA PerformServes ==
    ASSUME Served, UNCHANGED database, NEW c \in Commands, NEW at \in Nat,
           Allowed(c, at), Perform(c, at)
    PROVE  Served'
<1>1. CASE c.op = "provision"
  <2>1. MayProvision /\ StartProvisioning
    BY <1>1 DEF Allowed, Perform
  <2> QED BY <2>1, ProvisionServes
<1>2. CASE c.op = "submit"
  <2>1. MaySubmit /\ SubmitDeliveryPackage(c.expires)
    BY <1>2 DEF Allowed, Perform
  <2>2. c.expires \in Nat
    BY <1>2, DeliveryAssumption DEF Commands, Plain
  <2> QED BY <2>1, <2>2, SubmitServes
<1>3. CASE c.op = "review"
  <2>1. MayReview(c.pkg, at) /\ ReviewDeliveryPackage(c.pkg, c.ok)
    BY <1>3 DEF Allowed, Perform
  <2>2. c.ok \in BOOLEAN
    BY <1>3 DEF Commands, Plain
  <2> QED BY <2>1, <2>2, ReviewServes
<1>4. CASE c.op = "claim"
  <2>1. MayClaim(c.pkg, at) /\ ClaimDeliveryPackage(c.pkg)
    BY <1>4 DEF Allowed, Perform
  <2> QED BY <2>1, ClaimServes
<1>5. CASE c.op = "test"
  <2>1. MayTest(c.pkg, at) /\ TestDeliveryConnection(c.pkg)
    BY <1>5 DEF Allowed, Perform
  <2> QED BY <2>1, TestServes
<1>6. CASE c.op = "start"
  <2>1. MayStart(at) /\ TestStartService(at)
    BY <1>6 DEF Allowed, Perform
  <2> QED BY <2>1, StartServes
<1>7. CASE c.op = "complete"
  <2>1. MayComplete(at) /\ TestCompleteMetering
    BY <1>7 DEF Allowed, Perform
  <2> QED BY <2>1, CompleteServes
<1>8. CASE c.op = "accept"
  <2>1. MayAccept /\ SubmitAcceptance(c.ok)
    BY <1>8 DEF Allowed, Perform
  <2>2. c.ok \in BOOLEAN
    BY <1>8 DEF Commands, Plain
  <2> QED BY <2>1, <2>2, AcceptServes
<1>9. CASE c.op = "record"
  <2>1. MayRecord /\ TestRecordSettlement
    BY <1>9 DEF Allowed, Perform
  <2> QED BY <2>1, RecordServes
<1> QED BY <1>1, <1>2, <1>3, <1>4, <1>5, <1>6, <1>7, <1>8, <1>9 DEF Perform

(* Packages are added and never taken away.                                *)
LEMMA PackagesStay ==
    ASSUME Served, NEW c, NEW at, Perform(c, at)
    PROVE  Revisions \subseteq Revisions'
<1>1. pkgs \in Seq(PackageRow)
  BY DEF Served, Packaged
<1>2. \/ UNCHANGED pkgs
      \/ DOMAIN pkgs' = DOMAIN pkgs
      \/ \E row : pkgs' = Append(pkgs, row)
  <2>1. CASE c.op = "submit"
    BY <2>1 DEF Perform, SubmitDeliveryPackage
  <2>2. CASE c.op = "review"
    BY <2>2 DEF Perform, ReviewDeliveryPackage
  <2>3. CASE c.op = "claim"
    BY <2>3 DEF Perform, ClaimDeliveryPackage
  <2>4. CASE c.op = "test"
    BY <2>4 DEF Perform, TestDeliveryConnection
  <2>5. CASE c.op \notin {"submit", "review", "claim", "test"}
    BY <2>5 DEF Perform, StartProvisioning, TestStartService, TestCompleteMetering,
                SubmitAcceptance, TestRecordSettlement
  <2> QED BY <2>1, <2>2, <2>3, <2>4, <2>5
<1> QED BY <1>1, <1>2 DEF Revisions

(* A request that ends, or starts, leaves what the others carry valid.     *)
LEMMA CallsStay ==
    ASSUME Calling, UNCHANGED clock, Revisions \subseteq Revisions',
           \/ UNCHANGED call
           \/ \E r \in Calls : \E x \in {NoCall} \cup Posting \cup Expiring :
                  /\ call' = [call EXCEPT ![r] = x]
                  /\ x # NoCall => x.at <= clock
                  /\ x \in Expiring => x.pkg \in Revisions
    PROVE  Calling'
<1>1. CASE UNCHANGED call
  BY <1>1 DEF Calling
<1>2. ASSUME NEW r \in Calls, NEW x \in {NoCall} \cup Posting \cup Expiring,
             call' = [call EXCEPT ![r] = x], x # NoCall => x.at <= clock,
             x \in Expiring => x.pkg \in Revisions
      PROVE  Calling'
  <2>1. call' \in [Calls -> {NoCall} \cup Posting \cup Expiring]
    BY <1>2 DEF Calling
  <2>2. \A s \in Calls : call'[s] = IF s = r THEN x ELSE call[s]
    BY <1>2 DEF Calling
  <2> QED BY <1>2, <2>1, <2>2 DEF Calling
<1> QED BY <1>1, <1>2

(* Every step keeps the invariant.                                         *)
LEMMA ServingHolds == ASSUME Serving, [DeliveryNext]_deliveryVars PROVE Serving'
<1> USE DEF Serving
<1>1. clock \in Nat
  BY DeliveryAssumption DEF Calling
<1>2. ASSUME UNCHANGED <<database, version, resv, phase, task, pkgs, service>> PROVE Served' /\ Revisions' = Revisions
  <2>1. UNCHANGED <<meter, accept, settle, entries, accrued>>
    BY <1>2 DEF service
  <2>2. DeliveryRows' /\ Packaged'
    BY <1>2, <2>1 DEF Served, DeliveryRows, Packaged, Shown, Last, Revisions
  <2>3. Metering' /\ Booked' /\ ServiceIsEarned'
    BY <1>2, <2>1 DEF Served, Metering, Booked, Divided, ServiceIsEarned, Last
  <2> QED BY <1>2, <2>2, <2>3 DEF Served, Revisions
<1>3. ASSUME NEW c \in Commands, SqliteCommand(c) PROVE Serving'
  <2>1. Served'
    BY <1>1, <1>3, PerformServes DEF SqliteCommand
  <2>2. Calling'
    BY <1>3, PackagesStay, CallsStay DEF SqliteCommand
  <2> QED BY <2>1, <2>2
<1>4. ASSUME NEW p \in Revisions, SqliteExpiry(p) PROVE Serving'
  <2>1. Served'
    BY <1>4, ExpireServes DEF SqliteExpiry, RunOut
  <2>2. Revisions' = Revisions
    BY <1>4 DEF SqliteExpiry, Expire, Revisions
  <2>3. Calling'
    BY <1>4, <2>2, CallsStay DEF SqliteExpiry
  <2> QED BY <2>1, <2>3
<1>5. ASSUME NEW c \in Commands, NEW r \in Calls, D1Read(r, c) PROVE Serving'
  <2> DEFINE x == [step |-> "post", cmd |-> c, at |-> clock, version |-> version]
  <2>1. Served' /\ Revisions' = Revisions
    BY <1>2, <1>5 DEF D1Read
  <2>2. x \in Posting /\ x.at <= clock
    BY <1>1 DEF Posting, Served, DeliveryRows
  <2>3. call' = [call EXCEPT ![r] = x] /\ UNCHANGED clock
    BY <1>5 DEF D1Read
  <2> HIDE DEF x
  <2>4. Calling'
    BY <2>1, <2>2, <2>3, CallKinds, CallsStay
  <2> QED BY <2>1, <2>4
<1>6. ASSUME NEW p \in Revisions, NEW r \in Calls, D1ReadStale(r, p) PROVE Serving'
  <2> DEFINE x == [step |-> "expire", pkg |-> p, at |-> clock, status |-> pkgs[p].status]
  <2>1. Served' /\ Revisions' = Revisions
    BY <1>2, <1>6 DEF D1ReadStale
  <2>2. p \in Nat
    BY DEF Served, Packaged, Revisions
  <2>3. x \in Expiring /\ x.at <= clock /\ x.pkg \in Revisions
    BY <1>1, <1>6, <2>2 DEF Expiring, D1ReadStale, RunOut
  <2>4. call' = [call EXCEPT ![r] = x] /\ UNCHANGED clock
    BY <1>6 DEF D1ReadStale
  <2> HIDE DEF x
  <2>5. Calling'
    BY <2>1, <2>3, <2>4, CallsStay
  <2> QED BY <2>1, <2>5
<1>7. ASSUME NEW r \in Calls, D1Post(r) PROVE Serving'
  <2>1. call[r] \in Posting
    BY <1>7, CallKinds DEF D1Post, Calling
  <2>2. call[r].cmd \in Commands /\ call[r].at \in Nat
    BY <2>1 DEF Posting
  <2>3. call' = [call EXCEPT ![r] = NoCall] /\ UNCHANGED <<database, clock>>
    BY <1>7 DEF D1Post
  <2>4. Served' /\ Revisions \subseteq Revisions'
    <3>1. CASE Allowed(call[r].cmd, call[r].at) /\ Perform(call[r].cmd, call[r].at)
      BY <2>2, <2>3, <3>1, PerformServes, PackagesStay
    <3>2. CASE UNCHANGED <<version, resv, phase, task, pkgs, service>>
      BY <1>2, <2>3, <3>2
    <3> QED BY <1>7, <3>1, <3>2 DEF D1Post
  <2>5. Calling'
    BY <2>3, <2>4, CallKinds, CallsStay
  <2> QED BY <2>4, <2>5
<1>8. ASSUME NEW r \in Calls, D1PostExpiry(r) PROVE Serving'
  <2>1. call[r] \in Expiring
    BY <1>8, CallKinds DEF D1PostExpiry, Calling
  <2>2. call[r].pkg \in Revisions /\ call[r].status \in Live
    BY <2>1 DEF Expiring, Calling
  <2>3. call' = [call EXCEPT ![r] = NoCall] /\ UNCHANGED <<database, clock>>
    BY <1>8 DEF D1PostExpiry
  <2>4. Served' /\ Revisions \subseteq Revisions'
    <3>1. CASE pkgs[call[r].pkg].status = call[r].status /\ ExpiryCommits /\ Expire(call[r].pkg)
      <4>1. Served'
        BY <2>2, <2>3, <3>1, ExpireServes
      <4>2. Revisions' = Revisions
        BY <3>1 DEF Expire, Revisions
      <4> QED BY <4>1, <4>2
    <3>2. CASE UNCHANGED <<version, resv, phase, task, pkgs, service>>
      BY <1>2, <2>3, <3>2
    <3> QED BY <1>8, <3>1, <3>2 DEF D1PostExpiry
  <2>5. Calling'
    BY <2>3, <2>4, CallKinds, CallsStay
  <2> QED BY <2>4, <2>5
<1>9. ASSUME ClockTicks PROVE Serving'
  <2>1. Served' /\ Revisions' = Revisions
    BY <1>2, <1>9 DEF ClockTicks
  <2>2. clock' = clock + 1 /\ clock < MaxClock /\ call' = call
    BY <1>9 DEF ClockTicks
  <2>3. clock' \in 0 .. MaxClock
    BY <1>1, <2>2, DeliveryAssumption
  <2>4. \A r \in Calls : call[r] # NoCall => call[r].at \in Nat
    BY DEF Calling, Posting, Expiring
  <2>5. \A r \in Calls : call'[r] # NoCall => call'[r].at <= clock'
    BY <1>1, <2>2, <2>4 DEF Calling
  <2>6. Calling'
    BY <2>1, <2>2, <2>3, <2>5 DEF Calling
  <2> QED BY <2>1, <2>6
<1>10. ASSUME UNCHANGED deliveryVars PROVE Serving'
  <2>1. Served' /\ Revisions' = Revisions
    BY <1>2, <1>10 DEF deliveryVars
  <2>2. UNCHANGED <<call, clock>>
    BY <1>10 DEF deliveryVars
  <2> QED BY <2>1, <2>2 DEF Calling
<1> QED BY <1>3, <1>4, <1>5, <1>6, <1>7, <1>8, <1>9, <1>10 DEF DeliveryNext

(* The invariant holds always.                                             *)
LEMMA AlwaysServing == DeliverySpec => []Serving
<1> QED BY ServingStarts, ServingHolds, PTL DEF DeliverySpec

(* The rows of task and packages, and what the requests of D1 carry, are   *)
(* typed, and a task goes with its packages: on either store, whatever     *)
(* requests read before the batches of others.                             *)
THEOREM DeliveriesStayInStep == DeliverySpec => []DeliveryIsInStep
<1> QED BY AlwaysServing, ServingIsInStep, PTL

(* No service starts that was not reviewed, claimed and reached in time,   *)
(* and of the price the supplier is paid the share of the window it served,*)
(* in a ledger that balances and is written once.                          *)
THEOREM PaymentsStayEarned == DeliverySpec => []PaidAsEarned
<1> QED BY AlwaysServing, ServingIsEarned, PTL
=============================================================================
