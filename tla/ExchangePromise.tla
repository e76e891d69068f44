-------------------------- MODULE ExchangePromise --------------------------
(* What a buyer and a supplier of the exchange are promised of the orders  *)
(* on one capacity lot, whichever database the store runs on and whatever  *)
(* overlaps: an order is held, confirmed by the supplier, paid with one    *)
(* transaction of its own, or released for good; and the lot is never sold *)
(* twice. There is no clock: a hold "lapses" when its time is over, though *)
(* a confirmation that was read in time may still arrive.                  *)
EXTENDS Integers, FiniteSetsExt

CONSTANTS Orders, Transactions, Slots, LotUnits, Windows

VARIABLES
    stage,  \* "none", "held", "lapsed", "confirmed", "paid" or "released"
    window, \* the hours and units an order asks for
    paidBy  \* the transactions that paid for an order

vars == <<stage, window, paidBy>>

Takes(o, t) == window[o].start <= t /\ t < window[o].end
Selling == {o \in Orders : stage[o] \in {"held", "confirmed", "paid"}}

(* No hour of the lot is promised to more buyers than it has units for.    *)
NeverOversold ==
    \A t \in Slots :
        MapThenSumSet(LAMBDA o : window[o].units, {o \in Selling : Takes(o, t)}) <= LotUnits

Init ==
    /\ stage = [o \in Orders |-> "none"]
    /\ window \in [Orders -> Windows]
    /\ paidBy = [o \in Orders |-> {}]

Goes(from, to) ==
    \/ from = to
    \/ from = "none" /\ to \in {"held", "lapsed"}
    \/ from = "held" /\ to \in {"lapsed", "confirmed", "released"}
    \/ from = "lapsed" /\ to \in {"confirmed", "released"}
    \/ from = "confirmed" /\ to \in {"paid", "released"}

(* A window is chosen with the order, and one payment with its stage.      *)
Next ==
    /\ \A o \in Orders : Goes(stage[o], stage'[o])
    /\ \A o \in Orders : stage[o] # "none" => window'[o] = window[o]
    /\ \A o \in Orders :
           IF stage[o] # "paid" /\ stage'[o] = "paid"
           THEN \E t \in Transactions : /\ paidBy'[o] = {t}
                                        /\ \A p \in Orders : t \notin paidBy[p]
           ELSE paidBy'[o] = paidBy[o]
    /\ NeverOversold'

Spec == Init /\ [][Next]_vars
=============================================================================
