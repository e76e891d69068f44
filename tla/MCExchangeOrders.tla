-------------------------- MODULE MCExchangeOrders --------------------------
(* Instances of ExchangeOrders for TLC.                                    *)
EXTENDS ExchangeOrders, TLC

CONSTANTS o1, o2, e1, e2, t1, t2

(* A unit of the first hours, and the whole lot in hours that overlap.     *)
TwoWindows == {[start |-> 3, end |-> 5, units |-> 1], [start |-> 4, end |-> 6, units |-> 2]}

Symmetry == Permutations(Orders) \cup Permutations(Requests)
            \cup Permutations(Events) \cup Permutations(Transactions)
=============================================================================
