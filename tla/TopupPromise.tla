---------------------------- MODULE TopupPromise ----------------------------
(***************************************************************************)
(* What cash top-ups promise a customer, with no handler, lease or callback *)
(* in sight: an order is paid once at the provider, its amount enters the   *)
(* wallet once, after the payment, and a refund closes only a credited      *)
(* order.  TopupReconciliation implements it.                              *)
(***************************************************************************)
EXTENDS Integers

CONSTANT Orders

VARIABLES
    paid,     \* orders the provider received the money for
    credit,   \* times the order's amount entered the wallet
    closed    \* orders refunded and closed

vars == <<paid, credit, closed>>

Init ==
    /\ paid = {}
    /\ credit = [o \in Orders |-> 0]
    /\ closed = {}

Pay(o) ==
    /\ o \notin paid
    /\ paid' = paid \cup {o}
    /\ UNCHANGED <<credit, closed>>

Credit(o) ==
    /\ o \in paid \ closed
    /\ credit[o] = 0
    /\ credit' = [credit EXCEPT ![o] = 1]
    /\ UNCHANGED <<paid, closed>>

Close(o) ==
    /\ credit[o] = 1
    /\ o \notin closed
    /\ closed' = closed \cup {o}
    /\ UNCHANGED <<paid, credit>>

Next == \E o \in Orders : Pay(o) \/ Credit(o) \/ Close(o)

Spec == Init /\ [][Next]_vars

(* A payment the provider received is eventually wallet credit.             *)
PaidIsCredited == \A o \in Orders : o \in paid ~> credit[o] = 1
=============================================================================
