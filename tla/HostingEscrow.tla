--------------------------- MODULE HostingEscrow ---------------------------
(* What one GPU lease promises to buyer and supplier, without machines,    *)
(* commands or failures. HostingDelivery implements it.                    *)

VARIABLES
    purse,      \* the locked card-hours
    served,     \* the service on record
    sale,       \* the listing is published
    repeated    \* the service was ordered to start a second time

vars == <<purse, served, sale, repeated>>

Init == purse = "HELD" /\ served = "NONE" /\ sale = FALSE /\ repeated = FALSE

Serve ==
    /\ purse = "HELD"
    /\ served = "NONE"
    /\ served' = "RUNNING"
    /\ UNCHANGED <<purse, sale, repeated>>

(* Of two orders to start one may fail: then what it began was given back. *)
Meter ==
    /\ purse = "HELD" \/ repeated
    /\ served = "RUNNING"
    /\ served' = "METERED"
    /\ UNCHANGED <<purse, sale, repeated>>

Pay ==
    /\ purse = "HELD"
    /\ served = "METERED"
    /\ purse' = "SETTLED"
    /\ UNCHANGED <<served, sale, repeated>>

(* A delivery that failed, or a dispute decided for the buyer; a service   *)
(* that runs only where it was ordered twice and one order failed.         *)
Return ==
    /\ purse = "HELD"
    /\ served # "RUNNING" \/ repeated
    /\ purse' = "RELEASED"
    /\ UNCHANGED <<served, sale, repeated>>

Relist ==
    /\ purse # "HELD"
    /\ ~sale
    /\ sale' = TRUE
    /\ UNCHANGED <<purse, served, repeated>>

Withdraw ==
    /\ sale
    /\ sale' = FALSE
    /\ UNCHANGED <<purse, served, repeated>>

Repeat ==
    /\ ~repeated
    /\ repeated' = TRUE
    /\ UNCHANGED <<purse, served, sale>>

Next == Repeat \/ Serve \/ Meter \/ Pay \/ Return \/ Relist \/ Withdraw

Spec == Init /\ [][Next]_vars
=============================================================================
