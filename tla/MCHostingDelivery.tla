------------------------- MODULE MCHostingDelivery -------------------------
(* Instances of HostingDelivery for TLC.                                   *)
EXTENDS HostingDelivery, TLC

(* Administrators and the network; or everybody, while one thing fails at  *)
(* most; or disputes and a retirement, while nothing does.                 *)
Administrators == {"ADMIN", "OUTAGE"}
Everybody      == Administrators \cup {"DISPUTE", "RETIRE", "HEARTBEAT", "UNLIST"}
Partners       == {"DISPUTE", "RETIRE"}
MCOccasions    == {Administrators, Everybody, Partners}

(* A second start request is a fault, and not for everybody to meet.       *)
AskedTwice ==
    \E r, s \in StartRequests : r # s /\ asked[r] # "NEW" /\ asked[s] # "NEW"

FaultsFit ==
    \/ /\ occasion = Administrators
       /\ faults + (IF AskedTwice THEN 1 ELSE 0) <= MaxFaults
       /\ ~host.stale
    \/ occasion = Everybody /\ faults <= 1 /\ ~AskedTwice
    \/ occasion = Partners /\ faults = 0

(* The start requests differ in nothing but their names.                   *)
Interchangeable == Permutations(StartRequests)
=============================================================================
