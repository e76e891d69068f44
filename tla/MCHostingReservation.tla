------------------------ MODULE MCHostingReservation ------------------------
(* Instances of HostingReservation for TLC.                                *)
EXTENDS HostingReservation, TLC

(* The clients of a behaviour, chosen with its first state.                *)
VARIABLE keysOf

(* Any request slot may carry any key: concurrent retries of a client.     *)
AnyKeys == [r \in Requests |-> Keys]

(* Each slot carries one key: a client retries only when its last request  *)
(* is over, and competes with the others for the listing.                  *)
OwnKey == {own \in [Requests -> {{k} : k \in Keys}] :
               \A r, q \in Requests : own[r] = own[q] => r = q}

MCInit == Init /\ keysOf \in {AnyKeys} \cup OwnKey

(* Orderly clients keep to their keys, and none of them cancels.           *)
MCNext ==
    /\ Next
    /\ \A r \in Requests : req'[r] # Idle => req'[r].key \in keysOf[r]
    /\ keysOf # AnyKeys => \A r \in Cancels : req'[r] = Idle
    /\ UNCHANGED keysOf

MCSpec == MCInit /\ [][MCNext]_<<vars, keysOf>>

(* Among orderly buyers, a listing is sold to one at a time and is not for *)
(* sale while its machine is prepared or runs, whatever crashes and is     *)
(* compensated.                                                            *)
OrderlySaleIsExclusive ==
    keysOf # AnyKeys => OneReservationPerListing /\ NotRelistedAfterProvisioning

(* Nothing tells two keys, or two request slots, apart.                    *)
Symmetry == Permutations(Keys) \cup Permutations(Requests)
=============================================================================
