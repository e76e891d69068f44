------------------------- MODULE HostingReservation -------------------------
(* The reservation of one GPU listing: POST /api/v2/contracts reserves the *)
(* listing (hosting-v2-store-core.ts), locks the buyer's card-hours        *)
(* (card-hour-store-core.ts) and confirms the contract, three transactions *)
(* of two stores joined by hosting-contract-service.ts; a failure on the   *)
(* way is compensated by two more. The buyer may cancel or attach an SSH   *)
(* key, the supplier may pause the listing or retire the device meanwhile. *)
(*                                                                         *)
(* Each read that a later batch relies on is a step of its own; a batch is *)
(* one transaction. A contract is named by the idempotency key that        *)
(* creates it. Every lease costs one unit of card-hours.                   *)
EXTENDS Integers, FiniteSets

CONSTANTS
    Keys,       \* idempotency keys of the reservations; also the contracts
    Requests,   \* POST /contracts requests running at once
    KeysOf,     \* the keys a client sends on each request slot
    Cancels,    \* cancellation requests running at once
    CancelKeys, \* idempotency keys of the cancellations
    Funds       \* card-hours of the buyer, in leases

ASSUME ReservationAssumption ==
    /\ IsFiniteSet(Keys)
    /\ KeysOf \in [Requests -> SUBSET Keys]
    /\ Requests \cap Cancels = {}
    /\ Funds \in Nat

VARIABLES
    offer,      \* hosting_v2_offers.status
    device,     \* hosting_v2_devices.status
    contract,   \* hosting_v2_contracts.status, "NONE" before the row exists
    queued,     \* contracts with a PROVISION command not yet completed
    receipts,   \* hosting_v2_command_receipts
    hold,       \* card_hour_order_holds.status, "NONE" before the row exists
    wallet,     \* card_hour_wallets of the buyer
    req         \* local state of the requests in flight

vars == <<offer, device, contract, queued, receipts, hold, wallet, req>>

Cancellable == {"RESERVED", "CARD_HOURS_HELD"}
Delivering  == {"PROVISIONING", "READY"}
Retired     == {"DRAINING", "REVOKED"}
Idle        == [step |-> "idle"]
ReserveSteps == {"insert", "read", "hold", "holdPost", "mark", "markPost", "confirm",
                 "release", "undo", "undoPost"}
At(r, step) == req[r].step = step
Goto(r, step) == req' = [req EXCEPT ![r].step = step]
Finish(r) == req' = [req EXCEPT ![r] = Idle]

Init ==
    /\ offer = "PUBLISHED"
    /\ device = "VERIFIED"
    /\ contract = [k \in Keys |-> "NONE"]
    /\ queued = {}
    /\ receipts = {}
    /\ hold = [k \in Keys |-> "NONE"]
    /\ wallet = [available |-> Funds, held |-> 0]
    /\ req = [r \in Requests \cup Cancels |-> Idle]

-----------------------------------------------------------------------------
(* POST /contracts, first transaction: the row and the listing.            *)

(* A known key is replayed; otherwise the listing must look available.     *)
BeginReserve(r, k) ==
    /\ At(r, "idle")
    /\ k \in KeysOf[r]
    /\ \/ /\ <<"RESERVE", k>> \in receipts
          /\ req' = [req EXCEPT ![r] = [step |-> "read", key |-> k, seen |-> "NONE"]]
       \/ /\ <<"RESERVE", k>> \notin receipts
          /\ offer = "PUBLISHED" /\ device = "VERIFIED"
          /\ req' = [req EXCEPT ![r] = [step |-> "insert", key |-> k, seen |-> "NONE"]]
    /\ UNCHANGED <<offer, device, contract, queued, receipts, hold, wallet>>

(* Mutant of PostReserve: the row is inserted without testing the listing. *)
PostReserveUnguarded(r) ==
    /\ At(r, "insert")
    /\ LET k == req[r].key IN
       IF <<"RESERVE", k>> \in receipts THEN Finish(r) /\ UNCHANGED <<offer, contract, receipts>>
       ELSE /\ contract' = [contract EXCEPT ![k] = "RESERVED"]
            /\ offer' = "RESERVED"
            /\ receipts' = receipts \cup {<<"RESERVE", k>>}
            /\ Goto(r, "read")
    /\ UNCHANGED <<device, queued, hold, wallet>>

(* The receipt's primary key aborts a concurrent duplicate. Losing the     *)
(* listing aborts nothing: the receipt stays, without a contract.          *)
PostReserve(r) ==
    /\ At(r, "insert")
    /\ LET k == req[r].key IN
       IF <<"RESERVE", k>> \in receipts THEN Finish(r) /\ UNCHANGED <<offer, contract, receipts>>
       ELSE /\ receipts' = receipts \cup {<<"RESERVE", k>>}
            /\ IF offer = "PUBLISHED"
               THEN /\ contract' = [contract EXCEPT ![k] = "RESERVED"]
                    /\ offer' = "RESERVED"
               ELSE UNCHANGED <<offer, contract>>
            /\ Goto(r, "read")
    /\ UNCHANGED <<device, queued, hold, wallet>>

(* The service refuses a reservation that is missing or over, and decides  *)
(* on this reading whether the contract still has to be confirmed.         *)
ReadContract(r) ==
    /\ At(r, "read")
    /\ LET seen == contract[req[r].key] IN
       IF seen \in {"NONE", "CANCELLED"} THEN Finish(r)
       ELSE req' = [req EXCEPT ![r].step = "hold", ![r].seen = seen]
    /\ UNCHANGED <<offer, device, contract, queued, receipts, hold, wallet>>

-----------------------------------------------------------------------------
(* Second transaction: the card-hours.                                     *)

Confirming(r) == IF req[r].seen = "RESERVED" THEN Goto(r, "mark") ELSE Finish(r)

ReadHold(r) ==
    /\ At(r, "hold")
    /\ CASE hold[req[r].key] = "NONE" -> Goto(r, "holdPost")
         [] hold[req[r].key] = "HELD" -> Confirming(r)
         [] OTHER -> Goto(r, "release")
    /\ UNCHANGED <<offer, device, contract, queued, receipts, hold, wallet>>

(* Mutants of PostHold: a released hold is taken again; the funds of the   *)
(* wallet are not tested and not moved to the held column.                 *)
PostHoldReplacing(r) ==
    /\ At(r, "holdPost")
    /\ LET k == req[r].key IN
       IF hold[k] # "HELD" /\ wallet.available > 0
       THEN /\ hold' = [hold EXCEPT ![k] = "HELD"]
            /\ wallet' = [available |-> wallet.available - 1, held |-> wallet.held + 1]
            /\ Confirming(r)
       ELSE Goto(r, "release") /\ UNCHANGED <<hold, wallet>>
    /\ UNCHANGED <<offer, device, contract, queued, receipts>>

PostHoldUnfunded(r) ==
    /\ At(r, "holdPost")
    /\ LET k == req[r].key IN
       IF hold[k] = "NONE"
       THEN /\ hold' = [hold EXCEPT ![k] = "HELD"]
            /\ wallet' = IF wallet.available > 0
                         THEN [available |-> wallet.available - 1, held |-> wallet.held + 1]
                         ELSE wallet
            /\ Confirming(r)
       ELSE Goto(r, "release") /\ UNCHANGED <<hold, wallet>>
    /\ UNCHANGED <<offer, device, contract, queued, receipts>>

(* UNIQUE(source_system, order_id) aborts a duplicate, and an empty wallet *)
(* inserts nothing: both are errors, and errors are compensated.           *)
PostHold(r) ==
    /\ At(r, "holdPost")
    /\ LET k == req[r].key IN
       IF hold[k] = "NONE" /\ wallet.available > 0
       THEN /\ hold' = [hold EXCEPT ![k] = "HELD"]
            /\ wallet' = [available |-> wallet.available - 1, held |-> wallet.held + 1]
            /\ Confirming(r)
       ELSE Goto(r, "release") /\ UNCHANGED <<hold, wallet>>
    /\ UNCHANGED <<offer, device, contract, queued, receipts>>

-----------------------------------------------------------------------------
(* Third transaction: RESERVED becomes CARD_HOURS_HELD.                    *)

ReadMark(r) ==
    /\ At(r, "mark")
    /\ Goto(r, IF <<"MARK", req[r].key>> \in receipts THEN "confirm" ELSE "markPost")
    /\ UNCHANGED <<offer, device, contract, queued, receipts, hold, wallet>>

PostMark(r) ==
    /\ At(r, "markPost")
    /\ LET k == req[r].key IN
       IF <<"MARK", k>> \in receipts THEN Goto(r, "release") /\ UNCHANGED <<contract, receipts>>
       ELSE /\ receipts' = receipts \cup {<<"MARK", k>>}
            /\ contract' = IF contract[k] = "RESERVED"
                           THEN [contract EXCEPT ![k] = "CARD_HOURS_HELD"] ELSE contract
            /\ Goto(r, "confirm")
    /\ UNCHANGED <<offer, device, queued, hold, wallet>>

(* The row is read again, and any other status is an error.                *)
ConfirmMark(r) ==
    /\ At(r, "confirm")
    /\ IF contract[req[r].key] = "CARD_HOURS_HELD" THEN Finish(r) ELSE Goto(r, "release")
    /\ UNCHANGED <<offer, device, contract, queued, receipts, hold, wallet>>

-----------------------------------------------------------------------------
(* Release and cancellation, shared by the compensation of a failed        *)
(* reservation and by POST /contracts/:id/cancel.                          *)

(* Mutant of ReleaseHold: the released amount is credited even when the    *)
(* hold was released before.                                               *)
ReleaseHoldAgain(k) ==
    /\ hold' = [hold EXCEPT ![k] = IF hold[k] = "NONE" THEN "NONE" ELSE "RELEASED"]
    /\ wallet' = IF hold[k] = "NONE" THEN wallet
                 ELSE [available |-> wallet.available + 1, held |-> wallet.held - 1]

ReleaseHold(k) ==
    IF hold[k] = "HELD"
    THEN /\ hold' = [hold EXCEPT ![k] = "RELEASED"]
         /\ wallet' = [available |-> wallet.available + 1, held |-> wallet.held - 1]
    ELSE UNCHANGED <<hold, wallet>>

(* Mutant of CancelBatch: the listing is republished whatever became of    *)
(* the device.                                                             *)
CancelBatchRelisting(k) ==
    /\ contract' = IF contract[k] \in Cancellable
                   THEN [contract EXCEPT ![k] = "CANCELLED"] ELSE contract
    /\ offer' = "PUBLISHED"

(* The batch of cancelContract. Its second statement looks at the listing  *)
(* alone: it republishes even when the first one changed no row.           *)
CancelBatch(k) ==
    /\ contract' = IF contract[k] \in Cancellable
                   THEN [contract EXCEPT ![k] = "CANCELLED"] ELSE contract
    /\ offer' = IF offer # "RESERVED" THEN offer
                ELSE IF device \in Retired THEN "SUSPENDED" ELSE "PUBLISHED"

(* compensateReservation releases first, whatever the contract has become. *)
CompensateRelease(r) ==
    /\ At(r, "release")
    /\ ReleaseHold(req[r].key)
    /\ Goto(r, "undo")
    /\ UNCHANGED <<offer, device, contract, queued, receipts>>

(* Mutant of ReadUndo: the compensation cancels without reading.           *)
ReadUndoUnchecked(r) ==
    /\ At(r, "undo")
    /\ Goto(r, "undoPost")
    /\ UNCHANGED <<offer, device, contract, queued, receipts, hold, wallet>>

ReadUndo(r) ==
    /\ At(r, "undo")
    /\ IF <<"COMPENSATE", req[r].key>> \in receipts \/ contract[req[r].key] \notin Cancellable
       THEN Finish(r) ELSE Goto(r, "undoPost")
    /\ UNCHANGED <<offer, device, contract, queued, receipts, hold, wallet>>

PostUndo(r) ==
    /\ At(r, "undoPost")
    /\ LET id == <<"COMPENSATE", req[r].key>> IN
       IF id \in receipts THEN UNCHANGED <<offer, contract, receipts>>
       ELSE CancelBatch(req[r].key) /\ receipts' = receipts \cup {id}
    /\ Finish(r)
    /\ UNCHANGED <<device, queued, hold, wallet>>

(* The buyer's cancellation; a replayed key goes on to the release.        *)
BeginCancel(r, k, x) ==
    /\ At(r, "idle")
    /\ \/ /\ <<"CANCEL", k, x>> \in receipts
          /\ req' = [req EXCEPT ![r] = [step |-> "cancelled", key |-> k, id |-> x]]
       \/ /\ <<"CANCEL", k, x>> \notin receipts
          /\ contract[k] \in Cancellable
          /\ req' = [req EXCEPT ![r] = [step |-> "cancel", key |-> k, id |-> x]]
    /\ UNCHANGED <<offer, device, contract, queued, receipts, hold, wallet>>

PostCancel(r) ==
    /\ At(r, "cancel")
    /\ LET id == <<"CANCEL", req[r].key, req[r].id>> IN
       IF id \in receipts THEN Finish(r) /\ UNCHANGED <<offer, contract, receipts>>
       ELSE /\ CancelBatch(req[r].key)
            /\ receipts' = receipts \cup {id}
            /\ Goto(r, "cancelled")
    /\ UNCHANGED <<device, queued, hold, wallet>>

CancelRelease(r) ==
    /\ At(r, "cancelled")
    /\ ReleaseHold(req[r].key)
    /\ Finish(r)
    /\ UNCHANGED <<offer, device, contract, queued, receipts>>

-----------------------------------------------------------------------------
(* What the buyer, the host and the supplier do meanwhile.                 *)

(* attachSshKey repeats every test of its reading inside its batch.        *)
AttachSshKey(k) ==
    /\ contract[k] = "CARD_HOURS_HELD"
    /\ device = "VERIFIED"
    /\ contract' = [contract EXCEPT ![k] = "PROVISIONING"]
    /\ queued' = queued \cup {k}
    /\ UNCHANGED <<offer, device, receipts, hold, wallet, req>>

(* completeCommand of a successful PROVISION.                              *)
Provision(k) ==
    /\ k \in queued /\ contract[k] = "PROVISIONING" /\ device \notin Retired
    /\ contract' = [contract EXCEPT ![k] = "READY"]
    /\ queued' = queued \ {k}
    /\ device' = "BUSY"
    /\ UNCHANGED <<offer, receipts, hold, wallet, req>>

(* updateOfferStatus is a compare-and-set on the version of the listing,   *)
(* which every change of its status advances.                              *)
UpdateOfferStatus(new) ==
    /\ \/ new = "PUBLISHED" /\ offer = "PAUSED" /\ device = "VERIFIED"
       \/ new = "PAUSED" /\ offer = "PUBLISHED"
       \/ new = "UNLISTED" /\ offer \in {"PUBLISHED", "PAUSED", "SUSPENDED"}
    /\ offer' = new
    /\ UNCHANGED <<device, contract, queued, receipts, hold, wallet, req>>

(* requestDeviceRetirement: the supplier drains an unused device, the root *)
(* administrator revokes any. A device is retired once. The commands in    *)
(* the queue are failed without a delivery failure to refund them by.      *)
RetireDevice(mode) ==
    /\ device \notin Retired
    /\ mode = "GRACEFUL" => \A k \in Keys : contract[k] \in {"NONE", "CANCELLED"}
    /\ device' = IF mode = "GRACEFUL" THEN "DRAINING" ELSE "REVOKED"
    /\ offer' = IF offer \in {"PUBLISHED", "RESERVED", "PAUSED"} THEN "SUSPENDED" ELSE offer
    /\ queued' = {}
    /\ UNCHANGED <<contract, receipts, hold, wallet, req>>

(* The process stops; the client may send the same request again.          *)
Crash(r) ==
    /\ ~At(r, "idle")
    /\ Finish(r)
    /\ UNCHANGED <<offer, device, contract, queued, receipts, hold, wallet>>

-----------------------------------------------------------------------------
ReserveStep(r) ==
    \/ \E k \in Keys : BeginReserve(r, k)
    \/ PostReserve(r) \/ ReadContract(r)
    \/ ReadHold(r) \/ PostHold(r)
    \/ ReadMark(r) \/ PostMark(r) \/ ConfirmMark(r)
    \/ CompensateRelease(r) \/ ReadUndo(r) \/ PostUndo(r)

CancelStep(r) ==
    \/ \E k \in Keys, x \in CancelKeys : BeginCancel(r, k, x)
    \/ PostCancel(r) \/ CancelRelease(r)

Next ==
    \/ \E r \in Requests : ReserveStep(r)
    \/ \E r \in Cancels : CancelStep(r)
    \/ \E r \in Requests \cup Cancels : Crash(r)
    \/ \E k \in Keys : AttachSshKey(k) \/ Provision(k)
    \/ \E new \in {"PUBLISHED", "PAUSED", "UNLISTED"} : UpdateOfferStatus(new)
    \/ \E mode \in {"GRACEFUL", "EMERGENCY"} : RetireDevice(mode)

Spec == Init /\ [][Next]_vars

-----------------------------------------------------------------------------
ReserveStates == [step : ReserveSteps, key : Keys,
                  seen : {"NONE"} \cup Cancellable \cup Delivering]
CancelStates  == [step : {"cancel", "cancelled"}, key : Keys, id : CancelKeys]

(* Every variable holds a value the columns and the handlers can hold.     *)
TypeOK ==
    /\ offer \in {"PUBLISHED", "RESERVED", "PAUSED", "UNLISTED", "SUSPENDED"}
    /\ device \in {"VERIFIED", "BUSY"} \cup Retired
    /\ contract \in [Keys -> {"NONE", "CANCELLED"} \cup Cancellable \cup Delivering]
    /\ queued \subseteq Keys
    /\ receipts \subseteq ({"RESERVE", "MARK", "COMPENSATE"} \X Keys)
                          \cup ({"CANCEL"} \X Keys \X CancelKeys)
    /\ hold \in [Keys -> {"NONE", "HELD", "RELEASED"}]
    /\ wallet \in [available : Nat, held : Nat]
    /\ req \in [Requests \cup Cancels -> {Idle} \cup ReserveStates \cup CancelStates]
    /\ \A r \in Requests : req[r] \notin CancelStates
    /\ \A r \in Cancels : req[r] \notin ReserveStates

(* The buyer's wallet agrees with the holds: the held column is what the   *)
(* holds in HELD amount to and nothing is created or lost, whatever        *)
(* retries, cancellations and compensations overlap.                       *)
HeldMatchesHolds ==
    /\ wallet.held = Cardinality({k \in Keys : hold[k] = "HELD"})
    /\ wallet.available + wallet.held = Funds

(* A hold that was released is never taken again, although the reservation *)
(* it paid for may still be confirmed by a request that is under way.      *)
ReleasedIsFinal ==
    [][\A k \in Keys : hold[k] = "RELEASED" => hold'[k] = "RELEASED"]_vars

(* Once a device is being retired, no cancellation, compensation or status *)
(* change brings its listing back on the market.                           *)
RetiredStaysUnlisted ==
    device \in Retired => offer \in {"UNLISTED", "SUSPENDED"}

(* A listing is sold to one buyer at a time.                               *)
OneReservationPerListing ==
    \A k, l \in Keys :
        contract[k] \in Cancellable \cup Delivering
        /\ contract[l] \in Cancellable \cup Delivering => k = l

(* A machine that is being prepared or runs for a buyer is not for sale.   *)
NotRelistedAfterProvisioning ==
    \A k \in Keys : contract[k] \in Delivering => offer # "PUBLISHED"

(* A machine is prepared for a buyer only while his card-hours are locked. *)
(* The code does not keep this one: see "Disagreements" in the README.     *)
ProvisionedServiceIsHeld ==
    \A k \in Keys : contract[k] \in Delivering => hold[k] = "HELD"
=============================================================================
