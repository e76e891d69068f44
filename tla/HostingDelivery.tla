-------------------------- MODULE HostingDelivery --------------------------
(* Delivery of one GPU lease, from the provisioning command to the cleaned *)
(* machine: hosting-v2-store-core.ts keeps the contract, the commands and  *)
(* the failures, card-hour-store-core.ts the locked card-hours, and        *)
(* HostAgent executes. The agent's poll drives what nobody else does: it   *)
(* queues the STOP of an expired lease, accepts for a silent buyer, refunds *)
(* a failed delivery and retries a failed STOP.                            *)
(*                                                                         *)
(* The model begins where HostingReservation ends: the SSH key is attached, *)
(* the card-hours are locked, the PROVISION command is queued. Amounts are *)
(* abstracted: the hold is one unit, settled or released as a whole.       *)
EXTENDS HostAgent, FiniteSets

CONSTANTS
    StartRequests,          \* POST .../start requests of the buyer
    StopRequests,           \* POST .../stop requests of buyer and supplier
    AutomatedStopAttempts,  \* HOSTING_V2_AUTOMATED_STOP_ATTEMPTS
    MaxCommands,            \* bound on commands of the contract
    Occasions               \* what else may happen, one set for each kind of behaviour:
                            \* "DISPUTE", "RETIRE", "HEARTBEAT", "UNLIST", "ADMIN", "OUTAGE"

ASSUME DeliveryAssumption ==
    /\ StartRequests \cap StopRequests = {}
    /\ AutomatedStopAttempts \in Nat \ {0}
    /\ MaxCommands \in Nat
    /\ MaxFaults \in Nat

VARIABLES
    contract,   \* hosting_v2_contracts.status
    instance,   \* hosting_v2_instances.status, "NONE" before the row exists
    metered,    \* hosting_v2_metering_proofs has the contract
    accepted,   \* hosting_v2_acceptance_proofs has the contract
    hold,       \* card_hour_order_holds.status
    income,     \* RENTAL accruals of the supplier for the contract
    device,     \* hosting_v2_devices.status
    verified,   \* its verification is PASSED and current
    retired,    \* a retirement event of the device exists
    offer,      \* hosting_v2_offers.status
    delivery,   \* hosting_v2_delivery_failures of the contract
    stops,      \* hosting_v2_stop_failures by retry_sequence
    proposal,   \* the latest dispute resolution proposal
    asked,      \* start and stop requests: "NEW", "READ", "DONE"
    windowOver, \* the acceptance window has passed
    occasion    \* the member of Occasions this behaviour has, which never changes

service == <<contract, instance, metered, accepted>>
money   == <<hold, income>>
market  == <<device, verified, retired, offer>>
trouble == <<delivery, stops, proposal>>
clocks  == <<leaseOver, windowOver, occasion>>
vars == <<service, money, market, trouble, clocks, asked, cmds, hostVars>>

Requests == StartRequests \cup StopRequests
Unfinished == {"PENDING", "DELIVERED"}
Active(type) == {c \in DOMAIN cmds : cmds[c].type = type /\ cmds[c].status \in Unfinished}
Queued(queue, type) == Append(queue, [type |-> type, status |-> "PENDING"])
HasRoom == Len(cmds) < MaxCommands

NoFailure  == [cmd |-> 0, status |-> "NONE"]
NoProposal == [resolution |-> "NONE", status |-> "NONE", queued |-> FALSE]
LastStop   == stops[Len(stops)]
Retrying(c) == {s \in DOMAIN stops : stops[s].recovery = c /\ stops[s].status = "RETRYING"}

Init ==
    /\ contract = "PROVISIONING"
    /\ instance = "NONE"
    /\ metered = FALSE
    /\ accepted = FALSE
    /\ hold = "HELD"
    /\ income = 0
    /\ device = "VERIFIED"
    /\ verified = TRUE
    /\ retired = FALSE
    /\ offer = "RESERVED"
    /\ delivery = NoFailure
    /\ stops = << >>
    /\ proposal = NoProposal
    /\ asked = [r \in Requests |-> "NEW"]
    /\ leaseOver = FALSE
    /\ windowOver = FALSE
    /\ occasion \in Occasions
    /\ cmds = Queued(<< >>, "PROVISION")
    /\ host = NewHost
    /\ agent = 0
    /\ reports = {}
    /\ faults = 0

-----------------------------------------------------------------------------
(* The buyer and the supplier: requestContractStart, requestContractStop.  *)

(* A request that finds its command already queued only records a receipt. *)
BeginStart(r) ==
    /\ asked[r] = "NEW"
    /\ contract = "READY"
    /\ device = "BUSY"
    /\ ~retired
    /\ Active("START") = {}
    /\ asked' = [asked EXCEPT ![r] = "READ"]
    /\ UNCHANGED <<service, money, market, trouble, clocks, cmds, hostVars>>

PostStart(r) ==
    /\ asked[r] = "READ"
    /\ HasRoom
    /\ asked' = [asked EXCEPT ![r] = "DONE"]
    /\ cmds' = IF contract = "READY" /\ device = "BUSY" /\ ~retired
               THEN Queued(cmds, "START") ELSE cmds
    /\ UNCHANGED <<service, money, market, trouble, clocks, hostVars>>

BeginStop(r) ==
    /\ asked[r] = "NEW"
    /\ contract = "IN_SERVICE"
    /\ Active("STOP") = {}
    /\ asked' = [asked EXCEPT ![r] = "READ"]
    /\ UNCHANGED <<service, money, market, trouble, clocks, cmds, hostVars>>

(* One active STOP per contract is a unique index of the commands; the     *)
(* batch looks at nothing else.                                            *)
PostStop(r) ==
    /\ asked[r] = "READ"
    /\ HasRoom
    /\ asked' = [asked EXCEPT ![r] = "DONE"]
    /\ cmds' = IF Active("STOP") = {} THEN Queued(cmds, "STOP") ELSE cmds
    /\ UNCHANGED <<service, money, market, trouble, clocks, hostVars>>

-----------------------------------------------------------------------------
(* The agent asks for work: pollCommand.                                   *)

Offered == IF device = "DRAINING" THEN {"STOP", "CLEANUP"}
                                  ELSE {"PROVISION", "START", "STOP", "CLEANUP"}

ExpiredStop ==
    IF contract = "IN_SERVICE" /\ leaseOver /\ HasRoom
       /\ \A c \in DOMAIN cmds : cmds[c].type # "STOP"
    THEN Queued(cmds, "STOP") ELSE cmds

(* The oldest pending command, or a delivered one whose lease has passed.  *)
Eligible(queue) ==
    {c \in DOMAIN queue :
       /\ queue[c].type \in Offered
       /\ queue[c].status \in Unfinished
       /\ \A d \in 1 .. c - 1 : ~(queue[d].type \in Offered /\ queue[d].status = "PENDING")}

(* Timing: a start or stop request takes less time from its reads to its   *)
(* batch than the machine takes to execute a command it has yet to fetch.  *)
PollCommand(c) ==
    /\ agent = 0
    /\ device # "REVOKED"
    /\ \A r \in Requests : asked[r] # "READ"
    /\ c \in Eligible(ExpiredStop)
    /\ cmds' = [ExpiredStop EXCEPT ![c].status = "DELIVERED"]
    /\ agent' = c
    /\ UNCHANGED <<service, money, market, trouble, clocks, asked, host, reports, faults>>

-----------------------------------------------------------------------------
(* The agent reports: completeCommand.                                     *)

Open(m) ==
    /\ m \in reports
    /\ cmds[m.cmd].status \in Unfinished
    /\ device # "REVOKED"
    /\ Type(m.cmd) \in {"STOP", "CLEANUP"} \/ (device # "DRAINING" /\ ~retired)

Received(m) == reports' = reports \ {m} /\ UNCHANGED <<host, agent, faults>>
Completed(c, status) == [cmds EXCEPT ![c].status = status]

ProvisionFits(m) ==
    Open(m) /\ m.ok /\ Type(m.cmd) = "PROVISION" /\ ~host.stale
      /\ contract = "PROVISIONING" /\ instance = "NONE"

Provisioned(m) ==
    /\ ProvisionFits(m)
    /\ Received(m)
    /\ cmds' = Completed(m.cmd, "SUCCEEDED")
    /\ instance' = "READY"
    /\ contract' = "READY"
    /\ device' = "BUSY"
    /\ UNCHANGED <<metered, accepted, money, verified, retired, offer, trouble, clocks, asked>>

(* Mutant: only the instance says whether a start is still expected.       *)
StartFitsLate(m) ==
    m \in reports /\ m.ok /\ Type(m.cmd) = "START" /\ ~host.stale /\ instance = "READY"

StartFits(m) ==
    Open(m) /\ m.ok /\ Type(m.cmd) = "START" /\ ~host.stale
      /\ contract = "READY" /\ instance = "READY"

Started(m) ==
    /\ StartFits(m)
    /\ Received(m)
    /\ cmds' = Completed(m.cmd, "SUCCEEDED")
    /\ instance' = "RUNNING"
    /\ contract' = "IN_SERVICE"
    /\ UNCHANGED <<metered, accepted, money, market, trouble, clocks, asked>>

StopFits(m) ==
    Open(m) /\ m.ok /\ Type(m.cmd) = "STOP" /\ instance = "RUNNING"
      /\ (contract = "IN_SERVICE" \/ (contract = "FAILED" /\ Retrying(m.cmd) # {}))
      /\ (~host.stale \/ host.late \/ Retrying(m.cmd) # {})

Stopped(m) ==
    /\ StopFits(m)
    /\ Received(m)
    /\ cmds' = Completed(m.cmd, "SUCCEEDED")
    /\ instance' = "STOPPED"
    /\ metered' = TRUE
    /\ contract' = "AWAITING_ACCEPTANCE"
    /\ stops' = [s \in DOMAIN stops |->
                   IF s \in Retrying(m.cmd) THEN [stops[s] EXCEPT !.status = "RECOVERED"]
                                            ELSE stops[s]]
    /\ UNCHANGED <<accepted, money, market, delivery, proposal, clocks, asked>>

(* The instance may be missing only when provisioning failed; it must be   *)
(* READY when the start failed and STOPPED otherwise.                      *)
FailedStage == IF delivery = NoFailure THEN "NONE" ELSE Type(delivery.cmd)

CleanupFits(m) ==
    Open(m) /\ m.ok /\ Type(m.cmd) = "CLEANUP" /\ ~host.stale
      /\ contract = "CLEANING"
      /\ IF instance = "NONE" THEN FailedStage = "PROVISION"
         ELSE instance = IF FailedStage = "START" THEN "READY" ELSE "STOPPED"

Cleaned(m) ==
    /\ CleanupFits(m)
    /\ Received(m)
    /\ cmds' = Completed(m.cmd, "SUCCEEDED")
    /\ instance' = IF instance = "NONE" THEN "NONE" ELSE "CLEANED"
    /\ contract' = IF \/ proposal.status = "APPLIED" /\ proposal.resolution = "REFUND"
                      \/ delivery.status = "CLEANING"
                   THEN "REFUNDED" ELSE "CLEANED"
    /\ delivery' = IF delivery.status = "CLEANING" THEN [delivery EXCEPT !.status = "CLEANED"]
                                                   ELSE delivery
    /\ \E fresh \in {TRUE, FALSE} :
         /\ fresh => verified
         /\ verified' = (fresh /\ ~retired)
         /\ device' = IF retired THEN "DRAINING" ELSE IF fresh THEN "VERIFIED" ELSE "ONLINE"
         /\ offer' = IF offer \notin {"RESERVED", "SUSPENDED"} THEN offer
                     ELSE IF fresh /\ ~retired THEN "PUBLISHED" ELSE "SUSPENDED"
    /\ UNCHANGED <<metered, accepted, money, retired, stops, proposal, clocks, asked>>

(* A contract has one delivery failure: the second insert aborts the batch. *)
FailureFits(m) ==
    Open(m) /\ ~m.ok
      /\ (Type(m.cmd) \in {"PROVISION", "START"} => delivery = NoFailure)

RecordFailure(m) ==
    /\ FailureFits(m)
    /\ Received(m)
    /\ cmds' = Completed(m.cmd, "FAILED")
    /\ contract' = IF Type(m.cmd) = "CLEANUP" THEN "CLEANING" ELSE "FAILED"
    /\ delivery' = IF Type(m.cmd) \in {"PROVISION", "START"}
                   THEN [cmd |-> m.cmd, status |-> "RECORDED"] ELSE delivery
    /\ stops' = IF Type(m.cmd) # "STOP" THEN stops
                ELSE Append([s \in DOMAIN stops |->
                               IF s \in Retrying(m.cmd)
                               THEN [stops[s] EXCEPT !.status = "RETRY_FAILED"] ELSE stops[s]],
                            [cmd |-> m.cmd, status |-> "RECORDED", recovery |-> 0])
    /\ device' = "DRAINING"
    /\ offer' = "SUSPENDED"
    /\ UNCHANGED <<instance, metered, accepted, money, verified, retired, proposal, clocks, asked>>

(* Any other report is answered with an error, or replays a result.        *)
RejectReport(m) ==
    /\ m \in reports
    /\ ~(ProvisionFits(m) \/ StartFits(m) \/ StopFits(m) \/ CleanupFits(m) \/ FailureFits(m))
    /\ Received(m)
    /\ UNCHANGED <<service, money, market, trouble, clocks, asked, cmds>>

-----------------------------------------------------------------------------
(* What the poll drives before it hands out a command; each step catches   *)
(* its own errors and is a transaction of its own.                         *)
Polling == agent = 0 /\ device # "REVOKED"

(* Mutant: a draining device is left alone, like everywhere else.          *)
RefundUnlessDraining ==
    /\ Polling
    /\ device # "DRAINING"
    /\ delivery.status = "RECORDED"
    /\ hold = "HELD"
    /\ contract = "FAILED"
    /\ ~metered
    /\ delivery' = [delivery EXCEPT !.status = "REFUNDED"]
    /\ hold' = "RELEASED"
    /\ UNCHANGED <<service, income, market, stops, proposal, clocks, asked, cmds, hostVars>>

(* refundFailedHostingOrder *)
RefundFailedDelivery ==
    /\ Polling
    /\ delivery.status = "RECORDED"
    /\ hold = "HELD"
    /\ contract = "FAILED"
    /\ ~metered
    /\ delivery' = [delivery EXCEPT !.status = "REFUNDED"]
    /\ hold' = "RELEASED"
    /\ UNCHANGED <<service, income, market, stops, proposal, clocks, asked, cmds, hostVars>>

(* queueFailedDeliveryCleanup; a cleanup that exists is taken over.        *)
QueueFailedDeliveryCleanup ==
    LET existing == {c \in DOMAIN cmds : cmds[c].type = "CLEANUP" /\ cmds[c].status # "FAILED"}
    IN  /\ Polling
        /\ delivery.status = "REFUNDED"
        /\ contract = "FAILED" \/ (contract = "CLEANING" /\ existing = {})
        /\ HasRoom
        /\ contract' = "CLEANING"
        /\ delivery' = [delivery EXCEPT !.status = "CLEANING"]
        /\ cmds' = IF existing = {} THEN Queued(cmds, "CLEANUP") ELSE cmds
        /\ UNCHANGED <<instance, metered, accepted, money, market, stops, proposal, clocks,
                       asked, hostVars>>

(* Mutant: the failure is marked, the new command is left to a second call. *)
QueueFailedStopRecoveryHalf ==
    /\ Polling
    /\ contract = "FAILED"
    /\ stops # << >>
    /\ LastStop.status = "RECORDED"
    /\ stops' = [stops EXCEPT ![Len(stops)].status = "RETRYING",
                              ![Len(stops)].recovery = Len(cmds) + 1]
    /\ UNCHANGED <<service, money, market, delivery, proposal, clocks, asked, cmds, hostVars>>

(* queueFailedStopRecovery: a new STOP, or the end of automation.          *)
QueueFailedStopRecovery ==
    /\ Polling
    /\ contract = "FAILED"
    /\ stops # << >>
    /\ LastStop.status = "RECORDED"
    /\ IF Len(stops) >= AutomatedStopAttempts
       THEN /\ stops' = [stops EXCEPT ![Len(stops)].status = "EXHAUSTED"]
            /\ UNCHANGED cmds
       ELSE /\ HasRoom
            /\ Active("STOP") = {}
            /\ stops' = [stops EXCEPT ![Len(stops)].status = "RETRYING",
                                      ![Len(stops)].recovery = Len(cmds) + 1]
            /\ cmds' = Queued(cmds, "STOP")
    /\ UNCHANGED <<service, money, market, delivery, proposal, clocks, asked, hostVars>>

-----------------------------------------------------------------------------
(* Acceptance: settleHostingOrder and markContractSettled, two stores.     *)

Settle ==
    /\ contract = "AWAITING_ACCEPTANCE"
    /\ metered
    /\ instance \in {"STOPPED", "CLEANED"}
    /\ hold = "HELD"
    /\ accepted' = TRUE
    /\ contract' = "SETTLED"
    /\ hold' = "SETTLED"
    /\ income' = income + 1
    /\ UNCHANGED <<instance, metered, market, trouble, clocks, asked, cmds, hostVars>>

BuyerAccepts == Settle

WindowCloses == Polling /\ windowOver /\ Settle

(* Mutant: the cleanup is queued as soon as the service is metered.        *)
MarkMeteredSettled ==
    /\ contract \in {"AWAITING_ACCEPTANCE", "SETTLED"}
    /\ metered
    /\ HasRoom
    /\ contract' = "CLEANING"
    /\ cmds' = Queued(cmds, "CLEANUP")
    /\ UNCHANGED <<instance, metered, accepted, money, market, trouble, clocks, asked, hostVars>>

(* Called again by every later poll or acceptance of a SETTLED contract.   *)
MarkContractSettled ==
    /\ contract = "SETTLED"
    /\ metered /\ accepted
    /\ HasRoom
    /\ contract' = "CLEANING"
    /\ cmds' = Queued(cmds, "CLEANUP")
    /\ UNCHANGED <<instance, metered, accepted, money, market, trouble, clocks, asked, hostVars>>

-----------------------------------------------------------------------------
(* Disputes: hosting-dispute-service.ts over three transactions.           *)

(* Mutant: a service can be disputed while it runs.                        *)
DisputeRunning ==
    /\ "DISPUTE" \in occasion
    /\ contract \in {"IN_SERVICE", "AWAITING_ACCEPTANCE"}
    /\ ~windowOver
    /\ contract' = "DISPUTED"
    /\ device' = "DRAINING"
    /\ offer' = IF offer = "RESERVED" THEN "SUSPENDED" ELSE offer
    /\ UNCHANGED <<instance, metered, accepted, money, verified, retired, trouble, clocks,
                   asked, cmds, hostVars>>

DisputeContract ==
    /\ "DISPUTE" \in occasion
    /\ contract = "AWAITING_ACCEPTANCE"
    /\ ~windowOver
    /\ contract' = "DISPUTED"
    /\ device' = "DRAINING"
    /\ offer' = IF offer = "RESERVED" THEN "SUSPENDED" ELSE offer
    /\ UNCHANGED <<instance, metered, accepted, money, verified, retired, trouble, clocks,
                   asked, cmds, hostVars>>

RequestDisputeResolution(resolution) ==
    /\ contract = "DISPUTED"
    /\ proposal.status \in {"NONE", "REJECTED"}
    /\ proposal' = [resolution |-> resolution, status |-> "REQUESTED", queued |-> FALSE]
    /\ UNCHANGED <<service, money, market, delivery, stops, clocks, asked, cmds, hostVars>>

(* The second administrator.                                               *)
DecideDisputeResolution(status) ==
    /\ proposal.status = "REQUESTED"
    /\ status \in {"APPROVED", "REJECTED"}
    /\ proposal' = [proposal EXCEPT !.status = status]
    /\ UNCHANGED <<service, money, market, delivery, stops, clocks, asked, cmds, hostVars>>

ResolveHostingDispute ==
    /\ proposal.status = "APPROVED"
    /\ contract = "DISPUTED"
    /\ hold = "HELD"
    /\ proposal' = [proposal EXCEPT !.status = "APPLIED"]
    /\ IF proposal.resolution = "REFUND"
       THEN contract' = "REFUNDED" /\ hold' = "RELEASED" /\ UNCHANGED income
       ELSE contract' = "SETTLED" /\ hold' = "SETTLED" /\ income' = income + 1
    /\ UNCHANGED <<instance, metered, accepted, market, delivery, stops, clocks, asked, cmds,
                   hostVars>>

(* The receipt of the proposal keeps a retried decision from queueing a    *)
(* second cleanup once the contract is REFUNDED again.                     *)
QueueDisputeCleanup ==
    /\ proposal.status = "APPLIED"
    /\ ~proposal.queued
    /\ contract \in {"SETTLED", "REFUNDED"}
    /\ HasRoom
    /\ contract' = "CLEANING"
    /\ cmds' = Queued(cmds, "CLEANUP")
    /\ proposal' = [proposal EXCEPT !.queued = TRUE]
    /\ UNCHANGED <<instance, metered, accepted, money, market, delivery, stops, clocks, asked,
                   hostVars>>

-----------------------------------------------------------------------------
(* Administrators: retryCleanup, retryFailedStop, emergency retirement.    *)

Quarantined == device = "DRAINING" /\ offer = "SUSPENDED"

RetryCleanup ==
    /\ "ADMIN" \in occasion
    /\ contract = "CLEANING"
    /\ Quarantined
    /\ \E c \in DOMAIN cmds : cmds[c] = [type |-> "CLEANUP", status |-> "FAILED"]
    /\ \A c \in DOMAIN cmds : cmds[c].type = "CLEANUP" => cmds[c].status = "FAILED"
    /\ HasRoom
    /\ cmds' = Queued(cmds, "CLEANUP")
    /\ UNCHANGED <<service, money, market, trouble, clocks, asked, hostVars>>

(* Mutant: the failed command is pointed at instead of a new one.          *)
RetryFailedStopReusing ==
    /\ "ADMIN" \in occasion
    /\ contract = "FAILED"
    /\ Quarantined
    /\ stops # << >>
    /\ LastStop.status = "EXHAUSTED"
    /\ Active("STOP") = {}
    /\ stops' = [stops EXCEPT ![Len(stops)].status = "RETRYING",
                              ![Len(stops)].recovery = LastStop.cmd]
    /\ UNCHANGED <<service, money, market, delivery, proposal, clocks, asked, cmds, hostVars>>

RetryFailedStop ==
    /\ "ADMIN" \in occasion
    /\ contract = "FAILED"
    /\ Quarantined
    /\ stops # << >>
    /\ LastStop.status = "EXHAUSTED"
    /\ HasRoom
    /\ Active("STOP") = {}
    /\ stops' = [stops EXCEPT ![Len(stops)].status = "RETRYING",
                              ![Len(stops)].recovery = Len(cmds) + 1]
    /\ cmds' = Queued(cmds, "STOP")
    /\ UNCHANGED <<service, money, market, delivery, proposal, clocks, asked, hostVars>>

(* A graceful retirement is refused while the contract is active.          *)
RetireDevice ==
    /\ "RETIRE" \in occasion
    /\ device # "REVOKED"
    /\ ~retired
    /\ retired' = TRUE
    /\ device' = "REVOKED"
    /\ verified' = FALSE
    /\ offer' = IF offer \in {"PUBLISHED", "RESERVED"} THEN "SUSPENDED" ELSE offer
    /\ cmds' = [c \in DOMAIN cmds |->
                  IF cmds[c].status \in Unfinished THEN [cmds[c] EXCEPT !.status = "FAILED"]
                                                   ELSE cmds[c]]
    /\ UNCHANGED <<service, money, trouble, clocks, asked, hostVars>>

(* acceptHeartbeat: inventory unreadable (OFFLINE), changed, or as before. *)
Heartbeat(offline, changed) ==
    /\ "HEARTBEAT" \in occasion
    /\ Polling
    /\ device' = IF retired THEN "DRAINING"
                 ELSE IF offline THEN "OFFLINE"
                 ELSE IF changed THEN "ONLINE"
                 ELSE IF device \in {"BUSY", "DRAINING"} THEN device
                 ELSE IF verified THEN "VERIFIED" ELSE "ONLINE"
    /\ verified' = (verified /\ ~changed /\ ~retired)
    /\ offer' = IF offer = "PUBLISHED" /\ (changed \/ retired) THEN "SUSPENDED" ELSE offer
    /\ UNCHANGED <<service, money, retired, trouble, clocks, asked, cmds, hostVars>>

(* updateOfferStatus: a RESERVED listing cannot be withdrawn.              *)
UnlistOffer ==
    /\ "UNLIST" \in occasion
    /\ offer \in {"PUBLISHED", "SUSPENDED"}
    /\ offer' = "UNLISTED"
    /\ UNCHANGED <<service, money, device, verified, retired, trouble, clocks, asked, cmds,
                   hostVars>>

-----------------------------------------------------------------------------
(* Time.                                                                   *)
LeaseEnds ==
    /\ host.status \in {"RUNNING", "STOPPING"}
    /\ ~leaseOver
    /\ leaseOver' = TRUE
    /\ UNCHANGED <<service, money, market, trouble, windowOver, occasion, asked, cmds, hostVars>>

WindowEnds ==
    /\ contract = "AWAITING_ACCEPTANCE"
    /\ ~windowOver
    /\ windowOver' = TRUE
    /\ UNCHANGED <<service, money, market, trouble, leaseOver, occasion, asked, cmds, hostVars>>

-----------------------------------------------------------------------------
HostStep ==
    /\ \/ \E c \in DOMAIN cmds : BeginWork(c) \/ FinishWork(c) \/ FailWork(c) \/ Refuse(c)
                                 \/ ReportSuccess(c)
       \/ AgentGivesUp \/ ActuatorCrash \/ Watchdog
       \/ \E m \in reports : LoseReport(m)
       \/ "OUTAGE" \in occasion /\ Outage
    /\ UNCHANGED <<service, money, market, trouble, clocks, asked, cmds>>

Receive(m) == \/ Provisioned(m) \/ Started(m) \/ Stopped(m) \/ Cleaned(m)
              \/ RecordFailure(m) \/ RejectReport(m)

PollStep == RefundFailedDelivery \/ QueueFailedDeliveryCleanup \/ QueueFailedStopRecovery
            \/ WindowCloses

DisputeStep ==
    \/ DisputeContract
    \/ \E resolution \in {"REFUND", "SETTLE"} : RequestDisputeResolution(resolution)
    \/ \E status \in {"APPROVED", "REJECTED"} : DecideDisputeResolution(status)
    \/ ResolveHostingDispute \/ QueueDisputeCleanup

(* What the contract goes through when nobody interferes.                  *)
Course ==
    \/ \E r \in StartRequests : BeginStart(r) \/ PostStart(r)
    \/ \E r \in StopRequests : BeginStop(r) \/ PostStop(r)
    \/ \E c \in 1 .. MaxCommands : PollCommand(c)
    \/ HostStep
    \/ \E m \in reports : Receive(m)
    \/ PollStep
    \/ BuyerAccepts \/ MarkContractSettled
    \/ LeaseEnds \/ WindowEnds

Interference ==
    \/ DisputeStep
    \/ RetryCleanup \/ RetryFailedStop \/ RetireDevice \/ UnlistOffer
    \/ \E offline, changed \in BOOLEAN : Heartbeat(offline, changed)

Next == Course \/ Interference

Spec == Init /\ [][Next]_vars

-----------------------------------------------------------------------------
(* Fairness. cli.mjs (runService) loops: every round executes the command  *)
(* in hand and reports, or polls, and every poll first runs the recovery   *)
(* steps and then hands out a command, so none of these is passed over for *)
(* ever while it keeps coming back (strong fairness). Clocks advance. The  *)
(* buyer, the administrators and everything that goes wrong are not fair.  *)
Work == \E c \in DOMAIN cmds : \/ BeginWork(c) \/ FinishWork(c) \/ ReportSuccess(c)
                               \/ Refused(c) /\ Refuse(c)
AgentWorks == Work /\ UNCHANGED <<service, money, market, trouble, clocks, asked, cmds>>
LocalWatch == Watchdog /\ UNCHANGED <<service, money, market, trouble, clocks, asked, cmds>>

Fairness ==
    /\ WF_vars(AgentWorks)
    /\ WF_vars(LocalWatch)
    /\ WF_vars(\E m \in reports : Receive(m))
    /\ \A c \in 1 .. MaxCommands : SF_vars(PollCommand(c))
    /\ SF_vars(RefundFailedDelivery)
    /\ SF_vars(QueueFailedDeliveryCleanup)
    /\ SF_vars(QueueFailedStopRecovery)
    /\ SF_vars(WindowCloses)
    /\ WF_vars(\E r \in Requests : PostStart(r) \/ PostStop(r))
    /\ WF_vars(LeaseEnds)
    /\ WF_vars(WindowEnds)

LiveSpec == Spec /\ Fairness

-----------------------------------------------------------------------------
(* Types of the variables; a recovery names a command that exists.         *)
CommandTypes == {"PROVISION", "START", "STOP", "CLEANUP"}

DeliveryTypeOK ==
    /\ contract \in {"PROVISIONING", "READY", "IN_SERVICE", "AWAITING_ACCEPTANCE", "DISPUTED",
                     "SETTLED", "REFUNDED", "CLEANING", "CLEANED", "FAILED"}
    /\ instance \in {"NONE", "READY", "RUNNING", "STOPPED", "CLEANED"}
    /\ metered \in BOOLEAN /\ accepted \in BOOLEAN /\ occasion \in Occasions
    /\ hold \in {"HELD", "SETTLED", "RELEASED"}
    /\ income \in {0, 1}
    /\ device \in {"VERIFIED", "BUSY", "DRAINING", "OFFLINE", "ONLINE", "REVOKED"}
    /\ verified \in BOOLEAN /\ retired \in BOOLEAN
    /\ offer \in {"RESERVED", "SUSPENDED", "PUBLISHED", "UNLISTED"}
    /\ cmds \in Seq([type : CommandTypes, status : Unfinished \cup {"SUCCEEDED", "FAILED"}])
    /\ delivery \in [cmd : DOMAIN cmds, status : {"RECORDED", "REFUNDED", "CLEANING", "CLEANED"}]
                     \cup {NoFailure}
    /\ stops \in Seq([cmd : DOMAIN cmds, recovery : {0} \cup DOMAIN cmds,
                      status : {"RECORDED", "RETRYING", "RECOVERED", "RETRY_FAILED", "EXHAUSTED"}])
    /\ proposal \in [resolution : {"NONE", "REFUND", "SETTLE"}, queued : BOOLEAN,
                     status : {"NONE", "REQUESTED", "APPROVED", "REJECTED", "APPLIED"}]
    /\ asked \in [Requests -> {"NEW", "READ", "DONE"}]
    /\ leaseOver \in BOOLEAN /\ windowOver \in BOOLEAN
    /\ host \in [status : {"NONE", "CREATING", "READY", "STARTING", "RUNNING", "STOPPING",
                           "STOPPED", "CLEANING", "CLEANED", "FAILED"},
                 by : {0} \cup DOMAIN cmds, live : BOOLEAN, err : BOOLEAN, box : {"NONE", "MADE", "RUNNING"},
                 stale : BOOLEAN, late : BOOLEAN]
    /\ agent \in {0} \cup DOMAIN cmds
    /\ reports \subseteq [cmd : DOMAIN cmds, ok : BOOLEAN]
    /\ faults \in 0 .. MaxFaults

(* Two start requests that both read a READY contract leave two START      *)
(* commands. When the machine obeys one and refuses the other, the refusal *)
(* is taken for a failed delivery of the service that runs: see            *)
(* "Disagreements" in the README.                                          *)
StartedTwice ==
    \E c, d \in DOMAIN cmds : c # d /\ Type(c) = "START" /\ Type(d) = "START"

(* A buyer whose delivery failed is refunded in full only if no service    *)
(* was ever on record (refundFailedHostingOrder): two START commands are   *)
(* the one way to a refund of a service that was given.                    *)
RefundedNeverServed ==
    delivery.status \in {"REFUNDED", "CLEANING", "CLEANED"} /\ instance \in {"RUNNING", "STOPPED"}
        => StartedTwice

(* Money follows the service: that, and the supplier is paid only when the *)
(* container does not run any more: no replayed, late or repeated report,  *)
(* and no second START, settles a service that goes on.                    *)
MoneyFollowsService ==
    /\ RefundedNeverServed
    /\ hold = "SETTLED" => host.box # "RUNNING"

(* completeCommand closes a contract, and relists its listing, only when   *)
(* the container and the buyer's files are gone from the machine.          *)
Finished == \/ contract = "CLEANED"
            \/ contract = "REFUNDED" /\ (instance = "CLEANED" \/ delivery.status = "CLEANED")

ClosedMeansClean == Finished \/ offer = "PUBLISHED" => host.box = "NONE"

(* What buyer and supplier are promised, whatever fails: the escrow of     *)
(* HostingEscrow. The card-hours are paid once, after the service was      *)
(* metered, or returned once, and not while a service is on record unless  *)
(* it was started twice; the machine is for sale again only when that is   *)
(* settled. Nothing that arrives late moves the card-hours of a contract   *)
(* that is over, nor, but for a second START, the contract.                *)
Escrow == INSTANCE HostingEscrow WITH
    purse    <- hold,
    served   <- IF metered THEN "METERED" ELSE IF instance = "RUNNING" THEN "RUNNING" ELSE "NONE",
    sale     <- offer = "PUBLISHED",
    repeated <- StartedTwice
ImplementsEscrow ==
    /\ Escrow!Spec
    /\ [][Finished => hold' = hold /\ (contract' = contract \/ StartedTwice)]_vars

(* A failed STOP that counts as being retried has its command under way,   *)
(* or else no operation would ever take the recovery up again.             *)
RetryingHasCommand ==
    \A s \in DOMAIN stops : stops[s].status = "RETRYING" /\ ~retired =>
        stops[s].recovery \in Active("STOP")

(* A machine is never left behind: neither as clean while something is on  *)
(* it, nor as being seen to while no command is on its way to it.          *)
NothingIsLeftBehind == ClosedMeansClean /\ RetryingHasCommand

(* A cleanup the agent receives can be carried out: the manifest admits it *)
(* or has recorded it as done.                                             *)
(* The code does not keep this one: see "Disagreements" in the README.     *)
CleanupIsPossible ==
    agent # 0 /\ Type(agent) = "CLEANUP" => Admits(agent) \/ Replays(agent)

(* A retirement is final: no later step of the contract takes the device   *)
(* out of REVOKED (requestDeviceRetirement, EMERGENCY).                    *)
(* The code does not keep this one: see "Disagreements" in the README.     *)
RevokedStaysRevoked == [][device = "REVOKED" => device' = "REVOKED"]_vars

(* requestContractStart refuses a READY contract only when the device is   *)
(* offline or leaves the platform.                                         *)
(* The code does not keep this one: see "Disagreements" in the README.     *)
ReadyCanBeStarted ==
    contract = "READY" /\ ~retired /\ device \notin {"OFFLINE", "DRAINING", "REVOKED"}
        => device = "BUSY"

(* A service that began is metered and paid, though machine and reports    *)
(* fail now and then and the buyer keeps silent.                           *)
ServedIsPaid == contract = "IN_SERVICE" ~> hold = "SETTLED"

(* A recorded delivery failure gives the buyer the card-hours back.        *)
FailureIsRefunded == delivery.status = "RECORDED" ~> hold = "RELEASED"

(* So the escrow of every delivery that began to fail or to serve ends.    *)
EscrowEnds == ServedIsPaid /\ FailureIsRefunded
=============================================================================
