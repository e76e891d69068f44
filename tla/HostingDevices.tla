--------------------------- MODULE HostingDevices ---------------------------
(* The devices of a supplier in hosting-v2-store-core.ts: the review of    *)
(* his profile, the challenges an agent registers a device with, its       *)
(* heartbeats and verification, its listings, and its graceful or forced   *)
(* retirement, against the contracts that run on it.                       *)
(*                                                                         *)
(* A batch is one transaction. Where it repeats every test of the reads    *)
(* before it, the handler is one action; where something read is used      *)
(* unchecked, the read leaves it in "req" and the batch is an action of    *)
(* its own. Clocks are left out: a time limit may have passed or not.      *)
(* Reserving and holding are one step here, a cancellation is another, and *)
(* START and STOP leave no commands: HostingReservation and                *)
(* HostingDelivery have them in detail.                                    *)
EXTENDS Integers, Sequences, FiniteSets

CONSTANTS
    Challenges, \* hosting_v2_agent_challenges
    Modes,      \* capability modes the challenges are asked for, "NONE" for never
    Quantity,   \* devices of the supply offer the telemetry challenges name
    Devices, Offers, Contracts,
    Requests,   \* handlers with a read behind them and a batch to come
    MaxBeats, MaxCommands, MaxProfile, MaxOffer  \* bounds

ASSUME DevicesAssumption ==
    /\ Modes \subseteq [Challenges -> {"NONE", "FULL_HOST", "TELEMETRY_ONLY"}]
    /\ Quantity \in Nat /\ IsFiniteSet(Devices)
    /\ {MaxBeats, MaxCommands, MaxProfile, MaxOffer} \subseteq Nat

VARIABLES
    mode,       \* what each challenge is asked for
    profile,    \* hosting_v2_supplier_profiles: status, version
    challenge,  \* each challenge: "NONE", "OPEN", "LAPSED", "CONSUMED" or "REVOKED"
    device,     \* hosting_v2_devices and the registration of each
    retirement, \* hosting_v2_device_retirements, and the events that go with them
    offer,      \* hosting_v2_offers: status, version, device
    contract,   \* hosting_v2_contracts: status, offer
    cmds,       \* hosting_v2_agent_commands, oldest first
    req         \* what the handlers under way have read

vars == <<mode, profile, challenge, device, retirement, offer, contract, cmds, req>>

Idle         == [step |-> "idle"]
NoDevice     == [status |-> "NONE"]
NoRetirement == [status |-> "NONE"]
NoOffer      == [status |-> "NONE", version |-> 0]
NoContract   == [status |-> "NONE"]

Init ==
    /\ mode \in Modes
    /\ profile = [status |-> "NONE", version |-> 0]
    /\ challenge = [c \in Challenges |-> "NONE"]
    /\ device = [d \in Devices |-> NoDevice]
    /\ retirement = [d \in Devices |-> NoRetirement]
    /\ offer = [o \in Offers |-> NoOffer]
    /\ contract = [k \in Contracts |-> NoContract]
    /\ cmds = <<>>
    /\ req = [r \in Requests |-> Idle]

Await(r, step)   == req[r] = Idle /\ req' = [req EXCEPT ![r] = step]
Finish(r)        == req' = [req EXCEPT ![r] = Idle]
Known(d)         == device[d] # NoDevice
Retired(d)       == retirement[d] # NoRetirement
OffersOf(d)      == {o \in Offers : offer[o] # NoOffer /\ offer[o].device = d}
Over             == {"NONE", "CANCELLED", "CLEANED"}
DeviceOf(k)      == offer[contract[k].offer].device
ActiveOn(d)      == {k \in Contracts : contract[k].status \notin Over /\ DeviceOf(k) = d}
OpenOn(d)        == {i \in DOMAIN cmds : cmds[i].device = d /\ cmds[i].status = "OPEN"}
Queue(type, d, k) == Append(cmds, [type |-> type, device |-> d, contract |-> k, status |-> "OPEN"])
HasRoom          == Len(cmds) < MaxCommands

(* The listings of the set in one of the statuses become SUSPENDED.        *)
Suspended(os, from) ==
    [o \in Offers |-> IF o \in os /\ offer[o].status \in from
                      THEN [offer[o] EXCEPT !.status = "SUSPENDED", !.version = @ + 1] ELSE offer[o]]
Becomes(o, status) == [offer EXCEPT ![o].status = status, ![o].version = @ + 1]

-----------------------------------------------------------------------------
(* The supplier's profile. Saving and submitting compare the version.      *)

SaveProfile ==
    /\ profile.status \in {"NONE", "DRAFT", "REJECTED"} /\ profile.version < MaxProfile
    /\ profile' = [status |-> "DRAFT", version |-> profile.version + 1]
    /\ UNCHANGED <<mode, challenge, device, retirement, offer, contract, cmds, req>>

SubmitProfile ==
    /\ profile.status = "DRAFT"
    /\ profile' = [status |-> "SUBMITTED", version |-> profile.version + 1]
    /\ UNCHANGED <<mode, challenge, device, retirement, offer, contract, cmds, req>>

ReadReview(r, status) ==
    /\ profile.status \in {"SUBMITTED", "APPROVED"} /\ profile.version < MaxProfile
    /\ Await(r, [step |-> "review", status |-> status, version |-> profile.version])
    /\ UNCHANGED <<mode, profile, challenge, device, retirement, offer, contract, cmds>>

(* The profile is compared, the listings are suspended in any case.        *)
PostReview(r) ==
    /\ req[r].step = "review"
    /\ profile' = IF profile.version = req[r].version
                  THEN [status |-> req[r].status, version |-> profile.version + 1] ELSE profile
    /\ offer' = IF req[r].status = "APPROVED" THEN offer
                ELSE Suspended(Offers, {"DRAFT", "PUBLISHED", "PAUSED"})
    /\ Finish(r)
    /\ UNCHANGED <<mode, challenge, device, retirement, contract, cmds>>

-----------------------------------------------------------------------------
(* Challenges and registration.                                            *)

OnTelemetry == {d \in Devices : /\ Known(d) /\ device[d].status # "REVOKED"
                                /\ mode[device[d].challenge] = "TELEMETRY_ONLY"}
Live        == {c \in Challenges : challenge[c] = "OPEN" /\ mode[c] = "TELEMETRY_ONLY"}

IssueAgentChallenge(c) ==
    /\ challenge[c] = "NONE" /\ mode[c] # "NONE" /\ profile.status = "APPROVED"
    /\ mode[c] = "TELEMETRY_ONLY" => Cardinality(OnTelemetry) + Cardinality(Live) < Quantity
    /\ challenge' = [challenge EXCEPT ![c] = "OPEN"]
    /\ UNCHANGED <<mode, profile, device, retirement, offer, contract, cmds, req>>

Lapse(c) ==
    /\ challenge[c] = "OPEN"
    /\ challenge' = [challenge EXCEPT ![c] = "LAPSED"]
    /\ UNCHANGED <<mode, profile, device, retirement, offer, contract, cmds, req>>

(* A challenge that has lapsed can be revoked too, a used one cannot.      *)
RevokeAgentChallenge(c) ==
    /\ challenge[c] \in {"OPEN", "LAPSED"}
    /\ challenge' = [challenge EXCEPT ![c] = "REVOKED"]
    /\ UNCHANGED <<mode, profile, device, retirement, offer, contract, cmds, req>>

ReadRegister(r, c) ==
    /\ challenge[c] = "OPEN" /\ profile.status = "APPROVED"
    /\ Await(r, [step |-> "register", challenge |-> c])
    /\ UNCHANGED <<mode, profile, challenge, device, retirement, offer, contract, cmds>>

Registered(c, d) ==
    /\ device' = [device EXCEPT ![d] = [status |-> "ONLINE", verification |-> "NOT_RUN",
                                        seq |-> 0, challenge |-> c]]
    /\ challenge' = [challenge EXCEPT ![c] = "CONSUMED"]

(* Mutant of PostRegister: the challenge is tested by the read alone.      *)
PostRegisterUnchecked(r, d) ==
    /\ req[r].step = "register" /\ ~Known(d)
    /\ Registered(req[r].challenge, d)
    /\ Finish(r)
    /\ UNCHANGED <<mode, profile, retirement, offer, contract, cmds>>

(* The batch compares the end of the challenge with the time of the read,  *)
(* and counts devices only: a registration that is slow takes the place of *)
(* a challenge that was issued since. Profiles are tested for telemetry.   *)
PostRegister(r, d) ==
    /\ req[r].step = "register" /\ ~Known(d)
    /\ LET c == req[r].challenge IN
       IF /\ challenge[c] \in {"OPEN", "LAPSED"}
          /\ mode[c] = "TELEMETRY_ONLY" =>
                 profile.status = "APPROVED" /\ Cardinality(OnTelemetry) < Quantity
       THEN Registered(c, d) ELSE UNCHANGED <<device, challenge>>
    /\ Finish(r)
    /\ UNCHANGED <<mode, profile, retirement, offer, contract, cmds>>

-----------------------------------------------------------------------------
(* Heartbeats and verification.                                            *)

NextStatus(d, offline, changed) ==
    CASE Retired(d) -> "DRAINING"
      [] ~Retired(d) /\ offline -> "OFFLINE"
      [] ~Retired(d) /\ ~offline /\ changed -> "ONLINE"
      [] OTHER -> IF device[d].status \in {"VERIFYING", "BUSY", "DRAINING"} THEN device[d].status
                  ELSE IF device[d].verification = "PASSED" THEN "VERIFIED" ELSE "ONLINE"

ReadHeartbeat(r, d, seq, offline, changed) ==
    /\ Known(d) /\ device[d].status # "REVOKED" /\ seq > device[d].seq
    /\ Await(r, [step |-> "beat", device |-> d, seq |-> seq, changed |-> changed,
                 next |-> NextStatus(d, offline, changed)])
    /\ UNCHANGED <<mode, profile, challenge, device, retirement, offer, contract, cmds>>

(* Mutant of PostHeartbeat: the retirement is known from the read alone.   *)
PostHeartbeatStale(r) ==
    /\ req[r].step = "beat"
    /\ LET d == req[r].device IN
       IF device[d].status # "REVOKED" /\ device[d].seq < req[r].seq
       THEN device' = [device EXCEPT ![d].status = req[r].next, ![d].seq = req[r].seq]
       ELSE UNCHANGED device
    /\ Finish(r)
    /\ UNCHANGED <<mode, profile, challenge, retirement, offer, contract, cmds>>

PostHeartbeat(r) ==
    /\ req[r].step = "beat"
    /\ LET d == req[r].device IN
       IF device[d].status # "REVOKED" /\ device[d].seq < req[r].seq
       THEN LET expired == req[r].changed \/ Retired(d) IN
            /\ device' = [device EXCEPT
                   ![d].status = IF Retired(d) THEN "DRAINING" ELSE req[r].next,
                   ![d].verification = IF expired THEN "EXPIRED" ELSE @,
                   ![d].seq = req[r].seq]
            /\ offer' = IF expired THEN Suspended(OffersOf(d), {"PUBLISHED", "PAUSED"}) ELSE offer
       ELSE UNCHANGED <<device, offer>>
    /\ Finish(r)
    /\ UNCHANGED <<mode, profile, challenge, retirement, contract, cmds>>

QueueVerification(d) ==
    /\ HasRoom /\ Known(d) /\ mode[device[d].challenge] = "FULL_HOST"
    /\ device[d].status \in {"ONLINE", "VERIFIED"} /\ device[d].seq > 0 /\ ~Retired(d)
    /\ cmds' = Queue("VERIFY", d, "none")
    /\ device' = [device EXCEPT ![d].status = "VERIFYING", ![d].verification = "PENDING"]
    /\ UNCHANGED <<mode, profile, challenge, retirement, offer, contract, req>>

-----------------------------------------------------------------------------
(* completeCommand. A device that is revoked completes nothing, one that   *)
(* drains or is being retired completes a CLEANUP only.                    *)

Completes(i) ==
    /\ cmds[i].status = "OPEN"
    /\ LET d == cmds[i].device IN
       /\ device[d].status # "REVOKED"
       /\ cmds[i].type = "CLEANUP" \/ (device[d].status # "DRAINING" /\ ~Retired(d))
Done(i, status) == cmds' = [cmds EXCEPT ![i].status = status]

CompleteVerify(i, ok) ==
    /\ cmds[i].type = "VERIFY" /\ Completes(i) /\ Done(i, IF ok THEN "SUCCEEDED" ELSE "FAILED")
    /\ LET d == cmds[i].device IN
       /\ device[d].status = "VERIFYING"
       /\ device' = [device EXCEPT ![d].status = IF ok THEN "VERIFIED" ELSE "ONLINE",
                                   ![d].verification = IF ok THEN "PASSED" ELSE "FAILED"]
       /\ offer' = IF ok THEN offer ELSE Suspended(OffersOf(d), {"PUBLISHED", "PAUSED"})
    /\ UNCHANGED <<mode, profile, challenge, retirement, contract, req>>

CompleteProvision(i) ==
    /\ cmds[i].type = "PROVISION" /\ Completes(i) /\ Done(i, "SUCCEEDED")
    /\ contract[cmds[i].contract].status = "PROVISIONING"
    /\ contract' = [contract EXCEPT ![cmds[i].contract].status = "READY"]
    /\ device' = [device EXCEPT ![cmds[i].device].status = "BUSY"]
    /\ UNCHANGED <<mode, profile, challenge, retirement, offer, req>>

(* A failure takes machine and listing off the market.                     *)
FailCommand(i) ==
    /\ cmds[i].type \in {"PROVISION", "CLEANUP"} /\ Completes(i) /\ Done(i, "FAILED")
    /\ contract' = [contract EXCEPT ![cmds[i].contract].status =
                       IF cmds[i].type = "CLEANUP" THEN "CLEANING" ELSE "FAILED"]
    /\ device' = [device EXCEPT ![cmds[i].device].status = "DRAINING"]
    /\ offer' = Becomes(contract[cmds[i].contract].offer, "SUSPENDED")
    /\ UNCHANGED <<mode, profile, challenge, retirement, req>>

ReadCleanup(r, i, fresh) ==
    /\ cmds[i].type = "CLEANUP" /\ Completes(i) /\ contract[cmds[i].contract].status = "CLEANING"
    /\ fresh => device[cmds[i].device].verification = "PASSED"
    /\ Await(r, [step |-> "cleanup", command |-> i, fresh |-> fresh])
    /\ UNCHANGED <<mode, profile, challenge, device, retirement, offer, contract, cmds>>

(* Whether the verification is still good is what the read has seen.       *)
PostCleanup(r) ==
    /\ req[r].step = "cleanup"
    /\ LET i == req[r].command
           d == cmds[i].device
           o == contract[cmds[i].contract].offer
           back == req[r].fresh /\ ~Retired(d) IN
       IF Completes(i)
       THEN /\ Done(i, "SUCCEEDED")
            /\ contract' = [contract EXCEPT ![cmds[i].contract].status = "CLEANED"]
            /\ device' = [device EXCEPT
                   ![d].status = IF Retired(d) THEN "DRAINING" ELSE IF back THEN "VERIFIED" ELSE "ONLINE",
                   ![d].verification = IF back THEN "PASSED" ELSE "EXPIRED"]
            /\ offer' = IF offer[o].status \notin {"RESERVED", "SUSPENDED"} THEN offer
                        ELSE Becomes(o, IF back THEN "PUBLISHED" ELSE "SUSPENDED")
       ELSE UNCHANGED <<cmds, contract, device, offer>>
    /\ Finish(r)
    /\ UNCHANGED <<mode, profile, challenge, retirement>>

-----------------------------------------------------------------------------
(* Listings. Their creation repeats nothing of its reads, the change of    *)
(* their status compares the version.                                      *)

Fit(d) ==
    /\ Known(d) /\ mode[device[d].challenge] = "FULL_HOST" /\ profile.status = "APPROVED"
    /\ device[d].status = "VERIFIED" /\ device[d].verification = "PASSED"

ReadCreateOffer(r, o, d) ==
    /\ offer[o] = NoOffer /\ Fit(d) /\ \A q \in Requests : req[q] # Idle => req[q].step # "create"
    /\ Await(r, [step |-> "create", offer |-> o, device |-> d])
    /\ UNCHANGED <<mode, profile, challenge, device, retirement, offer, contract, cmds>>

PostCreateOffer(r) ==
    /\ req[r].step = "create"
    /\ offer' = [offer EXCEPT ![req[r].offer] =
                    [status |-> "DRAFT", version |-> 1, device |-> req[r].device]]
    /\ Finish(r)
    /\ UNCHANGED <<mode, profile, challenge, device, retirement, contract, cmds>>

ReadOfferStatus(r, o, status) ==
    /\ offer[o].version \in 1 .. MaxOffer
    /\ \/ status = "PUBLISHED" /\ offer[o].status \in {"DRAFT", "PAUSED"} /\ Fit(offer[o].device)
       \/ status = "PAUSED" /\ offer[o].status = "PUBLISHED"
       \/ status = "UNLISTED" /\ offer[o].status \in {"DRAFT", "PUBLISHED", "PAUSED", "SUSPENDED"}
    /\ Await(r, [step |-> "offer", offer |-> o, status |-> status, version |-> offer[o].version])
    /\ UNCHANGED <<mode, profile, challenge, device, retirement, offer, contract, cmds>>

PostOfferStatus(r) ==
    /\ req[r].step = "offer"
    /\ offer' = IF offer[req[r].offer].version = req[r].version
                THEN Becomes(req[r].offer, req[r].status) ELSE offer
    /\ Finish(r)
    /\ UNCHANGED <<mode, profile, challenge, device, retirement, contract, cmds>>

-----------------------------------------------------------------------------
(* Contracts, as far as they need the machine.                             *)

ReadReserve(r, k, o) ==
    /\ contract[k] = NoContract /\ \A q \in Requests : req[q] # Idle => req[q].step # "reserve"
    /\ offer[o].status = "PUBLISHED" /\ Fit(offer[o].device)
    /\ Await(r, [step |-> "reserve", contract |-> k, offer |-> o])
    /\ UNCHANGED <<mode, profile, challenge, device, retirement, offer, contract, cmds>>

(* The batch looks at the listing alone.                                   *)
PostReserve(r) ==
    /\ req[r].step = "reserve"
    /\ IF offer[req[r].offer].status = "PUBLISHED"
       THEN /\ contract' = [contract EXCEPT ![req[r].contract] =
                               [status |-> "HELD", offer |-> req[r].offer]]
            /\ offer' = Becomes(req[r].offer, "RESERVED")
       ELSE UNCHANGED <<contract, offer>>
    /\ Finish(r)
    /\ UNCHANGED <<mode, profile, challenge, device, retirement, cmds>>

CancelContract(k) ==
    /\ contract[k].status = "HELD"
    /\ contract' = [contract EXCEPT ![k].status = "CANCELLED"]
    /\ LET o == contract[k].offer IN
       offer' = IF offer[o].status # "RESERVED" THEN offer
                ELSE Becomes(o, IF Retired(offer[o].device) THEN "SUSPENDED" ELSE "PUBLISHED")
    /\ UNCHANGED <<mode, profile, challenge, device, retirement, cmds, req>>

AttachSshKey(k) ==
    /\ HasRoom /\ contract[k].status = "HELD"
    /\ LET d == DeviceOf(k) IN
       /\ device[d].status = "VERIFIED" /\ device[d].verification = "PASSED" /\ ~Retired(d)
       /\ cmds' = Queue("PROVISION", d, k)
    /\ contract' = [contract EXCEPT ![k].status = "PROVISIONING"]
    /\ UNCHANGED <<mode, profile, challenge, device, retirement, offer, req>>

(* START needs a device that is busy, STOP one that is not revoked.        *)
Serve(k) ==
    /\ \/ /\ contract[k].status = "READY"
          /\ device[DeviceOf(k)].status = "BUSY" /\ ~Retired(DeviceOf(k))
          /\ contract' = [contract EXCEPT ![k].status = "IN_SERVICE"]
       \/ /\ contract[k].status = "IN_SERVICE" /\ device[DeviceOf(k)].status # "REVOKED"
          /\ contract' = [contract EXCEPT ![k].status = "AWAITING_ACCEPTANCE"]
    /\ UNCHANGED <<mode, profile, challenge, device, retirement, offer, cmds, req>>

(* The status of the device is overwritten, whatever it is.                *)
DisputeContract(k) ==
    /\ contract[k].status = "AWAITING_ACCEPTANCE"
    /\ contract' = [contract EXCEPT ![k].status = "DISPUTED"]
    /\ device' = [device EXCEPT ![DeviceOf(k)].status = "DRAINING"]
    /\ offer' = Suspended({contract[k].offer}, {"RESERVED"})
    /\ UNCHANGED <<mode, profile, challenge, retirement, cmds, req>>

(* Settlement, the outcome of a dispute or the refund of a failed delivery *)
(* queues the cleanup; a cleanup that failed is queued again by hand.      *)
QueueCleanup(k) ==
    /\ HasRoom
    /\ \/ contract[k].status \in {"AWAITING_ACCEPTANCE", "DISPUTED", "FAILED"}
       \/ /\ contract[k].status = "CLEANING" /\ device[DeviceOf(k)].status = "DRAINING"
          /\ offer[contract[k].offer].status = "SUSPENDED"
          /\ \A i \in DOMAIN cmds : cmds[i].type = "CLEANUP" /\ cmds[i].contract = k
                                        => cmds[i].status = "FAILED"
    /\ contract' = [contract EXCEPT ![k].status = "CLEANING"]
    /\ cmds' = Queue("CLEANUP", DeviceOf(k), k)
    /\ UNCHANGED <<mode, profile, challenge, device, retirement, offer, req>>

-----------------------------------------------------------------------------
(* Retirement. Both handlers compare the version of the device.            *)

FirstStatus(how) == IF how = "EMERGENCY" THEN "MANUAL_ACTION_REQUIRED" ELSE "DRAINING"

RequestDeviceRetirement(d, how) ==
    /\ Known(d) /\ ~Retired(d) /\ device[d].status # "REVOKED"
    /\ how = "GRACEFUL" => ActiveOn(d) = {}
    /\ retirement' = [retirement EXCEPT ![d] = [mode |-> how, status |-> FirstStatus(how)]]
    /\ device' = [device EXCEPT ![d].status = IF how = "EMERGENCY" THEN "REVOKED" ELSE "DRAINING",
                                ![d].verification = "EXPIRED"]
    /\ offer' = Suspended(OffersOf(d), {"DRAFT", "PUBLISHED", "RESERVED", "PAUSED"})
    /\ cmds' = [i \in DOMAIN cmds |->
                   IF i \in OpenOn(d) /\ (how = "EMERGENCY" \/ cmds[i].type # "CLEANUP")
                   THEN [cmds[i] EXCEPT !.status = "FAILED"] ELSE cmds[i]]
    /\ UNCHANGED <<mode, profile, challenge, contract, req>>

FinalizeDeviceRetirement(d) ==
    /\ Retired(d) /\ retirement[d].status # "FINALIZED"
    /\ device[d].status \in {"DRAINING", "REVOKED"}
    /\ ActiveOn(d) = {} /\ OpenOn(d) = {}
    /\ device' = [device EXCEPT ![d].status = "REVOKED"]
    /\ retirement' = [retirement EXCEPT ![d].status = "FINALIZED"]
    /\ offer' = Suspended(OffersOf(d), {"DRAFT", "PUBLISHED", "RESERVED", "PAUSED"})
    /\ UNCHANGED <<mode, profile, challenge, contract, cmds, req>>

-----------------------------------------------------------------------------
Handler(r) ==
    \/ \E s \in {"APPROVED", "REJECTED", "SUSPENDED"} : ReadReview(r, s)
    \/ \E c \in Challenges : ReadRegister(r, c)
    \/ \E d \in Devices, seq \in 1 .. MaxBeats, offline, changed \in BOOLEAN :
           ReadHeartbeat(r, d, seq, offline, changed)
    \/ \E i \in DOMAIN cmds, fresh \in BOOLEAN : ReadCleanup(r, i, fresh)
    \/ \E o \in Offers, d \in Devices : ReadCreateOffer(r, o, d)
    \/ \E o \in Offers, s \in {"PUBLISHED", "PAUSED", "UNLISTED"} : ReadOfferStatus(r, o, s)
    \/ \E k \in Contracts, o \in Offers : ReadReserve(r, k, o)
    \/ \E d \in Devices : PostRegister(r, d)
    \/ PostReview(r) \/ PostHeartbeat(r) \/ PostCleanup(r)
    \/ PostCreateOffer(r) \/ PostOfferStatus(r) \/ PostReserve(r)

Next ==
    \/ \E r \in Requests : Handler(r)
    \/ SaveProfile \/ SubmitProfile
    \/ \E c \in Challenges : IssueAgentChallenge(c) \/ Lapse(c) \/ RevokeAgentChallenge(c)
    \/ \E d \in Devices : QueueVerification(d) \/ FinalizeDeviceRetirement(d)
    \/ \E d \in Devices, how \in {"GRACEFUL", "EMERGENCY"} : RequestDeviceRetirement(d, how)
    \/ \E i \in DOMAIN cmds :
           CompleteProvision(i) \/ FailCommand(i) \/ \E ok \in BOOLEAN : CompleteVerify(i, ok)
    \/ \E k \in Contracts : CancelContract(k) \/ AttachSshKey(k) \/ Serve(k)
                            \/ DisputeContract(k) \/ QueueCleanup(k)

Spec == Init /\ [][Next]_vars

-----------------------------------------------------------------------------
(* The types, and what the two ways of retiring leave in the record.       *)
TypeOK ==
    /\ mode \in Modes
    /\ profile.version \in Nat
    /\ profile.status \in {"NONE", "DRAFT", "SUBMITTED", "APPROVED", "REJECTED", "SUSPENDED"}
    /\ challenge \in [Challenges -> {"NONE", "OPEN", "LAPSED", "CONSUMED", "REVOKED"}]
    /\ device \in [Devices -> {NoDevice} \cup
           [status : {"ONLINE", "OFFLINE", "VERIFYING", "VERIFIED", "BUSY", "DRAINING", "REVOKED"},
            verification : {"NOT_RUN", "PENDING", "PASSED", "FAILED", "EXPIRED"},
            seq : 0 .. MaxBeats, challenge : Challenges]]
    /\ retirement \in [Devices -> {NoRetirement}
           \cup [mode : {"GRACEFUL"}, status : {"DRAINING", "FINALIZED"}]
           \cup [mode : {"EMERGENCY"}, status : {"MANUAL_ACTION_REQUIRED", "FINALIZED"}]]
    /\ offer \in [Offers -> {NoOffer} \cup
           [status : {"DRAFT", "PUBLISHED", "PAUSED", "RESERVED", "SUSPENDED", "UNLISTED"},
            version : Nat, device : Devices]]
    /\ contract \in [Contracts -> {NoContract} \cup
           [status : {"HELD", "CANCELLED", "PROVISIONING", "READY", "IN_SERVICE", "AWAITING_ACCEPTANCE",
                      "DISPUTED", "FAILED", "CLEANING", "CLEANED"}, offer : Offers]]
    /\ cmds \in Seq([type : {"VERIFY", "PROVISION", "CLEANUP"}, device : Devices,
                     contract : Contracts \cup {"none"}, status : {"OPEN", "SUCCEEDED", "FAILED"}])

(* A supply offer of n machines has at most n telemetry devices that are   *)
(* not revoked, however many registrations run against issued, lapsed and  *)
(* revoked challenges; a challenge makes one device, and none once it has  *)
(* been revoked.                                                           *)
QuotaIsKept ==
    /\ Cardinality(OnTelemetry) <= Quantity
    /\ \A d \in Devices : Known(d) => challenge[device[d].challenge] = "CONSUMED"
    /\ \A d, e \in Devices : Known(d) /\ Known(e) /\ device[d].challenge = device[e].challenge => d = e

(* A retirement is never undone: whatever was under way when it was asked  *)
(* for, the machine does not come back on line, its verification is over,  *)
(* none of its listings can be sold and nothing is prepared on it. If it   *)
(* is graceful no renter and no command is left, so that it can end; once  *)
(* it has ended, its credential is revoked for good.                       *)
RetirementIsFinal ==
    \A d \in Devices : Retired(d) =>
        /\ device[d].status \in {"DRAINING", "REVOKED"} /\ device[d].verification = "EXPIRED"
        /\ \A o \in OffersOf(d) : offer[o].status \in {"DRAFT", "SUSPENDED", "UNLISTED"}
        /\ \A i \in OpenOn(d) : cmds[i].type = "CLEANUP"
        /\ retirement[d].mode = "GRACEFUL" \/ retirement[d].status = "FINALIZED"
               => ActiveOn(d) = {} /\ OpenOn(d) = {}
        /\ retirement[d].status = "FINALIZED" => device[d].status = "REVOKED"

-----------------------------------------------------------------------------
(* What the code does not keep; no run checks these.                       *)

(* No machine serves two contracts, though it may have two listings.       *)
DeviceIsSoldOnce == \A d \in Devices : Cardinality(ActiveOn(d)) <= 1

(* A machine that is being verified has a command that says so.            *)
VerifyingIsAnswered ==
    \A d \in Devices : Known(d) /\ device[d].status = "VERIFYING"
        => \E i \in OpenOn(d) : cmds[i].type = "VERIFY"
=============================================================================
