-------------------------- MODULE ExchangeDelivery --------------------------
(* What follows a captured payment on the exchange: provisioning, delivery *)
(* packages and their one-time credentials, the metered service, the       *)
(* buyer's acceptance and the settlement, for one order on either store.   *)
(*                                                                         *)
(* Both stores decide a command by the same tests and make the same        *)
(* changes. exchange-store-sqlite.ts does so at once. exchange-store-d1.ts *)
(* tests what its reads return, with the clock of the request, and later   *)
(* commits a batch that repeats the tests against that same clock; most    *)
(* batches also insist that the order's version is the one that was read.  *)
(*                                                                         *)
(* The versions of a task, a package, a metering session, an acceptance    *)
(* and a settlement advance with their statuses, which never repeat, so    *)
(* that a compare-and-set on one of them is the test of its status. Each   *)
(* move of the reservation is entered in exchange_capacity_transfers, and  *)
(* each verdict as an event and a receipt, in its own transaction.         *)
EXTENDS Integers, Sequences, FiniteSets, FiniteSetsExt

CONSTANTS
    Calls,       \* requests a D1 store handles at once
    Start, End,  \* the service window of the order
    Units,       \* its rate_units
    Gross,       \* gross_amount_cents of its contract snapshot
    Attributed,  \* whether an agent referred the buyer
    Expiries,    \* credential_expires_at a supplier may set
    MaxPackages, \* bound of the delivery packages of the task
    MaxClock     \* bound of the clock

ASSUME DeliveryAssumption ==
    /\ Start \in Nat /\ End \in Nat /\ Start < End
    /\ Units \in Nat \ {0} /\ Gross \in Nat \ {0} /\ Attributed \in BOOLEAN
    /\ Expiries \subseteq Nat /\ MaxPackages \in Nat /\ MaxClock \in Nat

VARIABLES
    database, \* "sqlite" or "d1"
    clock,
    version,  \* version of the order
    resv,     \* state of its reservation
    phase,    \* phase of exchange_order_lifecycle
    task,     \* exchange_delivery_tasks
    pkgs,     \* exchange_delivery_packages by revision, with review, claim and check
    meter,    \* exchange_metering_sessions and _finals
    accept,   \* exchange_acceptances
    settle,   \* exchange_settlements
    entries,  \* exchange_ledger_entries
    accrued,  \* exchange_commission_accruals
    call      \* local state of the D1 handlers under way

service == <<meter, accept, settle, entries, accrued>>
deliveryVars == <<database, clock, version, resv, phase, task, pkgs, service, call>>

NoCall == [step |-> "idle"]
Live == {"SUBMITTED", "VERIFIED", "CLAIMED"}
Revisions == DOMAIN pkgs
Last == pkgs[Len(pkgs)]
Scheduled == (End - Start) * Units

(* The rows a captured payment leaves behind.                              *)
DeliveryInit ==
    /\ database \in {"sqlite", "d1"}
    /\ clock = 0 /\ version = 1
    /\ resv = "COMMITTED" /\ phase = "FULFILLING"
    /\ task = [status |-> "PENDING", attempt |-> 0]
    /\ pkgs = <<>>
    /\ meter = [status |-> "SCHEDULED", began |-> 0, available |-> 0]
    /\ accept = "NONE"
    /\ settle = [status |-> "NONE", payable |-> 0, credit |-> 0]
    /\ entries = <<>> /\ accrued = <<>>
    /\ call = [r \in Calls |-> NoCall]

-----------------------------------------------------------------------------
(* The tests of the handlers, at the time a handler read from the clock.   *)

MayProvision == task.status = "PENDING" /\ resv = "COMMITTED" /\ phase = "FULFILLING"

MaySubmit == /\ task.status = "PROVISIONING" /\ Len(pkgs) < MaxPackages
             /\ \A p \in Revisions : pkgs[p].status \notin Live

Shows(p, status, at) == p \in Revisions /\ pkgs[p].status = status /\ pkgs[p].expires > at

MayReview(p, at) == Shows(p, "SUBMITTED", at) /\ task.status = "VERIFYING"
MayClaim(p, at)  == Shows(p, "VERIFIED", at) /\ task.status = "DELIVERED"
MayTest(p, at)   == /\ Shows(p, "CLAIMED", at) /\ task.status = "DELIVERED"
                    /\ pkgs[p].claimed /\ ~pkgs[p].passed

(* Mutant of MayStart: the credential is only looked at when it is claimed.*)
MayStartExpired(at) ==
    /\ pkgs # <<>> /\ Last.status = "CLAIMED" /\ Last.passed
    /\ Start <= at /\ at < End
    /\ meter.status = "SCHEDULED" /\ task.status = "DELIVERED"
    /\ resv = "COMMITTED" /\ phase = "FULFILLING"
MayStart(at) ==
    /\ pkgs # <<>> /\ Shows(Len(pkgs), "CLAIMED", at) /\ Last.passed
    /\ Start <= at /\ at < End
    /\ meter.status = "SCHEDULED" /\ task.status = "DELIVERED"
    /\ resv = "COMMITTED" /\ phase = "FULFILLING"

MayComplete(at) == /\ at >= End /\ meter.status = "ACTIVE" /\ task.status = "IN_SERVICE"
                   /\ resv = "IN_SERVICE" /\ phase = "FULFILLING"

MayAccept == /\ accept = "PENDING" /\ meter.status = "FINAL"
             /\ phase = "AWAITING_ACCEPTANCE" /\ settle.status = "BLOCKED"

(* Mutant of MayRecord: what was accepted once may be recorded again.      *)
MayRecordAgain == accept = "ACCEPTED" /\ phase = "COMPLETED"
MayRecord == settle.status = "ELIGIBLE" /\ accept = "ACCEPTED" /\ phase = "COMPLETED"

-----------------------------------------------------------------------------
(* What the handlers change.                                               *)

Task(status, more) == task' = [status |-> status, attempt |-> task.attempt + more]
Bumped == version' = version + 1

StartProvisioning ==
    /\ Task("PROVISIONING", 1) /\ Bumped
    /\ UNCHANGED <<resv, phase, pkgs, service>>

SubmitDeliveryPackage(expires) ==
    /\ pkgs' = Append(pkgs, [status |-> "SUBMITTED", expires |-> expires, review |-> "NONE",
                             claimed |-> FALSE, passed |-> FALSE])
    /\ Task("VERIFYING", 0) /\ Bumped
    /\ UNCHANGED <<resv, phase, service>>

ReviewDeliveryPackage(p, pass) ==
    /\ pkgs' = [pkgs EXCEPT ![p].status = IF pass THEN "VERIFIED" ELSE "REJECTED",
                            ![p].review = IF pass THEN "PASS" ELSE "FAIL"]
    /\ IF pass THEN Task("DELIVERED", 0) ELSE Task("PROVISIONING", 1)
    /\ Bumped
    /\ UNCHANGED <<resv, phase, service>>

ClaimDeliveryPackage(p) ==
    /\ pkgs' = [pkgs EXCEPT ![p].status = "CLAIMED", ![p].claimed = TRUE]
    /\ Bumped
    /\ UNCHANGED <<resv, phase, task, service>>

(* The test adapter finds every endpoint reachable.                        *)
TestDeliveryConnection(p) ==
    /\ pkgs' = [pkgs EXCEPT ![p].passed = TRUE]
    /\ UNCHANGED <<version, resv, phase, task, service>>

TestStartService(at) ==
    /\ meter' = [meter EXCEPT !.status = "ACTIVE", !.began = at]
    /\ Task("IN_SERVICE", 0) /\ resv' = "IN_SERVICE" /\ Bumped
    /\ UNCHANGED <<phase, pkgs, accept, settle, entries, accrued>>

(* The hours of the window before the service began are unproven.          *)
Available == Scheduled - (meter.began - Start) * Units

TestCompleteMetering ==
    LET payable == (Gross * Available) \div Scheduled IN
    /\ meter' = [meter EXCEPT !.status = "FINAL", !.available = Available]
    /\ Task("COMPLETED", 0) /\ resv' = "FULFILLED" /\ phase' = "AWAITING_ACCEPTANCE"
    /\ accept' = "PENDING"
    /\ settle' = [status |-> "BLOCKED", payable |-> payable, credit |-> Gross - payable]
    /\ Bumped
    /\ UNCHANGED <<pkgs, entries, accrued>>

SubmitAcceptance(ok) ==
    /\ accept' = IF ok THEN "ACCEPTED" ELSE "DISPUTED"
    /\ settle' = [settle EXCEPT !.status = IF ok THEN "ELIGIBLE" ELSE "BLOCKED"]
    /\ phase' = IF ok THEN "COMPLETED" ELSE "EXCEPTION"
    /\ Bumped
    /\ UNCHANGED <<resv, task, pkgs, meter, entries, accrued>>

Entry(account, side, amount) == [account |-> account, side |-> side, amount |-> amount]
Credit(account, amount) == IF amount > 0 THEN <<Entry(account, "CREDIT", amount)>> ELSE <<>>

(* A credit of nothing is not entered. The commission is an estimate of 3% *)
(* of the gross amount, rounded down.                                      *)
TestRecordSettlement ==
    /\ entries' = entries \o <<Entry("TEST_BUYER_SETTLEMENT_CLEARING", "DEBIT", Gross)>>
                          \o Credit("TEST_SUPPLIER_PAYABLE", settle.payable)
                          \o Credit("TEST_BUYER_CREDIT", settle.credit)
    /\ settle' = [settle EXCEPT !.status = "TEST_RECORDED"]
    /\ accrued' = IF Attributed THEN Append(accrued, (Gross * 300) \div 10000) ELSE accrued
    /\ UNCHANGED <<version, resv, phase, task, pkgs, meter, accept>>

(* A package whose credential has run out sends its task back to be        *)
(* provisioned, unless the service is under way.                           *)
Expire(p) ==
    /\ pkgs' = [pkgs EXCEPT ![p].status = "EXPIRED"]
    /\ IF task.status \in {"VERIFYING", "DELIVERED"} THEN Task("PROVISIONING", 1) ELSE UNCHANGED task
    /\ Bumped
    /\ UNCHANGED <<resv, phase, service>>

-----------------------------------------------------------------------------
(* Commands, and how each store handles one.                               *)

Plain == {"provision", "start", "complete", "record"}
Commands ==
    [op : Plain] \cup [op : {"submit"}, expires : Expiries]
    \cup [op : {"review"}, pkg : 1 .. MaxPackages, ok : BOOLEAN]
    \cup [op : {"claim", "test"}, pkg : 1 .. MaxPackages] \cup [op : {"accept"}, ok : BOOLEAN]

Allowed(c, at) ==
    CASE c.op = "provision" -> MayProvision
      [] c.op = "submit"    -> MaySubmit
      [] c.op = "review"    -> MayReview(c.pkg, at)
      [] c.op = "claim"     -> MayClaim(c.pkg, at)
      [] c.op = "test"      -> MayTest(c.pkg, at)
      [] c.op = "start"     -> MayStart(at)
      [] c.op = "complete"  -> MayComplete(at)
      [] c.op = "accept"    -> MayAccept
      [] c.op = "record"    -> MayRecord

(* parseSubmitDeliveryPackage turns away a credential that is over already.*)
Valid(c, at) == c.op = "submit" => c.expires > at

Perform(c, at) ==
    \/ c.op = "provision" /\ StartProvisioning
    \/ c.op = "submit"    /\ SubmitDeliveryPackage(c.expires)
    \/ c.op = "review"    /\ ReviewDeliveryPackage(c.pkg, c.ok)
    \/ c.op = "claim"     /\ ClaimDeliveryPackage(c.pkg)
    \/ c.op = "test"      /\ TestDeliveryConnection(c.pkg)
    \/ c.op = "start"     /\ TestStartService(at)
    \/ c.op = "complete"  /\ TestCompleteMetering
    \/ c.op = "accept"    /\ SubmitAcceptance(c.ok)
    \/ c.op = "record"    /\ TestRecordSettlement

RunOut(p, at) == p \in Revisions /\ pkgs[p].status \in Live /\ pkgs[p].expires <= at

SqliteCommand(c) ==
    /\ database = "sqlite" /\ Valid(c, clock) /\ Allowed(c, clock)
    /\ Perform(c, clock)
    /\ UNCHANGED <<database, clock, call>>

(* Any handler that is shown a package expires it first: reading the order,*)
(* the lists of the operators, a review, a claim, a check or a start.      *)
SqliteExpiry(p) ==
    /\ database = "sqlite" /\ RunOut(p, clock)
    /\ Expire(p)
    /\ UNCHANGED <<database, clock, call>>

D1Read(r, c) ==
    /\ database = "d1" /\ call[r] = NoCall /\ Valid(c, clock) /\ Allowed(c, clock)
    /\ call' = [call EXCEPT ![r] = [step |-> "post", cmd |-> c, at |-> clock, version |-> version]]
    /\ UNCHANGED <<database, clock, version, resv, phase, task, pkgs, service>>

D1ReadStale(r, p) ==
    /\ database = "d1" /\ call[r] = NoCall /\ RunOut(p, clock)
    /\ call' = [call EXCEPT ![r] = [step |-> "expire", pkg |-> p, at |-> clock,
                                    status |-> pkgs[p].status]]
    /\ UNCHANGED <<database, clock, version, resv, phase, task, pkgs, service>>

(* The guards at the end of a batch that compare the order's version.      *)
Versioned == {"provision", "submit", "review", "claim", "accept"}

(* Mutant of D1Post: the batch relies on what the request read.            *)
D1PostUnchecked(r) ==
    /\ call[r] # NoCall /\ call[r].step = "post"
    /\ Perform(call[r].cmd, call[r].at)
    /\ call' = [call EXCEPT ![r] = NoCall]
    /\ UNCHANGED <<database, clock>>
D1Post(r) ==
    /\ call[r] # NoCall /\ call[r].step = "post"
    /\ IF /\ Allowed(call[r].cmd, call[r].at)
          /\ call[r].cmd.op \in Versioned => version = call[r].version
       THEN Perform(call[r].cmd, call[r].at)
       ELSE UNCHANGED <<version, resv, phase, task, pkgs, service>>
    /\ call' = [call EXCEPT ![r] = NoCall]
    /\ UNCHANGED <<database, clock>>

(* expireD1DeliveryPackage ends with a guard that wants the task to be     *)
(* provisioned again, and is undone where SQLite leaves the task alone.    *)
ExpiryCommits == task.status \in {"VERIFYING", "DELIVERED", "PROVISIONING"}

D1PostExpiry(r) ==
    /\ call[r] # NoCall /\ call[r].step = "expire"
    /\ IF pkgs[call[r].pkg].status = call[r].status /\ ExpiryCommits
       THEN Expire(call[r].pkg)
       ELSE UNCHANGED <<version, resv, phase, task, pkgs, service>>
    /\ call' = [call EXCEPT ![r] = NoCall]
    /\ UNCHANGED <<database, clock>>

ClockTicks ==
    /\ clock < MaxClock /\ clock' = clock + 1
    /\ UNCHANGED <<database, version, resv, phase, task, pkgs, service, call>>

DeliveryNext ==
    \/ \E c \in Commands : SqliteCommand(c) \/ \E r \in Calls : D1Read(r, c)
    \/ \E p \in Revisions : SqliteExpiry(p) \/ \E r \in Calls : D1ReadStale(r, p)
    \/ \E r \in Calls : D1Post(r) \/ D1PostExpiry(r)
    \/ ClockTicks

DeliverySpec == DeliveryInit /\ [][DeliveryNext]_deliveryVars

-----------------------------------------------------------------------------
(* The types of the rows and of what a D1 handler carries.                 *)
DeliveryTypeOK ==
    /\ database \in {"sqlite", "d1"} /\ clock \in 0 .. MaxClock /\ version \in Nat
    /\ resv \in {"COMMITTED", "IN_SERVICE", "FULFILLED"}
    /\ phase \in {"FULFILLING", "AWAITING_ACCEPTANCE", "COMPLETED", "EXCEPTION"}
    /\ task \in [attempt : Nat, status : {"PENDING", "PROVISIONING", "VERIFYING", "DELIVERED",
                                          "IN_SERVICE", "COMPLETED"}]
    /\ pkgs \in Seq([status : Live \cup {"REJECTED", "EXPIRED"}, expires : Nat,
                     review : {"NONE", "PASS", "FAIL"}, claimed : BOOLEAN, passed : BOOLEAN])
    /\ meter \in [status : {"SCHEDULED", "ACTIVE", "FINAL"}, began : Nat, available : Nat]
    /\ accept \in {"NONE", "PENDING", "ACCEPTED", "DISPUTED"}
    /\ settle \in [status : {"NONE", "BLOCKED", "ELIGIBLE", "TEST_RECORDED"},
                   payable : Nat, credit : Nat]
    /\ entries \in Seq([account : {"TEST_BUYER_SETTLEMENT_CLEARING", "TEST_SUPPLIER_PAYABLE",
                                   "TEST_BUYER_CREDIT"},
                        side : {"DEBIT", "CREDIT"}, amount : Nat])
    /\ accrued \in Seq(Nat)
    /\ DOMAIN call = Calls
    /\ \A r \in Calls :
           \/ call[r] = NoCall
           \/ call[r].step = "post" /\ call[r].cmd \in Commands /\ call[r].at \in 0 .. clock
           \/ call[r].step = "expire" /\ call[r].pkg \in Revisions /\ call[r].at \in 0 .. clock

(* The task and its packages move in step: a package is alive only while   *)
(* its task waits for it, at most one is, and it is the last; every attempt*)
(* beyond the packages is one a supplier still owes. A credential that runs*)
(* out during the service is the one case in which the stores differ.      *)
Shown ==
    \/ task.status = "VERIFYING" /\ Last.status = "SUBMITTED"
    \/ task.status = "DELIVERED" /\ Last.status \in {"VERIFIED", "CLAIMED"}
    \/ task.status \in {"IN_SERVICE", "COMPLETED"} /\ Last.status = "CLAIMED"
    \/ task.status \in {"IN_SERVICE", "COMPLETED"} /\ Last.status = "EXPIRED" /\ database = "sqlite"

DeliveryIsInStep ==
    /\ DeliveryTypeOK
    /\ \A p \in Revisions : pkgs[p].status \in Live => p = Len(pkgs)
    /\ task.status = "PENDING" => pkgs = <<>> /\ task.attempt = 0
    /\ task.status = "PROVISIONING" => /\ task.attempt = Len(pkgs) + 1
                                       /\ \A p \in Revisions : pkgs[p].status \notin Live
    /\ task.status \notin {"PENDING", "PROVISIONING"} =>
           pkgs # <<>> /\ task.attempt = Len(pkgs) /\ Shown

(* A credential nobody claimed or that has run out starts no service: the  *)
(* package in service was reviewed, claimed and reached by the buyer, and  *)
(* its credential was alive at the start, which lies in the bought window. *)
ServiceIsEarned ==
    meter.status # "SCHEDULED" =>
        /\ Start <= meter.began /\ meter.began < End
        /\ pkgs # <<>> /\ Last.review = "PASS" /\ Last.claimed /\ Last.passed
        /\ meter.began < Last.expires

(* The buyer pays the supplier for no moment before the service began and  *)
(* gets the rest back; the ledger of an accepted order balances and is     *)
(* written once; a disputed or unaccepted one has no entry.                *)
Amounts == [i \in DOMAIN entries |-> entries[i].amount]
Total(side) == MapThenSumSet(LAMBDA i : Amounts[i],
                             {i \in DOMAIN entries : entries[i].side = side})
PaidAsServed ==
    /\ meter.status = "FINAL" <=> settle.status # "NONE"
    /\ meter.status = "FINAL" =>
           /\ settle.payable + settle.credit = Gross
           /\ settle.payable * (End - Start) <= Gross * (End - meter.began)
           /\ (settle.payable + 1) * (End - Start) > Gross * (End - meter.began)
    /\ Total("DEBIT") = Total("CREDIT")
    /\ Total("DEBIT") = IF settle.status = "TEST_RECORDED" THEN Gross ELSE 0
    /\ settle.status \in {"ELIGIBLE", "TEST_RECORDED"} <=> accept = "ACCEPTED"
    /\ Len(accrued) = IF Attributed /\ settle.status = "TEST_RECORDED" THEN 1 ELSE 0

(* What the buyer pays for was delivered, and only as long as it was.      *)
PaidAsEarned == ServiceIsEarned /\ PaidAsServed

(* Whoever reads the order is shown a package that has run out as EXPIRED. *)
(* The code does not keep this one: once the service has begun, D1 cannot  *)
(* expire its package and every read of the order fails.                   *)
ExpiredIsReadable == \A p \in Revisions : RunOut(p, clock) => database = "sqlite" \/ ExpiryCommits
=============================================================================
