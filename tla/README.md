# KAI Cloud: a TLA+ verification project

KAI Cloud is a marketplace for GPU capacity: a Node application (routes under
`app/api`, stores under `lib/server`, SQLite or D1 underneath) and an agent on
each supplier's host. This directory holds specifications of its core logic,
their TLC configurations, and proofs checked by TLAPS.

Paths below are relative to `src/`. `HS` is `lib/server/hosting-v2-store-core.ts`,
`CS` is `lib/server/card-hour-store-core.ts`.

Contents: [how the code runs](#how-the-code-runs), [inventory](#inventory),
[plan](#plan), [modules](#modules), [runs](#runs-and-bounds),
[fairness](#fairness), [proofs](#proofs), [disagreements](#disagreements),
[what is not modelled](#what-is-not-modelled).

## How the code runs

A request handler is an `async` function. It reads rows (`db.first`), may call
a payment provider or an identity provider, and writes with `db.batch`, which
is one transaction: either every statement commits or none. A statement
`SELECT CASE WHEN changes()=1 THEN 1 ELSE abs(-2^63) END` inside a batch aborts
the whole batch when the statement before it changed nothing. Handlers
interleave at every `await`; so in each module one action is one read that a
later write relies on, one external call, or one batch. Where a batch repeats
every test of the reads before it, the reads and the batch are one action: what
happens in between can only make the batch fail, which is the same as the action
not being taken.

There is one application process. A crash loses its handlers and keeps the
database. The card-hour store and the hosting store are separate objects with
separate batches, so an operation over both is at least two transactions.

## Inventory

| Component | State | Operations | Joined to | Hard behaviour | Correct when |
|---|---|---|---|---|---|
| Card-hour top-ups and reconciliation (`CS`, `card-hour-reconciliation-worker.ts`, top-up and notify routes) | top-up orders, reconciliation claims, events, ledger batches, work items | checkout (create, claim, open, attach), claim / query / apply / release of a reconciliation, callbacks of two providers, escalation | wallet, payment adapters | four entrances learn of one payment; leases expire while their holder waits; lost checkout answers; duplicated and reordered callbacks; restarts | a payment is credited once, always eventually; one checkout per order; a callback is acknowledged only when the money is in |
| Hosting reservation (`HS`, `hosting-contract-service.ts`) | contract, offer, device, hold, wallet, receipts | reserve, hold, confirm, compensate, cancel, attach key, pause, retire | wallet, delivery | three transactions over two stores, concurrent retries of one key, compensation against confirmation, cancellation against all | one buyer per listing; the wallet agrees with its holds; a retired machine is off the market |
| Host agent and actuator (`host-agent/src`) | manifest and container of a workload, command in hand | poll, provision, start, stop, cleanup, watchdog; pairing, preflight, verify | delivery, by commands and reports | crash between claim and result, socket timeout while the actuator goes on, lost or late reports | a command has its effect once, or fails and can be repeated |
| Hosting delivery, settlement, disputes (`HS`, `CS`, `hosting-*-service.ts`) | contract, instance, commands, failures, recoveries, proposals, offer, device | start, stop, poll, complete, refund, recover, accept, dispute, decide, retry, retire | agent, wallet, billing | every recovery step is a transaction of its own driven by a later poll; failures overlap with people's decisions | the escrow: paid once after metering, or returned once, and relisted only when clean |
| Prices, fees, referrals (`lib/hosting-v2.ts`, `CS`) | held and settled amounts, fee volume, accruals, platform accounts | price, tier, meter, split, settle, replay, dispute | delivery, wallet | several roundings; settlement and record in two stores; stale tier and referral | nothing is made or lost; what is recorded was paid |
| Card-hour wallet, grants, refunds (`CS`, `card-hour-topup-refund-service.ts`) | wallet, ledger, holds, refunds, grants | capture, grant, pay, hold, settle, release, refund, request / decide / begin / finish / confirm | top-ups, reservation, supply | claims go stale after 120 s; the customer spends between approval and execution | balances explained; two administrators; one proof one refund |
| Device pairing, verification, retirement (`HS`, `host-agent`) | profiles, challenges, devices, listings, retirements | review, issue / revoke a challenge, register, heartbeat, verify, list, retire, finish a retirement | reservation, delivery | handlers that act on what they read before: heartbeats, reviews, registrations, cleanups against a retirement | a retirement is final; a quota of machines is kept |
| Exchange supply (`exchange-store-*.ts`, `exchange-records.ts`) | resource, verification runs, lots, listings, withdrawals, swap quotes | verify, cut, list, withdraw, quote, transition | exchange orders | sums over overlapping windows; a clock read before the batch | lots fit the resource; what was withdrawn or closed stays so |
| Exchange orders, payments, capacity (`exchange-store-*.ts`, `exchange.ts`, `marketplace-capacity.ts`) | orders, reservations, intents, payment events, capacity transfers | checkout, confirm, reject, pay, expire | payment adapters | capacity under concurrent orders; holds that run out between two clocks; two implementations of one store | no overselling; an order is paid once or released |
| Exchange delivery and settlement (the same stores) | task, packages with credentials, metering, acceptance, settlement, ledger | provision, submit, review, claim, test, start, complete, accept, record, expire | exchange orders | credentials that run out while handlers are under way | paid as served, and served as delivered |
| Supply trials (`supply-store-core.ts`, `supply-card-hour-*.ts`, `ssh-provisioner.ts`, supply routes) | trial orders, allocations, deliveries, payments and their events, debits | reserve, pay by Alipay or in card-hours, install a key, check, start, complete, clean up, classify and repair | wallet, administration, payment adapters | routes that tell a machine something and then write two rows in two batches; an older release that debited before it captured | hours are sold once; a paid order is complete or can be repaired |
| Refunds of trial orders (`admin-store-core.ts`, `admin-refund-executor.ts`) | cases, executions | request, decide, claim, call Alipay, record, finish | supply trials | claims go stale after five minutes while Alipay is asked; answers are lost | no refund on record that Alipay did not make, none without two administrators |
| Supply intake (`supply-store-core.ts`) | pools, nodes, components, agents, verification jobs, free hours, promotions | declare, enrol, heartbeat, verify, decide, offer hours, promote | supply trials | two reviewers of one job; hours offered by a request that read the node before it was rejected | what is on sale is verified, free and within the policy |
| Marketplace requests and quotes (`marketplace-store-*.ts`, `curated-market-demands.ts`, catalog route) | demands, staged demands, papers, quotes, the curated demand | ask, stage, bind, record, publish, quote, revise, prune | administration, manual orders | five transactions of two stores for one catalog demand; weekly revision against quotes drawn up before | what is shown is complete and current |
| Manual orders (`admin-store-core.ts`) | delivery, order, deposit, wallet | assign, hand over, offer, accept, prepare, ready, connect, complete, accept completion | wallet, appeals | writes that look at a second row before their batch only | card-hours explained; an order never ahead of its delivery; no capture under an open appeal |
| Manual appeals (`admin-store-core.ts`) | cases, refunds outside the platform | open, remark, assign, move, record, handle, verify | manual orders | two administrators on one case | one case at a time; a refund verified by a second administrator on the proof that is there |
| Top-up appeals (`CS`) | appeal, events, version seen | file, acknowledge, step | top-ups | two administrators on one version | one path, each step once |
| Qixiang query budget (`qixiang-query-executor.ts`) | queue, starts of the last minute, boot time | enqueue, start, refuse, end, restart | top-ups | deadline from queueing, budget across restarts | at most 12 starts a minute, nobody waits longer than ten seconds |
| Accounts, sessions, administrators (`account-auth-*.ts`, `admin-auth-password.ts`, `admin-store-core.ts`) | memberships, roles, ROOT, codes, sessions | log in by password or code, activate, renew, switch, log out, invite, suspend, assign roles | all routes | logins, switches and invitations that read a membership before it was suspended | who is suspended is out at once and stays out; ROOT is never locked out |
| Payment adapters, request guard, projections, standardisation, model market, user interface, release scripts | little or none of the market | sign, parse, render, import, back up | | | |

`PROJECT.json` lists the same components with their sources and status, and the
hazards at their lines.

## Plan

Each module is written so that it can be checked and proved about (constants
with assumptions, one action per operation, no RECURSIVE operator, invariants as
conjunctions of named parts).

Done:

1. `TopupReconciliation`, implements `TopupPromise`: checked, proved.
2. `HostingReservation`: checked, proved.
3. `HostAgent`, extended by `HostingDelivery`, implements `HostingEscrow`: checked,
   proved but for liveness.
4. `CardHourWallet`: checked, proved.
5. `HostingBilling`: checked, proved.
6. `ExchangeCapacity` under `ExchangeOrders`, which implements `ExchangePromise`:
   checked, proved; `ExchangeDelivery`: checked, proved.
7. `HostingDevices`: checked, proved.
8. `SupplyPayments`, extended by `SupplyTrials`: checked, proved.
9. `ExchangeSupply`, `MarketDemands` and `SupplyIntake`: checked, side by side, in
   `MCMarketEntry`, and proved.
10. `ManualOrders`, `ManualAppeals`, `TopupAppeals`, `QueryBudget`: checked, with
    `CardHourWallet`, in `MCBackOffice`, and proved.
11. `AccountAccess`: checked, with `HostingDevices`, in `MCHostingDevices`, and
    proved.

To come:

12. Proofs beyond what the runs check: more of the rows each handler under way may
    rely on, stated as properties where a reader would miss them.

Composition: `HostingReservation` ends where `HostingDelivery` begins (SSH key
attached, card-hours held, PROVISION queued). `HostingBilling` refines the unit
amount of `HostingDelivery` to prices, and folds its machine to a metering step.
`HostingDevices` has the machine in detail and folds a contract to the statuses
a machine knows. `CardHourWallet` refines the refund that is one update of
`TopupReconciliation` (`RefundCloses`), and takes the holds of the hosting
modules as `HoldOrder`/`SettleOrder`/`ReleaseOrder`/`RefundOrder`, and a trial
order paid in card-hours as a sale. `ExchangeSupply` ends with a listed lot,
where `ExchangeOrders` begins; that ends with a captured payment, where
`ExchangeDelivery` begins. `SupplyIntake` ends with hours on sale, where
`SupplyPayments` begins; `MarketDemands` with a published catalog demand and its
papers, where `ManualOrders` begins; the open appeals that freeze a capture there
are the cases of `ManualAppeals`. `QueryBudget` is the source of the deferred
queries of `TopupReconciliation`.

## Modules

### TopupReconciliation and TopupPromise

The rows `card_hour_topup_orders` (`status`, `checkout`, `checkoutOld`), their
reconciliation claims (`claim`, `claimOld`, `due`, `attempts`), events, ledger
and work items; the handlers in flight (`req` for checkouts, `call` for the
rest); the provider's trade. The checkout route is `CreateTopup`,
`ClaimCheckout` or `RefuseCheckout`, `OpenCheckout`, `AttachCheckout`,
`MarkReconciliationRequired`. The worker, members and Qixiang callbacks run
`ClaimReconciliation`, `QueryConfirms` or `QueryFails`, `CheckTopupEvent`,
`PostTopupEvent`, `HandleRejection`, `Release`; an Alipay callback enters at
`ReceiveAlipay` and takes no lease. `Restart` loses every handler.

Abstractions: time is the three comparisons the code makes (a PROCESSING row is
120 s old, the next query is due, a lease is 120 s old); the attempt counter
stops at `EscalateAfter`, 12 in the code, because only reaching it matters; a
refund is its last update. A query that the budget of the Qixiang executor
defers is a rejected query.

`TopupPromise` is what a customer is promised: paid once, credited once after
that, closed only when credited.

### HostingReservation

One listing, one device, one buyer's wallet. A contract is named by the
idempotency key that creates it. A request of POST `/api/v2/contracts` walks
through `BeginReserve`, `PostReserve`, `ReadContract`, `ReadHold`, `PostHold`,
`ReadMark`, `PostMark`, `ConfirmMark`, and on an error through
`CompensateRelease`, `ReadUndo`, `PostUndo`; a cancellation through
`BeginCancel`, `PostCancel`, `CancelRelease`. A step between two of these may be
any other request's. `Crash` ends any request between any two steps. Every lease
costs one unit; the amounts are in `HostingBilling`.

### HostAgent, HostingDelivery, HostingEscrow

`HostAgent` is the machine: the agent's command in hand (`agent`), the
manifest and container of one workload (`host`), reports under way (`reports`).
An operation is `BeginWork` (claim of the manifest) and `FinishWork` or
`FailWork`, with a crash possible between; the actuator is a process of its own
and goes on when the agent has given up. `HostingDelivery` extends it with the
platform: one contract from PROVISION to CLEANED or REFUNDED, the commands in
order of creation, the delivery failure, the failed STOPs with their recoveries,
the dispute's proposal. `pollCommand` is `PollCommand`; `completeCommand` is
`Provisioned`, `Started`, `Stopped`, `Cleaned`, `RecordFailure`, `RejectReport`;
the recovery steps the poll runs first are `PollStep`.

Abstractions and assumptions on time:

- Start and stop requests go from their reads to their batch faster than the
  machine fetches and executes a command (guard of `PollCommand`); they still
  interleave with each other and with everything else.
- A heartbeat is one step.
- A request the agent gave up before the actuator took it up is dropped.
- Ten-minute freshness of observations is the flag `stale`; whether the watchdog
  stopped the workload before or after the platform's deadline is the choice of
  `late`.
- Amounts are one unit, held, settled or released as a whole.
- What interferes besides the handlers (administrators, network outages,
  disputes, emergency retirement, heartbeats, unlisting) is the set `occasion`,
  chosen with the first state from the constant `Occasions`.

`HostingEscrow` is what buyer and supplier are promised: the purse is held,
then settled after metering or released while no service is running, and the
listing is for sale only after that. Two START requests that both find the queue
empty leave two START commands (`StartedTwice`); the refusal of one of them is
taken for a failure of the service that runs. The escrow has a step for that,
`Repeat`, taken once: from then on, and only then, the purse may be released
although the service is running, and the service metered although the purse was
released. It is still opened once.

### CardHourWallet

One organization's wallet and every operation that moves it. A batch repeats
every test of the reads before it except one: `beginTopupRefund` looks for an
earlier hold before its batch only, so `ReadRefund` and `ClaimRefund` are two
actions; a claim that turns 120 s old (`ClaimAges`) may be taken over. The
code's executor reports only MANUAL_REQUIRED today; the run checks the whole
contract of `finishTopupRefund`, with FAILED and SUCCEEDED too. The version of
a refund is left out: it is PENDING only at version 1.

### HostingBilling

Amounts in micros. `CardHours`, `Measured`, `Share`, `IsTier` are the functions
of `lib/hosting-v2.ts`; `settleAcceptedContract` is `ReadContract`,
`SettleHostingOrder` or `ReplaySettlement`, `MarkContractSettled`; `Abort` is an
error or a stopped process between them. The reservation is one step here, its
interleavings are in `HostingReservation`; statuses from CARD_HOURS_HELD to
IN_SERVICE are HELD; the acceptance window is always possibly open; an offer's
price does not change (the contract keeps a snapshot).

### HostingDevices

The store's side of a machine's life. Where a handler uses what it read after a
batch of somebody else's could have changed it, the read leaves it in `req`
(`ReadReview`, `ReadRegister`, `ReadHeartbeat`, `ReadCleanup`, `ReadCreateOffer`,
`ReadOfferStatus`, `ReadReserve`) and the batch is the action with `Post`; every
other handler repeats its tests and is one action. Time limits (a challenge's
end, the freshness of a verification) are choices. A contract has the statuses
that decide about its machine; a proof's contents and signatures are left out,
`CompleteVerify` may find it good or bad.

### AccountAccess

Memberships with their status, roles and management row; the ROOT membership;
sessions; mailed codes. A login with a password is `ResolvePassword`, `Activate`,
`CreateSession`; one with a code `ReadCode`, `Consume`, `Resolve`,
`CreateSession`; a request of a session `ReadSession`, `Touch`; the switch of
organisation goes on with `ReadSwitch`, `WriteSwitch`, `RevokeOld`. Administration
is `ReadInvite`, `Invite`, `ReadStatus`, `UpdateStatus`, `ReadRoles`,
`AssignRoles`. What a request read is in `visit`; `fresh` says that the
management row it will write over is still at the version it read.

Abstractions: the ends of a session by time are `Expire`; before somebody is
invited a mailed code leads to a membership of his own (`HomeOf`); the limits of
attempts and of codes an hour are left out, and so are members of the KAI
identity provider, whose memberships nothing suspends. Accounts and
organisations stay ACTIVE: no code suspends either.

### ExchangePromise, ExchangeCapacity, ExchangeSupply, ExchangeOrders, ExchangeDelivery

The exchange has one store interface over two databases. In
`exchange-store-sqlite.ts` a handler is one synchronous transaction: one action.
In `exchange-store-d1.ts` it is reads, with the clock they were made at, and a
batch whose statements repeat most of the tests against that same clock; the
variable `store` (`database` in `ExchangeDelivery`) says which one the behaviour
runs on. `ExchangeCapacity` has
the two ways of summing units over overlapping windows: `Fits` for
`maximumConcurrentRateUnits`, `FitsD1` for the SQL of D1.

`ExchangeSupply`: one resource, its verification runs, lots, listings,
withdrawals, and one swap quote. `ExchangeOrders`: the orders on one listed lot
up to payment. `SqliteCheckout`, `SqliteConfirm`, `SqlitePayment`, `SqliteExpire`
against `D1ReadOffer`, `D1PostSweep`, `D1DrawUp`, `D1PostCheckout`,
`D1ReadConfirm`, `D1PostConfirm`, `D1ReadEvent`, `D1ReadIntent`, `D1ReadOrder`,
`D1ReadSource`, `D1PostCapture`, `D1ExplainRefusal`, `D1RereadIntent`,
`D1RereadOrder`, `D1Record`: the event, the payment intent and the order are
read one after the other, and another request may capture between any two of
them. `ExchangeDelivery`: one paid
order from provisioning to settlement, its commands as records that are allowed
(`Allowed`) and performed (`Perform`), at once or in two steps.

`ExchangePromise` is the abstract order book: no hour of the lot is promised to
more buyers than it has units for; an order is held, confirmed, paid by one
transaction of its own, or released for good.

### SupplyPayments and SupplyTrials

`SupplyPayments` has the rows of trial orders of one node and what changes
money: `CreateOrder`, the Alipay callback (`Notify`, then the batch of
`applyTrialPaymentEvent`, `Post`, which compares the version of the payment
only), the card-hour settlement (`ReadFacts`, `Settle`) and, as pure operators,
`classifySupplyPayment` and the repair it leads to (`Classify`, `Recover`).
Orders that a former release debited and never captured are initial states
(`HalfCaptured`). `SupplyTrials` extends it with the five delivery routes, each
a read, a call to the SSH provisioner and one batch per row, and with refunds:
`RequestRefund`, `DecideRefund`, `ClaimRefund`, `ReadForRefund`, `CallAlipay`,
`ReadForEvent`, `RecordRefund`, `FinishRefund`. `Stop` ends a request anywhere.

Assumptions on what is not in the repository: the provisioner refuses a command
that would bring a node back to an earlier state (`TellNode`); Alipay makes a
refund once per request id and never beyond what was paid (`CallAlipay`).

### SupplyIntake and MarketDemands

`SupplyIntake`: one supplier's pools and nodes. A handler whose batch repeats
its tests is one action; a decision on a verification job and the declaration of
free hours are two (`ReadForDecision`, `Decide` or `CompleteVerification`;
`ReadForWindows`, `BatchAvailability`). Amounts of the promotion policy are the
constants `MaxHours` and `MaxStretch`.

`MarketDemands`: demands, staged demands and their papers (the ownership, the
delivery and the snapshot, which the route writes by one transaction each),
quotes, the curated demand with its weekly revision, and the maintenance every
request runs first when it is due. Time is counted in weeks. `Retention` is at
least 2, as 30 days are more than four weeks: with 1 a pruned and reinserted row
would repeat its version numbers.

### ManualOrders and ManualAppeals

`ManualOrders`: a catalog purchase delivered by people: the delivery
(`handover`), the order (`trade`), its deposit, the buyer's wallet. Each write
compares the version of the row it is about; what is read of other rows is read
before (`ReadOffer`, `ReadReady`, `ReadConnect`, `ReadAccept`, `ReadConfirm`).
The order flow is switched on (`KAI_MANUAL_ORDER_FLOW_V1`): without it no route
offers an order. The fee is that of the STARTER tier.

`ManualAppeals`: the cases about a purchase and their refunds outside the
platform; `counter` has what an administrator saw (`saw`) and means to write.

### TopupAppeals and QueryBudget

`TopupAppeals`: the one appeal of a top-up order, its journal of events and the
version the buyer has been shown. `QueryBudget`: the queue of one credential;
times are ages, time passes only when the event loop is idle, and a query that is
aborted at its deadline counts as over. Of the starts the process keeps only how
many are younger than a window matters, so they are so many of each age.

### Composition for checking

Several modules share no row with one another. `MCMarketEntry`, `MCBackOffice`
and `MCHostingDevices` put them side by side: the variable `desk`, chosen with
the first state, says which of them moves, and the properties speak of that one.
A run then checks each of them alone, in one state graph.

## Runs and bounds

Every constant of a run is in its `.cfg`. Distinct states in brackets.

| Run | Instance | Shows |
|---|---|---|
| `topup_race` (122 000) | one Qixiang order, two checkouts, worker, member, callback; one Alipay order, two callbacks; escalation at 2; with the worker's fairness | types, credit exactly once, acknowledgement only when settled, one checkout, nothing is taken back; the abstract promise; a paid order is eventually credited |
| `reservation` (765 000) | two keys on two slots, money for one lease; any slot any key and one cancellation, or each slot its own key and nobody cancels | wallet agrees with holds, released is final, retired stays unlisted; orderly buyers never both get the listing |
| `reservation_oversold` | as `reservation` | a violation, see below |
| `delivery` (941 000) | two start requests, one stop, two automated stops; two faults with administrators retrying, of which the second request may be one; or one fault with everybody interfering, outages included; or both requests with disputes and a retirement | money follows service, nothing is left behind, the escrow, finished contracts do not move but for a second START |
| `delivery_live` (10 000) | one start, one fault, silent buyer, nobody interferes | started services are settled, failed deliveries refunded |
| `back_office` (509 000) | two top-ups, a grant, a sale, a hosting order, two administrators, two executors, three claims per refund; two manual purchases, two suppliers, two requests; a purchase with two cases; one top-up appeal; three callers of a queue of two | every card-hour explained; refunds decided by two, paid once, proved by a transfer of their own; orders in step with their deliveries; cases in order; the query budget kept across restarts |
| `billing_race` (290 000) | a contract of 10007 micros an hour and one of 1 micro, two callers, two tiers | settleable, money conserved and recorded, tier volume |
| `exchange_race` (1 980 000) | two orders in overlapping windows of a lot of two units, two D1 requests, two events, two transactions, a clock of 3 | books agree, the abstract promise |
| `exchange_delivery` (904 000) | one order of four hours, two D1 requests, three packages, credentials that end before, in and after the service | task and packages in step, paid as earned |
| `market_entry` (493 000) | three lots in three windows of a resource of two units, two withdrawal keys, two verifications, one quote, two D1 requests; a plain and a catalog demand, two quotes, four weeks; two nodes, two jobs, at most two windows | lots fit; demands complete and quotes current; promotions sound; what has ended stays ended |
| `devices_retirement` (601 000) | two devices, two challenges, one listing, one contract, two handlers, both capability modes; two configured administrators or one invited, two sessions, two requests | the quota of a supply offer, retirement is final; suspension ends access, ROOT stays, a code lets in once, a suspension lasts |
| `supply_trials` (433 000) | two buyers whose hours overlap, one by Alipay and one perhaps half paid, two refund cases, two administrators, two requests | the node is exclusive, refunds are sound, paid once or repairable |

Why the bounds are enough. Two concurrent callers of each kind give every pair
of interleaved handlers, and each hazard listed is between two. Two faults cover
a failure during the recovery from a failure; with every human event enabled one
fault keeps the run within minutes (`FaultsFit`). A second start request counts as
a fault, and is looked at where administrators retry and where partners dispute
and retire. `MaxCommands` 5 holds PROVISION, START, STOP, CLEANUP, and one repeated
STOP or a second START. The two start requests are interchangeable, and the run
takes them so (`SYMMETRY`): it checks no liveness. `MaxClaims` 3 is a claim,
its takeover, and a takeover of that. The prices of `billing_race` are chosen at
the roundings: one ends a micro above at three minutes, and of the other every
share is zero. The clock of `exchange_race` reaches the end of every hold, of
the listing and of the first service; that of `exchange_delivery` passes the end
of the service. In `devices_retirement` `MaxProfile` 3 is a review after an
approval, `MaxOffer` 2 a listing that is published, and four commands are a
verification, a provisioning, a cleanup and its repetition. In `back_office` a
window of five ticks with a deadline of three and three starts has room for a
refusal by each of the limits, and a restart between any two of them; a quote of
20000 micros and uses of 1 and 20000 are below and above the least amount a
supplier can be paid for.

Six runs have a CONSTRAINT.

- `topup_race`, `FewAreBusy`: the two channels share no row, no caller and no
  claim, their steps commute, and every property speaks of one order at a time,
  so each channel is looked at with the other at rest; and a member queries
  while no callback runs and one checkout request at most does. No bound stops
  the worker, the only fair actor, so the liveness property loses no behaviour
  in which it would have to act.
- `delivery`, `FaultsFit`: see above; and an outage is looked at where everybody
  interferes.
- `supply_trials`, `Fits`: the buyer who may pay by Alipay orders first, unless
  the other is half paid from before; refunds are asked for of one order, two at
  a time before the delivery begins and one, claimed once, after.

- `market_entry`: quotes of the curated demand are drawn up while no other demand
  is there (`Apart`), jobs begin when the nodes are complete (`Prompt`), at most
  two windows are declared (`Few`).
- `back_office`: requests in flight about manual orders are about one purchase
  (`OnePurchase`), as the other shares the wallet only; the second case of a
  purchase is not about a refund (`FirstRefund`).
- `devices_retirement`, `OneKind`: invited administrators and those of the
  configuration do not come together; they share ROOT's rows only.

`MCHostingReservation` chooses with the first state which keys a request slot
may carry (`keysOf`), so that one run has the clients that retry on any slot and
those that keep to their own.

Symmetry is used only in runs without liveness, over values the modules do not
tell apart. `CHECK_DEADLOCK FALSE` is given where a finished contract, wallet,
order or revoked device leaves nothing to do.

## Fairness

`topup_race`: a timer in `deploy/reconciliation` calls the worker every minute
for as long as the service is deployed, and the worker visits due orders; a step
of the worker that keeps becoming possible is therefore taken (strong fairness of claim, check and post;
weak of the steps nothing else disables). A paid trade asked about for ever is
not refused for ever. Checkouts, members, callbacks and customers are not fair.

`delivery_live`: `host-agent/src/cli.mjs` loops for ever: heartbeat, execute the
command in hand, poll every 30 s. Each poll route runs
`advanceExpiredHostingContract`, the refund and cleanup of a failed delivery and
the recovery of a failed STOP, each with its own error handling, and then
`pollCommand`. So the poll's steps are strongly fair, the machine's work weakly
fair, clocks pass. Buyer, administrators and faults are not fair.

## Proofs

`*Proofs.tla` extend their modules; `tlapm` proves every obligation. A theorem
holds for every number of orders, keys, requests, contracts, callers, prices and
tiers that the named assumptions of the module allow. The assumptions say that
constants are numbers of the right sign, that names of different things differ,
and, where rows are summed or counted, that the sets of rows are finite. Two
say more and are named below: `OrderlyClients` speaks of what clients do,
`HalfPaidAssumption` of the rows a behaviour may begin with.

Each proof has the same shape: an inductive invariant that is a conjunction of
named parts, one lemma per action (or per part and action), `Init` implies it,
every step keeps it, it implies what the run checks. What the invariants add to
the properties is, nearly always, what a handler under way may still rely on of
the rows it read.

**PaymentProofs**, of `TopupReconciliation` and of `SupplyTrials`. `TypeCorrect`, `CreditedOnce`,
`AcknowledgedIsSettled`, `CheckoutOpenedOnce`, `TakesNothingBack`,
`TopupsImplementPromise`. The invariant is `CreditInv`: the wallet was credited
once exactly when the ledger batch exists, a captured row or event has its batch,
and a batch has a paid trade (`PostedOnce`); and a handler that holds a confirmed
event holds one the provider's trade bears out (`HandlersKnowTheTrade`); the
latter is what survives the gap between query and batch. `TopupsSettleOnce` is
the two as the run checks them (`PaidOnceAndSettled`). One checkout follows from
`CheckoutOwned`: at most one request is past the claim of a PROCESSING row.
`TakesNothingBack` is the action property: no step takes a fresh lease from its
holder or an order from what it has reached.

`NodeStaysExclusive`, `TrialRefundsStaySound` and `PaidOnce` are the three
properties of `supply_trials`, and all follow from one invariant, `Trialled`
(`TrialsStayRight`). Its parts, per order: which order, hours, delivery and receipts
go together (`Placed`); the node is where the delivery is, or one step ahead of
it, which is what a route that died has left (`Hosted`); it was paid in one of the
ways there are, or not at all (`Bought`); it has one event of a type, and a refund
on record was made (`Kept`). Per request: what it read is still so, or was
overtaken by a version its batch compares, because statuses only go forward
(`Carried`); in particular the executor of a refund carries what was approved, and
a callback whose view of the events is complete has a fresh view. Per refund and
between refunds: `Asked`, `Approved`. For the node: `Sold`, with the hours sold as a
sum over the orders that count. `HalfPaidAssumption` says of the orders an older
release left that they had passed the tests of `createTrialOrder`: they do not
overlap and fit the promotion. The batch of a payment event is dealt with once
(`PostCases`, `PostServes`, `RefundedWith`), for the callback and for the executor;
`RepairIsRight` is the recovery, by its classification.

**HostingReservationProofs.** `TypeCorrect`, `WalletAccounted`,
`RetiredIsOffTheMarket`, `ReleasedForGood` hold of every behaviour. A hold moves
with the wallet in one batch and is taken only where none was; cardinality of
the held keys steps with it. `OrderlyBuyersShareNothing` and
`OrderlyDeliveryIsNotForSale` assume `Orderly` (each buyer uses own keys on one
slot, nobody cancels): `OrderlyInv` says that only the slot of a key knows of
its contract, that the listing is neither PUBLISHED nor PAUSED while a contract
lives, and what each request knows about hold, receipt and contract at each of
its steps (`Known`). Without the assumption they are false: see
`reservation_oversold`. `OrderlySales` is the same as the run checks it: the
first state chooses the slots' keys, and where they are orderly they stay so.

**HostingDeliveryProofs.** All four hold of every behaviour, with any number of
start and stop requests. `TypeCorrect`. `MachineIsLookedAfter`: a contract is
closed and its listing for sale only when the machine is clean; a failed STOP
that counts as being retried has its command under way. `MoneyIsSound`: no
payment while the container still runs, and no full refund for a service on
record, unless two START commands were queued. `EscrowIsKept`: the refinement to
`HostingEscrow`, in which a second START command is a step of its own, and that
nothing moves the card-hours of a contract that is over, and nothing the contract
but the answer to such a command. With two of them the code refunds a running
service, see [disagreements](#disagreements).
`OnCourse` has these parts. `Typed`. `Evidence`: a stop or cleanup that is on
record, or in a report under way, did happen on the machine. `Books`: what
contract, instance, hold and meter owe one another whatever has been queued; a
purse that is settled was metered, and a service on record that runs was not.
And as long as no second START is in the queue, `Phase`, which of twelve
combinations of contract, instance, hold, failure and proposal there are, and
`InOrder`, at which status of the contract a command of each type may still be
unfinished, that no two of a type are, and what a stop request that has read
still finds. Without `Evidence` a late report could settle a service that still
runs; without `InOrder` a late report of an old command could move the contract
of a new phase; `Books` is what is left of the two once a second START has been
queued, which is never undone.

**MarketProofs**, of `HostingBilling` and of `MCMarketEntry`. `MeteredIsSettleable`,
`MoneyIsConserved`, `RecordsMatchPayments`, `VolumeStaysSettled`. The lemmas `PricesGrow`, `SharesFit`,
`ReferralFits`, `MeasuredFits` are about the arithmetic: the rounded-up price is
monotone, so a price for fewer seconds fits the hold; a fee of at most one
hundredth leaves the supplier an income of at least one micro; the reward of a
tier is at most its fee. `IInv` adds that a contract's stored amounts are the
prices of its stored seconds and that the hold is open exactly as its status
says. `MoneyAndRecordsAgree` joins two of them as the run checks them
(`PaidAndRecorded`); `MeteredIsSettleable` is `AlwaysSettleable`. For the volume,
`Volumes` adds that the hold's status follows the contract's, that a contract's
tier was earned by a volume that never shrinks below it, and that what a buyer
has held is the sum over his open holds.

`LotsStaySound`, `DemandsStaySound`, `MachinesStaySound` and `EntryEndsStayFinal` are
what `market_entry` checks. They follow from three invariants, one for each of
the three that share no row, and each holds whichever moves.

- `LotsInv`: a lot that is READY was never touched, and every lot names a run
  (`Touched`). `StartsSuffice` is the arithmetic: what fits at the start of a
  window and at each start inside it fits in every hour, because of the lots that
  are busy in an hour the last to start was busy at its own start together with
  all the others. `QuotesStayOver` is the swap quote.
- `DemandInv`: an id is given out once, the public row of the curated demand has
  the week of the last upsert as its revision, and an offer nobody superseded is
  of the revision of its row (`RowsAreSound`, `OneEach`, `PapersName`,
  `OffersStand`). A visit that carries a demand carries the key of its rows and
  the papers filed so far; one that draws up a quote carries a version, and while
  the row is at that version it is at the revision that was read (`OnPaper`,
  `OnQuote`). For the curated row, which may be pruned and inserted at version 1
  again, this needs that a visit is at most a week old and that `Retention` is at
  least 2: then the row that was read cannot have been pruned yet.
- `IntakeInv`: what a call carries is of a job there is, or hours that do not
  clash with one another (`InTurn`); nodes, agents and jobs are of pools and nodes
  that are there (`Registered`). Why hours and stretch stay within the policy is
  `FewerHours` and `ShorterStretch`: a sale that is suspended only takes away.

**ExchangeProofs.** `BooksAlwaysAgree`: ledger, reservation, intent and
events of every order agree, on either database; a late capture is on an order
that is over, or on D1 on one that was paid meanwhile. `Kept` is that of rows and
receipts, and of each D1 request: what it read either still holds or what changed
since is something its batch tests (`Persists`). `OrdersKeepPromise` is the
refinement to `ExchangePromise`, the capacity included. `Capacity` counts the
living orders: confirmed, committed, or held with time left, or held with an
answer under way that was read in time. The last is needed because D1 confirms at
the clock it read, so an order may come back to life for the others. A checkout
that counts at its old clock misses none of them but those it is about to expire
(`Swept`). `StartsAreEnough`: units that fit at the start of the window and at
each start inside it fit in every hour, which is why either way of summing keeps
the lot from being oversold.

`DeliveriesStayInStep` and `PaymentsStayEarned` are about `ExchangeDelivery`, for
any window, price, number of packages and credentials. `Serving` is their
invariant. `Packaged`: only the last package is alive, and what was verified or
claimed passed its review; `Metering`: meter, acceptance and settlement are where
the task is; `Booked`: what is paid of the price, and that the ledger is empty or
exactly the entries of the settlement; `Calling`: what a request carries to its
batch names a package that exists and a time that has been. Nothing about the
version is needed: a batch repeats its tests at the old clock, and that alone
keeps a stale request from a package that moved on. `ShareOfService` is the
arithmetic: the payable amount, rounded down, is the largest the served part of
the window is worth, whatever the units.

**BackOfficeProofs.**

- `RefundsStayControlled`, of `Controlled`: two administrators are on the row from
  the decision on, money follows its status, and a request that saw the hold of a
  refund will find it.
- `WalletStaysExplained`, `WalletStaysSound`, of `Explained`: the four stored
  balances are sums over the rows of top-ups, grants, sales, orders and refunds;
  a hold of a refund is settled only when the refund is.
- `OrdersFollowDelivery`, `ManualOrdersStaySound`, of `Delivering` (an errand whose
  version is fresh still finds its row as it read it; what was handed over stays
  so) and of `Paying`, `Deal`, `Balanced` (order and deposit move together, and
  the buyer's accounts are sums of deposits).
- `CasesStaySound`, of `Worked` (a request of an officer that is fresh is still
  entitled; the cases before the last are closed) and `Questions` (the record of
  an appeal is at one of five places of one path, and a clerk carries a version).
- `OfficeEndsStayFinal`, the action property of both.
- `QueriesStayBounded`, of `Budgeted`: a process that is up for a window knows
  every start of the window, and one that is not has an empty line; the first of
  the line has waited longest, and what the running query has left is within what
  it has not waited. Starts that get older get fewer (`StartsGetOlder`).

**HostingDevicesProofs.** `DevicesStayWithinQuota` and `RetirementsAreFinal`, of
`InHand` and the rows: what a handler read of a listing, a contract or a command
is still so where its batch does not look again, or was overtaken by a version
that it compares; a contract has one open command, addressed to its machine; and
contracts are only on machines that host, so that a dispute that overwrites the
status of a revoked machine never frees quota. `AccessStaysSound` and
`SuspensionsLast`, of `Welcome`: a request carries the rows it is about, a session
in use belongs to a membership that may come in, only management suspends, and
every mailed code is with its address, with one request, or spent (which is
counted). The assumption on `Invited` says that ROOT and the other administrator
of the configuration are not invited.

**SumTheorems** has the sums over finite sets of rows the others need: a sum
changes by what one row changes by, is at least a part of it, and so on. The fold
of the community modules is a recursive function defined by CHOOSE. Induction
over finite sets is out of the prover's reach, so the existence of that function
is proved by the smallest counterexample: of a finite set of sets that are wrong
one has no smaller in it (`SmallestSubset`), and taking one element from it gives
a right one (`TableExists`). The sums of integers, of naturals and over a part
follow in the same way, and so does `StartsGetOlder`.

Only model-checked:

- Liveness under fairness (`PaidIsCredited`, `EscrowEnds`), which these provers
  cannot do.

## Disagreements

One run shows the code doing something its own text denies; it expects a
violation and is the finding of `PROJECT.json`: `reservation_oversold`
(`HS`:1576). `cancelContract` republishes a RESERVED listing even when it
cancelled nothing, so a listing can be sold twice.

The others were met while modelling. Where a property is named it is kept in its
module, with the constants that show it; no run holds it. `D1` is
`lib/server/exchange-store-d1.ts`, `SS` is `lib/server/supply-store-core.ts`.

Hosting.

- Two START requests read an empty queue and both queue a command; the machine
  refuses the second, and the refusal fails and refunds a contract in service
  (`HS`:1653, against `CS`:811). It takes no fault: `StartRequests` {s1, s2} and
  four commands are enough. `RefundedNeverServed`, which is part of
  `MoneyFollowsService`, says that this is the only way to it; without its last
  line, `StartedTwice`, the run `delivery` finds it violated.
- `CommissionIsPaid` with one contract, one caller, `MCRateOne`, `Rentals` {3600},
  `Deposit` 20020 (`CS`:630, against the golden check at `HS`:702): a replayed
  settlement looks the referrer up anew and records a commission nobody was paid.
- `NotRelistedAfterProvisioning` where any slot may carry any key: a
  cancellation that read CARD_HOURS_HELD before `attachSshKey` republishes the
  listing of a machine under preparation (`HS`:1581).
- `ProvisionedServiceIsHeld` where slots keep to their keys: the buyer attaches
  the SSH key between the batch of `markContractHeld` and the read that confirms
  it; the request takes PROVISIONING for a failure and its compensation releases
  the hold (`lib/server/hosting-contract-service.ts`:56, against
  `docs/KAI-Cloud-算力容量上架与存取流程方案-v1.0.md`:175).
- `CleanupIsPossible` with `MaxFaults` 1, no occasion, `MaxCommands` 4, two
  attempts: a PROVISION that was reported failed while the actuator was still
  creating leaves a manifest in CREATING, and the cleanup of the refunded
  contract is refused (`host-agent/src/actuator.mjs`:500, against
  `host-agent/README.md`:5).
- `RevokedStaysRevoked` with `MaxFaults` 0 and the occasions {DISPUTE, RETIRE}: a
  dispute takes a revoked device to DRAINING (`HS`:2095, against
  `tests/hosting-v2-device-retirement.test.mjs`:208).
- `ReadyCanBeStarted` with `MaxFaults` 0 and the occasion {HEARTBEAT}: OFFLINE
  forgets BUSY, the next heartbeat writes VERIFIED, and the start is refused
  (`HS`:1240).
- `ServedIsPaid` under `LiveSpec` with `MaxFaults` 2 and `MaxCommands` 7: the
  agent gives up on a STOP the actuator is executing, and the actuator stops
  before it records an error; the manifest stays STOPPING under the old command,
  every recovery is refused, and the service ends EXHAUSTED, unmetered
  (`host-agent/src/actuator.mjs`:399, against
  `tests/hosting-v2-instance-lifecycle.test.mjs`:229); and with the occasion
  {OUTAGE} and `MaxFaults` 1: a stop reported more than ten minutes late is
  refused on every replay (`HS`:158, against line 186 of that test).
- `LedgerExplainsWallet` with one top-up, one order and `Outcomes`
  {MANUAL_REQUIRED}: holds post no ledger batch and their settlements and
  refunds do, so the ledger's accounts drift from the wallet (`CS`:615, 665,
  749, 825, against `docs/KAI-CLOUD-卡时产品与账务决策-v0.1.md`:16).
- `CommissionNeedsEarlierReferral` with one contract, one caller, `MCRateOne`: a
  referral attached after the order earns on it (`CS`:641).
- `DeviceIsSoldOnce` in `HostingDevices`: nothing keeps two listings from naming
  one machine (`createOffer`, `HS`:1341, no UNIQUE on
  `hosting_v2_offers.device_id`), and both can be sold; against
  `docs/KAI-Cloud-算力租赁白皮书.md`:1004.
- `VerifyingIsAnswered`: a heartbeat that read VERIFYING writes it back after
  the verification was answered (`HS`:1240); no operation takes the machine out
  of it again.
- A cleanup that read a fresh verification relists a machine whose verification
  a heartbeat ended meanwhile (`HS`:1898); a registration that is slower than
  its challenge takes the place of one issued since (`HS`:1033); an emergency
  retirement fails the queued commands without a delivery failure, so its
  contract stays PROVISIONING and the retirement can never be finished
  (`HS`:1124).

Exchange.

- `ExpiredIsReadable` in `ExchangeDelivery`: once a service has begun and the
  credential of its package is over, every read of the order on D1 tries to
  expire the package and aborts (`D1`:786); SQLite marks it EXPIRED, which
  `tests/exchange-domain.test.mjs`:2787 expects.
- Of two stores that should answer alike: the sums of D1 refuse windows that fit
  (`FitsD1` against `Fits`), for checkouts and for lots; expiry of several
  reservations on D1 aborts if one of them was confirmed meanwhile; a resource
  can be verified again on SQLite and not on D1 (one event of a kind, `D1`:1146);
  a checkout that finds no room on D1 aborts at its guard, so that the answer
  CAPACITY_CONFLICT (`D1`:2203) is never given; a payment whose hold ran out
  between the two clocks of D1 leaves no row.
- A second payment of a captured order leaves no row on SQLite. On D1 it may
  leave LATE_CAPTURE_REVIEW on the order that was paid and is FULFILLING: the
  payment intent is read PENDING (`D1`:2459), another request captures, and the
  order, read after that (`D1`:2463), no longer waits for a payment (`D1`:2498,
  2503); or the same after a refused batch (`D1`:2651, 2656). One transaction may
  so be applied under one event and late under another.
- On both: no operation cancels or refunds a paid order that is never
  provisioned or started; listings of a resource that is rejected later go on
  selling.

Supply trials.

- A refund gives the hours back if the delivery had not begun when it was read,
  and its batch compares the version of the payment only (`SS`:903): the key may
  be installed, and the service started, in between. The order is REFUNDED and
  its allocation CANCELLED with the buyer on the node, against the message at
  `SS`:792 (a delivery that has begun must still be cleaned up). `NodeIsExclusive`
  leaves refunded orders out.
- A second partial refund can never be recorded: one transaction has one event
  of a type (`db/supply-schema.ts`:297), and both are REFUNDED_PARTIAL; Alipay
  has made it and the case fails for ever. After a lost answer another case may
  ask Alipay for more than is left; Alipay's own limit is what stops it.
- A TRADE_CLOSED callback that overtakes the record of the refund that closed
  the trade sets the payment to CLOSED, after which the refund cannot be recorded.
- A request that dies between its two batches (ssh-key, service-start,
  service-complete) leaves the order and its delivery in a pair of statuses no
  route accepts.
- An order nobody pays keeps its hours RESERVED, and its buyer can place no
  other; `recoverSupplyPayment` is called only by a script that works on a copy;
  `ensureTrialPayment` has no caller.

Supply intake.

- A verification that passes with an earlier `valid_until` than the one before
  leaves ACTIVE promotions that no verification covers; it marks components
  VERIFIED that were added after its evidence was read, and evidence can be added
  after the decision. `createTrialOrder` does not test the promotion again.
- A suspended promotion frees its hours of the 80-hour cap, and its windows stay
  PROMOTED for ever. A heartbeat takes a REJECTED node to ONLINE, and the
  declaration of free hours does not look at the node again (`SS`:570).

Manual orders and appeals. `AS` is `lib/server/admin-store-core.ts`.

- `DepositIsNotStranded`: no operation releases the deposit of a manual order.
  After CANCEL or REVOKE of the delivery, after a confirmation by the buyer that
  raced the offer (`AS`:572), or when the used amount rounds to a receivable of
  nothing (`AS`:227), the order can never be completed and the card-hours stay
  held.
- A supplier assigned in place of another cannot offer (`demand_id` is unique),
  and the order of the first goes on and is paid.
- `RefundIsStillRecommended`: reopening a review clears the recommendation and
  leaves the refund being handled. A second case about the same purchase may
  record a second refund of the same reference: the unique index is per case.
  Nothing in the application writes `admin_verified_financial_references`.
- `ClaimIsFiledForUncredited`: a top-up appeal may be filed for an order credited
  after it was read (`CS`:315). Acknowledging marks the current version as seen,
  whichever version the buyer was shown (`CS`:343).

Accounts.

- `AssignedRolesStay`: each login with a password writes the role of the
  configuration over the roles ROOT assigned, without a new version
  (`lib/server/account-auth-store.ts`:296).
- A crash between the two writes of a switch of organisation leaves both
  sessions. A renewal that is slow may set the idle limit back, or renew a session
  that had run out since it was read (`lib/server/account-auth.ts`:146).

## What is not modelled

- Of the modelled components: pairing codes, preflight and the contents of a
  verification; fee schedules with tiers of their own and their approval;
  validation of offers; referral codes of the exchange; who may call what. Of the
  marketplace: drafts, anonymous sessions, limits of writes, the migration of
  older schemas. Of supply: offers of suppliers (`createOffer`), which nothing
  reads. Of administration: work items, the audit log, the binding of entities to
  organisations. Of accounts: OIDC, limits of attempts, local development login,
  and the bootstrap claim, which nothing calls.
- Left out for good: payment adapters beyond what they deliver, request parsing
  and limits, read-only projections, scoring and catalogue maintenance, the
  market data pipeline, the user interface. They keep no concurrent state of
  the market, or none at all.
