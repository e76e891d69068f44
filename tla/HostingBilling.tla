--------------------------- MODULE HostingBilling ---------------------------
(* The amounts of a hosting contract: the price held at the reservation,   *)
(* the seconds the server accepts, the split of the settled price between  *)
(* supplier, referrer and platform at the fee tier of the supplier's       *)
(* lifetime volume, and the two transactions that write them, one in the   *)
(* card-hour store and one in the hosting store (hosting-v2.ts,            *)
(* hosting-contract-service.ts, card-hour-store-core.ts).                  *)
(*                                                                         *)
(* One buyer rents from one supplier. What happens to the machine is in    *)
(* HostingDelivery: a contract is HELD here from its hold to its metering. *)
(* One call of settleAcceptedContract reads the contract, settles in the   *)
(* card-hour store and marks in the hosting store; a caller is a BUYER who *)
(* accepts or the poll that finds the window over.                         *)
EXTENDS Integers, FiniteSets, FiniteSetsExt

CONSTANTS
    Contracts,
    Callers,          \* calls of settleAcceptedContract running at once
    Rate,             \* card-hour micros per GPU hour of each contract's offer
    Rentals,          \* seconds a buyer asks for, within the offer's range
    Runtimes,         \* seconds an agent reports, or the server's clock shows
    Deposit,          \* what the buyer has at first
    FeeSteps,         \* minimum volume and platform fee of each default tier
    ScheduleFee,      \* platform fee of the fee schedule, basis points
    ScheduleReferral, \* referral reward of the fee schedule, basis points
    None

MinSeconds == 180
HourSeconds == 3600
Bps == 10000

ASSUME BillingAssumption ==
    /\ IsFiniteSet(Contracts)
    /\ Rate \in [Contracts -> Nat \ {0}]
    /\ Rentals \subseteq {s \in Nat : s >= MinSeconds}
    /\ Runtimes \subseteq Nat
    /\ Deposit \in Nat
    /\ FeeSteps \subseteq [minimum : Nat, fee : 20 .. 100]
    /\ ScheduleFee \in Nat
    /\ ScheduleReferral \in 0 .. ScheduleFee
    /\ None \notin Contracts

VARIABLES
    contract, \* hosting_v2_contracts
    hold,     \* card_hour_order_holds
    volume,   \* hosting_v2_supplier_fee_volume_events, summed by contract
    accrual,  \* card_hour_income_accruals
    money,    \* card_hour_wallets and the platform's ledger accounts
    referred, \* the buyer's row of card_hour_referral_attributions exists
    call      \* calls of settleAcceptedContract

vars == <<contract, hold, volume, accrual, money, referred, call>>
books == <<hold, volume, accrual, money>>

-----------------------------------------------------------------------------
(* Prices, tiers and shares.                                               *)

CardHours(rate, seconds) == (rate * seconds + HourSeconds - 1) \div HourSeconds

DefaultReferral(fee) ==
    IF ScheduleFee = 0 THEN 0 ELSE (fee * ScheduleReferral) \div ScheduleFee

Share(gross, bps) == (gross * bps) \div Bps

Lifetime == MapThenSumSet(LAMBDA c : volume[c], Contracts)

(* Mutant: the best tier at every volume.                                  *)
IsBestTier(step) == \A other \in FeeSteps : other.minimum <= step.minimum

IsTier(step) ==
    /\ step.minimum <= Lifetime
    /\ \A other \in FeeSteps :
           other.minimum <= Lifetime => other.minimum <= step.minimum

Least(a, b) == IF a <= b THEN a ELSE b
AtLeast(a, b) == IF a >= b THEN a ELSE b

(* Mutant: the agent's clock is believed beyond the reservation.           *)
MeasuredUnbounded(reserved, wall, reported) == AtLeast(MinSeconds, Least(wall, reported))

Measured(reserved, wall, reported) ==
    AtLeast(MinSeconds, Least(reserved, Least(wall, reported)))

Gross(c) == CardHours(Rate[c], contract[c].measured)
Income(c) == Gross(c) - Share(Gross(c), contract[c].fee)
Commission(c) == IF referred THEN Share(Gross(c), contract[c].referral) ELSE 0

-----------------------------------------------------------------------------

NoContract == [status |-> "NONE", reserved |-> 0, held |-> 0, fee |-> 0, referral |-> 0,
               measured |-> 0, settled |-> 0, income |-> 0, commission |-> 0,
               referred |-> FALSE]
Idle == [at |-> "idle", contract |-> None, seen |-> "NONE", commission |-> 0]

Init ==
    /\ contract = [c \in Contracts |-> NoContract]
    /\ hold = [c \in Contracts |-> [status |-> "NONE", settled |-> 0, by |-> "NONE"]]
    /\ volume = [c \in Contracts |-> 0]
    /\ accrual = [c \in Contracts |-> [rental |-> 0, commission |-> 0]]
    /\ money = [available |-> Deposit, held |-> 0, supplier |-> 0, referrer |-> 0,
                clearing |-> 0, expense |-> 0]
    /\ referred = FALSE
    /\ call = [k \in Callers |-> Idle]

(* The buyer attaches a referral code, once, at any time.                  *)
AttachReferral ==
    /\ ~referred
    /\ referred' = TRUE
    /\ UNCHANGED <<contract, books, call>>

(* reserveHostingContract up to the confirmed hold; HostingReservation has *)
(* its steps. The tier is fixed in the contract's snapshot. `referred`     *)
(* remembers whether a referral was attached by then.                      *)
Reserve(c, seconds) ==
    LET price == CardHours(Rate[c], seconds)
    IN  /\ contract[c].status = "NONE"
        /\ money.available >= price
        /\ \E step \in FeeSteps :
               /\ IsTier(step)
               /\ contract' = [contract EXCEPT ![c] =
                      [status |-> "HELD", reserved |-> seconds, held |-> price,
                       fee |-> step.fee, referral |-> DefaultReferral(step.fee),
                       measured |-> 0, settled |-> 0, income |-> 0, commission |-> 0,
                       referred |-> referred]]
        /\ hold' = [hold EXCEPT ![c].status = "HELD"]
        /\ money' = [money EXCEPT !.available = @ - price, !.held = @ + price]
        /\ UNCHANGED <<volume, accrual, referred, call>>

(* cancelHostingContract before the delivery, or refundFailedHostingOrder. *)
ReleaseHold(c, status) ==
    /\ status \in {"CANCELLED", "REFUNDED"}
    /\ contract[c].status = "HELD"
    /\ hold[c].status = "HELD"
    /\ contract' = [contract EXCEPT ![c].status = status]
    /\ hold' = [hold EXCEPT ![c].status = "RELEASED"]
    /\ money' = [money EXCEPT !.available = @ + contract[c].held,
                              !.held = @ - contract[c].held]
    /\ UNCHANGED <<volume, accrual, referred, call>>

CompleteStop(c, wall, reported) ==
    /\ contract[c].status = "HELD"
    /\ contract' = [contract EXCEPT
           ![c].status = "AWAITING_ACCEPTANCE",
           ![c].measured = Measured(contract[c].reserved, wall, reported)]
    /\ UNCHANGED <<books, referred, call>>

DisputeContract(c) ==
    /\ contract[c].status = "AWAITING_ACCEPTANCE"
    /\ contract' = [contract EXCEPT ![c].status = "DISPUTED"]
    /\ UNCHANGED <<books, referred, call>>

-----------------------------------------------------------------------------
(* The entries of a settlement, by settleHostingOrder or a decided dispute.*)

Captured(c, by) ==
    /\ hold' = [hold EXCEPT ![c] = [status |-> "SETTLED", settled |-> Gross(c), by |-> by]]
    /\ volume' = [volume EXCEPT ![c] = @ + Gross(c)]
    /\ accrual' = [accrual EXCEPT ![c] = [rental |-> @.rental + Income(c),
                                          commission |-> @.commission + Commission(c)]]
    /\ money' = [available |-> money.available + contract[c].held - Gross(c),
                 held |-> money.held - contract[c].held,
                 supplier |-> money.supplier + Income(c),
                 referrer |-> money.referrer + Commission(c),
                 clearing |-> money.clearing + Gross(c) - Income(c),
                 expense |-> money.expense + Commission(c)]

(* settleAcceptedContract reads the contract; a contract that is CLEANING  *)
(* is a replay. CLEANED adds nothing to CLEANING and is not told apart.    *)
ReadContract(k, c) ==
    /\ call[k].at = "idle"
    /\ contract[c].status \in {"AWAITING_ACCEPTANCE", "SETTLED", "CLEANING"}
    /\ contract[c].measured >= MinSeconds
    /\ Gross(c) <= contract[c].held
    /\ call' = [call EXCEPT ![k] = [at |-> "read", contract |-> c,
                                    seen |-> contract[c].status, commission |-> 0]]
    /\ UNCHANGED <<contract, books, referred>>

(* Mutant: the batch does not ask again whether the hold is open.          *)
SettleUnguarded(k) ==
    LET c == call[k].contract
    IN  /\ call[k].at = "read"
        /\ call[k].seen = "AWAITING_ACCEPTANCE"
        /\ hold[c].status \in {"HELD", "SETTLED"}
        /\ Captured(c, "acceptance")
        /\ contract' = [contract EXCEPT ![c].status = "SETTLED"]
        /\ call' = [call EXCEPT ![k].at = "settled", ![k].commission = Commission(c)]
        /\ UNCHANGED referred

(* The batch of settleHostingOrder. A referral attached between its read   *)
(* and its batch is one attached after it.                                 *)
SettleHostingOrder(k) ==
    LET c == call[k].contract
    IN  /\ call[k].at = "read"
        /\ hold[c].status = "HELD"
        /\ contract[c].status = "AWAITING_ACCEPTANCE"
        /\ Captured(c, "acceptance")
        /\ contract' = [contract EXCEPT ![c].status = "SETTLED"]
        /\ call' = [call EXCEPT ![k].at = "settled", ![k].commission = Commission(c)]
        /\ UNCHANGED referred

(* The hold is settled already: the recorded result is returned, and the   *)
(* referral is looked up anew. A hold that a dispute settled has another   *)
(* payload hash and ends the call (Abort).                                 *)
ReplaySettlement(k) ==
    LET c == call[k].contract
    IN  /\ call[k].at = "read"
        /\ hold[c].status = "SETTLED"
        /\ hold[c].by = "acceptance"
        /\ hold[c].settled = Gross(c)
        /\ call' = [call EXCEPT ![k].at = "settled", ![k].commission = Commission(c)]
        /\ UNCHANGED <<contract, books, referred>>

(* The caller records what it computed and queues the cleanup.             *)
MarkContractSettled(k) ==
    LET c == call[k].contract
    IN  /\ call[k].at = "settled"
        /\ call[k].seen # "CLEANING"
        /\ contract[c].status = "SETTLED"
        /\ contract' = [contract EXCEPT ![c].status = "CLEANING",
                                        ![c].settled = Gross(c),
                                        ![c].income = Income(c),
                                        ![c].commission = call[k].commission]
        /\ call' = [call EXCEPT ![k] = Idle]
        /\ UNCHANGED <<books, referred>>

(* The call answers, throws, or its process stops.                         *)
Abort(k) ==
    /\ call[k].at # "idle"
    /\ call' = [call EXCEPT ![k] = Idle]
    /\ UNCHANGED <<contract, books, referred>>

-----------------------------------------------------------------------------
(* An approved dispute: resolveHostingDispute and queueDisputeCleanup.     *)

RefundDispute(c) ==
    /\ contract[c].status = "DISPUTED"
    /\ hold[c].status = "HELD"
    /\ contract' = [contract EXCEPT ![c].status = "REFUNDED"]
    /\ hold' = [hold EXCEPT ![c].status = "RELEASED", ![c].by = "dispute"]
    /\ volume' = [volume EXCEPT ![c] = 0]
    /\ money' = [money EXCEPT !.available = @ + contract[c].held,
                              !.held = @ - contract[c].held]
    /\ UNCHANGED <<accrual, referred, call>>

SettleDispute(c) ==
    /\ contract[c].status = "DISPUTED"
    /\ hold[c].status = "HELD"
    /\ Gross(c) \in 1 .. contract[c].held
    /\ Captured(c, "dispute")
    /\ contract' = [contract EXCEPT ![c].status = "SETTLED", ![c].settled = Gross(c),
                                    ![c].income = Income(c),
                                    ![c].commission = Commission(c)]
    /\ UNCHANGED <<referred, call>>

QueueDisputeCleanup(c) ==
    /\ contract[c].status \in {"SETTLED", "REFUNDED"}
    /\ hold[c].by = "dispute"
    /\ contract' = [contract EXCEPT ![c].status = "CLEANING"]
    /\ UNCHANGED <<books, referred, call>>

-----------------------------------------------------------------------------

Settlement(k) ==
    \/ \E c \in Contracts : ReadContract(k, c)
    \/ SettleHostingOrder(k) \/ ReplaySettlement(k)
    \/ MarkContractSettled(k) \/ Abort(k)

Order(c) ==
    \/ \E seconds \in Rentals : Reserve(c, seconds)
    \/ \E status \in {"CANCELLED", "REFUNDED"} : ReleaseHold(c, status)
    \/ \E wall, reported \in Runtimes : CompleteStop(c, wall, reported)
    \/ DisputeContract(c) \/ RefundDispute(c) \/ SettleDispute(c) \/ QueueDisputeCleanup(c)

Next ==
    \/ AttachReferral
    \/ \E c \in Contracts : Order(c)
    \/ \E k \in Callers : Settlement(k)

Spec == Init /\ [][Next]_vars

-----------------------------------------------------------------------------

Statuses == {"NONE", "HELD", "CANCELLED", "AWAITING_ACCEPTANCE", "DISPUTED", "SETTLED",
             "CLEANING", "REFUNDED"}

(* The types. No amount of money is ever negative (the CHECKs of           *)
(* card_hour_wallets).                                                     *)
TypeOK ==
    /\ contract \in [Contracts -> [status : Statuses, reserved : Nat, held : Nat, fee : Nat,
                                   referral : Nat, measured : Nat, settled : Nat,
                                   income : Nat, commission : Nat, referred : BOOLEAN]]
    /\ hold \in [Contracts -> [status : {"NONE", "HELD", "SETTLED", "RELEASED"},
                               settled : Nat, by : {"NONE", "acceptance", "dispute"}]]
    /\ volume \in [Contracts -> Nat]
    /\ accrual \in [Contracts -> [rental : Nat, commission : Nat]]
    /\ money \in [available : Nat, held : Nat, supplier : Nat, referrer : Nat,
                  clearing : Nat, expense : Nat]
    /\ referred \in BOOLEAN
    /\ call \in [Callers -> [at : {"idle", "read", "settled"},
                             contract : Contracts \cup {None}, seen : Statuses,
                             commission : Nat]]

(* A metered service can always be settled: its price is at least one      *)
(* micro, fits the hold whatever the agent's clock says, and leaves the    *)
(* supplier an income after the fee, so that no check of settleHostingOrder*)
(* or settleAcceptedContract can refuse it for good.                       *)
Metered == {c \in Contracts : contract[c].measured > 0}

AlwaysSettleable ==
    \A c \in Metered :
        /\ contract[c].measured \in MinSeconds .. contract[c].reserved
        /\ Gross(c) \in 1 .. contract[c].held
        /\ Income(c) \in 1 .. Gross(c)

(* What the buyer deposited is with the buyer, the supplier or in the      *)
(* platform's clearing account, and the commission is paid out of the      *)
(* platform's fee: concurrent and repeated settlements and disputes make   *)
(* and lose nothing, and no tier pays a referrer more than the platform    *)
(* earns.                                                                  *)
MoneyConserved ==
    /\ money.available + money.held + money.supplier + money.clearing = Deposit
    /\ money.referrer = money.expense
    /\ money.expense <= money.clearing

(* What the hosting store records of a contract under clearing is what the *)
(* card-hour store paid for it, once: price and rent, the latter after one *)
(* deduction of the fee.                                                   *)
RecordedIsPaid ==
    \A c \in Contracts :
        contract[c].status = "CLEANING" =>
            /\ contract[c].settled = hold[c].settled
            /\ contract[c].income = accrual[c].rental
            /\ accrual[c].rental + Share(hold[c].settled, contract[c].fee) = hold[c].settled

(* Both together: no money is made or lost, and the records of the stores  *)
(* agree on what was paid.                                                 *)
PaidAndRecorded == MoneyConserved /\ RecordedIsPaid

(* The volume that picks the supplier's next tier is the sum of what was   *)
(* settled and stayed settled, and it is never lower than the volume of    *)
(* any contract's tier that is still running on it: a cancelled, failed or *)
(* refunded contract buys no better tier. All of it is well typed.         *)
VolumeIsSettled ==
    /\ TypeOK
    /\ \A c \in Contracts :
           volume[c] = IF hold[c].status = "SETTLED" THEN hold[c].settled ELSE 0
    /\ \A c \in Contracts : hold[c].status # "NONE" =>
           \E step \in FeeSteps : step.fee = contract[c].fee /\ step.minimum <= Lifetime

(* The commission a contract records is the one that was paid. The golden  *)
(* check "earnings" of the hosting store demands it.                       *)
(* The code does not keep this one: see "Disagreements" in the README.     *)
CommissionIsPaid ==
    \A c \in Contracts :
        contract[c].status = "CLEANING" => contract[c].commission = accrual[c].commission

(* Only a referral attached before the order earns a commission on it, as  *)
(* the documents on referrals say.                                         *)
(* The code does not keep this one: see "Disagreements" in the README.     *)
CommissionNeedsEarlierReferral ==
    \A c \in Contracts : accrual[c].commission > 0 => contract[c].referred
=============================================================================
