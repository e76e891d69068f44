---------------------------- MODULE MarketProofs ----------------------------
(* Proofs about HostingBilling, for any prices, fee schedules, tiers,      *)
(* clocks and any number of contracts and calls; and about what comes to   *)
(* the market (MCMarketEntry): lots, demands and machines, for any         *)
(* windows, limits, demands, pools and any number of visits and calls.     *)
EXTENDS HostingBilling, MCMarketEntry, SumTheorems, FiniteSetTheorems, TLAPS

-----------------------------------------------------------------------------
(* Arithmetic of prices and shares.                                        *)

(* A larger numerator has no smaller quotient.                             *)
LEMMA QuotientsGrow ==
    ASSUME NEW a \in Nat, NEW b \in Nat, a <= b
    PROVE  /\ a \div 3600 \in Nat
           /\ a \div 10000 \in Nat
           /\ a \div 3600 <= b \div 3600
           /\ a \div 10000 <= b \div 10000
  OBVIOUS

(* A longer rental costs no less, and any rental at least one micro.       *)
LEMMA PricesGrow ==
    ASSUME NEW rate \in Nat \ {0}, NEW s \in Nat \ {0}, NEW t \in Nat, s <= t
    PROVE  /\ CardHours(rate, s) \in Nat \ {0}
           /\ CardHours(rate, t) \in Nat
           /\ CardHours(rate, s) <= CardHours(rate, t)
<1> DEFINE a == rate * s
           b == rate * t
<1>1. a \in Nat /\ b \in Nat /\ a <= b /\ a >= 1
  OBVIOUS
<1> HIDE DEF a, b
<1>2. /\ (a + 3600 - 1) \div 3600 \in Nat \ {0}
      /\ (b + 3600 - 1) \div 3600 \in Nat
      /\ (a + 3600 - 1) \div 3600 <= (b + 3600 - 1) \div 3600
  BY <1>1
<1> QED
  BY <1>2 DEF a, b, CardHours, HourSeconds

(* A share at a lower rate is no larger, and a share of at most one per    *)
(* cent leaves something of any price.                                     *)
LEMMA SharesFit ==
    ASSUME NEW gross \in Nat, NEW fee \in 0 .. 100, NEW part \in 0 .. fee
    PROVE  /\ Share(gross, fee) \in Nat
           /\ Share(gross, part) \in Nat
           /\ Share(gross, part) <= Share(gross, fee)
           /\ Share(gross, fee) <= gross
           /\ gross > 0 => Share(gross, fee) < gross
<1> DEFINE a == gross * part
           b == gross * fee
<1>1. a \in Nat /\ b \in Nat /\ a <= b /\ b <= gross * 100
  OBVIOUS
<1> HIDE DEF a, b
<1>2. /\ a \div 10000 \in Nat
      /\ b \div 10000 \in Nat
      /\ a \div 10000 <= b \div 10000
      /\ b \div 10000 <= gross
      /\ gross > 0 => b \div 10000 < gross
  BY <1>1
<1> QED
  BY <1>2 DEF a, b, Share, Bps

(* The referral rate of a tier, scaled from the schedule, is within the    *)
(* tier's fee.                                                             *)
LEMMA ReferralFits ==
    ASSUME NEW fee \in 20 .. 100
    PROVE  DefaultReferral(fee) \in 0 .. fee
<1>1. CASE ScheduleFee = 0
  BY <1>1 DEF DefaultReferral
<1>2. CASE ScheduleFee # 0
  <2> DEFINE n == fee * ScheduleReferral
             q == n \div ScheduleFee
  <2>1. ScheduleFee \in Nat \ {0} /\ ScheduleReferral \in 0 .. ScheduleFee
    BY <1>2, BillingAssumption
  <2>2. n \in Nat /\ n <= fee * ScheduleFee
    BY <2>1
  <2>3. q \in Int /\ ScheduleFee * q <= n /\ n < ScheduleFee * q + ScheduleFee
    BY <2>1, <2>2
  <2> HIDE DEF n, q
  <2>4. q >= 0
    BY <2>1, <2>2, <2>3
  <2>5. q <= fee
    BY <2>1, <2>2, <2>3
  <2>6. DefaultReferral(fee) = q
    BY <1>2 DEF DefaultReferral, n, q
  <2> QED
    BY <2>3, <2>4, <2>5, <2>6
<1> QED
  BY <1>1, <1>2

(* Three clocks measure at least the minimum and at most the reservation.  *)
LEMMA MeasuredFits ==
    ASSUME NEW reserved \in Nat, reserved >= MinSeconds,
           NEW wall \in Nat, NEW reported \in Nat
    PROVE  Measured(reserved, wall, reported) \in MinSeconds .. reserved
  BY DEF Measured, AtLeast, Least, MinSeconds

-----------------------------------------------------------------------------
(* The inductive invariant: what is known of one contract, its hold and    *)
(* its accruals, what is known of a call, and the money.                   *)

ContractRow == [status : Statuses, reserved : Nat, held : Nat, fee : Nat, referral : Nat,
                measured : Nat, settled : Nat, income : Nat, commission : Nat,
                referred : BOOLEAN]
HoldRow == [status : {"NONE", "HELD", "SETTLED", "RELEASED"}, settled : Nat,
            by : {"NONE", "acceptance", "dispute"}]
AccrualRow == [rental : Nat, commission : Nat]
Amounts == [available : Int, held : Int, supplier : Int, referrer : Int, clearing : Int,
            expense : Int]
CallRow == [at : {"idle", "read", "settled"}, contract : Contracts \cup {None},
            seen : Statuses, commission : Nat]

Typed ==
    /\ contract \in [Contracts -> ContractRow]
    /\ hold \in [Contracts -> HoldRow]
    /\ accrual \in [Contracts -> AccrualRow]
    /\ referred \in BOOLEAN
    /\ money \in Amounts
    /\ call \in [Callers -> CallRow]

(* The snapshot of a reserved contract.                                    *)
Pinned(c) ==
    contract[c].status # "NONE" =>
        /\ contract[c].fee \in 0 .. 100
        /\ contract[c].referral \in 0 .. contract[c].fee
        /\ contract[c].reserved >= MinSeconds
        /\ contract[c].held = CardHours(Rate[c], contract[c].reserved)

Measurements(c) ==
    /\ contract[c].measured # 0 =>
           /\ contract[c].status \notin {"NONE", "HELD"}
           /\ contract[c].measured \in MinSeconds .. contract[c].reserved
    /\ contract[c].status \in {"AWAITING_ACCEPTANCE", "DISPUTED", "SETTLED"} =>
           contract[c].measured # 0

(* What was paid for a contract.                                           *)
Paid(c) ==
    /\ hold[c].status = "SETTLED" =>
           /\ contract[c].measured # 0
           /\ hold[c].settled = Gross(c)
           /\ accrual[c].rental = Income(c)
    /\ hold[c].status # "SETTLED" => hold[c].settled = 0 /\ accrual[c].rental = 0
    /\ contract[c].status = "SETTLED" => hold[c].status = "SETTLED"

(* What the hosting store recorded of it.                                  *)
Recorded(c) ==
    /\ (contract[c].status = "CLEANING" \/ hold[c].by = "dispute") =>
           /\ contract[c].settled = hold[c].settled
           /\ contract[c].income = accrual[c].rental
    /\ contract[c].status \in {"NONE", "HELD", "AWAITING_ACCEPTANCE", "DISPUTED"} =>
           /\ contract[c].settled = 0
           /\ contract[c].income = 0
           /\ hold[c].by = "NONE"

ContractInv(c) == Pinned(c) /\ Measurements(c) /\ Paid(c) /\ Recorded(c)

CallInv(k) ==
    call[k].at # "idle" => /\ call[k].contract \in Contracts
                           /\ contract[call[k].contract].measured # 0

IInv ==
    /\ Typed
    /\ \A c \in Contracts : ContractInv(c)
    /\ \A k \in Callers : CallInv(k)
    /\ MoneyConserved

USE DEF ContractRow, HoldRow, AccrualRow, Amounts, CallRow

(* A change of status keeps the type of a contract's row.                  *)
LEMMA StatusKept ==
    ASSUME NEW old \in ContractRow, NEW s \in Statuses
    PROVE  [old EXCEPT !.status = s] \in ContractRow
  OBVIOUS

(* So does any one amount.                                                 *)
LEMMA AmountsKept ==
    ASSUME NEW old \in ContractRow, NEW g \in Nat, NEW i \in Nat, NEW m \in Nat
    PROVE  /\ [old EXCEPT !.settled = g] \in ContractRow
           /\ [old EXCEPT !.income = i] \in ContractRow
           /\ [old EXCEPT !.commission = m] \in ContractRow
  OBVIOUS

(* The contracts after a change of status, or of status and amounts.       *)
LEMMA StatusUpdated ==
    ASSUME NEW rows \in [Contracts -> ContractRow], NEW c \in Contracts, NEW s \in Statuses
    PROVE  [rows EXCEPT ![c].status = s] \in [Contracts -> ContractRow]
<1> HIDE DEF ContractRow
<1> DEFINE new == [rows[c] EXCEPT !.status = s]
<1>1. new \in ContractRow
  BY StatusKept
<1> QED
  BY <1>1

(* The contracts after the amounts of one of them are recorded.            *)
LEMMA AmountsUpdated ==
    ASSUME NEW rows \in [Contracts -> ContractRow], NEW c \in Contracts, NEW s \in Statuses,
           NEW g \in Nat, NEW i \in Nat, NEW m \in Nat
    PROVE  [rows EXCEPT ![c].status = s, ![c].settled = g, ![c].income = i,
                        ![c].commission = m] \in [Contracts -> ContractRow]
<1> HIDE DEF ContractRow
<1> DEFINE first == [rows[c] EXCEPT !.status = s]
           second == [first EXCEPT !.settled = g]
           third == [second EXCEPT !.income = i]
           fourth == [third EXCEPT !.commission = m]
           new == [rows[c] EXCEPT !.status = s, !.settled = g, !.income = i,
                                  !.commission = m]
<1>1. first \in ContractRow
  BY StatusKept
<1> HIDE DEF first
<1>2. second \in ContractRow
  BY <1>1, AmountsKept
<1> HIDE DEF second
<1>3. third \in ContractRow
  BY <1>2, AmountsKept
<1> HIDE DEF third
<1>4. fourth \in ContractRow
  BY <1>3, AmountsKept
<1>5. new = fourth
  BY DEF first, second, third
<1>6. new \in ContractRow
  BY <1>4, <1>5
<1>7. [rows EXCEPT ![c].status = s, ![c].settled = g, ![c].income = i, ![c].commission = m]
      = [rows EXCEPT ![c] = new]
  OBVIOUS
<1> HIDE DEF new
<1> QED
  BY <1>6, <1>7

(* A metered contract has a price within its hold, shares that fit in it,  *)
(* and an income for its supplier.                                         *)
LEMMA MeteredPrices ==
    ASSUME Typed, NEW c \in Contracts, ContractInv(c), contract[c].measured # 0
    PROVE  /\ contract[c].measured \in MinSeconds .. contract[c].reserved
           /\ Gross(c) \in 1 .. contract[c].held
           /\ Income(c) \in 1 .. Gross(c)
           /\ Share(Gross(c), contract[c].referral) \in Nat
           /\ Commission(c) \in Nat
           /\ Commission(c) <= Gross(c) - Income(c)
           /\ Income(c) + Share(Gross(c), contract[c].fee) = Gross(c)
<1> DEFINE g == Gross(c)
           f == contract[c].fee
           r == contract[c].referral
<1>1. /\ contract[c].measured \in MinSeconds .. contract[c].reserved
      /\ contract[c].reserved \in Nat
      /\ f \in 0 .. 100 /\ r \in 0 .. f
      /\ contract[c].held = CardHours(Rate[c], contract[c].reserved)
  BY DEF Typed, ContractInv, Pinned, Measurements
<1>2. Rate[c] \in Nat \ {0} /\ contract[c].measured \in Nat \ {0}
      /\ contract[c].measured <= contract[c].reserved
  BY <1>1, BillingAssumption DEF MinSeconds
<1>3. g \in Nat \ {0} /\ g <= contract[c].held /\ contract[c].held \in Nat
  BY <1>1, <1>2, PricesGrow DEF Gross
<1>4. Income(c) = g - Share(g, f)
  BY DEF Income
<1>5. Commission(c) = Share(g, r) \/ Commission(c) = 0
  BY DEF Commission
<1> HIDE DEF g, f, r
<1>6. /\ Share(g, f) \in Nat /\ Share(g, r) \in Nat
      /\ Share(g, r) <= Share(g, f) /\ Share(g, f) < g
  <2>1. g \in Nat /\ f \in 0 .. 100 /\ r \in 0 .. f /\ g > 0
    BY <1>1, <1>3
  <2> QED
    BY <2>1, SharesFit
<1>7. /\ g \in 1 .. contract[c].held
      /\ Income(c) \in 1 .. g
      /\ Share(g, r) \in Nat
      /\ Commission(c) \in Nat
      /\ Commission(c) <= g - Income(c)
      /\ Income(c) + Share(g, f) = g
  BY <1>3, <1>4, <1>5, <1>6
<1> QED
  BY <1>1, <1>7 DEF g, f, r

-----------------------------------------------------------------------------
(* The actions, by what they do to one contract.                           *)

(* A contract that a step leaves alone keeps its invariant.                *)
LEMMA Untouched ==
    ASSUME NEW c \in Contracts, ContractInv(c),
           contract'[c] = contract[c], hold'[c] = hold[c], accrual'[c] = accrual[c]
    PROVE  ContractInv(c)'
  BY DEF ContractInv, Pinned, Measurements, Paid, Recorded, Gross, Income

(* The first state satisfies the invariant.                                *)
LEMMA InitIInv == Init => IInv
<1> SUFFICES ASSUME Init PROVE IInv
  OBVIOUS
<1> USE DEF Init
<1>1. Typed
  <2>1. contract \in [Contracts -> ContractRow]
    BY DEF NoContract, Statuses
  <2>2. /\ hold \in [Contracts -> HoldRow]
        /\ accrual \in [Contracts -> AccrualRow]
    OBVIOUS
  <2>3. money \in Amounts
    BY BillingAssumption
  <2>4. call \in [Callers -> CallRow]
    BY DEF Idle, Statuses
  <2> QED
    BY <2>1, <2>2, <2>3, <2>4 DEF Typed
<1>2. ASSUME NEW c \in Contracts PROVE ContractInv(c)
  BY <1>2 DEF ContractInv, Pinned, Measurements, Paid, Recorded, NoContract
<1>3. ASSUME NEW k \in Callers PROVE CallInv(k)
  BY <1>3 DEF CallInv, Idle
<1>4. MoneyConserved
  BY BillingAssumption DEF MoneyConserved
<1> QED
  BY <1>1, <1>2, <1>3, <1>4 DEF IInv

(* Both ways to settle: the entries of a metered contract whose hold is    *)
(* still open.                                                             *)
LEMMA CapturedKeeps ==
    ASSUME IInv, NEW c \in Contracts, NEW by \in {"acceptance", "dispute"},
           contract[c].status \in {"AWAITING_ACCEPTANCE", "DISPUTED"},
           hold[c].status = "HELD", Captured(c, by)
    PROVE  /\ hold' \in [Contracts -> HoldRow]
           /\ accrual' \in [Contracts -> AccrualRow]
           /\ money' \in Amounts
           /\ MoneyConserved'
           /\ hold'[c] = [status |-> "SETTLED", settled |-> Gross(c), by |-> by]
           /\ accrual'[c].rental = Income(c)
           /\ \A d \in Contracts \ {c} : hold'[d] = hold[d] /\ accrual'[d] = accrual[d]
<1> DEFINE g == Gross(c)
           i == Income(c)
           m == Commission(c)
           h == contract[c].held
<1>1. Typed /\ ContractInv(c) /\ MoneyConserved /\ contract[c].measured # 0
  BY DEF IInv, ContractInv, Measurements
<1>2. g \in Nat /\ i \in Nat /\ m \in Nat /\ h \in Nat /\ i <= g /\ m <= g - i
  BY <1>1, MeteredPrices DEF Typed
<1>3. /\ hold' = [hold EXCEPT ![c] = [status |-> "SETTLED", settled |-> g, by |-> by]]
      /\ accrual' = [accrual EXCEPT ![c] = [rental |-> accrual[c].rental + i,
                                            commission |-> accrual[c].commission + m]]
      /\ money' = [available |-> money.available + h - g, held |-> money.held - h,
                   supplier |-> money.supplier + i, referrer |-> money.referrer + m,
                   clearing |-> money.clearing + g - i, expense |-> money.expense + m]
  BY DEF Captured
<1>4. accrual[c].rental = 0
  BY <1>1 DEF ContractInv, Paid
<1> HIDE DEF g, i, m, h
<1>5. money' \in Amounts
  BY <1>1, <1>2, <1>3 DEF Typed
<1>6. MoneyConserved'
  BY <1>1, <1>2, <1>3 DEF Typed, MoneyConserved
<1>7. /\ hold' \in [Contracts -> HoldRow]
      /\ hold'[c] = [status |-> "SETTLED", settled |-> g, by |-> by]
      /\ \A d \in Contracts \ {c} : hold'[d] = hold[d]
  BY <1>1, <1>2, <1>3 DEF Typed
<1>8. /\ accrual' \in [Contracts -> AccrualRow]
      /\ accrual'[c].rental = i
      /\ \A d \in Contracts \ {c} : accrual'[d] = accrual[d]
  BY <1>1, <1>2, <1>3, <1>4 DEF Typed
<1> QED
  BY <1>5, <1>6, <1>7, <1>8 DEF g, i

(* A step on one contract that keeps its measurement and the calls.        *)
LEMMA OneContract ==
    ASSUME IInv, NEW c \in Contracts, Typed', ContractInv(c)', MoneyConserved',
           call' = call,
           contract[c].measured # 0 => contract'[c].measured = contract[c].measured,
           \A d \in Contracts \ {c} : /\ contract'[d] = contract[d]
                                      /\ hold'[d] = hold[d]
                                      /\ accrual'[d] = accrual[d]
    PROVE  IInv'
<1>1. ASSUME NEW d \in Contracts PROVE ContractInv(d)'
  <2>1. CASE d = c
    BY <2>1
  <2>2. CASE d # c
    BY <2>2, Untouched DEF IInv
  <2> QED
    BY <2>1, <2>2
<1>2. ASSUME NEW k \in Callers PROVE CallInv(k)'
  BY DEF IInv, CallInv
<1> QED
  BY <1>1, <1>2 DEF IInv

(* Reserving a contract pins a fee and a referral rate that fit each other.*)
LEMMA ReserveKeeps ==
    ASSUME IInv, NEW c \in Contracts, NEW seconds \in Rentals, Reserve(c, seconds)
    PROVE  IInv'
<1> DEFINE price == CardHours(Rate[c], seconds)
<1>1. Typed /\ ContractInv(c) /\ MoneyConserved
  BY DEF IInv
<1>2. seconds \in Nat /\ seconds >= MinSeconds /\ Rate[c] \in Nat \ {0}
  BY BillingAssumption
<1>3. price \in Nat
  BY <1>2, PricesGrow DEF MinSeconds
<1>4. PICK step \in FeeSteps :
          contract' = [contract EXCEPT ![c] =
              [status |-> "HELD", reserved |-> seconds, held |-> price,
               fee |-> step.fee, referral |-> DefaultReferral(step.fee),
               measured |-> 0, settled |-> 0, income |-> 0, commission |-> 0,
               referred |-> referred]]
  BY DEF Reserve
<1>5. step.fee \in 20 .. 100 /\ DefaultReferral(step.fee) \in 0 .. step.fee
  BY BillingAssumption, ReferralFits
<1>6. /\ contract[c].status = "NONE"
      /\ hold' = [hold EXCEPT ![c].status = "HELD"]
      /\ money' = [money EXCEPT !.available = @ - price, !.held = @ + price]
      /\ UNCHANGED <<volume, accrual, referred, call>>
  BY DEF Reserve
<1> HIDE DEF price
<1>7. referred \in BOOLEAN
  BY DEF IInv, Typed
<1>8. Typed'
  <2>1. contract' \in [Contracts -> ContractRow]
    <3> DEFINE fee == step.fee
               referral == DefaultReferral(fee)
               before == referred
               new == [status |-> "HELD", reserved |-> seconds, held |-> price,
                       fee |-> fee, referral |-> referral, measured |-> 0, settled |-> 0,
                       income |-> 0, commission |-> 0, referred |-> before]
    <3>1. fee \in Nat /\ referral \in Nat /\ before \in BOOLEAN
      BY <1>5, <1>7
    <3>2. contract' = [contract EXCEPT ![c] = new]
      BY <1>4
    <3> HIDE DEF fee, referral, before
    <3>3. new \in ContractRow
      BY <1>2, <1>3, <3>1 DEF Statuses
    <3> HIDE DEF new
    <3> QED
      BY <1>1, <3>2, <3>3 DEF Typed
  <2>2. hold' \in [Contracts -> HoldRow]
    BY <1>1, <1>6 DEF Typed
  <2>3. money' \in Amounts
    <3>1. money' = [available |-> money.available - price, held |-> money.held + price,
                    supplier |-> money.supplier, referrer |-> money.referrer,
                    clearing |-> money.clearing, expense |-> money.expense]
      BY <1>1, <1>6 DEF Typed
    <3> QED
      BY <1>1, <1>3, <3>1 DEF Typed
  <2> QED
    BY <1>1, <1>6, <2>1, <2>2, <2>3 DEF Typed
<1>9. ContractInv(c)'
  BY <1>1, <1>2, <1>3, <1>4, <1>5, <1>6
     DEF Typed, ContractInv, Pinned, Measurements, Paid, Recorded, NoContract, price
<1>10. MoneyConserved'
  BY <1>1, <1>3, <1>6 DEF Typed, MoneyConserved
<1>11. contract[c].measured = 0
  BY <1>1, <1>6 DEF ContractInv, Measurements
<1> QED
  BY <1>4, <1>6, <1>8, <1>9, <1>10, <1>11, OneContract DEF Typed

(* The whole hold goes back to a buyer whose contract is not settled.      *)
LEMMA HoldReturned ==
    ASSUME IInv, NEW c \in Contracts, contract[c].status \in {"HELD", "DISPUTED"},
           money' = [money EXCEPT !.available = @ + contract[c].held,
                                  !.held = @ - contract[c].held]
    PROVE  /\ money' \in Amounts
           /\ MoneyConserved'
<1> DEFINE h == contract[c].held
<1>1. Typed /\ MoneyConserved /\ h \in Nat
  BY DEF IInv, Typed
<1>2. money' = [available |-> money.available + h, held |-> money.held - h,
                supplier |-> money.supplier, referrer |-> money.referrer,
                clearing |-> money.clearing, expense |-> money.expense]
  BY <1>1 DEF Typed
<1> HIDE DEF h
<1> QED
  BY <1>1, <1>2 DEF Typed, MoneyConserved

(* A reservation that ends before its metering.                            *)
LEMMA ReleaseKeeps ==
    ASSUME IInv, NEW c \in Contracts, NEW status, ReleaseHold(c, status)
    PROVE  IInv'
<1> USE DEF ReleaseHold
<1>1. Typed /\ ContractInv(c)
  BY DEF IInv
<1>2. Typed' /\ MoneyConserved'
  <2>1. /\ money' \in Amounts
        /\ MoneyConserved'
    BY HoldReturned
  <2>2. contract' \in [Contracts -> ContractRow]
    <3>1. status \in Statuses
      BY DEF Statuses
    <3> HIDE DEF ContractRow
    <3> QED
      BY <1>1, <3>1, StatusUpdated DEF Typed
  <2>3. hold' \in [Contracts -> HoldRow]
    <3>1. /\ hold \in [Contracts -> HoldRow]
          /\ hold' = [hold EXCEPT ![c].status = "RELEASED"]
      BY <1>1 DEF Typed
    <3> HIDE DEF ReleaseHold
    <3> QED
      BY <3>1
  <2>4. UNCHANGED <<accrual, referred, call>>
    OBVIOUS
  <2> QED
    BY <1>1, <2>1, <2>2, <2>3, <2>4 DEF Typed
<1>3. ContractInv(c)'
  BY <1>1 DEF Typed, ContractInv, Pinned, Measurements, Paid, Recorded
<1>4. /\ call' = call
      /\ contract[c].measured # 0 => contract'[c].measured = contract[c].measured
      /\ \A d \in Contracts \ {c} : /\ contract'[d] = contract[d]
                                     /\ hold'[d] = hold[d]
                                     /\ accrual'[d] = accrual[d]
  BY <1>1 DEF Typed
<1> QED
  BY <1>2, <1>3, <1>4, OneContract

(* The stop of a service measures it.                                      *)
LEMMA StopKeeps ==
    ASSUME IInv, NEW c \in Contracts, NEW wall \in Runtimes, NEW reported \in Runtimes,
           CompleteStop(c, wall, reported)
    PROVE  IInv'
<1> DEFINE measured == Measured(contract[c].reserved, wall, reported)
<1>1. Typed /\ ContractInv(c) /\ contract[c].status = "HELD" /\ contract[c].measured = 0
  BY DEF IInv, CompleteStop, ContractInv, Measurements
<1>2. measured \in MinSeconds .. contract[c].reserved /\ contract[c].reserved \in Nat
  <2>1. contract[c].reserved \in Nat /\ contract[c].reserved >= MinSeconds
    BY <1>1 DEF Typed, ContractInv, Pinned
  <2>2. wall \in Nat /\ reported \in Nat
    BY BillingAssumption
  <2> QED
    BY <2>1, <2>2, MeasuredFits
<1>3. /\ contract' = [contract EXCEPT ![c].status = "AWAITING_ACCEPTANCE",
                                      ![c].measured = measured]
      /\ UNCHANGED <<hold, volume, accrual, money, referred, call>>
  BY DEF CompleteStop, books
<1> HIDE DEF measured
<1>4. measured \in Nat /\ measured # 0
  BY <1>2 DEF MinSeconds
<1>5. Typed'
  BY <1>1, <1>3, <1>4 DEF Typed, Statuses
<1>6. hold[c].status # "SETTLED"
  BY <1>1 DEF ContractInv, Paid
<1>7. ContractInv(c)'
  BY <1>1, <1>2, <1>3, <1>4, <1>6
     DEF Typed, ContractInv, Pinned, Measurements, Paid, Recorded
<1>8. MoneyConserved'
  BY <1>3 DEF IInv, MoneyConserved
<1> QED
  BY <1>1, <1>3, <1>5, <1>7, <1>8, OneContract DEF Typed

(* A metered service is disputed.                                          *)
LEMMA DisputeKeeps ==
    ASSUME IInv, NEW c \in Contracts, DisputeContract(c)
    PROVE  IInv'
<1> USE DEF DisputeContract, books
<1>1. Typed /\ ContractInv(c)
  BY DEF IInv
<1>2. Typed'
  BY <1>1 DEF Typed, Statuses
<1>3. ContractInv(c)'
  BY <1>1 DEF Typed, ContractInv, Pinned, Measurements, Paid, Recorded, Gross, Income
<1>4. MoneyConserved'
  BY DEF IInv, MoneyConserved
<1>5. /\ call' = call
      /\ contract[c].measured # 0 => contract'[c].measured = contract[c].measured
      /\ \A d \in Contracts \ {c} : /\ contract'[d] = contract[d]
                                     /\ hold'[d] = hold[d]
                                     /\ accrual'[d] = accrual[d]
  BY <1>1 DEF Typed
<1> QED
  BY <1>2, <1>3, <1>4, <1>5, OneContract

(* A dispute decided for the buyer.                                        *)
LEMMA RefundDisputeKeeps ==
    ASSUME IInv, NEW c \in Contracts, RefundDispute(c)
    PROVE  IInv'
<1> USE DEF RefundDispute
<1>1. Typed /\ ContractInv(c)
  BY DEF IInv
<1>2. Typed' /\ MoneyConserved'
  <2>1. /\ money' \in Amounts
        /\ MoneyConserved'
    BY HoldReturned
  <2>2. contract' \in [Contracts -> ContractRow]
    <3>1. "REFUNDED" \in Statuses
      BY DEF Statuses
    <3> HIDE DEF ContractRow
    <3> QED
      BY <1>1, <3>1, StatusUpdated DEF Typed
  <2>3. hold' \in [Contracts -> HoldRow]
    <3>1. /\ hold \in [Contracts -> HoldRow]
          /\ hold' = [hold EXCEPT ![c].status = "RELEASED", ![c].by = "dispute"]
      BY <1>1 DEF Typed
    <3> HIDE DEF RefundDispute
    <3> QED
      BY <3>1
  <2>4. UNCHANGED <<accrual, referred, call>>
    OBVIOUS
  <2> QED
    BY <1>1, <2>1, <2>2, <2>3, <2>4 DEF Typed
<1>3. ContractInv(c)'
  BY <1>1 DEF Typed, ContractInv, Pinned, Measurements, Paid, Recorded
<1>4. /\ call' = call
      /\ contract[c].measured # 0 => contract'[c].measured = contract[c].measured
      /\ \A d \in Contracts \ {c} : /\ contract'[d] = contract[d]
                                     /\ hold'[d] = hold[d]
                                     /\ accrual'[d] = accrual[d]
  BY <1>1 DEF Typed
<1> QED
  BY <1>2, <1>3, <1>4, OneContract

(* A dispute decided for the supplier.                                     *)
LEMMA SettleDisputeKeeps ==
    ASSUME IInv, NEW c \in Contracts, SettleDispute(c)
    PROVE  IInv'
<1> DEFINE g == Gross(c)
           i == Income(c)
           m == Commission(c)
<1>1. Typed /\ ContractInv(c) /\ contract[c].measured # 0
  BY DEF IInv, ContractInv, Measurements, SettleDispute
<1>2. g \in Nat /\ i \in Nat /\ m \in Nat
  BY <1>1, MeteredPrices
<1>3. /\ contract' = [contract EXCEPT ![c].status = "SETTLED", ![c].settled = g,
                                      ![c].income = i, ![c].commission = m]
      /\ UNCHANGED <<referred, call>>
      /\ contract[c].status = "DISPUTED" /\ hold[c].status = "HELD"
      /\ Captured(c, "dispute")
  BY DEF SettleDispute
<1>4. /\ hold' \in [Contracts -> HoldRow]
      /\ accrual' \in [Contracts -> AccrualRow]
      /\ money' \in Amounts
      /\ MoneyConserved'
      /\ hold'[c] = [status |-> "SETTLED", settled |-> g, by |-> "dispute"]
      /\ accrual'[c].rental = i
      /\ \A d \in Contracts \ {c} : hold'[d] = hold[d] /\ accrual'[d] = accrual[d]
  BY <1>3, CapturedKeeps
<1>5. Gross(c)' = g /\ Income(c)' = i
  BY <1>1, <1>3 DEF Typed, Gross, Income, g, i
<1> HIDE DEF g, i, m
<1>6. Typed'
  <2>1. contract' \in [Contracts -> ContractRow]
    <3>1. "SETTLED" \in Statuses
      BY DEF Statuses
    <3> HIDE DEF ContractRow
    <3> QED
      BY <1>1, <1>2, <1>3, <3>1, AmountsUpdated DEF Typed
  <2>2. UNCHANGED <<referred, call>>
    BY <1>3
  <2> QED
    BY <1>1, <1>4, <2>1, <2>2 DEF Typed
<1>7. ContractInv(c)'
  BY <1>1, <1>2, <1>3, <1>4, <1>5
     DEF Typed, ContractInv, Pinned, Measurements, Paid, Recorded
<1> QED
  BY <1>1, <1>3, <1>4, <1>6, <1>7, OneContract DEF Typed

(* The cleanup after a dispute changes no amount.                          *)
LEMMA DisputeCleanupKeeps ==
    ASSUME IInv, NEW c \in Contracts, QueueDisputeCleanup(c)
    PROVE  IInv'
<1> USE DEF QueueDisputeCleanup, books
<1>1. Typed /\ ContractInv(c)
  BY DEF IInv
<1>2. Typed'
  <2>1. contract' \in [Contracts -> ContractRow]
    <3>1. "CLEANING" \in Statuses
      BY DEF Statuses
    <3> HIDE DEF ContractRow
    <3> QED
      BY <1>1, <3>1, StatusUpdated DEF Typed
  <2> QED
    BY <1>1, <2>1 DEF Typed
<1>3. ContractInv(c)'
  BY <1>1 DEF Typed, ContractInv, Pinned, Measurements, Paid, Recorded, Gross, Income
<1>4. MoneyConserved'
  BY DEF IInv, MoneyConserved
<1>5. /\ call' = call
      /\ contract[c].measured # 0 => contract'[c].measured = contract[c].measured
      /\ \A d \in Contracts \ {c} : /\ contract'[d] = contract[d]
                                     /\ hold'[d] = hold[d]
                                     /\ accrual'[d] = accrual[d]
  BY <1>1 DEF Typed
<1> QED
  BY <1>2, <1>3, <1>4, <1>5, OneContract

-----------------------------------------------------------------------------
(* The steps of a call of settleAcceptedContract.                          *)

(* A step of one call, over contracts that keep their measurements.        *)
LEMMA OneCall ==
    ASSUME IInv, NEW k \in Callers, Typed', MoneyConserved', CallInv(k)',
           \A c \in Contracts : ContractInv(c)',
           \A c \in Contracts : contract'[c].measured = contract[c].measured,
           \A j \in Callers \ {k} : call'[j] = call[j]
    PROVE  IInv'
<1>1. ASSUME NEW j \in Callers PROVE CallInv(j)'
  <2>1. CASE j = k
    BY <2>1
  <2>2. CASE j # k
    BY <2>2 DEF IInv, CallInv
  <2> QED
    BY <2>1, <2>2
<1> QED
  BY <1>1 DEF IInv

(* A step that writes nothing but one call.                                *)
LEMMA OnlyCall ==
    ASSUME IInv, NEW k \in Callers, NEW row \in CallRow,
           call' = [call EXCEPT ![k] = row], UNCHANGED <<contract, books, referred>>,
           row.at # "idle" => /\ row.contract \in Contracts
                              /\ contract[row.contract].measured # 0
    PROVE  IInv'
<1> HIDE DEF CallRow
<1>1. Typed /\ MoneyConserved
  BY DEF IInv
<1>2. UNCHANGED <<contract, hold, accrual, money, referred>>
  BY DEF books
<1>3. call'[k] = row /\ \A j \in Callers \ {k} : call'[j] = call[j]
  BY <1>1 DEF Typed
<1>4. Typed'
  <2>1. call' \in [Callers -> CallRow]
    BY <1>1 DEF Typed
  <2> QED
    BY <1>1, <1>2, <2>1 DEF Typed
<1>5. MoneyConserved'
  BY <1>1, <1>2 DEF MoneyConserved
<1>6. ASSUME NEW c \in Contracts PROVE ContractInv(c)'
  BY <1>2, Untouched DEF IInv
<1>7. CallInv(k)'
  BY <1>2, <1>3 DEF CallInv
<1> QED
  BY <1>2, <1>3, <1>4, <1>5, <1>6, <1>7, OneCall

(* A call reads only contracts that were metered.                          *)
LEMMA ReadKeeps ==
    ASSUME IInv, NEW k \in Callers, NEW c \in Contracts, ReadContract(k, c)
    PROVE  IInv'
<1> DEFINE row == [at |-> "read", contract |-> c, seen |-> contract[c].status,
                   commission |-> 0]
<1>1. contract[c] \in ContractRow /\ contract[c].measured >= MinSeconds
  BY DEF IInv, Typed, ReadContract
<1>2. row \in CallRow
  BY <1>1
<1>3. contract[c].measured # 0
  BY <1>1 DEF MinSeconds
<1>4. call' = [call EXCEPT ![k] = row] /\ UNCHANGED <<contract, books, referred>>
  BY DEF ReadContract
<1>5. row.contract = c
  OBVIOUS
<1> HIDE DEF row, CallRow
<1> QED
  BY <1>2, <1>3, <1>4, <1>5, OnlyCall

(* A replay pays nothing and remembers the commission of its moment.       *)
LEMMA ReplayKeeps ==
    ASSUME IInv, NEW k \in Callers, ReplaySettlement(k)
    PROVE  IInv'
<1> DEFINE c == call[k].contract
           m == Commission(c)
           row == [call[k] EXCEPT !.at = "settled", !.commission = m]
<1>1. /\ Typed /\ c \in Contracts /\ contract[c].measured # 0 /\ ContractInv(c)
  BY DEF IInv, CallInv, ReplaySettlement
<1>2. m \in Nat
  BY <1>1, MeteredPrices
<1>3. call' = [call EXCEPT ![k] = row] /\ UNCHANGED <<contract, books, referred>>
  BY DEF ReplaySettlement
<1> HIDE DEF m
<1>4. call[k] \in CallRow
  BY <1>1 DEF Typed
<1>5. row \in CallRow /\ row.contract = c
  BY <1>2, <1>4
<1> HIDE DEF row, CallRow, c
<1> QED
  BY <1>1, <1>3, <1>5, OnlyCall

(* A call that ends leaves everything as it is.                            *)
LEMMA AbortKeeps ==
    ASSUME IInv, NEW k \in Callers, Abort(k)
    PROVE  IInv'
<1>1. Idle \in CallRow /\ Idle.at = "idle"
  BY DEF Idle, Statuses
<1>2. call' = [call EXCEPT ![k] = Idle] /\ UNCHANGED <<contract, books, referred>>
  BY DEF Abort
<1> HIDE DEF CallRow
<1> QED
  BY <1>1, <1>2, OnlyCall

(* The buyer's acceptance, or the end of the window, pays a contract.      *)
LEMMA SettleKeeps ==
    ASSUME IInv, NEW k \in Callers, SettleHostingOrder(k)
    PROVE  IInv'
<1>0. PICK c \in Contracts : c = call[k].contract /\ contract[c].measured # 0
  BY DEF IInv, CallInv, SettleHostingOrder
<1> DEFINE g == Gross(c)
           i == Income(c)
           m == Commission(c)
<1>1. /\ Typed /\ contract[c].measured # 0 /\ ContractInv(c)
  BY <1>0 DEF IInv
<1>2. /\ contract[c].status = "AWAITING_ACCEPTANCE"
      /\ hold[c].status = "HELD"
      /\ Captured(c, "acceptance")
      /\ contract' = [contract EXCEPT ![c].status = "SETTLED"]
      /\ call' = [call EXCEPT ![k].at = "settled", ![k].commission = m]
      /\ UNCHANGED referred
  BY <1>0 DEF SettleHostingOrder
<1>3. m \in Nat
  BY <1>1, MeteredPrices
<1>4. /\ hold' \in [Contracts -> HoldRow]
      /\ accrual' \in [Contracts -> AccrualRow]
      /\ money' \in Amounts
      /\ MoneyConserved'
      /\ hold'[c] = [status |-> "SETTLED", settled |-> g, by |-> "acceptance"]
      /\ accrual'[c].rental = i
      /\ \A d \in Contracts \ {c} : hold'[d] = hold[d] /\ accrual'[d] = accrual[d]
  BY <1>1, <1>2, CapturedKeeps
<1>5. Gross(c)' = g /\ Income(c)' = i
  BY <1>1, <1>2 DEF Typed, Gross, Income, g, i
<1> HIDE DEF g, i, m
<1>6. /\ contract' \in [Contracts -> ContractRow]
      /\ contract'[c].status = "SETTLED"
      /\ contract'[c].measured = contract[c].measured
      /\ \A d \in Contracts \ {c} : contract'[d] = contract[d]
  <2>1. "SETTLED" \in Statuses
    BY DEF Statuses
  <2>2. contract' \in [Contracts -> ContractRow]
    <3> HIDE DEF ContractRow
    <3> QED
      BY <1>1, <1>2, <2>1, StatusUpdated DEF Typed
  <2> QED
    BY <1>1, <1>2, <2>2 DEF Typed
<1>7. call' \in [Callers -> CallRow] /\ call'[k].contract = call[k].contract
      /\ \A j \in Callers \ {k} : call'[j] = call[j]
  <2>1. call \in [Callers -> CallRow]
    BY <1>1 DEF Typed
  <2> QED
    BY <1>2, <1>3, <2>1
<1>8. Typed'
  BY <1>1, <1>2, <1>4, <1>6, <1>7 DEF Typed
<1>9. ASSUME NEW d \in Contracts PROVE ContractInv(d)'
  <2>1. CASE d = c
    BY <1>1, <1>2, <1>4, <1>5, <1>6, <2>1
       DEF Typed, ContractInv, Pinned, Measurements, Paid, Recorded
  <2>2. CASE d # c
    BY <1>4, <1>6, <2>2, Untouched DEF IInv
  <2> QED
    BY <2>1, <2>2
<1>10. CallInv(k)'
  BY <1>0, <1>6, <1>7 DEF CallInv
<1>11. \A d \in Contracts : contract'[d].measured = contract[d].measured
  BY <1>6
<1> QED
  BY <1>4, <1>7, <1>8, <1>9, <1>10, <1>11, OneCall

(* What is recorded was paid before.                                       *)
LEMMA MarkKeeps ==
    ASSUME IInv, NEW k \in Callers, MarkContractSettled(k)
    PROVE  IInv'
<1>0. PICK c \in Contracts : c = call[k].contract /\ contract[c].measured # 0
  BY DEF IInv, CallInv, MarkContractSettled
<1> DEFINE g == Gross(c)
           i == Income(c)
           m == call[k].commission
<1>1. /\ Typed /\ contract[c].measured # 0 /\ ContractInv(c)
      /\ MoneyConserved
  BY <1>0 DEF IInv
<1>2. /\ contract[c].status = "SETTLED"
      /\ contract' = [contract EXCEPT ![c].status = "CLEANING", ![c].settled = g,
                                      ![c].income = i, ![c].commission = m]
      /\ call' = [call EXCEPT ![k] = Idle]
      /\ UNCHANGED <<hold, accrual, money, referred>>
  BY <1>0 DEF MarkContractSettled, books
<1>3. g \in Nat /\ i \in Nat /\ m \in Nat
  BY <1>1, MeteredPrices DEF Typed
<1>4. Gross(c)' = g /\ Income(c)' = i
  BY <1>1, <1>2 DEF Typed, Gross, Income, g, i
<1>5. hold[c].status = "SETTLED" /\ hold[c].settled = g /\ accrual[c].rental = i
  BY <1>1, <1>2 DEF ContractInv, Paid
<1> HIDE DEF g, i, m
<1>6. /\ contract' \in [Contracts -> ContractRow]
      /\ contract'[c].status = "CLEANING"
      /\ contract'[c].settled = g
      /\ contract'[c].income = i
      /\ contract'[c].measured = contract[c].measured
      /\ \A d \in Contracts \ {c} : contract'[d] = contract[d]
  <2>1. "CLEANING" \in Statuses
    BY DEF Statuses
  <2>2. contract' \in [Contracts -> ContractRow]
    <3> HIDE DEF ContractRow
    <3> QED
      BY <1>1, <1>2, <1>3, <2>1, AmountsUpdated DEF Typed
  <2> QED
    BY <1>1, <1>2, <2>2 DEF Typed
<1>7. /\ call' \in [Callers -> CallRow]
      /\ call'[k].at = "idle"
      /\ \A j \in Callers \ {k} : call'[j] = call[j]
  <2>1. Idle \in CallRow /\ Idle.at = "idle"
    BY DEF Idle, Statuses
  <2>2. call \in [Callers -> CallRow]
    BY <1>1 DEF Typed
  <2> HIDE DEF CallRow
  <2> QED
    BY <1>2, <2>1, <2>2
<1>8. Typed' /\ MoneyConserved'
  BY <1>1, <1>2, <1>6, <1>7 DEF Typed, MoneyConserved
<1>9. ASSUME NEW d \in Contracts PROVE ContractInv(d)'
  <2>1. CASE d = c
    BY <1>1, <1>2, <1>4, <1>5, <1>6, <2>1
       DEF Typed, ContractInv, Pinned, Measurements, Paid, Recorded
  <2>2. CASE d # c
    BY <1>2, <1>6, <2>2, Untouched DEF IInv
  <2> QED
    BY <2>1, <2>2
<1>10. CallInv(k)'
  BY <1>7 DEF CallInv
<1>11. \A d \in Contracts : contract'[d].measured = contract[d].measured
  BY <1>6
<1> QED
  BY <1>7, <1>8, <1>9, <1>10, <1>11, OneCall

(* The buyer's referral is not part of any contract's rows.                *)
LEMMA AttachKeeps ==
    ASSUME IInv, AttachReferral
    PROVE  IInv'
<1>1. /\ referred' = TRUE
      /\ UNCHANGED <<contract, hold, accrual, money, call>>
  BY DEF AttachReferral, books
<1>2. Typed' /\ MoneyConserved'
  BY <1>1 DEF IInv, Typed, MoneyConserved
<1>3. ASSUME NEW c \in Contracts PROVE ContractInv(c)'
  BY <1>1, Untouched DEF IInv
<1>4. ASSUME NEW k \in Callers PROVE CallInv(k)'
  BY <1>1 DEF IInv, CallInv
<1> QED
  BY <1>2, <1>3, <1>4 DEF IInv

-----------------------------------------------------------------------------

(* Every step keeps the invariant.                                         *)
LEMMA StepIInv == IInv /\ [Next]_vars => IInv'
<1> SUFFICES ASSUME IInv, [Next]_vars PROVE IInv'
  OBVIOUS
<1>1. CASE AttachReferral
  BY <1>1, AttachKeeps
<1>2. ASSUME NEW c \in Contracts, Order(c) PROVE IInv'
  BY <1>2, ReserveKeeps, ReleaseKeeps, StopKeeps, DisputeKeeps, RefundDisputeKeeps,
     SettleDisputeKeeps, DisputeCleanupKeeps DEF Order
<1>3. ASSUME NEW k \in Callers, Settlement(k) PROVE IInv'
  BY <1>3, ReadKeeps, SettleKeeps, ReplayKeeps, MarkKeeps, AbortKeeps DEF Settlement
<1>4. CASE UNCHANGED vars
  <2>1. UNCHANGED <<contract, hold, accrual, money, referred, call>>
    BY <1>4 DEF vars
  <2>2. Typed' /\ MoneyConserved'
    BY <2>1 DEF IInv, Typed, MoneyConserved
  <2>3. ASSUME NEW c \in Contracts PROVE ContractInv(c)'
    BY <2>1, Untouched DEF IInv
  <2>4. ASSUME NEW k \in Callers PROVE CallInv(k)'
    BY <2>1 DEF IInv, CallInv
  <2> QED
    BY <2>2, <2>3, <2>4 DEF IInv
<1> QED
  BY <1>1, <1>2, <1>3, <1>4 DEF Next

(* The invariant holds in every state.                                     *)
LEMMA AlwaysIInv == Spec => []IInv
<1>1. Init => IInv
  BY InitIInv
<1>2. IInv /\ [Next]_vars => IInv'
  BY StepIInv
<1> QED
  BY <1>1, <1>2, PTL DEF Spec

(* For every price, schedule and clock: whatever settlements, replays and  *)
(* decisions of disputes interleave, no card-hour is made or lost and the  *)
(* commissions never exceed the fees they are paid from.                   *)
THEOREM MoneyIsConserved == Spec => []MoneyConserved
<1>1. IInv => MoneyConserved
  BY DEF IInv
<1> QED
  BY <1>1, AlwaysIInv, PTL

(* For every price, schedule and clock: a metered service has a price      *)
(* within its hold that leaves its supplier an income.                     *)
THEOREM MeteredIsSettleable == Spec => []AlwaysSettleable
<1>1. IInv => AlwaysSettleable
  <2> SUFFICES ASSUME IInv, NEW c \in Contracts, contract[c].measured > 0
               PROVE  /\ contract[c].measured \in MinSeconds .. contract[c].reserved
                      /\ Gross(c) \in 1 .. contract[c].held
                      /\ Income(c) \in 1 .. Gross(c)
    BY DEF AlwaysSettleable, Metered
  <2>1. Typed /\ ContractInv(c) /\ contract[c].measured # 0
    BY DEF IInv
  <2> QED
    BY <2>1, MeteredPrices
<1> QED
  BY <1>1, AlwaysIInv, PTL

(* For every price, schedule and number of calls: the amounts the hosting  *)
(* store records are the amounts the card-hour store paid, once.           *)
THEOREM RecordsMatchPayments == Spec => []RecordedIsPaid
<1>1. IInv => RecordedIsPaid
  <2> SUFFICES ASSUME IInv, NEW c \in Contracts, contract[c].status = "CLEANING"
               PROVE  /\ contract[c].settled = hold[c].settled
                      /\ contract[c].income = accrual[c].rental
                      /\ accrual[c].rental + Share(hold[c].settled, contract[c].fee)
                         = hold[c].settled
    BY DEF RecordedIsPaid
  <2>1. Typed /\ ContractInv(c)
    BY DEF IInv
  <2>2. contract[c].settled = hold[c].settled /\ contract[c].income = accrual[c].rental
    BY <2>1 DEF ContractInv, Recorded
  <2>3. CASE hold[c].status = "SETTLED"
    <3>1. /\ contract[c].measured # 0
          /\ hold[c].settled = Gross(c)
          /\ accrual[c].rental = Income(c)
      BY <2>1, <2>3 DEF ContractInv, Paid
    <3> QED
      BY <2>1, <2>2, <3>1, MeteredPrices
  <2>4. CASE hold[c].status # "SETTLED"
    <3>1. hold[c].settled = 0 /\ accrual[c].rental = 0 /\ contract[c].fee \in 0 .. 100
      BY <2>1, <2>4 DEF ContractInv, Paid, Pinned
    <3>2. Share(0, contract[c].fee) = 0
      BY <3>1 DEF Share, Bps
    <3> QED
      BY <2>2, <3>1, <3>2
  <2> QED
    BY <2>3, <2>4
<1> QED
  BY <1>1, AlwaysIInv, PTL

(* For every price, schedule and number of calls: money is conserved and   *)
(* what is recorded was paid.                                              *)
THEOREM MoneyAndRecordsAgree == Spec => []PaidAndRecorded
<1>1. MoneyConserved /\ RecordedIsPaid => PaidAndRecorded
  BY DEF PaidAndRecorded
<1> QED
  BY <1>1, MoneyIsConserved, RecordsMatchPayments, PTL

-----------------------------------------------------------------------------
(* The volume of the supplier and the amounts of the wallet: each is a sum *)
(* over the contracts, and a step changes one of its summands.             *)
HIDE DEF ContractRow, HoldRow, AccrualRow, Amounts, CallRow

Purse == [available : Nat, held : Nat, supplier : Nat, referrer : Nat, clearing : Nat, expense : Nat]

HeldIn(row, h) == IF h.status = "HELD" THEN row.held ELSE 0
HeldOf(rows, holds) == [c \in Contracts |-> HeldIn(rows[c], holds[c])]
Volume(v) == SumOf(v, Contracts)

(* The tier of a contract was earned by the volume v.                      *)
Earned(row, v) == \E step \in FeeSteps : step.fee = row.fee /\ step.minimum <= v

(* A contract, its hold and its part of the volume.                        *)
Booked(row, h, part) ==
    /\ part = IF h.status = "SETTLED" THEN h.settled ELSE 0
    /\ h.status = "NONE" <=> row.status = "NONE"

Volumes ==
    /\ volume \in [Contracts -> Nat]
    /\ \A c \in Contracts : Booked(contract[c], hold[c], volume[c])
    /\ \A c \in Contracts : hold[c].status # "NONE" => Earned(contract[c], Volume(volume))
    /\ money \in Purse
    /\ money.held = SumOf(HeldOf(contract, hold), Contracts)

(* The volume is a natural number.                                         *)
LEMMA VolumeIsNatural ==
    ASSUME NEW v \in [Contracts -> Nat]
    PROVE  Volume(v) \in Nat
<1>1. \A c \in Contracts : v[c] \in Nat
  OBVIOUS
<1> QED
  BY <1>1, BillingAssumption, SumOfNaturals DEF Volume

(* It grows with any of its parts.                                         *)
LEMMA VolumeGrows ==
    ASSUME NEW v \in [Contracts -> Nat], NEW w \in [Contracts -> Nat], NEW c \in Contracts,
           v[c] <= w[c], \A d \in Contracts \ {c} : v[d] = w[d]
    PROVE  Volume(v) <= Volume(w)
<1>1. \A d \in Contracts : v[d] \in Int /\ w[d] \in Int
  OBVIOUS
<1>2. SumOf(w, Contracts) = SumOf(v, Contracts) - v[c] + w[c]
  BY <1>1, BillingAssumption, SumChanged
<1>3. SumOf(v, Contracts) \in Nat /\ v[c] \in Nat /\ w[c] \in Nat
  BY VolumeIsNatural DEF Volume
<1> QED
  BY <1>2, <1>3 DEF Volume

(* The lifetime volume of the model is that sum.                           *)
LEMMA LifetimeIsVolume == Lifetime = Volume(volume)
BY DEF Lifetime, Volume, SumOf, MapThenSumSet, MapThenFoldSet

(* A higher volume keeps every tier.                                       *)
LEMMA StillEarned ==
    ASSUME NEW row, NEW v \in Nat, NEW w \in Nat, v <= w, Earned(row, v)
    PROVE  Earned(row, w)
<1>1. \A step \in FeeSteps : step.minimum \in Nat
  BY BillingAssumption
<1> QED
  BY <1>1 DEF Earned

(* What is held covers the hold of every contract.                         *)
LEMMA HeldCovers ==
    ASSUME Typed, Volumes, NEW c \in Contracts
    PROVE  /\ contract[c].held \in Nat
           /\ hold[c].status = "HELD" => contract[c].held <= money.held
<1> DEFINE f == HeldOf(contract, hold)
<1>1. \A d \in Contracts : contract[d].held \in Nat
  BY DEF Typed, ContractRow
<1>2. \A d \in Contracts : f[d] \in Nat /\ f[d] \in Int
  BY <1>1 DEF HeldOf, HeldIn
<1>3. f[c] = HeldIn(contract[c], hold[c])
  BY DEF HeldOf
<1>4. IsFiniteSet(Contracts) /\ IsFiniteSet(Contracts \ {c})
  BY BillingAssumption, FS_RemoveElement
<1> HIDE DEF f
<1>5. SumOf(f, Contracts) = f[c] + SumOf(f, Contracts \ {c})
  BY <1>2, <1>4, SumWithout
<1>6. SumOf(f, Contracts \ {c}) \in Nat
  BY <1>2, <1>4, SumOfNaturals
<1>7. money.held = SumOf(f, Contracts) /\ f[c] \in Nat
  BY <1>2 DEF Volumes, f
<1>8. f[c] <= money.held
  BY <1>5, <1>6, <1>7
<1> QED
  BY <1>1, <1>3, <1>8 DEF HeldIn

(* The books of one contract are written, and the volume does not shrink.  *)
LEMMA OneBooked ==
    ASSUME Typed, Typed', Volumes, NEW c \in Contracts, NEW part \in Nat,
           volume' = [volume EXCEPT ![c] = part], volume[c] <= part,
           \A d \in Contracts \ {c} : contract'[d] = contract[d] /\ hold'[d] = hold[d],
           Booked(contract'[c], hold'[c], part),
           \/ hold[c].status # "NONE" /\ contract'[c].fee = contract[c].fee
           \/ Earned(contract'[c], Volume(volume)),
           money' \in Purse,
           money'.held = money.held - HeldIn(contract[c], hold[c]) + HeldIn(contract'[c], hold'[c])
    PROVE  Volumes'
<1> DEFINE f == HeldOf(contract, hold)
           g == HeldOf(contract', hold')
<1>1. IsFiniteSet(Contracts)
  BY BillingAssumption
<1>2. /\ volume \in [Contracts -> Nat] /\ volume' \in [Contracts -> Nat] /\ volume'[c] = part
      /\ \A d \in Contracts : volume[d] \in Int /\ volume'[d] \in Int
      /\ \A d \in Contracts \ {c} : volume[d] = volume'[d]
  BY DEF Volumes
<1>3. \A d \in Contracts : Booked(contract'[d], hold'[d], volume'[d])
  BY <1>2 DEF Volumes
<1>4. Volume(volume) <= Volume(volume')
  BY <1>2, VolumeGrows
<1>5. Volume(volume) \in Nat /\ Volume(volume') \in Nat
  BY <1>2, VolumeIsNatural
<1>6. ASSUME NEW d \in Contracts, hold'[d].status # "NONE"
      PROVE  Earned(contract'[d], Volume(volume'))
  <2>1. Earned(contract'[d], Volume(volume))
    <3>1. CASE d # c
      BY <1>6, <3>1 DEF Volumes
    <3>2. CASE d = c /\ hold[c].status # "NONE" /\ contract'[c].fee = contract[c].fee
      BY <3>2 DEF Volumes, Earned
    <3> QED
      BY <3>1, <3>2
  <2> QED
    BY <1>4, <1>5, <2>1, StillEarned
<1>7. \A d \in Contracts : f[d] \in Int /\ g[d] \in Int
  <2>1. \A d \in Contracts : contract[d].held \in Nat /\ contract'[d].held \in Nat
    BY DEF Typed, ContractRow
  <2> QED
    BY <2>1 DEF HeldOf, HeldIn
<1>8. /\ f[c] = HeldIn(contract[c], hold[c]) /\ g[c] = HeldIn(contract'[c], hold'[c])
      /\ \A d \in Contracts \ {c} : f[d] = g[d]
  BY DEF HeldOf
<1> HIDE DEF f, g
<1>9. SumOf(g, Contracts) = SumOf(f, Contracts) - f[c] + g[c]
  <2>1. \A d \in Contracts \ {c} : f[d] = g[d]
    BY <1>8
  <2> QED
    BY <1>1, <1>7, <2>1, SumChanged
<1>10. money'.held = SumOf(g, Contracts)
  BY <1>8, <1>9 DEF Volumes, f
<1> QED
  BY <1>2, <1>3, <1>6, <1>10 DEF Volumes, g

(* No contract, no hold and no volume at first.                            *)
LEMMA VolumesInit == Init => Volumes
<1> SUFFICES ASSUME Init PROVE Volumes
  OBVIOUS
<1>1. /\ volume \in [Contracts -> Nat] /\ money \in Purse /\ money.held = 0
      /\ \A c \in Contracts : Booked(contract[c], hold[c], volume[c]) /\ hold[c].status = "NONE"
  BY BillingAssumption DEF Init, Purse, Booked, NoContract
<1>2. \A c \in Contracts : HeldOf(contract, hold)[c] = 0
  BY <1>1 DEF HeldOf, HeldIn
<1>3. SumOf(HeldOf(contract, hold), Contracts) = 0
  BY <1>2, BillingAssumption, SumOfZeros
<1> QED
  BY <1>1, <1>3 DEF Volumes

(* Nothing is booked.                                                      *)
LEMMA NotBooked ==
    ASSUME Volumes, UNCHANGED <<contract, hold, volume, money>>
    PROVE  Volumes'
BY DEF Volumes

(* Money of the buyer is held, or given back to him.                       *)
LEMMA MoneyHeld ==
    ASSUME NEW m \in Purse, NEW n \in Nat, n <= m.available,
           NEW mm, mm = [m EXCEPT !.available = @ - n, !.held = @ + n]
    PROVE  mm \in Purse /\ m.held \in Nat /\ mm.held = m.held + n
<1>1. mm = [available |-> m.available - n, held |-> m.held + n, supplier |-> m.supplier,
            referrer |-> m.referrer, clearing |-> m.clearing, expense |-> m.expense]
  BY DEF Purse
<1> QED
  BY <1>1 DEF Purse

(* Money that was held is the buyer's again.                               *)
LEMMA MoneyFreed ==
    ASSUME NEW m \in Purse, NEW n \in Nat, n <= m.held,
           NEW mm, mm = [m EXCEPT !.available = @ + n, !.held = @ - n]
    PROVE  mm \in Purse /\ m.held \in Nat /\ mm.held = m.held - n
<1>1. mm = [available |-> m.available + n, held |-> m.held - n, supplier |-> m.supplier,
            referrer |-> m.referrer, clearing |-> m.clearing, expense |-> m.expense]
  BY DEF Purse
<1> QED
  BY <1>1 DEF Purse

(* A contract goes on without its books.                                   *)
LEMMA ContractBooked ==
    ASSUME Typed, Typed', Volumes, NEW c \in Contracts, UNCHANGED <<hold, volume, money>>,
           \A d \in Contracts \ {c} : contract'[d] = contract[d],
           contract[c].status # "NONE", contract'[c].status # "NONE",
           contract'[c].fee = contract[c].fee, contract'[c].held = contract[c].held
    PROVE  Volumes'
<1>1. volume \in [Contracts -> Nat] /\ volume[c] \in Nat /\ Booked(contract[c], hold[c], volume[c])
  BY DEF Volumes
<1>2. volume' = [volume EXCEPT ![c] = volume[c]]
  BY <1>1
<1>3. HeldIn(contract[c], hold[c]) = HeldIn(contract'[c], hold'[c]) /\ HeldIn(contract[c], hold[c]) \in Int
  <2>1. contract[c].held \in Nat
    BY DEF Typed, ContractRow
  <2> QED
    BY <2>1 DEF HeldIn
<1>4. hold[c].status # "NONE" /\ Booked(contract'[c], hold'[c], volume[c])
  BY <1>1 DEF Booked
<1>5. money' \in Purse /\ money'.held = money.held - HeldIn(contract[c], hold[c]) + HeldIn(contract'[c], hold'[c])
  <2>1. money' = money /\ money \in Purse /\ money.held \in Int
    BY DEF Volumes, Purse
  <2> QED
    BY <1>3, <2>1
<1>6. volume[c] <= volume[c]
  BY <1>1
<1>7. \A d \in Contracts \ {c} : contract'[d] = contract[d] /\ hold'[d] = hold[d]
  OBVIOUS
<1> QED
  BY <1>1, <1>2, <1>4, <1>5, <1>6, <1>7, OneBooked

(* A reservation takes the tier of the volume so far.                      *)
LEMMA ReserveBooked ==
    ASSUME Typed, Typed', Volumes, NEW c \in Contracts, NEW seconds \in Rentals, Reserve(c, seconds)
    PROVE  Volumes'
<1> DEFINE price == CardHours(Rate[c], seconds)
<1>1. PICK step \in FeeSteps :
          /\ IsTier(step)
          /\ contract' = [contract EXCEPT ![c] =
                 [status |-> "HELD", reserved |-> seconds, held |-> price,
                  fee |-> step.fee, referral |-> DefaultReferral(step.fee),
                  measured |-> 0, settled |-> 0, income |-> 0, commission |-> 0,
                  referred |-> referred]]
  BY DEF Reserve
<1>2. /\ hold' = [hold EXCEPT ![c].status = "HELD"] /\ volume' = volume
      /\ money' = [money EXCEPT !.available = @ - price, !.held = @ + price]
      /\ contract[c].status = "NONE" /\ money.available >= price
  BY DEF Reserve
<1>3. contract'[c].held = price /\ contract'[c].fee = step.fee /\ contract'[c].status = "HELD"
      /\ \A d \in Contracts \ {c} : contract'[d] = contract[d]
  BY <1>1 DEF Typed
<1>4. price \in Nat
  BY <1>3 DEF Typed, ContractRow
<1> HIDE DEF price
<1>5. /\ hold'[c].status = "HELD"
      /\ \A d \in Contracts \ {c} : hold'[d] = hold[d]
  BY <1>2 DEF Typed, HoldRow
<1>6. volume[c] = 0 /\ hold[c].status = "NONE" /\ volume \in [Contracts -> Nat]
  BY <1>2 DEF Volumes, Booked
<1>7. volume' = [volume EXCEPT ![c] = 0]
  BY <1>2, <1>6
<1>8. Booked(contract'[c], hold'[c], 0)
  BY <1>3, <1>5 DEF Booked
<1>9. Earned(contract'[c], Volume(volume))
  BY <1>1, <1>3, LifetimeIsVolume DEF Earned, IsTier
<1>10. money' \in Purse /\ money'.held = money.held + price /\ money.held \in Nat
  BY <1>2, <1>4, MoneyHeld DEF Volumes
<1>11. HeldIn(contract[c], hold[c]) = 0 /\ HeldIn(contract'[c], hold'[c]) = price
  BY <1>3, <1>5, <1>6 DEF HeldIn
<1>12. money'.held = money.held - HeldIn(contract[c], hold[c]) + HeldIn(contract'[c], hold'[c])
  BY <1>4, <1>10, <1>11
<1>13. \A d \in Contracts \ {c} : contract'[d] = contract[d] /\ hold'[d] = hold[d]
  BY <1>3, <1>5
<1>14. 0 \in Nat /\ volume[c] <= 0
  BY <1>6
<1> QED
  BY <1>7, <1>8, <1>9, <1>10, <1>12, <1>13, <1>14, OneBooked

(* A hold goes back to the buyer: it counted for nothing.                  *)
LEMMA ReturnBooked ==
    ASSUME Typed, Typed', Volumes, NEW c \in Contracts, NEW status \in {"CANCELLED", "REFUNDED"},
           hold[c].status = "HELD", hold'[c].status = "RELEASED",
           \A d \in Contracts \ {c} : hold'[d] = hold[d],
           contract' = [contract EXCEPT ![c].status = status],
           volume' = volume \/ volume' = [volume EXCEPT ![c] = 0],
           money' = [money EXCEPT !.available = @ + contract[c].held, !.held = @ - contract[c].held]
    PROVE  Volumes'
<1>1. volume \in [Contracts -> Nat] /\ volume[c] = 0
  BY DEF Volumes, Booked
<1>2. volume' = [volume EXCEPT ![c] = 0]
  BY <1>1
<1>3. contract[c] \in ContractRow /\ contract'[c] = [contract[c] EXCEPT !.status = status]
      /\ \A d \in Contracts \ {c} : contract'[d] = contract[d]
  BY DEF Typed
<1>4. contract'[c].status = status /\ contract'[c].fee = contract[c].fee
  BY <1>3 DEF ContractRow
<1>5. Booked(contract'[c], hold'[c], 0)
  BY <1>4 DEF Booked
<1>6. contract[c].held \in Nat /\ contract[c].held <= money.held
  BY HeldCovers
<1>7. money' \in Purse /\ money'.held = money.held - contract[c].held /\ money.held \in Nat
  BY <1>6, MoneyFreed DEF Volumes
<1>8. HeldIn(contract[c], hold[c]) = contract[c].held /\ HeldIn(contract'[c], hold'[c]) = 0
  BY DEF HeldIn
<1>9. money'.held = money.held - HeldIn(contract[c], hold[c]) + HeldIn(contract'[c], hold'[c])
  BY <1>6, <1>7, <1>8
<1>10. \A d \in Contracts \ {c} : contract'[d] = contract[d] /\ hold'[d] = hold[d]
  BY <1>3
<1>11. 0 \in Nat /\ volume[c] <= 0
  BY <1>1
<1> QED
  BY <1>2, <1>4, <1>5, <1>7, <1>9, <1>10, <1>11, OneBooked

(* A settlement adds its price to the volume and empties its hold.         *)
LEMMA SettlementBooked ==
    ASSUME IInv, Typed', Volumes, NEW c \in Contracts, NEW by,
           contract[c].measured # 0, hold[c].status = "HELD", Captured(c, by),
           \A d \in Contracts \ {c} : contract'[d] = contract[d],
           contract'[c].fee = contract[c].fee, contract'[c].status # "NONE"
    PROVE  Volumes'
<1> DEFINE g == Gross(c)
           i == Income(c)
           m == Commission(c)
           h == contract[c].held
<1>1. Typed /\ ContractInv(c)
  BY DEF IInv
<1>2. g \in Nat /\ g <= h /\ h \in Nat /\ h <= money.held /\ i \in Nat /\ i <= g /\ m \in Nat
  BY <1>1, MeteredPrices, HeldCovers
<1>3. /\ hold' = [hold EXCEPT ![c] = [status |-> "SETTLED", settled |-> g, by |-> by]]
      /\ volume' = [volume EXCEPT ![c] = volume[c] + g]
      /\ money' = [available |-> money.available + h - g, held |-> money.held - h,
                   supplier |-> money.supplier + i, referrer |-> money.referrer + m,
                   clearing |-> money.clearing + g - i, expense |-> money.expense + m]
  BY DEF Captured
<1> HIDE DEF g, i, m
<1>4. volume[c] = 0 /\ volume \in [Contracts -> Nat]
  BY DEF Volumes, Booked
<1>5. volume' = [volume EXCEPT ![c] = g] /\ volume[c] <= g
  <2> DEFINE n == volume[c] + g
  <2>1. n = g /\ volume[c] <= g
    BY <1>2, <1>4
  <2>2. volume' = [volume EXCEPT ![c] = n]
    BY <1>3
  <2> HIDE DEF n
  <2> QED
    BY <2>1, <2>2
<1>6. /\ hold'[c] = [status |-> "SETTLED", settled |-> g, by |-> by]
      /\ \A d \in Contracts \ {c} : hold'[d] = hold[d]
  BY <1>1, <1>3 DEF Typed
<1>7. Booked(contract'[c], hold'[c], g)
  BY <1>6 DEF Booked
<1>8. money' \in Purse /\ money'.held = money.held - h /\ money.held \in Nat
  BY <1>2, <1>3 DEF Volumes, Purse
<1>9. HeldIn(contract[c], hold[c]) = h /\ HeldIn(contract'[c], hold'[c]) = 0
  BY <1>6 DEF HeldIn
<1>10. money'.held = money.held - HeldIn(contract[c], hold[c]) + HeldIn(contract'[c], hold'[c])
  BY <1>2, <1>8, <1>9
<1> QED
  BY <1>1, <1>2, <1>5, <1>6, <1>7, <1>8, <1>10, OneBooked

(* Every step keeps the volume and the wallet in step with the contracts.  *)
LEMMA VolumesStep == IInv /\ Typed' /\ Volumes /\ [Next]_vars => Volumes'
<1> SUFFICES ASSUME IInv, Typed', Volumes, [Next]_vars PROVE Volumes'
  OBVIOUS
<1>1. Typed
  BY DEF IInv
<1>2. ASSUME NEW c \in Contracts, Order(c) PROVE Volumes'
  <2>1. contract[c] \in ContractRow /\ hold[c] \in HoldRow /\ contract \in [Contracts -> ContractRow]
    BY <1>1 DEF Typed
  <2>2. ASSUME NEW s \in Statuses \ {"NONE"}, contract' = [contract EXCEPT ![c].status = s]
        PROVE  /\ \A d \in Contracts \ {c} : contract'[d] = contract[d]
               /\ contract'[c].status # "NONE"
               /\ contract'[c].fee = contract[c].fee /\ contract'[c].held = contract[c].held
    <3> DEFINE row == [contract[c] EXCEPT !.status = s]
    <3>1. row.status = s /\ row.fee = contract[c].fee /\ row.held = contract[c].held
      BY <2>1 DEF ContractRow
    <3>2. contract'[c] = row /\ \A d \in Contracts \ {c} : contract'[d] = contract[d]
      BY <2>1, <2>2
    <3> QED
      BY <3>1, <3>2
  <2>3. CASE \E seconds \in Rentals : Reserve(c, seconds)
    BY <1>1, <2>3, ReserveBooked
  <2>4. CASE \E status \in {"CANCELLED", "REFUNDED"} : ReleaseHold(c, status)
    <3>1. PICK status \in {"CANCELLED", "REFUNDED"} : ReleaseHold(c, status)
      BY <2>4
    <3>2. /\ hold[c].status = "HELD" /\ hold'[c].status = "RELEASED"
          /\ \A d \in Contracts \ {c} : hold'[d] = hold[d]
      BY <1>1, <3>1 DEF ReleaseHold, Typed, HoldRow
    <3> QED
      BY <1>1, <3>1, <3>2, ReturnBooked DEF ReleaseHold
  <2>5. CASE RefundDispute(c)
    <3>1. /\ hold[c].status = "HELD" /\ hold'[c].status = "RELEASED"
          /\ \A d \in Contracts \ {c} : hold'[d] = hold[d]
      BY <1>1, <2>5 DEF RefundDispute, Typed, HoldRow
    <3> QED
      BY <1>1, <2>5, <3>1, ReturnBooked DEF RefundDispute
  <2>6. CASE \E wall, reported \in Runtimes : CompleteStop(c, wall, reported)
    <3>1. PICK wall \in Runtimes, reported \in Runtimes : CompleteStop(c, wall, reported)
      BY <2>6
    <3> DEFINE n == Measured(contract[c].reserved, wall, reported)
               row == [contract[c] EXCEPT !.status = "AWAITING_ACCEPTANCE", !.measured = n]
    <3>2. contract' = [contract EXCEPT ![c] = row] /\ contract[c].status = "HELD"
          /\ UNCHANGED <<hold, volume, money>>
      BY <3>1 DEF CompleteStop, books
    <3>3. row.status # "NONE" /\ row.fee = contract[c].fee /\ row.held = contract[c].held
      BY <2>1 DEF ContractRow
    <3> HIDE DEF row
    <3>4. contract'[c] = row /\ \A d \in Contracts \ {c} : contract'[d] = contract[d]
      BY <2>1, <3>2
    <3> QED
      BY <1>1, <3>2, <3>3, <3>4, ContractBooked
  <2>7. CASE DisputeContract(c)
    BY <1>1, <2>2, <2>7, ContractBooked DEF DisputeContract, books, Statuses
  <2>8. CASE QueueDisputeCleanup(c)
    BY <1>1, <2>2, <2>8, ContractBooked DEF QueueDisputeCleanup, books, Statuses
  <2>9. CASE SettleDispute(c)
    <3> DEFINE g == Gross(c)
               i == Income(c)
               m == Commission(c)
               row == [contract[c] EXCEPT !.status = "SETTLED", !.settled = g, !.income = i, !.commission = m]
    <3>1. contract' = [contract EXCEPT ![c] = row] /\ hold[c].status = "HELD"
          /\ contract[c].status = "DISPUTED" /\ Captured(c, "dispute")
      BY <2>9 DEF SettleDispute
    <3>2. row.status # "NONE" /\ row.fee = contract[c].fee
      BY <2>1 DEF ContractRow
    <3> HIDE DEF row
    <3>3. contract'[c] = row /\ \A d \in Contracts \ {c} : contract'[d] = contract[d]
      BY <2>1, <3>1
    <3>4. contract[c].measured # 0
      BY <3>1 DEF IInv, ContractInv, Measurements
    <3> QED
      BY <3>1, <3>2, <3>3, <3>4, SettlementBooked
  <2> QED
    BY <1>2, <2>3, <2>4, <2>5, <2>6, <2>7, <2>8, <2>9 DEF Order
<1>3. ASSUME NEW k \in Callers, Settlement(k) PROVE Volumes'
  <2>1. CASE UNCHANGED <<contract, books>>
    BY <2>1, NotBooked DEF books
  <2>2. CASE SettleHostingOrder(k) \/ MarkContractSettled(k)
    <3>1. PICK c \in Contracts : c = call[k].contract /\ contract[c].measured # 0
      BY <2>2 DEF IInv, CallInv, SettleHostingOrder, MarkContractSettled
    <3>2. contract[c] \in ContractRow /\ contract \in [Contracts -> ContractRow]
      BY <1>1 DEF Typed
    <3>3. CASE SettleHostingOrder(k)
      <4> DEFINE row == [contract[c] EXCEPT !.status = "SETTLED"]
      <4>1. contract' = [contract EXCEPT ![c] = row] /\ hold[c].status = "HELD" /\ Captured(c, "acceptance")
        BY <3>1, <3>3 DEF SettleHostingOrder
      <4>2. row.status # "NONE" /\ row.fee = contract[c].fee
        BY <3>2 DEF ContractRow
      <4> HIDE DEF row
      <4>3. contract'[c] = row /\ \A d \in Contracts \ {c} : contract'[d] = contract[d]
        BY <3>2, <4>1
      <4> QED
        BY <3>1, <4>1, <4>2, <4>3, SettlementBooked
    <3>4. CASE MarkContractSettled(k)
      <4> DEFINE g == Gross(c)
                 i == Income(c)
                 m == call[k].commission
                 row == [contract[c] EXCEPT !.status = "CLEANING", !.settled = g, !.income = i,
                                            !.commission = m]
      <4>1. contract' = [contract EXCEPT ![c] = row] /\ contract[c].status = "SETTLED"
            /\ UNCHANGED <<hold, volume, money>>
        BY <3>1, <3>4 DEF MarkContractSettled, books
      <4>2. row.status # "NONE" /\ row.fee = contract[c].fee /\ row.held = contract[c].held
        BY <3>2 DEF ContractRow
      <4> HIDE DEF row
      <4>3. contract'[c] = row /\ \A d \in Contracts \ {c} : contract'[d] = contract[d]
        BY <3>2, <4>1
      <4> QED
        BY <1>1, <4>1, <4>2, <4>3, ContractBooked
    <3> QED
      BY <2>2, <3>3, <3>4
  <2>3. CASE (\E c \in Contracts : ReadContract(k, c)) \/ ReplaySettlement(k) \/ Abort(k)
    BY <2>1, <2>3 DEF ReadContract, ReplaySettlement, Abort
  <2> QED
    BY <1>3, <2>2, <2>3 DEF Settlement
<1>4. CASE AttachReferral
  BY <1>4, NotBooked DEF AttachReferral, books
<1>5. CASE UNCHANGED vars
  BY <1>5, NotBooked DEF vars
<1> QED
  BY <1>2, <1>3, <1>4, <1>5 DEF Next

(* For every price, schedule and clock: the volume that picks the next     *)
(* tier is what was settled and stayed settled, the volume behind the tier *)
(* of a contract never falls away from under it, and no amount is negative.*)
THEOREM VolumeStaysSettled == Spec => []VolumeIsSettled
<1>1. Init => IInv /\ Volumes
  BY InitIInv, VolumesInit
<1>2. IInv /\ Volumes /\ [Next]_vars => IInv' /\ Volumes'
  <2>1. IInv' => Typed'
    BY DEF IInv
  <2> QED
    BY <2>1, StepIInv, VolumesStep
<1>3. IInv /\ Volumes => VolumeIsSettled
  <2> SUFFICES ASSUME IInv, Volumes PROVE VolumeIsSettled
    OBVIOUS
  <2>1. TypeOK
    BY DEF IInv, Typed, Volumes, Purse, TypeOK, ContractRow, HoldRow, AccrualRow, CallRow
  <2>2. \A c \in Contracts : volume[c] = IF hold[c].status = "SETTLED" THEN hold[c].settled ELSE 0
    BY DEF Volumes, Booked
  <2>3. \A c \in Contracts : hold[c].status # "NONE" =>
            \E step \in FeeSteps : step.fee = contract[c].fee /\ step.minimum <= Lifetime
    BY LifetimeIsVolume DEF Volumes, Earned
  <2> QED
    BY <2>1, <2>2, <2>3 DEF VolumeIsSettled
<1> QED
  BY <1>1, <1>2, <1>3, PTL DEF Spec

-----------------------------------------------------------------------------
(* What comes to the market: lots.                                         *)

(* Of finitely many numbers there is a greatest.                           *)
LEMMA GreatestOf ==
    ASSUME NEW S, IsFiniteSet(S), S # {}, NEW f, \A x \in S : f[x] \in Int
    PROVE  \E x \in S : \A y \in S : f[y] <= f[x]
  <1> DEFINE Topped(X) == \E x \in X : \A y \in X : f[y] <= f[x]
             B == {X \in SUBSET S : X # {} /\ ~Topped(X)}
  <1>1. SUFFICES ASSUME ~Topped(S) PROVE FALSE
    OBVIOUS
  <1>2. B \subseteq SUBSET S /\ B # {}
    BY <1>1
  <1>3. \A X \in B : X \subseteq S /\ X # {} /\ ~Topped(X)
    OBVIOUS
  <1>4. \A X \in SUBSET S : X \in B \/ X = {} \/ Topped(X)
    OBVIOUS
  <1> HIDE DEF B
  <1>5. PICK X \in B : \A T \in B : T \subseteq X => T = X
    BY <1>2, SmallestSubset
  <1>6. PICK z \in X : TRUE
    BY <1>3, <1>5
  <1>7. X \ {z} = {} \/ Topped(X \ {z})
    <2>1. X \ {z} \in SUBSET S /\ X \ {z} \subseteq X /\ X \ {z} # X
      BY <1>3, <1>5, <1>6
    <2>2. X \ {z} \notin B
      BY <1>5, <2>1
    <2> HIDE DEF Topped
    <2> QED BY <1>4, <2>1, <2>2
  <1>8. \A x \in X : f[x] \in Int
    BY <1>3, <1>5
  <1>9. Topped(X)
    <2>1. CASE X \ {z} = {}
      BY <1>6, <1>8, <2>1
    <2>2. CASE Topped(X \ {z})
      <3>1. PICK x \in X \ {z} : \A y \in X \ {z} : f[y] <= f[x]
        BY <2>2
      <3>2. CASE f[z] <= f[x]
        BY <3>1, <3>2
      <3>3. CASE ~(f[z] <= f[x])
        <4>1. \A y \in X : f[y] <= f[z]
          BY <1>6, <1>8, <3>1, <3>3
        <4> QED BY <1>6, <4>1
      <3> QED BY <3>2, <3>3
    <2> QED BY <1>7, <2>1, <2>2
  <1> QED BY <1>3, <1>5, <1>9

-----------------------------------------------------------------------------
(* Rows of capacity, as far as sums of them go.                            *)
Sized(rows) ==
    /\ IsFiniteSet(DOMAIN rows)
    /\ \A i \in DOMAIN rows : rows[i].start \in Nat /\ rows[i].end \in Nat /\ rows[i].units \in Nat
UnitsIn(rows) == [i \in DOMAIN rows |-> rows[i].units]
BusyAt(rows, t) == {i \in DOMAIN rows : rows[i].start <= t /\ t < rows[i].end}
IsUnits(it, rows, S) ==
    it = [s \in SUBSET S |-> IF s = {} THEN 0 ELSE rows[AnyOf(s)].units + it[s \ {AnyOf(s)}]]

(* The units of an hour are a sum of naturals.                             *)
LEMMA UnitsAreSum ==
    ASSUME NEW rows, Sized(rows), NEW t
    PROVE  /\ IsFiniteSet(BusyAt(rows, t))
           /\ \A i \in BusyAt(rows, t) : UnitsIn(rows)[i] \in Nat
           /\ UnitsAt(rows, t) = SumOf(UnitsIn(rows), BusyAt(rows, t))
           /\ UnitsAt(rows, t) \in Nat
<1> DEFINE S == BusyAt(rows, t)
           f == UnitsIn(rows)
<1>0. S \subseteq DOMAIN rows
  BY DEF BusyAt
<1>1. IsFiniteSet(S) /\ \A i \in S : f[i] \in Nat
  BY <1>0, FS_Subset DEF Sized, UnitsIn
<1>2. ASSUME NEW it PROVE IsUnits(it, rows, S) <=> IsTable(it, f, S)
  <2>1. \A s \in SUBSET S : s # {} => f[AnyOf(s)] = rows[AnyOf(s)].units
    BY <1>0, AnyIsIn DEF UnitsIn
  <2> DEFINE g == [s \in SUBSET S |-> IF s = {} THEN 0 ELSE f[AnyOf(s)] + it[s \ {AnyOf(s)}]]
             h == [s \in SUBSET S |-> IF s = {} THEN 0 ELSE rows[AnyOf(s)].units + it[s \ {AnyOf(s)}]]
  <2> HIDE DEF S, f
  <2>2. g = h
    BY <2>1
  <2> QED BY <2>2 DEF IsUnits, IsTable
<1> DEFINE jt == CHOOSE it : IsUnits(it, rows, S)
<1>3. UnitsAt(rows, t) = jt[S]
  BY DEF UnitsAt, MapThenSumSet, MapThenFoldSet, IsUnits, AnyOf, BusyAt
<1> HIDE DEF S, f
<1>4. IsTable(jt, f, S)
  <2>1. PICK it : IsTable(it, f, S)
    BY <1>1, TableExists
  <2>2. IsUnits(it, rows, S)
    BY <1>2, <2>1
  <2>3. IsUnits(jt, rows, S)
    BY <2>2
  <2> QED BY <1>2, <2>3
<1> HIDE DEF jt
<1>5. PICK it : IsTable(it, f, S) /\ SumOf(f, S) = it[S]
  BY <1>1, SumIsTable
<1>6. it[S] = jt[S]
  BY <1>1, <1>4, <1>5, TablesAgree
<1>7. SumOf(f, S) \in Nat
  BY <1>1, SumOfNaturals
<1> QED BY <1>1, <1>3, <1>5, <1>6, <1>7 DEF S, f

(* Fewer rows, or rows of other hours, take no more.                       *)
LEMMA UnitsOfPart ==
    ASSUME NEW rows, Sized(rows), NEW few, Sized(few), NEW t, NEW u,
           \A i \in BusyAt(few, t) : i \in BusyAt(rows, u) /\ few[i].units = rows[i].units
    PROVE  UnitsAt(few, t) <= UnitsAt(rows, u)
<1>1. /\ UnitsAt(few, t) = SumOf(UnitsIn(few), BusyAt(few, t)) /\ UnitsAt(few, t) \in Nat
      /\ IsFiniteSet(BusyAt(few, t))
  BY UnitsAreSum
<1>2. /\ UnitsAt(rows, u) = SumOf(UnitsIn(rows), BusyAt(rows, u)) /\ UnitsAt(rows, u) \in Nat
      /\ IsFiniteSet(BusyAt(rows, u)) /\ \A i \in BusyAt(rows, u) : UnitsIn(rows)[i] \in Nat
  BY UnitsAreSum
<1>3. BusyAt(few, t) \subseteq BusyAt(rows, u)
  OBVIOUS
<1>4. SumOf(UnitsIn(rows), BusyAt(few, t)) <= SumOf(UnitsIn(rows), BusyAt(rows, u))
  BY <1>2, <1>3, SumOfPart
<1>5. SumOf(UnitsIn(few), BusyAt(few, t)) = SumOf(UnitsIn(rows), BusyAt(few, t))
  <2>1. \A i \in BusyAt(few, t) : UnitsIn(few)[i] = UnitsIn(rows)[i]
    BY DEF UnitsIn, BusyAt
  <2> QED BY <1>1, <2>1, SumOfSame
<1> QED BY <1>1, <1>2, <1>4, <1>5

(* A further row takes the hours of its window and no other.               *)
LEMMA UnitsWithRow ==
    ASSUME NEW rows, Sized(rows), NEW more, Sized(more), NEW l, l \notin DOMAIN rows,
           DOMAIN more = DOMAIN rows \cup {l}, \A i \in DOMAIN rows : more[i] = rows[i], NEW t \in Int
    PROVE  UnitsAt(more, t) = IF more[l].start <= t /\ t < more[l].end THEN UnitsAt(rows, t) + more[l].units
                              ELSE UnitsAt(rows, t)
<1>1. /\ UnitsAt(rows, t) = SumOf(UnitsIn(rows), BusyAt(rows, t)) /\ UnitsAt(rows, t) \in Nat
      /\ IsFiniteSet(BusyAt(rows, t)) /\ \A i \in BusyAt(rows, t) : UnitsIn(rows)[i] \in Nat
  BY UnitsAreSum
<1>2. /\ UnitsAt(more, t) = SumOf(UnitsIn(more), BusyAt(more, t))
      /\ \A i \in BusyAt(more, t) : UnitsIn(more)[i] \in Nat
  BY UnitsAreSum
<1>3. BusyAt(more, t) = IF more[l].start <= t /\ t < more[l].end THEN BusyAt(rows, t) \cup {l} ELSE BusyAt(rows, t)
  BY DEF BusyAt
<1>4. SumOf(UnitsIn(more), BusyAt(rows, t)) = SumOf(UnitsIn(rows), BusyAt(rows, t))
  <2>1. \A i \in BusyAt(rows, t) : UnitsIn(more)[i] = UnitsIn(rows)[i]
    BY DEF UnitsIn, BusyAt
  <2> QED BY <1>1, <2>1, SumOfSame
<1>5. CASE more[l].start <= t /\ t < more[l].end
  <2>1. l \notin BusyAt(rows, t) /\ BusyAt(more, t) = BusyAt(rows, t) \cup {l} /\ UnitsIn(more)[l] = more[l].units
    BY <1>3, <1>5 DEF BusyAt, UnitsIn
  <2>2. \A i \in BusyAt(rows, t) \cup {l} : UnitsIn(more)[i] \in Int
    BY <1>2, <2>1
  <2>3. SumOf(UnitsIn(more), BusyAt(rows, t) \cup {l}) = UnitsIn(more)[l] + SumOf(UnitsIn(more), BusyAt(rows, t))
    BY <1>1, <2>1, <2>2, SumWith
  <2>4. more[l].units \in Nat
    BY DEF Sized
  <2> QED BY <1>1, <1>2, <1>4, <1>5, <2>1, <2>3, <2>4
<1> QED BY <1>1, <1>2, <1>3, <1>4, <1>5

(* A sum within the limit at the start of a window and at the starts       *)
(* inside it is within the limit in every hour of it.                      *)
LEMMA StartsSuffice ==
    ASSUME NEW rows, Sized(rows), NEW limit \in Nat, NEW w, w.start \in Nat, w.end \in Nat, w.units \in Nat,
           Fits(rows, w, limit) \/ FitsD1(rows, w, limit), NEW t \in Int, w.start <= t, t < w.end
    PROVE  UnitsAt(rows, t) + w.units <= limit
<1> DEFINE B == BusyAt(rows, t)
           A == {i \in B : rows[i].start >= w.start}
           f == [i \in DOMAIN rows |-> rows[i].start]
<1>1. /\ B \subseteq DOMAIN rows /\ A \subseteq DOMAIN rows
      /\ \A i \in B : rows[i].start <= t /\ t < rows[i].end
      /\ \A i \in DOMAIN rows : rows[i].start \in Nat /\ rows[i].end \in Nat
  BY DEF BusyAt, Sized
<1>2. IsFiniteSet(A) /\ \A i \in A : f[i] \in Int
  BY <1>1, FS_Subset DEF Sized
<1>3. \E s \in {w.start} \cup {f[i] : i \in A} : \A i \in A : f[i] <= s
  <2>1. CASE A = {}
    BY <2>1
  <2>2. CASE A # {}
    <3> HIDE DEF A, f
    <3>1. PICK x \in A : \A y \in A : f[y] <= f[x]
      BY <1>2, <2>2, GreatestOf
    <3> QED BY <3>1
  <2> QED BY <2>1, <2>2
<1>4. PICK s \in {w.start} \cup {f[i] : i \in A} : \A i \in A : f[i] <= s
  BY <1>3
<1>5. s \in Int /\ s >= w.start /\ s <= t
  <2>1. CASE s = w.start
    BY <2>1
  <2>2. CASE s \in {f[i] : i \in A}
    BY <1>1, <1>2, <2>2
  <2> QED BY <1>4, <2>1, <2>2
<1>6. ASSUME NEW i \in B PROVE i \in Overlapping(rows, w) /\ rows[i].start = f[i]
  BY <1>1 DEF Overlapping
<1>7. s \in {w.start} \cup {rows[i].start : i \in Overlapping(rows, w)}
  BY <1>4, <1>6
<1>8. UnitsAt(rows, s) + w.units <= limit
  BY <1>5, <1>7 DEF Fits, FitsD1
<1>9. ASSUME NEW i \in B PROVE i \in BusyAt(rows, s)
  <2>1. CASE i \in A
    <3>1. rows[i].start <= s
      BY <1>4, <1>1, <2>1
    <3> QED BY <1>1, <1>5, <3>1 DEF BusyAt
  <2>2. CASE i \notin A
    BY <1>1, <1>5, <2>2 DEF BusyAt
  <2> QED BY <2>1, <2>2
<1>10. UnitsAt(rows, t) <= UnitsAt(rows, s)
  BY <1>9, UnitsOfPart
<1>11. UnitsAt(rows, t) \in Nat /\ UnitsAt(rows, s) \in Nat
  BY UnitsAreSum
<1> QED BY <1>8, <1>10, <1>11

-----------------------------------------------------------------------------
(* What else is known of a lot: one that is ready was never touched, and   *)
(* one that there is names a run.                                          *)
Touched(l) ==
    /\ lots[l].status = "READY" => lots[l].version = 1 /\ lots[l].listings = 0 /\ moves[l] = {"issued"}
    /\ lots[l] # NoLot => lots[l].run \in DOMAIN runs

LotsInv == LotsTypeOK /\ LotsFit /\ WithdrawalReplays /\ \A l \in Lots : Touched(l)

LotRow == [status : {"READY", "LISTED", "WITHDRAWN"}, version : {1, 2},
           listings : Nat, win : Windows, run : Nat \ {0}]

(* A lot that is in a status is there.                                     *)
LEMMA LotIsThere ==
    ASSUME LotsTypeOK, NEW l \in Lots, lots[l].status # "NONE"
    PROVE  lots[l] \in LotRow /\ lots[l] # NoLot
  BY DEF LotsTypeOK, LotRow, NoLot

(* A row of a lot is not that of no lot.                                   *)
LEMMA LotRows ==
    ASSUME NEW r \in LotRow
    PROVE  r # NoLot /\ r.status # "NONE"
<1>1. r.status # NoLot.status
  BY DEF LotRow, NoLot
<1> QED BY <1>1 DEF NoLot

(* The windows of the rows that stand.                                     *)
StandingOf(rows) == [l \in {k \in Lots : rows[k].status \in {"READY", "LISTED"}} |-> rows[l].win]

(* The lots that stand can be summed.                                      *)
LEMMA StandingMeasured ==
    ASSUME NEW rows \in [Lots -> {NoLot} \cup LotRow]
    PROVE  /\ Sized(StandingOf(rows))
           /\ DOMAIN StandingOf(rows) = {k \in Lots : rows[k].status \in {"READY", "LISTED"}}
           /\ \A l \in DOMAIN StandingOf(rows) :
                  StandingOf(rows)[l] = rows[l].win /\ rows[l] \in LotRow /\ rows[l].win \in Windows
<1>1. DOMAIN StandingOf(rows) = {k \in Lots : rows[k].status \in {"READY", "LISTED"}}
  BY DEF StandingOf
<1>2. \A l \in DOMAIN StandingOf(rows) : StandingOf(rows)[l] = rows[l].win /\ rows[l] \in LotRow
  BY <1>1 DEF StandingOf, NoLot
<1>3. \A w \in Windows : w.start \in Nat /\ w.end \in Nat /\ w.units \in Nat
  BY SupplyAssumption
<1>4. \A l \in DOMAIN StandingOf(rows) : rows[l].win \in Windows
  BY <1>2 DEF LotRow
<1>5. IsFiniteSet(DOMAIN StandingOf(rows))
  BY <1>1, SupplyAssumption, FS_Subset
<1> QED BY <1>1, <1>2, <1>3, <1>4, <1>5 DEF Sized

(* In the initial state there are no lots.                                 *)
LEMMA LotsStart == LotsInit => LotsInv
<1> SUFFICES ASSUME LotsInit PROVE LotsInv
  OBVIOUS
<1>1. LotsTypeOK
  <2>1. runs \in Seq([result : {"PASS", "FAIL"}, until : Nat])
    BY DEF LotsInit
  <2>2. quote \in Seq({"QUOTED", "OPS_REVIEW", "CANCELLED", "EXPIRED"})
    BY DEF LotsInit
  <2> QED BY <2>1, <2>2 DEF LotsInit, LotsTypeOK
<1>2. DOMAIN Standing = {}
  BY DEF Standing, LotsInit, NoLot
<1>3. ASSUME NEW t PROVE UnitsAt(Standing, t) <= TotalUnits
  <2>1. BusyAt(Standing, t) = {}
    BY <1>2 DEF BusyAt
  <2>2. UnitsAt(Standing, t) = SumOf(UnitsIn(Standing), {})
    <3>1. lots \in [Lots -> {NoLot} \cup LotRow] /\ Standing = StandingOf(lots)
      BY <1>1 DEF LotsTypeOK, LotRow, Standing, StandingOf
    <3>2. Sized(Standing)
      BY <3>1, StandingMeasured
    <3> QED BY <2>1, <3>2, UnitsAreSum
  <2> QED BY <2>2, SumOfNothing, SupplyAssumption
<1>4. LotsFit
  BY <1>2, <1>3 DEF LotsFit
<1>5. WithdrawalReplays /\ \A l \in Lots : Touched(l)
  BY DEF WithdrawalReplays, Touched, LotsInit, NoLot
<1> QED BY <1>1, <1>4, <1>5 DEF LotsInv

(* A step that leaves the lots and the runs alone.                         *)
LEMMA LotsUnchanged ==
    ASSUME LotsInv, UNCHANGED supply, LotsTypeOK'
    PROVE  LotsInv'
<1>1. resource' = resource /\ runs' = runs /\ lots' = lots /\ moves' = moves /\ withdrawals' = withdrawals
  BY DEF supply
<1>2. Standing' = Standing
  BY <1>1 DEF Standing
<1>3. LotsFit'
  BY <1>1, <1>2 DEF LotsInv, LotsFit
<1>4. WithdrawalReplays'
  BY <1>1 DEF LotsInv, WithdrawalReplays
<1>5. \A l \in Lots : Touched(l)'
  BY <1>1 DEF LotsInv, Touched
<1> QED BY <1>3, <1>4, <1>5 DEF LotsInv

(* A verification touches no lot and no earlier run.                       *)
LEMMA RunsGrow ==
    ASSUME LotsInv, NEW result \in {"PASS", "FAIL"}, NEW until \in Validities, CreateVerification(result, until)
    PROVE  LotsInv'
<1>1. /\ lots' = lots /\ moves' = moves /\ withdrawals' = withdrawals
      /\ store' = store /\ quote' = quote /\ over' = over /\ req' = req
      /\ runs' = Append(runs, [result |-> result, until |-> IF result = "PASS" THEN until ELSE 0])
      /\ resource' \in {"VERIFIED", "REJECTED"}
  BY DEF CreateVerification
<1>2. runs \in Seq([result : {"PASS", "FAIL"}, until : Nat])
  BY DEF LotsInv, LotsTypeOK
<1>3. [result |-> result, until |-> IF result = "PASS" THEN until ELSE 0] \in [result : {"PASS", "FAIL"}, until : Nat]
  BY SupplyAssumption
<1>4. /\ runs' \in Seq([result : {"PASS", "FAIL"}, until : Nat])
      /\ \A i \in DOMAIN runs : i \in DOMAIN runs' /\ runs'[i] = runs[i]
  BY <1>1, <1>2, <1>3
<1>5. LotsTypeOK'
  <2>1. LotsTypeOK
    BY DEF LotsInv
  <2> QED BY <1>1, <1>4, <2>1 DEF LotsTypeOK
<1>6. \A l \in Lots : Touched(l)'
  BY <1>1, <1>4 DEF LotsInv, Touched
<1>7. Standing' = Standing
  BY <1>1 DEF Standing
<1>8. LotsFit'
  <2>1. \A l \in DOMAIN Standing : lots[l] # NoLot /\ l \in Lots
    BY DEF Standing, NoLot
  <2>2. \A l \in DOMAIN Standing : lots[l].run \in DOMAIN runs
    BY <2>1 DEF LotsInv, Touched
  <2> QED BY <1>1, <1>4, <1>7, <2>2 DEF LotsInv, LotsFit
<1>9. WithdrawalReplays'
  BY <1>1 DEF LotsInv, WithdrawalReplays
<1> QED BY <1>5, <1>6, <1>8, <1>9 DEF LotsInv

(* A lot is cut from what no other lot has.                                *)
LEMMA LotIsCut ==
    ASSUME LotsInv, NEW l \in Lots, NEW w \in Windows, NEW run \in DOMAIN runs, CreateCapacityLot(l, w, run)
    PROVE  LotsInv'
<1> DEFINE r == [status |-> "READY", version |-> 1, listings |-> 0, win |-> w, run |-> run]
<1>t. LotsTypeOK
  BY DEF LotsInv
<1>g. /\ lots[l] = NoLot /\ runs[run].result = "PASS" /\ runs[run].until >= w.end
      /\ Fits(Standing, w, TotalUnits) \/ FitsD1(Standing, w, TotalUnits)
      /\ lots' = [lots EXCEPT ![l] = r]
      /\ moves' = [moves EXCEPT ![l] = {"issued"}]
  BY DEF CreateCapacityLot
<1>u. /\ store' = store /\ resource' = resource /\ runs' = runs /\ withdrawals' = withdrawals
      /\ quote' = quote /\ over' = over /\ req' = req
  BY DEF CreateCapacityLot
<1>1. r \in LotRow
  <2>1. run \in Nat \ {0}
    BY <1>t DEF LotsTypeOK
  <2> QED BY <2>1 DEF LotRow
<1>2. /\ lots'[l] = r /\ r # NoLot /\ moves'[l] = {"issued"}
      /\ \A k \in Lots : k # l => lots'[k] = lots[k] /\ moves'[k] = moves[k]
  BY <1>t, <1>g, <1>1, LotRows DEF LotsTypeOK
<1>3. LotsTypeOK'
  <2>1. lots' \in [Lots -> {NoLot} \cup LotRow]
    BY <1>t, <1>g, <1>1 DEF LotsTypeOK, LotRow
  <2>2. moves' \in [Lots -> SUBSET ({"issued"} \cup Withdrawals)]
    BY <1>t, <1>g DEF LotsTypeOK
  <2> QED BY <1>t, <1>u, <2>1, <2>2 DEF LotsTypeOK, LotRow
<1>4. \A k \in Lots : Touched(k)'
  <2>1. \A k \in Lots : Touched(k)
    BY DEF LotsInv
  <2> QED BY <1>u, <1>2, <2>1 DEF Touched
<1>5. WithdrawalReplays'
  <2>1. ASSUME NEW k \in Withdrawals, withdrawals'[k] # NoWithdrawal
        PROVE  withdrawals'[k].lot \in Lots /\ withdrawals'[k].lot # l
    <3>1. withdrawals[k].lot \in Lots /\ lots[withdrawals[k].lot].status = "WITHDRAWN"
      BY <1>t, <1>u, <2>1 DEF LotsInv, LotsTypeOK, WithdrawalReplays
    <3> QED BY <1>g, <1>u, <3>1 DEF NoLot
  <2>2. \A k \in Lots : lots'[k].status = "LISTED" => moves'[k] = {"issued"} /\ lots'[k].listings = 1
    BY <1>2 DEF LotsInv, WithdrawalReplays
  <2>3. ASSUME NEW k \in Withdrawals, withdrawals'[k] # NoWithdrawal
        PROVE  LET x == withdrawals'[k].lot IN
               /\ lots'[x].status = "WITHDRAWN" /\ lots'[x].version = withdrawals'[k].expected + 1
               /\ moves'[x] = {"issued", k} /\ lots'[x].listings = 0
    BY <1>u, <1>2, <2>1, <2>3 DEF LotsInv, WithdrawalReplays
  <2> QED BY <2>2, <2>3 DEF WithdrawalReplays
<1>6. LotsFit'
  <2>0. /\ lots \in [Lots -> {NoLot} \cup LotRow] /\ Standing = StandingOf(lots)
        /\ lots' \in [Lots -> {NoLot} \cup LotRow] /\ Standing' = StandingOf(lots')
    BY <1>t, <1>3 DEF LotsTypeOK, LotRow, Standing, StandingOf
  <2>1. /\ Sized(Standing)
        /\ DOMAIN Standing = {k \in Lots : lots[k].status \in {"READY", "LISTED"}}
        /\ \A k \in DOMAIN Standing : Standing[k] = lots[k].win
    BY <2>0, StandingMeasured
  <2> DEFINE new == StandingOf(lots')
  <2>2. /\ Sized(new)
        /\ DOMAIN new = {k \in Lots : lots'[k].status \in {"READY", "LISTED"}}
        /\ \A k \in DOMAIN new : new[k] = lots'[k].win
    BY <2>0, StandingMeasured
  <2>3. /\ l \notin DOMAIN Standing
        /\ DOMAIN new = DOMAIN Standing \cup {l} /\ new[l] = w
        /\ \A k \in DOMAIN Standing : new[k] = Standing[k]
    <3>1. lots[l].status \notin {"READY", "LISTED"} /\ r.status = "READY" /\ r.win = w
      BY <1>g DEF NoLot
    <3> QED BY <1>2, <2>1, <2>2, <3>1
  <2>4. Sized(new) /\ Standing' = new
    BY <2>0, <2>2
  <2> HIDE DEF new
  <2>5. ASSUME NEW v \in Windows, NEW t \in v.start .. v.end - 1 PROVE UnitsAt(new, t) <= TotalUnits
    <3>1. t \in Int
      OBVIOUS
    <3>2. UnitsAt(new, t) = IF w.start <= t /\ t < w.end THEN UnitsAt(Standing, t) + w.units ELSE UnitsAt(Standing, t)
      BY <2>1, <2>3, <2>4, <3>1, UnitsWithRow
    <3>3. CASE w.start <= t /\ t < w.end
      <4>1. w.start \in Nat /\ w.end \in Nat /\ w.units \in Nat /\ TotalUnits \in Nat
        BY SupplyAssumption
      <4>2. UnitsAt(Standing, t) + w.units <= TotalUnits
        BY <1>g, <2>1, <3>1, <3>3, <4>1, StartsSuffice
      <4> QED BY <3>2, <3>3, <4>2
    <3>4. CASE ~(w.start <= t /\ t < w.end)
      BY <3>2, <3>4 DEF LotsInv, LotsFit
    <3> QED BY <3>3, <3>4
  <2>6. \A k \in DOMAIN new : runs'[lots'[k].run].result = "PASS" /\ runs'[lots'[k].run].until >= lots'[k].win.end
    <3>1. \A k \in DOMAIN Standing : k \in Lots /\ k # l
      BY <2>1, <2>3
    <3>2. r.run = run /\ r.win = w
      OBVIOUS
    <3> QED BY <1>g, <1>u, <1>2, <2>3, <3>1, <3>2 DEF LotsInv, LotsFit
  <2> QED BY <2>4, <2>5, <2>6 DEF LotsFit
<1> QED BY <1>3, <1>4, <1>5, <1>6 DEF LotsInv

(* A listing leaves what stands as it is.                                  *)
LEMMA LotIsListed ==
    ASSUME LotsInv, NEW l \in Lots, CreateListing(l)
    PROVE  LotsInv'
<1> DEFINE old == lots[l]
           r == [old EXCEPT !.status = "LISTED", !.version = @ + 1, !.listings = @ + 1]
<1>t. LotsTypeOK
  BY DEF LotsInv
<1>g. lots[l].status = "READY" /\ lots' = [lots EXCEPT ![l] = r]
  BY DEF CreateListing
<1>u. /\ store' = store /\ resource' = resource /\ runs' = runs /\ withdrawals' = withdrawals
      /\ moves' = moves /\ quote' = quote /\ over' = over /\ req' = req
  BY DEF CreateListing
<1>0. /\ old \in LotRow /\ old.version = 1 /\ old.listings = 0 /\ moves[l] = {"issued"} /\ old # NoLot
      /\ old.run \in DOMAIN runs
  <2>1. old \in LotRow /\ old # NoLot
    BY <1>t, <1>g, LotIsThere
  <2> QED BY <1>g, <2>1 DEF LotsInv, Touched
<1>1. /\ r \in LotRow /\ r.status = "LISTED" /\ r.version = 2 /\ r.listings = 1
      /\ r.win = old.win /\ r.run = old.run
  <2> DEFINE p == [status |-> "LISTED", version |-> 2, listings |-> 1, win |-> old.win, run |-> old.run]
  <2> HIDE DEF old
  <2>1. old = [status |-> old.status, version |-> 1, listings |-> 0, win |-> old.win, run |-> old.run]
    BY <1>0 DEF LotRow
  <2>2. r = p
    <3>1. DOMAIN r = DOMAIN p
      BY <2>1
    <3>2. r.status = p.status /\ r.version = p.version /\ r.listings = p.listings
      BY <2>1
    <3>3. r.win = p.win
      BY <2>1
    <3>4. r.run = p.run
      BY <2>1
    <3> QED BY <2>1, <3>1, <3>2, <3>3, <3>4
  <2>3. p \in LotRow
    BY <1>0 DEF LotRow
  <2> HIDE DEF r
  <2> QED BY <2>2, <2>3
<1> HIDE DEF r
<1>2. /\ lots'[l] = r /\ r # NoLot
      /\ \A k \in Lots : k # l => lots'[k] = lots[k]
  BY <1>t, <1>g, <1>1, LotRows DEF LotsTypeOK
<1>3. LotsTypeOK'
  <2>1. lots' \in [Lots -> {NoLot} \cup LotRow]
    BY <1>t, <1>g, <1>1 DEF LotsTypeOK, LotRow
  <2> QED BY <1>t, <1>u, <2>1 DEF LotsTypeOK, LotRow
<1>4. \A k \in Lots : Touched(k)'
  <2>1. \A k \in Lots : Touched(k)
    BY DEF LotsInv
  <2> QED BY <1>u, <1>0, <1>1, <1>2, <2>1 DEF Touched
<1>5. WithdrawalReplays'
  <2>1. ASSUME NEW k \in Withdrawals, withdrawals'[k] # NoWithdrawal
        PROVE  withdrawals'[k].lot \in Lots /\ withdrawals'[k].lot # l
    <3>1. withdrawals[k].lot \in Lots /\ lots[withdrawals[k].lot].status = "WITHDRAWN"
      BY <1>t, <1>u, <2>1 DEF LotsInv, LotsTypeOK, WithdrawalReplays
    <3> QED BY <1>g, <1>u, <3>1
  <2>2. \A k \in Lots : lots'[k].status = "LISTED" => moves'[k] = {"issued"} /\ lots'[k].listings = 1
    BY <1>u, <1>0, <1>1, <1>2 DEF LotsInv, WithdrawalReplays
  <2>3. ASSUME NEW k \in Withdrawals, withdrawals'[k] # NoWithdrawal
        PROVE  LET x == withdrawals'[k].lot IN
               /\ lots'[x].status = "WITHDRAWN" /\ lots'[x].version = withdrawals'[k].expected + 1
               /\ moves'[x] = {"issued", k} /\ lots'[x].listings = 0
    BY <1>u, <1>2, <2>1, <2>3 DEF LotsInv, WithdrawalReplays
  <2> QED BY <2>2, <2>3 DEF WithdrawalReplays
<1>6. LotsFit'
  <2>1. {k \in Lots : lots'[k].status \in {"READY", "LISTED"}} = {k \in Lots : lots[k].status \in {"READY", "LISTED"}}
    BY <1>g, <1>1, <1>2
  <2>2. \A k \in Lots : lots'[k].status \in {"READY", "LISTED"} => lots'[k].win = lots[k].win /\ lots'[k].run = lots[k].run
    BY <1>1, <1>2
  <2>3. Standing' = Standing
    BY <2>1, <2>2 DEF Standing
  <2>4. \A k \in DOMAIN Standing : lots'[k].win = lots[k].win /\ lots'[k].run = lots[k].run
    BY <2>1, <2>2 DEF Standing
  <2> QED BY <1>u, <2>3, <2>4 DEF LotsInv, LotsFit
<1> QED BY <1>3, <1>4, <1>5, <1>6 DEF LotsInv

(* A withdrawal takes a lot from what stands and is found on its replay.   *)
LEMMA LotIsWithdrawn ==
    ASSUME LotsInv, NEW l \in Lots, NEW y \in Withdrawals, WithdrawCapacityLot(l, y)
    PROVE  LotsInv'
<1> DEFINE old == lots[l]
           r == [old EXCEPT !.status = "WITHDRAWN", !.version = @ + 1]
<1>t. LotsTypeOK
  BY DEF LotsInv
<1>g. /\ lots[l].status = "READY" /\ lots' = [lots EXCEPT ![l] = r]
      /\ moves' = [moves EXCEPT ![l] = @ \cup {y}]
      /\ withdrawals[y] = NoWithdrawal
      /\ withdrawals' = [withdrawals EXCEPT ![y] = [lot |-> l, expected |-> lots[l].version]]
  BY DEF WithdrawCapacityLot, Eligible
<1>u. /\ store' = store /\ resource' = resource /\ runs' = runs
      /\ quote' = quote /\ over' = over /\ req' = req
  BY DEF WithdrawCapacityLot
<1>0. /\ old \in LotRow /\ old.version = 1 /\ old.listings = 0 /\ moves[l] = {"issued"} /\ old # NoLot
      /\ old.run \in DOMAIN runs
  <2>1. old \in LotRow /\ old # NoLot
    BY <1>t, <1>g, LotIsThere
  <2> QED BY <1>g, <2>1 DEF LotsInv, Touched
<1>1. /\ r \in LotRow /\ r.status = "WITHDRAWN" /\ r.version = 2 /\ r.listings = 0
      /\ r.win = old.win /\ r.run = old.run
  <2> DEFINE p == [status |-> "WITHDRAWN", version |-> 2, listings |-> 0, win |-> old.win, run |-> old.run]
  <2> HIDE DEF old
  <2>1. old = [status |-> old.status, version |-> 1, listings |-> 0, win |-> old.win, run |-> old.run]
    BY <1>0 DEF LotRow
  <2>2. r = p
    <3>1. DOMAIN r = DOMAIN p
      BY <2>1
    <3>2. r.status = p.status /\ r.version = p.version /\ r.listings = p.listings
      BY <2>1
    <3>3. r.win = p.win
      BY <2>1
    <3>4. r.run = p.run
      BY <2>1
    <3> QED BY <2>1, <3>1, <3>2, <3>3, <3>4
  <2>3. p \in LotRow
    BY <1>0 DEF LotRow
  <2> HIDE DEF r
  <2> QED BY <2>2, <2>3
<1> HIDE DEF r
<1>2. /\ lots'[l] = r /\ r # NoLot /\ moves'[l] = {"issued", y}
      /\ \A k \in Lots : k # l => lots'[k] = lots[k] /\ moves'[k] = moves[k]
  BY <1>t, <1>g, <1>0, <1>1, LotRows DEF LotsTypeOK
<1>w. /\ withdrawals'[y] = [lot |-> l, expected |-> 1]
      /\ \A k \in Withdrawals : k # y => withdrawals'[k] = withdrawals[k]
      /\ withdrawals' \in [Withdrawals -> {NoWithdrawal} \cup [lot : Lots, expected : Nat \ {0}]]
  BY <1>t, <1>g, <1>0 DEF LotsTypeOK
<1>3. LotsTypeOK'
  <2>1. lots' \in [Lots -> {NoLot} \cup LotRow]
    BY <1>t, <1>g, <1>1 DEF LotsTypeOK, LotRow
  <2>2. moves' \in [Lots -> SUBSET ({"issued"} \cup Withdrawals)]
    BY <1>t, <1>g DEF LotsTypeOK
  <2> QED BY <1>t, <1>u, <1>w, <2>1, <2>2 DEF LotsTypeOK, LotRow
<1>4. \A k \in Lots : Touched(k)'
  <2>1. \A k \in Lots : Touched(k)
    BY DEF LotsInv
  <2> QED BY <1>u, <1>0, <1>1, <1>2, <2>1 DEF Touched
<1>5. WithdrawalReplays'
  <2>1. ASSUME NEW k \in Withdrawals, k # y, withdrawals'[k] # NoWithdrawal
        PROVE  withdrawals'[k].lot \in Lots /\ withdrawals'[k].lot # l
    <3>1. withdrawals[k].lot \in Lots /\ lots[withdrawals[k].lot].status = "WITHDRAWN"
      BY <1>t, <1>w, <2>1 DEF LotsInv, LotsTypeOK, WithdrawalReplays
    <3> QED BY <1>g, <1>w, <2>1, <3>1
  <2>2. \A k \in Lots : lots'[k].status = "LISTED" => moves'[k] = {"issued"} /\ lots'[k].listings = 1
    BY <1>1, <1>2 DEF LotsInv, WithdrawalReplays
  <2>3. ASSUME NEW k \in Withdrawals, k # y, withdrawals'[k] # NoWithdrawal
        PROVE  LET x == withdrawals'[k].lot IN
               /\ lots'[x].status = "WITHDRAWN" /\ lots'[x].version = withdrawals'[k].expected + 1
               /\ moves'[x] = {"issued", k} /\ lots'[x].listings = 0
    BY <1>w, <1>2, <2>1, <2>3 DEF LotsInv, WithdrawalReplays
  <2>4. LET x == withdrawals'[y].lot IN
        /\ lots'[x].status = "WITHDRAWN" /\ lots'[x].version = withdrawals'[y].expected + 1
        /\ moves'[x] = {"issued", y} /\ lots'[x].listings = 0
    BY <1>1, <1>2, <1>w
  <2> QED BY <2>2, <2>3, <2>4 DEF WithdrawalReplays
<1>6. LotsFit'
  <2>0. /\ lots \in [Lots -> {NoLot} \cup LotRow] /\ Standing = StandingOf(lots)
        /\ lots' \in [Lots -> {NoLot} \cup LotRow] /\ Standing' = StandingOf(lots')
    BY <1>t, <1>3 DEF LotsTypeOK, LotRow, Standing, StandingOf
  <2>1. /\ Sized(Standing)
        /\ DOMAIN Standing = {k \in Lots : lots[k].status \in {"READY", "LISTED"}}
        /\ \A k \in DOMAIN Standing : Standing[k] = lots[k].win
    BY <2>0, StandingMeasured
  <2> DEFINE new == StandingOf(lots')
  <2>2. /\ Sized(new)
        /\ DOMAIN new = {k \in Lots : lots'[k].status \in {"READY", "LISTED"}}
        /\ \A k \in DOMAIN new : new[k] = lots'[k].win
    BY <2>0, StandingMeasured
  <2>3. \A k \in DOMAIN new : k \in DOMAIN Standing /\ lots'[k] = lots[k] /\ new[k] = Standing[k]
    BY <1>1, <1>2, <2>1, <2>2
  <2> HIDE DEF new
  <2>4. ASSUME NEW v \in Windows, NEW t \in v.start .. v.end - 1 PROVE UnitsAt(new, t) <= TotalUnits
    <3>1. \A i \in BusyAt(new, t) : i \in BusyAt(Standing, t) /\ new[i].units = Standing[i].units
      BY <2>3 DEF BusyAt
    <3>2. UnitsAt(new, t) <= UnitsAt(Standing, t)
      BY <2>1, <2>2, <3>1, UnitsOfPart
    <3>3. UnitsAt(Standing, t) <= TotalUnits
      BY DEF LotsInv, LotsFit
    <3>4. UnitsAt(new, t) \in Nat /\ UnitsAt(Standing, t) \in Nat /\ TotalUnits \in Nat
      BY <2>1, <2>2, UnitsAreSum, SupplyAssumption
    <3> QED BY <3>2, <3>3, <3>4
  <2>5. \A k \in DOMAIN new : runs'[lots'[k].run].result = "PASS" /\ runs'[lots'[k].run].until >= lots'[k].win.end
    BY <1>u, <2>3 DEF LotsInv, LotsFit
  <2>6. Standing' = new
    BY <2>0 DEF new
  <2> QED BY <2>4, <2>5, <2>6 DEF LotsFit
<1> QED BY <1>3, <1>4, <1>5, <1>6 DEF LotsInv

QuoteStatuses == {"QUOTED", "OPS_REVIEW", "CANCELLED", "EXPIRED"}
Transitions == {"OPS_REVIEW", "CANCELLED", "EXPIRED"}

(* The steps of a quote touch no lot.                                      *)
LEMMA QuoteStepsStay ==
    ASSUME LotsInv, store' = store, UNCHANGED supply, quote' \in Seq(QuoteStatuses), over' \in BOOLEAN,
           req' \in [Requests -> {NoRequest} \cup [step : {"post"}, version : Nat \ {0}, to : Transitions]]
    PROVE  LotsInv'
<1>1. LotsTypeOK
  BY DEF LotsInv
<1>2. resource' = resource /\ runs' = runs /\ lots' = lots /\ moves' = moves /\ withdrawals' = withdrawals
  BY DEF supply
<1>3. LotsTypeOK'
  BY <1>1, <1>2 DEF LotsTypeOK, QuoteStatuses, Transitions
<1> QED BY <1>3, LotsUnchanged

(* The entries of a quote grow by legal successors.                        *)
LEMMA QuoteGrows ==
    ASSUME LotsTypeOK, NEW to \in Transitions, quote' = Append(quote, to)
    PROVE  quote' \in Seq(QuoteStatuses) /\ quote' # <<>> /\ quote'[Len(quote')] = to
<1>1. quote \in Seq(QuoteStatuses) /\ to \in QuoteStatuses
  BY DEF LotsTypeOK, QuoteStatuses, Transitions
<1> QED BY <1>1

(* Every step of the resource, its lots and the quote keeps the invariant. *)
LEMMA LotsStay == LotsInv /\ [LotsNext]_lotVars => LotsInv'
<1> SUFFICES ASSUME LotsInv, [LotsNext]_lotVars PROVE LotsInv'
  OBVIOUS
<1>t. /\ LotsTypeOK /\ quote \in Seq(QuoteStatuses) /\ over \in BOOLEAN
      /\ req \in [Requests -> {NoRequest} \cup [step : {"post"}, version : Nat \ {0}, to : Transitions]]
  BY DEF LotsInv, LotsTypeOK, QuoteStatuses, Transitions
<1>1. ASSUME NEW result \in {"PASS", "FAIL"}, NEW until \in Validities, CreateVerification(result, until) PROVE LotsInv'
  BY <1>1, RunsGrow
<1>2. ASSUME NEW l \in Lots, NEW w \in Windows, NEW run \in DOMAIN runs, CreateCapacityLot(l, w, run) PROVE LotsInv'
  BY <1>2, LotIsCut
<1>3. ASSUME NEW l \in Lots, CreateListing(l) PROVE LotsInv'
  BY <1>3, LotIsListed
<1>4. ASSUME NEW l \in Lots, CreateSwapQuote(l) PROVE LotsInv'
  <2>1. quote' = <<"QUOTED">> /\ store' = store /\ UNCHANGED supply /\ over' = over /\ req' = req
    BY <1>4 DEF CreateSwapQuote
  <2>2. quote' \in Seq(QuoteStatuses)
    BY <2>1 DEF QuoteStatuses
  <2> QED BY <1>t, <2>1, <2>2, QuoteStepsStay
<1>5. ASSUME NEW l \in Lots, NEW k \in Withdrawals, WithdrawCapacityLot(l, k) PROVE LotsInv'
  BY <1>5, LotIsWithdrawn
<1>6. ASSUME QuoteRunsOut PROVE LotsInv'
  <2>1. quote' = quote /\ store' = store /\ UNCHANGED supply /\ over' = TRUE /\ req' = req
    BY <1>6 DEF QuoteRunsOut
  <2> QED BY <1>t, <2>1, QuoteStepsStay
<1>7. ASSUME NEW to \in Transitions, SqliteTransition(to) PROVE LotsInv'
  <2>1. quote' = Append(quote, to) /\ store' = store /\ UNCHANGED supply /\ over' = over /\ req' = req
    BY <1>7 DEF SqliteTransition
  <2> QED BY <1>t, <2>1, QuoteGrows, QuoteStepsStay
<1>8. ASSUME NEW to \in Transitions, NEW q \in Requests, D1ReadTransition(q, to) PROVE LotsInv'
  <2> DEFINE x == [step |-> "post", to |-> to, version |-> Len(quote)]
  <2>1. quote' = quote /\ store' = store /\ UNCHANGED supply /\ over' = over /\ req' = [req EXCEPT ![q] = x]
    BY <1>8 DEF D1ReadTransition
  <2>2. x \in [step : {"post"}, version : Nat \ {0}, to : Transitions]
    <3>1. quote # <<>>
      BY <1>8 DEF D1ReadTransition, MayTransition
    <3>2. Len(quote) \in Nat \ {0}
      BY <1>t, <3>1
    <3> QED BY <3>2
  <2> HIDE DEF x
  <2>3. req' \in [Requests -> {NoRequest} \cup [step : {"post"}, version : Nat \ {0}, to : Transitions]]
    BY <1>t, <2>1, <2>2
  <2> QED BY <1>t, <2>1, <2>3, QuoteStepsStay
<1>9. ASSUME NEW q \in Requests, D1PostTransition(q) PROVE LotsInv'
  <2>1. /\ store' = store /\ UNCHANGED supply /\ over' = over /\ req' = [req EXCEPT ![q] = NoRequest]
        /\ quote' = quote \/ quote' = Append(quote, req[q].to)
        /\ req[q].step = "post"
    BY <1>9 DEF D1PostTransition
  <2>2. req[q].to \in Transitions
    <3>1. NoRequest.step # "post"
      BY DEF NoRequest
    <3> QED BY <1>t, <2>1, <3>1
  <2>3. req' \in [Requests -> {NoRequest} \cup [step : {"post"}, version : Nat \ {0}, to : Transitions]]
    BY <1>t, <2>1
  <2> QED BY <1>t, <2>1, <2>2, <2>3, QuoteGrows, QuoteStepsStay
<1>10. ASSUME UNCHANGED lotVars PROVE LotsInv'
  <2>1. quote' = quote /\ store' = store /\ UNCHANGED supply /\ over' = over /\ req' = req
    BY <1>10 DEF lotVars
  <2> QED BY <1>t, <2>1, QuoteStepsStay
<1> QED BY <1>1, <1>2, <1>3, <1>4, <1>5, <1>6, <1>7, <1>8, <1>9, <1>10 DEF LotsNext, Transitions

(* What was shown as over is not shown as open again.                      *)
LEMMA QuotesStayOver == LotsInv /\ [LotsNext]_lotVars => StaysOver
<1> SUFFICES ASSUME LotsInv, [LotsNext]_lotVars PROVE StaysOver
  OBVIOUS
<1>t. LotsTypeOK
  BY DEF LotsInv
<1>1. ASSUME quote' = quote, over' = over \/ over' = TRUE PROVE StaysOver
  <2>1. Latest' = Latest
    BY <1>1 DEF Latest
  <2> QED BY <1>1, <2>1 DEF StaysOver, Shown
<1>2. ASSUME quote = <<>> PROVE StaysOver
  BY <1>2 DEF StaysOver, Shown
<1>3. ASSUME NEW to \in Transitions, quote' = Append(quote, to), Follows(Latest, to), over' = over
      PROVE  StaysOver
  <2>1. quote' # <<>> /\ Latest' = to
    BY <1>t, <1>3, QuoteGrows DEF Latest
  <2>2. Latest \in {"QUOTED", "OPS_REVIEW"}
    BY <1>3 DEF Follows
  <2> QED BY <1>3, <2>1, <2>2 DEF StaysOver, Shown, Transitions
<1>4. ASSUME NEW to \in Transitions, SqliteTransition(to) PROVE StaysOver
  BY <1>3, <1>4 DEF SqliteTransition, MayTransition, Transitions
<1>5. ASSUME NEW q \in Requests, D1PostTransition(q) PROVE StaysOver
  <2>1. /\ over' = over /\ req[q].step = "post"
        /\ quote' = quote \/ (quote' = Append(quote, req[q].to) /\ Follows(Latest, req[q].to))
    BY <1>5 DEF D1PostTransition
  <2>2. req[q].to \in Transitions
    <3>1. NoRequest.step # "post"
      BY DEF NoRequest
    <3> QED BY <1>t, <2>1, <3>1 DEF LotsTypeOK, Transitions
  <2> QED BY <1>1, <1>3, <2>1, <2>2 DEF Transitions
<1>6. ASSUME UNCHANGED lotVars PROVE StaysOver
  BY <1>1, <1>6 DEF lotVars
<1>7. ASSUME NEW result \in {"PASS", "FAIL"}, NEW until \in Validities, CreateVerification(result, until) PROVE StaysOver
  BY <1>1, <1>7 DEF CreateVerification
<1>8. ASSUME NEW l \in Lots, NEW w \in Windows, NEW run \in DOMAIN runs, CreateCapacityLot(l, w, run) PROVE StaysOver
  BY <1>1, <1>8 DEF CreateCapacityLot
<1>9. ASSUME NEW l \in Lots, CreateListing(l) PROVE StaysOver
  BY <1>1, <1>9 DEF CreateListing
<1>10. ASSUME NEW l \in Lots, CreateSwapQuote(l) PROVE StaysOver
  BY <1>2, <1>10 DEF CreateSwapQuote
<1>11. ASSUME NEW l \in Lots, NEW k \in Withdrawals, WithdrawCapacityLot(l, k) PROVE StaysOver
  BY <1>1, <1>11 DEF WithdrawCapacityLot
<1>12. ASSUME QuoteRunsOut PROVE StaysOver
  BY <1>1, <1>12 DEF QuoteRunsOut
<1>13. ASSUME NEW to \in Transitions, NEW q \in Requests, D1ReadTransition(q, to) PROVE StaysOver
  BY <1>1, <1>13 DEF D1ReadTransition
<1> QED BY <1>4, <1>5, <1>6, <1>7, <1>8, <1>9, <1>10, <1>11, <1>12, <1>13 DEF LotsNext, Transitions

-----------------------------------------------------------------------------
(* What comes to the market: demands and quotes.                           *)

-----------------------------------------------------------------------------
(* What is known of the rows of demands, of their papers and of quotes.    *)
RowsAreSound ==
    /\ Curated \in issued /\ staged[Curated] = NoRow
    /\ \A d \in Demands :
          /\ staged[d] # NoRow => d \in issued /\ staged[d].key \in CatalogKeys /\ staged[d].rev = 0 /\ market[d] = NoRow
          /\ market[d] # NoRow => d \in issued
          /\ market[d] # NoRow /\ d # Curated => market[d].key \in BuyerKeys /\ market[d].rev = 0
    /\ market[Curated] # NoRow =>
          market[Curated].key = "curated" /\ market[Curated].rev = curated /\ market[Curated].updated >= curated
OneEach == \A k \in BuyerKeys : \A d \in RowsOf(k) : \A e \in RowsOf(k) : d = e
PapersName ==
    \A d \in Demands : market[d].key \in CatalogKeys => \A x \in Papers : papers[market[d].key][x] = d
OffersStand ==
    \A q \in QuoteKeys : offers[q] # NoOffer =>
        LET row == market[offers[q].demand] IN
        /\ row # NoRow /\ offers[q].created <= row.updated
        /\ ~offers[q].superseded => row.rev = offers[q].rev /\ row.quoted
OffersHeld == {q \in QuoteKeys : offers[q] # NoOffer}
LimitsHold ==
    /\ \A d \in Demands : Cardinality(LiveFor(d, week)) <= QuotesPerDemand
    /\ Cardinality(OffersHeld) <= MaxQuotes

TablesInv == DemandTypeOK /\ RowsAreSound /\ OneEach /\ PapersName /\ Held <= MaxDemands /\ OffersStand /\ LimitsHold

(* What a visit carries: the week it began in, or the one before this; a   *)
(* demand whose rows have its key, with the papers filed so far; or a      *)
(* version of a demand that a later revision has left behind.              *)
PaperSteps == {"bound", "delivery", "snapshot", "publish"}
PaperVisit == [step : PaperSteps, at : Nat, k : BuyerKeys, d : Demands \ {Curated}]
OnPaper(x) ==
    /\ x \in PaperVisit /\ x.d \in issued
    /\ staged[x.d] # NoRow => staged[x.d].key = x.k
    /\ market[x.d] # NoRow => market[x.d].key = x.k
    /\ x.step # "bound" => papers[x.k]["bound"] = x.d
    /\ x.step \in {"snapshot", "publish"} => papers[x.k]["delivery"] = x.d
    /\ x.step = "publish" => papers[x.k]["snapshot"] = x.d /\ x.k \in CatalogKeys
OnQuote(x) ==
    /\ x.q \in QuoteKeys /\ x.d \in issued /\ staged[x.d] = NoRow /\ x.rev \in Nat /\ x.version \in Nat
    /\ market[x.d] # NoRow => market[x.d].version >= x.version
    /\ market[x.d] # NoRow /\ market[x.d].version = x.version => market[x.d].rev = x.rev
    /\ x.d = Curated => market[Curated] # NoRow /\ market[Curated].updated >= x.at - 1
VisitIsSound(x) ==
    /\ x.step # "none" => x.at \in Nat \ {0} /\ x.at <= week /\ x.at >= week - 1
    /\ x.step = "post" => x.k \in BuyerKeys
    /\ x.step \in PaperSteps => OnPaper(x)
    /\ x.step = "quote" => OnQuote(x)

VisitsInv == DOMAIN visit = Visits /\ \A v \in Visits : VisitIsSound(visit[v])

DemandInv == TablesInv /\ VisitsInv

(* What a step leaves of the rows and papers there were.                   *)
TablesMove ==
    /\ issued \subseteq issued'
    /\ \A k \in BuyerKeys : \A x \in Papers : papers[k][x] # NoPaper => papers'[k][x] = papers[k][x]
    /\ \A d \in issued :
          /\ staged'[d] # NoRow => staged[d] # NoRow /\ staged'[d].key = staged[d].key
          /\ market[d] = NoRow /\ market'[d] # NoRow /\ d # Curated => staged[d] # NoRow /\ market'[d].key = staged[d].key
          /\ market[d] # NoRow /\ market'[d] # NoRow =>
                /\ market'[d].key = market[d].key
                /\ market'[d].version >= market[d].version /\ market'[d].updated >= market[d].updated
          /\ market[d] # NoRow /\ market'[d] # NoRow /\ market'[d].version = market[d].version =>
                market'[d].rev = market[d].rev
    /\ market[Curated] # NoRow /\ market[Curated].updated >= week - 2 => market'[Curated] # NoRow

(* A row that is there is not the row that is not.                         *)
LEMMA RowIsThere ==
    ASSUME NEW r
    PROVE  /\ r \in Row => r # NoRow /\ r.key # "none"
           /\ r \in Row \cup {NoRow} /\ r # NoRow => r \in Row
           /\ r \in Row \cup {NoRow} /\ r.key # "none" => r \in Row
<1>1. ASSUME r \in Row PROVE r.key # "none"
  BY <1>1, DemandsAssumption DEF Row, BuyerKeys
<1>2. NoRow.key = "none"
  BY DEF NoRow
<1> QED BY <1>1, <1>2

(* The same of quotes.                                                     *)
LEMMA OfferIsThere ==
    ASSUME NEW r
    PROVE  /\ r \in Offer => r # NoOffer
           /\ r \in Offer \cup {NoOffer} /\ r # NoOffer => r \in Offer
<1>1. ASSUME r \in Offer PROVE r.demand # "none"
  BY <1>1, DemandsAssumption DEF Offer
<1>2. NoOffer.demand = "none"
  BY DEF NoOffer
<1> QED BY <1>1, <1>2

(* A visit that is under way is not idle.                                  *)
LEMMA VisitIsThere ==
    ASSUME NEW x, x.step # "none"
    PROVE  x # NoVisit
  BY DEF NoVisit

(* A new row is a row.                                                     *)
LEMMA NewRowIsRow ==
    ASSUME NEW k \in BuyerKeys \cup {"curated"}, NEW rev \in Nat, NEW at \in Nat
    PROVE  /\ NewRow(k, rev, at) \in Row
           /\ NewRow(k, rev, at).key = k /\ NewRow(k, rev, at).rev = rev /\ NewRow(k, rev, at).version = 1
           /\ NewRow(k, rev, at).updated = at /\ ~NewRow(k, rev, at).quoted
  BY DEF NewRow, Row

(* A visit that did not move carries what it carried.                      *)
LEMMA VisitStays ==
    ASSUME DemandTypeOK, DemandTypeOK', TablesMove, week' = week, NEW x, VisitIsSound(x)
    PROVE  VisitIsSound(x)'
<1>0. /\ week \in Nat /\ issued \subseteq Demands
      /\ \A d \in Demands : market[d] \in Row \cup {NoRow} /\ market'[d] \in Row \cup {NoRow}
  BY DEF DemandTypeOK
<1>1. ASSUME x.step \in PaperSteps PROVE OnPaper(x)'
  <2>1. OnPaper(x)
    BY <1>1 DEF VisitIsSound
  <2>2. x.d \in issued /\ x.d # Curated /\ x.d \in Demands /\ x.k \in BuyerKeys /\ x.d # NoPaper
    BY <2>1, DemandsAssumption DEF OnPaper, PaperVisit, NoPaper
  <2>3. x.d \in issued'
    BY <2>2 DEF TablesMove
  <2>4. staged'[x.d] # NoRow => staged'[x.d].key = x.k
    BY <2>1, <2>2 DEF TablesMove, OnPaper
  <2>5. market'[x.d] # NoRow => market'[x.d].key = x.k
    BY <2>1, <2>2 DEF TablesMove, OnPaper
  <2>6. \A y \in Papers : papers[x.k][y] = x.d => papers'[x.k][y] = x.d
    BY <2>2 DEF TablesMove
  <2> QED BY <2>1, <2>3, <2>4, <2>5, <2>6 DEF OnPaper, Papers
<1>2. ASSUME x.step = "quote" PROVE OnQuote(x)'
  <2>1. OnQuote(x) /\ x.at \in Nat /\ x.at >= week - 1
    BY <1>2 DEF VisitIsSound
  <2>2. x.d \in issued /\ x.version \in Nat /\ staged[x.d] = NoRow
    BY <2>1 DEF OnQuote
  <2>3. x.d \in issued' /\ staged'[x.d] = NoRow
    BY <2>2 DEF TablesMove
  <2>4. CASE x.d = Curated
    <3>1. market[Curated] # NoRow /\ market[Curated].updated >= x.at - 1 /\ market[Curated] \in Row
      BY <1>0, <2>1, <2>4, RowIsThere, DemandsAssumption DEF OnQuote
    <3>2. market[Curated].updated \in Nat /\ market[Curated].version \in Nat
      BY <3>1 DEF Row
    <3>3. market[Curated].updated >= week - 2
      BY <1>0, <2>1, <3>1, <3>2
    <3>4. market'[Curated] # NoRow /\ market'[Curated].version >= market[Curated].version
          /\ market'[Curated].updated >= market[Curated].updated
          /\ (market'[Curated].version = market[Curated].version => market'[Curated].rev = market[Curated].rev)
      BY <2>2, <2>4, <3>1, <3>3 DEF TablesMove
    <3>5. market'[Curated].version \in Nat /\ market'[Curated].updated \in Nat
      BY <1>0, <3>4, RowIsThere, DemandsAssumption DEF Row
    <3>6. x.at - 1 <= market'[Curated].updated
      BY <2>1, <3>1, <3>2, <3>4, <3>5
    <3>7. market'[Curated].version >= x.version /\ (market'[Curated].version = x.version => market'[Curated].rev = x.rev)
      BY <2>1, <2>2, <2>4, <3>1, <3>2, <3>4, <3>5 DEF OnQuote
    <3> QED BY <2>1, <2>3, <2>4, <3>4, <3>6, <3>7 DEF OnQuote
  <2>5. CASE x.d # Curated
    <3>1. ASSUME market'[x.d] # NoRow
          PROVE  market'[x.d].version >= x.version /\ (market'[x.d].version = x.version => market'[x.d].rev = x.rev)
      <4>1. market[x.d] # NoRow
        BY <2>2, <2>5, <3>1 DEF TablesMove
      <4>2. market[x.d].version \in Nat /\ market'[x.d].version \in Nat
        BY <1>0, <2>2, <3>1, <4>1, RowIsThere DEF Row
      <4>3. market[x.d].version >= x.version /\ (market[x.d].version = x.version => market[x.d].rev = x.rev)
        BY <2>1, <4>1 DEF OnQuote
      <4>4. market'[x.d].version >= market[x.d].version
            /\ (market'[x.d].version = market[x.d].version => market'[x.d].rev = market[x.d].rev)
        BY <2>2, <3>1, <4>1 DEF TablesMove
      <4> QED BY <2>2, <4>2, <4>3, <4>4
    <3> QED BY <2>1, <2>3, <2>5, <3>1 DEF OnQuote
  <2> QED BY <2>4, <2>5
<1>3. x.step # "none" => x.at \in Nat \ {0} /\ x.at <= week' /\ x.at >= week' - 1
  BY DEF VisitIsSound
<1>4. x.step = "post" => x.k \in BuyerKeys
  BY DEF VisitIsSound
<1> QED BY <1>1, <1>2, <1>3, <1>4 DEF VisitIsSound

(* One visit moves; the others carry what they carried.                    *)
LEMMA VisitsMove ==
    ASSUME DemandInv, DemandTypeOK', TablesMove, week' = week, NEW v \in Visits, NEW r,
           visit' = [visit EXCEPT ![v] = r], VisitIsSound(r)'
    PROVE  VisitsInv'
<1>1. DOMAIN visit' = Visits /\ visit'[v] = r /\ \A w \in Visits : w # v => visit'[w] = visit[w]
  BY DEF DemandInv, VisitsInv
<1>2. ASSUME NEW w \in Visits, w # v PROVE VisitIsSound(visit[w])'
  <2>1. PICK x : x = visit[w]
    OBVIOUS
  <2>2. VisitIsSound(x) /\ DemandTypeOK
    BY <2>1 DEF DemandInv, VisitsInv, TablesInv
  <2>3. VisitIsSound(x)'
    BY <2>2, VisitStays
  <2>4. visit'[w] = x
    BY <1>1, <1>2, <2>1
  <2> QED BY <2>3, <2>4
<1>3. VisitIsSound(visit[v])'
  BY <1>1
<1> QED BY <1>1, <1>2, <1>3 DEF VisitsInv

(* A visit that carries nothing is sound.                                  *)
LEMMA IdleIsSound == VisitIsSound(NoVisit)
  BY DEF VisitIsSound, NoVisit, PaperSteps

(* A step that leaves the tables alone moves nothing of them.              *)
LEMMA TablesSame ==
    ASSUME DemandInv, week' = week, curated' = curated, UNCHANGED Tables
    PROVE  TablesInv' /\ TablesMove
<1>1. issued' = issued /\ staged' = staged /\ market' = market /\ offers' = offers /\ papers' = papers
  BY DEF Tables
<1>t. DemandTypeOK
  BY DEF DemandInv, TablesInv
<1>2. DemandTypeOK'
  BY <1>1, <1>t DEF DemandTypeOK
<1>3. RowsAreSound' /\ PapersName' /\ OffersStand'
  BY <1>1 DEF DemandInv, TablesInv, RowsAreSound, PapersName, OffersStand
<1>4. OneEach'
  <2>1. OneEach
    BY DEF DemandInv, TablesInv
  <2> QED BY <1>1, <2>1 DEF OneEach, RowsOf
<1>5. (Held <= MaxDemands)'
  <2>1. Held <= MaxDemands
    BY DEF DemandInv, TablesInv
  <2> QED BY <1>1, <2>1 DEF Held
<1>6. LimitsHold'
  <2>1. LimitsHold
    BY DEF DemandInv, TablesInv
  <2> QED BY <1>1, <2>1 DEF LimitsHold, LiveFor, Live, OffersHeld
<1>7. TablesMove
  <2>1. \A d \in issued : market[d] # NoRow => market[d].version \in Nat /\ market[d].updated \in Nat
    BY <1>t, RowIsThere DEF DemandTypeOK, Row
  <2> QED BY <1>1, <2>1 DEF TablesMove
<1> QED BY <1>2, <1>3, <1>4, <1>5, <1>6, <1>7 DEF TablesInv

(* In the initial state only the curated demand is there.                  *)
LEMMA DemandStart == DemandInit => DemandInv
<1> SUFFICES ASSUME DemandInit PROVE DemandInv
  OBVIOUS
<1>1. /\ Curated \in Demands /\ LastWeek \in Nat /\ LastWeek >= 1 /\ MaxDemands \in Nat /\ MaxQuotes \in Nat /\ QuotesPerDemand \in Nat
      /\ IsFiniteSet(Demands) /\ IsFiniteSet(QuoteKeys) /\ "curated" \notin BuyerKeys /\ "none" \notin BuyerKeys
  BY DemandsAssumption DEF BuyerKeys
<1>2. /\ NewRow("curated", 1, 1) \in Row /\ NewRow("curated", 1, 1).key = "curated"
      /\ NewRow("curated", 1, 1).rev = 1 /\ NewRow("curated", 1, 1).updated = 1
  BY NewRowIsRow
<1> DEFINE first == NewRow("curated", 1, 1)
<1> HIDE DEF first
<1>3. /\ week = 1 /\ curated = 1 /\ issued = {Curated}
      /\ staged = [d \in Demands |-> NoRow]
      /\ market = [d \in Demands |-> IF d = Curated THEN first ELSE NoRow]
      /\ offers = [q \in QuoteKeys |-> NoOffer]
      /\ papers = [k \in BuyerKeys |-> [x \in Papers |-> NoPaper]]
      /\ visit = [v \in Visits |-> NoVisit]
  BY DEF DemandInit, first
<1>4. DemandTypeOK
  <2>1. week \in 1 .. LastWeek /\ curated \in 1 .. week /\ issued \subseteq Demands
    BY <1>1, <1>3
  <2>2. market \in [Demands -> Row \cup {NoRow}] /\ staged \in [Demands -> Row \cup {NoRow}]
    <3>1. first \in Row
      BY <1>2 DEF first
    <3> QED BY <1>3, <3>1
  <2>3. offers \in [QuoteKeys -> Offer \cup {NoOffer}] /\ papers \in [BuyerKeys -> [Papers -> Demands \cup {NoPaper}]]
    BY <1>3
  <2> QED BY <2>1, <2>2, <2>3 DEF DemandTypeOK
<1>5. RowsAreSound
  BY <1>1, <1>2, <1>3 DEF RowsAreSound, first
<1>6. \A k \in BuyerKeys : RowsOf(k) = {}
  BY <1>1, <1>2, <1>3 DEF RowsOf, NoRow, first
<1>7. \A d \in Demands : market[d].key \notin CatalogKeys
  BY <1>1, <1>2, <1>3 DEF NoRow, first, BuyerKeys
<1>8. Held = 0
  <2>1. {d \in Demands \ {Curated} : market[d] # NoRow} = {} /\ {d \in Demands : staged[d] # NoRow} = {}
    BY <1>3
  <2> QED BY <2>1, FS_EmptySet DEF Held
<1>9. LimitsHold
  <2>1. OffersHeld = {} /\ \A d \in Demands : LiveFor(d, week) = {}
    BY <1>3 DEF OffersHeld, LiveFor, Live
  <2> QED BY <1>1, <2>1, FS_EmptySet DEF LimitsHold
<1>10. OffersStand
  BY <1>3 DEF OffersStand
<1>11. VisitsInv
  BY <1>3, IdleIsSound DEF VisitsInv
<1>12. Held <= MaxDemands
  BY <1>1, <1>8
<1> QED BY <1>4, <1>5, <1>6, <1>7, <1>9, <1>10, <1>11, <1>12 DEF DemandInv, TablesInv, OneEach, PapersName

(* A visit that gives up leaves nothing of its own.                        *)
LEMMA VisitMayEnd ==
    ASSUME DemandInv, NEW v \in Visits, VisitEnds(v)
    PROVE  DemandInv'
<1>1. week' = week /\ curated' = curated /\ UNCHANGED Tables /\ visit' = [visit EXCEPT ![v] = NoVisit]
  BY DEF VisitEnds, Steps
<1>2. TablesInv' /\ TablesMove
  BY <1>1, TablesSame
<1>3. PICK r : r = NoVisit
  OBVIOUS
<1>4. VisitIsSound(r)'
  BY <1>3 DEF VisitIsSound, NoVisit, PaperSteps
<1>5. VisitsInv'
  BY <1>1, <1>2, <1>3, <1>4, VisitsMove DEF TablesInv
<1> QED BY <1>2, <1>5 DEF DemandInv

(* The week changes.                                                       *)
LEMMA WeekMayPass ==
    ASSUME DemandInv, WeekPasses
    PROVE  DemandInv'
<1>0. /\ week < LastWeek /\ week' = week + 1 /\ curated' = curated /\ visit' = visit
      /\ issued' = issued /\ staged' = staged /\ market' = market /\ offers' = offers /\ papers' = papers
      /\ \A v \in Visits : visit[v] # NoVisit => visit[v].at = week
  BY DEF WeekPasses, Tables
<1>t. DemandTypeOK
  BY DEF DemandInv, TablesInv
<1>1. week \in Nat /\ LastWeek \in Nat /\ curated \in Nat
  BY <1>t, DemandsAssumption DEF DemandTypeOK
<1>2. DemandTypeOK'
  <2>1. week' \in 1 .. LastWeek /\ curated' \in 1 .. week'
    BY <1>0, <1>1, <1>t DEF DemandTypeOK
  <2> QED BY <1>0, <1>t, <2>1 DEF DemandTypeOK
<1>3. RowsAreSound' /\ PapersName' /\ OffersStand'
  BY <1>0 DEF DemandInv, TablesInv, RowsAreSound, PapersName, OffersStand
<1>4. OneEach'
  <2>1. OneEach
    BY DEF DemandInv, TablesInv
  <2> QED BY <1>0, <2>1 DEF OneEach, RowsOf
<1>5. (Held <= MaxDemands)'
  <2>1. Held <= MaxDemands
    BY DEF DemandInv, TablesInv
  <2> QED BY <1>0, <2>1 DEF Held
<1>6. LimitsHold'
  <2>1. LimitsHold /\ IsFiniteSet(QuoteKeys) /\ QuotesPerDemand \in Nat
    BY DemandsAssumption DEF DemandInv, TablesInv
  <2>2. ASSUME NEW d \in Demands PROVE Cardinality(LiveFor(d, week)') <= QuotesPerDemand
    <3>1. LiveFor(d, week)' \subseteq LiveFor(d, week)
      <4>1. ASSUME NEW q \in QuoteKeys, offers[q] # NoOffer, offers[q].until > week + 1 PROVE offers[q].until > week
        <5>1. offers[q].until \in Nat
          BY <1>t, <4>1, OfferIsThere DEF DemandTypeOK, Offer
        <5> QED BY <1>1, <4>1, <5>1
      <4> QED BY <1>0, <4>1 DEF LiveFor, Live
    <3>2. IsFiniteSet(LiveFor(d, week))
      BY <2>1, FS_Subset DEF LiveFor
    <3>3. /\ Cardinality(LiveFor(d, week)') <= Cardinality(LiveFor(d, week))
          /\ Cardinality(LiveFor(d, week)') \in Nat /\ Cardinality(LiveFor(d, week)) \in Nat
      BY <3>1, <3>2, FS_Subset, FS_CardinalityType
    <3> QED BY <2>1, <3>3 DEF LimitsHold
  <2>3. OffersHeld' = OffersHeld
    BY <1>0 DEF OffersHeld
  <2> QED BY <2>1, <2>2, <2>3 DEF LimitsHold
<1>7. VisitsInv'
  <2>1. ASSUME NEW v \in Visits PROVE VisitIsSound(visit[v])'
    <3>1. PICK x : x = visit[v]
      OBVIOUS
    <3>2. VisitIsSound(x)
      BY <3>1 DEF DemandInv, VisitsInv
    <3>3. x.step # "none" => x.at = week
      BY <1>0, <3>1, VisitIsThere
    <3>4. OnPaper(x) => OnPaper(x)'
      BY <1>0 DEF OnPaper
    <3>5. OnQuote(x) => OnQuote(x)'
      BY <1>0 DEF OnQuote
    <3>6. x.step # "none" => x.at \in Nat \ {0} /\ x.at <= week' /\ x.at >= week' - 1
      BY <1>0, <1>1, <3>2, <3>3 DEF VisitIsSound
    <3>7. VisitIsSound(x)'
      BY <3>2, <3>4, <3>5, <3>6 DEF VisitIsSound
    <3> QED BY <1>0, <3>1, <3>7
  <2> QED BY <1>0, <2>1 DEF VisitsInv, DemandInv
<1> QED BY <1>2, <1>3, <1>4, <1>5, <1>6, <1>7 DEF DemandInv, TablesInv

(* A demand that has a key is one of the buyer of the key.                 *)
LEMMA RowFound ==
    ASSUME TablesInv, NEW k \in BuyerKeys, NEW d \in RowsOf(k)
    PROVE  /\ d \in Demands \ {Curated} /\ d \in issued
           /\ staged[d] # NoRow => staged[d].key = k
           /\ market[d] # NoRow => market[d].key = k
<1>1. /\ k # "none" /\ k # "curated" /\ NoRow.key = "none"
      /\ d \in Demands /\ (staged[d].key = k \/ market[d].key = k)
  BY DemandsAssumption DEF RowsOf, BuyerKeys, NoRow
<1>2. d # Curated
  BY <1>1 DEF TablesInv, RowsAreSound
<1> QED BY <1>1, <1>2 DEF TablesInv, RowsAreSound

(* A buyer asks: his demand is found, or is to be entered.                 *)
LEMMA DemandIsAsked ==
    ASSUME DemandInv, NEW v \in Visits, NEW k \in BuyerKeys, AskDemand(v, k)
    PROVE  DemandInv'
<1>1. week' = week /\ curated' = curated /\ UNCHANGED Tables
  BY DEF AskDemand
<1>2. TablesInv' /\ TablesMove /\ TablesInv
  BY <1>1, TablesSame DEF DemandInv
<1>w. week \in Nat \ {0}
  BY <1>2, DemandsAssumption DEF TablesInv, DemandTypeOK
<1>u. issued' = issued /\ staged' = staged /\ market' = market
  BY <1>1 DEF Tables
<1>3. ASSUME NEW r, visit' = [visit EXCEPT ![v] = r], VisitIsSound(r)' PROVE DemandInv'
  <2>1. VisitsInv'
    BY <1>1, <1>2, <1>3, VisitsMove DEF TablesInv
  <2> QED BY <1>2, <2>1 DEF DemandInv
<1>4. ASSUME Steps(v, [step |-> "post", at |-> week, k |-> k]) PROVE DemandInv'
  <2>1. PICK r : r = [step |-> "post", at |-> week, k |-> k]
    OBVIOUS
  <2>2. VisitIsSound(r)'
    BY <1>1, <1>w, <2>1 DEF VisitIsSound, PaperSteps
  <2> QED BY <1>3, <1>4, <2>1, <2>2 DEF Steps
<1>5. ASSUME NEW d \in RowsOf(k), Steps(v, [step |-> "bound", at |-> week, k |-> k, d |-> d]) PROVE DemandInv'
  <2>1. PICK r : r = [step |-> "bound", at |-> week, k |-> k, d |-> d]
    OBVIOUS
  <2>2. /\ d \in Demands \ {Curated} /\ d \in issued
        /\ staged[d] # NoRow => staged[d].key = k
        /\ market[d] # NoRow => market[d].key = k
    BY <1>2, RowFound
  <2>3. OnPaper(r)'
    <3>1. r \in PaperVisit
      BY <1>w, <2>1, <2>2 DEF PaperVisit, PaperSteps
    <3> QED BY <1>u, <2>1, <2>2, <3>1 DEF OnPaper
  <2>4. VisitIsSound(r)'
    BY <1>1, <1>w, <2>1, <2>3 DEF VisitIsSound
  <2> QED BY <1>3, <1>5, <2>1, <2>4 DEF Steps
<1> QED BY <1>4, <1>5 DEF AskDemand

(* A supplier reads a demand that he is going to quote.                    *)
LEMMA DemandIsRead ==
    ASSUME DemandInv, NEW v \in Visits, NEW q \in QuoteKeys, NEW d \in Demands, ReadForQuote(v, q, d)
    PROVE  DemandInv'
<1>1. /\ week' = week /\ curated' = curated /\ UNCHANGED Tables
      /\ curated >= week - 1 /\ market[d] # NoRow
  BY DEF ReadForQuote, Maintained
<1>2. TablesInv' /\ TablesMove /\ TablesInv
  BY <1>1, TablesSame DEF DemandInv
<1>w. week \in Nat \ {0} /\ curated \in Nat /\ (\A y \in Demands : market[y] # NoRow => market[y] \in Row)
  BY <1>2, RowIsThere, DemandsAssumption DEF TablesInv, DemandTypeOK
<1>u. issued' = issued /\ staged' = staged /\ market' = market
  BY <1>1 DEF Tables
<1>3. PICK r : r = [step |-> "quote", at |-> week, q |-> q, d |-> d,
                    rev |-> market[d].rev, version |-> market[d].version]
  OBVIOUS
<1>4. visit' = [visit EXCEPT ![v] = r]
  BY <1>3 DEF ReadForQuote, Steps
<1>5. OnQuote(r)'
  <2>1. market[d].rev \in Nat /\ market[d].version \in Nat /\ market[d].updated \in Nat
    BY <1>1, <1>w DEF Row
  <2>2. staged[d] = NoRow /\ d \in issued
    BY <1>1, <1>2 DEF TablesInv, RowsAreSound
  <2>3. d = Curated => market[Curated] # NoRow /\ market[Curated].updated >= week - 1
    BY <1>1, <1>2, <1>w, <2>1 DEF TablesInv, RowsAreSound
  <2>4. market[d].version >= market[d].version
    BY <2>1
  <2> QED BY <1>u, <1>3, <2>1, <2>2, <2>3, <2>4 DEF OnQuote
<1>6. VisitIsSound(r)'
  BY <1>1, <1>w, <1>3, <1>5 DEF VisitIsSound, PaperSteps
<1>7. VisitsInv'
  BY <1>1, <1>2, <1>4, <1>6, VisitsMove DEF TablesInv
<1> QED BY <1>2, <1>7 DEF DemandInv

PublicIds == {d \in Demands \ {Curated} : market[d] # NoRow}
StagedIds == {d \in Demands : staged[d] # NoRow}

(* What is held is counted in natural numbers.                             *)
LEMMA HeldCounts ==
    /\ IsFiniteSet(PublicIds) /\ IsFiniteSet(StagedIds)
    /\ Cardinality(PublicIds) \in Nat /\ Cardinality(StagedIds) \in Nat
    /\ Held = Cardinality(PublicIds) + Cardinality(StagedIds)
<1>1. IsFiniteSet(PublicIds) /\ IsFiniteSet(StagedIds)
  BY DemandsAssumption, FS_Subset DEF PublicIds, StagedIds
<1> QED BY <1>1, FS_CardinalityType DEF Held, PublicIds, StagedIds

(* The same when a step has been made.                                     *)
LEMMA HeldCountsThen ==
    /\ IsFiniteSet(PublicIds') /\ IsFiniteSet(StagedIds')
    /\ Cardinality(PublicIds') \in Nat /\ Cardinality(StagedIds') \in Nat
    /\ Held' = Cardinality(PublicIds') + Cardinality(StagedIds')
<1>1. IsFiniteSet(PublicIds') /\ IsFiniteSet(StagedIds')
  BY DemandsAssumption, FS_Subset DEF PublicIds, StagedIds
<1> QED BY <1>1, FS_CardinalityType DEF Held, PublicIds, StagedIds

(* Fewer rows are within the limit.                                        *)
LEMMA HeldLessens ==
    ASSUME Held <= MaxDemands, PublicIds' \subseteq PublicIds, StagedIds' \subseteq StagedIds
    PROVE  (Held <= MaxDemands)'
<1>1. /\ Cardinality(PublicIds') <= Cardinality(PublicIds)
      /\ Cardinality(StagedIds') <= Cardinality(StagedIds)
  BY HeldCounts, FS_Subset
<1> QED BY <1>1, HeldCounts, HeldCountsThen, DemandsAssumption

(* Fewer quotes are within the limits.                                     *)
LEMMA LimitsLessen ==
    ASSUME LimitsHold, OffersHeld' \subseteq OffersHeld,
           \A d \in Demands : LiveFor(d, week)' \subseteq LiveFor(d, week)
    PROVE  LimitsHold'
<1>1. IsFiniteSet(QuoteKeys) /\ QuotesPerDemand \in Nat /\ MaxQuotes \in Nat
  BY DemandsAssumption
<1>2. ASSUME NEW d \in Demands PROVE Cardinality(LiveFor(d, week)') <= QuotesPerDemand
  <2>1. IsFiniteSet(LiveFor(d, week))
    BY <1>1, FS_Subset DEF LiveFor
  <2>2. /\ Cardinality(LiveFor(d, week)') <= Cardinality(LiveFor(d, week))
        /\ Cardinality(LiveFor(d, week)') \in Nat /\ Cardinality(LiveFor(d, week)) \in Nat
    BY <2>1, FS_Subset, FS_CardinalityType
  <2> QED BY <1>1, <2>2 DEF LimitsHold
<1>3. Cardinality(OffersHeld') <= MaxQuotes
  <2>1. IsFiniteSet(OffersHeld)
    BY <1>1, FS_Subset DEF OffersHeld
  <2>2. /\ Cardinality(OffersHeld') <= Cardinality(OffersHeld)
        /\ Cardinality(OffersHeld') \in Nat /\ Cardinality(OffersHeld) \in Nat
    BY <2>1, FS_Subset, FS_CardinalityType
  <2> QED BY <1>1, <2>2 DEF LimitsHold
<1> QED BY <1>2, <1>3 DEF LimitsHold

(* Pruning takes what is old, and no demand from under its quotes.         *)
LEMMA RowsArePruned ==
    ASSUME DemandInv, NEW v \in Visits, Prune(v)
    PROVE  DemandInv'
<1>t. DemandTypeOK /\ TablesInv
  BY DEF DemandInv, TablesInv
<1>u. /\ week' = week /\ curated' = curated /\ issued' = issued /\ papers' = papers
      /\ market' = Kept(market) /\ staged' = Kept(staged)
      /\ offers' = [q \in QuoteKeys |-> IF offers[q] # NoOffer /\ Old(offers[q].created) THEN NoOffer ELSE offers[q]]
      /\ visit' = [visit EXCEPT ![v] = [step |-> "upsert", at |-> week]]
  BY DEF Prune, Steps
<1>w. /\ week \in Nat \ {0} /\ curated \in Nat /\ Retention \in Nat /\ Retention >= 2 /\ Curated \in Demands
      /\ NoRow.key = "none" /\ "none" \notin BuyerKeys
  BY <1>t, DemandsAssumption DEF DemandTypeOK, NoRow, BuyerKeys
<1>m. ASSUME NEW d \in Demands
      PROVE  /\ market'[d] = NoRow \/ market'[d] = market[d]
             /\ staged'[d] = NoRow \/ staged'[d] = staged[d]
             /\ market[d] # NoRow /\ market[d].updated >= week - Retention => market'[d] = market[d]
             /\ market[d] # NoRow => market[d].updated \in Nat /\ market[d].version \in Nat
  <2>1. market[d] # NoRow => market[d].updated \in Nat /\ market[d].version \in Nat
    BY <1>t, RowIsThere DEF DemandTypeOK, Row
  <2> QED BY <1>u, <1>w, <2>1 DEF Kept, Old
<1>o. ASSUME NEW q \in QuoteKeys, offers'[q] # NoOffer
      PROVE  /\ offers'[q] = offers[q] /\ offers[q] # NoOffer /\ offers[q] \in Offer
             /\ offers[q].created >= week - Retention
  <2>1. offers'[q] = offers[q] /\ offers[q] # NoOffer /\ ~Old(offers[q].created)
    BY <1>u, <1>o
  <2>2. offers[q] \in Offer
    BY <1>t, <2>1, OfferIsThere DEF DemandTypeOK
  <2>3. offers[q].created \in Nat
    BY <2>2 DEF Offer
  <2> QED BY <1>w, <2>1, <2>2, <2>3 DEF Old
<1>1. DemandTypeOK'
  <2>1. market' \in [Demands -> Row \cup {NoRow}] /\ staged' \in [Demands -> Row \cup {NoRow}]
    BY <1>t, <1>u DEF DemandTypeOK, Kept
  <2>2. offers' \in [QuoteKeys -> Offer \cup {NoOffer}]
    BY <1>t, <1>u DEF DemandTypeOK
  <2> QED BY <1>t, <1>u, <2>1, <2>2 DEF DemandTypeOK
<1>2. RowsAreSound'
  <2>1. RowsAreSound
    BY <1>t DEF TablesInv
  <2> QED BY <1>u, <1>m, <1>w, <2>1 DEF RowsAreSound
<1>3. OneEach'
  <2>1. \A k \in BuyerKeys : RowsOf(k)' \subseteq RowsOf(k)
    BY <1>m, <1>w DEF RowsOf
  <2>2. OneEach
    BY <1>t DEF TablesInv
  <2> QED BY <2>1, <2>2 DEF OneEach
<1>4. PapersName'
  <2>1. PapersName /\ CatalogKeys \subseteq BuyerKeys
    BY <1>t DEF TablesInv, BuyerKeys
  <2> QED BY <1>u, <1>m, <1>w, <2>1 DEF PapersName
<1>5. (Held <= MaxDemands)'
  <2>1. Held <= MaxDemands
    BY <1>t DEF TablesInv
  <2>2. PublicIds' \subseteq PublicIds /\ StagedIds' \subseteq StagedIds
    BY <1>m DEF PublicIds, StagedIds
  <2> QED BY <2>1, <2>2, HeldLessens
<1>6. OffersStand'
  <2>1. ASSUME NEW q \in QuoteKeys, offers'[q] # NoOffer PROVE market'[offers'[q].demand] = market[offers[q].demand]
    <3>1. offers[q].demand \in Demands /\ offers[q].created \in Nat
      BY <1>o, <2>1 DEF Offer
    <3>2. market[offers[q].demand] # NoRow /\ offers[q].created <= market[offers[q].demand].updated
      BY <1>t, <1>o, <2>1 DEF TablesInv, OffersStand
    <3>3. market[offers[q].demand].updated >= week - Retention
      BY <1>m, <1>o, <1>w, <2>1, <3>1, <3>2
    <3> QED BY <1>m, <1>o, <2>1, <3>1, <3>2, <3>3
  <2>2. OffersStand
    BY <1>t DEF TablesInv
  <2> QED BY <1>o, <2>1, <2>2 DEF OffersStand
<1>7. LimitsHold'
  <2>1. LimitsHold
    BY <1>t DEF TablesInv
  <2>2. OffersHeld' \subseteq OffersHeld
    BY <1>o DEF OffersHeld
  <2>3. \A d \in Demands : LiveFor(d, week)' \subseteq LiveFor(d, week)
    BY <1>u, <1>o DEF LiveFor, Live
  <2> QED BY <2>1, <2>2, <2>3, LimitsLessen
<1>8. TablesMove
  <2>1. \A d \in issued : d \in Demands
    BY <1>t DEF DemandTypeOK
  <2>2. market[Curated] # NoRow /\ market[Curated].updated >= week - 2 => market'[Curated] # NoRow
    BY <1>m, <1>w
  <2> QED BY <1>u, <1>m, <2>1, <2>2 DEF TablesMove
<1>9. VisitsInv'
  <2>1. PICK r : r = [step |-> "upsert", at |-> week]
    OBVIOUS
  <2>2. VisitIsSound(r)'
    BY <1>u, <1>w, <2>1 DEF VisitIsSound, PaperSteps
  <2> QED BY <1>1, <1>8, <1>u, <2>1, <2>2, VisitsMove
<1> QED BY <1>1, <1>2, <1>3, <1>4, <1>5, <1>6, <1>7, <1>9 DEF DemandInv, TablesInv

(* A row that is revised.                                                  *)
LEMMA RowIsRevised ==
    ASSUME NEW o \in Row, o.key = "curated", NEW rev \in Nat
    PROVE  /\ Revised(o, rev) \in Row /\ Revised(o, rev).key = "curated" /\ Revised(o, rev).rev = rev
           /\ Revised(o, rev).version >= o.version /\ Revised(o, rev).updated >= o.updated
           /\ Revised(o, rev).version = o.version => Revised(o, rev) = o /\ o.rev = rev
           /\ o.rev = rev \/ Revised(o, rev).updated >= rev
           /\ o.rev = rev => Revised(o, rev) = o
<1>0. o # NoRow /\ o.version \in Nat \ {0} /\ o.updated \in Nat
  BY RowIsThere DEF Row
<1>1. CASE o.rev = rev
  <2>1. Revised(o, rev) = o
    BY <1>0, <1>1 DEF Revised
  <2> QED BY <1>0, <1>1, <2>1
<1>2. CASE o.rev # rev
  <2> DEFINE r == [o EXCEPT !.rev = rev, !.version = @ + 1, !.quoted = FALSE, !.updated = Later(@, rev)]
             y == [key |-> "curated", rev |-> rev, version |-> o.version + 1, quoted |-> FALSE, updated |-> Later(o.updated, rev)]
  <2>1. o = [key |-> "curated", rev |-> o.rev, version |-> o.version, quoted |-> o.quoted, updated |-> o.updated]
    BY DEF Row
  <2>2. r = y
    <3>1. DOMAIN r = DOMAIN y
      BY <2>1
    <3>2. r.key = y.key /\ r.rev = y.rev /\ r.quoted = y.quoted
      BY <2>1
    <3>3. r.version = y.version
      BY <2>1
    <3>4. r.updated = y.updated
      BY <2>1
    <3> QED BY <2>1, <3>1, <3>2, <3>3, <3>4
  <2>3. Revised(o, rev) = r
    BY <1>0, <1>2 DEF Revised
  <2>4. Later(o.updated, rev) \in Nat /\ Later(o.updated, rev) >= o.updated /\ Later(o.updated, rev) >= rev
    BY <1>0 DEF Later
  <2>5. y \in Row
    BY <1>0, <2>4 DEF Row
  <2> HIDE DEF r
  <2> QED BY <1>0, <1>2, <2>2, <2>3, <2>4, <2>5
<1> QED BY <1>1, <1>2

(* A quote that may be superseded.                                         *)
LEMMA OfferMayEnd ==
    ASSUME NEW o \in Offer, NEW rev \in Nat
    PROVE  /\ Superseded(o, rev) \in Offer
           /\ Superseded(o, rev).demand = o.demand /\ Superseded(o, rev).created = o.created
           /\ Superseded(o, rev).until <= o.until
           /\ o.superseded => Superseded(o, rev).superseded
           /\ ~Superseded(o, rev).superseded => Superseded(o, rev) = o /\ (o.demand = Curated => o.rev = rev)
<1>0. o.until \in Nat /\ o.superseded \in BOOLEAN
  BY DEF Offer
<1>1. CASE o.demand = Curated /\ ~o.superseded /\ o.rev # rev
  <2> DEFINE r == [o EXCEPT !.superseded = TRUE, !.until = Earlier(@, rev)]
             y == [demand |-> o.demand, rev |-> o.rev, created |-> o.created, until |-> Earlier(o.until, rev), superseded |-> TRUE]
  <2>1. o = [demand |-> o.demand, rev |-> o.rev, created |-> o.created, until |-> o.until, superseded |-> o.superseded]
    BY DEF Offer
  <2>2. r = y
    <3>1. DOMAIN r = DOMAIN y
      BY <2>1
    <3>2. r.demand = y.demand /\ r.rev = y.rev /\ r.created = y.created
      BY <2>1
    <3>3. r.until = y.until
      BY <2>1
    <3>4. r.superseded = y.superseded
      BY <2>1
    <3> QED BY <2>1, <3>1, <3>2, <3>3, <3>4
  <2>3. Superseded(o, rev) = r
    BY <1>1 DEF Superseded
  <2>4. Earlier(o.until, rev) \in Nat /\ Earlier(o.until, rev) <= o.until
    BY <1>0 DEF Earlier
  <2>5. y \in Offer
    BY <2>4 DEF Offer
  <2> HIDE DEF r
  <2> QED BY <1>0, <2>2, <2>3, <2>4, <2>5
<1>2. CASE ~(o.demand = Curated /\ ~o.superseded /\ o.rev # rev)
  <2>1. Superseded(o, rev) = o
    BY <1>2 DEF Superseded
  <2> QED BY <1>0, <1>2, <2>1
<1> QED BY <1>1, <1>2

(* The curated demand of the week replaces the one before and its quotes.  *)
LEMMA DemandIsCurated ==
    ASSUME DemandInv, NEW v \in Visits, UpsertCurated(v)
    PROVE  DemandInv'
<1>t. DemandTypeOK /\ TablesInv
  BY DEF DemandInv, TablesInv
<1>a. visit[v].at \in Nat \ {0} /\ visit[v].at <= week
  <2>1. VisitIsSound(visit[v]) /\ visit[v].step = "upsert"
    BY DEF DemandInv, VisitsInv, UpsertCurated
  <2> QED BY <2>1 DEF VisitIsSound
<1>r. PICK rev \in visit[v].at .. week :
          /\ market' = [market EXCEPT ![Curated] = Revised(@, rev)]
          /\ offers' = [q \in QuoteKeys |-> IF offers[q] = NoOffer THEN NoOffer ELSE Superseded(offers[q], rev)]
          /\ curated' = rev
  BY DEF UpsertCurated
<1>u. /\ week' = week /\ issued' = issued /\ papers' = papers /\ staged' = staged
      /\ visit' = [visit EXCEPT ![v] = NoVisit]
  BY DEF UpsertCurated, Steps
<1>w. /\ week \in Nat \ {0} /\ rev \in 1 .. week /\ Curated \in Demands
      /\ NoRow.key = "none" /\ "none" \notin BuyerKeys /\ "curated" \notin BuyerKeys
      /\ CatalogKeys \subseteq BuyerKeys
  BY <1>a, <1>r, <1>t, DemandsAssumption DEF DemandTypeOK, NoRow, BuyerKeys
<1> DEFINE old == market[Curated]
           new == Revised(old, rev)
<1>n. /\ new \in Row /\ new.key = "curated" /\ new.rev = rev /\ new.updated >= rev
      /\ old # NoRow => new.version >= old.version /\ new.updated >= old.updated
      /\ old # NoRow /\ new.version = old.version => new = old
      /\ old # NoRow /\ old.rev = rev => new = old
  <2>1. CASE old = NoRow
    <3>1. new = NewRow("curated", rev, rev) /\ rev \in Nat
      BY <1>w, <2>1 DEF Revised
    <3> HIDE DEF new
    <3> QED BY <2>1, <3>1, NewRowIsRow
  <2>2. CASE old # NoRow
    <3>1. old \in Row /\ old.key = "curated" /\ old.rev = curated /\ old.updated >= curated
      BY <1>t, <1>w, <2>2, RowIsThere DEF TablesInv, RowsAreSound, DemandTypeOK
    <3> HIDE DEF old
    <3>2. rev \in Nat
      BY <1>w
    <3> QED BY <3>1, <3>2, RowIsRevised
  <2> QED BY <2>1, <2>2
<1>m. /\ market'[Curated] = new
      /\ \A d \in Demands : d # Curated => market'[d] = market[d]
  BY <1>r, <1>t, <1>w DEF DemandTypeOK
<1>k. new # NoRow
  BY <1>n, RowIsThere
<1> HIDE DEF new
<1>o. ASSUME NEW q \in QuoteKeys, offers'[q] # NoOffer
      PROVE  /\ offers[q] # NoOffer /\ offers[q] \in Offer /\ offers'[q] \in Offer
             /\ offers'[q].demand = offers[q].demand /\ offers'[q].created = offers[q].created
             /\ offers'[q].until <= offers[q].until
             /\ offers[q].superseded => offers'[q].superseded
             /\ ~offers'[q].superseded => offers'[q] = offers[q] /\ (offers[q].demand = Curated => offers[q].rev = rev)
  <2>1. offers[q] # NoOffer /\ offers'[q] = Superseded(offers[q], rev)
    BY <1>r, <1>o
  <2>2. offers[q] \in Offer /\ rev \in Nat
    BY <1>t, <1>w, <2>1, OfferIsThere DEF DemandTypeOK
  <2> QED BY <2>1, <2>2, OfferMayEnd
<1>1. DemandTypeOK'
  <2>1. market' \in [Demands -> Row \cup {NoRow}]
    BY <1>t, <1>r, <1>n DEF DemandTypeOK, new
  <2>2. offers' \in [QuoteKeys -> Offer \cup {NoOffer}]
    <3>1. \A q \in QuoteKeys : offers'[q] \in Offer \cup {NoOffer}
      BY <1>o
    <3>2. offers' = [q \in QuoteKeys |-> offers'[q]]
      BY <1>r
    <3> QED BY <3>1, <3>2
  <2>3. curated' \in 1 .. week'
    BY <1>r, <1>u, <1>w
  <2> QED BY <1>t, <1>u, <2>1, <2>2, <2>3 DEF DemandTypeOK
<1>2. RowsAreSound'
  <2>1. RowsAreSound
    BY <1>t DEF TablesInv
  <2>2. \A d \in Demands : staged[d] # NoRow => d # Curated
    BY <2>1 DEF RowsAreSound
  <2> QED BY <1>u, <1>r, <1>m, <1>n, <2>1, <2>2 DEF RowsAreSound
<1>3. OneEach'
  <2>1. \A k \in BuyerKeys : RowsOf(k)' \subseteq RowsOf(k)
    BY <1>u, <1>m, <1>n, <1>w DEF RowsOf
  <2>2. OneEach
    BY <1>t DEF TablesInv
  <2> QED BY <2>1, <2>2 DEF OneEach
<1>4. PapersName'
  <2>1. PapersName
    BY <1>t DEF TablesInv
  <2> QED BY <1>u, <1>m, <1>n, <1>w, <2>1 DEF PapersName
<1>5. (Held <= MaxDemands)'
  <2>1. Held <= MaxDemands
    BY <1>t DEF TablesInv
  <2>2. PublicIds' \subseteq PublicIds /\ StagedIds' \subseteq StagedIds
    BY <1>u, <1>m DEF PublicIds, StagedIds
  <2> QED BY <2>1, <2>2, HeldLessens
<1>6. OffersStand'
  <2>1. ASSUME NEW q \in QuoteKeys, offers'[q] # NoOffer
        PROVE  LET row == market'[offers'[q].demand] IN
               /\ row # NoRow /\ offers'[q].created <= row.updated
               /\ ~offers'[q].superseded => row.rev = offers'[q].rev /\ row.quoted
    <3>1. offers[q].demand \in Demands /\ offers[q].created \in Nat
      BY <1>o, <2>1 DEF Offer
    <3>2. LET row == market[offers[q].demand] IN
          /\ row # NoRow /\ offers[q].created <= row.updated
          /\ ~offers[q].superseded => row.rev = offers[q].rev /\ row.quoted
      BY <1>t, <1>o, <2>1 DEF TablesInv, OffersStand
    <3>3. CASE offers[q].demand # Curated
      BY <1>m, <1>o, <2>1, <3>1, <3>2, <3>3
    <3>4. CASE offers[q].demand = Curated
      <4>1. market'[offers'[q].demand] = new /\ old # NoRow /\ old \in Row
        BY <1>m, <1>o, <1>t, <1>w, <2>1, <3>2, <3>4, RowIsThere DEF DemandTypeOK
      <4>2. old.updated \in Nat /\ new.updated \in Nat
        BY <1>n, <4>1 DEF Row
      <4>3. offers'[q].created <= new.updated
        BY <1>n, <1>o, <2>1, <3>1, <3>2, <3>4, <4>1, <4>2
      <4>4. ASSUME ~offers'[q].superseded PROVE new.rev = offers'[q].rev /\ new.quoted
        <5>1. offers'[q] = offers[q] /\ offers[q].rev = rev /\ ~offers[q].superseded
          BY <1>o, <2>1, <3>4, <4>4
        <5>2. old.rev = rev /\ old.quoted
          BY <3>2, <3>4, <5>1
        <5>3. new = old
          BY <1>n, <4>1, <5>2
        <5> QED BY <5>1, <5>2, <5>3
      <4> QED BY <1>k, <4>1, <4>3, <4>4
    <3> QED BY <3>3, <3>4
  <2> QED BY <2>1 DEF OffersStand
<1>7. LimitsHold'
  <2>1. LimitsHold
    BY <1>t DEF TablesInv
  <2>2. OffersHeld' \subseteq OffersHeld
    BY <1>o DEF OffersHeld
  <2>3. ASSUME NEW q \in QuoteKeys, Live(q, week)' PROVE Live(q, week)
    <3>1. offers'[q] # NoOffer /\ ~offers'[q].superseded /\ offers'[q].until > week
      BY <1>u, <2>3 DEF Live
    <3> QED BY <1>o, <3>1 DEF Live
  <2>4. ASSUME NEW d \in Demands PROVE LiveFor(d, week)' \subseteq LiveFor(d, week)
    <3>1. \A q \in QuoteKeys : Live(q, week)' => offers'[q].demand = offers[q].demand
      BY <1>o DEF Live
    <3> QED BY <2>3, <3>1 DEF LiveFor
  <2> QED BY <2>1, <2>2, <2>4, LimitsLessen
<1>8. TablesMove
  <2>1. \A d \in issued : d \in Demands
    BY <1>t DEF DemandTypeOK
  <2>2. \A d \in Demands : market[d] # NoRow => market[d].version \in Nat /\ market[d].updated \in Nat
    BY <1>t, RowIsThere DEF DemandTypeOK, Row
  <2>3. old # NoRow => old.key = "curated"
    BY <1>t DEF TablesInv, RowsAreSound
  <2> QED BY <1>u, <1>m, <1>n, <1>k, <2>1, <2>2, <2>3 DEF TablesMove
<1>9. VisitsInv'
  <2>1. PICK r : r = NoVisit
    OBVIOUS
  <2>2. VisitIsSound(r)'
    BY <2>1 DEF VisitIsSound, NoVisit, PaperSteps
  <2> QED BY <1>1, <1>8, <1>u, <2>1, <2>2, VisitsMove
<1> QED BY <1>1, <1>2, <1>3, <1>4, <1>5, <1>6, <1>7, <1>9 DEF DemandInv, TablesInv

(* A demand is entered under a fresh id, and its buyer has no other.       *)
LEMMA DemandIsEntered ==
    ASSUME DemandInv, NEW v \in Visits, NEW k \in BuyerKeys, k = visit[v].k, visit[v].step = "post",
           RowsOf(k) = {}, Held < MaxDemands, NEW d \in Demands \ issued, Insert(v, k, d),
           Steps(v, [step |-> "bound", at |-> visit[v].at, k |-> k, d |-> d]),
           UNCHANGED <<week, curated, offers, papers>>
    PROVE  DemandInv'
<1>t. DemandTypeOK /\ TablesInv
  BY DEF DemandInv, TablesInv
<1>r. PICK row : row = NewRow(k, 0, visit[v].at)
  OBVIOUS
<1>a. visit[v].at \in Nat \ {0} /\ visit[v].at <= week /\ visit[v].at >= week - 1
  <2>1. VisitIsSound(visit[v])
    BY DEF DemandInv, VisitsInv
  <2> QED BY <2>1 DEF VisitIsSound
<1>n. row \in Row /\ row.key = k /\ row.rev = 0 /\ row # NoRow
  <2>1. row \in Row /\ row.key = k /\ row.rev = 0
    BY <1>r, <1>a, NewRowIsRow
  <2> QED BY <2>1, RowIsThere
<1>u. /\ week' = week /\ curated' = curated /\ offers' = offers /\ papers' = papers
      /\ issued' = issued \cup {d}
  BY DEF Insert
<1>w. /\ Curated \in issued /\ d # Curated /\ staged[d] = NoRow /\ market[d] = NoRow
      /\ NoRow.key = "none" /\ k # "none" /\ k # "curated" /\ CatalogKeys \subseteq BuyerKeys /\ "none" \notin BuyerKeys
  BY <1>t, DemandsAssumption DEF TablesInv, RowsAreSound, NoRow, BuyerKeys
<1>m. /\ \A e \in Demands : e # d => staged'[e] = staged[e] /\ market'[e] = market[e]
      /\ \/ staged'[d] = row /\ market'[d] = NoRow /\ k \in CatalogKeys
         \/ staged'[d] = NoRow /\ market'[d] = row /\ k \notin CatalogKeys
      /\ market' \in [Demands -> Row \cup {NoRow}] /\ staged' \in [Demands -> Row \cup {NoRow}]
  <2>1. CASE k \in CatalogKeys
    <3>1. staged' = [staged EXCEPT ![d] = row] /\ market' = market
      BY <1>r, <2>1 DEF Insert
    <3> QED BY <1>t, <1>n, <1>w, <2>1, <3>1 DEF DemandTypeOK
  <2>2. CASE k \notin CatalogKeys
    <3>1. market' = [market EXCEPT ![d] = row] /\ staged' = staged
      BY <1>r, <2>2 DEF Insert
    <3> QED BY <1>t, <1>n, <1>w, <2>2, <3>1 DEF DemandTypeOK
  <2> QED BY <2>1, <2>2
<1>1. DemandTypeOK'
  BY <1>t, <1>u, <1>m DEF DemandTypeOK
<1>2. RowsAreSound'
  <2>1. RowsAreSound
    BY <1>t DEF TablesInv
  <2>2. \A e \in Demands : e # d =>
          /\ staged'[e] # NoRow => e \in issued' /\ staged'[e].key \in CatalogKeys /\ staged'[e].rev = 0 /\ market'[e] = NoRow
          /\ market'[e] # NoRow => e \in issued'
          /\ market'[e] # NoRow /\ e # Curated => market'[e].key \in BuyerKeys /\ market'[e].rev = 0
    BY <1>u, <1>m, <2>1 DEF RowsAreSound
  <2>3. /\ staged'[d] # NoRow => d \in issued' /\ staged'[d].key \in CatalogKeys /\ staged'[d].rev = 0 /\ market'[d] = NoRow
        /\ market'[d] # NoRow => d \in issued'
        /\ market'[d] # NoRow /\ d # Curated => market'[d].key \in BuyerKeys /\ market'[d].rev = 0
    BY <1>u, <1>m, <1>n
  <2>4. market'[Curated] = market[Curated] /\ staged'[Curated] = staged[Curated]
    BY <1>m, <1>w, DemandsAssumption
  <2> QED BY <1>u, <2>1, <2>2, <2>3, <2>4 DEF RowsAreSound
<1>3. OneEach'
  <2>1. ASSUME NEW y \in BuyerKeys, y # k PROVE RowsOf(y)' \subseteq RowsOf(y)
    BY <1>m, <1>n, <1>w, <2>1 DEF RowsOf
  <2>2. RowsOf(k)' \subseteq {d}
    BY <1>m DEF RowsOf
  <2>3. OneEach
    BY <1>t DEF TablesInv
  <2> QED BY <2>1, <2>2, <2>3 DEF OneEach
<1>4. PapersName'
  <2>1. PapersName
    BY <1>t DEF TablesInv
  <2> QED BY <1>u, <1>m, <1>n, <1>w, <2>1 DEF PapersName
<1>5. (Held <= MaxDemands)'
  <2>1. CASE k \in CatalogKeys
    <3>1. PublicIds' = PublicIds /\ StagedIds' = StagedIds \cup {d}
      BY <1>m, <1>n, <1>w, <2>1 DEF PublicIds, StagedIds
    <3>2. Cardinality(StagedIds \cup {d}) = Cardinality(StagedIds) \/ Cardinality(StagedIds \cup {d}) = Cardinality(StagedIds) + 1
      BY HeldCounts, FS_AddElement
    <3> QED BY <3>1, <3>2, HeldCounts, HeldCountsThen, DemandsAssumption
  <2>2. CASE k \notin CatalogKeys
    <3>1. StagedIds' = StagedIds /\ PublicIds' = PublicIds \cup {d}
      BY <1>m, <1>n, <1>w, <2>2 DEF PublicIds, StagedIds
    <3>2. Cardinality(PublicIds \cup {d}) = Cardinality(PublicIds) \/ Cardinality(PublicIds \cup {d}) = Cardinality(PublicIds) + 1
      BY HeldCounts, FS_AddElement
    <3> QED BY <3>1, <3>2, HeldCounts, HeldCountsThen, DemandsAssumption
  <2> QED BY <2>1, <2>2
<1>6. OffersStand'
  <2>1. OffersStand
    BY <1>t DEF TablesInv
  <2>2. \A q \in QuoteKeys : offers[q] # NoOffer => offers[q].demand \in Demands /\ offers[q].demand # d
    <3>1. \A q \in QuoteKeys : offers[q] # NoOffer => offers[q].demand \in Demands
      BY <1>t, OfferIsThere DEF DemandTypeOK, Offer
    <3> QED BY <1>w, <2>1, <3>1 DEF OffersStand
  <2> QED BY <1>u, <1>m, <2>1, <2>2 DEF OffersStand
<1>7. LimitsHold'
  <2>1. LimitsHold
    BY <1>t DEF TablesInv
  <2> QED BY <1>u, <2>1 DEF LimitsHold, LiveFor, Live, OffersHeld
<1>8. TablesMove
  <2>1. \A e \in issued : e \in Demands /\ e # d
    BY <1>t DEF DemandTypeOK
  <2>2. \A e \in Demands : market[e] # NoRow => market[e].version \in Nat /\ market[e].updated \in Nat
    BY <1>t, RowIsThere DEF DemandTypeOK, Row
  <2> QED BY <1>u, <1>m, <1>w, <2>1, <2>2 DEF TablesMove
<1>9. VisitsInv'
  <2>1. PICK r : r = [step |-> "bound", at |-> visit[v].at, k |-> k, d |-> d]
    OBVIOUS
  <2>2. OnPaper(r)'
    <3>1. r \in PaperVisit
      BY <1>a, <1>w, <2>1 DEF PaperVisit, PaperSteps
    <3> QED BY <1>u, <1>m, <1>n, <2>1, <3>1 DEF OnPaper
  <2>3. VisitIsSound(r)'
    BY <1>a, <1>u, <2>1, <2>2 DEF VisitIsSound
  <2>4. visit' = [visit EXCEPT ![v] = r]
    BY <2>1 DEF Steps
  <2> QED BY <1>1, <1>8, <1>u, <2>3, <2>4, VisitsMove
<1> QED BY <1>1, <1>2, <1>3, <1>4, <1>5, <1>6, <1>7, <1>9 DEF DemandInv, TablesInv

(* A demand is posted: it is entered, or that of the winner is found.      *)
LEMMA DemandIsPosted ==
    ASSUME DemandInv, NEW v \in Visits, PostDemand(v)
    PROVE  DemandInv'
<1>s. VisitIsSound(visit[v]) /\ visit[v].step = "post"
  BY DEF DemandInv, VisitsInv, PostDemand
<1>k. PICK k \in BuyerKeys : k = visit[v].k
  BY <1>s DEF VisitIsSound
<1>a. visit[v].at \in Nat \ {0} /\ visit[v].at <= week /\ visit[v].at >= week - 1
  BY <1>s DEF VisitIsSound
<1>u. UNCHANGED <<week, curated, offers, papers>>
  BY DEF PostDemand
<1>1. ASSUME RowsOf(k) = {}, Held < MaxDemands, NEW d \in Demands \ issued, Insert(v, k, d),
             Steps(v, [step |-> "bound", at |-> visit[v].at, k |-> k, d |-> d])
      PROVE  DemandInv'
  BY <1>1, <1>s, <1>k, <1>u, DemandIsEntered
<1>2. ASSUME NEW d \in RowsOf(k), Steps(v, [step |-> "bound", at |-> visit[v].at, k |-> k, d |-> d]),
             UNCHANGED <<issued, staged, market>>
      PROVE  DemandInv'
  <2>0. week' = week /\ curated' = curated /\ UNCHANGED Tables
    BY <1>2, <1>u DEF Tables
  <2>1. TablesInv' /\ TablesMove /\ TablesInv
    BY <2>0, TablesSame DEF DemandInv
  <2>2. PICK r : r = [step |-> "bound", at |-> visit[v].at, k |-> k, d |-> d]
    OBVIOUS
  <2>3. /\ d \in Demands \ {Curated} /\ d \in issued
        /\ staged[d] # NoRow => staged[d].key = k
        /\ market[d] # NoRow => market[d].key = k
    BY <2>1, RowFound
  <2>4. OnPaper(r)'
    <3>1. r \in PaperVisit
      BY <1>a, <2>2, <2>3 DEF PaperVisit, PaperSteps
    <3>2. issued' = issued /\ staged' = staged /\ market' = market
      BY <1>2
    <3> QED BY <2>2, <2>3, <3>1, <3>2 DEF OnPaper
  <2>5. VisitIsSound(r)'
    BY <1>a, <2>0, <2>2, <2>4 DEF VisitIsSound
  <2>6. visit' = [visit EXCEPT ![v] = r]
    BY <1>2, <2>2 DEF Steps
  <2>7. VisitsInv'
    BY <2>0, <2>1, <2>5, <2>6, VisitsMove DEF TablesInv
  <2> QED BY <2>1, <2>7 DEF DemandInv
<1> QED BY <1>1, <1>2, <1>k DEF PostDemand

(* A paper is filed once for a key, and names the demand of the visit.     *)
LEMMA PaperIsFiled ==
    ASSUME DemandInv, NEW v \in Visits, FilePaper(v)
    PROVE  DemandInv'
<1>t. DemandTypeOK /\ TablesInv
  BY DEF DemandInv, TablesInv
<1>x. PICK x : x = visit[v]
  OBVIOUS
<1>s. VisitIsSound(x) /\ x.step \in Papers
  BY <1>x DEF DemandInv, VisitsInv, FilePaper
<1>p. OnPaper(x)
  BY <1>s DEF VisitIsSound, Papers, PaperSteps
<1>w. /\ x.k \in BuyerKeys /\ x.d \in Demands /\ x.d # NoPaper /\ x \in PaperVisit /\ x.at \in Nat
      /\ \A e \in Demands : e # NoPaper
      /\ CatalogKeys \subseteq BuyerKeys
  BY <1>p, DemandsAssumption DEF OnPaper, PaperVisit, NoPaper, BuyerKeys
<1>u. /\ week' = week /\ curated' = curated /\ issued' = issued /\ staged' = staged /\ market' = market /\ offers' = offers
      /\ papers[x.k][x.step] \in {NoPaper, x.d}
      /\ papers' = [papers EXCEPT ![x.k][x.step] = x.d]
      /\ x.step = "snapshot" => papers[x.k]["bound"] = x.d
      /\ visit' = [visit EXCEPT ![v] = IF Following(x.k, x.step) = "none" THEN NoVisit
                                       ELSE [x EXCEPT !.step = Following(x.k, x.step)]]
  BY <1>x DEF FilePaper, Steps
<1>m. /\ papers'[x.k][x.step] = x.d
      /\ \A k \in BuyerKeys : \A y \in Papers : papers[k][y] # NoPaper => papers'[k][y] = papers[k][y]
      /\ papers' \in [BuyerKeys -> [Papers -> Demands \cup {NoPaper}]]
  BY <1>t, <1>s, <1>u, <1>w DEF DemandTypeOK
<1>1. DemandTypeOK'
  BY <1>t, <1>u, <1>m DEF DemandTypeOK
<1>2. RowsAreSound' /\ OffersStand'
  BY <1>t, <1>u DEF TablesInv, RowsAreSound, OffersStand
<1>3. OneEach'
  <2>1. OneEach
    BY <1>t DEF TablesInv
  <2> QED BY <1>u, <2>1 DEF OneEach, RowsOf
<1>4. PapersName'
  <2>1. PapersName
    BY <1>t DEF TablesInv
  <2> QED BY <1>u, <1>m, <1>w, <2>1 DEF PapersName
<1>5. (Held <= MaxDemands)'
  <2>1. Held <= MaxDemands
    BY <1>t DEF TablesInv
  <2> QED BY <1>u, <2>1 DEF Held
<1>6. LimitsHold'
  <2>1. LimitsHold
    BY <1>t DEF TablesInv
  <2> QED BY <1>u, <2>1 DEF LimitsHold, LiveFor, Live, OffersHeld
<1>7. TablesMove
  <2>1. \A d \in issued : market[d] # NoRow => market[d].version \in Nat /\ market[d].updated \in Nat
    BY <1>t, RowIsThere DEF DemandTypeOK, Row
  <2> QED BY <1>u, <1>m, <2>1 DEF TablesMove
<1>8. VisitsInv'
  <2>1. CASE Following(x.k, x.step) = "none"
    <3>1. PICK r : r = NoVisit
      OBVIOUS
    <3>2. VisitIsSound(r)'
      BY <3>1 DEF VisitIsSound, NoVisit, PaperSteps
    <3> QED BY <1>1, <1>7, <1>u, <2>1, <3>1, <3>2, VisitsMove
  <2>2. CASE Following(x.k, x.step) # "none"
    <3>1. PICK r : r = [x EXCEPT !.step = Following(x.k, x.step)]
      OBVIOUS
    <3>2. /\ x.k \in CatalogKeys
          /\ x.step = "bound" => Following(x.k, x.step) = "delivery"
          /\ x.step = "delivery" => Following(x.k, x.step) = "snapshot"
          /\ x.step = "snapshot" => Following(x.k, x.step) = "publish"
      <4>1. x.k \in CatalogKeys /\ x.k \notin PlainKeys
        BY <1>w, <2>2 DEF Following, BuyerKeys
      <4> QED BY <4>1 DEF Following
    <3>3. /\ r \in PaperVisit /\ r.k = x.k /\ r.d = x.d /\ r.at = x.at
          /\ r.step = Following(x.k, x.step)
      <4>1. Following(x.k, x.step) \in PaperSteps
        BY <1>s, <3>2 DEF Papers, PaperSteps
      <4> QED BY <1>w, <3>1, <4>1 DEF PaperVisit
    <3>4. /\ papers'[x.k]["bound"] = x.d
          /\ x.step \in {"delivery", "snapshot"} => papers'[x.k]["delivery"] = x.d
          /\ x.step = "snapshot" => papers'[x.k]["snapshot"] = x.d
      BY <1>s, <1>p, <1>m, <1>w DEF OnPaper, Papers
    <3>5. OnPaper(r)'
      <4>1. x.step = "bound" \/ x.step = "delivery" \/ x.step = "snapshot"
        BY <1>s DEF Papers
      <4>2. /\ r.d \in issued' /\ (staged'[r.d] # NoRow => staged'[r.d].key = r.k)
            /\ (market'[r.d] # NoRow => market'[r.d].key = r.k)
        BY <1>u, <1>p, <3>3 DEF OnPaper
      <4> QED BY <3>2, <3>3, <3>4, <4>1, <4>2 DEF OnPaper
    <3>6. VisitIsSound(r)'
      <4>1. r.at \in Nat \ {0} /\ r.at <= week' /\ r.at >= week' - 1
        BY <1>s, <1>u, <3>3 DEF VisitIsSound, Papers
      <4>2. r.step \in PaperSteps
        BY <3>3 DEF PaperVisit
      <4> QED BY <3>5, <4>1, <4>2 DEF VisitIsSound, PaperSteps
    <3> QED BY <1>1, <1>7, <1>u, <2>2, <3>1, <3>6, VisitsMove
  <2> QED BY <2>1, <2>2
<1> QED BY <1>1, <1>2, <1>3, <1>4, <1>5, <1>6, <1>8 DEF DemandInv, TablesInv

(* A staged row that becomes public.                                       *)
LEMMA RowIsPublished ==
    ASSUME NEW o \in Row, NEW at \in Nat, NEW r, r = [o EXCEPT !.version = @ + 1, !.updated = at]
    PROVE  r \in Row /\ r.key = o.key /\ r.rev = o.rev
<1>1. o = [key |-> o.key, rev |-> o.rev, version |-> o.version, quoted |-> o.quoted, updated |-> o.updated]
  BY DEF Row
<1> DEFINE y == [key |-> o.key, rev |-> o.rev, version |-> o.version + 1, quoted |-> o.quoted, updated |-> at]
<1>2. r = y
  BY <1>1
<1>3. y \in Row
  BY DEF Row
<1> QED BY <1>2, <1>3

(* A demand that is complete becomes public.                               *)
LEMMA DemandIsPublished ==
    ASSUME DemandInv, NEW v \in Visits, Publish(v)
    PROVE  DemandInv'
<1>t. DemandTypeOK /\ TablesInv
  BY DEF DemandInv, TablesInv
<1>d. PICK d : d = visit[v].d
  OBVIOUS
<1>p. OnPaper(visit[v]) /\ visit[v].step = "publish"
  <2>1. VisitIsSound(visit[v]) /\ visit[v].step = "publish"
    BY DEF DemandInv, VisitsInv, Publish
  <2> QED BY <2>1 DEF VisitIsSound, PaperSteps
<1>k. PICK k \in BuyerKeys : k = visit[v].k
  BY <1>p DEF OnPaper, PaperVisit
<1>0. /\ d \in Demands \ {Curated} /\ d \in issued /\ k \in CatalogKeys
      /\ staged[d] # NoRow => staged[d].key = k
      /\ \A x \in Papers : papers[k][x] = d
  BY <1>d, <1>k, <1>p DEF OnPaper, PaperVisit, Papers
<1>u. /\ week' = week /\ curated' = curated /\ issued' = issued /\ offers' = offers /\ papers' = papers
      /\ visit' = [visit EXCEPT ![v] = NoVisit]
  BY DEF Publish, Steps
<1>i. PICK idle : idle = NoVisit
  OBVIOUS
<1>j. VisitIsSound(idle)'
  BY <1>i DEF VisitIsSound, NoVisit, PaperSteps
<1>1. CASE market[d] # NoRow /\ UNCHANGED <<staged, market>>
  <2>1. UNCHANGED Tables
    BY <1>u, <1>1 DEF Tables
  <2>2. TablesInv' /\ TablesMove
    BY <1>u, <2>1, TablesSame
  <2>3. VisitsInv'
    BY <1>u, <1>i, <1>j, <2>2, VisitsMove DEF TablesInv
  <2> QED BY <2>2, <2>3 DEF DemandInv
<1>2. CASE /\ market[d] = NoRow /\ staged[d] # NoRow
           /\ market' = [market EXCEPT ![d] = [staged[d] EXCEPT !.version = @ + 1, !.updated = week]]
           /\ staged' = [staged EXCEPT ![d] = NoRow]
  <2>r. PICK row : row = [staged[d] EXCEPT !.version = @ + 1, !.updated = week]
    OBVIOUS
  <2>w. /\ NoRow.key = "none" /\ "none" \notin BuyerKeys /\ CatalogKeys \subseteq BuyerKeys
        /\ week \in Nat /\ staged[d] \in Row /\ Curated \in Demands
    BY <1>t, <1>0, <1>2, RowIsThere, DemandsAssumption DEF DemandTypeOK, NoRow, BuyerKeys
  <2>n. row \in Row /\ row.key = k /\ row.rev = 0 /\ row # NoRow
    <3>1. row \in Row /\ row.key = staged[d].key /\ row.rev = staged[d].rev
      BY <2>r, <2>w, RowIsPublished
    <3>2. staged[d].rev = 0
      BY <1>t, <1>0, <1>2 DEF TablesInv, RowsAreSound
    <3> QED BY <1>0, <1>2, <3>1, <3>2, RowIsThere
  <2>m. /\ \A e \in Demands : e # d => staged'[e] = staged[e] /\ market'[e] = market[e]
        /\ staged'[d] = NoRow /\ market'[d] = row
        /\ market' \in [Demands -> Row \cup {NoRow}] /\ staged' \in [Demands -> Row \cup {NoRow}]
    <3>1. market' = [market EXCEPT ![d] = row] /\ staged' = [staged EXCEPT ![d] = NoRow]
      BY <1>2, <2>r
    <3> QED BY <1>t, <1>0, <2>n, <3>1 DEF DemandTypeOK
  <2>1. DemandTypeOK'
    BY <1>t, <1>u, <2>m DEF DemandTypeOK
  <2>2. RowsAreSound'
    <3>1. RowsAreSound
      BY <1>t DEF TablesInv
    <3>2. \A e \in Demands : e # d =>
            /\ staged'[e] # NoRow => e \in issued' /\ staged'[e].key \in CatalogKeys /\ staged'[e].rev = 0 /\ market'[e] = NoRow
            /\ market'[e] # NoRow => e \in issued'
            /\ market'[e] # NoRow /\ e # Curated => market'[e].key \in BuyerKeys /\ market'[e].rev = 0
      BY <1>u, <2>m, <3>1 DEF RowsAreSound
    <3>3. /\ staged'[d] = NoRow /\ d \in issued'
          /\ market'[d] # NoRow /\ d # Curated => market'[d].key \in BuyerKeys /\ market'[d].rev = 0
      BY <1>u, <1>0, <2>m, <2>n, <2>w
    <3>4. market'[Curated] = market[Curated] /\ staged'[Curated] = staged[Curated]
      BY <1>0, <2>m, <2>w
    <3> QED BY <1>u, <3>1, <3>2, <3>3, <3>4 DEF RowsAreSound
  <2>3. OneEach'
    <3>1. \A y \in BuyerKeys : RowsOf(y)' \subseteq RowsOf(y)
      BY <1>0, <1>2, <2>m, <2>n, <2>w DEF RowsOf
    <3>2. OneEach
      BY <1>t DEF TablesInv
    <3> QED BY <3>1, <3>2 DEF OneEach
  <2>4. PapersName'
    <3>1. PapersName
      BY <1>t DEF TablesInv
    <3> QED BY <1>u, <1>0, <2>m, <2>n, <3>1 DEF PapersName
  <2>5. (Held <= MaxDemands)'
    <3>1. PublicIds' = PublicIds \cup {d} /\ StagedIds' = StagedIds \ {d}
      BY <1>0, <2>m, <2>n DEF PublicIds, StagedIds
    <3>2. Cardinality(PublicIds \cup {d}) = Cardinality(PublicIds) \/ Cardinality(PublicIds \cup {d}) = Cardinality(PublicIds) + 1
      BY HeldCounts, FS_AddElement
    <3>3. d \in StagedIds
      BY <1>0, <1>2 DEF StagedIds
    <3>4. Cardinality(StagedIds \ {d}) = Cardinality(StagedIds) - 1
      BY <3>3, HeldCounts, FS_RemoveElement
    <3>5. Held <= MaxDemands
      BY <1>t DEF TablesInv
    <3> QED BY <3>1, <3>2, <3>4, <3>5, HeldCounts, HeldCountsThen, DemandsAssumption
  <2>6. OffersStand'
    <3>1. OffersStand
      BY <1>t DEF TablesInv
    <3>2. \A q \in QuoteKeys : offers[q] # NoOffer => offers[q].demand \in Demands /\ offers[q].demand # d
      <4>1. \A q \in QuoteKeys : offers[q] # NoOffer => offers[q].demand \in Demands
        BY <1>t, OfferIsThere DEF DemandTypeOK, Offer
      <4> QED BY <1>2, <3>1, <4>1 DEF OffersStand
    <3> QED BY <1>u, <2>m, <3>1, <3>2 DEF OffersStand
  <2>7. LimitsHold'
    <3>1. LimitsHold
      BY <1>t DEF TablesInv
    <3> QED BY <1>u, <3>1 DEF LimitsHold, LiveFor, Live, OffersHeld
  <2>8. TablesMove
    <3>1. \A e \in issued : e \in Demands
      BY <1>t DEF DemandTypeOK
    <3>2. \A e \in Demands : market[e] # NoRow => market[e].version \in Nat /\ market[e].updated \in Nat
      BY <1>t, RowIsThere DEF DemandTypeOK, Row
    <3> QED BY <1>u, <1>0, <1>2, <2>m, <2>n, <3>1, <3>2 DEF TablesMove
  <2>9. VisitsInv'
    BY <1>u, <1>i, <1>j, <2>1, <2>8, VisitsMove
  <2> QED BY <2>1, <2>2, <2>3, <2>4, <2>5, <2>6, <2>7, <2>9 DEF DemandInv, TablesInv
<1> QED BY <1>1, <1>2, <1>d DEF Publish

RowQuoted(o, at) == [o EXCEPT !.quoted = TRUE, !.version = @ + 1, !.updated = Later(@, at)]

(* A row that is quoted.                                                   *)
LEMMA RowIsQuoted ==
    ASSUME NEW o \in Row, NEW at \in Nat, NEW r, r = RowQuoted(o, at)
    PROVE  /\ r \in Row /\ r.key = o.key /\ r.rev = o.rev /\ r.quoted
           /\ r.version = o.version + 1 /\ r.updated >= o.updated /\ r.updated >= at
<1>1. o = [key |-> o.key, rev |-> o.rev, version |-> o.version, quoted |-> o.quoted, updated |-> o.updated]
  BY DEF Row
<1> DEFINE y == [key |-> o.key, rev |-> o.rev, version |-> o.version + 1, quoted |-> TRUE, updated |-> Later(o.updated, at)]
<1>2. r = y
  <2>1. DOMAIN r = DOMAIN y
    BY <1>1 DEF RowQuoted
  <2>2. r.key = y.key /\ r.rev = y.rev /\ r.quoted = y.quoted
    BY <1>1 DEF RowQuoted
  <2>3. r.version = y.version
    BY <1>1 DEF RowQuoted
  <2>4. r.updated = y.updated
    BY <1>1 DEF RowQuoted
  <2> QED BY <1>1, <2>1, <2>2, <2>3, <2>4 DEF RowQuoted
<1>3. o.updated \in Nat /\ o.version \in Nat
  BY DEF Row
<1>4. Later(o.updated, at) \in Nat /\ Later(o.updated, at) >= o.updated /\ Later(o.updated, at) >= at
  BY <1>3 DEF Later
<1>5. y \in Row
  BY <1>3, <1>4 DEF Row
<1> QED BY <1>2, <1>4, <1>5

(* A quote is entered for the revision that was read.                      *)
LEMMA QuoteIsPosted ==
    ASSUME DemandInv, NEW v \in Visits, NEW term \in Terms, PostQuote(v, term)
    PROVE  DemandInv'
<1>t. DemandTypeOK /\ TablesInv
  BY DEF DemandInv, TablesInv
<1>x. PICK x : x = visit[v]
  OBVIOUS
<1>s. x.step = "quote" /\ OnQuote(x) /\ x.at \in Nat \ {0} /\ x.at <= week
  <2>1. VisitIsSound(x) /\ x.step = "quote"
    BY <1>x DEF DemandInv, VisitsInv, PostQuote
  <2> QED BY <2>1 DEF VisitIsSound
<1>q. PICK q \in QuoteKeys : q = x.q
  BY <1>s DEF OnQuote
<1>d. PICK d : d = x.d
  OBVIOUS
<1>g. /\ offers[q] = NoOffer /\ market[d] # NoRow /\ market[d].version = x.version
      /\ Cardinality(LiveFor(d, x.at)) < QuotesPerDemand /\ Cardinality(OffersHeld) < MaxQuotes
      /\ offers' = [offers EXCEPT ![q] = [demand |-> d, rev |-> x.rev, created |-> x.at, until |-> x.at + term, superseded |-> FALSE]]
      /\ market' = [market EXCEPT ![d] = [market[d] EXCEPT !.quoted = TRUE, !.version = @ + 1, !.updated = Later(@, x.at)]]
  <2>1. LET at == x.at IN
        /\ offers[q] = NoOffer /\ market[d] # NoRow /\ market[d].version = x.version
        /\ Cardinality(LiveFor(d, at)) < QuotesPerDemand /\ Cardinality(OffersHeld) < MaxQuotes
        /\ offers' = [offers EXCEPT ![q] = [demand |-> d, rev |-> x.rev, created |-> at, until |-> at + term, superseded |-> FALSE]]
        /\ market' = [market EXCEPT ![d].quoted = TRUE, ![d].version = @ + 1, ![d].updated = Later(@, at)]
    BY <1>x, <1>q, <1>d DEF PostQuote, OffersHeld
  <2> QED BY <2>1
<1>u. /\ week' = week /\ curated' = curated /\ issued' = issued /\ papers' = papers /\ staged' = staged
      /\ visit' = [visit EXCEPT ![v] = NoVisit]
  BY DEF PostQuote, Steps
<1>w. /\ week \in Nat /\ d \in issued /\ d \in Demands /\ market[d] \in Row /\ staged[d] = NoRow /\ x.rev \in Nat
      /\ market[d].rev = x.rev /\ term \in Nat \ {0} /\ MaxQuotes \in Nat /\ QuotesPerDemand \in Nat
      /\ IsFiniteSet(QuoteKeys) /\ NoRow.key = "none" /\ "none" \notin BuyerKeys /\ CatalogKeys \subseteq BuyerKeys
  BY <1>t, <1>s, <1>d, <1>g, RowIsThere, DemandsAssumption DEF DemandTypeOK, OnQuote, NoRow, BuyerKeys
<1>r. PICK row : row = [market[d] EXCEPT !.quoted = TRUE, !.version = @ + 1, !.updated = Later(@, x.at)]
  OBVIOUS
<1>n. /\ row \in Row /\ row.key = market[d].key /\ row.rev = market[d].rev /\ row.quoted
      /\ row.version = market[d].version + 1 /\ row.updated >= market[d].updated /\ row.updated >= x.at
      /\ row # NoRow
  <2>1. PICK old \in Row : old = market[d]
    BY <1>w
  <2>2. x.at \in Nat /\ row = RowQuoted(old, x.at)
    BY <1>r, <1>s, <2>1 DEF RowQuoted
  <2>3. /\ row \in Row /\ row.key = old.key /\ row.rev = old.rev /\ row.quoted
        /\ row.version = old.version + 1 /\ row.updated >= old.updated /\ row.updated >= x.at
    BY <2>2, RowIsQuoted
  <2>4. row # NoRow
    BY <2>3, RowIsThere
  <2> QED BY <2>1, <2>3, <2>4
<1>m. /\ market'[d] = row /\ \A e \in Demands : e # d => market'[e] = market[e]
      /\ market' \in [Demands -> Row \cup {NoRow}]
  BY <1>t, <1>g, <1>r, <1>n, <1>w DEF DemandTypeOK
<1>f. PICK o : o = [demand |-> d, rev |-> x.rev, created |-> x.at, until |-> x.at + term, superseded |-> FALSE]
  OBVIOUS
<1>o. /\ o \in Offer /\ o # NoOffer
      /\ o.demand = d /\ o.rev = x.rev /\ o.created = x.at /\ o.until = x.at + term /\ ~o.superseded
      /\ offers'[q] = o /\ \A y \in QuoteKeys : y # q => offers'[y] = offers[y]
      /\ offers' \in [QuoteKeys -> Offer \cup {NoOffer}]
  <2>1. o \in Offer
    BY <1>f, <1>s, <1>w DEF Offer
  <2> QED BY <1>t, <1>f, <1>g, <1>w, <2>1, OfferIsThere DEF DemandTypeOK
<1>1. DemandTypeOK'
  BY <1>t, <1>u, <1>m, <1>o DEF DemandTypeOK
<1>2. RowsAreSound'
  <2>1. RowsAreSound
    BY <1>t DEF TablesInv
  <2>2. \A e \in Demands :
            /\ staged'[e] # NoRow => e \in issued' /\ staged'[e].key \in CatalogKeys /\ staged'[e].rev = 0 /\ market'[e] = NoRow
            /\ market'[e] # NoRow => e \in issued'
            /\ market'[e] # NoRow /\ e # Curated => market'[e].key \in BuyerKeys /\ market'[e].rev = 0
    BY <1>u, <1>g, <1>w, <1>m, <1>n, <2>1 DEF RowsAreSound
  <2>3. market'[Curated] # NoRow =>
          market'[Curated].key = "curated" /\ market'[Curated].rev = curated /\ market'[Curated].updated >= curated
    <3>1. CASE d = Curated
      <4>1. market[Curated].key = "curated" /\ market[Curated].rev = curated /\ market[Curated].updated >= curated
        BY <1>g, <2>1, <3>1 DEF RowsAreSound
      <4>2. market[Curated].updated \in Nat /\ row.updated \in Nat /\ curated \in Nat
        BY <1>t, <1>w, <1>n, <3>1 DEF Row, DemandTypeOK
      <4> QED BY <1>m, <1>n, <3>1, <4>1, <4>2
    <3>2. CASE d # Curated
      BY <1>m, <2>1, <3>2, DemandsAssumption DEF RowsAreSound
    <3> QED BY <3>1, <3>2
  <2> QED BY <1>u, <2>1, <2>2, <2>3 DEF RowsAreSound
<1>3. OneEach'
  <2>1. \A k \in BuyerKeys : RowsOf(k)' \subseteq RowsOf(k)
    BY <1>u, <1>m, <1>n DEF RowsOf
  <2>2. OneEach
    BY <1>t DEF TablesInv
  <2> QED BY <2>1, <2>2 DEF OneEach
<1>4. PapersName'
  <2>1. PapersName
    BY <1>t DEF TablesInv
  <2> QED BY <1>u, <1>m, <1>n, <2>1 DEF PapersName
<1>5. (Held <= MaxDemands)'
  <2>1. Held <= MaxDemands
    BY <1>t DEF TablesInv
  <2>2. PublicIds' \subseteq PublicIds /\ StagedIds' \subseteq StagedIds
    BY <1>u, <1>m, <1>g DEF PublicIds, StagedIds
  <2> QED BY <2>1, <2>2, HeldLessens
<1>6. OffersStand'
  <2>1. OffersStand
    BY <1>t DEF TablesInv
  <2>2. ASSUME NEW y \in QuoteKeys, offers'[y] # NoOffer
        PROVE  LET line == market'[offers'[y].demand] IN
               /\ line # NoRow /\ offers'[y].created <= line.updated
               /\ ~offers'[y].superseded => line.rev = offers'[y].rev /\ line.quoted
    <3>1. CASE y = q
      BY <1>m, <1>n, <1>o, <1>w, <3>1
    <3>2. CASE y # q
      <4>1. offers'[y] = offers[y] /\ offers[y] \in Offer
        BY <1>t, <1>o, <2>2, <3>2, OfferIsThere DEF DemandTypeOK
      <4>2. LET line == market[offers[y].demand] IN
            /\ line # NoRow /\ offers[y].created <= line.updated
            /\ ~offers[y].superseded => line.rev = offers[y].rev /\ line.quoted
        BY <2>1, <2>2, <4>1 DEF OffersStand
      <4>3. offers[y].demand \in Demands /\ offers[y].created \in Nat
        BY <4>1 DEF Offer
      <4>4. CASE offers[y].demand = d
        <5>1. market[d].updated \in Nat /\ row.updated \in Nat
          BY <1>w, <1>n DEF Row
        <5> QED BY <1>m, <1>n, <4>1, <4>2, <4>3, <4>4, <5>1
      <4>5. CASE offers[y].demand # d
        BY <1>m, <4>1, <4>2, <4>3, <4>5
      <4> QED BY <4>4, <4>5
    <3> QED BY <3>1, <3>2
  <2> QED BY <2>2 DEF OffersStand
<1>7. LimitsHold'
  <2>1. LimitsHold
    BY <1>t DEF TablesInv
  <2>2. Cardinality(OffersHeld') <= MaxQuotes
    <3>1. OffersHeld' = OffersHeld \cup {q} /\ IsFiniteSet(OffersHeld)
      BY <1>o, <1>w, FS_Subset DEF OffersHeld
    <3>2. Cardinality(OffersHeld \cup {q}) = Cardinality(OffersHeld) \/ Cardinality(OffersHeld \cup {q}) = Cardinality(OffersHeld) + 1
      BY <3>1, FS_AddElement
    <3>3. Cardinality(OffersHeld) \in Nat
      BY <3>1, FS_CardinalityType
    <3> QED BY <1>g, <1>w, <3>1, <3>2, <3>3
  <2>3. ASSUME NEW e \in Demands PROVE Cardinality(LiveFor(e, week)') <= QuotesPerDemand
    <3>1. CASE e # d
      <4>1. LiveFor(e, week)' = LiveFor(e, week)
        <5>1. \A y \in QuoteKeys : (Live(y, week)' /\ offers'[y].demand = e) <=> (Live(y, week) /\ offers[y].demand = e)
          BY <1>g, <1>o, <1>u, <3>1 DEF Live
        <5> QED BY <5>1 DEF LiveFor
      <4> QED BY <2>1, <4>1 DEF LimitsHold
    <3>2. CASE e = d
      <4>1. LiveFor(d, week)' \subseteq LiveFor(d, x.at) \cup {q}
        <5>1. ASSUME NEW y \in QuoteKeys, y # q, offers[y] # NoOffer, offers[y].until > week PROVE offers[y].until > x.at
          <6>1. offers[y].until \in Nat
            BY <1>t, <5>1, OfferIsThere DEF DemandTypeOK, Offer
          <6> QED BY <1>s, <1>w, <5>1, <6>1
        <5>2. \A y \in QuoteKeys : y # q /\ Live(y, week)' /\ offers'[y].demand = d => Live(y, x.at) /\ offers[y].demand = d
          BY <1>o, <1>u, <5>1 DEF Live
        <5> QED BY <5>2 DEF LiveFor
      <4> DEFINE S == LiveFor(d, x.at)
      <4>2. IsFiniteSet(S)
        BY <1>w, FS_Subset DEF LiveFor
      <4> HIDE DEF S
      <4>3. /\ IsFiniteSet(S \cup {q})
            /\ Cardinality(S \cup {q}) = Cardinality(S) \/ Cardinality(S \cup {q}) = Cardinality(S) + 1
        BY <4>2, FS_AddElement
      <4>4. Cardinality(S) \in Nat /\ Cardinality(S \cup {q}) \in Nat
        BY <4>2, <4>3, FS_CardinalityType
      <4>5. Cardinality(LiveFor(d, week)') <= Cardinality(S \cup {q}) /\ Cardinality(LiveFor(d, week)') \in Nat
        <5>1. LiveFor(d, week)' \subseteq S \cup {q}
          BY <4>1 DEF S
        <5> QED BY <4>3, <5>1, FS_Subset, FS_CardinalityType
      <4>6. Cardinality(S) < QuotesPerDemand
        BY <1>g DEF S
      <4> QED BY <1>w, <3>2, <4>3, <4>4, <4>5, <4>6
    <3> QED BY <3>1, <3>2
  <2> QED BY <2>2, <2>3 DEF LimitsHold
<1>8. TablesMove
  <2>1. \A e \in issued : e \in Demands
    BY <1>t DEF DemandTypeOK
  <2>2. \A e \in Demands : market[e] # NoRow => market[e].version \in Nat /\ market[e].updated \in Nat
    BY <1>t, RowIsThere DEF DemandTypeOK, Row
  <2>3. row.version > market[d].version /\ row.updated >= market[d].updated
    BY <1>g, <1>w, <1>n, <2>2
  <2>4. ASSUME NEW e \in issued
        PROVE  /\ market[e] = NoRow => market'[e] = NoRow
               /\ market[e] # NoRow =>
                     /\ market'[e].key = market[e].key
                     /\ market'[e].version >= market[e].version /\ market'[e].updated >= market[e].updated
                     /\ market'[e].version = market[e].version => market'[e].rev = market[e].rev
    <3>1. CASE e = d
      <4>1. market[d].version \in Nat /\ row.version # market[d].version /\ row.version >= market[d].version
        BY <1>n, <1>w, <1>g, <2>2
      <4> QED BY <1>g, <1>m, <1>n, <2>3, <3>1, <4>1
    <3>2. CASE e # d
      BY <1>m, <2>1, <2>2, <3>2
    <3> QED BY <3>1, <3>2
  <2>5. market[Curated] # NoRow => market'[Curated] # NoRow
    BY <1>m, <1>n, DemandsAssumption
  <2> QED BY <1>u, <2>4, <2>5 DEF TablesMove
<1>9. VisitsInv'
  <2>1. PICK idle : idle = NoVisit
    OBVIOUS
  <2>2. VisitIsSound(idle)'
    BY <2>1 DEF VisitIsSound, NoVisit, PaperSteps
  <2> QED BY <1>1, <1>8, <1>u, <2>1, <2>2, VisitsMove
<1> QED BY <1>1, <1>2, <1>3, <1>4, <1>5, <1>6, <1>7, <1>9 DEF DemandInv, TablesInv

(* Every step keeps the invariant.                                         *)
LEMMA DemandStay == DemandInv /\ [DemandNext]_demandVars => DemandInv'
<1> SUFFICES ASSUME DemandInv, [DemandNext]_demandVars PROVE DemandInv'
  OBVIOUS
<1>1. ASSUME WeekPasses PROVE DemandInv'
  BY <1>1, WeekMayPass
<1>2. ASSUME NEW v \in Visits, VisitEnds(v) PROVE DemandInv'
  BY <1>2, VisitMayEnd
<1>3. ASSUME NEW v \in Visits, Prune(v) PROVE DemandInv'
  BY <1>3, RowsArePruned
<1>4. ASSUME NEW v \in Visits, UpsertCurated(v) PROVE DemandInv'
  BY <1>4, DemandIsCurated
<1>5. ASSUME NEW v \in Visits, NEW k \in BuyerKeys, AskDemand(v, k) PROVE DemandInv'
  BY <1>5, DemandIsAsked
<1>6. ASSUME NEW v \in Visits, PostDemand(v) PROVE DemandInv'
  BY <1>6, DemandIsPosted
<1>7. ASSUME NEW v \in Visits, FilePaper(v) PROVE DemandInv'
  BY <1>7, PaperIsFiled
<1>8. ASSUME NEW v \in Visits, Publish(v) PROVE DemandInv'
  BY <1>8, DemandIsPublished
<1>9. ASSUME NEW v \in Visits, NEW q \in QuoteKeys, NEW d \in Demands, ReadForQuote(v, q, d) PROVE DemandInv'
  BY <1>9, DemandIsRead
<1>10. ASSUME NEW v \in Visits, NEW term \in Terms, PostQuote(v, term) PROVE DemandInv'
  BY <1>10, QuoteIsPosted
<1>11. ASSUME UNCHANGED demandVars PROVE DemandInv'
  <2>1. week' = week /\ curated' = curated /\ UNCHANGED Tables /\ visit' = visit
    BY <1>11 DEF demandVars, Tables
  <2>2. TablesInv' /\ TablesMove /\ DemandTypeOK
    BY <2>1, TablesSame DEF DemandInv, TablesInv
  <2>3. ASSUME NEW v \in Visits PROVE VisitIsSound(visit[v])'
    <3>1. PICK x : x = visit[v]
      OBVIOUS
    <3>2. VisitIsSound(x)
      BY <3>1 DEF DemandInv, VisitsInv
    <3>3. VisitIsSound(x)'
      BY <2>1, <2>2, <3>2, VisitStays DEF TablesInv
    <3> QED BY <2>1, <3>1, <3>3
  <2>4. VisitsInv'
    BY <2>1, <2>3 DEF VisitsInv, DemandInv
  <2> QED BY <2>2, <2>4 DEF DemandInv
<1> QED BY <1>1, <1>2, <1>3, <1>4, <1>5, <1>6, <1>7, <1>8, <1>9, <1>10, <1>11 DEF DemandNext

(* What is shown of demands and quotes follows from the invariant.         *)
LEMMA DemandsShown == DemandInv => DemandTypeOK /\ DemandsAreComplete /\ QuotesAreCurrent
<1> SUFFICES ASSUME DemandInv PROVE DemandTypeOK /\ DemandsAreComplete /\ QuotesAreCurrent
  OBVIOUS
<1>1. TablesInv /\ IsFiniteSet(Demands)
  BY DemandsAssumption DEF DemandInv
<1>2. ASSUME NEW k \in BuyerKeys PROVE Cardinality(RowsOf(k)) <= 1
  <2>1. CASE RowsOf(k) = {}
    BY <2>1, FS_EmptySet
  <2>2. CASE RowsOf(k) # {}
    <3>1. PICK d \in RowsOf(k) : TRUE
      BY <2>2
    <3>2. RowsOf(k) = {d}
      BY <1>1, <3>1 DEF TablesInv, OneEach
    <3>3. Cardinality({d}) = 1
      BY FS_Singleton
    <3> QED BY <3>2, <3>3
  <2> QED BY <2>1, <2>2
<1>3. DemandsAreComplete
  BY <1>1, <1>2 DEF TablesInv, RowsAreSound, PapersName, DemandsAreComplete
<1>4. QuotesAreCurrent
  BY <1>1 DEF TablesInv, OffersStand, LimitsHold, OffersHeld, QuotesAreCurrent, Live
<1> QED BY <1>1, <1>3, <1>4 DEF TablesInv

(* No step takes back what demands and quotes have come to.                *)
LEMMA DemandsAdvance == DemandInv /\ [DemandNext]_demandVars => DemandsOnlyAdvance
<1> SUFFICES ASSUME DemandInv, [DemandNext]_demandVars PROVE DemandsOnlyAdvance
  OBVIOUS
<1>t. DemandTypeOK /\ RowsAreSound
  BY DEF DemandInv, TablesInv
<1>w. /\ week \in Nat /\ Curated \in issued /\ issued \subseteq Demands
      /\ \A q \in QuoteKeys : offers[q] # NoOffer => offers[q] \in Offer /\ offers[q].until \in Nat
  BY <1>t, OfferIsThere DEF DemandTypeOK, RowsAreSound, Offer
<1>a. ASSUME staged' = staged, market' = market,
             \A q \in QuoteKeys : offers[q] # NoOffer /\ ~Live(q, week) =>
                 offers'[q] = NoOffer \/ ~Live(q, week)'
      PROVE  DemandsOnlyAdvance
  BY <1>a, <1>t DEF DemandsOnlyAdvance, RowsAreSound
<1>b. ASSUME offers' = offers, week' = week
      PROVE  \A q \in QuoteKeys : offers[q] # NoOffer /\ ~Live(q, week) => offers'[q] = NoOffer \/ ~Live(q, week)'
  BY <1>b DEF Live
<1>c. ASSUME \A q \in QuoteKeys : offers[q] # NoOffer /\ ~Live(q, week) => offers'[q] = NoOffer \/ ~Live(q, week)',
             \A d \in Demands : market[d] # NoRow => staged'[d] = NoRow,
             \A d \in issued \ {Curated} : staged[d] = NoRow /\ market[d] = NoRow => staged'[d] = NoRow /\ market'[d] = NoRow
      PROVE  DemandsOnlyAdvance
  BY <1>c DEF DemandsOnlyAdvance
<1>1. ASSUME WeekPasses PROVE DemandsOnlyAdvance
  <2>1. week' = week + 1 /\ staged' = staged /\ market' = market /\ offers' = offers
    BY <1>1 DEF WeekPasses, Tables
  <2>2. \A q \in QuoteKeys : offers[q] # NoOffer /\ ~Live(q, week) => ~Live(q, week)'
    BY <1>w, <2>1 DEF Live
  <2> QED BY <1>a, <2>1, <2>2
<1>2. ASSUME NEW v \in Visits, VisitEnds(v) PROVE DemandsOnlyAdvance
  BY <1>a, <1>b, <1>2 DEF VisitEnds, Tables
<1>3. ASSUME NEW v \in Visits, Prune(v) PROVE DemandsOnlyAdvance
  <2>1. /\ week' = week
        /\ offers' = [q \in QuoteKeys |-> IF offers[q] # NoOffer /\ Old(offers[q].created) THEN NoOffer ELSE offers[q]]
        /\ \A d \in Demands : market'[d] \in {NoRow, market[d]} /\ staged'[d] \in {NoRow, staged[d]}
    BY <1>3 DEF Prune, Kept
  <2>2. \A q \in QuoteKeys : offers[q] # NoOffer /\ ~Live(q, week) => offers'[q] = NoOffer \/ ~Live(q, week)'
    BY <2>1 DEF Live
  <2> QED BY <1>c, <1>t, <1>w, <2>1, <2>2 DEF RowsAreSound
<1>4. ASSUME NEW v \in Visits, UpsertCurated(v) PROVE DemandsOnlyAdvance
  <2>1. PICK rev \in visit[v].at .. week :
          /\ market' = [market EXCEPT ![Curated] = Revised(@, rev)]
          /\ offers' = [q \in QuoteKeys |-> IF offers[q] = NoOffer THEN NoOffer ELSE Superseded(offers[q], rev)]
    BY <1>4 DEF UpsertCurated
  <2>2. week' = week /\ staged' = staged
    BY <1>4 DEF UpsertCurated
  <2>3. \A d \in Demands : d # Curated => market'[d] = market[d]
    BY <1>t, <2>1 DEF DemandTypeOK
  <2>4. ASSUME NEW q \in QuoteKeys, offers[q] # NoOffer, ~Live(q, week) PROVE ~Live(q, week)'
    <3>1. visit[v].at \in Nat
      <4>1. VisitIsSound(visit[v]) /\ visit[v].step = "upsert"
        BY <1>4 DEF DemandInv, VisitsInv, UpsertCurated
      <4> QED BY <4>1 DEF VisitIsSound
    <3>2. rev \in Nat
      BY <1>w, <2>1, <3>1
    <3>3. offers'[q] = Superseded(offers[q], rev) /\ offers[q] \in Offer
      BY <1>w, <2>1, <2>4
    <3>4. offers'[q].until <= offers[q].until /\ (offers[q].superseded => offers'[q].superseded) /\ offers'[q].until \in Nat
      BY <3>2, <3>3, OfferMayEnd DEF Offer
    <3> QED BY <1>w, <2>2, <2>4, <3>4 DEF Live
  <2> QED BY <1>c, <1>t, <1>w, <2>2, <2>3, <2>4 DEF RowsAreSound
<1>5. ASSUME NEW v \in Visits, NEW k \in BuyerKeys, AskDemand(v, k) PROVE DemandsOnlyAdvance
  BY <1>a, <1>b, <1>5 DEF AskDemand, Tables
<1>6. ASSUME NEW v \in Visits, PostDemand(v) PROVE DemandsOnlyAdvance
  <2>1. offers' = offers /\ week' = week
    BY <1>6 DEF PostDemand
  <2>2. \A d \in issued : staged'[d] = staged[d] /\ market'[d] = market[d]
    <3>1. CASE staged' = staged /\ market' = market
      BY <3>1
    <3>2. CASE \E d \in Demands \ issued : Insert(v, visit[v].k, d)
      <4>1. PICK d \in Demands \ issued : Insert(v, visit[v].k, d)
        BY <3>2
      <4>2. \A e \in Demands : e # d => staged'[e] = staged[e] /\ market'[e] = market[e]
        BY <1>t, <4>1 DEF Insert, DemandTypeOK
      <4> QED BY <1>w, <4>1, <4>2
    <3> QED BY <1>6, <3>1, <3>2 DEF PostDemand
  <2>3. \A d \in Demands : market[d] # NoRow => d \in issued /\ staged[d] = NoRow
    BY <1>t DEF RowsAreSound
  <2> QED BY <1>b, <1>c, <2>1, <2>2, <2>3
<1>7. ASSUME NEW v \in Visits, FilePaper(v) PROVE DemandsOnlyAdvance
  BY <1>a, <1>b, <1>7 DEF FilePaper
<1>8. ASSUME NEW v \in Visits, Publish(v) PROVE DemandsOnlyAdvance
  <2>1. offers' = offers /\ week' = week
    BY <1>8 DEF Publish
  <2>2. CASE UNCHANGED <<staged, market>>
    BY <1>a, <1>b, <2>1, <2>2
  <2>3. CASE ~UNCHANGED <<staged, market>>
    <3> DEFINE d == visit[v].d
    <3>1. /\ staged[d] # NoRow
          /\ market' = [market EXCEPT ![d] = [staged[d] EXCEPT !.version = @ + 1, !.updated = week]]
          /\ staged' = [staged EXCEPT ![d] = NoRow]
      BY <1>8, <2>3 DEF Publish
    <3> HIDE DEF d
    <3>2. \A e \in Demands : (e # d => market'[e] = market[e]) /\ staged'[e] \in {NoRow, staged[e]}
      BY <1>t, <3>1 DEF DemandTypeOK
    <3> QED BY <1>b, <1>c, <1>t, <1>w, <2>1, <3>1, <3>2 DEF RowsAreSound
  <2> QED BY <2>2, <2>3
<1>9. ASSUME NEW v \in Visits, NEW q \in QuoteKeys, NEW d \in Demands, ReadForQuote(v, q, d) PROVE DemandsOnlyAdvance
  BY <1>a, <1>b, <1>9 DEF ReadForQuote, Tables
<1>10. ASSUME NEW v \in Visits, NEW term \in Terms, PostQuote(v, term) PROVE DemandsOnlyAdvance
  <2> DEFINE q == visit[v].q
             d == visit[v].d
             o == [demand |-> d, rev |-> visit[v].rev, created |-> visit[v].at, until |-> visit[v].at + term, superseded |-> FALSE]
  <2>1. /\ offers[q] = NoOffer /\ market[d] # NoRow /\ week' = week /\ staged' = staged
        /\ offers' = [offers EXCEPT ![q] = o]
    BY <1>10 DEF PostQuote
  <2>2. \A e \in Demands : e # d => market'[e] = market[e]
    BY <1>t, <1>10 DEF PostQuote, DemandTypeOK
  <2> HIDE DEF q, d, o
  <2>3. \A y \in QuoteKeys : offers[y] # NoOffer => offers'[y] = offers[y]
    BY <1>t, <2>1 DEF DemandTypeOK
  <2>4. \A y \in QuoteKeys : offers[y] # NoOffer /\ ~Live(y, week) => ~Live(y, week)'
    BY <2>1, <2>3 DEF Live
  <2> QED BY <1>c, <1>t, <1>w, <2>1, <2>2, <2>4 DEF RowsAreSound
<1>11. ASSUME UNCHANGED demandVars PROVE DemandsOnlyAdvance
  BY <1>a, <1>b, <1>11 DEF demandVars
<1> QED BY <1>1, <1>2, <1>3, <1>4, <1>5, <1>6, <1>7, <1>8, <1>9, <1>10, <1>11 DEF DemandNext

-----------------------------------------------------------------------------
(* What comes to the market: machines.                                     *)

(* What a call carries: a decision about a job there is, or windows of a   *)
(* node that do not clash with one another.                                *)
Reviewing == [step : {"decision"}, j : Jobs, decision : {"PASSED", "FAILED"}, until : {0} \cup Untils]
Offering  == [step : {"windows"}, batch : SUBSET Slots]
InTurn(c) ==
    /\ calls[c] \in {NoCall} \cup Reviewing \cup Offering
    /\ calls[c].step = "decision" => jobs[calls[c].j] # NoJob
    /\ calls[c].step = "windows" => \A v, w \in calls[c].batch : v # w => ~Clash(v, w)

(* A node is of a pool, and an agent and a job are of a node.              *)
Registered ==
    /\ \A n \in Nodes : nodes[n] # NoNode => pools[nodes[n].pool] # NoPool
    /\ \A n \in Nodes : agents[n] # "NONE" => nodes[n] # NoNode
    /\ \A j \in Jobs : jobs[j] # NoJob => nodes[jobs[j].node] # NoNode

IntakeInv ==
    /\ IntakeTypeOK
    /\ \A c \in Calls : InTurn(c)
    /\ calls \in [Calls -> {NoCall} \cup Reviewing \cup Offering]
    /\ Registered
    /\ PromotionsAreSound

(* The records of the three kinds of a call are not one another's.         *)
LEMMA CallKinds ==
    ASSUME NEW r \in {NoCall} \cup Reviewing \cup Offering
    PROVE  /\ r.step = "decision" => r \in Reviewing
           /\ r.step = "windows" => r \in Offering
           /\ r = NoCall => r.step = "none"
  BY DEF NoCall, Reviewing, Offering

(* Hours as a function, for sums.                                          *)
Long == [w \in Slots |-> w[2].end - w[2].start]
IsLong(it, S) ==
    it = [s \in SUBSET S |-> IF s = {} THEN 0 ELSE (AnyOf(s)[2].end - AnyOf(s)[2].start) + it[s \ {AnyOf(s)}]]

(* Windows of the nodes are finitely many.                                 *)
LEMMA SlotsFinite == IsFiniteSet(Slots)
  BY IntakeAssumption, FS_Product DEF Slots

(* The hours of some windows are a sum.                                    *)
LEMMA NodeHoursAreSum ==
    ASSUME NEW S, S \subseteq Slots
    PROVE  NodeHours(S) = SumOf(Long, S)
<1>1. IsFiniteSet(S)
  BY SlotsFinite, FS_Subset
<1>2. ASSUME NEW it PROVE IsLong(it, S) <=> IsTable(it, Long, S)
  <2>1. \A s \in SUBSET S : s # {} => Long[AnyOf(s)] = AnyOf(s)[2].end - AnyOf(s)[2].start
    BY AnyIsIn DEF Long
  <2> DEFINE f == [s \in SUBSET S |-> IF s = {} THEN 0 ELSE Long[AnyOf(s)] + it[s \ {AnyOf(s)}]]
             g == [s \in SUBSET S |-> IF s = {} THEN 0 ELSE (AnyOf(s)[2].end - AnyOf(s)[2].start) + it[s \ {AnyOf(s)}]]
  <2>2. f = g
    BY <2>1
  <2> QED BY <2>2 DEF IsLong, IsTable
<1> DEFINE jt == CHOOSE it : IsLong(it, S)
<1>3. NodeHours(S) = jt[S]
  BY DEF NodeHours, MapThenSumSet, MapThenFoldSet, IsLong, AnyOf
<1>4. IsTable(jt, Long, S)
  <2>1. PICK it : IsTable(it, Long, S)
    BY <1>1, TableExists
  <2>2. IsLong(it, S)
    BY <1>2, <2>1
  <2>3. IsLong(jt, S)
    BY <2>2
  <2> QED BY <1>2, <2>3
<1> HIDE DEF jt
<1>5. PICK it : IsTable(it, Long, S) /\ SumOf(Long, S) = it[S]
  BY <1>1, SumIsTable
<1>6. it[S] = jt[S]
  BY <1>1, <1>4, <1>5, TablesAgree
<1> QED BY <1>3, <1>5, <1>6

(* Fewer windows have fewer hours.                                         *)
LEMMA FewerHours ==
    ASSUME NEW S, S \subseteq Slots, NEW T, T \subseteq S
    PROVE  /\ NodeHours(T) \in Nat /\ NodeHours(S) \in Nat
           /\ NodeHours(T) <= NodeHours(S)
<1>1. IsFiniteSet(S) /\ IsFiniteSet(T)
  BY SlotsFinite, FS_Subset
<1>2. \A w \in Slots : w[2].end \in Nat /\ w[2].start \in Nat /\ w[2].start < w[2].end
  BY IntakeAssumption DEF Slots
<1>3. \A w \in S : Long[w] \in Nat
  BY <1>2 DEF Long
<1>4. NodeHours(S) = SumOf(Long, S) /\ NodeHours(T) = SumOf(Long, T)
  BY NodeHoursAreSum
<1> QED BY <1>1, <1>3, <1>4, SumOfPart, SumOfNaturals

(* The last hour and the first of some windows.                            *)
LEMMA Ends ==
    ASSUME NEW S, S \subseteq Slots, S # {}
    PROVE  LET hi == Max({w[2].end : w \in S})
               lo == Min({w[2].start : w \in S})
           IN /\ hi \in Nat /\ lo \in Nat
              /\ \A w \in S : w[2].end <= hi /\ lo <= w[2].start
              /\ \E w \in S : w[2].end = hi
              /\ \E w \in S : w[2].start = lo
<1>1. IsFiniteSet(S)
  BY SlotsFinite, FS_Subset
<1>2. \A w \in S : w[2].end \in Nat /\ w[2].start \in Nat
  BY IntakeAssumption DEF Slots
<1> DEFINE E == {w[2].end : w \in S}
           B == {w[2].start : w \in S}
           f == [w \in S |-> w[2].end]
           g == [w \in S |-> 0 - w[2].start]
<1>3. \A w \in S : f[w] \in Int /\ g[w] \in Int
  BY <1>2
<1>4. PICK u \in S : \A w \in S : f[w] <= f[u]
  <2> HIDE DEF f
  <2> QED BY <1>1, <1>3, GreatestOf
<1>5. PICK v \in S : \A w \in S : g[w] <= g[v]
  <2> HIDE DEF g
  <2> QED BY <1>1, <1>3, GreatestOf
<1>6. u[2].end \in E /\ \A x \in E : u[2].end >= x
  BY <1>2, <1>4
<1>7. v[2].start \in B /\ \A x \in B : v[2].start =< x
  BY <1>2, <1>5
<1>8. Max(E) \in E /\ \A x \in E : Max(E) >= x
  <2> HIDE DEF E
  <2> QED BY <1>6 DEF Max
<1>9. Min(B) \in B /\ \A x \in B : Min(B) =< x
  <2> HIDE DEF B
  <2> QED BY <1>7 DEF Min
<1>10. \A w \in S : w[2].end \in E /\ w[2].start \in B
  OBVIOUS
<1>11. \A x \in E \cup B : x \in Nat
  BY <1>2
<1>12. \A w \in S : w[2].end <= Max(E) /\ Min(B) <= w[2].start
  <2> HIDE DEF E, B
  <2> QED BY <1>8, <1>9, <1>10, <1>11
<1>13. (\E w \in S : w[2].end = Max(E)) /\ (\E w \in S : w[2].start = Min(B))
  BY <1>8, <1>9
<1> QED BY <1>8, <1>9, <1>11, <1>12, <1>13

(* Fewer windows stretch less far.                                         *)
LEMMA ShorterStretch ==
    ASSUME NEW S, S \subseteq Slots, NEW T, T \subseteq S, T # {}
    PROVE  /\ Stretch(T) \in Int /\ Stretch(S) \in Int
           /\ Stretch(T) <= Stretch(S)
<1> DEFINE hiS == Max({w[2].end : w \in S})
           loS == Min({w[2].start : w \in S})
           hiT == Max({w[2].end : w \in T})
           loT == Min({w[2].start : w \in T})
<1>1. /\ hiS \in Nat /\ loS \in Nat
      /\ \A w \in S : w[2].end <= hiS /\ loS <= w[2].start
  BY Ends
<1>2. /\ hiT \in Nat /\ loT \in Nat
      /\ \E w \in T : w[2].end = hiT
      /\ \E w \in T : w[2].start = loT
  <2>1. T \subseteq Slots
    OBVIOUS
  <2> QED BY <2>1, Ends
<1>3. Stretch(S) = hiS - loS /\ Stretch(T) = hiT - loT
  BY DEF Stretch
<1> HIDE DEF hiS, loS, hiT, loT
<1>4. hiT <= hiS /\ loS <= loT
  BY <1>1, <1>2
<1> QED BY <1>1, <1>2, <1>3, <1>4

-----------------------------------------------------------------------------
(* In the initial state everything is empty.                               *)
LEMMA IntakeStart == IntakeInit => IntakeInv
<1> SUFFICES ASSUME IntakeInit PROVE IntakeInv
  OBVIOUS
<1>1. IntakeTypeOK
  BY DEF IntakeInit, IntakeTypeOK, Range
<1>2. \A n \in Nodes : nodes[n].status # "VERIFIED"
  BY DEF IntakeInit, NoNode
<1>3. \A p \in Pools : OnSale(p) = {}
  BY DEF IntakeInit, OnSale
<1>4. PromotionsAreSound
  BY <1>2, <1>3 DEF PromotionsAreSound, IntakeInit
<1>5. Registered
  BY DEF Registered, IntakeInit
<1>6. calls \in [Calls -> {NoCall} \cup Reviewing \cup Offering] /\ \A c \in Calls : InTurn(c)
  BY DEF InTurn, IntakeInit, NoCall
<1> QED BY <1>1, <1>4, <1>5, <1>6 DEF IntakeInv

(* The pools that sell, as of a node and a promotion.                      *)
LEMMA SaleOnlyShrinks ==
    ASSUME IntakeInv,
           \A w \in DOMAIN promotions' : promotions'[w] = "ACTIVE" => w \in DOMAIN promotions /\ promotions[w] = "ACTIVE",
           \A n \in Nodes : nodes[n] # NoNode => nodes'[n].pool = nodes[n].pool,
           \A p \in Pools : pools[p] # NoPool => pools'[p].kind = pools[p].kind
    PROVE  \A p \in Pools : OnSale(p)' # {} =>
              /\ pools'[p].kind = "H100_8X_NODE" /\ \A q \in Pools \ {p} : OnSale(q)' = {}
              /\ NodeHours(OnSale(p)') <= MaxHours /\ Stretch(OnSale(p)') <= MaxStretch
<1>1. \A w \in DOMAIN promotions : promotions[w] = "ACTIVE" =>
         /\ w \in Slots /\ w[1] \in Nodes /\ nodes[w[1]].status = "VERIFIED"
         /\ nodes[w[1]] # NoNode /\ nodes[w[1]].pool \in Pools
  <2>1. ASSUME NEW w \in DOMAIN promotions, promotions[w] = "ACTIVE"
        PROVE  w \in Slots /\ w[1] \in Nodes /\ nodes[w[1]].status = "VERIFIED"
    BY <2>1 DEF IntakeInv, PromotionsAreSound, IntakeTypeOK, Slots
  <2>2. ASSUME NEW n \in Nodes, nodes[n].status = "VERIFIED"
        PROVE  nodes[n] # NoNode /\ nodes[n].pool \in Pools
    BY <2>2 DEF IntakeInv, IntakeTypeOK, NoNode
  <2> QED BY <2>1, <2>2
<1>2. \A p \in Pools : OnSale(p)' \subseteq OnSale(p) /\ OnSale(p) \subseteq Slots
  BY <1>1 DEF OnSale
<1>3. SUFFICES ASSUME NEW p \in Pools, OnSale(p)' # {}
               PROVE  /\ pools'[p].kind = "H100_8X_NODE" /\ \A q \in Pools \ {p} : OnSale(q)' = {}
                      /\ NodeHours(OnSale(p)') <= MaxHours /\ Stretch(OnSale(p)') <= MaxStretch
  OBVIOUS
<1>4. /\ pools[p].kind = "H100_8X_NODE" /\ \A q \in Pools \ {p} : OnSale(q) = {}
      /\ NodeHours(OnSale(p)) <= MaxHours /\ Stretch(OnSale(p)) <= MaxStretch
  BY <1>2, <1>3 DEF IntakeInv, PromotionsAreSound
<1>5. pools'[p].kind = "H100_8X_NODE"
  BY <1>4 DEF NoPool
<1>6. \A q \in Pools \ {p} : OnSale(q)' = {}
  BY <1>2, <1>4
<1>7. NodeHours(OnSale(p)') <= NodeHours(OnSale(p)) /\ NodeHours(OnSale(p)') \in Nat /\ NodeHours(OnSale(p)) \in Nat
  BY <1>2, FewerHours
<1>8. Stretch(OnSale(p)') <= Stretch(OnSale(p)) /\ Stretch(OnSale(p)') \in Int /\ Stretch(OnSale(p)) \in Int
  BY <1>2, <1>3, ShorterStretch
<1>9. MaxHours \in Nat /\ MaxStretch \in Nat
  BY IntakeAssumption
<1> QED BY <1>4, <1>5, <1>6, <1>7, <1>8, <1>9

(* A step that sells nothing, verifies nothing and rejects nothing leaves  *)
(* what is on sale sound.                                                  *)
LEMMA Unsold ==
    ASSUME IntakeInv, UNCHANGED offered,
           \A n \in Nodes : nodes[n] # NoNode => nodes'[n].pool = nodes[n].pool,
           \A n \in Nodes : nodes[n].status = "VERIFIED" =>
               nodes'[n].status = "VERIFIED" /\ nodes'[n].until = nodes[n].until,
           \A n \in Nodes : nodes'[n].status = "VERIFIED" => nodes[n].status = "VERIFIED",
           \A p \in Pools : pools[p] # NoPool => pools'[p] = pools[p],
           \A j \in Jobs : jobs[j].status = "PASSED" =>
               jobs'[j].status = "PASSED" /\ jobs'[j].node = jobs[j].node /\ jobs'[j].until = jobs[j].until
    PROVE  PromotionsAreSound'
<1>1. promotions' = promotions /\ bindings' = bindings /\ windows' = windows
  BY DEF offered
<1>2. promotions' = bindings'
  BY <1>1 DEF IntakeInv, PromotionsAreSound
<1>3. DOMAIN promotions' = {w \in DOMAIN windows' : windows'[w] = "PROMOTED"}
  BY <1>1 DEF IntakeInv, PromotionsAreSound
<1>4. \A w \in DOMAIN promotions' : promotions'[w] = "ACTIVE" => nodes'[w[1]].status = "VERIFIED"
  <2>1. \A w \in DOMAIN promotions : w[1] \in Nodes
    BY DEF IntakeInv, PromotionsAreSound, IntakeTypeOK, Slots
  <2> QED BY <1>1, <2>1 DEF IntakeInv, PromotionsAreSound
<1>5. ASSUME NEW n \in Nodes, nodes'[n].status = "VERIFIED"
      PROVE  /\ pools'[nodes'[n].pool].status = "ACTIVE"
             /\ \E j \in Jobs : jobs'[j].status = "PASSED" /\ jobs'[j].node = n /\ jobs'[j].until = nodes'[n].until
  <2>1. nodes[n].status = "VERIFIED"
    BY <1>5
  <2>2. nodes[n] # NoNode /\ nodes[n].pool \in Pools
    BY <2>1 DEF IntakeInv, IntakeTypeOK, NoNode
  <2>3. pools[nodes[n].pool] # NoPool
    BY <2>2 DEF IntakeInv, Registered
  <2>4. pools[nodes[n].pool].status = "ACTIVE"
    BY <2>1 DEF IntakeInv, PromotionsAreSound
  <2>5. PICK j \in Jobs : jobs[j].status = "PASSED" /\ jobs[j].node = n /\ jobs[j].until = nodes[n].until
    BY <2>1 DEF IntakeInv, PromotionsAreSound
  <2>6. jobs'[j].status = "PASSED" /\ jobs'[j].node = n /\ jobs'[j].until = nodes'[n].until
    BY <2>1, <2>5
  <2> QED BY <2>2, <2>3, <2>4, <2>6
<1>6. \A v, w \in DOMAIN windows' : v # w => ~Clash(v, w)
  BY <1>1 DEF IntakeInv, PromotionsAreSound
<1>7. \A p \in Pools : OnSale(p)' # {} =>
        /\ pools'[p].kind = "H100_8X_NODE" /\ \A q \in Pools \ {p} : OnSale(q)' = {}
        /\ NodeHours(OnSale(p)') <= MaxHours /\ Stretch(OnSale(p)') <= MaxStretch
  BY <1>1, SaleOnlyShrinks
<1> QED BY <1>2, <1>3, <1>4, <1>5, <1>6, <1>7 DEF PromotionsAreSound

(* What a call carries stays so while no job goes and no node is replaced. *)
LEMMA CallsGoOn ==
    ASSUME IntakeInv, UNCHANGED calls, \A j \in Jobs : jobs[j] # NoJob => jobs'[j] # NoJob
    PROVE  /\ calls' \in [Calls -> {NoCall} \cup Reviewing \cup Offering]
           /\ \A c \in Calls : InTurn(c)'
<1>1. calls' \in [Calls -> {NoCall} \cup Reviewing \cup Offering]
  BY DEF IntakeInv
<1>2. ASSUME NEW c \in Calls PROVE InTurn(c)'
  <2>1. InTurn(c)
    BY DEF IntakeInv
  <2>2. calls[c].step = "decision" => calls[c].j \in Jobs
    BY <2>1, CallKinds DEF InTurn, Reviewing
  <2> QED BY <2>1, <2>2 DEF InTurn
<1> QED BY <1>1, <1>2

(* A call that begins or ends.                                             *)
LEMMA CallsTurn ==
    ASSUME IntakeInv, UNCHANGED jobs, NEW c \in Calls, NEW r \in {NoCall} \cup Reviewing \cup Offering,
           r.step = "decision" => jobs[r.j] # NoJob,
           r.step = "windows" => \A v, w \in r.batch : v # w => ~Clash(v, w),
           calls' = [calls EXCEPT ![c] = r]
    PROVE  /\ calls' \in [Calls -> {NoCall} \cup Reviewing \cup Offering]
           /\ \A d \in Calls : InTurn(d)'
<1>1. calls' \in [Calls -> {NoCall} \cup Reviewing \cup Offering]
  BY DEF IntakeInv
<1>2. ASSUME NEW d \in Calls PROVE InTurn(d)'
  <2>1. InTurn(d)
    BY DEF IntakeInv
  <2>2. calls'[d] = IF d = c THEN r ELSE calls[d]
    BY DEF IntakeInv
  <2> QED BY <2>1, <2>2 DEF InTurn
<1> QED BY <1>1, <1>2

(* The types, where nothing is offered.                                    *)
LEMMA TypesStay ==
    ASSUME IntakeTypeOK, UNCHANGED <<windows, promotions, bindings>>,
           pools' \in [Pools -> {NoPool} \cup [kind : {"H100_8X_NODE", "MAC_MINI"}, status : {"DRAFT", "ACTIVE"}]],
           nodes' \in [Nodes -> {NoNode} \cup [pool : Pools, until : {0} \cup Untils,
                                               status : {"DECLARED", "ONLINE", "VERIFIED", "REJECTED"}]],
           agents' \in [Nodes -> {"NONE", "PENDING", "ACTIVE"}],
           jobs' \in [Jobs -> {NoJob} \cup [status : {"PENDING", "PASSED", "FAILED"}, node : Nodes,
                                            until : {0} \cup Untils, proven : BOOLEAN]]
    PROVE  IntakeTypeOK'
<1>1. DOMAIN windows' \subseteq Slots /\ Range(windows') \subseteq {"AVAILABLE", "PROMOTED"}
  BY DEF IntakeTypeOK
<1>2. Range(promotions') \cup Range(bindings') \subseteq {"ACTIVE", "SUSPENDED"}
  BY DEF IntakeTypeOK
<1> QED BY <1>1, <1>2 DEF IntakeTypeOK

(* A pool is made or gets members.                                         *)
LEMMA PoolsGrow ==
    ASSUME IntakeInv, NEW p \in Pools, NEW batch, UNCHANGED <<parts, agents, jobs, offered, calls>>,
           \/ pools' = pools
           \/ /\ pools[p] = NoPool
              /\ \E kind \in {"H100_8X_NODE", "MAC_MINI"} :
                    pools' = [pools EXCEPT ![p] = [kind |-> kind, status |-> "DRAFT"]],
           pools'[p] # NoPool,
           nodes' = [n \in Nodes |-> IF n \in batch /\ nodes[n] = NoNode THEN Declared(p) ELSE nodes[n]]
    PROVE  IntakeInv'
<1>u. /\ agents' = agents /\ jobs' = jobs /\ calls' = calls
      /\ windows' = windows /\ promotions' = promotions /\ bindings' = bindings
  BY DEF offered
<1>1. \A n \in Nodes : nodes'[n] = nodes[n] \/ (nodes[n] = NoNode /\ nodes'[n] = Declared(p))
  OBVIOUS
<1>2. \A q \in Pools : pools[q] # NoPool => pools'[q] = pools[q]
  BY DEF IntakeInv, IntakeTypeOK
<1>3. Declared(p) # NoNode /\ Declared(p).status # "VERIFIED" /\ Declared(p).pool = p /\ NoNode.status # "VERIFIED"
  BY DEF Declared, NoNode
<1>4. pools' \in [Pools -> {NoPool} \cup [kind : {"H100_8X_NODE", "MAC_MINI"}, status : {"DRAFT", "ACTIVE"}]]
  BY DEF IntakeInv, IntakeTypeOK
<1>5. nodes' \in [Nodes -> {NoNode} \cup [pool : Pools, until : {0} \cup Untils,
                                          status : {"DECLARED", "ONLINE", "VERIFIED", "REJECTED"}]]
  BY DEF IntakeInv, IntakeTypeOK, Declared
<1>6. IntakeTypeOK'
  BY <1>u, <1>4, <1>5 DEF IntakeInv, IntakeTypeOK, Range
<1>7. Registered'
  <2>1. ASSUME NEW n \in Nodes, nodes'[n] # NoNode PROVE pools'[nodes'[n].pool] # NoPool
    <3>1. CASE nodes'[n] = Declared(p)
      BY <1>3, <3>1
    <3>2. CASE nodes'[n] = nodes[n]
      <4>1. nodes[n].pool \in Pools /\ pools[nodes[n].pool] # NoPool
        BY <2>1, <3>2 DEF IntakeInv, IntakeTypeOK, Registered
      <4> QED BY <1>2, <3>2, <4>1
    <3> QED BY <1>1, <3>1, <3>2
  <2>2. ASSUME NEW j \in Jobs, jobs'[j] # NoJob PROVE nodes'[jobs'[j].node] # NoNode
    <3>1. jobs[j].node \in Nodes /\ nodes[jobs[j].node] # NoNode
      BY <1>u, <2>2 DEF IntakeInv, IntakeTypeOK, Registered
    <3> QED BY <1>u, <1>1, <3>1
  <2>3. ASSUME NEW n \in Nodes, agents'[n] # "NONE" PROVE nodes'[n] # NoNode
    <3>1. nodes[n] # NoNode
      BY <1>u, <2>3 DEF IntakeInv, Registered
    <3> QED BY <1>1, <3>1
  <2> QED BY <2>1, <2>2, <2>3 DEF Registered
<1>8. PromotionsAreSound'
  BY <1>u, <1>1, <1>2, <1>3, Unsold DEF offered
<1>9. calls' \in [Calls -> {NoCall} \cup Reviewing \cup Offering] /\ \A c \in Calls : InTurn(c)'
  BY <1>u, CallsGoOn
<1> QED BY <1>6, <1>7, <1>8, <1>9 DEF IntakeInv

(* An agent is enrolled or reports.                                        *)
LEMMA NodesReport ==
    ASSUME IntakeInv, NEW n \in Nodes, CreateEnrollment(n) \/ Heartbeat(n) \/ \E part : BatchComponents(n, part)
    PROVE  IntakeInv'
<1>u. /\ pools' = pools /\ jobs' = jobs /\ calls' = calls
      /\ windows' = windows /\ promotions' = promotions /\ bindings' = bindings
  BY DEF offered, CreateEnrollment, Heartbeat, BatchComponents
<1>1. /\ \A m \in Nodes : /\ nodes[m] # NoNode => nodes'[m].pool = nodes[m].pool
                          /\ nodes[m].status = "VERIFIED" => nodes'[m].status = "VERIFIED" /\ nodes'[m].until = nodes[m].until
                          /\ nodes'[m].status = "VERIFIED" => nodes[m].status = "VERIFIED"
                          /\ nodes'[m] # NoNode <=> nodes[m] # NoNode
      /\ nodes' \in [Nodes -> {NoNode} \cup [pool : Pools, until : {0} \cup Untils,
                                             status : {"DECLARED", "ONLINE", "VERIFIED", "REJECTED"}]]
      /\ agents' \in [Nodes -> {"NONE", "PENDING", "ACTIVE"}]
  <2>1. CASE CreateEnrollment(n) \/ \E part : BatchComponents(n, part)
    BY <2>1 DEF IntakeInv, IntakeTypeOK, CreateEnrollment, BatchComponents
  <2>2. CASE Heartbeat(n)
    <3>1. nodes[n] # NoNode
      BY <2>2 DEF IntakeInv, Registered, Heartbeat
    <3> QED BY <2>2, <3>1 DEF IntakeInv, IntakeTypeOK, Heartbeat, NoNode
  <2> QED BY <2>1, <2>2
<1>2. IntakeTypeOK'
  <2>1. IntakeTypeOK
    BY DEF IntakeInv
  <2>2. /\ pools' \in [Pools -> {NoPool} \cup [kind : {"H100_8X_NODE", "MAC_MINI"}, status : {"DRAFT", "ACTIVE"}]]
        /\ jobs' \in [Jobs -> {NoJob} \cup [status : {"PENDING", "PASSED", "FAILED"}, node : Nodes,
                                             until : {0} \cup Untils, proven : BOOLEAN]]
    BY <1>u, <2>1 DEF IntakeTypeOK
  <2> QED BY <1>u, <1>1, <2>1, <2>2, TypesStay
<1>3. Registered'
  <2>1. \A m \in Nodes : nodes[m] # NoNode => nodes[m].pool \in Pools
    BY DEF IntakeInv, IntakeTypeOK
  <2>2. \A j \in Jobs : jobs[j] # NoJob => jobs[j].node \in Nodes
    BY DEF IntakeInv, IntakeTypeOK
  <2>3. ASSUME NEW m \in Nodes, agents'[m] # "NONE" PROVE nodes[m] # NoNode
    <3>1. CASE m = n /\ CreateEnrollment(n)
      BY <3>1 DEF CreateEnrollment
    <3>2. CASE m = n /\ Heartbeat(n)
      BY <3>2 DEF IntakeInv, Registered, Heartbeat
    <3>3. CASE m # n \/ \E part : BatchComponents(n, part)
      BY <2>3, <3>3 DEF IntakeInv, IntakeTypeOK, Registered, CreateEnrollment, Heartbeat, BatchComponents
    <3> QED BY <3>1, <3>2, <3>3
  <2> QED BY <1>u, <1>1, <2>1, <2>2, <2>3 DEF IntakeInv, Registered
<1>4. PromotionsAreSound'
  BY <1>u, <1>1, Unsold DEF offered
<1>5. calls' \in [Calls -> {NoCall} \cup Reviewing \cup Offering] /\ \A c \in Calls : InTurn(c)'
  BY <1>u, CallsGoOn
<1> QED BY <1>2, <1>3, <1>4, <1>5 DEF IntakeInv

(* A call stops, or begins with what it reads.                             *)
LEMMA CallsRead ==
    ASSUME IntakeInv, NEW c \in Calls,
           \/ CallEnds(c)
           \/ \E j \in Jobs, d \in {"PASSED", "FAILED"}, u \in Untils : ReadForDecision(c, j, d, u)
           \/ \E p \in Pools, batch \in SlotBatches : ReadForWindows(c, p, batch)
    PROVE  IntakeInv'
<1>u. /\ pools' = pools /\ nodes' = nodes /\ agents' = agents /\ jobs' = jobs
      /\ windows' = windows /\ promotions' = promotions /\ bindings' = bindings
  BY DEF CallEnds, ReadForDecision, ReadForWindows, register, offered
<1> DEFINE Holds(r) == /\ r \in {NoCall} \cup Reviewing \cup Offering
                       /\ r.step = "decision" => jobs[r.j] # NoJob
                       /\ r.step = "windows" => \A v, w \in r.batch : v # w => ~Clash(v, w)
                       /\ calls' = [calls EXCEPT ![c] = r]
<1>1. \E r : Holds(r)
  <2>1. CASE CallEnds(c)
    <3>1. Holds(NoCall)
      BY <2>1 DEF CallEnds, End, NoCall
    <3> QED BY <3>1
  <2>2. ASSUME NEW j \in Jobs, NEW d \in {"PASSED", "FAILED"}, NEW u \in Untils, ReadForDecision(c, j, d, u)
        PROVE  \E r : Holds(r)
    <3> DEFINE r == [step |-> "decision", j |-> j, decision |-> d, until |-> IF d = "PASSED" THEN u ELSE 0]
    <3>1. r \in Reviewing /\ r.step = "decision" /\ r.j = j
      BY DEF Reviewing
    <3>2. jobs[j] # NoJob /\ calls' = [calls EXCEPT ![c] = r]
      BY <2>2 DEF ReadForDecision, Begin, NoJob
    <3>3. Holds(r)
      BY <3>1, <3>2
    <3> QED BY <3>3
  <2>3. ASSUME NEW p \in Pools, NEW batch \in SlotBatches, ReadForWindows(c, p, batch)
        PROVE  \E r : Holds(r)
    <3> DEFINE r == [step |-> "windows", batch |-> batch]
    <3>1. r \in Offering /\ r.step = "windows" /\ r.batch = batch
      BY DEF Offering, SlotBatches, Batches
    <3>2. calls' = [calls EXCEPT ![c] = r] /\ \A v, w \in batch : v # w => ~Clash(v, w)
      BY <2>3 DEF ReadForWindows, Begin
    <3>3. Holds(r)
      BY <3>1, <3>2
    <3> QED BY <3>3
  <2> HIDE DEF Holds
  <2> QED BY <2>1, <2>2, <2>3
<1>2. calls' \in [Calls -> {NoCall} \cup Reviewing \cup Offering] /\ \A d \in Calls : InTurn(d)'
  <2>1. PICK r : Holds(r)
    BY <1>1
  <2> QED BY <1>u, <2>1, CallsTurn
<1>3. IntakeTypeOK' /\ Registered'
  <2>1. IntakeTypeOK
    BY DEF IntakeInv
  <2>2. IntakeTypeOK'
    BY <1>u, <2>1 DEF IntakeTypeOK, Range
  <2>3. Registered'
    BY <1>u DEF IntakeInv, Registered
  <2> QED BY <2>2, <2>3
<1>4. PromotionsAreSound'
  BY <1>u, Unsold DEF offered
<1> QED BY <1>2, <1>3, <1>4 DEF IntakeInv

(* A job is made or gets its evidence.                                     *)
LEMMA JobsGrow ==
    ASSUME IntakeInv, NEW j \in Jobs, AddVerificationEvidence(j) \/ \E n \in Nodes : CreateVerificationJob(j, n)
    PROVE  IntakeInv'
<1>u. /\ pools' = pools /\ nodes' = nodes /\ agents' = agents /\ calls' = calls
      /\ windows' = windows /\ promotions' = promotions /\ bindings' = bindings
  BY DEF AddVerificationEvidence, CreateVerificationJob, register, offered
<1> DEFINE Job == [status : {"PENDING", "PASSED", "FAILED"}, node : Nodes, until : {0} \cup Untils, proven : BOOLEAN]
<1>0. IntakeTypeOK /\ jobs \in [Jobs -> {NoJob} \cup Job]
  BY DEF IntakeInv, IntakeTypeOK
<1>1. \E r \in Job : /\ jobs' = [jobs EXCEPT ![j] = r]
                     /\ nodes[r.node] # NoNode
                     /\ jobs[j].status # "PASSED"
  <2>1. CASE AddVerificationEvidence(j)
    <3>1. jobs[j] # NoJob /\ jobs[j].status # "PASSED"
      BY <2>1 DEF AddVerificationEvidence, NoJob
    <3>2. jobs[j] \in Job /\ nodes[jobs[j].node] # NoNode
      BY <1>0, <3>1 DEF IntakeInv, Registered
    <3> DEFINE r == [jobs[j] EXCEPT !.proven = TRUE]
    <3>3. r \in Job /\ r.node = jobs[j].node /\ jobs' = [jobs EXCEPT ![j] = r]
      BY <2>1, <3>2 DEF AddVerificationEvidence
    <3> QED BY <3>1, <3>2, <3>3
  <2>2. ASSUME NEW n \in Nodes, CreateVerificationJob(j, n)
        PROVE  \E r \in Job : /\ jobs' = [jobs EXCEPT ![j] = r]
                              /\ nodes[r.node] # NoNode
                              /\ jobs[j].status # "PASSED"
    <3> DEFINE r == [status |-> "PENDING", node |-> n, until |-> 0, proven |-> FALSE]
    <3>1. r \in Job /\ r.node = n /\ jobs' = [jobs EXCEPT ![j] = r] /\ nodes[n] # NoNode /\ jobs[j].status # "PASSED"
      BY <2>2 DEF CreateVerificationJob, NoJob
    <3> QED BY <3>1
  <2> QED BY <2>1, <2>2
<1>2. PICK r \in Job : jobs' = [jobs EXCEPT ![j] = r] /\ nodes[r.node] # NoNode /\ jobs[j].status # "PASSED"
  BY <1>1
<1>3. r # NoJob /\ \A k \in Jobs : jobs'[k] = IF k = j THEN r ELSE jobs[k]
  <2>1. r # NoJob
    <3>1. r.status # NoJob.status
      BY DEF NoJob
    <3> QED BY <3>1
  <2> QED BY <1>0, <1>2, <2>1
<1>4. jobs' \in [Jobs -> {NoJob} \cup Job]
  BY <1>0, <1>2
<1>5. IntakeTypeOK'
  BY <1>u, <1>0, <1>4, TypesStay DEF IntakeTypeOK
<1>6. Registered'
  BY <1>u, <1>2, <1>3 DEF IntakeInv, Registered
<1>7. PromotionsAreSound'
  BY <1>u, <1>2, <1>3, Unsold DEF offered
<1>8. calls' \in [Calls -> {NoCall} \cup Reviewing \cup Offering] /\ \A c \in Calls : InTurn(c)'
  BY <1>u, <1>3, CallsGoOn
<1> QED BY <1>5, <1>6, <1>7, <1>8 DEF IntakeInv

(* What a decision finds.                                                  *)
LEMMA Decided ==
    ASSUME IntakeInv, NEW c \in Calls, CompleteVerification(c)
    PROVE  LET j == calls[c].j
               n == jobs[j].node
           IN /\ j \in Jobs /\ n \in Nodes /\ nodes[n] \in [pool : Pools, until : {0} \cup Untils,
                                          status : {"DECLARED", "ONLINE", "VERIFIED", "REJECTED"}]
              /\ jobs[j] \in [status : {"PENDING", "PASSED", "FAILED"}, node : Nodes, until : {0} \cup Untils, proven : BOOLEAN]
              /\ pools[nodes[n].pool] \in [kind : {"H100_8X_NODE", "MAC_MINI"}, status : {"DRAFT", "ACTIVE"}]
              /\ calls[c].decision \in {"PASSED", "FAILED"} /\ calls[c].until \in {0} \cup Untils
<1>1. InTurn(c) /\ calls[c].step = "decision"
  BY DEF IntakeInv, CompleteVerification
<1>2. calls[c] \in Reviewing /\ jobs[calls[c].j] # NoJob
  BY <1>1, CallKinds DEF InTurn
<1>3. calls[c].j \in Jobs /\ calls[c].decision \in {"PASSED", "FAILED"} /\ calls[c].until \in {0} \cup Untils
  BY <1>2 DEF Reviewing
<1>4. jobs[calls[c].j] \in [status : {"PENDING", "PASSED", "FAILED"}, node : Nodes, until : {0} \cup Untils, proven : BOOLEAN]
  BY <1>2, <1>3 DEF IntakeInv, IntakeTypeOK
<1>5. jobs[calls[c].j].node \in Nodes /\ nodes[jobs[calls[c].j].node] # NoNode
  BY <1>2, <1>3, <1>4 DEF IntakeInv, Registered
<1>6. nodes[jobs[calls[c].j].node] \in [pool : Pools, until : {0} \cup Untils,
                                        status : {"DECLARED", "ONLINE", "VERIFIED", "REJECTED"}]
  BY <1>5 DEF IntakeInv, IntakeTypeOK
<1>7. pools[nodes[jobs[calls[c].j].node].pool] # NoPool
  BY <1>5 DEF IntakeInv, Registered
<1>8. pools[nodes[jobs[calls[c].j].node].pool] \in [kind : {"H100_8X_NODE", "MAC_MINI"}, status : {"DRAFT", "ACTIVE"}]
  BY <1>6, <1>7 DEF IntakeInv, IntakeTypeOK
<1> QED BY <1>3, <1>4, <1>5, <1>6, <1>8

(* A review is decided once, by the node as it is then.                    *)
LEMMA ReviewsEnd ==
    ASSUME IntakeInv, NEW c \in Calls, CompleteVerification(c)
    PROVE  IntakeInv'
<1> DEFINE j == calls[c].j
           n == jobs[j].node
           p == nodes[n].pool
           passed == calls[c].decision = "PASSED"
           until == calls[c].until
<1>t. IntakeTypeOK
  BY DEF IntakeInv
<1>d. /\ j \in Jobs /\ n \in Nodes /\ p \in Pools
      /\ nodes[n] \in [pool : Pools, until : {0} \cup Untils, status : {"DECLARED", "ONLINE", "VERIFIED", "REJECTED"}]
      /\ jobs[j] \in [status : {"PENDING", "PASSED", "FAILED"}, node : Nodes, until : {0} \cup Untils, proven : BOOLEAN]
      /\ pools[p] \in [kind : {"H100_8X_NODE", "MAC_MINI"}, status : {"DRAFT", "ACTIVE"}]
      /\ calls[c].decision \in {"PASSED", "FAILED"} /\ until \in {0} \cup Untils
  BY Decided
<1>g. jobs[j].status = "PENDING" /\ calls' = [calls EXCEPT ![c] = NoCall] /\ UNCHANGED <<agents, windows>>
  BY DEF CompleteVerification, End
<1>j. jobs' = [jobs EXCEPT ![j].status = calls[c].decision, ![j].until = until]
  BY DEF CompleteVerification, Decide
<1>n. nodes' = [nodes EXCEPT ![n].status = IF passed THEN "VERIFIED" ELSE "REJECTED", ![n].until = until]
  BY DEF CompleteVerification, Decide
<1>p. pools' = IF passed THEN [pools EXCEPT ![p].status = "ACTIVE"] ELSE pools
  BY DEF CompleteVerification, Decide
<1>s. /\ promotions' = IF passed THEN promotions ELSE Suspended(promotions, n)
      /\ bindings' = IF passed THEN bindings ELSE Suspended(bindings, n)
  BY DEF CompleteVerification, Decide
<1> HIDE DEF j, n, p, passed, until
<1> DEFINE nr == [nodes[n] EXCEPT !.status = IF passed THEN "VERIFIED" ELSE "REJECTED", !.until = until]
           jr == [jobs[j] EXCEPT !.status = calls[c].decision, !.until = until]
<1>a. /\ nr \in [pool : Pools, until : {0} \cup Untils, status : {"DECLARED", "ONLINE", "VERIFIED", "REJECTED"}]
      /\ nr.pool = p /\ nr.until = until /\ nr.status = IF passed THEN "VERIFIED" ELSE "REJECTED"
  BY <1>d DEF p
<1>b. /\ jr \in [status : {"PENDING", "PASSED", "FAILED"}, node : Nodes, until : {0} \cup Untils, proven : BOOLEAN]
      /\ jr.node = n /\ jr.until = until /\ jr.status = calls[c].decision
  BY <1>d DEF n
<1>c. nr # NoNode /\ nodes[n] # NoNode /\ jr # NoJob /\ jobs[j] # NoJob
  <2>1. nodes[n].status # NoNode.status /\ nr.status # NoNode.status
    BY <1>d, <1>a DEF NoNode
  <2>2. jobs[j].status # NoJob.status /\ jr.status # NoJob.status
    BY <1>d, <1>b DEF NoJob
  <2> QED BY <2>1, <2>2
<1>e. nodes' = [nodes EXCEPT ![n] = nr] /\ nodes'[n] = nr
  BY <1>t, <1>d, <1>n DEF IntakeTypeOK
<1>f. jobs' = [jobs EXCEPT ![j] = jr] /\ jobs'[j] = jr
  BY <1>t, <1>d, <1>j DEF IntakeTypeOK
<1> HIDE DEF nr, jr
<1>1. /\ \A m \in Nodes : m # n => nodes'[m] = nodes[m]
      /\ nodes'[n].pool = p /\ nodes'[n].until = until /\ nodes'[n] # NoNode /\ nodes[n] # NoNode
      /\ nodes'[n].status = IF passed THEN "VERIFIED" ELSE "REJECTED"
      /\ \A m \in Nodes : nodes'[m].pool = nodes[m].pool
  <2>1. \A m \in Nodes : m # n => nodes'[m] = nodes[m]
    BY <1>t, <1>d, <1>e DEF IntakeTypeOK
  <2> QED BY <1>a, <1>c, <1>e, <2>1 DEF p
<1>2. /\ \A q \in Pools : pools'[q].kind = pools[q].kind /\ (pools[q].status = "ACTIVE" => pools'[q].status = "ACTIVE")
      /\ \A q \in Pools : pools[q] # NoPool => pools'[q] # NoPool
      /\ passed => pools'[p].status = "ACTIVE"
  BY <1>t, <1>d, <1>p DEF IntakeTypeOK, NoPool
<1>3. /\ \A k \in Jobs : k # j => jobs'[k] = jobs[k]
      /\ jobs'[j] # NoJob /\ jobs[j] # NoJob
      /\ jobs'[j].node = n /\ jobs'[j].until = until /\ jobs'[j].status = calls[c].decision
  <2>1. \A k \in Jobs : k # j => jobs'[k] = jobs[k]
    BY <1>t, <1>d, <1>f DEF IntakeTypeOK
  <2> QED BY <1>b, <1>c, <1>f, <2>1
<1>4. IntakeTypeOK'
  <2>1. nodes' \in [Nodes -> {NoNode} \cup [pool : Pools, until : {0} \cup Untils,
                                            status : {"DECLARED", "ONLINE", "VERIFIED", "REJECTED"}]]
    BY <1>t, <1>a, <1>e DEF IntakeTypeOK
  <2>2. pools' \in [Pools -> {NoPool} \cup [kind : {"H100_8X_NODE", "MAC_MINI"}, status : {"DRAFT", "ACTIVE"}]]
    BY <1>t, <1>d, <1>p DEF IntakeTypeOK
  <2>3. jobs' \in [Jobs -> {NoJob} \cup [status : {"PENDING", "PASSED", "FAILED"}, node : Nodes,
                                         until : {0} \cup Untils, proven : BOOLEAN]]
    BY <1>t, <1>b, <1>f DEF IntakeTypeOK
  <2>4. Range(promotions') \cup Range(bindings') \subseteq {"ACTIVE", "SUSPENDED"}
    <3>1. \A w \in DOMAIN promotions : promotions[w] \in {"ACTIVE", "SUSPENDED"}
      BY <1>t DEF IntakeTypeOK, Range
    <3>2. \A w \in DOMAIN bindings : bindings[w] \in {"ACTIVE", "SUSPENDED"}
      BY <1>t DEF IntakeTypeOK, Range
    <3>3. \A w \in DOMAIN promotions' : promotions'[w] \in {"ACTIVE", "SUSPENDED"}
      BY <1>s, <3>1 DEF Suspended
    <3>4. \A w \in DOMAIN bindings' : bindings'[w] \in {"ACTIVE", "SUSPENDED"}
      BY <1>s, <3>2 DEF Suspended
    <3> QED BY <3>3, <3>4 DEF Range
  <2>5. agents' \in [Nodes -> {"NONE", "PENDING", "ACTIVE"}] /\ DOMAIN windows' \subseteq Slots /\ Range(windows') \subseteq {"AVAILABLE", "PROMOTED"}
    <3>1. agents' = agents /\ windows' = windows
      BY <1>g
    <3>2. DOMAIN windows \subseteq Slots /\ Range(windows) \subseteq {"AVAILABLE", "PROMOTED"}
      BY <1>t DEF IntakeTypeOK
    <3>3. agents \in [Nodes -> {"NONE", "PENDING", "ACTIVE"}]
      BY <1>t DEF IntakeTypeOK
    <3> QED BY <3>1, <3>2, <3>3
  <2> QED BY <2>1, <2>2, <2>3, <2>4, <2>5 DEF IntakeTypeOK
<1>5. Registered'
  <2>1. ASSUME NEW m \in Nodes, nodes'[m] # NoNode PROVE pools'[nodes'[m].pool] # NoPool
    <3>1. nodes[m] # NoNode
      BY <1>1, <2>1
    <3>2. nodes[m].pool \in Pools /\ pools[nodes[m].pool] # NoPool
      BY <1>t, <3>1 DEF IntakeInv, IntakeTypeOK, Registered
    <3> QED BY <1>1, <1>2, <3>2
  <2>2. ASSUME NEW m \in Nodes, agents'[m] # "NONE" PROVE nodes'[m] # NoNode
    BY <1>1, <1>g, <2>2 DEF IntakeInv, Registered
  <2>3. ASSUME NEW k \in Jobs, jobs'[k] # NoJob PROVE nodes'[jobs'[k].node] # NoNode
    <3>1. jobs[k] # NoJob /\ jobs'[k].node = jobs[k].node
      BY <1>3, <2>3 DEF n
    <3>2. jobs[k].node \in Nodes /\ nodes[jobs[k].node] # NoNode
      BY <1>t, <3>1 DEF IntakeInv, IntakeTypeOK, Registered
    <3> QED BY <1>1, <3>1, <3>2
  <2> QED BY <2>1, <2>2, <2>3 DEF Registered
<1>6. calls' \in [Calls -> {NoCall} \cup Reviewing \cup Offering] /\ \A d \in Calls : InTurn(d)'
  <2>1. calls' \in [Calls -> {NoCall} \cup Reviewing \cup Offering]
    BY <1>g DEF IntakeInv
  <2>2. ASSUME NEW d \in Calls PROVE InTurn(d)'
    <3>1. calls'[d] = NoCall \/ calls'[d] = calls[d]
      BY <1>g DEF IntakeInv
    <3>2. InTurn(d)
      BY DEF IntakeInv
    <3>3. CASE calls'[d] = NoCall
      BY <3>3 DEF InTurn, NoCall
    <3>4. CASE calls'[d] = calls[d]
      <4>1. calls[d].step = "decision" => calls[d].j \in Jobs /\ jobs[calls[d].j] # NoJob
        BY <3>2, CallKinds DEF InTurn, Reviewing
      <4>2. calls[d].step = "decision" => jobs'[calls[d].j] # NoJob
        BY <4>1, <1>3
      <4> QED BY <3>2, <3>4, <4>2 DEF InTurn
    <3> QED BY <3>1, <3>3, <3>4
  <2> QED BY <2>1, <2>2
<1>w. DOMAIN promotions' = DOMAIN promotions
  BY <1>s DEF Suspended
<1>7. PromotionsAreSound'
  <2>1. promotions' = bindings'
    BY <1>s DEF IntakeInv, PromotionsAreSound, Suspended
  <2>2. DOMAIN promotions' = {w \in DOMAIN windows' : windows'[w] = "PROMOTED"}
    BY <1>g, <1>w DEF IntakeInv, PromotionsAreSound
  <2>3. ASSUME NEW w \in DOMAIN promotions', promotions'[w] = "ACTIVE"
        PROVE  promotions[w] = "ACTIVE" /\ nodes[w[1]].status = "VERIFIED" /\ nodes'[w[1]].status = "VERIFIED"
    <3>1. w \in DOMAIN promotions /\ w[1] \in Nodes
      BY <1>w DEF IntakeInv, PromotionsAreSound, IntakeTypeOK, Slots
    <3>2. promotions[w] = "ACTIVE" /\ (~passed => w[1] # n)
      BY <1>s, <2>3, <3>1 DEF Suspended
    <3>3. nodes[w[1]].status = "VERIFIED"
      BY <3>1, <3>2 DEF IntakeInv, PromotionsAreSound
    <3> QED BY <1>1, <3>1, <3>2, <3>3
  <2>4. ASSUME NEW m \in Nodes, nodes'[m].status = "VERIFIED"
        PROVE  /\ pools'[nodes'[m].pool].status = "ACTIVE"
               /\ \E k \in Jobs : jobs'[k].status = "PASSED" /\ jobs'[k].node = m /\ jobs'[k].until = nodes'[m].until
    <3>1. CASE m = n
      <4>1. passed
        BY <1>1, <2>4, <3>1
      <4>2. calls[c].decision = "PASSED"
        BY <4>1 DEF passed
      <4> QED BY <1>1, <1>2, <1>3, <1>d, <3>1, <4>1, <4>2
    <3>2. CASE m # n
      <4>1. nodes'[m] = nodes[m]
        BY <1>1, <3>2
      <4>2. /\ pools[nodes[m].pool].status = "ACTIVE"
            /\ \E k \in Jobs : jobs[k].status = "PASSED" /\ jobs[k].node = m /\ jobs[k].until = nodes[m].until
        BY <2>4, <4>1 DEF IntakeInv, PromotionsAreSound
      <4>3. nodes[m] # NoNode /\ nodes[m].pool \in Pools
        BY <1>t, <2>4, <4>1 DEF IntakeTypeOK, NoNode
      <4>4. \A k \in Jobs : jobs[k].status = "PASSED" => jobs'[k] = jobs[k]
        BY <1>3, <1>g
      <4> QED BY <1>2, <4>1, <4>2, <4>3, <4>4
    <3> QED BY <3>1, <3>2
  <2>5. \A v, w \in DOMAIN windows' : v # w => ~Clash(v, w)
    BY <1>g DEF IntakeInv, PromotionsAreSound
  <2>6. \A q \in Pools : OnSale(q)' # {} =>
          /\ pools'[q].kind = "H100_8X_NODE" /\ \A r \in Pools \ {q} : OnSale(r)' = {}
          /\ NodeHours(OnSale(q)') <= MaxHours /\ Stretch(OnSale(q)') <= MaxStretch
    BY <1>w, <1>1, <1>2, <2>3, SaleOnlyShrinks
  <2> QED BY <2>1, <2>2, <2>3, <2>4, <2>5, <2>6 DEF PromotionsAreSound
<1> QED BY <1>4, <1>5, <1>6, <1>7 DEF IntakeInv

(* Hours are offered that nobody offered before.                           *)
LEMMA WindowsGrow ==
    ASSUME IntakeInv, NEW c \in Calls, BatchAvailability(c)
    PROVE  IntakeInv'
<1> DEFINE batch == calls[c].batch
<1>t. IntakeTypeOK
  BY DEF IntakeInv
<1>g. /\ calls[c].step = "windows"
      /\ \A v \in DOMAIN windows, w \in batch : ~Clash(v, w)
      /\ windows' = Entered(windows, batch, "AVAILABLE")
      /\ calls' = [calls EXCEPT ![c] = NoCall]
  BY DEF BatchAvailability, End
<1>u. /\ pools' = pools /\ nodes' = nodes /\ agents' = agents /\ jobs' = jobs
      /\ promotions' = promotions /\ bindings' = bindings
  BY DEF BatchAvailability, register
<1>1. batch \subseteq Slots /\ \A v, w \in batch : v # w => ~Clash(v, w)
  <2>1. InTurn(c)
    BY DEF IntakeInv
  <2>2. calls[c] \in Offering
    BY <1>g, <2>1, CallKinds DEF InTurn
  <2> QED BY <1>g, <2>1, <2>2 DEF InTurn, Offering
<1> HIDE DEF batch
<1>2. \A w \in Slots : Clash(w, w)
  BY IntakeAssumption DEF Slots, Clash
<1>3. batch \cap DOMAIN windows = {}
  BY <1>1, <1>2, <1>g
<1>4. /\ DOMAIN windows' = DOMAIN windows \cup batch
      /\ \A w \in DOMAIN windows : windows'[w] = windows[w]
      /\ \A w \in batch : windows'[w] = "AVAILABLE"
  BY <1>3, <1>g DEF Entered
<1>5. IntakeTypeOK'
  <2>1. \A w \in DOMAIN windows : windows[w] \in {"AVAILABLE", "PROMOTED"}
    BY <1>t DEF IntakeTypeOK, Range
  <2>2. \A w \in DOMAIN windows' : windows'[w] \in {"AVAILABLE", "PROMOTED"}
    BY <1>4, <2>1
  <2>3. DOMAIN windows' \subseteq Slots /\ Range(windows') \subseteq {"AVAILABLE", "PROMOTED"}
    BY <1>t, <1>1, <1>4, <2>2 DEF IntakeTypeOK, Range
  <2>4. Range(promotions') \cup Range(bindings') \subseteq {"ACTIVE", "SUSPENDED"}
    BY <1>t, <1>u DEF IntakeTypeOK
  <2> QED BY <1>t, <1>u, <2>3, <2>4 DEF IntakeTypeOK
<1>6. Registered'
  BY <1>u DEF IntakeInv, Registered
<1>7. calls' \in [Calls -> {NoCall} \cup Reviewing \cup Offering] /\ \A d \in Calls : InTurn(d)'
  <2>1. NoCall.step # "decision" /\ NoCall.step # "windows"
    BY DEF NoCall
  <2> QED BY <1>u, <1>g, <2>1, CallsTurn
<1>8. PromotionsAreSound'
  <2>1. promotions' = bindings'
    BY <1>u DEF IntakeInv, PromotionsAreSound
  <2>2. DOMAIN promotions' = {w \in DOMAIN windows' : windows'[w] = "PROMOTED"}
    <3>1. {w \in DOMAIN windows' : windows'[w] = "PROMOTED"} = {w \in DOMAIN windows : windows[w] = "PROMOTED"}
      BY <1>4
    <3> QED BY <1>u, <3>1 DEF IntakeInv, PromotionsAreSound
  <2>3. \A w \in DOMAIN promotions' : promotions'[w] = "ACTIVE" => nodes'[w[1]].status = "VERIFIED"
    BY <1>u DEF IntakeInv, PromotionsAreSound
  <2>4. \A n \in Nodes : nodes'[n].status = "VERIFIED" =>
          /\ pools'[nodes'[n].pool].status = "ACTIVE"
          /\ \E j \in Jobs : jobs'[j].status = "PASSED" /\ jobs'[j].node = n /\ jobs'[j].until = nodes'[n].until
    BY <1>u DEF IntakeInv, PromotionsAreSound
  <2>5. ASSUME NEW v \in DOMAIN windows', NEW w \in DOMAIN windows', v # w PROVE ~Clash(v, w)
    <3>1. Clash(v, w) <=> Clash(w, v)
      BY DEF Clash
    <3>2. v \in DOMAIN windows /\ w \in DOMAIN windows => ~Clash(v, w)
      BY <2>5 DEF IntakeInv, PromotionsAreSound
    <3> QED BY <1>1, <1>4, <1>g, <2>5, <3>1, <3>2
  <2>6. \A q \in Pools : OnSale(q)' # {} =>
          /\ pools'[q].kind = "H100_8X_NODE" /\ \A r \in Pools \ {q} : OnSale(r)' = {}
          /\ NodeHours(OnSale(q)') <= MaxHours /\ Stretch(OnSale(q)') <= MaxStretch
    BY <1>u, SaleOnlyShrinks
  <2> QED BY <2>1, <2>2, <2>3, <2>4, <2>5, <2>6 DEF PromotionsAreSound
<1> QED BY <1>5, <1>6, <1>7, <1>8 DEF IntakeInv

(* Hours are put on sale within the policy.                                *)
LEMMA PromotionsGrow ==
    ASSUME IntakeInv, NEW p \in Pools, NEW batch \in SlotBatches, CommitPromotion(p, batch)
    PROVE  IntakeInv' /\ batch \cap DOMAIN promotions = {}
<1>t. IntakeTypeOK
  BY DEF IntakeInv
<1>g. /\ pools[p].kind = "H100_8X_NODE"
      /\ batch \subseteq DOMAIN windows
      /\ \A w \in batch : windows[w] = "AVAILABLE" /\ nodes[w[1]].pool = p /\ nodes[w[1]].status = "VERIFIED"
      /\ \A q \in Pools \ {p} : OnSale(q) = {}
      /\ NodeHours(OnSale(p) \cup batch) <= MaxHours
      /\ Stretch(OnSale(p) \cup batch) <= MaxStretch
      /\ windows' = Entered(windows, batch, "PROMOTED")
      /\ promotions' = Entered(promotions, batch, "ACTIVE")
      /\ bindings' = Entered(bindings, batch, "ACTIVE")
  BY DEF CommitPromotion, Covered
<1>u. pools' = pools /\ nodes' = nodes /\ agents' = agents /\ jobs' = jobs /\ calls' = calls
  BY DEF CommitPromotion, register
<1>1. batch \cap DOMAIN promotions = {}
  BY <1>g DEF IntakeInv, PromotionsAreSound
<1>2. /\ DOMAIN windows' = DOMAIN windows
      /\ \A w \in DOMAIN windows : windows'[w] = IF w \in batch THEN "PROMOTED" ELSE windows[w]
  BY <1>g DEF Entered
<1>3. /\ DOMAIN promotions' = DOMAIN promotions \cup batch
      /\ \A w \in DOMAIN promotions' : promotions'[w] = IF w \in batch THEN "ACTIVE" ELSE promotions[w]
  BY <1>g DEF Entered
<1>4. promotions = bindings /\ promotions' = bindings'
  BY <1>g DEF IntakeInv, PromotionsAreSound
<1>5. IntakeTypeOK'
  <2>1. \A w \in DOMAIN windows : windows[w] \in {"AVAILABLE", "PROMOTED"}
    BY <1>t DEF IntakeTypeOK, Range
  <2>2. \A w \in DOMAIN promotions : promotions[w] \in {"ACTIVE", "SUSPENDED"}
    BY <1>t DEF IntakeTypeOK, Range
  <2>3. \A w \in DOMAIN windows' : windows'[w] \in {"AVAILABLE", "PROMOTED"}
    BY <1>2, <2>1
  <2>4. \A w \in DOMAIN promotions' : promotions'[w] \in {"ACTIVE", "SUSPENDED"}
    BY <1>3, <2>2
  <2>5. DOMAIN windows' \subseteq Slots /\ Range(windows') \subseteq {"AVAILABLE", "PROMOTED"}
    BY <1>t, <1>2, <2>3 DEF IntakeTypeOK, Range
  <2>6. Range(promotions') \cup Range(bindings') \subseteq {"ACTIVE", "SUSPENDED"}
    BY <1>4, <2>4 DEF Range
  <2> QED BY <1>t, <1>u, <2>5, <2>6 DEF IntakeTypeOK
<1>6. Registered'
  BY <1>u DEF IntakeInv, Registered
<1>7. calls' \in [Calls -> {NoCall} \cup Reviewing \cup Offering] /\ \A d \in Calls : InTurn(d)'
  BY <1>u, CallsGoOn
<1>8. PromotionsAreSound'
  <2>2. DOMAIN promotions' = {w \in DOMAIN windows' : windows'[w] = "PROMOTED"}
    <3>1. DOMAIN promotions = {w \in DOMAIN windows : windows[w] = "PROMOTED"}
      BY DEF IntakeInv, PromotionsAreSound
    <3> QED BY <1>g, <1>2, <1>3, <3>1
  <2>3. \A w \in DOMAIN promotions' : promotions'[w] = "ACTIVE" => nodes'[w[1]].status = "VERIFIED"
    BY <1>g, <1>u, <1>3 DEF IntakeInv, PromotionsAreSound
  <2>4. \A n \in Nodes : nodes'[n].status = "VERIFIED" =>
          /\ pools'[nodes'[n].pool].status = "ACTIVE"
          /\ \E j \in Jobs : jobs'[j].status = "PASSED" /\ jobs'[j].node = n /\ jobs'[j].until = nodes'[n].until
    BY <1>u DEF IntakeInv, PromotionsAreSound
  <2>5. \A v, w \in DOMAIN windows' : v # w => ~Clash(v, w)
    BY <1>2 DEF IntakeInv, PromotionsAreSound
  <2>6. OnSale(p)' = OnSale(p) \cup batch
    BY <1>g, <1>u, <1>1, <1>3 DEF OnSale
  <2>7. \A q \in Pools \ {p} : OnSale(q)' = {}
    BY <1>g, <1>u, <1>3 DEF OnSale
  <2>8. \A q \in Pools : OnSale(q)' # {} =>
          /\ pools'[q].kind = "H100_8X_NODE" /\ \A r \in Pools \ {q} : OnSale(r)' = {}
          /\ NodeHours(OnSale(q)') <= MaxHours /\ Stretch(OnSale(q)') <= MaxStretch
    <3>1. SUFFICES ASSUME NEW q \in Pools, OnSale(q)' # {}
                   PROVE  /\ pools'[q].kind = "H100_8X_NODE" /\ \A r \in Pools \ {q} : OnSale(r)' = {}
                          /\ NodeHours(OnSale(q)') <= MaxHours /\ Stretch(OnSale(q)') <= MaxStretch
      OBVIOUS
    <3>2. q = p
      BY <2>7, <3>1
    <3> QED BY <1>g, <1>u, <2>6, <2>7, <3>2
  <2> QED BY <1>4, <2>2, <2>3, <2>4, <2>5, <2>8 DEF PromotionsAreSound
<1> QED BY <1>1, <1>5, <1>6, <1>7, <1>8 DEF IntakeInv

(* Every step keeps what was taken in sound.                               *)
LEMMA IntakeStays == IntakeInv /\ [IntakeNext]_intakeVars => IntakeInv'
<1> SUFFICES ASSUME IntakeInv, [IntakeNext]_intakeVars PROVE IntakeInv'
  OBVIOUS
<1>0. CASE UNCHANGED intakeVars
  <2>1. /\ pools' = pools /\ nodes' = nodes /\ parts' = parts /\ agents' = agents /\ jobs' = jobs
        /\ windows' = windows /\ promotions' = promotions /\ bindings' = bindings /\ calls' = calls
    BY <1>0 DEF intakeVars
  <2>2. IntakeTypeOK' /\ Registered'
    <3>1. IntakeTypeOK /\ Registered
      BY DEF IntakeInv
    <3>2. IntakeTypeOK'
      <4>1. /\ pools' \in [Pools -> {NoPool} \cup [kind : {"H100_8X_NODE", "MAC_MINI"}, status : {"DRAFT", "ACTIVE"}]]
            /\ nodes' \in [Nodes -> {NoNode} \cup [pool : Pools, until : {0} \cup Untils,
                                                   status : {"DECLARED", "ONLINE", "VERIFIED", "REJECTED"}]]
            /\ agents' \in [Nodes -> {"NONE", "PENDING", "ACTIVE"}]
            /\ jobs' \in [Jobs -> {NoJob} \cup [status : {"PENDING", "PASSED", "FAILED"}, node : Nodes,
                                                 until : {0} \cup Untils, proven : BOOLEAN]]
        BY <2>1, <3>1 DEF IntakeTypeOK
      <4> QED BY <2>1, <3>1, <4>1, TypesStay
    <3>3. Registered'
      BY <2>1, <3>1 DEF Registered
    <3> QED BY <3>2, <3>3
  <2>3. PromotionsAreSound'
    BY <2>1, Unsold DEF offered
  <2>4. calls' \in [Calls -> {NoCall} \cup Reviewing \cup Offering] /\ \A d \in Calls : InTurn(d)'
    BY <2>1, CallsGoOn
  <2> QED BY <2>2, <2>3, <2>4 DEF IntakeInv
<1>1. ASSUME NEW p \in Pools, NEW kind \in {"H100_8X_NODE", "MAC_MINI"}, CreatePool(p, kind) PROVE IntakeInv'
  <2>1. /\ pools[p] = NoPool /\ pools' = [pools EXCEPT ![p] = [kind |-> kind, status |-> "DRAFT"]]
        /\ UNCHANGED <<parts, agents, jobs, offered, calls>>
    BY <1>1 DEF CreatePool
  <2>0. PICK none : none = {}
    OBVIOUS
  <2>2. nodes' = [n \in Nodes |-> IF n \in none /\ nodes[n] = NoNode THEN Declared(p) ELSE nodes[n]]
    BY <1>1, <2>0 DEF CreatePool, IntakeInv, IntakeTypeOK
  <2>3. pools'[p] # NoPool
    BY <2>1 DEF IntakeInv, IntakeTypeOK, NoPool
  <2> QED BY <2>1, <2>2, <2>3, PoolsGrow
<1>2. ASSUME NEW p \in Pools, NEW batch \in NodeBatches, BatchMembers(p, batch) PROVE IntakeInv'
  <2>1. /\ pools[p] # NoPool /\ pools' = pools
        /\ nodes' = [n \in Nodes |-> IF n \in batch /\ nodes[n] = NoNode THEN Declared(p) ELSE nodes[n]]
        /\ UNCHANGED <<parts, agents, jobs, offered, calls>>
    BY <1>2 DEF BatchMembers
  <2> QED BY <2>1, PoolsGrow
<1>3. ASSUME NEW p \in Pools, NEW batch \in NodeBatches, ImportMacInventory(p, batch) PROVE IntakeInv'
  <2>1. /\ pools' = [pools EXCEPT ![p] = IF @ = NoPool THEN [kind |-> "MAC_MINI", status |-> "DRAFT"] ELSE @]
        /\ nodes' = [n \in Nodes |-> IF n \in batch /\ nodes[n] = NoNode THEN Declared(p) ELSE nodes[n]]
        /\ UNCHANGED <<parts, agents, jobs, offered, calls>>
    BY <1>3 DEF ImportMacInventory
  <2>2. \/ pools' = pools
        \/ /\ pools[p] = NoPool
           /\ \E kind \in {"H100_8X_NODE", "MAC_MINI"} : pools' = [pools EXCEPT ![p] = [kind |-> kind, status |-> "DRAFT"]]
    BY <2>1 DEF IntakeInv, IntakeTypeOK
  <2>3. pools'[p] # NoPool
    BY <2>1 DEF IntakeInv, IntakeTypeOK, NoPool
  <2> QED BY <2>1, <2>2, <2>3, PoolsGrow
<1>4. ASSUME NEW n \in Nodes, CreateEnrollment(n) \/ Heartbeat(n) \/ \E part : BatchComponents(n, part) PROVE IntakeInv'
  BY <1>4, NodesReport
<1>5. ASSUME NEW j \in Jobs, AddVerificationEvidence(j) \/ \E n \in Nodes : CreateVerificationJob(j, n) PROVE IntakeInv'
  BY <1>5, JobsGrow
<1>6. ASSUME NEW c \in Calls,
             \/ CallEnds(c)
             \/ \E j \in Jobs, d \in {"PASSED", "FAILED"}, u \in Untils : ReadForDecision(c, j, d, u)
             \/ \E p \in Pools, batch \in SlotBatches : ReadForWindows(c, p, batch)
      PROVE  IntakeInv'
  BY <1>6, CallsRead
<1>7. ASSUME NEW c \in Calls, CompleteVerification(c) PROVE IntakeInv'
  BY <1>7, ReviewsEnd
<1>8. ASSUME NEW c \in Calls, BatchAvailability(c) PROVE IntakeInv'
  BY <1>8, WindowsGrow
<1>9. ASSUME NEW p \in Pools, NEW batch \in SlotBatches, CommitPromotion(p, batch) PROVE IntakeInv'
  BY <1>9, PromotionsGrow
<1> QED BY <1>0, <1>1, <1>2, <1>3, <1>4, <1>5, <1>6, <1>7, <1>8, <1>9 DEF IntakeNext

(* No step turns a decision or revives what was suspended.                 *)
LEMMA DecisionsStay == IntakeInv /\ [IntakeNext]_intakeVars => DecisionsStand
<1> SUFFICES ASSUME IntakeInv, [IntakeNext]_intakeVars PROVE DecisionsStand
  OBVIOUS
<1>1. ASSUME NEW j \in Jobs, jobs[j].status \in {"PASSED", "FAILED"}
      PROVE  jobs'[j].status = jobs[j].status /\ jobs'[j].until = jobs[j].until
  <2>1. jobs[j] # NoJob /\ jobs[j].status # "PENDING"
    BY <1>1 DEF NoJob
  <2>2. jobs'[j] = jobs[j]
    <3>1. ASSUME NEW k \in Jobs, AddVerificationEvidence(k) \/ \E n \in Nodes : CreateVerificationJob(k, n)
          PROVE  jobs'[j] = jobs[j]
      <4>1. j # k
        BY <2>1, <3>1 DEF AddVerificationEvidence, CreateVerificationJob
      <4> QED BY <3>1, <4>1 DEF AddVerificationEvidence, CreateVerificationJob, IntakeInv, IntakeTypeOK
    <3>2. ASSUME NEW c \in Calls, CompleteVerification(c) PROVE jobs'[j] = jobs[j]
      <4>1. j # calls[c].j
        BY <2>1, <3>2 DEF CompleteVerification
      <4> QED BY <3>2, <4>1 DEF CompleteVerification, Decide, IntakeInv, IntakeTypeOK
    <3>3. CASE jobs' = jobs
      BY <3>3
    <3>4. CASE UNCHANGED intakeVars
      BY <3>4 DEF intakeVars
    <3> QED BY <3>1, <3>2, <3>3, <3>4 DEF IntakeNext, CallEnds, CreatePool, BatchMembers, ImportMacInventory, BatchComponents,
          CreateEnrollment, Heartbeat, ReadForDecision, ReadForWindows, BatchAvailability, CommitPromotion
  <2> QED BY <2>2
<1>2. ASSUME NEW w \in DOMAIN promotions, promotions[w] = "SUSPENDED" PROVE promotions'[w] = "SUSPENDED"
  <2>1. ASSUME NEW p \in Pools, NEW batch \in SlotBatches, CommitPromotion(p, batch) PROVE promotions'[w] = "SUSPENDED"
    <3>1. w \notin batch
      BY <2>1, PromotionsGrow
    <3> QED BY <1>2, <2>1, <3>1 DEF CommitPromotion, Entered
  <2>2. ASSUME NEW c \in Calls, CompleteVerification(c) PROVE promotions'[w] = "SUSPENDED"
    BY <1>2, <2>2 DEF CompleteVerification, Decide, Suspended
  <2>3. CASE promotions' = promotions
    BY <1>2, <2>3
  <2>4. CASE UNCHANGED intakeVars
    BY <1>2, <2>4 DEF intakeVars
  <2> QED BY <2>1, <2>2, <2>3, <2>4 DEF IntakeNext, CallEnds, CreatePool, BatchMembers, ImportMacInventory, BatchComponents, offered,
          CreateEnrollment, Heartbeat, CreateVerificationJob, AddVerificationEvidence, ReadForDecision, ReadForWindows, BatchAvailability
<1> QED BY <1>1, <1>2 DEF DecisionsStand

-----------------------------------------------------------------------------
(* What comes to the market, taken together.                               *)

EntryInv == LotsInv /\ DemandInv /\ IntakeInv

(* In the initial state the invariant holds.                               *)
LEMMA EntryStarts == EntryInit => EntryInv
  BY LotsStart, DemandStart, IntakeStart DEF EntryInit, EntryInv

(* One of the three moves, or none, and the others stay as they are.       *)
LEMMA EntrySteps ==
    ASSUME [EntryNext]_entryVars
    PROVE  /\ [LotsNext]_lotVars /\ [DemandNext]_demandVars /\ [IntakeNext]_intakeVars
           /\ desk' = desk
  BY DEF EntryNext, entryVars

(* Every step keeps the invariant.                                         *)
LEMMA EntryStays == EntryInv /\ [EntryNext]_entryVars => EntryInv'
  BY EntrySteps, LotsStay, DemandStay, IntakeStays DEF EntryInv

(* The invariant holds of every behaviour.                                 *)
LEMMA EntryAlways == EntrySpec => []EntryInv
<1>1. EntryInit => EntryInv
  BY EntryStarts
<1>2. EntryInv /\ [EntryNext]_entryVars => EntryInv'
  BY EntryStays
<1> QED BY <1>1, <1>2, PTL DEF EntrySpec

(* The lots that stand never promise more of a resource in an hour than it *)
(* has, and each rests on a passed run that covers its window, for any     *)
(* windows, whichever store summed them (createCapacityLot of both stores).*)
THEOREM LotsStaySound == EntrySpec => []LotsAreSound
<1>1. EntryInv => LotsAreSound
  BY DEF EntryInv, LotsInv, LotsAreSound
<1> QED BY <1>1, EntryAlways, PTL

(* A key has one demand, a public catalog demand has all its papers, a     *)
(* live quote is for the demand as it is shown, and no limit is exceeded,  *)
(* for any number of visits, demands and weeks (marketplace-store-d1.ts).  *)
THEOREM DemandsStaySound == EntrySpec => []DemandsAreSound
<1>1. EntryInv => DemandsAreSound
  BY DemandsShown DEF EntryInv, DemandsAreSound
<1> QED BY <1>1, EntryAlways, PTL

(* Hours on sale are on verified nodes, no hour of a node is offered       *)
(* twice, and one pool sells, within its policy, for any windows and any   *)
(* number of calls under way (supply-store-core.ts).                       *)
THEOREM MachinesStaySound == EntrySpec => []MachinesAreSound
<1>1. EntryInv => MachinesAreSound
  BY DEF EntryInv, IntakeInv, MachinesAreSound
<1> QED BY <1>1, EntryAlways, PTL

(* What was withdrawn, closed, superseded, pruned, decided or suspended    *)
(* stays so in every step, whoever comes late with what he read before.    *)
THEOREM EntryEndsStayFinal == EntrySpec => EndsAreFinal
<1>1. EntryInv /\ EntryInv' /\ [EntryNext]_entryVars =>
          WithdrawalReplays' /\ StaysOver /\ DemandsOnlyAdvance /\ DecisionsStand
  BY EntrySteps, QuotesStayOver, DemandsAdvance, DecisionsStay DEF EntryInv, LotsInv
<1>2. EntryInv /\ EntryInv' /\ [EntryNext]_entryVars =>
          [/\ desk = "lots" => WithdrawalReplays' /\ StaysOver
           /\ desk = "demands" => DemandsOnlyAdvance
           /\ desk = "machines" => DecisionsStand]_entryVars
  BY <1>1
<1> QED BY <1>2, EntryAlways, PTL DEF EntrySpec, EndsAreFinal
=============================================================================
