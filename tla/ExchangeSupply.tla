--------------------------- MODULE ExchangeSupply ---------------------------
(* What a supplier brings to the exchange before anybody buys it: one      *)
(* resource, the verification runs of an operator, the capacity lots cut   *)
(* from it, their listing or withdrawal, and swap quotes on what is listed.*)
(*                                                                         *)
(* exchange-store-sqlite.ts runs a handler as one transaction, and the     *)
(* batches of exchange-store-d1.ts repeat every test of their reads that   *)
(* can change, so that a handler is one action for both; what the stores   *)
(* test differently is told apart by "store". The transition of a quote is *)
(* the exception: D1 judges it by the clock of its reads.                  *)
(*                                                                         *)
(* A row is named by the idempotency key of its creation; a key that is    *)
(* known is answered with its row and changes nothing.                     *)
EXTENDS Integers, Sequences, ExchangeCapacity

CONSTANTS
    Lots,        \* keys of createCapacityLot
    Withdrawals, \* keys of withdrawCapacityLot
    Requests,    \* quote transitions a D1 store handles at once
    Windows,     \* [start, end, units] of a lot
    Validities,  \* valid_until of a passed verification
    TotalUnits,  \* total_parallel_units of the resource
    MaxRuns      \* bound of the verification runs

ASSUME SupplyAssumption ==
    /\ Windows \subseteq [start : Nat, end : Nat, units : Nat \ {0}]
    /\ Validities \subseteq Nat /\ TotalUnits \in Nat /\ MaxRuns \in Nat
    /\ IsFiniteSet(Lots)

VARIABLES
    store,       \* "sqlite" or "d1"
    resource,    \* exchange_resource_assets.status
    runs,        \* exchange_verification_runs, in the order of their creation
    lots,        \* exchange_capacity_lots and the listing versions of each
    moves,       \* exchange_capacity_transfers of each lot
    withdrawals, \* exchange_capacity_withdrawals by key
    quote,       \* exchange_swap_quotes: the statuses of one quote, oldest first
    over,        \* whether its expires_at has passed
    req          \* local state of the D1 handlers under way

supply == <<resource, runs, lots, moves, withdrawals>>
lotVars == <<store, supply, quote, over, req>>

NoLot == [status |-> "NONE", version |-> 0, listings |-> 0]
NoWithdrawal == [lot |-> "none"]
NoRequest == [step |-> "idle"]

LotsInit ==
    /\ store \in {"sqlite", "d1"}
    /\ resource = "DECLARED"
    /\ runs = <<>>
    /\ lots = [l \in Lots |-> NoLot]
    /\ moves = [l \in Lots |-> {}]
    /\ withdrawals = [k \in Withdrawals |-> NoWithdrawal]
    /\ quote = <<>> /\ over = FALSE
    /\ req = [r \in Requests |-> NoRequest]

-----------------------------------------------------------------------------
(* The resource and its lots.                                              *)

(* A run sets the status of the resource, whatever lots were cut from it.  *)
(* The batch of D1 ends with a guard that wants one event of a kind: on D1 *)
(* a resource passes once and fails once.                                  *)
CreateVerification(result, until) ==
    /\ Len(runs) < MaxRuns
    /\ store = "d1" => \A i \in DOMAIN runs : runs[i].result # result
    /\ runs' = Append(runs, [result |-> result, until |-> IF result = "PASS" THEN until ELSE 0])
    /\ resource' = IF result = "PASS" THEN "VERIFIED" ELSE "REJECTED"
    /\ UNCHANGED <<store, lots, moves, withdrawals, quote, over, req>>

(* Mutant of Standing: a lot takes its units only once it is listed.       *)
StandingListed == [l \in {k \in Lots : lots[k].status = "LISTED"} |-> lots[l].win]
Standing == [l \in {k \in Lots : lots[k].status \in {"READY", "LISTED"}} |-> lots[l].win]

(* The run is named by the supplier or the last that covers the window.    *)
CreateCapacityLot(l, w, run) ==
    /\ lots[l] = NoLot /\ resource = "VERIFIED" /\ w.units <= TotalUnits
    /\ runs[run].result = "PASS" /\ runs[run].until >= w.end
    /\ IF store = "sqlite" THEN Fits(Standing, w, TotalUnits) ELSE FitsD1(Standing, w, TotalUnits)
    /\ lots' = [lots EXCEPT ![l] = [status |-> "READY", version |-> 1, listings |-> 0,
                                    win |-> w, run |-> run]]
    /\ moves' = [moves EXCEPT ![l] = {"issued"}]
    /\ UNCHANGED <<store, resource, runs, withdrawals, quote, over, req>>

CreateListing(l) ==
    /\ lots[l].status = "READY"
    /\ runs[lots[l].run].result = "PASS" /\ runs[lots[l].run].until >= lots[l].win.end
    /\ lots' = [lots EXCEPT ![l].status = "LISTED", ![l].version = @ + 1, ![l].listings = @ + 1]
    /\ UNCHANGED <<store, resource, runs, moves, withdrawals, quote, over, req>>

(* withdrawalEligibility: nothing but its issue ever happened to the lot.  *)
Eligible(l) ==
    /\ lots[l].status = "READY" /\ lots[l].listings = 0
    /\ \A k \in Withdrawals : withdrawals[k].lot # l
    /\ moves[l] = {"issued"}

WithdrawCapacityLot(l, k) ==
    /\ withdrawals[k] = NoWithdrawal /\ Eligible(l)
    /\ lots' = [lots EXCEPT ![l].status = "WITHDRAWN", ![l].version = @ + 1]
    /\ moves' = [moves EXCEPT ![l] = @ \cup {k}]
    /\ withdrawals' = [withdrawals EXCEPT ![k] = [lot |-> l, expected |-> lots[l].version]]
    /\ UNCHANGED <<store, resource, runs, quote, over, req>>

-----------------------------------------------------------------------------
(* A swap quote: what two listings are worth against each other, for as    *)
(* long as both are valid and a quarter of an hour at most. One leg is a   *)
(* lot of this resource; the other, a listing of another supplier, is      *)
(* tested alike. The reservations of a lot are those of ExchangeOrders.    *)

Latest == quote[Len(quote)]

CreateSwapQuote(l) ==
    /\ quote = <<>> /\ lots[l].status = "LISTED" /\ resource = "VERIFIED"
    /\ quote' = <<"QUOTED">>
    /\ UNCHANGED <<store, supply, over, req>>

QuoteRunsOut ==
    /\ quote # <<>> /\ ~over
    /\ over' = TRUE
    /\ UNCHANGED <<store, supply, quote, req>>

Follows(from, to) ==
    \/ from = "QUOTED" /\ to \in {"OPS_REVIEW", "CANCELLED", "EXPIRED"}
    \/ from = "OPS_REVIEW" /\ to \in {"CANCELLED", "EXPIRED"}

(* The initiator expires a quote that has run out, and nothing else of it. *)
MayTransition(to) == quote # <<>> /\ Follows(Latest, to) /\ (to = "EXPIRED" <=> over)

SqliteTransition(to) ==
    /\ store = "sqlite" /\ MayTransition(to)
    /\ quote' = Append(quote, to)
    /\ UNCHANGED <<store, supply, over, req>>

D1ReadTransition(r, to) ==
    /\ store = "d1" /\ req[r] = NoRequest /\ MayTransition(to)
    /\ req' = [req EXCEPT ![r] = [step |-> "post", to |-> to, version |-> Len(quote)]]
    /\ UNCHANGED <<store, supply, quote, over>>

(* The batch repeats the test of the clock against the time of the reads;  *)
(* the trigger of the table wants the next version and a legal successor.  *)
D1PostTransition(r) ==
    /\ req[r].step = "post"
    /\ quote' = IF Len(quote) = req[r].version /\ Follows(Latest, req[r].to)
                THEN Append(quote, req[r].to) ELSE quote
    /\ req' = [req EXCEPT ![r] = NoRequest]
    /\ UNCHANGED <<store, supply, over>>

-----------------------------------------------------------------------------
LotsNext ==
    \/ \E result \in {"PASS", "FAIL"}, until \in Validities : CreateVerification(result, until)
    \/ \E l \in Lots, w \in Windows, run \in DOMAIN runs : CreateCapacityLot(l, w, run)
    \/ \E l \in Lots : CreateListing(l) \/ CreateSwapQuote(l)
    \/ \E l \in Lots, k \in Withdrawals : WithdrawCapacityLot(l, k)
    \/ QuoteRunsOut
    \/ \E to \in {"OPS_REVIEW", "CANCELLED", "EXPIRED"} :
           SqliteTransition(to) \/ \E r \in Requests : D1ReadTransition(r, to)
    \/ \E r \in Requests : D1PostTransition(r)

LotsSpec == LotsInit /\ [][LotsNext]_lotVars

-----------------------------------------------------------------------------
(* The types of the rows; a lot changes once after it is cut.              *)
LotsTypeOK ==
    /\ store \in {"sqlite", "d1"}
    /\ resource \in {"DECLARED", "VERIFIED", "REJECTED"}
    /\ runs \in Seq([result : {"PASS", "FAIL"}, until : Nat])
    /\ lots \in [Lots -> {NoLot} \cup
                         [status : {"READY", "LISTED", "WITHDRAWN"}, version : {1, 2},
                          listings : Nat, win : Windows, run : Nat \ {0}]]
    /\ moves \in [Lots -> SUBSET ({"issued"} \cup Withdrawals)]
    /\ withdrawals \in [Withdrawals -> {NoWithdrawal} \cup [lot : Lots, expected : Nat \ {0}]]
    /\ quote \in Seq({"QUOTED", "OPS_REVIEW", "CANCELLED", "EXPIRED"})
    /\ over \in BOOLEAN
    /\ req \in [Requests -> {NoRequest} \cup
                            [step : {"post"}, version : Nat \ {0},
                             to : {"OPS_REVIEW", "CANCELLED", "EXPIRED"}]]

(* At no hour do the lots that stand promise more than the resource has,   *)
(* whichever store summed them and whatever was withdrawn in between, and  *)
(* each rests on a passed run that covers its whole window.                *)
LotsFit ==
    /\ \A w \in Windows : \A p \in w.start .. w.end - 1 : UnitsAt(Standing, p) <= TotalUnits
    /\ \A l \in DOMAIN Standing :
           runs[lots[l].run].result = "PASS" /\ runs[lots[l].run].until >= lots[l].win.end

(* A withdrawal that is asked for again finds what its replay insists on:  *)
(* the lot withdrawn at the version the supplier saw, issued and taken     *)
(* back and nothing else, and never listed or withdrawn by another key.    *)
WithdrawalReplays ==
    /\ \A k \in Withdrawals : withdrawals[k] # NoWithdrawal =>
           LET l == withdrawals[k].lot IN
           /\ lots[l].status = "WITHDRAWN" /\ lots[l].version = withdrawals[k].expected + 1
           /\ moves[l] = {"issued", k} /\ lots[l].listings = 0
    /\ \A l \in Lots : lots[l].status = "LISTED" => moves[l] = {"issued"} /\ lots[l].listings = 1

(* mapSwapQuote: a quote nobody closed is shown as expired in time.        *)
Shown ==
    IF quote = <<>> THEN "NONE"
    ELSE IF over /\ Latest \in {"QUOTED", "OPS_REVIEW"} THEN "EXPIRED" ELSE Latest

(* A quote that was shown as over is never shown as open again, and a      *)
(* cancelled one stays cancelled, though a review that D1 judged in time   *)
(* may be entered when the quote is over.                                  *)
StaysOver ==
    /\ Shown \in {"CANCELLED", "EXPIRED"} => Shown' \in {"CANCELLED", "EXPIRED"}
    /\ Shown = "CANCELLED" => Shown' = "CANCELLED"
=============================================================================
