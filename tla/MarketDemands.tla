--------------------------- MODULE MarketDemands ---------------------------
(* What buyers ask for and suppliers quote (marketplace-store-d1.ts,        *)
(* marketplace-store-sqlite.ts): plain demands, catalog demands that stay   *)
(* staged until their papers are complete, the demand the platform curates  *)
(* anew every week, quotes, and the maintenance that prunes what is old.    *)
(*                                                                          *)
(* D1 reads and then posts a batch; SQLite does both in one transaction,    *)
(* which is the D1 handler with nothing in between. A visit is one request, *)
(* or one maintenance, which every request runs first when it is due. Time  *)
(* is counted in weeks: what is curated changes, and a visit may still      *)
(* carry the week it began in. A visit may end between any two of its steps.*)
EXTENDS Integers, FiniteSets

CONSTANTS
    Demands,     \* ids of demands; a new demand takes one nobody ever had
    Curated,     \* the id of the curated demand
    PlainKeys,   \* idempotency keys of plain demands
    CatalogKeys, \* idempotency keys of catalog purchase intents
    QuoteKeys,   \* idempotency keys of quotes
    Visits,      \* visits under way at once
    Terms,       \* weeks a quote may be valid for
    MaxDemands, MaxQuotes, QuotesPerDemand, \* capacity limits
    Retention,   \* weeks a row is kept
    LastWeek     \* bound

ASSUME DemandsAssumption ==
    /\ Curated \in Demands /\ Terms \subseteq Nat \ {0} /\ PlainKeys \cap CatalogKeys = {}
    /\ {MaxDemands, MaxQuotes, QuotesPerDemand, Retention, LastWeek} \subseteq Nat
    /\ Retention >= 2 /\ LastWeek >= 1 /\ IsFiniteSet(Demands) /\ IsFiniteSet(QuoteKeys)
    /\ {"none", "curated"} \cap (PlainKeys \cup CatalogKeys) = {} /\ "none" \notin Demands

VARIABLES
    week,    \* the clock
    curated, \* the week of the last upsert of the curated demand
    issued,  \* ids given out so far
    staged,  \* marketplace_request_staging_v1
    market,  \* marketplace_requests_v2
    offers,  \* marketplace_quotes_v2 by key
    papers,  \* the receipts of a key: which demand its papers name
    visit    \* local state of the visits

demandVars == <<week, curated, issued, staged, market, offers, papers, visit>>

NoRow   == [key |-> "none"]
NoOffer == [demand |-> "none"]
NoPaper == "none"
NoVisit == [step |-> "none"]
Papers  == {"bound", "delivery", "snapshot"}
BuyerKeys == PlainKeys \cup CatalogKeys

NewRow(k, rev, at) == [key |-> k, rev |-> rev, version |-> 1, quoted |-> FALSE, updated |-> at]

DemandInit ==
    /\ week = 1 /\ curated = 1
    /\ issued = {Curated}
    /\ staged = [d \in Demands |-> NoRow]
    /\ market = [d \in Demands |-> IF d = Curated THEN NewRow("curated", 1, 1) ELSE NoRow]
    /\ offers = [q \in QuoteKeys |-> NoOffer]
    /\ papers = [k \in BuyerKeys |-> [p \in Papers |-> NoPaper]]
    /\ visit = [v \in Visits |-> NoVisit]

Later(a, b)   == IF a > b THEN a ELSE b
Earlier(a, b) == IF a < b THEN a ELSE b
Steps(v, r)   == visit' = [visit EXCEPT ![v] = r]
Tables == <<issued, staged, market, offers, papers>>

(* A visit takes far less than a week.                                     *)
WeekPasses ==
    /\ week < LastWeek
    /\ \A v \in Visits : visit[v] # NoVisit => visit[v].at = week
    /\ week' = week + 1
    /\ UNCHANGED <<curated, Tables, visit>>

VisitEnds(v) ==
    /\ visit[v] # NoVisit
    /\ Steps(v, NoVisit)
    /\ UNCHANGED <<week, curated, Tables>>

(* A request begins after maintenance that is minutes old at most.         *)
Maintained(v) == visit[v] = NoVisit /\ curated >= week - 1

-----------------------------------------------------------------------------
(* Maintenance: one batch prunes, another brings the curated demand up to  *)
(* date and supersedes the quotes of what it was before.                   *)

Old(at) == at < week - Retention
Kept(table) == [d \in Demands |-> IF table[d] # NoRow /\ Old(table[d].updated) THEN NoRow ELSE table[d]]

(* A quote refers to its demand: the batch fails if a demand goes alone.   *)
Prune(v) ==
    /\ visit[v] = NoVisit
    /\ offers' = [q \in QuoteKeys |->
                     IF offers[q] # NoOffer /\ Old(offers[q].created) THEN NoOffer ELSE offers[q]]
    /\ market' = Kept(market)
    /\ staged' = Kept(staged)
    /\ \A q \in QuoteKeys : offers'[q] # NoOffer => market'[offers[q].demand] # NoRow
    /\ Steps(v, [step |-> "upsert", at |-> week])
    /\ UNCHANGED <<week, curated, issued, papers>>

Revised(row, rev) ==
    IF row = NoRow THEN NewRow("curated", rev, rev)
    ELSE IF row.rev = rev THEN row
    ELSE [row EXCEPT !.rev = rev, !.version = @ + 1, !.quoted = FALSE, !.updated = Later(@, rev)]

(* Mutant: the quotes of the earlier revision are left as they are.        *)
SupersededNever(offer, rev) == offer
Superseded(offer, rev) ==
    IF offer.demand = Curated /\ ~offer.superseded /\ offer.rev # rev
    THEN [offer EXCEPT !.superseded = TRUE, !.until = Earlier(@, rev)] ELSE offer

UpsertCurated(v) ==
    /\ visit[v].step = "upsert"
    /\ \E rev \in visit[v].at .. week :
          /\ market' = [market EXCEPT ![Curated] = Revised(@, rev)]
          /\ offers' = [q \in QuoteKeys |-> IF offers[q] = NoOffer THEN NoOffer
                                            ELSE Superseded(offers[q], rev)]
          /\ curated' = rev
    /\ Steps(v, NoVisit)
    /\ UNCHANGED <<week, issued, staged, papers>>

-----------------------------------------------------------------------------
(* POST requests and POST catalog-purchase-intents.                        *)

RowsOf(k) == {d \in Demands : staged[d].key = k \/ market[d].key = k}
Held == Cardinality({d \in Demands \ {Curated} : market[d] # NoRow})
        + Cardinality({d \in Demands : staged[d] # NoRow})

AskDemand(v, k) ==
    /\ Maintained(v)
    /\ \/ RowsOf(k) = {} /\ Steps(v, [step |-> "post", at |-> week, k |-> k])
       \/ \E d \in RowsOf(k) : Steps(v, [step |-> "bound", at |-> week, k |-> k, d |-> d])
    /\ UNCHANGED <<week, curated, Tables>>

Insert(v, k, d) ==
    LET row == NewRow(k, 0, visit[v].at)
    IN /\ issued' = issued \cup {d}
       /\ IF k \in CatalogKeys THEN staged' = [staged EXCEPT ![d] = row] /\ UNCHANGED market
                               ELSE market' = [market EXCEPT ![d] = row] /\ UNCHANGED staged

(* The keys of a buyer are unique in either table, and triggers look at    *)
(* the other; who loses the race is answered with the row of the winner.   *)
PostDemand(v) ==
    /\ visit[v].step = "post"
    /\ LET k == visit[v].k
       IN \/ /\ RowsOf(k) = {} /\ Held < MaxDemands
             /\ \E d \in Demands \ issued :
                   /\ Insert(v, k, d)
                   /\ Steps(v, [step |-> "bound", at |-> visit[v].at, k |-> k, d |-> d])
          \/ \E d \in RowsOf(k) :
                /\ Steps(v, [step |-> "bound", at |-> visit[v].at, k |-> k, d |-> d])
                /\ UNCHANGED <<issued, staged, market>>
    /\ UNCHANGED <<week, curated, offers, papers>>

Following(k, paper) ==
    IF k \in PlainKeys THEN "none"
    ELSE CASE paper = "bound" -> "delivery" [] paper = "delivery" -> "snapshot"
           [] paper = "snapshot" -> "publish"

(* bindEntityOrganization, recordManualDeliveryIntake and                  *)
(* recordCatalogPurchaseIntentSnapshot: the receipt of a key answers for   *)
(* the demand it was written for, and refuses any other.                   *)
FilePaper(v) ==
    /\ visit[v].step \in Papers
    /\ LET k     == visit[v].k
           d     == visit[v].d
           paper == visit[v].step
       IN /\ papers[k][paper] \in {NoPaper, d}
          /\ paper = "snapshot" => papers[k]["bound"] = d
          /\ papers' = [papers EXCEPT ![k][paper] = d]
          /\ Steps(v, IF Following(k, paper) = "none" THEN NoVisit
                      ELSE [visit[v] EXCEPT !.step = Following(k, paper)])
    /\ UNCHANGED <<week, curated, issued, staged, market, offers>>

(* publishRequest                                                          *)
Publish(v) ==
    /\ visit[v].step = "publish"
    /\ LET d == visit[v].d
       IN \/ market[d] # NoRow /\ UNCHANGED <<staged, market>>
          \/ /\ market[d] = NoRow /\ staged[d] # NoRow
             /\ market' = [market EXCEPT ![d] = [staged[d] EXCEPT !.version = @ + 1, !.updated = week]]
             /\ staged' = [staged EXCEPT ![d] = NoRow]
    /\ Steps(v, NoVisit)
    /\ UNCHANGED <<week, curated, issued, offers, papers>>

-----------------------------------------------------------------------------
(* POST quotes                                                             *)

Live(q, at) == offers[q] # NoOffer /\ ~offers[q].superseded /\ offers[q].until > at
LiveFor(d, at) == {q \in QuoteKeys : Live(q, at) /\ offers[q].demand = d}

ReadForQuote(v, q, d) ==
    /\ Maintained(v) /\ offers[q] = NoOffer /\ market[d] # NoRow
    /\ Steps(v, [step |-> "quote", at |-> week, q |-> q, d |-> d,
                rev |-> market[d].rev, version |-> market[d].version])
    /\ UNCHANGED <<week, curated, Tables>>

(* The batch wants the version that was read, and writes the revision that *)
(* was read.                                                               *)
PostQuote(v, term) ==
    /\ visit[v].step = "quote"
    /\ LET q   == visit[v].q
           d   == visit[v].d
           at  == visit[v].at
       IN /\ offers[q] = NoOffer
          /\ market[d] # NoRow /\ market[d].version = visit[v].version
          /\ Cardinality(LiveFor(d, at)) < QuotesPerDemand
          /\ Cardinality({r \in QuoteKeys : offers[r] # NoOffer}) < MaxQuotes
          /\ offers' = [offers EXCEPT ![q] = [demand |-> d, rev |-> visit[v].rev, created |-> at,
                                              until |-> at + term, superseded |-> FALSE]]
          /\ market' = [market EXCEPT ![d].quoted = TRUE, ![d].version = @ + 1,
                                      ![d].updated = Later(@, at)]
    /\ Steps(v, NoVisit)
    /\ UNCHANGED <<week, curated, issued, staged, papers>>

-----------------------------------------------------------------------------
DemandNext ==
    \/ WeekPasses
    \/ \E v \in Visits : VisitEnds(v)
    \/ \E v \in Visits : Prune(v)
    \/ \E v \in Visits : UpsertCurated(v)
    \/ \E v \in Visits, k \in BuyerKeys : AskDemand(v, k)
    \/ \E v \in Visits : PostDemand(v)
    \/ \E v \in Visits : FilePaper(v)
    \/ \E v \in Visits : Publish(v)
    \/ \E v \in Visits, q \in QuoteKeys, d \in Demands : ReadForQuote(v, q, d)
    \/ \E v \in Visits, term \in Terms : PostQuote(v, term)

DemandSpec == DemandInit /\ [][DemandNext]_demandVars

-----------------------------------------------------------------------------
Row == [key : BuyerKeys \cup {"curated"}, rev : Nat, version : Nat \ {0}, quoted : BOOLEAN, updated : Nat]
Offer == [demand : Demands, rev : Nat, created : Nat, until : Nat, superseded : BOOLEAN]

(* The types of the tables.                                                *)
DemandTypeOK ==
    /\ week \in 1 .. LastWeek /\ curated \in 1 .. week
    /\ issued \subseteq Demands
    /\ staged \in [Demands -> Row \cup {NoRow}]
    /\ market \in [Demands -> Row \cup {NoRow}]
    /\ offers \in [QuoteKeys -> Offer \cup {NoOffer}]
    /\ papers \in [BuyerKeys -> [Papers -> Demands \cup {NoPaper}]]

(* A key never has two demands, staged or public; a catalog demand that is *)
(* public has all its papers, and they name it.                            *)
DemandsAreComplete ==
    /\ \A k \in BuyerKeys : Cardinality(RowsOf(k)) <= 1
    /\ \A d \in Demands :
          /\ staged[d] = NoRow \/ market[d] = NoRow
          /\ market[d].key \in CatalogKeys => \A p \in Papers : papers[market[d].key][p] = d
    /\ Held <= MaxDemands

(* However maintenance, the change of the week and other suppliers come in *)
(* between: a live quote is for the demand as it is shown now, which says  *)
(* that it is quoted; neither limit is exceeded; and a quote is never      *)
(* younger than the last change of its demand, so that pruning never takes *)
(* a demand away from under its quotes, which would fail every request.    *)
QuotesAreCurrent ==
    /\ \A q \in QuoteKeys : Live(q, week) =>
          LET row == market[offers[q].demand]
          IN row # NoRow /\ row.rev = offers[q].rev /\ row.quoted
    /\ \A d \in Demands : Cardinality(LiveFor(d, week)) <= QuotesPerDemand
    /\ Cardinality({q \in QuoteKeys : offers[q] # NoOffer}) <= MaxQuotes
    /\ \A q \in QuoteKeys : offers[q] # NoOffer =>
          LET row == market[offers[q].demand] IN row # NoRow /\ offers[q].created <= row.updated

(* What was public is never staged again, a demand that is gone does not   *)
(* come back, and a quote that is superseded or over is not revived.       *)
DemandsOnlyAdvance ==
    /\ \A d \in Demands : market[d] # NoRow => staged'[d] = NoRow
    /\ \A d \in issued \ {Curated} :
          staged[d] = NoRow /\ market[d] = NoRow => staged'[d] = NoRow /\ market'[d] = NoRow
    /\ \A q \in QuoteKeys : offers[q] # NoOffer /\ ~Live(q, week) =>
          offers'[q] = NoOffer \/ (offers'[q].created = offers[q].created => ~Live(q, week)')
=============================================================================
