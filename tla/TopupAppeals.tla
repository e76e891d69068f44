---------------------------- MODULE TopupAppeals ----------------------------
(* The question a buyer raises about a top-up that was charged and not     *)
(* credited (card-hour-store-core.ts): one of a top-up order, moved by     *)
(* administrators who each compare the version they saw, with an event for *)
(* every step and a mark of the version the buyer has been shown.          *)
EXTENDS Integers, Sequences, SequencesExt

CONSTANTS
    Questioned,\* top-up orders
    Clerks,   \* administrators, each with a request in flight
    Filings   \* requests of the buyer in flight

ASSUME TopupAppealsAssumption == "none" \notin Questioned

VARIABLES
    bill,    \* card_hour_topup_orders, the status; see TopupReconciliation
    claim,    \* card_hour_topup_appeals
    journal,  \* card_hour_topup_appeal_events of an order
    clerk,    \* what an administrator is about to write
    filing    \* what the buyer is about to file

claimVars == <<bill, claim, journal, clerk, filing>>

NoClaim  == [status |-> "NONE", reason |-> "none", assigned |-> "none", version |-> 0, seen |-> 0]
NoDraft  == [o |-> "none", reason |-> "none"]
NoDesk   == [o |-> "none", action |-> "none", version |-> 0]

ClaimInit ==
    /\ bill = [o \in Questioned |-> "PENDING"]
    /\ claim = [o \in Questioned |-> NoClaim]
    /\ journal = [o \in Questioned |-> <<>>]
    /\ clerk = [a \in Clerks |-> NoDesk]
    /\ filing = [f \in Filings |-> NoDraft]

-----------------------------------------------------------------------------
(* The order moves on meanwhile: TopupReconciliation.                      *)
TopupMoves(o, to) ==
    /\ <<bill[o], to>> \in {<<"PENDING", "CREDITED">>, <<"PENDING", "CLOSED">>,
                             <<"PENDING", "RECONCILIATION_REQUIRED">>, <<"CLOSED", "CREDITED">>,
                             <<"RECONCILIATION_REQUIRED", "CREDITED">>}
    /\ bill' = [bill EXCEPT ![o] = to]
    /\ UNCHANGED <<claim, journal, clerk, filing>>

ReasonOf == [PENDING |-> "PENDING_TIMEOUT", CLOSED |-> "CLOSED_BUT_CHARGED",
             RECONCILIATION_REQUIRED |-> "RECONCILIATION_REQUIRED"]

(* createTopupAppeal: the reason is that of the order as it was read, the  *)
(* order having expired when it was pending; there is one of an order.     *)
ReadTopup(f, o) ==
    /\ filing[f] = NoDraft
    /\ claim[o] = NoClaim
    /\ bill[o] \in DOMAIN ReasonOf
    /\ filing' = [filing EXCEPT ![f] = [o |-> o, reason |-> ReasonOf[bill[o]]]]
    /\ UNCHANGED <<bill, claim, journal, clerk>>

File(f, o) ==
    /\ filing[f].o = o
    /\ claim[o] = NoClaim
    /\ claim' = [claim EXCEPT ![o] = [NoClaim EXCEPT !.status = "OPEN", !.reason = filing[f].reason, !.version = 1]]
    /\ journal' = [journal EXCEPT ![o] = Append(@, "CREATE")]
    /\ filing' = [filing EXCEPT ![f] = NoDraft]
    /\ UNCHANGED <<bill, clerk>>

GiveUp(f) ==
    /\ filing[f] # NoDraft
    /\ filing' = [filing EXCEPT ![f] = NoDraft]
    /\ UNCHANGED <<bill, claim, journal, clerk>>

(* acknowledgeTopupAppeal: the version there is counts as seen.            *)
Acknowledge(o) ==
    /\ claim[o] # NoClaim
    /\ claim' = [claim EXCEPT ![o].seen = claim[o].version]
    /\ UNCHANGED <<bill, journal, clerk, filing>>

-----------------------------------------------------------------------------
Steps == [OPEN |-> "START_REVIEW", UNDER_REVIEW |-> "RESOLVE", RESOLVED |-> "CLOSE"]
StepTo == [START_REVIEW |-> "UNDER_REVIEW", RESOLVE |-> "RESOLVED", CLOSE |-> "CLOSED"]

(* transitionTopupAppeal.                                                  *)
ReadClaim(a, o) ==
    /\ clerk[a] = NoDesk
    /\ claim[o].status \in DOMAIN Steps
    /\ clerk' = [clerk EXCEPT ![a] = [o |-> o, action |-> Steps[claim[o].status], version |-> claim[o].version]]
    /\ UNCHANGED <<bill, claim, journal, filing>>

Step(a, o) ==
    /\ clerk[a].o = o
    /\ claim[o].version = clerk[a].version
    /\ claim' = [claim EXCEPT ![o].status = StepTo[clerk[a].action], ![o].version = @ + 1,
                              ![o].assigned = IF @ = "none" THEN a ELSE @]
    /\ journal' = [journal EXCEPT ![o] = Append(@, clerk[a].action)]
    /\ clerk' = [clerk EXCEPT ![a] = NoDesk]
    /\ UNCHANGED <<bill, filing>>

Rest(a) ==
    /\ clerk[a] # NoDesk
    /\ clerk' = [clerk EXCEPT ![a] = NoDesk]
    /\ UNCHANGED <<bill, claim, journal, filing>>

ClaimNext ==
    \/ \E o \in Questioned :
          \/ \E to \in {"CREDITED", "CLOSED", "RECONCILIATION_REQUIRED"} : TopupMoves(o, to)
          \/ \E f \in Filings : ReadTopup(f, o) \/ File(f, o)
          \/ Acknowledge(o)
          \/ \E a \in Clerks : ReadClaim(a, o) \/ Step(a, o)
    \/ \E f \in Filings : GiveUp(f)
    \/ \E a \in Clerks : Rest(a)

ClaimSpec == ClaimInit /\ [][ClaimNext]_claimVars

-----------------------------------------------------------------------------
Path == <<"CREATE", "START_REVIEW", "RESOLVE", "CLOSE">>

ClaimTypeOK ==
    /\ \A o \in Questioned : claim[o].status \in {"NONE", "OPEN", "UNDER_REVIEW", "RESOLVED", "CLOSED"}
    /\ \A o \in Questioned : claim[o].assigned \in Clerks \cup {"none"}

(* What is on record of an appeal is one path from its opening, each step  *)
(* taken once, its status is where the record ends, and the version shown  *)
(* to the buyer is one there has been.                                     *)
ClaimIsOnePath ==
    \A o \in Questioned :
        /\ IsPrefix(journal[o], Path) /\ Len(journal[o]) = claim[o].version
        /\ claim[o].status = <<"NONE", "OPEN", "UNDER_REVIEW", "RESOLVED", "CLOSED">>[Len(journal[o]) + 1]
        /\ claim[o].seen <= claim[o].version

(* An appeal is about a top-up that was not credited when it was filed.    *)
(* The code does not keep this one, the order being read before: see       *)
(* "Disagreements" in the README.                                          *)
ClaimIsFiledForUncredited ==
    \A o \in Questioned : claim[o] = NoClaim /\ claim'[o] # NoClaim => bill[o] # "CREDITED"
=============================================================================
