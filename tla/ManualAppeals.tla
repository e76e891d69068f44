--------------------------- MODULE ManualAppeals ---------------------------
(* The appeals of a purchase that is delivered by hand, and the refunds    *)
(* paid outside the platform that they recommend (admin-store-core.ts): a  *)
(* buyer opens one case at a time, administrators move it, and a refund is *)
(* recorded by one of them, proved, and verified by another who looked at  *)
(* the proof. Every write names the version of the row its writer saw; two *)
(* administrators may work on the same row, each from what he saw.         *)
EXTENDS Integers, FiniteSets

CONSTANTS
    Disputed,   \* purchases with an intake and a snapshot
    MaxCases,   \* bound: cases of one purchase
    Officers,   \* administrators
    Counters,   \* requests in flight
    Evidence,   \* proofs of an offline payment, scanned safe
    NoEvidence

ASSUME ManualAppealsAssumption == MaxCases \in Nat /\ NoEvidence \notin Evidence

VARIABLES
    appeal,   \* admin_manual_appeal_cases, the n-th of a purchase
    offline,  \* admin_manual_appeal_offline_refunds, one of a case
    counter   \* requests in flight

appealVars == <<appeal, offline, counter>>

Numbers   == 1..MaxCases
NoCase    == [status |-> "NONE", outcome |-> "NONE"]
NoOffline == [status |-> "NONE", by |-> "none", verifier |-> "none", proof |-> NoEvidence, saw |-> NoEvidence]
NoBusiness == [act |-> "none"]

AppealInit ==
    /\ appeal = [d \in Disputed |-> [n \in Numbers |-> NoCase]]
    /\ offline = [d \in Disputed |-> [n \in Numbers |-> NoOffline]]
    /\ counter = [c \in Counters |-> NoBusiness]

-----------------------------------------------------------------------------
(* APPEAL_TRANSITIONS and OFFLINE_TRANSITIONS.                             *)
AppealMoves == {<<"OPEN", "TRIAGED">>} \cup
    ({"TRIAGED"} \X {"AWAITING_BUYER", "AWAITING_SUPPLIER", "UNDER_REVIEW", "RESOLUTION_PROPOSED"}) \cup
    ({"AWAITING_BUYER"} \X {"UNDER_REVIEW", "AWAITING_SUPPLIER"}) \cup
    ({"AWAITING_SUPPLIER"} \X {"UNDER_REVIEW", "AWAITING_BUYER"}) \cup
    ({"UNDER_REVIEW"} \X {"AWAITING_BUYER", "AWAITING_SUPPLIER", "RESOLUTION_PROPOSED"}) \cup
    ({"RESOLUTION_PROPOSED"} \X {"UNDER_REVIEW", "RESOLVED"}) \cup
    ({"RESOLVED"} \X {"CLOSED", "UNDER_REVIEW"})

OfflineMoves ==
    ({"APPROVED_FOR_OFFLINE_HANDLING"} \X {"OFFLINE_PROCESSING", "CANCELLED"}) \cup
    ({"OFFLINE_PROCESSING"} \X {"PROOF_SUBMITTED", "FAILED", "CANCELLED"}) \cup
    ({"PROOF_SUBMITTED"} \X {"OFFLINE_PROCESSING", "FAILED"})

(* A row is written: who saw the version before has lost.                  *)
Outdated(row, d, n) == [c \in Counters |->
    IF counter[c].act # "none" /\ counter[c].row = row /\ counter[c].d = d /\ counter[c].n = n
    THEN [counter[c] EXCEPT !.fresh = FALSE] ELSE counter[c]]

Look(c, act, d, n, row, to, by) ==
    /\ counter[c] = NoBusiness
    /\ counter' = [counter EXCEPT ![c] = [act |-> act, d |-> d, n |-> n, row |-> row, to |-> to,
                                          by |-> by, saw |-> offline[d][n].proof, fresh |-> TRUE]]
    /\ UNCHANGED <<appeal, offline>>

About(c, act, d, n) == counter[c].act = act /\ counter[c].d = d /\ counter[c].n = n
Settle(c, row, d, n) == counter' = [Outdated(row, d, n) EXCEPT ![c] = NoBusiness]

-----------------------------------------------------------------------------
IsOpen(k) == k.status \notin {"NONE", "CLOSED"}

(* createMemberManualAppeal: one that is not CLOSED at a time, by the      *)
(* unique index of the table.                                              *)
OpenAppeal(d, n) ==
    /\ appeal[d][n] = NoCase
    /\ \A m \in Numbers : m < n => appeal[d][m].status = "CLOSED"
    /\ appeal' = [appeal EXCEPT ![d][n].status = "OPEN"]
    /\ UNCHANGED <<offline, counter>>

(* addAppealMessage and assignAdminManualAppeal: the version grows.        *)
Remark(d, n) ==
    /\ IsOpen(appeal[d][n])
    /\ counter' = Outdated("appeal", d, n)
    /\ UNCHANGED <<appeal, offline>>

OutcomesOf(from, to, old) ==
    CASE to = "RESOLUTION_PROPOSED" -> {"OFFLINE_REFUND_RECOMMENDED", "OTHER"}
      [] to = "UNDER_REVIEW" /\ from \in {"RESOLUTION_PROPOSED", "RESOLVED"} -> {"NONE"}
      [] OTHER -> {old}

(* transitionAppeal.                                                       *)
ReadTransition(c, d, n, to) ==
    /\ <<appeal[d][n].status, to>> \in AppealMoves
    /\ Look(c, "transition", d, n, "appeal", to, "none")

Transition(c, d, n, outcome) ==
    /\ About(c, "transition", d, n)
    /\ counter[c].fresh
    /\ outcome \in OutcomesOf(appeal[d][n].status, counter[c].to, appeal[d][n].outcome)
    /\ appeal' = [appeal EXCEPT ![d][n] = [status |-> counter[c].to, outcome |-> outcome]]
    /\ Settle(c, "appeal", d, n)
    /\ UNCHANGED offline

-----------------------------------------------------------------------------
(* createOfflineRefund: it writes the case too, and there is one record of *)
(* a case and a financial reference.                                       *)
ReadRecord(c, d, n, a) ==
    /\ appeal[d][n].status \in {"RESOLUTION_PROPOSED", "RESOLVED", "CLOSED"}
    /\ appeal[d][n].outcome = "OFFLINE_REFUND_RECOMMENDED"
    /\ Look(c, "record", d, n, "appeal", "none", a)

Record(c, d, n) ==
    /\ About(c, "record", d, n)
    /\ counter[c].fresh
    /\ offline[d][n] = NoOffline
    /\ offline' = [offline EXCEPT ![d][n].status = "APPROVED_FOR_OFFLINE_HANDLING",
                                  ![d][n].by = counter[c].by]
    /\ Settle(c, "appeal", d, n)
    /\ UNCHANGED appeal

(* transitionOfflineRefund: a proof may be replaced after it was returned. *)
ReadHandling(c, d, n, to) ==
    /\ <<offline[d][n].status, to>> \in OfflineMoves
    /\ Look(c, "handle", d, n, "offline", to, "none")

Handle(c, d, n, proof) ==
    /\ About(c, "handle", d, n)
    /\ counter[c].fresh
    /\ IF counter[c].to = "PROOF_SUBMITTED" THEN proof \in Evidence ELSE proof = offline[d][n].proof
    /\ offline' = [offline EXCEPT ![d][n].status = counter[c].to, ![d][n].proof = proof]
    /\ Settle(c, "offline", d, n)
    /\ UNCHANGED appeal

(* verifyOfflineRefund, by someone else than who recorded the refund.      *)
ReadVerify(c, d, n, a) ==
    /\ offline[d][n].status = "PROOF_SUBMITTED"
    /\ offline[d][n].by # a
    /\ Look(c, "verify", d, n, "offline", "none", a)

(* Mutant: the record is verified by its status, not by its version.       *)
VerifyByStatus(c, d, n) ==
    /\ About(c, "verify", d, n)
    /\ offline[d][n].status = "PROOF_SUBMITTED"
    /\ offline' = [offline EXCEPT ![d][n].status = "INDEPENDENTLY_VERIFIED",
                                  ![d][n].verifier = counter[c].by, ![d][n].saw = counter[c].saw]
    /\ Settle(c, "offline", d, n)
    /\ UNCHANGED appeal

Verify(c, d, n) ==
    /\ About(c, "verify", d, n)
    /\ counter[c].fresh
    /\ offline' = [offline EXCEPT ![d][n].status = "INDEPENDENTLY_VERIFIED",
                                  ![d][n].verifier = counter[c].by, ![d][n].saw = counter[c].saw]
    /\ Settle(c, "offline", d, n)
    /\ UNCHANGED appeal

Withdraw(c) ==
    /\ counter[c] # NoBusiness
    /\ counter' = [counter EXCEPT ![c] = NoBusiness]
    /\ UNCHANGED <<appeal, offline>>

-----------------------------------------------------------------------------
Open == {"OPEN", "TRIAGED", "AWAITING_BUYER", "AWAITING_SUPPLIER", "UNDER_REVIEW"}
Ended == {"INDEPENDENTLY_VERIFIED", "FAILED", "CANCELLED"}
OfflineOpen == {"APPROVED_FOR_OFFLINE_HANDLING", "OFFLINE_PROCESSING", "PROOF_SUBMITTED"}
Resolutions == {"NONE", "OFFLINE_REFUND_RECOMMENDED", "OTHER"}

AppealNext ==
    \/ \E d \in Disputed, n \in Numbers : OpenAppeal(d, n) \/ Remark(d, n)
    \/ \E c \in Counters, d \in Disputed, n \in Numbers :
          \/ \E to \in Open \cup {"RESOLUTION_PROPOSED", "RESOLVED", "CLOSED"} : ReadTransition(c, d, n, to)
          \/ \E outcome \in Resolutions : Transition(c, d, n, outcome)
          \/ \E a \in Officers : ReadRecord(c, d, n, a) \/ ReadVerify(c, d, n, a)
          \/ Record(c, d, n)
          \/ \E to \in OfflineOpen \cup Ended : ReadHandling(c, d, n, to)
          \/ \E proof \in Evidence \cup {NoEvidence} : Handle(c, d, n, proof)
          \/ Verify(c, d, n)
    \/ \E c \in Counters : Withdraw(c)

AppealSpec == AppealInit /\ [][AppealNext]_appealVars

-----------------------------------------------------------------------------
AppealTypeOK ==
    /\ appeal \in [Disputed -> [Numbers -> [status: Open \cup {"NONE", "RESOLUTION_PROPOSED", "RESOLVED", "CLOSED"},
                                            outcome: Resolutions]]]
    /\ offline \in [Disputed -> [Numbers -> [status: OfflineOpen \cup Ended \cup {"NONE"},
                       by: Officers \cup {"none"}, verifier: Officers \cup {"none"},
                       proof: Evidence \cup {NoEvidence}, saw: Evidence \cup {NoEvidence}]]]
    /\ \A c \in Counters : counter[c] # NoBusiness =>
           counter[c].act \in {"transition", "record", "handle", "verify"}

(* A purchase has one open case, and a case says how it was resolved       *)
(* exactly when it is: the unique index and the CHECK of the table are     *)
(* never what stops a transition.                                          *)
CasesAreOrderly ==
    \A d \in Disputed :
        /\ Cardinality({n \in Numbers : IsOpen(appeal[d][n])}) <= 1
        /\ \A n \in Numbers :
               appeal[d][n].outcome # "NONE" <=>
                   appeal[d][n].status \in {"RESOLUTION_PROPOSED", "RESOLVED", "CLOSED"}

(* A refund that counts as verified was recorded by one administrator and  *)
(* verified by another, on the proof that is on the record, not on one     *)
(* that was returned and replaced while he looked at it.                   *)
RefundIsVerified ==
    \A d \in Disputed, n \in Numbers :
        offline[d][n].status = "INDEPENDENTLY_VERIFIED" =>
            /\ offline[d][n].verifier \in Officers \ {offline[d][n].by}
            /\ offline[d][n].proof \in Evidence
            /\ offline[d][n].saw = offline[d][n].proof

(* A case that is closed and a refund that has ended stay what they are.   *)
CasesStayClosed ==
    \A d \in Disputed, n \in Numbers :
        /\ appeal[d][n].status = "CLOSED" => appeal'[d][n] = appeal[d][n]
        /\ offline[d][n].status \in Ended => offline'[d][n] = offline[d][n]

(* A refund is carried on only while its case recommends it. The code does *)
(* not keep this one: see "Disagreements" in the README.                   *)
RefundIsStillRecommended ==
    \A d \in Disputed, n \in Numbers :
        offline[d][n].status \in OfflineOpen => appeal[d][n].outcome = "OFFLINE_REFUND_RECOMMENDED"
=============================================================================
