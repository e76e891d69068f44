-------------------------- MODULE BackOfficeProofs --------------------------
(* Proofs about the desks behind the market (MCBackOffice): the card-hours *)
(* of the wallet and the refunds of top-ups, purchases delivered by hand,  *)
(* the cases about them, the questions about top-ups, what is final in all *)
(* of them, and the queue of queries in front of the payment provider.     *)
EXTENDS MCBackOffice, SumTheorems, FiniteSetTheorems, SequenceTheorems, TLAPS

-----------------------------------------------------------------------------
(* The refunds of the wallet.                                              *)
RefundRows == [status: RefundStatus, by: Admins \cup Nobody, decider: Admins \cup Nobody,
               claims: Int, token: Int, old: BOOLEAN, proof: Proofs \cup {NoProof}]
GrantRows == [status: {"NONE", "REQUESTED", "REJECTED", "POSTED"},
              by: Admins \cup Nobody, decider: Admins \cup Nobody]
Executions == {Idle} \cup [step: {"claim"}, t: Topups, sawHold: BOOLEAN, stale: Int]
                     \cup [step: {"execute"}, t: Topups, token: Int]

(* The tables hold rows, and the requests what they are for.               *)
WalletRows ==
    /\ topup \in [Topups -> {"PENDING", "CAPTURED", "CLOSED"}]
    /\ grant \in [Grants -> GrantRows]
    /\ refund \in [Topups -> RefundRows]
    /\ req \in [Requests -> Executions]

(* Who asked is on the row of a refund from the start, who decided from    *)
(* the decision on, and they are two.                                      *)
Agreed(row) ==
    /\ row.status # "NONE" => row.by \in Admins
    /\ row.status \notin {"NONE", "PENDING"} => row.decider \in Admins \ {row.by}

GrantAgreed(row) ==
    /\ row.status # "NONE" => row.by \in Admins
    /\ row.status \notin {"NONE", "REQUESTED"} => row.decider \in Admins \ {row.by}

(* The money of one refund.                                                *)
FollowsMoney(t) ==
    /\ <<"refund-hold", t>> \in ledger <=>
           refund[t].status \in {"PROCESSING", "MANUAL_REQUIRED", "FAILED", "SUCCEEDED"}
    /\ <<"refund-settle", t>> \in ledger <=> refund[t].status = "SUCCEEDED"
    /\ topup[t] = "CLOSED" <=> refund[t].status = "SUCCEEDED"

(* A request that saw the hold of its refund will always find it.          *)
SawRight(r) == req[r].step = "claim" /\ req[r].sawHold => <<"refund-hold", req[r].t>> \in ledger

(* RefundsAreControlled, and what it takes to keep it.                     *)
Controlled ==
    /\ WalletRows
    /\ \A t \in Topups : Agreed(refund[t]) /\ FollowsMoney(t)
    /\ \A g \in Grants : GrantAgreed(grant[g]) /\ (<<"trial-grant", g>> \in ledger => grant[g].status = "POSTED")
    /\ ProofsAreUnique
    /\ \A r \in Requests : SawRight(r)

(* No refund or grant is asked for at first and nothing is entered.        *)
LEMMA ControlledInit == Init => Controlled
<1> SUFFICES ASSUME Init PROVE Controlled
  OBVIOUS
<1>1. WalletRows
  BY DEF Init, WalletRows, RefundRows, GrantRows, Executions, NoRefund, Idle, RefundStatus, Nobody
<1>2. \A t \in Topups : Agreed(refund[t]) /\ FollowsMoney(t)
  BY DEF Init, Agreed, FollowsMoney, NoRefund
<1>3. \A g \in Grants : GrantAgreed(grant[g]) /\ (<<"trial-grant", g>> \in ledger => grant[g].status = "POSTED")
  BY DEF Init, GrantAgreed
<1>4. ProofsAreUnique
  BY DEF Init, ProofsAreUnique, NoRefund
<1>5. \A r \in Requests : SawRight(r)
  BY DEF Init, SawRight, Idle
<1> QED
  BY <1>1, <1>2, <1>3, <1>4, <1>5 DEF Controlled

(* Orders and sales touch no refund: their ledger keys are of other kinds. *)
LEMMA OrdersKeepRefunds ==
    ASSUME Controlled, UNCHANGED <<topup, grant, refund, req>>,
           \/ ledger' = ledger
           \/ \E k \in {"order", "order-refund"} : \E x : ledger' = ledger \cup {<<k, x>>}
    PROVE  Controlled'
<1>1. \A k \in {"refund-hold", "refund-settle", "trial-grant"} : \A x :
          <<k, x>> \in ledger' <=> <<k, x>> \in ledger
  OBVIOUS
<1> QED
  BY <1>1 DEF Controlled, WalletRows, FollowsMoney, ProofsAreUnique, SawRight

(* Top-ups and grants.                                                     *)
LEMMA CreditsKeepRefunds ==
    ASSUME Controlled,
           \/ \E t \in Topups : Capture(t)
           \/ \E g \in Grants, a \in Admins : RequestGrant(g, a) \/ RejectGrant(g, a) \/ ApproveGrant(g, a)
    PROVE  Controlled'
<1>1. CASE \E t \in Topups : Capture(t)
  <2> PICK t \in Topups : Capture(t)
    BY <1>1
  <2>1. \A k \in {"refund-hold", "refund-settle", "trial-grant"} : \A x :
            <<k, x>> \in ledger' <=> <<k, x>> \in ledger
    BY DEF Capture, Post
  <2>2. WalletRows'
    BY DEF Capture, Controlled, WalletRows
  <2>3. \A u \in Topups : Agreed(refund'[u]) /\ FollowsMoney(u)'
    BY <2>1 DEF Capture, Controlled, WalletRows, FollowsMoney
  <2> QED
    BY <2>1, <2>2, <2>3 DEF Capture, Controlled, ProofsAreUnique, SawRight
<1>2. ASSUME NEW g \in Grants, NEW a \in Admins,
             RequestGrant(g, a) \/ RejectGrant(g, a) \/ ApproveGrant(g, a)
      PROVE  Controlled'
  <2>1. UNCHANGED <<topup, refund, req>>
    BY <1>2 DEF RequestGrant, RejectGrant, ApproveGrant
  <2>2. \A k \in {"refund-hold", "refund-settle"} : \A x :
            <<k, x>> \in ledger' <=> <<k, x>> \in ledger
    BY <1>2 DEF RequestGrant, RejectGrant, ApproveGrant, Post
  <2>3. /\ \A h \in Grants \ {g} : grant'[h] = grant[h]
        /\ grant' \in [Grants -> GrantRows]
        /\ grant[g] \in GrantRows
    <3>1. grant \in [Grants -> GrantRows]
      BY DEF Controlled, WalletRows
    <3>2. \E row \in GrantRows : grant' = [grant EXCEPT ![g] = row]
      <4> DEFINE Then(s, b, d) == [status |-> s, by |-> b, decider |-> d]
      <4>1. \/ grant' = [grant EXCEPT ![g] = Then("REQUESTED", a, grant[g].decider)]
            \/ grant' = [grant EXCEPT ![g] = Then("REJECTED", grant[g].by, a)]
            \/ grant' = [grant EXCEPT ![g] = Then("POSTED", grant[g].by, a)]
        BY <1>2, <3>1 DEF RequestGrant, RejectGrant, ApproveGrant, GrantRows
      <4>2. /\ Then("REQUESTED", a, grant[g].decider) \in GrantRows
            /\ Then("REJECTED", grant[g].by, a) \in GrantRows
            /\ Then("POSTED", grant[g].by, a) \in GrantRows
        BY <3>1 DEF GrantRows
      <4> QED
        BY <4>1, <4>2
    <3> QED
      BY <3>1, <3>2
  <2>4. \A h \in Grants \ {g} : <<"trial-grant", h>> \in ledger' <=> <<"trial-grant", h>> \in ledger
    BY <1>2 DEF RequestGrant, RejectGrant, ApproveGrant, Post
  <2>5. GrantAgreed(grant'[g]) /\ (<<"trial-grant", g>> \in ledger' => grant'[g].status = "POSTED")
    <3>1. CASE RequestGrant(g, a)
      BY <3>1, <2>3 DEF RequestGrant, Controlled, WalletRows, GrantRows, GrantAgreed
    <3>2. CASE RejectGrant(g, a)
      BY <3>2, <2>3 DEF RejectGrant, Controlled, WalletRows, GrantRows, GrantAgreed
    <3>3. CASE ApproveGrant(g, a)
      BY <3>3, <2>3 DEF ApproveGrant, Controlled, WalletRows, GrantRows, GrantAgreed
    <3> QED
      BY <1>2, <3>1, <3>2, <3>3
  <2> QED
    BY <2>1, <2>2, <2>3, <2>4, <2>5 DEF Controlled, WalletRows, FollowsMoney, ProofsAreUnique, SawRight
<1> QED
  BY <1>1, <1>2

(* A step that writes one refund keeps the invariant when its row, its     *)
(* money, its proof and the requests are right after it.                   *)
LEMMA OneRefund ==
    ASSUME Controlled, NEW t \in Topups, NEW row \in RefundRows,
           refund' = [refund EXCEPT ![t] = row], Agreed(row),
           topup' \in [Topups -> {"PENDING", "CAPTURED", "CLOSED"}],
           \A u \in Topups \ {t} : topup'[u] = topup[u],
           UNCHANGED grant,
           \A k \in {"refund-hold", "refund-settle"} : \A u \in Topups \ {t} :
               <<k, u>> \in ledger' <=> <<k, u>> \in ledger,
           \A g \in Grants : <<"trial-grant", g>> \in ledger' => <<"trial-grant", g>> \in ledger,
           FollowsMoney(t)',
           row.proof = refund[t].proof \/ \A u \in Topups \ {t} : refund[u].proof # row.proof,
           req' \in [Requests -> Executions],
           \A r \in Requests : SawRight(r)'
    PROVE  Controlled'
<1>1. refund \in [Topups -> RefundRows]
  BY DEF Controlled, WalletRows
<1>2. /\ refund' \in [Topups -> RefundRows]
      /\ refund'[t] = row
      /\ \A u \in Topups \ {t} : refund'[u] = refund[u]
  BY <1>1
<1>3. WalletRows'
  BY <1>2 DEF Controlled, WalletRows
<1>4. ASSUME NEW u \in Topups \ {t}
      PROVE  Agreed(refund'[u]) /\ FollowsMoney(u)'
  <2>1. Agreed(refund[u]) /\ FollowsMoney(u)
    BY DEF Controlled
  <2>2. refund'[u] = refund[u] /\ topup'[u] = topup[u]
    BY <1>2
  <2>3. /\ <<"refund-hold", u>> \in ledger' <=> <<"refund-hold", u>> \in ledger
        /\ <<"refund-settle", u>> \in ledger' <=> <<"refund-settle", u>> \in ledger
    OBVIOUS
  <2> QED
    BY <2>1, <2>2, <2>3 DEF FollowsMoney
<1>5. ProofsAreUnique'
  <2> SUFFICES ASSUME NEW u \in Topups, NEW v \in Topups,
                      refund'[u].proof = refund'[v].proof, refund'[u].proof # NoProof
               PROVE  u = v
    BY DEF ProofsAreUnique
  <2> ProofsAreUnique
    BY DEF Controlled
  <2> QED
    BY <1>2 DEF ProofsAreUnique
<1> QED
  BY <1>2, <1>3, <1>4, <1>5 DEF Controlled

(* The request and the decision of a refund, and the ageing of a claim:    *)
(* neither money nor requests.                                             *)
LEMMA DecisionsKeepRefunds ==
    ASSUME Controlled, NEW t \in Topups, NEW a,
           \/ /\ a \in Admins
              /\ \/ RequestRefund(t, a)
                 \/ DecideRefund(t, a, "APPROVED")
                 \/ DecideRefund(t, a, "REJECTED")
           \/ ClaimAges(t)
    PROVE  Controlled'
<1> DEFINE Then(s, b, d, o) == [status |-> s, by |-> b, decider |-> d, claims |-> refund[t].claims,
                                token |-> refund[t].token, old |-> o, proof |-> refund[t].proof]
<1>1. /\ refund \in [Topups -> RefundRows]
      /\ topup \in [Topups -> {"PENDING", "CAPTURED", "CLOSED"}]
      /\ req \in [Requests -> Executions]
      /\ Agreed(refund[t])
      /\ FollowsMoney(t)
      /\ \A r \in Requests : SawRight(r)
  BY DEF Controlled, WalletRows
<1>2. UNCHANGED <<topup, grant, ledger, req>>
  BY DEF RequestRefund, DecideRefund, ClaimAges
<1>3. \/ /\ refund[t].status = "NONE"
         /\ a \in Admins
         /\ refund' = [refund EXCEPT ![t] = Then("PENDING", a, refund[t].decider, refund[t].old)]
      \/ /\ refund[t].status = "PENDING"
         /\ refund[t].by # a
         /\ a \in Admins
         /\ \E s \in {"APPROVED", "REJECTED"} :
                refund' = [refund EXCEPT ![t] = Then(s, refund[t].by, a, refund[t].old)]
      \/ /\ refund[t].status = "PROCESSING"
         /\ refund' = [refund EXCEPT ![t] = Then("PROCESSING", refund[t].by, refund[t].decider, TRUE)]
  BY <1>1 DEF RequestRefund, DecideRefund, ClaimAges, RefundRows
<1>4. \A r \in Requests : SawRight(r)'
  BY <1>1, <1>2 DEF SawRight
<1>5. \A s \in RefundStatus, b \in Admins \cup Nobody, d \in Admins \cup Nobody, o \in BOOLEAN :
          Then(s, b, d, o) \in RefundRows
  BY <1>1 DEF RefundRows
<1>6. ASSUME NEW s \in RefundStatus, NEW b \in Admins \cup Nobody, NEW d \in Admins \cup Nobody,
             NEW o \in BOOLEAN, refund' = [refund EXCEPT ![t] = Then(s, b, d, o)],
             Agreed(Then(s, b, d, o)),
             \/ s = refund[t].status
             \/ {s, refund[t].status} \subseteq {"NONE", "PENDING", "APPROVED", "REJECTED"}
      PROVE  Controlled'
  <2> DEFINE row == Then(s, b, d, o)
  <2>1. row \in RefundRows /\ row.proof = refund[t].proof /\ row.status = s
    BY <1>6, <1>5
  <2>2. refund'[t] = row
    BY <1>6, <1>1
  <2>3. FollowsMoney(t)'
    BY <1>1, <1>2, <1>6, <2>1, <2>2 DEF FollowsMoney
  <2>4. refund' = [refund EXCEPT ![t] = row] /\ Agreed(row)
    BY <1>6
  <2> HIDE DEF row
  <2> QED
    BY <1>1, <1>2, <1>4, <2>1, <2>3, <2>4, OneRefund
<1>7. refund[t].by \in Admins \cup Nobody /\ refund[t].decider \in Admins \cup Nobody /\ refund[t].old \in BOOLEAN
  BY <1>1 DEF RefundRows
<1>8. {"NONE", "PENDING", "APPROVED", "REJECTED", "PROCESSING"} \subseteq RefundStatus
  BY DEF RefundStatus
<1>9. CASE /\ refund[t].status = "NONE"
           /\ a \in Admins
           /\ refund' = [refund EXCEPT ![t] = Then("PENDING", a, refund[t].decider, refund[t].old)]
  <2>1. Agreed(Then("PENDING", a, refund[t].decider, refund[t].old))
    BY <1>9 DEF Agreed
  <2> QED
    BY <1>6, <1>7, <1>8, <1>9, <2>1
<1>10. CASE /\ refund[t].status = "PENDING"
            /\ refund[t].by # a
            /\ a \in Admins
            /\ \E s \in {"APPROVED", "REJECTED"} :
                   refund' = [refund EXCEPT ![t] = Then(s, refund[t].by, a, refund[t].old)]
  <2> PICK s \in {"APPROVED", "REJECTED"} :
               refund' = [refund EXCEPT ![t] = Then(s, refund[t].by, a, refund[t].old)]
    BY <1>10
  <2>1. Agreed(Then(s, refund[t].by, a, refund[t].old))
    BY <1>1, <1>10 DEF Agreed
  <2> QED
    BY <1>6, <1>7, <1>8, <1>10, <2>1
<1>11. CASE /\ refund[t].status = "PROCESSING"
            /\ refund' = [refund EXCEPT ![t] = Then("PROCESSING", refund[t].by, refund[t].decider, TRUE)]
  <2>1. Agreed(Then("PROCESSING", refund[t].by, refund[t].decider, TRUE))
    BY <1>1, <1>11 DEF Agreed
  <2> QED
    BY <1>6, <1>7, <1>8, <1>11, <2>1
<1> QED
  BY <1>3, <1>9, <1>10, <1>11

(* The reads of an executor, and a request that is over.                   *)
LEMMA ReadsKeepRefunds ==
    ASSUME Controlled, NEW r \in Requests,
           Abort(r) \/ \E t \in Topups : ReadRefund(r, t)
    PROVE  Controlled'
<1> DEFINE Read(t) == [step |-> "claim", t |-> t, sawHold |-> <<"refund-hold", t>> \in ledger,
                       stale |-> refund[t].token]
<1>1. UNCHANGED <<topup, grant, refund, ledger>>
  BY DEF Abort, ReadRefund
<1>2. \/ req' = [req EXCEPT ![r] = Idle]
      \/ \E t \in Topups : req' = [req EXCEPT ![r] = Read(t)]
  BY DEF Abort, ReadRefund
<1>3. \A t \in Topups : Read(t) \in Executions
  BY DEF Controlled, WalletRows, RefundRows, Executions
<1>4. Idle \in Executions
  BY DEF Executions
<1>5. req' \in [Requests -> Executions]
  BY <1>2, <1>3, <1>4 DEF Controlled, WalletRows
<1>6. \A q \in Requests : SawRight(q)'
  <2> TAKE q \in Requests
  <2>1. CASE q # r
    BY <1>1, <1>2, <2>1 DEF Controlled, WalletRows, SawRight
  <2>2. CASE q = r
    <3>1. CASE req' = [req EXCEPT ![r] = Idle]
      BY <2>2, <3>1 DEF Controlled, WalletRows, SawRight, Idle
    <3>2. CASE \E t \in Topups : req' = [req EXCEPT ![r] = Read(t)]
      <4> PICK t \in Topups : req' = [req EXCEPT ![r] = Read(t)]
        BY <3>2
      <4>1. req'[q] = Read(t)
        BY <2>2 DEF Controlled, WalletRows
      <4> DEFINE seen == <<"refund-hold", t>> \in ledger
      <4>2. seen \in BOOLEAN
        OBVIOUS
      <4>3. req'[q] = [step |-> "claim", t |-> t, sawHold |-> seen, stale |-> refund[t].token]
        BY <4>1
      <4> HIDE DEF seen
      <4>4. req'[q].t = t /\ req'[q].sawHold = seen
        BY <4>2, <4>3
      <4> USE DEF seen
      <4> QED
        BY <1>1, <4>2, <4>4 DEF SawRight
    <3> QED
      BY <1>2, <3>1, <3>2
  <2> QED
    BY <2>1, <2>2
<1> QED
  BY <1>1, <1>5, <1>6 DEF Controlled, WalletRows, FollowsMoney, ProofsAreUnique

(* A claim sets the card-hours apart, unless they are.                     *)
LEMMA ClaimsKeepRefunds ==
    ASSUME Controlled, NEW r \in Requests, NEW t \in Topups, ClaimRefund(r, t)
    PROVE  Controlled'
<1>1. /\ refund \in [Topups -> RefundRows]
      /\ topup \in [Topups -> {"PENDING", "CAPTURED", "CLOSED"}]
      /\ req \in [Requests -> Executions]
      /\ Agreed(refund[t])
      /\ FollowsMoney(t)
      /\ \A q \in Requests : SawRight(q)
  BY DEF Controlled, WalletRows
<1>2. /\ refund[t].status \in {"APPROVED", "FAILED", "PROCESSING"}
      /\ req[r].step = "claim" /\ req[r].t = t
      /\ UNCHANGED <<topup, grant>>
      /\ refund' = Claimed(t)
      /\ req' = [req EXCEPT ![r] = [step |-> "execute", t |-> t, token |-> refund'[t].token]]
  BY DEF ClaimRefund, Claimable
<1> DEFINE row == [status |-> "PROCESSING", by |-> refund[t].by, decider |-> refund[t].decider,
                   claims |-> refund[t].claims + 1, token |-> refund[t].claims + 1, old |-> FALSE,
                   proof |-> refund[t].proof]
<1>3. refund' = [refund EXCEPT ![t] = row]
  BY <1>1, <1>2 DEF Claimed, RefundRows
<1>4. row \in RefundRows
  BY <1>1 DEF RefundRows, RefundStatus
<1>5. row.proof = refund[t].proof /\ row.status = "PROCESSING" /\ refund'[t] = row /\ refund'[t].token \in Int
  BY <1>1, <1>3, <1>4 DEF RefundRows
<1>6. Agreed(row)
  BY <1>1, <1>2 DEF Agreed
<1>7. ledger' = ledger \cup {<<"refund-hold", t>>}
  <2>1. CASE req[r].sawHold
    BY <1>1, <1>2, <2>1 DEF ClaimRefund, SawRight
  <2>2. CASE ~req[r].sawHold
    BY <2>2 DEF ClaimRefund, Post
  <2> QED
    BY <2>1, <2>2
<1>8. FollowsMoney(t)'
  BY <1>1, <1>2, <1>5, <1>7 DEF FollowsMoney
<1> HIDE DEF row
<1>9. [step |-> "execute", t |-> t, token |-> refund'[t].token] \in Executions
  BY <1>5 DEF Executions
<1>10. req' \in [Requests -> Executions]
  BY <1>1, <1>2, <1>9
<1>11. \A q \in Requests : SawRight(q)'
  <2> TAKE q \in Requests
  <2>1. CASE q # r
    BY <1>1, <1>2, <1>7, <2>1 DEF SawRight
  <2>2. CASE q = r
    BY <1>1, <1>2, <2>2 DEF SawRight
  <2> QED
    BY <2>1, <2>2
<1>12. /\ \A k \in {"refund-hold", "refund-settle"} : \A u \in Topups \ {t} :
              <<k, u>> \in ledger' <=> <<k, u>> \in ledger
       /\ \A g \in Grants : <<"trial-grant", g>> \in ledger' => <<"trial-grant", g>> \in ledger
  BY <1>7
<1> QED
  BY <1>1, <1>2, <1>3, <1>4, <1>5, <1>6, <1>8, <1>10, <1>11, <1>12, OneRefund

(* A row that ends a claim, written out: paid with a proof, or left.       *)
EndedAs(old, s, p) == [status |-> s, by |-> old.by, decider |-> old.decider, claims |-> old.claims,
                       token |-> 0, old |-> FALSE, proof |-> p]
PaidAs(old, s, p)  == [old EXCEPT !.status = s, !.token = 0, !.old = FALSE, !.proof = p]
LeftAs(old, s)     == [old EXCEPT !.status = s, !.token = 0, !.old = FALSE]

(* The two ways a finished claim is written, as nested updates and as a    *)
(* record, are the same row.                                               *)
LEMMA PaidRow ==
    ASSUME NEW old \in RefundRows, NEW s \in RefundStatus, NEW p \in Proofs \cup {NoProof}
    PROVE  PaidAs(old, s, p) = EndedAs(old, s, p)
<1> SUFFICES ASSUME NEW row, row = [old EXCEPT !.status = s, !.token = 0, !.old = FALSE, !.proof = p]
             PROVE  row = EndedAs(old, s, p)
  BY DEF PaidAs
<1> QED
  BY DEF RefundRows, EndedAs

(* A claim left without a proof keeps the proof the row had.               *)
LEMMA LeftRow ==
    ASSUME NEW old \in RefundRows, NEW s \in RefundStatus
    PROVE  LeftAs(old, s) = EndedAs(old, s, old.proof)
<1> SUFFICES ASSUME NEW row, row = [old EXCEPT !.status = s, !.token = 0, !.old = FALSE]
             PROVE  row = EndedAs(old, s, old.proof)
  BY DEF LeftAs
<1> QED
  BY DEF RefundRows, EndedAs

(* The same of the table of refunds.                                       *)
LEMMA LeftClaim ==
    ASSUME refund \in [Topups -> RefundRows], NEW t \in Topups, NEW s \in RefundStatus,
           refund' = [refund EXCEPT ![t].status = s, ![t].token = 0, ![t].old = FALSE]
    PROVE  refund' = [refund EXCEPT ![t] = EndedAs(refund[t], s, refund[t].proof)]
<1>1. refund' = [refund EXCEPT ![t] = LeftAs(refund[t], s)]
  BY DEF LeftAs
<1> QED
  BY <1>1, LeftRow

(* A refund is settled with its money, its top-up and a proof of its own.  *)
LEMMA SettlingKeepsRefunds ==
    ASSUME Controlled, NEW t \in Topups, NEW p \in Proofs, Settles(t, p), UNCHANGED grant,
           refund[t].status \in {"PROCESSING", "MANUAL_REQUIRED"},
           req' = req \/ \E r \in Requests : req' = [req EXCEPT ![r] = Idle]
    PROVE  Controlled'
<1>1. /\ refund \in [Topups -> RefundRows]
      /\ topup \in [Topups -> {"PENDING", "CAPTURED", "CLOSED"}]
      /\ req \in [Requests -> Executions]
      /\ Agreed(refund[t])
      /\ FollowsMoney(t)
      /\ \A q \in Requests : SawRight(q)
  BY DEF Controlled, WalletRows
<1> DEFINE row == EndedAs(refund[t], "SUCCEEDED", p)
<1>2. /\ refund' = [refund EXCEPT ![t] = row]
      /\ ledger' = ledger \cup {<<"refund-settle", t>>}
      /\ topup' = [topup EXCEPT ![t] = "CLOSED"]
      /\ \A u \in Topups \ {t} : refund[u].proof # row.proof
  <2>1. refund' = [refund EXCEPT ![t].status = "SUCCEEDED", ![t].token = 0,
                                 ![t].old = FALSE, ![t].proof = p]
    BY DEF Settles
  <2>2. "SUCCEEDED" \in RefundStatus
    BY DEF RefundStatus
  <2>3. refund' = [refund EXCEPT ![t] = row]
    <3>1. refund' = [refund EXCEPT ![t] = PaidAs(refund[t], "SUCCEEDED", p)]
      BY <2>1 DEF PaidAs
    <3>2. PaidAs(refund[t], "SUCCEEDED", p) = row
      BY <1>1, <2>2, PaidRow
    <3> QED
      BY <3>1, <3>2
  <2>4. row.proof = p
    BY DEF EndedAs
  <2> HIDE DEF row
  <2> QED
    BY <2>3, <2>4 DEF Settles, Post
<1>3. row \in RefundRows
  BY <1>1 DEF RefundRows, RefundStatus, EndedAs
<1>4. row.status = "SUCCEEDED" /\ refund'[t] = row
  BY <1>1, <1>2 DEF EndedAs
<1>5. Agreed(row)
  BY <1>1 DEF Agreed, EndedAs
<1>6. FollowsMoney(t)'
  BY <1>1, <1>2, <1>4 DEF FollowsMoney
<1> HIDE DEF row
<1>7. /\ topup' \in [Topups -> {"PENDING", "CAPTURED", "CLOSED"}]
      /\ \A u \in Topups \ {t} : topup'[u] = topup[u]
  BY <1>1, <1>2
<1>8. req' \in [Requests -> Executions]
  BY <1>1 DEF Executions
<1>9. \A q \in Requests : SawRight(q)'
  BY <1>1, <1>2 DEF SawRight, Idle
<1>10. /\ \A k \in {"refund-hold", "refund-settle"} : \A u \in Topups \ {t} :
              <<k, u>> \in ledger' <=> <<k, u>> \in ledger
       /\ \A g \in Grants : <<"trial-grant", g>> \in ledger' => <<"trial-grant", g>> \in ledger
  BY <1>2
<1> QED
  BY <1>2, <1>3, <1>5, <1>6, <1>7, <1>8, <1>9, <1>10, OneRefund

(* What an executor reports: the refund failed, is left to the merchant    *)
(* console, or is paid.                                                    *)
LEMMA ReportsKeepRefunds ==
    ASSUME Controlled, NEW r \in Requests, NEW t \in Topups, FinishRefund(r, t)
    PROVE  Controlled'
<1>1. CASE \E p \in Proofs : Settles(t, p)
  BY <1>1, SettlingKeepsRefunds DEF FinishRefund
<1>2. CASE \E status \in Outcomes \ {"SUCCEEDED"} :
               /\ refund' = [refund EXCEPT ![t].status = status, ![t].token = 0, ![t].old = FALSE]
               /\ UNCHANGED <<wallet, topup, ledger>>
  <2> PICK status \in Outcomes \ {"SUCCEEDED"} :
               /\ refund' = [refund EXCEPT ![t].status = status, ![t].token = 0, ![t].old = FALSE]
               /\ UNCHANGED <<wallet, topup, ledger>>
    BY <1>2
  <2>1. /\ refund \in [Topups -> RefundRows]
        /\ topup \in [Topups -> {"PENDING", "CAPTURED", "CLOSED"}]
        /\ req \in [Requests -> Executions]
        /\ Agreed(refund[t])
        /\ FollowsMoney(t)
        /\ \A q \in Requests : SawRight(q)
    BY DEF Controlled, WalletRows
  <2> DEFINE row == EndedAs(refund[t], status, refund[t].proof)
  <2>2. status \in {"MANUAL_REQUIRED", "FAILED"} /\ refund[t].status = "PROCESSING"
    BY WalletAssumption DEF FinishRefund
  <2>3. refund' = [refund EXCEPT ![t] = row]
    <3>1. status \in RefundStatus
      BY <2>2 DEF RefundStatus
    <3> QED
      BY <2>1, <3>1, LeftClaim
  <2>4. row \in RefundRows /\ row.status = status /\ row.proof = refund[t].proof
    BY <2>1, <2>2 DEF RefundRows, RefundStatus, EndedAs
  <2>5. Agreed(row)
    BY <2>1, <2>2 DEF Agreed, EndedAs
  <2>6. refund'[t] = row
    BY <2>1, <2>3
  <2>7. FollowsMoney(t)'
    BY <2>1, <2>2, <2>4, <2>6 DEF FollowsMoney
  <2> HIDE DEF row
  <2>8. UNCHANGED grant /\ req' = [req EXCEPT ![r] = Idle]
    BY DEF FinishRefund
  <2>9. req' \in [Requests -> Executions]
    BY <2>1, <2>8 DEF Executions
  <2>10. \A q \in Requests : SawRight(q)'
    BY <2>1, <2>8 DEF SawRight, Idle
  <2> QED
    BY <2>1, <2>3, <2>4, <2>5, <2>7, <2>8, <2>9, <2>10, OneRefund
<1> QED
  BY <1>1, <1>2 DEF FinishRefund

(* No operation of the wallet disturbs the invariant.                      *)
LEMMA ControlledStep == Controlled /\ [Next]_vars => Controlled'
<1> SUFFICES ASSUME Controlled, [Next]_vars
             PROVE  Controlled'
  OBVIOUS
<1>1. CASE Spending
  <2>1. CASE \/ \E t \in Topups : Capture(t)
             \/ \E g \in Grants, a \in Admins : RequestGrant(g, a) \/ RejectGrant(g, a) \/ ApproveGrant(g, a)
    BY <2>1, CreditsKeepRefunds
  <2>2. CASE \E s \in Sales : PaySale(s)
    BY <2>2, OrdersKeepRefunds DEF PaySale, Post
  <2>3. CASE \E o \in Orders : HoldOrder(o) \/ ReleaseOrder(o) \/ RefundOrder(o)
    BY <2>3, OrdersKeepRefunds DEF HoldOrder, ReleaseOrder, RefundOrder, Post
  <2>4. CASE \E o \in Orders : \E n \in 1..Price[o] : SettleOrder(o, n)
    BY <2>4, OrdersKeepRefunds DEF SettleOrder, Post
  <2> QED
    BY <1>1, <2>1, <2>2, <2>3, <2>4 DEF Spending
<1>2. CASE Refunding
  <2>1. CASE \E t \in Topups, a \in Admins : \E p \in Proofs : ConfirmManual(t, a, p)
    BY <2>1, SettlingKeepsRefunds DEF ConfirmManual
  <2>2. CASE \E r \in Requests, t \in Topups : ReadRefund(r, t) \/ ClaimRefund(r, t) \/ FinishRefund(r, t)
    BY <2>2, ReadsKeepRefunds, ClaimsKeepRefunds, ReportsKeepRefunds
  <2>3. CASE \E r \in Requests : Abort(r)
    BY <2>3, ReadsKeepRefunds
  <2>4. CASE \E t \in Topups, a \in Admins :
                 RequestRefund(t, a) \/ DecideRefund(t, a, "APPROVED") \/ DecideRefund(t, a, "REJECTED")
    BY <2>4, DecisionsKeepRefunds
  <2>5. CASE \E t \in Topups : ClaimAges(t)
    BY <2>5, DecisionsKeepRefunds
  <2> QED
    BY <1>2, <2>1, <2>2, <2>3, <2>4, <2>5 DEF Refunding
<1>3. CASE UNCHANGED vars
  BY <1>3, OrdersKeepRefunds DEF vars
<1> QED
  BY <1>1, <1>2, <1>3 DEF Next

(* The invariant gives the three properties of the runs.                   *)
LEMMA ControlledMeans == Controlled => RefundsAreControlled
<1> SUFFICES ASSUME Controlled
             PROVE  RefundFollowsMoney /\ DualControl /\ ProofsAreUnique
  BY DEF RefundsAreControlled
<1>1. RefundFollowsMoney
  BY DEF Controlled, FollowsMoney, RefundFollowsMoney
<1>2. DualControl
  BY DEF Controlled, FollowsMoney, Agreed, GrantAgreed, DualControl, Posted
<1>3. ProofsAreUnique
  BY DEF Controlled
<1> QED
  BY <1>1, <1>2, <1>3

(* However the executors of a refund overlap, come late or stop, and       *)
(* whatever else moves the wallet: money is set apart and destroyed as the *)
(* refund says, never without two administrators, and one transfer of the  *)
(* provider settles one top-up.                                            *)
THEOREM RefundsStayControlled == Spec => []RefundsAreControlled
<1> QED
  BY ControlledInit, ControlledStep, ControlledMeans, PTL DEF Spec

-----------------------------------------------------------------------------
(* The money of the wallet. Each number of its accounts is a sum of prices *)
(* or of settled amounts, and a batch changes at most one summand of each. *)
HeldOrders(h)   == {o \in Orders : h[o].status = "HELD"}
HeldRefunds(l)  == {t \in Topups : <<"refund-hold", t>> \in l /\ <<"refund-settle", t>> \notin l}
ClosedTopups(t) == {u \in Topups : t[u] = "CLOSED"}
PaidSales(s)    == {x \in Sales : s[x] = "CAPTURED"}
SettledOf(h) == [o \in Orders |-> h[o].settled]
SumOfSettled(h) == SumOf(SettledOf(h), Orders)

(* The rows of hosting orders: what was settled is there from the          *)
(* settlement on.                                                          *)
HoldRow == [status: {"NONE", "HELD", "SETTLED", "RELEASED"}, settled: Nat]
HoldRows(h) ==
    /\ h \in [Orders -> HoldRow]
    /\ \A o \in Orders : h[o].status \in {"NONE", "HELD"} => h[o].settled = 0

Money == [available: Nat, held: Nat, topup: Nat, spent: Nat]

(* The columns w of the wallet, as the rows explain them.                  *)
Accounts(w, h, l, t, s) ==
    /\ w \in Money
    /\ w.held = Worth(HeldOrders(h)) + Worth(HeldRefunds(l))
    /\ w.available + w.held + w.spent = w.topup - Worth(ClosedTopups(t))
    /\ w.spent = Worth(PaidSales(s)) + SumOfSettled(h)

(* What a set of prices is worth.                                          *)
LEMMA WorthIsSum ==
    ASSUME NEW S
    PROVE  Worth(S) = SumOf(Price, S)
BY DEF Worth, SumOf, MapThenSumSet, MapThenFoldSet

Priced == {Topups, Sales, Orders}

(* What a part of the rows is worth is a natural number.                   *)
LEMMA WorthIsNatural ==
    ASSUME NEW T \in Priced, NEW S, S \subseteq T
    PROVE  IsFiniteSet(S) /\ (\A x \in S : Price[x] \in Nat) /\ Worth(S) \in Nat
<1>1. IsFiniteSet(T) /\ \A x \in T : Price[x] \in Nat
  BY WalletAssumption DEF Priced
<1>2. IsFiniteSet(S)
  BY <1>1, FS_Subset
<1> QED
  BY <1>1, <1>2, WorthIsSum, SumOfNaturals

(* One more row adds its price.                                            *)
LEMMA WorthGrows ==
    ASSUME NEW T \in Priced, NEW S, S \subseteq T, NEW a \in T, a \notin S
    PROVE  Worth(S \cup {a}) = Worth(S) + Price[a]
<1>1. S \cup {a} \subseteq T
  OBVIOUS
<1>2. \A x \in S \cup {a} : Price[x] \in Int
  BY <1>1, WorthIsNatural
<1>3. SumOf(Price, S \cup {a}) = Price[a] + SumOf(Price, S)
  BY <1>2, WorthIsNatural, SumWith
<1> QED
  BY <1>2, <1>3, WorthIsSum, WorthIsNatural

(* One row less takes its price away, which was in the sum.                *)
LEMMA WorthShrinks ==
    ASSUME NEW T \in Priced, NEW S, S \subseteq T, NEW a \in S
    PROVE  /\ Worth(S \ {a}) = Worth(S) - Price[a]
           /\ Price[a] <= Worth(S)
<1>1. S \ {a} \subseteq T /\ a \in T
  OBVIOUS
<1>0. IsFiniteSet(S) /\ \A x \in S : Price[x] \in Int
  BY WorthIsNatural
<1>2. SumOf(Price, S) = Price[a] + SumOf(Price, S \ {a})
  BY <1>0, SumWithout
<1>3. Worth(S \ {a}) \in Nat /\ Worth(S) \in Nat /\ Price[a] \in Nat
  BY <1>1, WorthIsNatural
<1> QED
  BY <1>2, <1>3, WorthIsSum

(* What the settled orders add up to.                                      *)
SettledTable(h) == CHOOSE it : it = [s \in SUBSET Orders |-> IF s = {} THEN 0
                                                             ELSE h[AnyOf(s)].settled + it[s \ {AnyOf(s)}]]

(* The table adds up what was settled.                                     *)
LEMMA SettledTableSums ==
    ASSUME NEW h
    PROVE  SettledTable(h)[Orders] = SumOfSettled(h)
<1> DEFINE f == SettledOf(h)
           Entries(it) == [s \in SUBSET Orders |-> IF s = {} THEN 0 ELSE h[AnyOf(s)].settled + it[s \ {AnyOf(s)}]]
<1>1. IsFiniteSet(Orders)
  BY WalletAssumption
<1>2. \A s \in SUBSET Orders : s # {} => f[AnyOf(s)] = h[AnyOf(s)].settled
  BY AnyIsIn DEF SettledOf
<1>3. ASSUME NEW it
      PROVE  IsTable(it, f, Orders) <=> it = Entries(it)
  <2> DEFINE by == [s \in SUBSET Orders |-> IF s = {} THEN 0 ELSE f[AnyOf(s)] + it[s \ {AnyOf(s)}]]
  <2> HIDE DEF f
  <2>1. \A s \in SUBSET Orders : by[s] = Entries(it)[s]
    BY <1>2
  <2>2. by = Entries(it)
    BY <2>1
  <2> QED
    BY <2>2 DEF IsTable
<1>4. PICK jt : IsTable(jt, f, Orders) /\ SumOf(f, Orders) = jt[Orders]
  BY <1>1, SumIsTable
<1>5. SettledTable(h) = Entries(SettledTable(h))
  BY <1>3, <1>4 DEF SettledTable
<1>6. IsTable(SettledTable(h), f, Orders)
  BY <1>3, <1>5
<1> QED
  BY <1>1, <1>4, <1>6, TablesAgree DEF SumOfSettled

(* What the wallet knows as settled is the sum over its rows.              *)
LEMMA SettledIsSum == Settled = SumOfSettled(hold)
<1>1. Settled = SettledTable(hold)[Orders]
  BY DEF Settled, SettledTable, MapThenSumSet, MapThenFoldSet, AnyOf
<1> QED
  BY <1>1, SettledTableSums

(* All of them are natural numbers.                                        *)
LEMMA NumbersAreNatural ==
    ASSUME NEW h, HoldRows(h), NEW l, NEW t, NEW s
    PROVE  /\ Worth(HeldOrders(h)) \in Nat /\ Worth(HeldRefunds(l)) \in Nat
           /\ Worth(ClosedTopups(t)) \in Nat /\ Worth(PaidSales(s)) \in Nat
           /\ SumOfSettled(h) \in Nat
<1>1. HeldOrders(h) \subseteq Orders /\ HeldRefunds(l) \subseteq Topups
      /\ ClosedTopups(t) \subseteq Topups /\ PaidSales(s) \subseteq Sales
  BY DEF HeldOrders, HeldRefunds, ClosedTopups, PaidSales
<1>2. Orders \in Priced /\ Topups \in Priced /\ Sales \in Priced
  BY DEF Priced
<1>3. \A o \in Orders : SettledOf(h)[o] \in Nat
  BY DEF SettledOf, HoldRows, HoldRow
<1>4. SumOfSettled(h) \in Nat
  BY <1>3, WalletAssumption, SumOfNaturals DEF SumOfSettled
<1> QED
  BY <1>1, <1>2, <1>4, WorthIsNatural

(* One hosting order moves on.                                             *)
LEMMA OrderMoves ==
    ASSUME NEW h, HoldRows(h), NEW o \in Orders, NEW row \in HoldRow,
           row.status \in {"NONE", "HELD"} => row.settled = 0, h[o].status \in {"NONE", "HELD"},
           NEW hh, hh = [h EXCEPT ![o] = row]
    PROVE  /\ HoldRows(hh)
           /\ SumOfSettled(hh) = SumOfSettled(h) + row.settled
           /\ Worth(HeldOrders(hh)) = Worth(HeldOrders(h))
                  - (IF h[o].status = "HELD" THEN Price[o] ELSE 0)
                  + (IF row.status = "HELD" THEN Price[o] ELSE 0)
           /\ h[o].status = "HELD" => Price[o] <= Worth(HeldOrders(h))
<1>1. /\ hh \in [Orders -> HoldRow]
      /\ hh[o] = row
      /\ \A p \in Orders \ {o} : hh[p] = h[p]
  BY DEF HoldRows
<1>2. HoldRows(hh)
  BY <1>1 DEF HoldRows
<1>3. SumOfSettled(hh) = SumOfSettled(h) + row.settled
  <2> DEFINE f == SettledOf(h)
             g == SettledOf(hh)
  <2>1. /\ \A p \in Orders : f[p] \in Int /\ g[p] \in Int
        /\ \A p \in Orders \ {o} : f[p] = g[p]
        /\ f[o] = 0 /\ g[o] = row.settled
    BY <1>1 DEF SettledOf, HoldRows, HoldRow
  <2>2. IsFiniteSet(Orders)
    BY WalletAssumption
  <2> HIDE DEF f, g
  <2>5. \A p \in Orders : f[p] \in Int
    BY <2>1
  <2>6. SumOf(f, Orders) \in Int
    BY <2>2, <2>5, SumOfIntegers
  <2>3. SumOf(g, Orders) = SumOf(f, Orders) - f[o] + g[o]
    BY <2>1, <2>2, SumChanged
  <2>4. SumOfSettled(h) = SumOf(f, Orders) /\ SumOfSettled(hh) = SumOf(g, Orders)
    BY DEF SumOfSettled, f, g
  <2> QED
    BY <2>1, <2>3, <2>4, <2>6
<1>4. /\ Orders \in Priced /\ HeldOrders(h) \subseteq Orders /\ Price[o] \in Nat
      /\ Worth(HeldOrders(h)) \in Nat
  BY WorthIsNatural, WalletAssumption DEF Priced, HeldOrders
<1>5. CASE h[o].status = "HELD" /\ row.status # "HELD"
  <2>1. HeldOrders(hh) = HeldOrders(h) \ {o} /\ o \in HeldOrders(h)
    BY <1>1, <1>5 DEF HeldOrders
  <2>2. Worth(HeldOrders(hh)) = Worth(HeldOrders(h)) - Price[o] /\ Price[o] <= Worth(HeldOrders(h))
    BY <1>4, <2>1, WorthShrinks
  <2> QED
    BY <1>2, <1>3, <1>4, <1>5, <2>2
<1>6. CASE h[o].status # "HELD" /\ row.status = "HELD"
  <2>1. HeldOrders(hh) = HeldOrders(h) \cup {o} /\ o \notin HeldOrders(h)
    BY <1>1, <1>6 DEF HeldOrders
  <2>2. Worth(HeldOrders(hh)) = Worth(HeldOrders(h)) + Price[o]
    BY <1>4, <2>1, WorthGrows
  <2> QED
    BY <1>2, <1>3, <1>4, <1>6, <2>2
<1>7. CASE (h[o].status = "HELD") <=> (row.status = "HELD")
  <2>1. HeldOrders(hh) = HeldOrders(h)
    BY <1>1, <1>7 DEF HeldOrders
  <2>2. h[o].status = "HELD" => Price[o] <= Worth(HeldOrders(h))
    BY <1>4, WorthShrinks DEF HeldOrders
  <2> QED
    BY <1>2, <1>3, <1>4, <1>7, <2>1, <2>2
<1> QED
  BY <1>5, <1>6, <1>7

(* The accounts of the wallet as it is, and what they say to a reader.     *)
Explained ==
    /\ Accounts(wallet, hold, ledger, topup, sale)
    /\ HoldRows(hold)
    /\ sale \in [Sales -> {"NONE", "CAPTURED"}]

(* A batch that touches none of the numbers.                               *)
LEMMA NothingBooked ==
    ASSUME Explained, UNCHANGED <<wallet, hold>>, HeldRefunds(ledger') = HeldRefunds(ledger),
           ClosedTopups(topup') = ClosedTopups(topup), PaidSales(sale') = PaidSales(sale),
           sale' \in [Sales -> {"NONE", "CAPTURED"}]
    PROVE  Explained'
BY DEF Explained, Accounts

(* Card-hours are credited.                                                *)
LEMMA CreditBooked ==
    ASSUME Explained, NEW n \in Nat, wallet' = Credited(n), UNCHANGED <<hold, sale>>,
           HeldRefunds(ledger') = HeldRefunds(ledger), ClosedTopups(topup') = ClosedTopups(topup)
    PROVE  Explained'
<1>0. wallet' = [available |-> wallet.available + n, held |-> wallet.held,
                                 topup |-> wallet.topup + n, spent |-> wallet.spent]
  BY DEF Explained, Accounts, Money, Credited
<1>1. /\ wallet' \in Money
      /\ wallet'.available = wallet.available + n /\ wallet'.topup = wallet.topup + n
      /\ wallet'.held = wallet.held /\ wallet'.spent = wallet.spent
  BY <1>0 DEF Explained, Accounts, Money
<1>2. Worth(ClosedTopups(topup)) \in Nat
  BY NumbersAreNatural DEF Explained
<1> QED
  BY <1>1, <1>2 DEF Explained, Accounts, Money

(* A sale is paid at once.                                                 *)
LEMMA SaleBooked ==
    ASSUME Explained, NEW s \in Sales, PaySale(s)
    PROVE  Explained'
<1>1. Price[s] \in Nat /\ wallet.available >= Price[s] /\ s \notin PaidSales(sale)
  BY WalletAssumption DEF PaySale, PaidSales
<1>0. wallet' = [available |-> wallet.available - Price[s], held |-> wallet.held,
                                 topup |-> wallet.topup, spent |-> wallet.spent + Price[s]]
  BY <1>1 DEF Explained, Accounts, Money, PaySale
<1>2. /\ wallet' \in Money
      /\ wallet'.available = wallet.available - Price[s] /\ wallet'.topup = wallet.topup
      /\ wallet'.held = wallet.held /\ wallet'.spent = wallet.spent + Price[s]
  BY <1>0, <1>1 DEF Explained, Accounts, Money
<1>3. /\ HeldRefunds(ledger') = HeldRefunds(ledger)
      /\ UNCHANGED <<hold, topup>>
  BY DEF PaySale, Post, HeldRefunds
<1>4. Worth(PaidSales(sale')) = Worth(PaidSales(sale)) + Price[s]
  <2>1. PaidSales(sale') = PaidSales(sale) \cup {s}
    BY DEF PaySale, PaidSales, Explained
  <2>2. PaidSales(sale) \subseteq Sales /\ Sales \in Priced
    BY DEF PaidSales, Priced
  <2> QED
    BY <1>1, <2>1, <2>2, WorthGrows
<1>6. sale' \in [Sales -> {"NONE", "CAPTURED"}]
  BY DEF PaySale, Explained
<1>5. /\ Worth(ClosedTopups(topup)) \in Nat /\ Worth(PaidSales(sale)) \in Nat /\ SumOfSettled(hold) \in Nat
  BY NumbersAreNatural DEF Explained
<1> QED
  BY <1>1, <1>2, <1>3, <1>4, <1>5, <1>6 DEF Explained, Accounts, Money

(* A hosting order takes or gives up its hold.                             *)
LEMMA HoldBooked ==
    ASSUME Explained, NEW o \in Orders, HoldOrder(o) \/ ReleaseOrder(o) \/ RefundOrder(o)
    PROVE  Explained'
<1> DEFINE to == IF hold[o].status = "NONE" THEN "HELD" ELSE "RELEASED"
           row == [status |-> to, settled |-> 0]
<1>1. /\ hold \in [Orders -> HoldRow] /\ hold[o].status \in {"NONE", "HELD"} /\ hold[o].settled = 0
      /\ Price[o] \in Nat
  BY WalletAssumption DEF Explained, HoldRows, HoldOrder, ReleaseOrder, RefundOrder
<1>2. hold' = [hold EXCEPT ![o] = row]
  <2>1. hold' = [hold EXCEPT ![o].status = to]
    BY <1>1 DEF HoldOrder, ReleaseOrder, RefundOrder
  <2>2. hold[o] \in HoldRow
    BY <1>1
  <2>3. [hold[o] EXCEPT !.status = to] = row
    BY <1>1, <2>2 DEF HoldRow
  <2> HIDE DEF to, row
  <2> QED
    BY <2>1, <2>3
<1>3. row \in HoldRow /\ row.status = to /\ row.settled = 0
  BY DEF HoldRow
<1>4. /\ HeldRefunds(ledger') = HeldRefunds(ledger)
      /\ UNCHANGED <<sale, topup>>
  BY DEF HoldOrder, ReleaseOrder, RefundOrder, Post, HeldRefunds
<1>5. /\ HoldRows(hold')
      /\ SumOfSettled(hold') = SumOfSettled(hold) + 0
      /\ Worth(HeldOrders(hold')) = Worth(HeldOrders(hold))
             - (IF hold[o].status = "HELD" THEN Price[o] ELSE 0) + (IF to = "HELD" THEN Price[o] ELSE 0)
      /\ hold[o].status = "HELD" => Price[o] <= Worth(HeldOrders(hold))
  <2> HIDE DEF row, to
  <2>1. HoldRows(hold)
    BY DEF Explained
  <2>2. /\ HoldRows(hold')
        /\ SumOfSettled(hold') = SumOfSettled(hold) + row.settled
        /\ Worth(HeldOrders(hold')) = Worth(HeldOrders(hold))
               - (IF hold[o].status = "HELD" THEN Price[o] ELSE 0)
               + (IF row.status = "HELD" THEN Price[o] ELSE 0)
        /\ hold[o].status = "HELD" => Price[o] <= Worth(HeldOrders(hold))
    BY <1>1, <1>2, <1>3, <2>1, OrderMoves
  <2> QED
    BY <1>3, <2>2
<1>6. /\ Worth(HeldOrders(hold)) \in Nat /\ Worth(HeldRefunds(ledger)) \in Nat
      /\ Worth(ClosedTopups(topup)) \in Nat /\ Worth(PaidSales(sale)) \in Nat /\ SumOfSettled(hold) \in Nat
  BY NumbersAreNatural DEF Explained
<1>7. CASE HoldOrder(o)
  <2>0. wallet' = [available |-> wallet.available - Price[o], held |-> wallet.held + Price[o],
                                 topup |-> wallet.topup, spent |-> wallet.spent] /\ wallet.available >= Price[o]
    BY <1>1, <1>7 DEF Explained, Accounts, Money, HoldOrder, Locked
  <2>1. /\ wallet' \in Money
        /\ wallet'.available = wallet.available - Price[o] /\ wallet'.topup = wallet.topup
        /\ wallet'.held = wallet.held + Price[o] /\ wallet'.spent = wallet.spent
    BY <1>1, <2>0 DEF Explained, Accounts, Money
  <2>2. Worth(HeldOrders(hold')) = Worth(HeldOrders(hold)) + Price[o]
    BY <1>1, <1>5, <1>6, <1>7 DEF HoldOrder
  <2> QED
    BY <1>1, <1>4, <1>5, <1>6, <2>1, <2>2 DEF Explained, Accounts, Money
<1>8. CASE ReleaseOrder(o) \/ RefundOrder(o)
  <2>1. hold[o].status = "HELD" /\ wallet' = Freed(Price[o])
    BY <1>8 DEF ReleaseOrder, RefundOrder
  <2>2. Price[o] <= wallet.held
    BY <1>1, <1>5, <1>6, <2>1 DEF Explained, Accounts, Money
  <2>0. wallet' = [available |-> wallet.available + Price[o], held |-> wallet.held - Price[o],
                                 topup |-> wallet.topup, spent |-> wallet.spent]
    BY <1>1, <2>1 DEF Explained, Accounts, Money, Freed
  <2>3. /\ wallet' \in Money
        /\ wallet'.available = wallet.available + Price[o] /\ wallet'.topup = wallet.topup
        /\ wallet'.held = wallet.held - Price[o] /\ wallet'.spent = wallet.spent
    BY <1>1, <2>0, <2>2 DEF Explained, Accounts, Money
  <2>4. Worth(HeldOrders(hold')) = Worth(HeldOrders(hold)) - Price[o]
    BY <1>1, <1>5, <1>6, <2>1
  <2> QED
    BY <1>1, <1>4, <1>5, <1>6, <2>3, <2>4 DEF Explained, Accounts, Money
<1> QED
  BY <1>7, <1>8

(* A hosting order is settled: part of its hold is spent, the rest is free. *)
LEMMA SettlementBooked ==
    ASSUME Explained, NEW o \in Orders, NEW n \in 1..Price[o], SettleOrder(o, n)
    PROVE  Explained'
<1> DEFINE row == [status |-> "SETTLED", settled |-> n]
<1>1. /\ hold[o].status = "HELD" /\ hold' = [hold EXCEPT ![o] = row]
      /\ Price[o] \in Nat /\ n \in Nat /\ n <= Price[o]
  BY WalletAssumption DEF SettleOrder
<1>2. row \in HoldRow /\ row.status = "SETTLED" /\ row.settled = n
  BY <1>1 DEF HoldRow
<1>3. /\ HeldRefunds(ledger') = HeldRefunds(ledger)
      /\ UNCHANGED <<sale, topup>>
  BY DEF SettleOrder, Post, HeldRefunds
<1> HIDE DEF row
<1>4. /\ HoldRows(hold')
      /\ SumOfSettled(hold') = SumOfSettled(hold) + row.settled
      /\ Worth(HeldOrders(hold')) = Worth(HeldOrders(hold))
             - (IF hold[o].status = "HELD" THEN Price[o] ELSE 0)
             + (IF row.status = "HELD" THEN Price[o] ELSE 0)
      /\ hold[o].status = "HELD" => Price[o] <= Worth(HeldOrders(hold))
  BY <1>1, <1>2, OrderMoves DEF Explained
<1>5. /\ Worth(HeldOrders(hold)) \in Nat /\ Worth(HeldRefunds(ledger)) \in Nat
      /\ Worth(ClosedTopups(topup)) \in Nat /\ Worth(PaidSales(sale)) \in Nat /\ SumOfSettled(hold) \in Nat
  BY NumbersAreNatural DEF Explained
<1>6. /\ Worth(HeldOrders(hold')) = Worth(HeldOrders(hold)) - Price[o]
      /\ SumOfSettled(hold') = SumOfSettled(hold) + n
      /\ Price[o] <= Worth(HeldOrders(hold))
  BY <1>1, <1>2, <1>4, <1>5
<1>7. wallet' = [available |-> wallet.available + (Price[o] - n), held |-> wallet.held - Price[o],
                 topup |-> wallet.topup, spent |-> wallet.spent + n]
  BY <1>1 DEF SettleOrder, Explained, Accounts, Money
<1>8. /\ wallet' \in Money
      /\ wallet'.available = wallet.available + (Price[o] - n) /\ wallet'.topup = wallet.topup
      /\ wallet'.held = wallet.held - Price[o] /\ wallet'.spent = wallet.spent + n
  BY <1>1, <1>5, <1>6, <1>7 DEF Explained, Accounts, Money
<1> QED
  BY <1>1, <1>3, <1>4, <1>5, <1>6, <1>8 DEF Explained, Accounts, Money

(* A refund sets the card-hours of its top-up apart.                       *)
LEMMA RefundHoldBooked ==
    ASSUME Explained, NEW t \in Topups, wallet.available >= Price[t], wallet' = Locked(Price[t]),
           Post("refund-hold", t), <<"refund-settle", t>> \notin ledger, UNCHANGED <<topup, sale, hold>>
    PROVE  Explained'
<1>1. /\ HeldRefunds(ledger') = HeldRefunds(ledger) \cup {t} /\ t \notin HeldRefunds(ledger)
      /\ HeldRefunds(ledger) \subseteq Topups /\ Topups \in Priced /\ Price[t] \in Nat
  BY WalletAssumption DEF Post, HeldRefunds, Priced
<1>2. Worth(HeldRefunds(ledger')) = Worth(HeldRefunds(ledger)) + Price[t]
  BY <1>1, WorthGrows
<1>3. /\ Worth(HeldOrders(hold)) \in Nat /\ Worth(HeldRefunds(ledger)) \in Nat
      /\ Worth(ClosedTopups(topup)) \in Nat
  BY NumbersAreNatural DEF Explained
<1>4. wallet' = [available |-> wallet.available - Price[t], held |-> wallet.held + Price[t],
                 topup |-> wallet.topup, spent |-> wallet.spent]
  BY <1>1 DEF Explained, Accounts, Money, Locked
<1>5. /\ wallet' \in Money
      /\ wallet'.available = wallet.available - Price[t] /\ wallet'.topup = wallet.topup
      /\ wallet'.held = wallet.held + Price[t] /\ wallet'.spent = wallet.spent
  BY <1>1, <1>4 DEF Explained, Accounts, Money
<1> QED
  BY <1>1, <1>2, <1>3, <1>5 DEF Explained, Accounts, Money

(* A refund is paid: what was set apart is destroyed with its top-up.      *)
LEMMA RefundSettledBooked ==
    ASSUME Explained, NEW t \in Topups, NEW p \in Proofs, Settles(t, p),
           <<"refund-hold", t>> \in ledger, UNCHANGED <<sale, hold>>,
           topup \in [Topups -> {"PENDING", "CAPTURED", "CLOSED"}]
    PROVE  Explained'
<1>1. /\ HeldRefunds(ledger') = HeldRefunds(ledger) \ {t} /\ t \in HeldRefunds(ledger)
      /\ HeldRefunds(ledger) \subseteq Topups /\ Topups \in Priced /\ Price[t] \in Nat
  BY WalletAssumption DEF Settles, Post, HeldRefunds, Priced
<1>2. Worth(HeldRefunds(ledger')) = Worth(HeldRefunds(ledger)) - Price[t]
  BY <1>1, WorthShrinks
<1>3. /\ ClosedTopups(topup') = ClosedTopups(topup) \cup {t} /\ t \notin ClosedTopups(topup)
      /\ ClosedTopups(topup) \subseteq Topups
  BY DEF Settles, ClosedTopups
<1>4. Worth(ClosedTopups(topup')) = Worth(ClosedTopups(topup)) + Price[t]
  BY <1>1, <1>3, WorthGrows
<1>5. /\ Worth(HeldOrders(hold)) \in Nat /\ Worth(HeldRefunds(ledger)) \in Nat
      /\ Worth(ClosedTopups(topup)) \in Nat
  BY NumbersAreNatural DEF Explained
<1>6. wallet.held >= Price[t]
      /\ wallet' = [available |-> wallet.available, held |-> wallet.held - Price[t],
                    topup |-> wallet.topup, spent |-> wallet.spent]
  BY <1>1 DEF Settles, Explained, Accounts, Money, Destroyed
<1>7. /\ wallet' \in Money
      /\ wallet'.available = wallet.available /\ wallet'.topup = wallet.topup
      /\ wallet'.held = wallet.held - Price[t] /\ wallet'.spent = wallet.spent
  BY <1>1, <1>6 DEF Explained, Accounts, Money
<1> QED
  BY <1>1, <1>2, <1>4, <1>5, <1>7 DEF Explained, Accounts, Money

(* Every batch of the wallet keeps its accounts.                           *)
LEMMA ExplainedStep ==
    ASSUME Controlled, Explained, [Next]_vars
    PROVE  Explained'
<1>0. /\ topup \in [Topups -> {"PENDING", "CAPTURED", "CLOSED"}]
      /\ sale \in [Sales -> {"NONE", "CAPTURED"}]
      /\ \A t \in Topups : FollowsMoney(t)
      /\ \A r \in Requests : SawRight(r)
  BY DEF Controlled, WalletRows, Explained
<1>1. CASE Spending
  <2>1. ASSUME NEW t \in Topups, Capture(t) PROVE Explained'
    <3>1. Price[t] \in Nat /\ wallet' = Credited(Price[t]) /\ UNCHANGED <<hold, sale>>
      BY <2>1, WalletAssumption DEF Capture
    <3>2. HeldRefunds(ledger') = HeldRefunds(ledger) /\ ClosedTopups(topup') = ClosedTopups(topup)
      BY <1>0, <2>1 DEF Capture, Post, HeldRefunds, ClosedTopups
    <3> QED
      BY <3>1, <3>2, CreditBooked
  <2>2. ASSUME NEW g \in Grants, NEW a \in Admins, RequestGrant(g, a) \/ RejectGrant(g, a) PROVE Explained'
    BY <1>0, <2>2, NothingBooked DEF RequestGrant, RejectGrant
  <2>3. ASSUME NEW g \in Grants, NEW a \in Admins, ApproveGrant(g, a) PROVE Explained'
    <3>1. Price[g] \in Nat /\ wallet' = Credited(Price[g]) /\ UNCHANGED <<topup, hold, sale>>
      BY <2>3, WalletAssumption DEF ApproveGrant
    <3>2. HeldRefunds(ledger') = HeldRefunds(ledger)
      BY <2>3 DEF ApproveGrant, Post, HeldRefunds
    <3> QED
      BY <3>1, <3>2, CreditBooked
  <2> QED
    BY <1>1, <2>1, <2>2, <2>3, SaleBooked, HoldBooked, SettlementBooked DEF Spending
<1>2. CASE Refunding
  <2>1. ASSUME NEW t \in Topups, NEW a \in Admins, NEW p \in Proofs, ConfirmManual(t, a, p) PROVE Explained'
    BY <1>0, <2>1, RefundSettledBooked DEF ConfirmManual, FollowsMoney
  <2>2. ASSUME NEW r \in Requests, NEW t \in Topups, ClaimRefund(r, t) PROVE Explained'
    <3>1. CASE req[r].sawHold
      BY <1>0, <2>2, <3>1, NothingBooked DEF ClaimRefund
    <3>2. CASE ~req[r].sawHold
      <4>1. <<"refund-settle", t>> \notin ledger
        BY <1>0, <2>2 DEF ClaimRefund, Claimable, FollowsMoney
      <4> QED
        BY <2>2, <3>2, <4>1, RefundHoldBooked DEF ClaimRefund
    <3> QED
      BY <3>1, <3>2
  <2>3. ASSUME NEW r \in Requests, NEW t \in Topups, FinishRefund(r, t) PROVE Explained'
    <3>1. CASE UNCHANGED <<wallet, topup, ledger>>
      BY <1>0, <2>3, <3>1, NothingBooked DEF FinishRefund
    <3>2. ASSUME NEW p \in Proofs, Settles(t, p) PROVE Explained'
      BY <1>0, <2>3, <3>2, RefundSettledBooked DEF FinishRefund, FollowsMoney
    <3> QED
      BY <2>3, <3>1, <3>2 DEF FinishRefund
  <2>4. CASE UNCHANGED <<wallet, topup, sale, hold, ledger>>
    BY <1>0, <2>4, NothingBooked
  <2> QED
    BY <1>2, <2>1, <2>2, <2>3, <2>4 DEF Refunding, ReadRefund, Abort, ClaimAges, RequestRefund, DecideRefund
<1>3. CASE UNCHANGED vars
  BY <1>0, <1>3, NothingBooked DEF vars
<1> QED
  BY <1>1, <1>2, <1>3 DEF Next

(* Claims are counted up to their bound, and the token of one is on the    *)
(* row exactly while the refund is being processed.                        *)
Counted(row) ==
    /\ row.claims \in 0..MaxClaims /\ row.token \in 0..MaxClaims
    /\ row.status = "PROCESSING" <=> row.token # 0

(* A request that claims a refund counts on, within the bound, and a token *)
(* is out exactly while the refund is PROCESSING.                          *)
LEMMA CountedStep ==
    ASSUME Controlled, \A t \in Topups : Counted(refund[t]), [Next]_vars
    PROVE  \A t \in Topups : Counted(refund'[t])
<1>0. refund \in [Topups -> RefundRows]
  BY DEF Controlled, WalletRows
<1>1. ASSUME NEW t \in Topups, NEW row, Counted(row), refund' = [refund EXCEPT ![t] = row]
      PROVE  \A u \in Topups : Counted(refund'[u])
  BY <1>0, <1>1
<1>2. ASSUME NEW t \in Topups, NEW a \in Admins, RequestRefund(t, a)
      PROVE  \A u \in Topups : Counted(refund'[u])
  <2> DEFINE row == [refund[t] EXCEPT !.status = "PENDING", !.by = a]
  <2>1. refund' = [refund EXCEPT ![t] = row] /\ refund[t].status = "NONE"
    BY <1>2 DEF RequestRefund
  <2>2. Counted(row)
    <3>1. ASSUME NEW x, x = row PROVE Counted(x)
      BY <1>0, <2>1, <3>1 DEF Counted, RefundRows
    <3> QED
      BY <3>1
  <2> HIDE DEF row
  <2> QED
    BY <1>1, <2>1, <2>2
<1>3. ASSUME NEW t \in Topups, NEW a \in Admins, NEW v \in {"APPROVED", "REJECTED"}, DecideRefund(t, a, v)
      PROVE  \A u \in Topups : Counted(refund'[u])
  <2> DEFINE row == [refund[t] EXCEPT !.status = v, !.decider = a]
  <2>1. refund' = [refund EXCEPT ![t] = row] /\ refund[t].status = "PENDING"
    BY <1>3 DEF DecideRefund
  <2>2. Counted(row)
    <3>1. ASSUME NEW x, x = row PROVE Counted(x)
      BY <1>0, <2>1, <3>1 DEF Counted, RefundRows
    <3> QED
      BY <3>1
  <2> HIDE DEF row
  <2> QED
    BY <1>1, <2>1, <2>2
<1>4. ASSUME NEW r \in Requests, NEW t \in Topups, ClaimRefund(r, t)
      PROVE  \A u \in Topups : Counted(refund'[u])
  <2> DEFINE n == refund[t].claims + 1
             row == [refund[t] EXCEPT !.status = "PROCESSING", !.claims = n, !.token = n, !.old = FALSE]
  <2>1. /\ refund' = [refund EXCEPT ![t] = row]
        /\ n \in 0..MaxClaims /\ n # 0
    <3>1. refund[t].claims \in 0..MaxClaims /\ refund[t].claims < MaxClaims
      BY <1>4 DEF ClaimRefund, Counted
    <3>2. n \in 0..MaxClaims /\ n # 0
      BY <3>1, WalletAssumption
    <3>3. refund' = [refund EXCEPT ![t] = row]
      BY <1>4 DEF ClaimRefund, Claimed
    <3> QED
      BY <3>2, <3>3
  <2>2. Counted(row)
    <3> HIDE DEF n
    <3>1. ASSUME NEW x, x = row PROVE Counted(x)
      BY <1>0, <2>1, <3>1 DEF Counted, RefundRows
    <3> QED
      BY <3>1
  <2> HIDE DEF row
  <2> QED
    BY <1>1, <2>1, <2>2
<1>5. ASSUME NEW t \in Topups, ClaimAges(t)
      PROVE  \A u \in Topups : Counted(refund'[u])
  <2> DEFINE row == [refund[t] EXCEPT !.old = TRUE]
  <2>1. refund' = [refund EXCEPT ![t] = row]
    BY <1>5 DEF ClaimAges
  <2>2. Counted(row)
    <3>1. ASSUME NEW x, x = row PROVE Counted(x)
      BY <1>0, <3>1 DEF Counted, RefundRows
    <3> QED
      BY <3>1
  <2> HIDE DEF row
  <2> QED
    BY <1>1, <2>1, <2>2
<1>6. 0 \in 0..MaxClaims
  BY WalletAssumption
<1>7. ASSUME NEW t \in Topups, NEW p \in Proofs, Settles(t, p)
      PROVE  \A u \in Topups : Counted(refund'[u])
  <2> DEFINE row == PaidAs(refund[t], "SUCCEEDED", p)
  <2>1. refund' = [refund EXCEPT ![t] = row]
    BY <1>7 DEF Settles, PaidAs
  <2>2. Counted(row)
    BY <1>0, <1>6, PaidRow DEF Counted, EndedAs, RefundStatus, RefundRows
  <2> HIDE DEF row
  <2> QED
    BY <1>1, <2>1, <2>2
<1>8. ASSUME NEW t \in Topups, NEW status \in Outcomes \ {"SUCCEEDED"},
             refund' = [refund EXCEPT ![t].status = status, ![t].token = 0, ![t].old = FALSE]
      PROVE  \A u \in Topups : Counted(refund'[u])
  <2> DEFINE row == EndedAs(refund[t], status, refund[t].proof)
  <2>1. status \in {"MANUAL_REQUIRED", "FAILED"} /\ status \in RefundStatus
    BY WalletAssumption DEF RefundStatus
  <2>2. refund' = [refund EXCEPT ![t] = row]
    BY <1>0, <1>8, <2>1, LeftClaim
  <2>3. Counted(row)
    BY <1>0, <1>6, <2>1 DEF Counted, EndedAs, RefundRows
  <2> HIDE DEF row
  <2> QED
    BY <1>1, <2>2, <2>3
<1>9. CASE UNCHANGED refund
  BY <1>9
<1>10. CASE Spending
  BY <1>9, <1>10 DEF Spending, Capture, RequestGrant, RejectGrant, ApproveGrant, PaySale, HoldOrder,
                     ReleaseOrder, RefundOrder, SettleOrder
<1>11. CASE Refunding
  <2>1. ASSUME NEW r \in Requests, NEW t \in Topups, FinishRefund(r, t)
        PROVE  \A u \in Topups : Counted(refund'[u])
    BY <1>7, <1>8, <2>1 DEF FinishRefund
  <2>2. ASSUME NEW t \in Topups, NEW a \in Admins, NEW p \in Proofs, ConfirmManual(t, a, p)
        PROVE  \A u \in Topups : Counted(refund'[u])
    BY <1>7, <2>2 DEF ConfirmManual
  <2> QED
    BY <1>2, <1>3, <1>4, <1>5, <1>9, <1>11, <2>1, <2>2 DEF Refunding, ReadRefund, Abort
<1> QED
  BY <1>9, <1>10, <1>11 DEF Next, vars

(* The wallet in order: its refunds, its accounts and the claims.          *)
WalletInOrder == Controlled /\ Explained /\ \A t \in Topups : Counted(refund[t])

(* The wallet starts in order, with empty sums.                            *)
LEMMA WalletStarts == Init => WalletInOrder
<1> SUFFICES ASSUME Init PROVE Explained /\ \A t \in Topups : Counted(refund[t])
  BY ControlledInit DEF WalletInOrder
<1>1. HoldRows(hold) /\ sale \in [Sales -> {"NONE", "CAPTURED"}]
  BY DEF Init, HoldRows, HoldRow
<1>2. HeldOrders(hold) = {} /\ HeldRefunds(ledger) = {} /\ ClosedTopups(topup) = {} /\ PaidSales(sale) = {}
  BY DEF Init, HeldOrders, HeldRefunds, ClosedTopups, PaidSales
<1>3. Worth({}) = 0
  BY WorthIsSum, SumOfNothing
<1>4. SumOfSettled(hold) = 0
  <2> DEFINE f == SettledOf(hold)
  <2>1. \A o \in Orders : f[o] = 0
    BY DEF Init, SettledOf
  <2>2. IsFiniteSet(Orders)
    BY WalletAssumption
  <2> HIDE DEF f
  <2>3. SumOf(f, Orders) = 0
    BY <2>1, <2>2, SumOfZeros
  <2> QED
    BY <2>3 DEF SumOfSettled, f
<1>5. wallet \in Money /\ wallet.available = 0 /\ wallet.held = 0 /\ wallet.topup = 0 /\ wallet.spent = 0
  BY DEF Init, Money
<1>6. Explained
  BY <1>1, <1>2, <1>3, <1>4, <1>5 DEF Explained, Accounts
<1>7. \A t \in Topups : Counted(refund[t])
  BY WalletAssumption DEF Init, NoRefund, Counted
<1> QED
  BY <1>6, <1>7

(* Every step of the wallet keeps it in order.                             *)
LEMMA WalletMoves == WalletInOrder /\ [Next]_vars => WalletInOrder'
BY ControlledStep, ExplainedStep, CountedStep DEF WalletInOrder

(* In order, the wallet is typed and explained.                            *)
LEMMA WalletMeans == WalletInOrder => TypeOK /\ WalletIsExplained
<1> SUFFICES ASSUME WalletInOrder PROVE TypeOK /\ WalletIsExplained
  OBVIOUS
<1>1. HeldIsExplained /\ Conserved
  <2>1. Posted("refund-hold", Topups) \ Posted("refund-settle", Topups) = HeldRefunds(ledger)
    BY DEF Posted, HeldRefunds
  <2> QED
    BY <2>1, SettledIsSum DEF WalletInOrder, Explained, Accounts, HeldIsExplained, Conserved, HeldOrders,
                              ClosedTopups, PaidSales
<1>2. refund \in [Topups -> [status: RefundStatus, by: Admins \cup Nobody,
                             decider: Admins \cup Nobody, claims: 0..MaxClaims,
                             token: 0..MaxClaims, old: BOOLEAN, proof: Proofs \cup {NoProof}]]
  BY DEF WalletInOrder, Controlled, WalletRows, RefundRows, Counted
<1>3. TypeOK
  BY <1>2 DEF TypeOK, WalletInOrder, Controlled, WalletRows, GrantRows, Explained, Accounts, Money, HoldRows,
              HoldRow, Counted
<1> QED
  BY <1>1, <1>3 DEF WalletIsExplained

(* Whatever interleaves in the wallet, every card-hour is accounted for.   *)
THEOREM WalletStaysExplained == Spec => [](TypeOK /\ WalletIsExplained)
<1> QED
  BY WalletStarts, WalletMoves, WalletMeans, PTL DEF Spec

(* And so it is at the desk of the wallet.                                 *)
THEOREM WalletStaysSound == OfficeSpec => []WalletIsSound
<1>1. OfficeInit => WalletInOrder
  BY WalletStarts DEF OfficeInit
<1>2. WalletInOrder /\ [OfficeNext]_officeVars => WalletInOrder'
  <2>1. [OfficeNext]_officeVars => [Next]_vars
    BY DEF OfficeNext, officeVars
  <2> QED
    BY <2>1, WalletMoves
<1>3. WalletInOrder => WalletIsSound
  BY WalletMeans DEF WalletIsSound
<1> QED
  BY <1>1, <1>2, <1>3, PTL DEF OfficeSpec

-----------------------------------------------------------------------------
(* The cases about purchases delivered by hand.                            *)
CaseRows == [status: Open \cup {"NONE", "RESOLUTION_PROPOSED", "RESOLVED", "CLOSED"}, outcome: Resolutions]
OfflineRows == [status: OfflineOpen \cup Ended \cup {"NONE"},
                by: Officers \cup {"none"}, verifier: Officers \cup {"none"},
                proof: Evidence \cup {NoEvidence}, saw: Evidence \cup {NoEvidence}]
Destinations == Open \cup OfflineOpen \cup Ended \cup {"none", "RESOLUTION_PROPOSED", "RESOLVED", "CLOSED"}
Businesses == [act: {"transition", "record", "handle", "verify"}, d: Disputed, n: Numbers,
               row: {"appeal", "offline"}, to: Destinations, by: Officers \cup {"none"},
               saw: Evidence \cup {NoEvidence}, fresh: BOOLEAN]

(* A request that is fresh saw the row it will write: what it was allowed  *)
(* to do then it is allowed to do now.                                     *)
Entitled(b, k, f) ==
    \/ b.act = "transition" /\ b.row = "appeal" /\ <<k.status, b.to>> \in AppealMoves
    \/ b.act = "record" /\ b.row = "appeal" /\ k.status # "NONE"
    \/ b.act = "handle" /\ b.row = "offline" /\ <<f.status, b.to>> \in OfflineMoves
    \/ /\ b.act = "verify" /\ b.row = "offline" /\ f.status = "PROOF_SUBMITTED"
       /\ b.by \in Officers \ {f.by}
       /\ b.saw = f.proof

OnCase(b) ==
    \/ b = NoBusiness
    \/ b \in Businesses /\ (b.fresh => Entitled(b, appeal[b.d][b.n], offline[b.d][b.n]))

Resolved(k) == k.outcome # "NONE" <=> k.status \in {"RESOLUTION_PROPOSED", "RESOLVED", "CLOSED"}

(* A proof that is in is evidence, and one that is verified was seen.      *)
Verified(f) ==
    /\ f.status = "PROOF_SUBMITTED" => f.proof \in Evidence
    /\ f.status = "INDEPENDENTLY_VERIFIED" =>
           f.verifier \in Officers \ {f.by} /\ f.proof \in Evidence /\ f.saw = f.proof

Worked ==
    /\ appeal \in [Disputed -> [Numbers -> CaseRows]]
    /\ offline \in [Disputed -> [Numbers -> OfflineRows]]
    /\ DOMAIN counter = Counters
    /\ \A c \in Counters : OnCase(counter[c])
    /\ \A d \in Disputed, n \in Numbers : Resolved(appeal[d][n]) /\ Verified(offline[d][n])
    /\ \A d \in Disputed, m, n \in Numbers :
           m < n /\ appeal[d][n].status # "NONE" => appeal[d][m].status = "CLOSED"

(* A table of tables in which one row is written.                          *)
LEMMA OneRow ==
    ASSUME NEW S, NEW T, NEW R, NEW f \in [S -> [T -> R]], NEW d \in S, NEW n \in T, NEW row \in R, NEW g,
           g = [f EXCEPT ![d][n] = row]
    PROVE  /\ g \in [S -> [T -> R]]
           /\ g[d][n] = row
           /\ \A x \in S, y \in T : x # d \/ y # n => g[x][y] = f[x][y]
<1>1. g = [f EXCEPT ![d] = [f[d] EXCEPT ![n] = row]]
  OBVIOUS
<1>2. [f[d] EXCEPT ![n] = row] \in [T -> R]
  OBVIOUS
<1> QED
  BY <1>1, <1>2

(* Where a case may move from, and to.                                     *)
LEMMA CaseMoves ==
    ASSUME NEW s, NEW t, <<s, t>> \in AppealMoves
    PROVE  /\ s \notin {"NONE", "CLOSED"}
           /\ t \in Open \cup {"RESOLUTION_PROPOSED", "RESOLVED", "CLOSED"}
           /\ t = "RESOLVED" => s = "RESOLUTION_PROPOSED"
           /\ t = "CLOSED" => s = "RESOLVED"
           /\ s \in {"RESOLUTION_PROPOSED", "RESOLVED"} => t \in {"UNDER_REVIEW", "RESOLVED", "CLOSED"}
  BY DEF AppealMoves, Open

(* Only an open offline refund is handled, and never back to approval.     *)
LEMMA RefundMoves ==
    ASSUME NEW s, NEW t, <<s, t>> \in OfflineMoves
    PROVE  /\ s \in OfflineOpen
           /\ t \in {"OFFLINE_PROCESSING", "PROOF_SUBMITTED", "CANCELLED", "FAILED"}
  BY DEF OfflineMoves, OfflineOpen

(* A request that is fresh stays entitled while its own row is not written *)
(* by others; a row that is not there yet concerns nobody.                 *)
LEMMA StillEntitled ==
    ASSUME NEW b, OnCase(b),
           b # NoBusiness /\ b.fresh =>
               /\ \/ appeal'[b.d][b.n] = appeal[b.d][b.n]
                  \/ appeal[b.d][b.n].status = "NONE"
                  \/ b.row # "appeal"
               /\ \/ offline'[b.d][b.n] = offline[b.d][b.n]
                  \/ offline[b.d][b.n].status = "NONE"
                  \/ b.row # "offline"
    PROVE  b = NoBusiness \/ (b \in Businesses /\ (b.fresh => Entitled(b, appeal'[b.d][b.n], offline'[b.d][b.n])))
<1> SUFFICES ASSUME b # NoBusiness
             PROVE  b \in Businesses /\ (b.fresh => Entitled(b, appeal'[b.d][b.n], offline'[b.d][b.n]))
  OBVIOUS
<1>1. b \in Businesses
  BY DEF OnCase
<1>2. ASSUME b.fresh
      PROVE  Entitled(b, appeal'[b.d][b.n], offline'[b.d][b.n])
  <2> DEFINE k == appeal[b.d][b.n]
             f == offline[b.d][b.n]
             kk == appeal'[b.d][b.n]
             ff == offline'[b.d][b.n]
  <2>1. /\ Entitled(b, k, f)
        /\ kk = k \/ k.status = "NONE" \/ b.row # "appeal"
        /\ ff = f \/ f.status = "NONE" \/ b.row # "offline"
    BY <1>2 DEF OnCase
  <2>2. <<k.status, b.to>> \in AppealMoves => k.status # "NONE"
    BY CaseMoves
  <2>3. <<f.status, b.to>> \in OfflineMoves => f.status # "NONE"
    BY RefundMoves DEF OfflineOpen
  <2> HIDE DEF k, f, kk, ff
  <2>4. Entitled(b, kk, ff)
    BY <2>1, <2>2, <2>3 DEF Entitled
  <2> QED
    BY <2>4 DEF kk, ff
<1> QED
  BY <1>1, <1>2

(* Who is not fresh may do nothing more.                                   *)
LEMMA OutdatedIsHarmless ==
    ASSUME NEW b \in Businesses
    PROVE  [b EXCEPT !.fresh = FALSE] \in Businesses /\ ~[b EXCEPT !.fresh = FALSE].fresh
           /\ [b EXCEPT !.fresh = FALSE] # NoBusiness
  BY DEF Businesses, NoBusiness

(* The requests after a row was written: those about it are outdated.      *)
LEMMA OthersStayOnCase ==
    ASSUME Worked, NEW row \in {"appeal", "offline"}, NEW d \in Disputed, NEW n \in Numbers,
           \A x \in Disputed, y \in Numbers :
               /\ appeal'[x][y] = appeal[x][y] \/ appeal[x][y].status = "NONE"
                      \/ (row = "appeal" /\ x = d /\ y = n)
               /\ offline'[x][y] = offline[x][y] \/ offline[x][y].status = "NONE"
                      \/ (row = "offline" /\ x = d /\ y = n),
           \/ counter' = Outdated(row, d, n)
           \/ \E c \in Counters : Settle(c, row, d, n)
    PROVE  DOMAIN counter' = Counters /\ \A e \in Counters : OnCase(counter[e])'
<1>1. DOMAIN counter' = Counters
  BY DEF Settle, Outdated
<1>2. ASSUME NEW e \in Counters
      PROVE  OnCase(counter[e])'
  <2> DEFINE b == counter[e]
  <2>1. OnCase(b)
    BY DEF Worked
  <2>2. \/ counter'[e] = NoBusiness
        \/ counter'[e] = [b EXCEPT !.fresh = FALSE] /\ b.act # "none"
        \/ /\ counter'[e] = b
           /\ b.act = "none" \/ b.row # row \/ b.d # d \/ b.n # n
    BY DEF Settle, Outdated
  <2>3. CASE counter'[e] = NoBusiness
    BY <2>3 DEF OnCase
  <2>4. CASE counter'[e] = [b EXCEPT !.fresh = FALSE] /\ b.act # "none"
    <3>1. b \in Businesses
      BY <2>1, <2>4 DEF OnCase, NoBusiness
    <3>2. counter'[e] \in Businesses /\ ~counter'[e].fresh
      BY <2>4, <3>1, OutdatedIsHarmless
    <3> QED
      BY <3>2 DEF OnCase
  <2>5. CASE /\ counter'[e] = b
             /\ b.act = "none" \/ b.row # row \/ b.d # d \/ b.n # n
    <3>1. b # NoBusiness => b \in Businesses
      BY <2>1 DEF OnCase
    <3>2. b # NoBusiness => b.d \in Disputed /\ b.n \in Numbers /\ b.act # "none" /\ b.row \in {"appeal", "offline"}
      BY <3>1 DEF Businesses
    <3>3. b # NoBusiness /\ b.fresh =>
               /\ \/ appeal'[b.d][b.n] = appeal[b.d][b.n]
                  \/ appeal[b.d][b.n].status = "NONE"
                  \/ b.row # "appeal"
               /\ \/ offline'[b.d][b.n] = offline[b.d][b.n]
                  \/ offline[b.d][b.n].status = "NONE"
                  \/ b.row # "offline"
      BY <2>5, <3>2
    <3>4. b = NoBusiness \/ (b \in Businesses /\ (b.fresh => Entitled(b, appeal'[b.d][b.n], offline'[b.d][b.n])))
      BY <2>1, <3>3, StillEntitled
    <3> QED
      BY <2>5, <3>4 DEF OnCase
  <2> QED
    BY <2>2, <2>3, <2>4, <2>5
<1> QED
  BY <1>1, <1>2

(* A step that writes one case, or the record of its refund, or neither.   *)
LEMMA OneCaseWritten ==
    ASSUME Worked, NEW d \in Disputed, NEW n \in Numbers,
           appeal' \in [Disputed -> [Numbers -> CaseRows]],
           offline' \in [Disputed -> [Numbers -> OfflineRows]],
           \A x \in Disputed, y \in Numbers : x # d \/ y # n =>
               appeal'[x][y] = appeal[x][y] /\ offline'[x][y] = offline[x][y],
           Resolved(appeal'[d][n]), Verified(offline'[d][n]),
           appeal[d][n].status = "CLOSED" => appeal'[d][n] = appeal[d][n],
           offline[d][n].status \in Ended => offline'[d][n] = offline[d][n],
           \/ appeal'[d][n].status = "NONE"
           \/ appeal[d][n].status # "NONE"
           \/ \A m \in Numbers : m < n => appeal[d][m].status = "CLOSED",
           DOMAIN counter' = Counters,
           \A e \in Counters : OnCase(counter[e])'
    PROVE  Worked' /\ CasesStayClosed
<1>1. /\ \A x \in Disputed, y \in Numbers : Resolved(appeal[x][y]) /\ Verified(offline[x][y])
      /\ \A x \in Disputed, m, y \in Numbers :
             m < y /\ appeal[x][y].status # "NONE" => appeal[x][m].status = "CLOSED"
  BY DEF Worked
<1>2. \A x \in Disputed, y \in Numbers : Resolved(appeal'[x][y]) /\ Verified(offline'[x][y])
  BY <1>1
<1>3. ASSUME NEW x \in Disputed, NEW m \in Numbers, NEW y \in Numbers,
             m < y, appeal'[x][y].status # "NONE"
      PROVE  appeal'[x][m].status = "CLOSED"
  <2>1. CASE x # d
    BY <1>1, <1>3, <2>1
  <2>2. CASE x = d /\ y = n
    <3>1. m # n /\ appeal[d][m].status = "CLOSED"
      BY <1>1, <1>3, <2>2 DEF Numbers
    <3> QED
      BY <3>1, <2>2
  <2>3. CASE x = d /\ y # n
    <3>1. appeal[d][m].status = "CLOSED"
      BY <1>1, <1>3, <2>3
    <3> QED
      BY <3>1, <2>3
  <2> QED
    BY <2>1, <2>2, <2>3
<1>4. CasesStayClosed
  BY DEF CasesStayClosed
<1> QED
  BY <1>2, <1>3, <1>4 DEF Worked

(* A request that looks at its row, or is withdrawn.                       *)
LEMMA LookingKeepsCases ==
    ASSUME Worked, NEW c \in Counters, NEW b, UNCHANGED <<appeal, offline>>,
           counter' = [counter EXCEPT ![c] = b], OnCase(b)
    PROVE  Worked' /\ CasesStayClosed
<1>1. DOMAIN counter' = Counters
  BY DEF Worked
<1>2. \A e \in Counters : OnCase(counter[e])'
  BY DEF Worked, OnCase
<1>3. CasesStayClosed
  BY DEF CasesStayClosed
<1> QED
  BY <1>1, <1>2, <1>3 DEF Worked

(* A request that reads the case starts out entitled to what it read.      *)
LEMMA ReadersKeepCases ==
    ASSUME Worked, NEW c \in Counters, NEW d \in Disputed, NEW n \in Numbers,
           \/ \E to \in Open \cup {"RESOLUTION_PROPOSED", "RESOLVED", "CLOSED"} : ReadTransition(c, d, n, to)
           \/ \E a \in Officers : ReadRecord(c, d, n, a) \/ ReadVerify(c, d, n, a)
           \/ \E to \in OfflineOpen \cup Ended : ReadHandling(c, d, n, to)
    PROVE  Worked' /\ CasesStayClosed
<1> DEFINE Seen(act, row, to, by) == [act |-> act, d |-> d, n |-> n, row |-> row, to |-> to,
                                      by |-> by, saw |-> offline[d][n].proof, fresh |-> TRUE]
<1>1. offline[d][n].proof \in Evidence \cup {NoEvidence}
  BY DEF Worked, OfflineRows
<1>2. \A act \in {"transition", "record", "handle", "verify"}, row \in {"appeal", "offline"},
         to \in Destinations, by \in Officers \cup {"none"} :
          /\ Seen(act, row, to, by) \in Businesses
          /\ Look(c, act, d, n, row, to, by) =>
                 /\ UNCHANGED <<appeal, offline>>
                 /\ counter' = [counter EXCEPT ![c] = Seen(act, row, to, by)]
  BY <1>1 DEF Businesses, Look
<1>3. ASSUME NEW to \in Open \cup {"RESOLUTION_PROPOSED", "RESOLVED", "CLOSED"}, ReadTransition(c, d, n, to)
      PROVE  Worked' /\ CasesStayClosed
  <2>1. to \in Destinations
    BY DEF Destinations
  <2> DEFINE b == Seen("transition", "appeal", to, "none")
  <2>2. b \in Businesses /\ UNCHANGED <<appeal, offline>> /\ counter' = [counter EXCEPT ![c] = b]
    BY <1>2, <1>3, <2>1 DEF ReadTransition
  <2>3. Entitled(b, appeal[d][n], offline[d][n]) /\ b.d = d /\ b.n = n
    BY <1>3 DEF ReadTransition, Entitled
  <2> HIDE DEF b
  <2>4. OnCase(b)
    BY <2>2, <2>3 DEF OnCase
  <2> QED
    BY <2>2, <2>4, LookingKeepsCases
<1>4. ASSUME NEW a \in Officers, ReadRecord(c, d, n, a)
      PROVE  Worked' /\ CasesStayClosed
  <2>1. "none" \in Destinations
    BY DEF Destinations
  <2> DEFINE b == Seen("record", "appeal", "none", a)
  <2>2. b \in Businesses /\ UNCHANGED <<appeal, offline>> /\ counter' = [counter EXCEPT ![c] = b]
    BY <1>2, <1>4, <2>1 DEF ReadRecord
  <2>3. Entitled(b, appeal[d][n], offline[d][n]) /\ b.d = d /\ b.n = n
    BY <1>4 DEF ReadRecord, Entitled
  <2> HIDE DEF b
  <2>4. OnCase(b)
    BY <2>2, <2>3 DEF OnCase
  <2> QED
    BY <2>2, <2>4, LookingKeepsCases
<1>5. ASSUME NEW a \in Officers, ReadVerify(c, d, n, a)
      PROVE  Worked' /\ CasesStayClosed
  <2>1. "none" \in Destinations
    BY DEF Destinations
  <2> DEFINE b == Seen("verify", "offline", "none", a)
  <2>2. b \in Businesses /\ UNCHANGED <<appeal, offline>> /\ counter' = [counter EXCEPT ![c] = b]
    BY <1>2, <1>5, <2>1 DEF ReadVerify
  <2>3. Entitled(b, appeal[d][n], offline[d][n]) /\ b.d = d /\ b.n = n
    BY <1>5 DEF ReadVerify, Entitled
  <2> HIDE DEF b
  <2>4. OnCase(b)
    BY <2>2, <2>3 DEF OnCase
  <2> QED
    BY <2>2, <2>4, LookingKeepsCases
<1>6. ASSUME NEW to \in OfflineOpen \cup Ended, ReadHandling(c, d, n, to)
      PROVE  Worked' /\ CasesStayClosed
  <2>1. to \in Destinations
    BY DEF Destinations
  <2> DEFINE b == Seen("handle", "offline", to, "none")
  <2>2. b \in Businesses /\ UNCHANGED <<appeal, offline>> /\ counter' = [counter EXCEPT ![c] = b]
    BY <1>2, <1>6, <2>1 DEF ReadHandling
  <2>3. Entitled(b, appeal[d][n], offline[d][n]) /\ b.d = d /\ b.n = n
    BY <1>6 DEF ReadHandling, Entitled
  <2> HIDE DEF b
  <2>4. OnCase(b)
    BY <2>2, <2>3 DEF OnCase
  <2> QED
    BY <2>2, <2>4, LookingKeepsCases
<1> QED
  BY <1>3, <1>4, <1>5, <1>6

(* A buyer opens a case; it is remarked upon.                              *)
LEMMA OpeningKeepsCases ==
    ASSUME Worked, NEW d \in Disputed, NEW n \in Numbers, OpenAppeal(d, n) \/ Remark(d, n)
    PROVE  Worked' /\ CasesStayClosed
<1>1. /\ appeal \in [Disputed -> [Numbers -> CaseRows]]
      /\ offline \in [Disputed -> [Numbers -> OfflineRows]]
      /\ DOMAIN counter = Counters
      /\ \A c \in Counters : OnCase(counter[c])
      /\ Resolved(appeal[d][n]) /\ Verified(offline[d][n])
  BY DEF Worked
<1>2. CASE OpenAppeal(d, n)
  <2> DEFINE row == [status |-> "OPEN", outcome |-> "NONE"]
  <2>1. row \in CaseRows /\ Resolved(row) /\ row.status = "OPEN"
    BY DEF CaseRows, Open, Resolutions, Resolved
  <2>2. appeal[d][n].status = "NONE" /\ appeal[d][n].outcome = "NONE"
    BY <1>2 DEF OpenAppeal, NoCase
  <2>3. appeal' = [appeal EXCEPT ![d][n] = row]
    <3> DEFINE k == appeal[d][n]
               opened == [k EXCEPT !.status = "OPEN"]
    <3>1. appeal' = [appeal EXCEPT ![d][n] = opened]
      BY <1>2 DEF OpenAppeal
    <3>2. k = NoCase /\ opened = [k EXCEPT !.status = "OPEN"]
      BY <1>2 DEF OpenAppeal
    <3> HIDE DEF k, opened
    <3>3. opened = row
      BY <3>2 DEF NoCase
    <3> QED
      BY <3>1, <3>3
  <2> HIDE DEF row
  <2>4. /\ appeal' \in [Disputed -> [Numbers -> CaseRows]]
        /\ appeal'[d][n] = row
        /\ \A x \in Disputed, y \in Numbers : x # d \/ y # n => appeal'[x][y] = appeal[x][y]
    BY <1>1, <2>1, <2>3, OneRow
  <2>5. UNCHANGED <<offline, counter>>
    BY <1>2 DEF OpenAppeal
  <2>6. ASSUME NEW e \in Counters
        PROVE  OnCase(counter[e])'
    <3> DEFINE b == counter[e]
    <3>1. OnCase(b)
      BY <1>1
    <3>2. b # NoBusiness => b.d \in Disputed /\ b.n \in Numbers
      BY <3>1 DEF OnCase, Businesses
    <3>3. b # NoBusiness => appeal'[b.d][b.n] = appeal[b.d][b.n] \/ appeal[b.d][b.n].status = "NONE"
      BY <2>2, <2>4, <3>2
    <3>4. b = NoBusiness \/ (b \in Businesses /\ (b.fresh => Entitled(b, appeal'[b.d][b.n], offline'[b.d][b.n])))
      BY <2>5, <3>1, <3>3, StillEntitled
    <3> QED
      BY <2>5, <3>4 DEF OnCase
  <2>7. \A m \in Numbers : m < n => appeal[d][m].status = "CLOSED"
    BY <1>2 DEF OpenAppeal
  <2> QED
    BY <1>1, <2>1, <2>2, <2>4, <2>5, <2>6, <2>7, OneCaseWritten
<1>3. CASE Remark(d, n)
  <2>1. UNCHANGED <<appeal, offline>> /\ counter' = Outdated("appeal", d, n)
    BY <1>3 DEF Remark
  <2>2. DOMAIN counter' = Counters /\ \A e \in Counters : OnCase(counter[e])'
    BY <2>1, OthersStayOnCase
  <2> QED
    BY <1>1, <2>1, <2>2, OneCaseWritten
<1> QED
  BY <1>2, <1>3

(* A case moves.                                                           *)
LEMMA TransitionKeepsCases ==
    ASSUME Worked, NEW c \in Counters, NEW d \in Disputed, NEW n \in Numbers, NEW outcome \in Resolutions,
           Transition(c, d, n, outcome)
    PROVE  Worked' /\ CasesStayClosed
<1>1. /\ appeal \in [Disputed -> [Numbers -> CaseRows]]
      /\ offline \in [Disputed -> [Numbers -> OfflineRows]]
      /\ OnCase(counter[c])
      /\ Resolved(appeal[d][n]) /\ Verified(offline[d][n])
  BY DEF Worked
<1> DEFINE s   == appeal[d][n].status
           old == appeal[d][n].outcome
           to  == counter[c].to
           row == [status |-> to, outcome |-> outcome]
<1>2. <<s, to>> \in AppealMoves
  <2>1. counter[c].act = "transition" /\ counter[c].fresh /\ counter[c].d = d /\ counter[c].n = n
    BY DEF Transition, About
  <2>2. Entitled(counter[c], appeal[d][n], offline[d][n])
    BY <1>1, <2>1 DEF OnCase, NoBusiness
  <2> QED
    BY <2>1, <2>2 DEF Entitled
<1>3. outcome \in OutcomesOf(s, to, old) /\ appeal' = [appeal EXCEPT ![d][n] = row]
      /\ Settle(c, "appeal", d, n) /\ UNCHANGED offline
  BY DEF Transition
<1>4. Resolved(appeal[d][n]) /\ (old # "NONE" <=> s \in {"RESOLUTION_PROPOSED", "RESOLVED", "CLOSED"})
  BY <1>1 DEF Resolved
<1> HIDE DEF s, old, to
<1>5. row \in CaseRows
  BY <1>2, CaseMoves DEF CaseRows
<1>6. outcome # "NONE" <=> to \in {"RESOLUTION_PROPOSED", "RESOLVED", "CLOSED"}
  <2>1. /\ s \notin {"NONE", "CLOSED"}
        /\ to \in Open \cup {"RESOLUTION_PROPOSED", "RESOLVED", "CLOSED"}
        /\ to = "RESOLVED" => s = "RESOLUTION_PROPOSED"
        /\ to = "CLOSED" => s = "RESOLVED"
        /\ s \in {"RESOLUTION_PROPOSED", "RESOLVED"} => to \in {"UNDER_REVIEW", "RESOLVED", "CLOSED"}
    BY <1>2, CaseMoves
  <2>2. CASE to = "RESOLUTION_PROPOSED"
    BY <1>3, <2>2 DEF OutcomesOf
  <2>3. CASE to = "UNDER_REVIEW" /\ s \in {"RESOLUTION_PROPOSED", "RESOLVED"}
    BY <1>3, <2>3 DEF OutcomesOf
  <2>4. CASE to # "RESOLUTION_PROPOSED" /\ ~(to = "UNDER_REVIEW" /\ s \in {"RESOLUTION_PROPOSED", "RESOLVED"})
    <3>1. outcome = old
      BY <1>3, <2>4 DEF OutcomesOf
    <3> QED
      BY <1>4, <2>1, <2>4, <3>1 DEF Open
  <2> QED
    BY <2>2, <2>3, <2>4
<1>7. Resolved(row)
  BY <1>6 DEF Resolved
<1> HIDE DEF row
<1>8. /\ appeal' \in [Disputed -> [Numbers -> CaseRows]]
      /\ appeal'[d][n] = row
      /\ \A x \in Disputed, y \in Numbers : x # d \/ y # n => appeal'[x][y] = appeal[x][y]
  BY <1>1, <1>3, <1>5, OneRow
<1>9. DOMAIN counter' = Counters /\ \A e \in Counters : OnCase(counter[e])'
  BY <1>3, <1>8, OthersStayOnCase
<1>10. appeal[d][n].status \notin {"NONE", "CLOSED"}
  BY <1>2, CaseMoves DEF s
<1> QED
  BY <1>1, <1>3, <1>7, <1>8, <1>9, <1>10, OneCaseWritten

(* The record of a refund is made, handled and verified.                   *)
LEMMA OneRefundRecord ==
    ASSUME Worked, NEW c \in Counters, NEW d \in Disputed, NEW n \in Numbers,
           NEW f \in OfflineRows, offline' = [offline EXCEPT ![d][n] = f], UNCHANGED appeal,
           Verified(f), offline[d][n].status \notin Ended,
           \/ Settle(c, "offline", d, n)
           \/ Settle(c, "appeal", d, n) /\ offline[d][n].status = "NONE"
    PROVE  Worked' /\ CasesStayClosed
<1>1. /\ appeal \in [Disputed -> [Numbers -> CaseRows]]
      /\ offline \in [Disputed -> [Numbers -> OfflineRows]]
      /\ Resolved(appeal[d][n])
  BY DEF Worked
<1>2. /\ offline' \in [Disputed -> [Numbers -> OfflineRows]]
      /\ offline'[d][n] = f
      /\ \A x \in Disputed, y \in Numbers : x # d \/ y # n => offline'[x][y] = offline[x][y]
  BY <1>1, OneRow
<1>3. DOMAIN counter' = Counters /\ \A e \in Counters : OnCase(counter[e])'
  <2>1. CASE Settle(c, "offline", d, n)
    BY <1>2, <2>1, OthersStayOnCase
  <2>2. CASE Settle(c, "appeal", d, n) /\ offline[d][n].status = "NONE"
    BY <1>2, <2>2, OthersStayOnCase
  <2> QED
    BY <2>1, <2>2
<1> QED
  BY <1>1, <1>2, <1>3, OneCaseWritten

(* Recording an offline refund writes a first row.                         *)
LEMMA RecordKeepsCases ==
    ASSUME Worked, NEW c \in Counters, NEW d \in Disputed, NEW n \in Numbers, Record(c, d, n)
    PROVE  Worked' /\ CasesStayClosed
<1>1. counter[c] \in Businesses
  BY DEF Worked, OnCase, Record, About, NoBusiness
<1> DEFINE g == offline[d][n]
           f == [g EXCEPT !.status = "APPROVED_FOR_OFFLINE_HANDLING", !.by = counter[c].by]
<1>2. g = NoOffline /\ offline' = [offline EXCEPT ![d][n] = f] /\ UNCHANGED appeal /\ Settle(c, "appeal", d, n)
  BY DEF Record
<1>3. f = [g EXCEPT !.status = "APPROVED_FOR_OFFLINE_HANDLING", !.by = counter[c].by]
      /\ offline[d][n].status = "NONE"
  BY <1>2 DEF NoOffline
<1> HIDE DEF f, g
<1>4. f = [status |-> "APPROVED_FOR_OFFLINE_HANDLING", by |-> counter[c].by, verifier |-> "none",
           proof |-> NoEvidence, saw |-> NoEvidence]
  BY <1>2, <1>3 DEF NoOffline
<1>5. f \in OfflineRows
  BY <1>1, <1>4 DEF OfflineRows, OfflineOpen, Businesses
<1>6. Verified(f)
  BY <1>4 DEF Verified
<1>7. offline[d][n].status \notin Ended
  BY <1>3 DEF Ended
<1> QED
  BY <1>2, <1>3, <1>5, <1>6, <1>7, OneRefundRecord

(* Handling an offline refund writes an open row that nobody has verified. *)
LEMMA HandlingKeepsCases ==
    ASSUME Worked, NEW c \in Counters, NEW d \in Disputed, NEW n \in Numbers,
           NEW proof \in Evidence \cup {NoEvidence}, Handle(c, d, n, proof)
    PROVE  Worked' /\ CasesStayClosed
<1> DEFINE g  == offline[d][n]
           to == counter[c].to
           f  == [g EXCEPT !.status = to, !.proof = proof]
<1>1. <<g.status, to>> \in OfflineMoves
  <2>1. counter[c].act = "handle" /\ counter[c].fresh /\ counter[c].d = d /\ counter[c].n = n
    BY DEF Handle, About
  <2>2. Entitled(counter[c], appeal[d][n], offline[d][n])
    BY <2>1 DEF Worked, OnCase, NoBusiness
  <2> QED
    BY <2>1, <2>2 DEF Entitled
<1>2. /\ offline' = [offline EXCEPT ![d][n] = f]
      /\ IF to = "PROOF_SUBMITTED" THEN proof \in Evidence ELSE proof = g.proof
      /\ UNCHANGED appeal
      /\ Settle(c, "offline", d, n)
  BY DEF Handle
<1>3. g \in OfflineRows /\ f = [g EXCEPT !.status = to, !.proof = proof]
  BY DEF Worked
<1>4. /\ g.status \in OfflineOpen
      /\ to \in {"OFFLINE_PROCESSING", "PROOF_SUBMITTED", "CANCELLED", "FAILED"}
  BY <1>1, RefundMoves
<1>5. offline[d][n].status \notin Ended
  BY <1>4 DEF OfflineOpen, Ended
<1> HIDE DEF f, g, to
<1>6. /\ f \in OfflineRows
      /\ f.status = to /\ f.proof = proof
  BY <1>3, <1>4 DEF OfflineRows, OfflineOpen, Ended
<1>7. Verified(f)
  BY <1>2, <1>4, <1>6 DEF Verified
<1> QED
  BY <1>2, <1>5, <1>6, <1>7, OneRefundRecord

(* The verifier is never the officer whose evidence was seen.              *)
LEMMA VerifyKeepsCases ==
    ASSUME Worked, NEW c \in Counters, NEW d \in Disputed, NEW n \in Numbers, Verify(c, d, n)
    PROVE  Worked' /\ CasesStayClosed
<1> DEFINE g == offline[d][n]
           b == counter[c]
           f == [g EXCEPT !.status = "INDEPENDENTLY_VERIFIED", !.verifier = b.by, !.saw = b.saw]
<1>1. /\ b.act = "verify" /\ b.fresh /\ b.d = d /\ b.n = n
      /\ offline' = [offline EXCEPT ![d][n] = f]
      /\ UNCHANGED appeal
      /\ Settle(c, "offline", d, n)
  <2>1. offline' = [offline EXCEPT ![d][n] = f]
    BY DEF Verify
  <2> HIDE DEF f
  <2> QED
    BY <2>1 DEF Verify, About
<1>2. Entitled(b, appeal[d][n], g)
  BY <1>1 DEF Worked, OnCase, NoBusiness
<1>3. g.status = "PROOF_SUBMITTED" /\ b.by \in Officers \ {g.by} /\ b.saw = g.proof
  BY <1>1, <1>2 DEF Entitled
<1>4. g \in OfflineRows /\ f = [g EXCEPT !.status = "INDEPENDENTLY_VERIFIED", !.verifier = b.by, !.saw = b.saw]
  BY DEF Worked
<1>5. g.proof \in Evidence
  BY <1>3 DEF Worked, Verified
<1>6. offline[d][n].status \notin Ended
  BY <1>3 DEF Ended
<1> HIDE DEF f, g, b
<1>7. /\ f \in OfflineRows
      /\ f.status = "INDEPENDENTLY_VERIFIED" /\ f.verifier = b.by /\ f.saw = b.saw
      /\ f.by = g.by /\ f.proof = g.proof
  BY <1>3, <1>4 DEF OfflineRows, Ended
<1>8. Verified(f)
  BY <1>3, <1>5, <1>7 DEF Verified
<1> QED
  BY <1>1, <1>6, <1>7, <1>8, OneRefundRecord

(* No case is open at first and no request is under way.                   *)
LEMMA WorkedInit == AppealInit => Worked
<1> SUFFICES ASSUME AppealInit PROVE Worked
  OBVIOUS
<1>1. appeal \in [Disputed -> [Numbers -> CaseRows]]
  BY DEF AppealInit, NoCase, CaseRows, Resolutions
<1>2. offline \in [Disputed -> [Numbers -> OfflineRows]]
  BY DEF AppealInit, NoOffline, OfflineRows
<1>3. DOMAIN counter = Counters /\ \A c \in Counters : OnCase(counter[c])
  BY DEF AppealInit, OnCase
<1>4. \A d \in Disputed, n \in Numbers : Resolved(appeal[d][n]) /\ Verified(offline[d][n])
  BY DEF AppealInit, NoCase, NoOffline, Resolved, Verified
<1>5. \A d \in Disputed, n \in Numbers : appeal[d][n].status = "NONE"
  BY DEF AppealInit, NoCase
<1> QED
  BY <1>1, <1>2, <1>3, <1>4, <1>5 DEF Worked

(* No step of the appeals disturbs the invariant or moves a closed case.   *)
LEMMA WorkedStep == Worked /\ [AppealNext]_appealVars => Worked' /\ (CasesStayClosed \/ UNCHANGED appealVars)
<1> SUFFICES ASSUME Worked, [AppealNext]_appealVars
             PROVE  Worked' /\ (CasesStayClosed \/ UNCHANGED appealVars)
  OBVIOUS
<1>1. CASE \E d \in Disputed, n \in Numbers : OpenAppeal(d, n) \/ Remark(d, n)
  BY <1>1, OpeningKeepsCases
<1>2. ASSUME NEW c \in Counters, NEW d \in Disputed, NEW n \in Numbers,
             \/ \E to \in Open \cup {"RESOLUTION_PROPOSED", "RESOLVED", "CLOSED"} : ReadTransition(c, d, n, to)
             \/ \E a \in Officers : ReadRecord(c, d, n, a) \/ ReadVerify(c, d, n, a)
             \/ \E to \in OfflineOpen \cup Ended : ReadHandling(c, d, n, to)
      PROVE  Worked' /\ CasesStayClosed
  BY <1>2, ReadersKeepCases
<1>3. ASSUME NEW c \in Counters, NEW d \in Disputed, NEW n \in Numbers,
             \/ \E outcome \in Resolutions : Transition(c, d, n, outcome)
             \/ Record(c, d, n)
             \/ \E proof \in Evidence \cup {NoEvidence} : Handle(c, d, n, proof)
             \/ Verify(c, d, n)
      PROVE  Worked' /\ CasesStayClosed
  BY <1>3, TransitionKeepsCases, RecordKeepsCases, HandlingKeepsCases, VerifyKeepsCases
<1>4. ASSUME NEW c \in Counters, Withdraw(c)
      PROVE  Worked' /\ CasesStayClosed
  <2>1. OnCase(NoBusiness)
    BY DEF OnCase
  <2> QED
    BY <1>4, <2>1, LookingKeepsCases DEF Withdraw
<1>5. CASE UNCHANGED appealVars
  <2>1. \A c \in Counters : OnCase(counter[c])'
    BY <1>5 DEF Worked, OnCase, appealVars
  <2> QED
    BY <1>5, <2>1 DEF Worked, appealVars
<1> QED
  BY <1>1, <1>2, <1>3, <1>4, <1>5 DEF AppealNext

(* A purchase has at most one open case: those before its last are closed. *)
LEMMA OneOpenCase ==
    ASSUME Worked, NEW d \in Disputed
    PROVE  Cardinality({n \in Numbers : IsOpen(appeal[d][n])}) <= 1
<1> DEFINE S == {n \in Numbers : IsOpen(appeal[d][n])}
<1>1. \A m, n \in S : m = n
  <2> SUFFICES ASSUME NEW m \in S, NEW n \in S, m < n PROVE FALSE
    BY DEF Numbers
  <2> QED
    BY DEF Worked, IsOpen
<1>2. CASE S = {}
  BY <1>2, FS_EmptySet
<1>3. CASE S # {}
  <2> PICK k \in S : TRUE
    BY <1>3
  <2>1. S = {k}
    BY <1>1
  <2> QED
    BY <2>1, FS_Singleton
<1> QED
  BY <1>2, <1>3

(* The invariant gives the property of the runs.                           *)
LEMMA WorkedMeans == Worked => AppealTypeOK /\ CasesAreOrderly /\ RefundIsVerified
<1> SUFFICES ASSUME Worked PROVE AppealTypeOK /\ CasesAreOrderly /\ RefundIsVerified
  OBVIOUS
<1>1. AppealTypeOK
  <2>1. \A c \in Counters : counter[c] # NoBusiness =>
            counter[c].act \in {"transition", "record", "handle", "verify"}
    BY DEF Worked, OnCase, Businesses
  <2> QED
    BY <2>1 DEF Worked, AppealTypeOK, CaseRows, OfflineRows
<1>2. CasesAreOrderly
  BY OneOpenCase DEF Worked, CasesAreOrderly, Resolved
<1>3. RefundIsVerified
  BY DEF Worked, RefundIsVerified, Verified
<1> QED
  BY <1>1, <1>2, <1>3

-----------------------------------------------------------------------------
(* The questions about top-ups.                                            *)
Reasons == {"none", "PENDING_TIMEOUT", "CLOSED_BUT_CHARGED", "RECONCILIATION_REQUIRED"}
ClaimRows == [status: {"NONE", "OPEN", "UNDER_REVIEW", "RESOLVED", "CLOSED"}, reason: Reasons,
              assigned: Clerks \cup {"none"}, version: Int, seen: Int]

(* The five places a question can be in, and what is on record there.      *)
Words == {"CREATE", "START_REVIEW", "RESOLVE", "CLOSE"}
StatusAt(v) == CASE v = 0 -> "NONE" [] v = 1 -> "OPEN" [] v = 2 -> "UNDER_REVIEW" [] v = 3 -> "RESOLVED"
                 [] OTHER -> "CLOSED"
OnPath(v, s, j) ==
    /\ v \in 0..4
    /\ s = StatusAt(v)
    /\ j \in Seq(Words) /\ Len(j) = v
    /\ \A i \in 1..v : j[i] = Path[i]

ActionAt(v) == CASE v = 1 -> "START_REVIEW" [] v = 2 -> "RESOLVE" [] v = 3 -> "CLOSE" [] OTHER -> "none"

(* A clerk carries a version that there has been, and the step that leads  *)
(* on from there.                                                          *)
Carries(b, table) ==
    \/ b = NoDesk
    \/ /\ b.o \in Questioned
       /\ b.version \in 1..3
       /\ b.version <= table[b.o].version
       /\ b.action = ActionAt(b.version)

Questions ==
    /\ claim \in [Questioned -> ClaimRows]
    /\ DOMAIN journal = Questioned
    /\ filing \in [Filings -> [o: Questioned \cup {"none"}, reason: Reasons]]
    /\ DOMAIN clerk = Clerks
    /\ \A o \in Questioned : OnPath(claim[o].version, claim[o].status, journal[o]) /\ claim[o].seen <= claim[o].version
    /\ \A a \in Clerks : Carries(clerk[a], claim)

(* The path itself.                                                        *)
LEMMA PathEntries ==
    /\ Len(Path) = 4
    /\ Path[1] = "CREATE" /\ Path[2] = "START_REVIEW" /\ Path[3] = "RESOLVE" /\ Path[4] = "CLOSE"
    /\ \A i \in 1..4 : Path[i] \in Words
<1>1. /\ Len(Path) = 4
      /\ Path[1] = "CREATE" /\ Path[2] = "START_REVIEW" /\ Path[3] = "RESOLVE" /\ Path[4] = "CLOSE"
  BY DEF Path
<1>2. \A i \in 1..4 : i = 1 \/ i = 2 \/ i = 3 \/ i = 4
  OBVIOUS
<1> QED
  BY <1>1, <1>2 DEF Words

(* Nobody has asked at first, so every question is at place zero of its    *)
(* path.                                                                   *)
LEMMA QuestionsInit == ClaimInit => Questions
<1> SUFFICES ASSUME ClaimInit PROVE Questions
  OBVIOUS
<1>1. /\ claim \in [Questioned -> ClaimRows]
      /\ DOMAIN journal = Questioned
      /\ filing \in [Filings -> [o: Questioned \cup {"none"}, reason: Reasons]]
      /\ DOMAIN clerk = Clerks
  BY DEF ClaimInit, NoClaim, NoDraft, ClaimRows, Reasons
<1>2. OnPath(0, "NONE", <<>>)
  BY EmptySeq DEF OnPath, StatusAt
<1>3. \A o \in Questioned : /\ claim[o].version = 0 /\ claim[o].status = "NONE" /\ claim[o].seen = 0
                            /\ journal[o] = <<>>
  BY DEF ClaimInit, NoClaim
<1>4. \A a \in Clerks : Carries(clerk[a], claim)
  BY DEF ClaimInit, Carries
<1> QED
  BY <1>1, <1>2, <1>3, <1>4 DEF Questions

(* The versions of a question only grow.                                   *)
LEMMA StillCarries ==
    ASSUME NEW b, Carries(b, claim), claim \in [Questioned -> ClaimRows], claim' \in [Questioned -> ClaimRows],
           \A o \in Questioned : claim[o].version <= claim'[o].version
    PROVE  Carries(b, claim')
<1>1. CASE b = NoDesk
  BY <1>1 DEF Carries
<1>2. CASE b # NoDesk
  <2>1. /\ b.o \in Questioned
        /\ b.version \in 1..3
        /\ b.version <= claim[b.o].version
        /\ b.action = ActionAt(b.version)
    BY <1>2 DEF Carries
  <2>2. claim[b.o].version \in Int /\ claim'[b.o].version \in Int
    BY <2>1 DEF ClaimRows
  <2>3. b.version <= claim'[b.o].version
    BY <2>1, <2>2
  <2> QED
    BY <2>1, <2>3 DEF Carries
<1> QED
  BY <1>1, <1>2

(* A question is written, and its record with it.                          *)
LEMMA OneQuestion ==
    ASSUME Questions, NEW o \in Questioned, NEW c \in ClaimRows, NEW j,
           claim' = [claim EXCEPT ![o] = c], journal'[o] = j, DOMAIN journal' = Questioned,
           \A x \in Questioned \ {o} : journal'[x] = journal[x],
           OnPath(c.version, c.status, j), c.seen <= c.version, claim[o].version <= c.version,
           filing' \in [Filings -> [o: Questioned \cup {"none"}, reason: Reasons]],
           \/ clerk' = clerk
           \/ \E a \in Clerks : clerk' = [clerk EXCEPT ![a] = NoDesk]
    PROVE  Questions'
<1>1. /\ claim' \in [Questioned -> ClaimRows]
      /\ claim'[o] = c
      /\ \A x \in Questioned \ {o} : claim'[x] = claim[x]
  BY DEF Questions
<1>2. \A x \in Questioned : claim[x].version <= claim'[x].version
  BY <1>1 DEF Questions, ClaimRows
<1>3. ASSUME NEW a \in Clerks
      PROVE  Carries(clerk'[a], claim')
  <2>1. Carries(clerk[a], claim)
    BY DEF Questions
  <2>2. clerk'[a] = clerk[a] \/ clerk'[a] = NoDesk
    BY DEF Questions
  <2> DEFINE b == clerk[a]
  <2>4. CASE clerk'[a] = b
    BY <1>1, <1>2, <2>1, <2>4, StillCarries DEF Questions, Carries
  <2>5. CASE clerk'[a] = NoDesk
    BY <2>5 DEF Carries
  <2> QED
    BY <2>2, <2>4, <2>5
<1>4. \A x \in Questioned : OnPath(claim'[x].version, claim'[x].status, journal'[x]) /\ claim'[x].seen <= claim'[x].version
  BY <1>1 DEF Questions
<1>5. DOMAIN clerk' = Clerks
  BY DEF Questions
<1> QED
  BY <1>1, <1>3, <1>4, <1>5 DEF Questions

(* A claim is filed once, by a request that found no claim.                *)
LEMMA FileKeepsQuestions ==
    ASSUME Questions, NEW f \in Filings, NEW o \in Questioned, File(f, o)
    PROVE  Questions'
<1> DEFINE c == [NoClaim EXCEPT !.status = "OPEN", !.reason = filing[f].reason, !.version = 1]
           j == Append(journal[o], "CREATE")
<1>1. /\ claim' = [claim EXCEPT ![o] = c]
      /\ journal'[o] = j /\ DOMAIN journal' = Questioned
      /\ \A x \in Questioned \ {o} : journal'[x] = journal[x]
      /\ filing' = [filing EXCEPT ![f] = NoDraft]
      /\ clerk' = clerk
      /\ claim[o] = NoClaim
  BY DEF File, Questions
<1>2. filing[f].reason \in Reasons
  BY DEF Questions
<1>3. c = [NoClaim EXCEPT !.status = "OPEN", !.reason = filing[f].reason, !.version = 1]
  OBVIOUS
<1>4. OnPath(0, "NONE", journal[o])
  BY <1>1 DEF Questions, NoClaim
<1>5. OnPath(1, "OPEN", j)
  <2>1. journal[o] \in Seq(Words) /\ Len(journal[o]) = 0
    BY <1>4 DEF OnPath
  <2>2. j \in Seq(Words) /\ Len(j) = 1 /\ j[1] = "CREATE"
    <3>1. "CREATE" \in Words
      BY DEF Words
    <3> QED
      BY <2>1, <3>1, AppendProperties
  <2> HIDE DEF j
  <2> QED
    BY <2>2, PathEntries DEF OnPath, StatusAt
<1> HIDE DEF c, j
<1>6. /\ c \in ClaimRows
      /\ c.version = 1 /\ c.status = "OPEN" /\ c.seen = 0
  <2>1. c = [status |-> "OPEN", reason |-> filing[f].reason, assigned |-> "none", version |-> 1, seen |-> 0]
    BY <1>3 DEF NoClaim
  <2> QED
    BY <1>2, <2>1 DEF ClaimRows
<1>7. claim[o].version = 0
  BY <1>1 DEF NoClaim
<1>8. filing' \in [Filings -> [o: Questioned \cup {"none"}, reason: Reasons]]
  BY <1>1 DEF Questions, NoDraft, Reasons
<1>9. OnPath(c.version, c.status, j)
  BY <1>5, <1>6
<1>10. c.seen <= c.version /\ claim[o].version <= c.version
  BY <1>6, <1>7
<1> QED
  BY <1>1, <1>6, <1>8, <1>9, <1>10, OneQuestion

(* A clerk moves a claim one place along its path, at the version it read. *)
LEMMA StepKeepsQuestions ==
    ASSUME Questions, NEW a \in Clerks, NEW o \in Questioned, Step(a, o)
    PROVE  Questions'
<1> DEFINE b == clerk[a]
           k == claim[o]
           c == [k EXCEPT !.status = StepTo[b.action], !.version = @ + 1,
                          !.assigned = IF @ = "none" THEN a ELSE @]
           j == Append(journal[o], b.action)
<1>1. /\ claim' = [claim EXCEPT ![o] = c]
      /\ journal'[o] = j /\ DOMAIN journal' = Questioned
      /\ \A x \in Questioned \ {o} : journal'[x] = journal[x]
      /\ filing' = filing
      /\ clerk' = [clerk EXCEPT ![a] = NoDesk]
      /\ b.o = o /\ k.version = b.version
  BY DEF Step, Questions
<1>2. b.version \in 1..3 /\ b.action = ActionAt(b.version)
  BY <1>1, TopupAppealsAssumption DEF Questions, Carries, NoDesk
<1>3. OnPath(k.version, k.status, journal[o]) /\ k \in ClaimRows /\ k.seen <= k.version
  BY DEF Questions
<1>4. c = [k EXCEPT !.status = StepTo[b.action], !.version = @ + 1,
                    !.assigned = IF @ = "none" THEN a ELSE @]
  OBVIOUS
<1>5. /\ OnPath(k.version + 1, StepTo[b.action], j)
      /\ StepTo[b.action] \in {"UNDER_REVIEW", "RESOLVED", "CLOSED"}
  <2>1. /\ StepTo[b.action] = StatusAt(b.version + 1)
        /\ b.action = Path[b.version + 1] /\ b.action \in Words
        /\ StepTo[b.action] \in {"UNDER_REVIEW", "RESOLVED", "CLOSED"}
    <3> DEFINE v == b.version
    <3>1. /\ StepTo.START_REVIEW = "UNDER_REVIEW" /\ StepTo.RESOLVE = "RESOLVED" /\ StepTo.CLOSE = "CLOSED"
          /\ StatusAt(2) = "UNDER_REVIEW" /\ StatusAt(3) = "RESOLVED" /\ StatusAt(4) = "CLOSED"
          /\ ActionAt(1) = "START_REVIEW" /\ ActionAt(2) = "RESOLVE" /\ ActionAt(3) = "CLOSE"
      BY DEF StepTo, StatusAt, ActionAt
    <3>2. CASE v = 1
      BY <1>2, <3>1, <3>2, PathEntries DEF Words
    <3>3. CASE v = 2
      BY <1>2, <3>1, <3>3, PathEntries DEF Words
    <3>4. CASE v = 3
      BY <1>2, <3>1, <3>4, PathEntries DEF Words
    <3> QED
      BY <1>2, <3>2, <3>3, <3>4
  <2> DEFINE v == k.version
  <2>2. v = b.version /\ v \in 1..3
    BY <1>1, <1>2
  <2>3. /\ j \in Seq(Words)
        /\ Len(j) = v + 1
        /\ \A i \in 1..v : j[i] = Path[i]
        /\ j[v + 1] = b.action
    BY <1>3, <2>1, <2>2, AppendProperties DEF OnPath
  <2> HIDE DEF j, v
  <2>4. \A i \in 1..(v + 1) : j[i] = Path[i]
    BY <2>1, <2>2, <2>3
  <2>5. OnPath(v + 1, StepTo[b.action], j)
    BY <2>1, <2>2, <2>3, <2>4 DEF OnPath
  <2> QED
    BY <2>1, <2>5 DEF v
<1> HIDE DEF c, j, k
<1>6. /\ c \in ClaimRows
      /\ c.version = k.version + 1 /\ c.status = StepTo[b.action] /\ c.seen = k.seen
  <2> DEFINE s == StepTo[b.action]
             by == IF k.assigned = "none" THEN a ELSE k.assigned
  <2>1. s \in {"UNDER_REVIEW", "RESOLVED", "CLOSED"} /\ by \in Clerks \cup {"none"}
    BY <1>3, <1>5 DEF ClaimRows
  <2>2. c = [k EXCEPT !.status = s, !.version = k.version + 1, !.assigned = by]
    BY <1>4
  <2> HIDE DEF s, by
  <2>3. c = [status |-> s, reason |-> k.reason, assigned |-> by, version |-> k.version + 1, seen |-> k.seen]
    BY <1>3, <2>1, <2>2 DEF ClaimRows
  <2>4. c \in ClaimRows /\ c.version = k.version + 1 /\ c.status = s /\ c.seen = k.seen
    BY <1>3, <2>1, <2>3 DEF ClaimRows
  <2> QED
    BY <2>4 DEF s
<1>7. OnPath(c.version, c.status, j)
  BY <1>5, <1>6 DEF OnPath
<1>8. c.seen <= c.version /\ k.version <= c.version
  BY <1>3, <1>6 DEF ClaimRows
<1> USE DEF k
<1>9. filing' \in [Filings -> [o: Questioned \cup {"none"}, reason: Reasons]]
  BY <1>1 DEF Questions
<1> QED
  BY <1>1, <1>6, <1>7, <1>8, <1>9, OneQuestion

(* Acknowledging writes what was seen and leaves the path alone.           *)
LEMMA AcknowledgeKeepsQuestions ==
    ASSUME Questions, NEW o \in Questioned, Acknowledge(o)
    PROVE  Questions'
<1> DEFINE k == claim[o]
           c == [k EXCEPT !.seen = k.version]
<1>1. /\ claim' = [claim EXCEPT ![o] = c]
      /\ UNCHANGED <<journal, clerk, filing>>
      /\ DOMAIN journal = Questioned
  BY DEF Acknowledge, Questions
<1>2. OnPath(k.version, k.status, journal[o]) /\ k \in ClaimRows
  BY DEF Questions
<1>3. c = [k EXCEPT !.seen = k.version]
  OBVIOUS
<1> HIDE DEF c, k
<1>4. /\ c \in ClaimRows
      /\ c.version = k.version /\ c.status = k.status /\ c.seen = k.version
  BY <1>2, <1>3 DEF ClaimRows
<1>5. OnPath(c.version, c.status, journal[o]) /\ c.seen <= c.version /\ k.version <= c.version
  BY <1>2, <1>4 DEF OnPath, ClaimRows
<1> USE DEF k
<1>6. filing' \in [Filings -> [o: Questioned \cup {"none"}, reason: Reasons]]
  BY <1>1 DEF Questions
<1> QED
  BY <1>1, <1>2, <1>4, <1>5, <1>6, OneQuestion

(* A clerk who reads a claim carries the version it has now.               *)
LEMMA ReadClaimKeepsQuestions ==
    ASSUME Questions, NEW a \in Clerks, NEW o \in Questioned, ReadClaim(a, o)
    PROVE  Questions'
<1> DEFINE b == [o |-> o, action |-> Steps[claim[o].status], version |-> claim[o].version]
<1>1. clerk' = [clerk EXCEPT ![a] = b] /\ UNCHANGED <<claim, journal, filing>>
      /\ claim[o].status \in {"OPEN", "UNDER_REVIEW", "RESOLVED"}
  BY DEF ReadClaim, Steps
<1>2. b.o = o /\ b.version = claim[o].version /\ b.action = Steps[claim[o].status]
  OBVIOUS
<1>3. claim[o].version \in 1..3 /\ Steps[claim[o].status] = ActionAt(claim[o].version)
  <2>1. OnPath(claim[o].version, claim[o].status, journal[o])
    BY DEF Questions
  <2> QED
    <3> DEFINE v == claim[o].version
               s == claim[o].status
    <3>1. v \in 0..4 /\ s = StatusAt(v) /\ s \in {"OPEN", "UNDER_REVIEW", "RESOLVED"}
      BY <1>1, <2>1 DEF OnPath
    <3>2. /\ Steps.OPEN = "START_REVIEW" /\ Steps.UNDER_REVIEW = "RESOLVE" /\ Steps.RESOLVED = "CLOSE"
          /\ StatusAt(0) = "NONE" /\ StatusAt(1) = "OPEN" /\ StatusAt(2) = "UNDER_REVIEW"
          /\ StatusAt(3) = "RESOLVED" /\ StatusAt(4) = "CLOSED"
          /\ ActionAt(1) = "START_REVIEW" /\ ActionAt(2) = "RESOLVE" /\ ActionAt(3) = "CLOSE"
      BY DEF Steps, StatusAt, ActionAt
    <3> HIDE DEF v, s
    <3>3. v \in {1, 2, 3}
      BY <3>1, <3>2
    <3>4. Steps[s] = ActionAt(v)
      BY <3>1, <3>2, <3>3
    <3> QED
      BY <3>3, <3>4 DEF v, s
<1> HIDE DEF b
<1>4. Carries(b, claim')
  BY <1>1, <1>2, <1>3 DEF Carries
<1>5. \A e \in Clerks : Carries(clerk'[e], claim')
  BY <1>1, <1>4 DEF Questions, Carries
<1> QED
  BY <1>1, <1>5 DEF Questions

(* No step of the questions disturbs the invariant.                        *)
LEMMA QuestionsStep == Questions /\ [ClaimNext]_claimVars => Questions'
<1> SUFFICES ASSUME Questions, [ClaimNext]_claimVars PROVE Questions'
  OBVIOUS
<1>1. ASSUME UNCHANGED <<claim, journal>>,
             filing' \in [Filings -> [o: Questioned \cup {"none"}, reason: Reasons]],
             clerk' = clerk \/ \E a \in Clerks : clerk' = [clerk EXCEPT ![a] = NoDesk]
      PROVE  Questions'
  BY <1>1 DEF Questions, Carries
<1>2. filing \in [Filings -> [o: Questioned \cup {"none"}, reason: Reasons]]
      /\ NoDraft \in [o: Questioned \cup {"none"}, reason: Reasons]
  BY DEF Questions, NoDraft, Reasons
<1>3. CASE \E o \in Questioned : \E to \in {"CREDITED", "CLOSED", "RECONCILIATION_REQUIRED"} : TopupMoves(o, to)
  BY <1>1, <1>2, <1>3 DEF TopupMoves
<1>4. ASSUME NEW o \in Questioned, NEW f \in Filings, ReadTopup(f, o)
      PROVE  Questions'
  <2>1. bill[o] \in {"PENDING", "CLOSED", "RECONCILIATION_REQUIRED"} /\ ReasonOf[bill[o]] \in Reasons
    BY <1>4 DEF ReadTopup, ReasonOf, Reasons
  <2> QED
    BY <1>1, <1>2, <1>4, <2>1 DEF ReadTopup
<1>5. CASE \E o \in Questioned, f \in Filings : File(f, o)
  BY <1>5, FileKeepsQuestions
<1>6. CASE \E o \in Questioned : Acknowledge(o)
  BY <1>6, AcknowledgeKeepsQuestions
<1>7. CASE \E o \in Questioned, a \in Clerks : ReadClaim(a, o) \/ Step(a, o)
  BY <1>7, ReadClaimKeepsQuestions, StepKeepsQuestions
<1>8. CASE \E f \in Filings : GiveUp(f)
  BY <1>1, <1>2, <1>8 DEF GiveUp
<1>9. CASE \E a \in Clerks : Rest(a)
  BY <1>1, <1>2, <1>9 DEF Rest
<1>10. CASE UNCHANGED claimVars
  BY <1>1, <1>2, <1>10 DEF claimVars
<1> QED
  BY <1>3, <1>4, <1>5, <1>6, <1>7, <1>8, <1>9, <1>10 DEF ClaimNext

(* The invariant gives the two properties of the runs.                     *)
LEMMA QuestionsMean == Questions => ClaimTypeOK /\ ClaimIsOnePath
<1> SUFFICES ASSUME Questions PROVE ClaimTypeOK /\ ClaimIsOnePath
  OBVIOUS
<1>1. ClaimTypeOK
  BY DEF Questions, ClaimRows, ClaimTypeOK
<1>2. ASSUME NEW o \in Questioned
      PROVE  /\ IsPrefix(journal[o], Path) /\ Len(journal[o]) = claim[o].version
             /\ claim[o].status = <<"NONE", "OPEN", "UNDER_REVIEW", "RESOLVED", "CLOSED">>[Len(journal[o]) + 1]
             /\ claim[o].seen <= claim[o].version
  <2>1. OnPath(claim[o].version, claim[o].status, journal[o]) /\ claim[o].seen <= claim[o].version
    BY DEF Questions
  <2> DEFINE j == journal[o]
             v == claim[o].version
  <2>2. v \in 0..4 /\ j \in Seq(Words) /\ Len(j) = v /\ claim[o].status = StatusAt(v)
    BY <2>1 DEF OnPath
  <2>3. IsPrefix(j, Path)
    <3>1. SubSeq(j, 1, Len(j)) = j
      BY <2>2, SubSeqFull
    <3>2. \A i \in 1..v : Path[i] \in Words
      BY <2>2, PathEntries
    <3>3. /\ SubSeq(Path, 1, v) \in Seq(Words)
          /\ Len(SubSeq(Path, 1, v)) = v
          /\ \A i \in 1..v : SubSeq(Path, 1, v)[i] = Path[i]
      BY <2>2, <3>2, SubSeqProperties
    <3>4. \A i \in 1..v : j[i] = Path[i]
      BY <2>1 DEF OnPath
    <3>5. j = SubSeq(Path, 1, v)
      BY <2>2, <3>3, <3>4, SeqEqual
    <3> QED
      BY <2>2, <3>1, <3>5, PathEntries DEF IsPrefix
  <2>4. claim[o].status = <<"NONE", "OPEN", "UNDER_REVIEW", "RESOLVED", "CLOSED">>[Len(j) + 1]
    BY <2>2 DEF StatusAt
  <2> QED
    BY <2>1, <2>2, <2>3, <2>4
<1> QED
  BY <1>1, <1>2 DEF ClaimIsOnePath

-----------------------------------------------------------------------------
(* The purchases delivered by hand.                                        *)
HandoverRows == [status: HandedOver \cup {"PENDING_MANUAL_DELIVERY", "SUPPLIER_ASSIGNED",
                                          "DELIVERY_IN_PROGRESS", "CANCELLED"}, supplier: Parties]
TradeRows == [status: Underway \cup {"NONE", "OFFERED", "COMPLETED"}, supplier: Parties, quoted: Int, actual: Int]
Errands == [act: {"confirm", "offer", "ready", "connect", "accept"}, d: Purchases,
            row: {"none", "handover", "trade"}, fresh: BOOLEAN, seen: Parties]

(* What a request that is fresh still finds on its row; and that the       *)
(* machine was handed over is true however late the request is.            *)
OnErrand(b, h, t) ==
    \/ b = NoErrand
    \/ /\ b \in Errands
       /\ b.act = "confirm" => b.row = "handover" /\ (b.fresh => h.status = "AWAITING_BUYER_ACCEPTANCE")
       /\ b.act = "ready"   => b.row = "trade" /\ (b.fresh => t.status = "PREPARING") /\ h.status \in HandedOver
       /\ b.act = "connect" => b.row = "trade" /\ (b.fresh => t.status = "READY") /\ h.status \in HandedOver
       /\ b.act = "accept"  => b.row = "trade" /\ (b.fresh => t.status = "AWAITING_ACCEPTANCE")

Follows(h, t) ==
    /\ t.status \in {"READY", "CONNECTION_CONFIRMED", "AWAITING_ACCEPTANCE"} => h.status \in HandedOver
    /\ t.status = "COMPLETED" => h.status \in {"COMPLETED", "ACCESS_REVOKED"}

Clean(d) ==
    /\ trade[d].status # "COMPLETED" /\ trade'[d].status = "COMPLETED" =>
           /\ d \notin frozen
           /\ handover[d].status # "COMPLETED" /\ handover'[d].status = "COMPLETED"
    /\ trade[d].status = "COMPLETED" => trade'[d] = trade[d] /\ deposit'[d] = deposit[d]
    /\ handover[d].status \in {"CANCELLED", "ACCESS_REVOKED"} => handover'[d] = handover[d]

Delivering ==
    /\ handover \in [Purchases -> HandoverRows]
    /\ trade \in [Purchases -> TradeRows]
    /\ DOMAIN deposit = Purchases
    /\ DOMAIN errand = Desks
    /\ \A d \in Purchases : Follows(handover[d], trade[d])
    /\ \A e \in Desks : OnErrand(errand[e], handover[errand[e].d], trade[errand[e].d])

(* Nothing is handed over at first and no errand is under way.             *)
LEMMA DeliveringInit == ManualInit => Delivering
<1> SUFFICES ASSUME ManualInit PROVE Delivering
  OBVIOUS
<1>1. handover \in [Purchases -> HandoverRows]
  BY DEF ManualInit, HandoverRows, Parties
<1>2. trade \in [Purchases -> TradeRows]
  BY DEF ManualInit, NoTrade, TradeRows, Parties
<1>3. \A d \in Purchases : Follows(handover[d], trade[d])
  BY DEF ManualInit, NoTrade, Follows
<1>4. \A e \in Desks : OnErrand(errand[e], handover[errand[e].d], trade[errand[e].d])
  BY DEF ManualInit, OnErrand
<1> QED
  BY <1>1, <1>2, <1>3, <1>4 DEF Delivering, ManualInit

(* A request after the rows of a purchase were written.                    *)
LEMMA StillOnErrand ==
    ASSUME NEW b, NEW h, NEW t, NEW hh, NEW tt, OnErrand(b, h, t),
           h.status \in HandedOver => hh.status \in HandedOver,
           b # NoErrand /\ b.row = "trade" => tt.status = t.status,
           b # NoErrand /\ b.row = "handover" => hh.status = h.status
    PROVE  OnErrand(b, hh, tt)
  BY DEF OnErrand

(* An errand that comes too late still concerns its own purchase.          *)
LEMMA TooLateOnErrand ==
    ASSUME NEW b, NEW h, NEW t, NEW hh, NEW tt, OnErrand(b, h, t), b # NoErrand,
           h.status \in HandedOver => hh.status \in HandedOver,
           NEW late, late = [b EXCEPT !.fresh = FALSE]
    PROVE  OnErrand(late, hh, tt) /\ late.d = b.d
<1>1. /\ late \in Errands /\ late.act = b.act /\ late.row = b.row /\ ~late.fresh /\ late.d = b.d
  BY DEF OnErrand, Errands
<1> QED
  BY <1>1 DEF OnErrand

(* A step that writes the rows of one purchase, or none.                   *)
LEMMA OnePurchaseWritten ==
    ASSUME Delivering, NEW d \in Purchases,
           handover' \in [Purchases -> HandoverRows],
           trade' \in [Purchases -> TradeRows],
           DOMAIN deposit' = Purchases,
           \A x \in Purchases \ {d} :
               handover'[x] = handover[x] /\ trade'[x] = trade[x] /\ deposit'[x] = deposit[x],
           handover[d].status \in HandedOver => handover'[d].status \in HandedOver,
           Follows(handover'[d], trade'[d]), Clean(d),
           DOMAIN errand' = Desks,
           \A e \in Desks :
               \/ OnErrand(errand'[e], handover'[errand'[e].d], trade'[errand'[e].d])
               \/ errand'[e] = NoErrand
               \/ errand[e] # NoErrand /\ errand'[e] = [errand[e] EXCEPT !.fresh = FALSE]
               \/ errand'[e] = errand[e] /\ (errand[e] # NoErrand /\ errand[e].d = d =>
                      /\ errand[e].row = "trade" => trade'[d].status = trade[d].status
                      /\ errand[e].row = "handover" => handover'[d].status = handover[d].status)
    PROVE  Delivering' /\ CaptureIsClean
<1>1. \A x \in Purchases : Follows(handover'[x], trade'[x])
  BY DEF Delivering
<1>2. \A x \in Purchases : handover[x].status \in HandedOver => handover'[x].status \in HandedOver
  OBVIOUS
<1>3. ASSUME NEW e \in Desks
      PROVE  OnErrand(errand'[e], handover'[errand'[e].d], trade'[errand'[e].d])
  <2> DEFINE b == errand[e]
             h == handover[b.d]
             t == trade[b.d]
             hh == handover'[b.d]
             tt == trade'[b.d]
  <2>1. OnErrand(b, h, t)
    BY DEF Delivering
  <2>2. b # NoErrand => b.d \in Purchases
    BY <2>1 DEF OnErrand, Errands
  <2>3. CASE errand'[e] = NoErrand
    BY <2>3 DEF OnErrand
  <2>4. CASE b # NoErrand /\ errand'[e] = [b EXCEPT !.fresh = FALSE]
    <3>1. h.status \in HandedOver => hh.status \in HandedOver
      BY <1>2, <2>2, <2>4
    <3>2. OnErrand(errand'[e], hh, tt) /\ errand'[e].d = b.d
      BY <2>1, <2>4, <3>1, TooLateOnErrand
    <3> QED
      BY <3>2
  <2>5. CASE errand'[e] = b /\ (b # NoErrand /\ b.d = d =>
                 /\ b.row = "trade" => trade'[d].status = trade[d].status
                 /\ b.row = "handover" => handover'[d].status = handover[d].status)
    <3>1. CASE b = NoErrand
      BY <2>5, <3>1 DEF OnErrand
    <3>2. CASE b # NoErrand
      <4>1. h.status \in HandedOver => hh.status \in HandedOver
        BY <1>2, <2>2, <3>2
      <4>2. /\ b.row = "trade" => tt.status = t.status
            /\ b.row = "handover" => hh.status = h.status
        BY <2>2, <2>5, <3>2
      <4>3. OnErrand(b, hh, tt)
        BY <2>1, <4>1, <4>2, StillOnErrand
      <4> QED
        BY <2>5, <4>3
    <3> QED
      BY <3>1, <3>2
  <2> QED
    BY <2>3, <2>4, <2>5
<1>4. CaptureIsClean
  <2>1. \A x \in Purchases : Clean(x)
    BY DEF Clean
  <2> QED
    BY <2>1 DEF Clean, CaptureIsClean
<1> QED
  BY <1>1, <1>3, <1>4 DEF Delivering

(* The requests after the row of a purchase was written.                   *)
LEMMA RowWritten ==
    ASSUME Delivering, NEW row, NEW d,
           errand' = Stale(row, d) \/ \E e \in Desks : Finish(e, row, d)
    PROVE  /\ DOMAIN errand' = Desks
           /\ \A e \in Desks :
                  \/ errand'[e] = NoErrand
                  \/ errand[e] # NoErrand /\ errand'[e] = [errand[e] EXCEPT !.fresh = FALSE]
                  \/ errand'[e] = errand[e] /\ (errand[e] # NoErrand /\ errand[e].d = d => errand[e].row # row)
<1>1. DOMAIN errand' = Desks
  BY DEF Stale, Finish
<1>2. ASSUME NEW e \in Desks
      PROVE  \/ errand'[e] = NoErrand
             \/ errand[e] # NoErrand /\ errand'[e] = [errand[e] EXCEPT !.fresh = FALSE]
             \/ errand'[e] = errand[e] /\ (errand[e] # NoErrand /\ errand[e].d = d => errand[e].row # row)
  <2> DEFINE b == errand[e]
  <2>1. b # NoErrand => b.act # "none"
    BY DEF Delivering, OnErrand, Errands
  <2>2. \/ errand'[e] = NoErrand
        \/ errand'[e] = [b EXCEPT !.fresh = FALSE] /\ b.act # "none"
        \/ errand'[e] = b /\ (b.act = "none" \/ b.row # row \/ b.d # d)
    BY DEF Stale, Finish
  <2>3. NoErrand.act = "none"
    BY DEF NoErrand
  <2> QED
    BY <2>1, <2>2, <2>3
<1> QED
  BY <1>1, <1>2

(* Writing a handover keeps the trade in step with it and makes the        *)
(* errands that read the old row too late.                                 *)
LEMMA HandoverWritten ==
    ASSUME Delivering, NEW d \in Purchases, NEW h \in HandoverRows, handover' = [handover EXCEPT ![d] = h],
           UNCHANGED <<trade, deposit>>,
           errand' = Stale("handover", d) \/ \E e \in Desks : Finish(e, "handover", d),
           handover[d].status \in HandedOver => h.status \in HandedOver,
           trade[d].status = "COMPLETED" => h.status \in {"COMPLETED", "ACCESS_REVOKED"},
           handover[d].status \notin {"CANCELLED", "ACCESS_REVOKED"}
    PROVE  Delivering' /\ CaptureIsClean
<1>1. /\ handover' \in [Purchases -> HandoverRows]
      /\ handover'[d] = h
      /\ \A x \in Purchases \ {d} : handover'[x] = handover[x]
  BY DEF Delivering
<1>2. /\ DOMAIN errand' = Desks
      /\ \A e \in Desks :
             \/ errand'[e] = NoErrand
             \/ errand[e] # NoErrand /\ errand'[e] = [errand[e] EXCEPT !.fresh = FALSE]
             \/ errand'[e] = errand[e] /\ (errand[e] # NoErrand /\ errand[e].d = d => errand[e].row # "handover")
  BY RowWritten
<1>3. Follows(handover'[d], trade'[d])
  BY <1>1 DEF Delivering, Follows
<1>4. Clean(d)
  BY <1>1 DEF Clean
<1>5. /\ trade' \in [Purchases -> TradeRows]
      /\ DOMAIN deposit' = Purchases
      /\ \A x \in Purchases : trade'[x] = trade[x] /\ deposit'[x] = deposit[x]
  BY DEF Delivering
<1> QED
  BY <1>1, <1>2, <1>3, <1>4, <1>5, OnePurchaseWritten

(* Writing a trade that is not completed leaves the handover where it was. *)
LEMMA TradeWritten ==
    ASSUME Delivering, NEW d \in Purchases, NEW t \in TradeRows, trade' = [trade EXCEPT ![d] = t],
           UNCHANGED handover,
           deposit' = deposit \/ \E x : deposit' = [deposit EXCEPT ![d] = x],
           errand' = Stale("trade", d) \/ \E e \in Desks : Finish(e, "trade", d),
           trade[d].status # "COMPLETED", t.status # "COMPLETED", Follows(handover[d], t)
    PROVE  Delivering' /\ CaptureIsClean
<1>1. /\ trade' \in [Purchases -> TradeRows]
      /\ trade'[d] = t
      /\ \A x \in Purchases \ {d} : trade'[x] = trade[x]
  BY DEF Delivering
<1>2. /\ DOMAIN errand' = Desks
      /\ \A e \in Desks :
             \/ errand'[e] = NoErrand
             \/ errand[e] # NoErrand /\ errand'[e] = [errand[e] EXCEPT !.fresh = FALSE]
             \/ errand'[e] = errand[e] /\ (errand[e] # NoErrand /\ errand[e].d = d => errand[e].row # "trade")
  BY RowWritten
<1>3. Clean(d)
  BY <1>1 DEF Clean
<1>4. /\ DOMAIN deposit' = Purchases
      /\ \A x \in Purchases \ {d} : deposit'[x] = deposit[x]
  BY DEF Delivering
<1>5. handover' \in [Purchases -> HandoverRows] /\ Follows(handover'[d], trade'[d])
  BY <1>1 DEF Delivering
<1> QED
  BY <1>1, <1>2, <1>3, <1>4, <1>5, OnePurchaseWritten

(* A request that reads, and one that is dropped.                          *)
LEMMA ErrandSet ==
    ASSUME Delivering, NEW e \in Desks, NEW b, errand' = [errand EXCEPT ![e] = b],
           UNCHANGED <<handover, trade, deposit>>, OnErrand(b, handover[b.d], trade[b.d])
    PROVE  Delivering' /\ CaptureIsClean
<1>1. DOMAIN errand' = Desks
  BY DEF Delivering
<1>2. \A x \in Desks : OnErrand(errand'[x], handover'[errand'[x].d], trade'[errand'[x].d])
  BY DEF Delivering
<1>3. CaptureIsClean
  BY DEF CaptureIsClean
<1> QED
  BY <1>1, <1>2, <1>3 DEF Delivering

(* An errand that reads its rows starts out fresh.                         *)
LEMMA ReadersKeepOrders ==
    ASSUME Delivering, NEW e \in Desks, NEW d \in Purchases,
           \/ ReadConfirm(e, d) \/ ReadReady(e, d) \/ ReadConnect(e, d) \/ ReadAccept(e, d)
           \/ \E s \in Suppliers : ReadOffer(e, d, s)
    PROVE  Delivering' /\ CaptureIsClean
<1> DEFINE Seen(act, row, seen) == [act |-> act, d |-> d, row |-> row, fresh |-> TRUE, seen |-> seen]
<1>1. \A act \in {"confirm", "offer", "ready", "connect", "accept"}, row \in {"none", "handover", "trade"},
         seen \in Parties : Seen(act, row, seen) \in Errands
  BY DEF Errands
<1>2. "none" \in Parties /\ Suppliers \subseteq Parties
  BY DEF Parties
<1>3. UNCHANGED <<handover, trade, deposit>>
  BY DEF ReadConfirm, ReadReady, ReadConnect, ReadAccept, ReadOffer
<1>4. ASSUME NEW act \in {"confirm", "offer", "ready", "connect", "accept"},
             NEW row \in {"none", "handover", "trade"}, NEW seen \in Parties, Begin(e, act, d, row, seen),
             \/ act = "offer"
             \/ act = "confirm" /\ row = "handover" /\ handover[d].status = "AWAITING_BUYER_ACCEPTANCE"
             \/ act = "ready" /\ row = "trade" /\ trade[d].status = "PREPARING" /\ handover[d].status \in HandedOver
             \/ act = "connect" /\ row = "trade" /\ trade[d].status = "READY" /\ handover[d].status \in HandedOver
             \/ act = "accept" /\ row = "trade" /\ trade[d].status = "AWAITING_ACCEPTANCE"
      PROVE  Delivering' /\ CaptureIsClean
  <2> DEFINE b == Seen(act, row, seen)
  <2>1. b \in Errands /\ b.act = act /\ b.row = row /\ b.d = d
    BY <1>1
  <2>2. errand' = [errand EXCEPT ![e] = b]
    BY <1>4 DEF Begin
  <2> HIDE DEF b
  <2>3. OnErrand(b, handover[b.d], trade[b.d])
    BY <1>4, <2>1 DEF OnErrand
  <2> QED
    BY <1>3, <2>2, <2>3, ErrandSet
<1>5. CASE ReadConfirm(e, d)
  BY <1>2, <1>4, <1>5 DEF ReadConfirm
<1>6. CASE ReadReady(e, d)
  BY <1>2, <1>4, <1>6 DEF ReadReady, HandedOver
<1>7. CASE ReadConnect(e, d)
  BY <1>2, <1>4, <1>7 DEF ReadConnect, HandedOver
<1>8. CASE ReadAccept(e, d)
  BY <1>2, <1>4, <1>8 DEF ReadAccept
<1>9. CASE \E s \in Suppliers : ReadOffer(e, d, s)
  BY <1>2, <1>4, <1>9 DEF ReadOffer
<1> QED
  BY <1>5, <1>6, <1>7, <1>8, <1>9

(* The delivery is handed over, assigned, or confirmed.                    *)
LEMMA HandoversKeepOrders ==
    ASSUME Delivering, NEW d \in Purchases,
           \/ \E command \in DOMAIN HandoverFrom : HandOver(d, command)
           \/ \E s \in Suppliers : AssignSupplier(d, s)
           \/ \E e \in Desks : Confirm(e, d)
    PROVE  Delivering' /\ CaptureIsClean
<1> DEFINE g == handover[d]
<1>1. g \in HandoverRows /\ Follows(g, trade[d])
  BY DEF Delivering
<1>2. CASE \E command \in DOMAIN HandoverFrom : HandOver(d, command)
  <2> PICK command \in DOMAIN HandoverFrom : HandOver(d, command)
    BY <1>2
  <2> DEFINE s == HandoverTo[command]
             h == [g EXCEPT !.status = s]
  <2>1. /\ handover' = [handover EXCEPT ![d] = h] /\ UNCHANGED <<trade, deposit>> /\ errand' = Stale("handover", d)
        /\ h = [g EXCEPT !.status = s]
    BY DEF HandOver
  <2>2. command \in {"START", "MARK_DELIVERED", "CANCEL", "REVOKE"} /\ g.status \in HandoverFrom[command]
    BY DEF HandOver, HandoverFrom
  <2>3. \/ g.status = "SUPPLIER_ASSIGNED" /\ s = "DELIVERY_IN_PROGRESS"
        \/ g.status = "DELIVERY_IN_PROGRESS" /\ s = "AWAITING_BUYER_ACCEPTANCE"
        \/ g.status \in {"PENDING_MANUAL_DELIVERY", "SUPPLIER_ASSIGNED", "DELIVERY_IN_PROGRESS"} /\ s = "CANCELLED"
        \/ g.status \in {"AWAITING_BUYER_ACCEPTANCE", "COMPLETED"} /\ s = "ACCESS_REVOKED"
    <3>1. CASE command = "START"
      BY <2>2, <3>1 DEF HandoverFrom, HandoverTo
    <3>2. CASE command = "MARK_DELIVERED"
      BY <2>2, <3>2 DEF HandoverFrom, HandoverTo
    <3>3. CASE command = "CANCEL"
      BY <2>2, <3>3 DEF HandoverFrom, HandoverTo
    <3>4. CASE command = "REVOKE"
      BY <2>2, <3>4 DEF HandoverFrom, HandoverTo
    <3> QED
      BY <2>2, <3>1, <3>2, <3>3, <3>4
  <2> HIDE DEF s, h
  <2>4. h \in HandoverRows /\ h.status = s
    BY <1>1, <2>1, <2>3 DEF HandoverRows, HandedOver
  <2>5. /\ g.status \in HandedOver => h.status \in HandedOver
        /\ trade[d].status = "COMPLETED" => h.status \in {"COMPLETED", "ACCESS_REVOKED"}
        /\ g.status \notin {"CANCELLED", "ACCESS_REVOKED"}
    BY <1>1, <2>3, <2>4 DEF HandedOver, Follows
  <2> QED
    BY <2>1, <2>4, <2>5, HandoverWritten
<1>3. CASE \E s \in Suppliers : AssignSupplier(d, s)
  <2> PICK s \in Suppliers : AssignSupplier(d, s)
    BY <1>3
  <2> DEFINE h == [status |-> "SUPPLIER_ASSIGNED", supplier |-> s]
  <2>1. /\ handover' = [handover EXCEPT ![d] = h] /\ UNCHANGED <<trade, deposit>> /\ errand' = Stale("handover", d)
        /\ g.status \in {"PENDING_MANUAL_DELIVERY", "SUPPLIER_ASSIGNED"}
    BY DEF AssignSupplier
  <2>2. h \in HandoverRows /\ h.status = "SUPPLIER_ASSIGNED"
    BY DEF HandoverRows, Parties
  <2> HIDE DEF h
  <2>3. /\ g.status \in HandedOver => h.status \in HandedOver
        /\ trade[d].status = "COMPLETED" => h.status \in {"COMPLETED", "ACCESS_REVOKED"}
        /\ g.status \notin {"CANCELLED", "ACCESS_REVOKED"}
    BY <1>1, <2>1 DEF HandedOver, Follows
  <2> QED
    BY <2>1, <2>2, <2>3, HandoverWritten
<1>4. CASE \E e \in Desks : Confirm(e, d)
  <2> PICK e \in Desks : Confirm(e, d)
    BY <1>4
  <2> DEFINE h == [g EXCEPT !.status = "COMPLETED"]
  <2>1. /\ handover' = [handover EXCEPT ![d] = h] /\ UNCHANGED <<trade, deposit>> /\ Finish(e, "handover", d)
        /\ h = [g EXCEPT !.status = "COMPLETED"]
    BY DEF Confirm
  <2>2. g.status = "AWAITING_BUYER_ACCEPTANCE"
    BY DEF Confirm, Doing, Delivering, OnErrand, NoErrand
  <2> HIDE DEF h
  <2>3. h \in HandoverRows /\ h.status = "COMPLETED"
    BY <1>1, <2>1 DEF HandoverRows, HandedOver
  <2>4. /\ g.status \in HandedOver => h.status \in HandedOver
        /\ trade[d].status = "COMPLETED" => h.status \in {"COMPLETED", "ACCESS_REVOKED"}
        /\ g.status \notin {"CANCELLED", "ACCESS_REVOKED"}
    BY <1>1, <2>2, <2>3 DEF HandedOver, Follows
  <2> QED
    BY <2>1, <2>3, <2>4, HandoverWritten
<1> QED
  BY <1>2, <1>3, <1>4

(* The order is offered, accepted, prepared, connected and worked off.     *)
LEMMA OrdersKeepOrders ==
    ASSUME Delivering, NEW d \in Purchases,
           \/ \E e \in Desks, q \in Quotes : Offer(e, d, q)
           \/ AcceptOffer(d) \/ Prepare(d)
           \/ \E n \in Uses : CompleteService(d, n)
           \/ \E e \in Desks : Advance(e, d, "ready", "READY") \/ Advance(e, d, "connect", "CONNECTION_CONFIRMED")
    PROVE  Delivering' /\ CaptureIsClean
<1> DEFINE g == trade[d]
<1>1. g \in TradeRows /\ Follows(handover[d], g)
  BY DEF Delivering
<1>2. CASE \E e \in Desks, q \in Quotes : Offer(e, d, q)
  <2> PICK e \in Desks, q \in Quotes : Offer(e, d, q)
    BY <1>2
  <2> DEFINE t == [status |-> "OFFERED", supplier |-> errand[e].seen, quoted |-> q, actual |-> 0]
  <2>1. /\ trade' = [trade EXCEPT ![d] = t] /\ UNCHANGED <<handover, deposit>> /\ Finish(e, "trade", d)
        /\ g.status = "NONE"
    BY DEF Offer, NoTrade
  <2>2. errand[e].seen \in Parties
    BY DEF Offer, Doing, Delivering, OnErrand, NoErrand, Errands
  <2>3. t \in TradeRows /\ t.status = "OFFERED"
    BY <2>2, ManualOrdersAssumption DEF TradeRows
  <2> HIDE DEF t
  <2>4. Follows(handover[d], t)
    BY <2>3 DEF Follows
  <2> QED
    BY <2>1, <2>3, <2>4, TradeWritten
<1>3. CASE AcceptOffer(d)
  <2> DEFINE t == [g EXCEPT !.status = "CARD_HOURS_HELD"]
  <2>1. /\ trade' = [trade EXCEPT ![d] = t] /\ UNCHANGED handover /\ errand' = Stale("trade", d)
        /\ \E x : deposit' = [deposit EXCEPT ![d] = x]
        /\ g.status = "OFFERED" /\ t = [g EXCEPT !.status = "CARD_HOURS_HELD"]
    BY <1>3 DEF AcceptOffer, Traded
  <2> HIDE DEF t
  <2>2. t \in TradeRows /\ t.status = "CARD_HOURS_HELD"
    BY <1>1, <2>1 DEF TradeRows, Underway
  <2>3. Follows(handover[d], t)
    BY <2>2 DEF Follows
  <2> QED
    BY <2>1, <2>2, <2>3, TradeWritten
<1>4. CASE Prepare(d)
  <2> DEFINE t == [g EXCEPT !.status = "PREPARING"]
  <2>1. /\ trade' = [trade EXCEPT ![d] = t] /\ UNCHANGED <<handover, deposit>> /\ errand' = Stale("trade", d)
        /\ g.status = "CARD_HOURS_HELD" /\ t = [g EXCEPT !.status = "PREPARING"]
    BY <1>4 DEF Prepare, Traded
  <2> HIDE DEF t
  <2>2. t \in TradeRows /\ t.status = "PREPARING"
    BY <1>1, <2>1 DEF TradeRows, Underway
  <2>3. Follows(handover[d], t)
    BY <2>2 DEF Follows
  <2> QED
    BY <2>1, <2>2, <2>3, TradeWritten
<1>5. CASE \E n \in Uses : CompleteService(d, n)
  <2> PICK n \in Uses : CompleteService(d, n)
    BY <1>5
  <2> DEFINE t == [g EXCEPT !.status = "AWAITING_ACCEPTANCE", !.actual = n]
  <2>1. /\ trade' = [trade EXCEPT ![d] = t] /\ UNCHANGED <<handover, deposit>> /\ errand' = Stale("trade", d)
        /\ g.status = "CONNECTION_CONFIRMED" /\ t = [g EXCEPT !.status = "AWAITING_ACCEPTANCE", !.actual = n]
    BY DEF CompleteService
  <2>2. n \in Int
    BY ManualOrdersAssumption
  <2> HIDE DEF t
  <2>3. t \in TradeRows /\ t.status = "AWAITING_ACCEPTANCE"
    BY <1>1, <2>1, <2>2 DEF TradeRows, Underway
  <2>4. Follows(handover[d], t)
    BY <1>1, <2>1, <2>3 DEF Follows
  <2> QED
    BY <2>1, <2>3, <2>4, TradeWritten
<1>6. ASSUME NEW e \in Desks, NEW act \in {"ready", "connect"}, NEW to \in {"READY", "CONNECTION_CONFIRMED"},
             Advance(e, d, act, to)
      PROVE  Delivering' /\ CaptureIsClean
  <2> DEFINE t == [g EXCEPT !.status = to]
  <2>1. /\ trade' = [trade EXCEPT ![d] = t] /\ UNCHANGED <<handover, deposit>> /\ Finish(e, "trade", d)
        /\ t = [g EXCEPT !.status = to]
    BY <1>6 DEF Advance
  <2>2. OnErrand(errand[e], handover[d], g) /\ errand[e].act = act /\ errand[e].fresh /\ errand[e].d = d
    BY <1>6 DEF Advance, Doing, Delivering
  <2>3. g.status \in {"PREPARING", "READY"} /\ handover[d].status \in HandedOver
    BY <2>2 DEF OnErrand, NoErrand
  <2> HIDE DEF t
  <2>4. t \in TradeRows /\ t.status = to
    BY <1>1, <2>1 DEF TradeRows, Underway
  <2>5. Follows(handover[d], t)
    BY <2>3, <2>4 DEF Follows
  <2> QED
    BY <2>1, <2>3, <2>4, <2>5, TradeWritten
<1> QED
  BY <1>2, <1>3, <1>4, <1>5, <1>6

(* The buyer accepts the work: all three rows at once, while no appeal is  *)
(* open.                                                                   *)
LEMMA AcceptanceKeepsOrders ==
    ASSUME Delivering, NEW e \in Desks, NEW d \in Purchases, AcceptCompletion(e, d)
    PROVE  Delivering' /\ CaptureIsClean
<1> DEFINE h == [handover[d] EXCEPT !.status = "COMPLETED"]
           t == [trade[d] EXCEPT !.status = "COMPLETED"]
<1>1. /\ handover' = [handover EXCEPT ![d] = h] /\ h = [handover[d] EXCEPT !.status = "COMPLETED"]
      /\ trade' = [trade EXCEPT ![d] = t] /\ t = [trade[d] EXCEPT !.status = "COMPLETED"]
      /\ d \notin frozen
      /\ handover[d].status = "AWAITING_BUYER_ACCEPTANCE"
  BY DEF AcceptCompletion, Accepts
<1>2. /\ DOMAIN deposit' = Purchases
      /\ \A x \in Purchases \ {d} : deposit'[x] = deposit[x]
  BY DEF AcceptCompletion, Accepts, Delivering
<1>3. trade[d].status = "AWAITING_ACCEPTANCE"
  <2>1. OnErrand(errand[e], handover[d], trade[d]) /\ errand[e].act = "accept" /\ errand[e].fresh
    BY DEF AcceptCompletion, Accepts, Doing, Delivering
  <2> QED
    BY <2>1 DEF OnErrand, NoErrand
<1>4. handover[d] \in HandoverRows /\ trade[d] \in TradeRows
  BY DEF Delivering
<1> HIDE DEF h, t
<1>5. h \in HandoverRows /\ h.status = "COMPLETED" /\ t \in TradeRows /\ t.status = "COMPLETED"
  <2>1. h \in HandoverRows /\ h.status = "COMPLETED"
    BY <1>1, <1>4 DEF HandoverRows, HandedOver
  <2>2. t \in TradeRows /\ t.status = "COMPLETED"
    BY <1>1, <1>4 DEF TradeRows
  <2> QED
    BY <2>1, <2>2
<1>6. /\ handover' \in [Purchases -> HandoverRows] /\ trade' \in [Purchases -> TradeRows]
      /\ handover'[d] = h /\ trade'[d] = t
      /\ \A x \in Purchases \ {d} : handover'[x] = handover[x] /\ trade'[x] = trade[x]
  BY <1>1, <1>5 DEF Delivering
<1>7. Follows(handover'[d], trade'[d])
  BY <1>5, <1>6 DEF Follows
<1>8. Clean(d)
  BY <1>1, <1>3, <1>5, <1>6 DEF Clean
<1>9. handover'[d].status \in HandedOver
  BY <1>5, <1>6 DEF HandedOver
<1>10. /\ DOMAIN errand' = Desks
       /\ \A x \in Desks :
              \/ errand'[x] = NoErrand
              \/ errand[x] # NoErrand /\ errand'[x] = [errand[x] EXCEPT !.fresh = FALSE]
              \/ errand'[x] = errand[x] /\ (errand[x] # NoErrand => errand[x].d # d)
  <2>1. errand' = [x \in Desks |-> IF x = e THEN NoErrand
                      ELSE IF errand[x].act # "none" /\ errand[x].d = d
                           THEN [errand[x] EXCEPT !.fresh = FALSE] ELSE errand[x]]
    BY DEF AcceptCompletion, Accepts
  <2>2. \A x \in Desks : errand[x] # NoErrand => errand[x].act # "none"
    BY DEF Delivering, OnErrand, Errands
  <2>3. NoErrand.act = "none"
    BY DEF NoErrand
  <2> QED
    BY <2>1, <2>2, <2>3
<1> QED
  BY <1>2, <1>6, <1>7, <1>8, <1>9, <1>10, OnePurchaseWritten

(* No step of the manual orders disturbs the invariant or captures a       *)
(* deposit against the rules.                                              *)
LEMMA DeliveringStep == Delivering /\ [ManualNext]_manualVars => Delivering' /\ CaptureIsClean
<1> SUFFICES ASSUME Delivering, [ManualNext]_manualVars PROVE Delivering' /\ CaptureIsClean
  OBVIOUS
<1>1. ASSUME NEW d \in Purchases,
             \/ \E command \in DOMAIN HandoverFrom : HandOver(d, command)
             \/ \E s \in Suppliers : AssignSupplier(d, s)
             \/ \E e \in Desks : Confirm(e, d)
      PROVE  Delivering' /\ CaptureIsClean
  BY <1>1, HandoversKeepOrders
<1>2. ASSUME NEW d \in Purchases,
             \/ \E e \in Desks, q \in Quotes : Offer(e, d, q)
             \/ AcceptOffer(d) \/ Prepare(d)
             \/ \E n \in Uses : CompleteService(d, n)
             \/ \E e \in Desks : Advance(e, d, "ready", "READY") \/ Advance(e, d, "connect", "CONNECTION_CONFIRMED")
      PROVE  Delivering' /\ CaptureIsClean
  BY <1>2, OrdersKeepOrders
<1>3. ASSUME NEW e \in Desks, NEW d \in Purchases,
             \/ ReadConfirm(e, d) \/ ReadReady(e, d) \/ ReadConnect(e, d) \/ ReadAccept(e, d)
             \/ \E s \in Suppliers : ReadOffer(e, d, s)
      PROVE  Delivering' /\ CaptureIsClean
  BY <1>3, ReadersKeepOrders
<1>4. ASSUME NEW e \in Desks, NEW d \in Purchases, AcceptCompletion(e, d)
      PROVE  Delivering' /\ CaptureIsClean
  BY <1>4, AcceptanceKeepsOrders
<1>5. ASSUME NEW e \in Desks, DropErrand(e)
      PROVE  Delivering' /\ CaptureIsClean
  <2>1. OnErrand(NoErrand, handover[NoErrand.d], trade[NoErrand.d])
    BY DEF OnErrand
  <2> QED
    BY <1>5, <2>1, ErrandSet DEF DropErrand
<1>6. ASSUME UNCHANGED <<handover, trade, deposit, errand>>
      PROVE  Delivering' /\ CaptureIsClean
  BY <1>6 DEF Delivering, CaptureIsClean
<1>7. CASE \E d \in Purchases : Freeze(d) \/ Thaw(d)
  BY <1>6, <1>7 DEF Freeze, Thaw
<1>8. CASE UNCHANGED manualVars
  BY <1>6, <1>8 DEF manualVars
<1>9. CASE ManualNext
  BY <1>1, <1>2, <1>3, <1>4, <1>5, <1>7, <1>9 DEF ManualNext
<1> QED
  BY <1>8, <1>9

(* An order never runs ahead of the delivery it is for, and what is paid   *)
(* for was delivered, however late the requests of the supplier, the buyer *)
(* and the operator are.                                                   *)
THEOREM OrdersFollowDelivery == ManualSpec => []OrderFollowsDelivery
<1>1. Delivering => OrderFollowsDelivery
  BY DEF Delivering, Follows, OrderFollowsDelivery
<1> QED
  BY <1>1, DeliveringInit, DeliveringStep, PTL DEF ManualSpec

-----------------------------------------------------------------------------
(* The money of the purchases delivered by hand. What is held and what was *)
(* captured are sums over the deposits.                                    *)
Deposits == [status: {"NONE", "HELD", "CAPTURED"}, amount: Quotes \cup {0}, captured: Uses \cup {0}]
DealRows == [status: Underway \cup {"NONE", "OFFERED", "COMPLETED"},
             supplier: Parties, quoted: Quotes \cup {0}, actual: Uses \cup {0}]
Purses   == [available: Nat, held: Nat, spent: Nat]

HeldIn(b)     == IF b.status = "HELD" THEN b.amount ELSE 0
HeldOf(h)     == [d \in Purchases |-> HeldIn(h[d])]
CapturedOf(h) == [d \in Purchases |-> h[d].captured]

(* The order t of a purchase and its deposit b move together, and what the *)
(* supplier reports as used is within the deposit.                         *)
Deal(t, b) ==
    /\ t \in DealRows /\ b \in Deposits
    /\ b.status = "HELD" <=> t.status \in Underway
    /\ b.status = "CAPTURED" <=> t.status = "COMPLETED"
    /\ b.status # "CAPTURED" => b.captured = 0
    /\ t.status = "AWAITING_ACCEPTANCE" => t.actual <= b.amount
    /\ b.captured <= b.amount

(* The purse p, as the deposits h explain it.                              *)
Balanced(p, h) ==
    /\ p \in Purses
    /\ p.held = SumOf(HeldOf(h), Purchases)
    /\ p.spent = SumOf(CapturedOf(h), Purchases)
    /\ p.available + p.held + p.spent = Funds

Paying ==
    /\ DOMAIN trade = Purchases /\ deposit \in [Purchases -> Deposits]
    /\ \A d \in Purchases : Deal(trade[d], deposit[d])
    /\ Balanced(purse, deposit)
    /\ frozen \subseteq Purchases

(* Amounts are natural numbers.                                            *)
LEMMA AmountsAreNatural ==
    /\ \A b \in Deposits : b.amount \in Nat /\ b.captured \in Nat /\ HeldIn(b) \in Nat
    /\ \A t \in DealRows : t.quoted \in Nat /\ t.actual \in Nat
<1>1. (\A q \in Quotes \cup {0} : q \in Nat) /\ (\A u \in Uses \cup {0} : u \in Nat)
  BY ManualOrdersAssumption
<1>2. \A b \in Deposits : b.amount \in Nat /\ b.captured \in Nat
  BY <1>1 DEF Deposits
<1>3. \A t \in DealRows : t.quoted \in Nat /\ t.actual \in Nat
  BY <1>1 DEF DealRows
<1> QED
  BY <1>2, <1>3 DEF HeldIn

(* What the deposits hold, as the wallet adds it up.                       *)
HeldTable(h) == CHOOSE it : it = [s \in SUBSET Purchases |->
    IF s = {} THEN 0 ELSE (IF h[AnyOf(s)].status = "HELD" THEN h[AnyOf(s)].amount ELSE 0) + it[s \ {AnyOf(s)}]]

(* The table adds up what is held.                                         *)
LEMMA HeldTableSums ==
    ASSUME NEW h
    PROVE  HeldTable(h)[Purchases] = SumOf(HeldOf(h), Purchases)
<1> DEFINE f == HeldOf(h)
           Entries(it) == [s \in SUBSET Purchases |->
    IF s = {} THEN 0 ELSE (IF h[AnyOf(s)].status = "HELD" THEN h[AnyOf(s)].amount ELSE 0) + it[s \ {AnyOf(s)}]]
<1>1. IsFiniteSet(Purchases)
  BY ManualOrdersAssumption
<1>2. \A s \in SUBSET Purchases : s # {} =>
          f[AnyOf(s)] = IF h[AnyOf(s)].status = "HELD" THEN h[AnyOf(s)].amount ELSE 0
  BY AnyIsIn DEF HeldOf, HeldIn
<1>3. ASSUME NEW it
      PROVE  IsTable(it, f, Purchases) <=> it = Entries(it)
  <2> DEFINE by == [s \in SUBSET Purchases |-> IF s = {} THEN 0 ELSE f[AnyOf(s)] + it[s \ {AnyOf(s)}]]
  <2> HIDE DEF f
  <2>1. \A s \in SUBSET Purchases : by[s] = Entries(it)[s]
    BY <1>2
  <2>2. by = Entries(it)
    BY <2>1
  <2> QED
    BY <2>2 DEF IsTable
<1>4. PICK jt : IsTable(jt, f, Purchases) /\ SumOf(f, Purchases) = jt[Purchases]
  BY <1>1, SumIsTable
<1>5. HeldTable(h) = Entries(HeldTable(h))
  BY <1>3, <1>4 DEF HeldTable
<1>6. IsTable(HeldTable(h), f, Purchases)
  BY <1>3, <1>5
<1> QED
  BY <1>1, <1>4, <1>6, TablesAgree

(* What was captured, as the wallet adds it up.                            *)
CapturedTable(h) == CHOOSE it : it = [s \in SUBSET Purchases |->
    IF s = {} THEN 0 ELSE h[AnyOf(s)].captured + it[s \ {AnyOf(s)}]]

(* The table adds up what was captured.                                    *)
LEMMA CapturedTableSums ==
    ASSUME NEW h
    PROVE  CapturedTable(h)[Purchases] = SumOf(CapturedOf(h), Purchases)
<1> DEFINE f == CapturedOf(h)
           Entries(it) == [s \in SUBSET Purchases |->
    IF s = {} THEN 0 ELSE h[AnyOf(s)].captured + it[s \ {AnyOf(s)}]]
<1>1. IsFiniteSet(Purchases)
  BY ManualOrdersAssumption
<1>2. \A s \in SUBSET Purchases : s # {} => f[AnyOf(s)] = h[AnyOf(s)].captured
  BY AnyIsIn DEF CapturedOf
<1>3. ASSUME NEW it
      PROVE  IsTable(it, f, Purchases) <=> it = Entries(it)
  <2> DEFINE by == [s \in SUBSET Purchases |-> IF s = {} THEN 0 ELSE f[AnyOf(s)] + it[s \ {AnyOf(s)}]]
  <2> HIDE DEF f
  <2>1. \A s \in SUBSET Purchases : by[s] = Entries(it)[s]
    BY <1>2
  <2>2. by = Entries(it)
    BY <2>1
  <2> QED
    BY <2>2 DEF IsTable
<1>4. PICK jt : IsTable(jt, f, Purchases) /\ SumOf(f, Purchases) = jt[Purchases]
  BY <1>1, SumIsTable
<1>5. CapturedTable(h) = Entries(CapturedTable(h))
  BY <1>3, <1>4 DEF CapturedTable
<1>6. IsTable(CapturedTable(h), f, Purchases)
  BY <1>3, <1>5
<1> QED
  BY <1>1, <1>4, <1>6, TablesAgree

(* Only the order of a purchase is written.                                *)
LEMMA DealAdvanced ==
    ASSUME Paying, NEW d \in Purchases, NEW t, trade' = [trade EXCEPT ![d] = t],
           Deal(t, deposit[d]), UNCHANGED <<deposit, purse, frozen>>
    PROVE  Paying'
<1>1. \A x \in Purchases : Deal(trade'[x], deposit'[x])
  BY DEF Paying
<1>2. Balanced(purse', deposit')
  BY DEF Paying
<1> QED
  BY <1>1, <1>2 DEF Paying

(* The order and the deposit of a purchase are written, and the purse with *)
(* them.                                                                   *)
LEMMA DealPaid ==
    ASSUME Paying, NEW d \in Purchases, NEW t, NEW b, trade' = [trade EXCEPT ![d] = t],
           deposit' = [deposit EXCEPT ![d] = b], Deal(t, b), UNCHANGED frozen, purse' \in Purses,
           purse'.held = purse.held + HeldIn(b) - HeldIn(deposit[d]),
           purse'.spent = purse.spent + b.captured - deposit[d].captured,
           purse'.available + purse'.held + purse'.spent = purse.available + purse.held + purse.spent
    PROVE  Paying'
<1>1. \A x \in Purchases : Deal(trade'[x], deposit'[x])
  BY DEF Paying
<1>2. deposit' \in [Purchases -> Deposits] /\ DOMAIN trade' = Purchases /\ deposit'[d] = b
  BY DEF Paying, Deal
<1> DEFINE f == HeldOf(deposit)
           g == HeldOf(deposit')
           u == CapturedOf(deposit)
           v == CapturedOf(deposit')
<1>3. \A x \in Purchases : f[x] \in Int /\ g[x] \in Int
  <2>1. \A c \in Deposits : HeldIn(c) \in Int
    BY AmountsAreNatural
  <2> QED
    BY <1>2, <2>1 DEF Paying, HeldOf
<1>4. \A x \in Purchases : u[x] \in Int /\ v[x] \in Int
  <2>1. \A c \in Deposits : c.captured \in Int
    BY AmountsAreNatural
  <2> QED
    BY <1>2, <2>1 DEF Paying, CapturedOf
<1>5. f[d] = HeldIn(deposit[d]) /\ g[d] = HeldIn(b) /\ u[d] = deposit[d].captured /\ v[d] = b.captured
  BY <1>2 DEF HeldOf, CapturedOf
<1>6. \A x \in Purchases \ {d} : f[x] = g[x] /\ u[x] = v[x]
  BY DEF Paying, HeldOf, CapturedOf
<1>7. IsFiniteSet(Purchases)
  BY ManualOrdersAssumption
<1> HIDE DEF f, g, u, v
<1>8. SumOf(g, Purchases) = SumOf(f, Purchases) - f[d] + g[d]
  BY <1>3, <1>6, <1>7, SumChanged
<1>9. SumOf(v, Purchases) = SumOf(u, Purchases) - u[d] + v[d]
  BY <1>4, <1>6, <1>7, SumChanged
<1>10. /\ purse.held = SumOf(f, Purchases) /\ purse.spent = SumOf(u, Purchases)
       /\ purse.available + purse.held + purse.spent = Funds /\ purse.held \in Nat /\ purse.spent \in Nat
  BY DEF Paying, Balanced, Purses, f, u
<1>11. f[d] \in Int /\ g[d] \in Int /\ u[d] \in Int /\ v[d] \in Int
  BY <1>3, <1>4
<1>12. purse'.held = SumOf(g, Purchases) /\ purse'.spent = SumOf(v, Purchases)
  BY <1>5, <1>8, <1>9, <1>10, <1>11
<1>13. Balanced(purse', deposit')
  BY <1>10, <1>12 DEF Balanced, g, v
<1> QED
  BY <1>1, <1>2, <1>13 DEF Paying

(* What is held covers every deposit.                                      *)
LEMMA HeldCoversDeposit ==
    ASSUME Paying, NEW d \in Purchases
    PROVE  HeldIn(deposit[d]) \in Nat /\ HeldIn(deposit[d]) <= purse.held
<1> DEFINE f == HeldOf(deposit)
<1>1. \A x \in Purchases : f[x] \in Nat
  <2>1. \A c \in Deposits : HeldIn(c) \in Nat
    BY AmountsAreNatural
  <2> QED
    BY <2>1 DEF Paying, HeldOf
<1>2. f[d] = HeldIn(deposit[d])
  BY DEF HeldOf
<1>3. IsFiniteSet(Purchases) /\ IsFiniteSet(Purchases \ {d})
  BY ManualOrdersAssumption, FS_RemoveElement
<1> HIDE DEF f
<1>4. \A x \in Purchases : f[x] \in Int
  BY <1>1
<1>5. SumOf(f, Purchases) = f[d] + SumOf(f, Purchases \ {d})
  BY <1>3, <1>4, SumWithout
<1>6. SumOf(f, Purchases \ {d}) \in Nat
  BY <1>1, <1>3, SumOfNaturals
<1>7. purse.held = SumOf(f, Purchases)
  BY DEF Paying, Balanced, f
<1>8. f[d] \in Nat
  BY <1>1
<1>9. f[d] <= SumOf(f, Purchases)
  BY <1>5, <1>6, <1>8
<1> QED
  BY <1>2, <1>7, <1>8, <1>9

(* Nothing is held at first.                                               *)
LEMMA PayingInit == ManualInit => Paying
<1> SUFFICES ASSUME ManualInit PROVE Paying
  OBVIOUS
<1>1. \A d \in Purchases : trade[d] = NoTrade /\ deposit[d] = NoDeposit
  BY DEF ManualInit
<1>2. NoTrade \in DealRows /\ NoDeposit \in Deposits
  BY DEF NoTrade, NoDeposit, DealRows, Deposits, Parties
<1>3. Deal(NoTrade, NoDeposit)
  BY <1>2 DEF Deal, NoTrade, NoDeposit, Underway
<1>4. \A d \in Purchases : HeldOf(deposit)[d] = 0 /\ CapturedOf(deposit)[d] = 0
  BY <1>1 DEF HeldOf, CapturedOf, HeldIn, NoDeposit
<1>5. SumOf(HeldOf(deposit), Purchases) = 0 /\ SumOf(CapturedOf(deposit), Purchases) = 0
  BY <1>4, ManualOrdersAssumption, SumOfZeros
<1>6. Balanced(purse, deposit)
  BY <1>5, ManualOrdersAssumption DEF ManualInit, Balanced, Purses
<1> QED
  BY <1>1, <1>2, <1>3, <1>6 DEF Paying, ManualInit

(* The order goes on without the purse: it is offered, prepared, ready,    *)
(* connected, and its use is reported.                                     *)
LEMMA OrderAdvances ==
    ASSUME Delivering, Paying, NEW d \in Purchases,
           \/ \E e \in Desks, q \in Quotes : Offer(e, d, q)
           \/ Prepare(d)
           \/ \E n \in Uses : CompleteService(d, n)
           \/ \E e \in Desks : Advance(e, d, "ready", "READY") \/ Advance(e, d, "connect", "CONNECTION_CONFIRMED")
    PROVE  Paying'
<1> DEFINE g == trade[d]
           b == deposit[d]
<1>1. Deal(g, b) /\ g \in DealRows /\ b \in Deposits
  BY DEF Paying, Deal
<1>2. UNCHANGED <<deposit, purse, frozen>>
  BY DEF Offer, Prepare, CompleteService, Advance
<1>3. CASE \E e \in Desks, q \in Quotes : Offer(e, d, q)
  <2> PICK e \in Desks, q \in Quotes : Offer(e, d, q)
    BY <1>3
  <2> DEFINE t == [status |-> "OFFERED", supplier |-> errand[e].seen, quoted |-> q, actual |-> 0]
  <2>1. trade' = [trade EXCEPT ![d] = t] /\ g = NoTrade
    BY DEF Offer
  <2>2. errand[e].seen \in Parties
    BY DEF Offer, Doing, Delivering, OnErrand, NoErrand, Errands
  <2>3. t \in DealRows /\ t.status = "OFFERED"
    BY <2>2 DEF DealRows
  <2> HIDE DEF t
  <2>4. Deal(t, b)
    BY <1>1, <2>1, <2>3 DEF Deal, NoTrade, Underway
  <2> QED
    BY <1>2, <2>1, <2>4, DealAdvanced
<1>4. ASSUME NEW to \in {"PREPARING", "READY", "CONNECTION_CONFIRMED"},
             trade' = [trade EXCEPT ![d].status = to],
             g.status \in {"CARD_HOURS_HELD", "PREPARING", "READY"}
      PROVE  Paying'
  <2> DEFINE t == [g EXCEPT !.status = to]
  <2>1. trade' = [trade EXCEPT ![d] = t] /\ t = [g EXCEPT !.status = to]
    BY <1>4
  <2> HIDE DEF t
  <2>2. t \in DealRows /\ t.status = to
    BY <1>1, <2>1 DEF DealRows, Underway
  <2>3. Deal(t, b)
    BY <1>1, <1>4, <2>2 DEF Deal, Underway
  <2> QED
    BY <1>2, <2>1, <2>3, DealAdvanced
<1>5. CASE Prepare(d)
  BY <1>4, <1>5 DEF Prepare, Traded
<1>6. CASE \E e \in Desks : Advance(e, d, "ready", "READY") \/ Advance(e, d, "connect", "CONNECTION_CONFIRMED")
  <2> PICK e \in Desks : Advance(e, d, "ready", "READY") \/ Advance(e, d, "connect", "CONNECTION_CONFIRMED")
    BY <1>6
  <2>1. OnErrand(errand[e], handover[errand[e].d], trade[errand[e].d])
    BY DEF Delivering
  <2>2. CASE Advance(e, d, "ready", "READY")
    <3>1. g.status = "PREPARING"
      BY <2>1, <2>2 DEF Advance, Doing, OnErrand, NoErrand
    <3> QED
      BY <1>4, <2>2, <3>1 DEF Advance
  <2>3. CASE Advance(e, d, "connect", "CONNECTION_CONFIRMED")
    <3>1. g.status = "READY"
      BY <2>1, <2>3 DEF Advance, Doing, OnErrand, NoErrand
    <3> QED
      BY <1>4, <2>3, <3>1 DEF Advance
  <2> QED
    BY <2>2, <2>3
<1>7. CASE \E n \in Uses : CompleteService(d, n)
  <2> PICK n \in Uses : CompleteService(d, n)
    BY <1>7
  <2> DEFINE t == [g EXCEPT !.status = "AWAITING_ACCEPTANCE", !.actual = n]
  <2>1. /\ trade' = [trade EXCEPT ![d] = t] /\ t = [g EXCEPT !.status = "AWAITING_ACCEPTANCE", !.actual = n]
        /\ g.status = "CONNECTION_CONFIRMED" /\ n <= b.amount
    BY DEF CompleteService
  <2> HIDE DEF t
  <2>2. t \in DealRows /\ t.status = "AWAITING_ACCEPTANCE" /\ t.actual = n
    BY <1>1, <2>1 DEF DealRows, Underway
  <2>3. Deal(t, b)
    BY <1>1, <2>1, <2>2 DEF Deal, Underway
  <2> QED
    BY <1>2, <2>1, <2>3, DealAdvanced
<1> QED
  BY <1>3, <1>5, <1>6, <1>7

(* The buyer accepts the offer: its quote is held.                         *)
LEMMA OfferIsHeld ==
    ASSUME Paying, NEW d \in Purchases, AcceptOffer(d)
    PROVE  Paying'
<1> DEFINE g == trade[d]
           t == [g EXCEPT !.status = "CARD_HOURS_HELD"]
           b == [status |-> "HELD", amount |-> g.quoted, captured |-> 0]
<1>1. /\ Deal(g, deposit[d]) /\ g \in DealRows /\ g.quoted \in Nat
      /\ purse = [available |-> purse.available, held |-> purse.held, spent |-> purse.spent]
      /\ purse.available \in Nat /\ purse.held \in Nat /\ purse.spent \in Nat
  BY AmountsAreNatural DEF Paying, Deal, Balanced, Purses
<1>2. /\ trade' = [trade EXCEPT ![d] = t] /\ t = [g EXCEPT !.status = "CARD_HOURS_HELD"]
      /\ deposit' = [deposit EXCEPT ![d] = b]
      /\ g.status = "OFFERED" /\ purse.available >= g.quoted /\ UNCHANGED frozen
  BY DEF AcceptOffer, Traded
<1>3. purse' = [available |-> purse.available - g.quoted, held |-> purse.held + g.quoted, spent |-> purse.spent]
  BY <1>1 DEF AcceptOffer
<1>4. b \in Deposits /\ b.status = "HELD" /\ b.captured = 0 /\ b.amount = g.quoted
  BY <1>1 DEF Deposits, DealRows
<1> HIDE DEF t, b
<1>5. t \in DealRows /\ t.status = "CARD_HOURS_HELD"
  BY <1>1, <1>2 DEF DealRows, Underway
<1>6. Deal(t, b)
  BY <1>1, <1>4, <1>5 DEF Deal, Underway
<1>7. HeldIn(deposit[d]) = 0 /\ deposit[d].captured = 0 /\ HeldIn(b) = g.quoted
  BY <1>1, <1>2, <1>4 DEF Deal, Underway, HeldIn
<1>8. purse' \in Purses
  BY <1>1, <1>2, <1>3 DEF Purses
<1>9. /\ purse'.held = purse.held + HeldIn(b) - HeldIn(deposit[d])
      /\ purse'.spent = purse.spent + b.captured - deposit[d].captured
      /\ purse'.available + purse'.held + purse'.spent = purse.available + purse.held + purse.spent
  BY <1>1, <1>3, <1>4, <1>7
<1> QED
  BY <1>2, <1>6, <1>8, <1>9, DealPaid

(* The buyer accepts the work: what was used is captured, the rest is his  *)
(* again.                                                                  *)
LEMMA WorkIsPaid ==
    ASSUME Delivering, Paying, NEW e \in Desks, NEW d \in Purchases, AcceptCompletion(e, d)
    PROVE  Paying'
<1> DEFINE g == trade[d]
           o == deposit[d]
           t == [g EXCEPT !.status = "COMPLETED"]
           b == [o EXCEPT !.status = "CAPTURED", !.captured = g.actual]
<1>1. g.status = "AWAITING_ACCEPTANCE"
  <2>1. OnErrand(errand[e], handover[d], trade[d]) /\ errand[e].act = "accept" /\ errand[e].fresh
    BY DEF AcceptCompletion, Accepts, Doing, Delivering
  <2> QED
    BY <2>1 DEF OnErrand, NoErrand
<1>2. /\ Deal(g, o) /\ g \in DealRows /\ o \in Deposits /\ g.actual \in Nat /\ o.amount \in Nat
      /\ purse.available \in Nat /\ purse.held \in Nat /\ purse.spent \in Nat
  BY AmountsAreNatural DEF Paying, Deal, Balanced, Purses
<1>3. o.status = "HELD" /\ o.captured = 0 /\ g.actual <= o.amount
  BY <1>1, <1>2 DEF Deal, Underway
<1>4. /\ trade' = [trade EXCEPT ![d] = t] /\ t = [g EXCEPT !.status = "COMPLETED"]
      /\ deposit' = [deposit EXCEPT ![d] = b] /\ b = [o EXCEPT !.status = "CAPTURED", !.captured = g.actual]
      /\ UNCHANGED frozen
  BY DEF AcceptCompletion, Accepts
<1>5. purse' = [available |-> purse.available + (o.amount - g.actual), held |-> purse.held - o.amount,
                spent |-> purse.spent + g.actual]
  BY DEF AcceptCompletion, Accepts
<1>6. HeldIn(o) = o.amount /\ o.amount <= purse.held
  BY <1>3, HeldCoversDeposit DEF HeldIn
<1> HIDE DEF t, b
<1>7. t \in DealRows /\ t.status = "COMPLETED"
  BY <1>2, <1>4 DEF DealRows
<1>8. b \in Deposits /\ b.status = "CAPTURED" /\ b.captured = g.actual /\ b.amount = o.amount
  BY <1>2, <1>4 DEF Deposits, DealRows
<1>9. Deal(t, b)
  BY <1>3, <1>7, <1>8 DEF Deal, Underway
<1>10. purse' \in Purses
  BY <1>2, <1>3, <1>5, <1>6 DEF Purses
<1>11. /\ purse'.held = purse.held + HeldIn(b) - HeldIn(o)
       /\ purse'.spent = purse.spent + b.captured - o.captured
       /\ purse'.available + purse'.held + purse'.spent = purse.available + purse.held + purse.spent
  BY <1>2, <1>3, <1>5, <1>6, <1>8 DEF HeldIn
<1> QED
  BY <1>4, <1>9, <1>10, <1>11, DealPaid

(* Every step of the manual orders keeps the money explained.              *)
LEMMA PayingStep == Delivering /\ Paying /\ [ManualNext]_manualVars => Paying'
<1> SUFFICES ASSUME Delivering, Paying, [ManualNext]_manualVars PROVE Paying'
  OBVIOUS
<1>1. ASSUME UNCHANGED <<trade, deposit, purse>>, frozen' \subseteq Purchases
      PROVE  Paying'
  BY <1>1 DEF Paying, Balanced
<1>2. frozen \subseteq Purchases
  BY DEF Paying
<1>3. ASSUME NEW d \in Purchases,
             \/ \E command \in DOMAIN HandoverFrom : HandOver(d, command)
             \/ \E s \in Suppliers : AssignSupplier(d, s)
             \/ Freeze(d) \/ Thaw(d)
      PROVE  Paying'
  BY <1>1, <1>2, <1>3 DEF HandOver, AssignSupplier, Freeze, Thaw
<1>4. ASSUME NEW d \in Purchases,
             \/ \E e \in Desks, q \in Quotes : Offer(e, d, q)
             \/ Prepare(d)
             \/ \E n \in Uses : CompleteService(d, n)
             \/ \E e \in Desks : Advance(e, d, "ready", "READY") \/ Advance(e, d, "connect", "CONNECTION_CONFIRMED")
      PROVE  Paying'
  BY <1>4, OrderAdvances
<1>5. ASSUME NEW d \in Purchases, AcceptOffer(d)
      PROVE  Paying'
  BY <1>5, OfferIsHeld
<1>6. ASSUME NEW e \in Desks, NEW d \in Purchases, AcceptCompletion(e, d)
      PROVE  Paying'
  BY <1>6, WorkIsPaid
<1>7. ASSUME NEW e \in Desks, NEW d \in Purchases,
             \/ ReadConfirm(e, d) \/ Confirm(e, d) \/ ReadReady(e, d) \/ ReadConnect(e, d) \/ ReadAccept(e, d)
             \/ \E s \in Suppliers : ReadOffer(e, d, s)
             \/ DropErrand(e)
      PROVE  Paying'
  BY <1>1, <1>2, <1>7 DEF ReadConfirm, Confirm, ReadReady, ReadConnect, ReadAccept, ReadOffer, DropErrand
<1>8. CASE UNCHANGED manualVars
  BY <1>1, <1>2, <1>8 DEF manualVars
<1>9. CASE \E e \in Desks : DropErrand(e)
  BY <1>1, <1>2, <1>9 DEF DropErrand
<1>10. CASE ManualNext
  BY <1>3, <1>4, <1>5, <1>6, <1>7, <1>9, <1>10 DEF ManualNext
<1> QED
  BY <1>8, <1>10

(* What the invariant means: every card-hour held or spent is one of an    *)
(* order.                                                                  *)
LEMMA PayingMeans == Delivering /\ Paying => ManualTypeOK /\ ManualMoneyIsExplained
<1> SUFFICES ASSUME Delivering, Paying PROVE ManualTypeOK /\ ManualMoneyIsExplained
  OBVIOUS
<1>1. \A d \in Purchases : Deal(trade[d], deposit[d])
  BY DEF Paying
<1>2. trade \in [Purchases -> DealRows]
  <2>1. \A d \in Purchases : trade[d] \in DealRows
    BY <1>1 DEF Deal
  <2>2. trade \in [Purchases -> TradeRows]
    BY DEF Delivering
  <2> QED
    BY <2>1, <2>2
<1>3. \A e \in Desks : errand[e] # NoErrand => errand[e] \in Errands
  BY DEF Delivering, OnErrand
<1>4. ManualTypeOK
  <2>1. handover \in [Purchases -> HandoverRows] /\ deposit \in [Purchases -> Deposits]
    BY DEF Delivering, Paying
  <2>2. purse \in Purses /\ frozen \subseteq Purchases
    BY DEF Paying, Balanced
  <2> QED
    BY <1>2, <1>3, <2>1, <2>2 DEF ManualTypeOK, HandoverRows, DealRows, Deposits, Purses, Errands
<1>5. purse.held = MapThenSumSet(LAMBDA d : IF deposit[d].status = "HELD" THEN deposit[d].amount ELSE 0, Purchases)
  <2>1. MapThenSumSet(LAMBDA d : IF deposit[d].status = "HELD" THEN deposit[d].amount ELSE 0, Purchases)
            = HeldTable(deposit)[Purchases]
    BY DEF HeldTable, MapThenSumSet, MapThenFoldSet, AnyOf
  <2> QED
    BY <2>1, HeldTableSums DEF Paying, Balanced
<1>6. purse.spent = MapThenSumSet(LAMBDA d : deposit[d].captured, Purchases)
  <2>1. MapThenSumSet(LAMBDA d : deposit[d].captured, Purchases) = CapturedTable(deposit)[Purchases]
    BY DEF CapturedTable, MapThenSumSet, MapThenFoldSet, AnyOf
  <2> QED
    BY <2>1, CapturedTableSums DEF Paying, Balanced
<1>7. purse.available + purse.held + purse.spent = Funds
  BY DEF Paying, Balanced
<1>8. \A d \in Purchases :
          /\ deposit[d].status = "HELD" <=> trade[d].status \in Underway
          /\ deposit[d].status = "CAPTURED" <=> trade[d].status = "COMPLETED"
          /\ deposit[d].captured <= deposit[d].amount
  BY <1>1 DEF Deal
<1> QED
  BY <1>4, <1>5, <1>6, <1>7, <1>8 DEF ManualMoneyIsExplained

(* Purchases delivered by hand: card-hours are held exactly for the orders *)
(* under way and captured exactly for those completed, within what was     *)
(* held, none is lost, and no order runs ahead of its delivery.            *)
THEOREM ManualOrdersStaySound == OfficeSpec => []ManualOrdersAreSound
<1>1. OfficeInit => Delivering /\ Paying
  BY DeliveringInit, PayingInit DEF OfficeInit
<1>2. Delivering /\ Paying /\ [OfficeNext]_officeVars => Delivering' /\ Paying'
  <2>1. [OfficeNext]_officeVars => [ManualNext]_manualVars
    BY DEF OfficeNext, officeVars
  <2> QED
    BY <2>1, DeliveringStep, PayingStep
<1>3. Delivering /\ Paying => ManualOrdersAreSound
  <2>1. Delivering => OrderFollowsDelivery
    BY DEF Delivering, Follows, OrderFollowsDelivery
  <2> QED
    BY <2>1, PayingMeans DEF ManualOrdersAreSound
<1> QED
  BY <1>1, <1>2, <1>3, PTL DEF OfficeSpec

-----------------------------------------------------------------------------
(* The desks together.                                                     *)
DesksInOrder == Controlled /\ Worked /\ Questions /\ Delivering

(* Every desk starts in order.                                             *)
LEMMA DesksStart == OfficeInit => DesksInOrder
  BY ControlledInit, WorkedInit, QuestionsInit, DeliveringInit DEF OfficeInit, DesksInOrder

(* Every step of the office keeps every desk in order and is clean.        *)
LEMMA DesksMove ==
    DesksInOrder /\ [OfficeNext]_officeVars => DesksInOrder' /\ CaptureIsClean /\ CasesStayClosed /\ desk' = desk
<1> SUFFICES ASSUME DesksInOrder, [OfficeNext]_officeVars
             PROVE  DesksInOrder' /\ CaptureIsClean /\ CasesStayClosed /\ desk' = desk
  OBVIOUS
<1>1. [Next]_vars /\ [AppealNext]_appealVars /\ [ClaimNext]_claimVars /\ [ManualNext]_manualVars /\ desk' = desk
  BY DEF OfficeNext, officeVars
<1>2. UNCHANGED appealVars => CasesStayClosed
  BY DEF appealVars, CasesStayClosed
<1> QED
  BY <1>1, <1>2, ControlledStep, WorkedStep, QuestionsStep, DeliveringStep DEF DesksInOrder

(* The cases of purchases are worked one at a time and step by step, a     *)
(* refund outside the platform is verified by a second administrator on    *)
(* the proof that is on record, and the record of a question about a       *)
(* top-up is one path.                                                     *)
THEOREM CasesStaySound == OfficeSpec => []CasesAreSound
<1>1. DesksInOrder => CasesAreSound
  BY WorkedMeans, QuestionsMean DEF DesksInOrder, CasesAreSound
<1> QED
  BY <1>1, DesksStart, DesksMove, PTL DEF OfficeSpec

(* A capture is clean and completes its delivery; what is completed,       *)
(* cancelled, revoked, closed or verified stays so for whoever comes late. *)
THEOREM OfficeEndsStayFinal == OfficeSpec => OfficeEndsAreFinal
<1>1. DesksInOrder /\ [OfficeNext]_officeVars =>
          [/\ desk = "orders" => CaptureIsClean
           /\ desk = "cases" => CasesStayClosed]_officeVars
  BY DesksMove
<1> QED
  BY <1>1, DesksStart, DesksMove, PTL DEF OfficeSpec, OfficeEndsAreFinal

-----------------------------------------------------------------------------
(* The queue of queries. What is younger than a window was started by this *)
(* process once it is up for a window, and before that there is nothing in *)
(* the queue; the first of the line has waited longest, and what it has    *)
(* left is what it has not waited.                                         *)
QueueTyped ==
    /\ line \in Seq(Callers) /\ Len(line) <= MaxPending
    /\ waited \in [Callers -> Nat]
    /\ left \in -1 .. Timeout /\ up \in 0 .. Window
    /\ starts \in [Ages -> Nat] /\ sent \in [Ages -> Nat]

Cooling ==
    /\ up < Window => /\ line = <<>> /\ starts = NoStarts
                      /\ \A age \in Ages : age < up => sent[age] = 0
    /\ up = Window => sent = starts

Queueing ==
    /\ left >= 0 => line # <<>>
    /\ \A i \in DOMAIN line : /\ waited[line[i]] <= Timeout
                              /\ left >= 0 => waited[line[i]] + left <= Timeout
    /\ \A i, j \in DOMAIN line : i < j => waited[line[j]] <= waited[line[i]]

Budgeted == QueueTyped /\ Cooling /\ Queueing /\ Within(sent) <= Limit

(* The invariant says what MCBackOffice checks of the queue.               *)
LEMMA BudgetedSays == Budgeted => BudgetTypeOK /\ BudgetIsKept
  BY DEF Budgeted, QueueTyped, Queueing, BudgetTypeOK, BudgetIsKept

(* A count of the starts is a sum.                                         *)
LEMMA WithinIsSum ==
    ASSUME NEW f
    PROVE  Within(f) = SumOf(f, Ages) /\ IsFiniteSet(Ages)
<1>1. IsFiniteSet(Ages)
  BY FS_Interval, QueryBudgetAssumption DEF Ages
<1> QED BY <1>1 DEF Within, SumOf

(* One start more.                                                         *)
LEMMA OneStartMore ==
    ASSUME NEW f \in [Ages -> Nat]
    PROVE  Within([f EXCEPT ![0] = @ + 1]) = Within(f) + 1 /\ Within(f) \in Nat
<1> DEFINE g == [f EXCEPT ![0] = @ + 1]
<1>1. 0 \in Ages
  BY QueryBudgetAssumption DEF Ages
<1>2. /\ g[0] = f[0] + 1 /\ \A x \in Ages \ {0} : f[x] = g[x]
      /\ \A x \in Ages : f[x] \in Nat /\ g[x] \in Nat
  BY <1>1
<1> HIDE DEF g
<1>3. SumOf(g, Ages) = SumOf(f, Ages) - f[0] + g[0]
  <2>1. \A x \in Ages : f[x] \in Int /\ g[x] \in Int
    BY <1>2
  <2> QED BY <1>1, <1>2, <2>1, WithinIsSum, SumChanged
<1>4. SumOf(f, Ages) \in Nat /\ f[0] \in Nat
  BY <1>1, <1>2, WithinIsSum, SumOfNaturals
<1>5. SumOf(g, Ages) = SumOf(f, Ages) + 1
  BY <1>2, <1>3, <1>4
<1> QED BY <1>4, <1>5, WithinIsSum DEF g

(* Starts that get older get fewer: up to each age there are as many as    *)
(* there were up to the age before. The shortest range for which it were   *)
(* not so would have one shorter.                                          *)
LEMMA StartsGetOlder ==
    ASSUME NEW f \in [Ages -> Nat]
    PROVE  Within(Older(f)) <= Within(f)
<1> DEFINE g == Older(f)
           Short(n) == 0 .. n
           Wrong(s) == \E n \in Ages : s = Short(n) /\ SumOf(g, s) # SumOf(f, s \ {n})
           B == {s \in SUBSET Ages : Wrong(s)}
<1>1. IsFiniteSet(Ages) /\ Window \in Nat \ {0}
  BY WithinIsSum, QueryBudgetAssumption
<1>2. /\ g[0] = 0 /\ \A n \in Ages \ {0} : n - 1 \in Ages /\ g[n] = f[n - 1]
      /\ \A n \in Ages : g[n] \in Int /\ f[n] \in Int /\ f[n] \in Nat
  <2>1. \A n \in Ages \ {0} : n - 1 \in Ages
    BY <1>1 DEF Ages
  <2>2. 0 \in Ages
    BY <1>1 DEF Ages
  <2>3. \A n \in Ages : g[n] = IF n = 0 THEN 0 ELSE f[n - 1]
    BY DEF Older
  <2> HIDE DEF g
  <2> QED BY <2>1, <2>2, <2>3
<1> HIDE DEF g
<1>3. \A n \in Ages : Short(n) \subseteq Ages /\ n \in Short(n) /\ IsFiniteSet(Short(n))
  <2> SUFFICES ASSUME NEW n \in Ages PROVE Short(n) \subseteq Ages /\ n \in Short(n)
    BY <1>1, FS_Subset
  <2> QED BY <1>1 DEF Ages
<1>4. B = {}
  <2> SUFFICES ASSUME B # {} PROVE FALSE
    OBVIOUS
  <2>1. \E s \in B : \A t \in B : t \subseteq s => t = s
    <3>1. B \subseteq SUBSET Ages
      OBVIOUS
    <3> HIDE DEF B
    <3> QED BY <1>1, <3>1, SmallestSubset
  <2>2. PICK s \in B : \A t \in B : t \subseteq s => t = s
    BY <2>1
  <2>3. PICK n \in Ages : s = Short(n) /\ SumOf(g, s) # SumOf(f, s \ {n})
    BY <2>2
  <2>4. SumOf(g, s) = g[n] + SumOf(g, s \ {n})
    <3>1. s \subseteq Ages /\ n \in s /\ IsFiniteSet(s)
      BY <1>3, <2>3
    <3>2. \A x \in s : g[x] \in Int
      BY <1>2, <3>1
    <3> HIDE DEF B
    <3> QED BY <3>1, <3>2, SumWithout
  <2>5. CASE n = 0
    <3>1. s \ {n} = {}
      BY <2>3, <2>5, <1>1 DEF Ages
    <3>2. SumOf(g, s \ {n}) = 0 /\ SumOf(f, s \ {n}) = 0
      BY <3>1, SumOfNothing
    <3>3. g[n] = 0
      BY <1>2, <2>5
    <3>4. SumOf(g, s) = 0
      BY <2>4, <3>2, <3>3
    <3> QED BY <2>3, <3>2, <3>4
  <2>6. CASE n # 0
    <3>1. n - 1 \in Ages /\ g[n] = f[n - 1]
      BY <1>2, <2>6
    <3>2. s \ {n} = Short(n - 1) /\ Short(n - 1) # s
      BY <1>1, <2>3, <2>6 DEF Ages
    <3>3. SumOf(g, Short(n - 1)) = SumOf(f, Short(n - 1) \ {n - 1})
      <4>1. Short(n - 1) \notin B
        BY <2>2, <2>3, <3>2
      <4> QED BY <1>3, <3>1, <4>1
    <3>4. SumOf(f, Short(n - 1)) = f[n - 1] + SumOf(f, Short(n - 1) \ {n - 1})
      BY <1>2, <1>3, <3>1, SumWithout
    <3> QED BY <2>3, <2>4, <3>1, <3>2, <3>3, <3>4
  <2> QED BY <2>5, <2>6
<1>5. SumOf(g, Ages) <= SumOf(f, Ages)
  <2> DEFINE n == Window - 1
  <2>1. n \in Ages /\ Short(n) = Ages
    BY <1>1 DEF Ages
  <2>2. SumOf(g, Ages) = SumOf(f, Ages \ {n})
    BY <1>4, <2>1
  <2>3. SumOf(f, Ages \ {n}) <= SumOf(f, Ages)
    <3>1. Ages \ {n} \subseteq Ages
      OBVIOUS
    <3> HIDE DEF n
    <3> QED BY <1>1, <1>2, <3>1, SumOfPart
  <2> QED BY <2>2, <2>3
<1> QED BY <1>5, WithinIsSum DEF g

(* At first there is nothing.                                              *)
LEMMA BudgetedInit == BudgetInit => Budgeted
<1> SUFFICES ASSUME BudgetInit PROVE Budgeted
  OBVIOUS
<1>1. QueueTyped /\ Cooling /\ Queueing
  BY QueryBudgetAssumption DEF BudgetInit, QueueTyped, Cooling, Queueing, NoStarts, Ages
<1>2. Within(sent) = 0
  <2>1. \A age \in Ages : NoStarts[age] = 0
    BY DEF NoStarts
  <2> QED BY <2>1, WithinIsSum, SumOfZeros DEF BudgetInit
<1> QED BY <1>1, <1>2, QueryBudgetAssumption DEF Budgeted

(* A call that is queued has waited for nothing yet.                       *)
LEMMA EnqueueKeeps == ASSUME Budgeted, NEW c \in Callers, Enqueue(c) PROVE Budgeted'
<1>1. QueueTyped /\ Cooling /\ Queueing /\ up = Window /\ UNCHANGED <<left, starts, up, sent>>
  BY QueryBudgetAssumption DEF Budgeted, Enqueue, QueueTyped
<1>2. /\ line' \in Seq(Callers) /\ Len(line') = Len(line) + 1 /\ line'[Len(line) + 1] = c
      /\ \A i \in 1 .. Len(line) : line'[i] = line[i] /\ line[i] # c /\ line[i] \in Callers
      /\ DOMAIN line' = 1 .. Len(line) + 1 /\ DOMAIN line = 1 .. Len(line) /\ Len(line) \in Nat
  BY <1>1 DEF Enqueue, QueueTyped, Contains
<1>3. /\ waited' \in [Callers -> Nat] /\ waited'[c] = 0
      /\ \A d \in Callers : d # c => waited'[d] = waited[d]
  BY <1>1 DEF Enqueue, QueueTyped
<1>4. QueueTyped'
  BY <1>1, <1>2, <1>3, QueryBudgetAssumption DEF Enqueue, QueueTyped
<1>5. Cooling'
  <2>1. ~(up' < Window) /\ sent' = starts'
    BY <1>1, QueryBudgetAssumption DEF Cooling
  <2> QED BY <2>1 DEF Cooling
<1>6. Queueing'
  <2>1. \A i \in DOMAIN line' : \/ i \in DOMAIN line /\ waited'[line'[i]] = waited[line[i]]
                                \/ i = Len(line) + 1 /\ waited'[line'[i]] = 0
    BY <1>2, <1>3
  <2>2. line' # <<>>
    BY <1>2
  <2>3. \A i \in DOMAIN line : waited[line[i]] \in Nat
    BY <1>1, <1>2 DEF QueueTyped
  <2>4. \A i \in DOMAIN line' : /\ waited'[line'[i]] <= Timeout
                                /\ left' >= 0 => waited'[line'[i]] + left' <= Timeout
    BY <1>1, <2>1, QueryBudgetAssumption DEF Queueing, QueueTyped
  <2>5. \A i, j \in DOMAIN line' : i < j => waited'[line'[j]] <= waited'[line'[i]]
    BY <1>1, <1>2, <2>1, <2>3 DEF Queueing
  <2> QED BY <2>2, <2>4, <2>5 DEF Queueing
<1> QED BY <1>1, <1>4, <1>5, <1>6 DEF Budgeted

(* A query is started by a process that knows all starts of the window.    *)
LEMMA StartKeeps == ASSUME Budgeted, NEW c \in Callers, Start(c) PROVE Budgeted'
<1>1. /\ QueueTyped /\ Cooling /\ Queueing /\ UNCHANGED <<line, waited, up>>
      /\ line # <<>> /\ line[1] = c /\ waited[c] < Timeout /\ left' = Timeout - waited[c]
      /\ starts' = [starts EXCEPT ![0] = @ + 1] /\ sent' = [sent EXCEPT ![0] = @ + 1]
      /\ Within(starts) < Limit
  BY DEF Budgeted, Start, ItsTurn
<1>2. up = Window /\ sent = starts
  <2>1. ~(up < Window)
    BY <1>1 DEF Cooling
  <2>2. up \in 0 .. Window /\ Window \in Nat
    BY <1>1, QueryBudgetAssumption DEF QueueTyped
  <2>3. up = Window
    BY <2>1, <2>2
  <2> QED BY <1>1, <2>3 DEF Cooling
<1>3. starts \in [Ages -> Nat] /\ waited[c] \in Nat
  BY <1>1 DEF QueueTyped
<1>4. starts' \in [Ages -> Nat] /\ sent' = starts'
  <2>1. 0 \in Ages
    BY QueryBudgetAssumption DEF Ages
  <2>2. starts[0] + 1 \in Nat
    BY <1>3, <2>1
  <2> QED BY <1>1, <1>2, <1>3, <2>2
<1>5. QueueTyped'
  BY <1>1, <1>2, <1>3, <1>4, QueryBudgetAssumption DEF QueueTyped
<1>6. Cooling'
  BY <1>1, <1>2 DEF Cooling
<1>7. Queueing'
  <2>1. \A i \in DOMAIN line : waited[line[i]] <= waited[c] /\ waited[line[i]] \in Nat
    <3>1. line \in Seq(Callers) /\ 1 \in DOMAIN line /\ \A i \in DOMAIN line : i = 1 \/ 1 < i
      BY <1>1 DEF QueueTyped
    <3>2. \A i \in DOMAIN line : line[i] \in Callers
      BY <3>1
    <3>3. \A i \in DOMAIN line : waited[line[i]] \in Nat
      BY <1>1, <3>2 DEF QueueTyped
    <3>4. \A i \in DOMAIN line : 1 < i => waited[line[i]] <= waited[line[1]]
      BY <1>1, <3>1 DEF Queueing
    <3>5. \A i \in DOMAIN line : waited[line[i]] <= waited[line[1]]
      <4> SUFFICES ASSUME NEW i \in DOMAIN line PROVE waited[line[i]] <= waited[line[1]]
        OBVIOUS
      <4>1. CASE i = 1
        BY <3>3, <4>1
      <4>2. CASE 1 < i
        BY <3>4, <4>2
      <4> QED BY <3>1, <4>1, <4>2
    <3> QED BY <1>1, <3>3, <3>5
  <2>2. \A i \in DOMAIN line : waited[line[i]] + left' <= Timeout
    BY <1>1, <1>3, <2>1, QueryBudgetAssumption
  <2> QED BY <1>1, <2>2 DEF Queueing
<1>8. Within(sent') <= Limit
  <2>1. Within([starts EXCEPT ![0] = @ + 1]) = Within(starts) + 1 /\ Within(starts) \in Nat
    BY <1>3, OneStartMore
  <2>2. Within(sent') = Within([starts EXCEPT ![0] = @ + 1])
    BY <1>1, <1>2
  <2> QED BY <1>1, <2>1, <2>2, QueryBudgetAssumption
<1> QED BY <1>5, <1>6, <1>7, <1>8 DEF Budgeted

(* What leaves the line leaves it at its head.                             *)
LEMMA NextInLine ==
    ASSUME Budgeted, line # <<>>, line' = Tail(line), left' = -1, UNCHANGED <<waited, starts, up, sent>>
    PROVE  Budgeted'
<1>1. QueueTyped /\ Cooling /\ Queueing
  BY DEF Budgeted
<1>2. /\ line' \in Seq(Callers) /\ Len(line') = Len(line) - 1 /\ Len(line) \in Nat
      /\ \A i \in DOMAIN line' : i + 1 \in DOMAIN line /\ line'[i] = line[i + 1]
      /\ \A i \in DOMAIN line' : i \in Nat
  BY <1>1 DEF QueueTyped
<1>3. QueueTyped'
  BY <1>1, <1>2, QueryBudgetAssumption DEF QueueTyped
<1>4. Cooling'
  BY <1>1, <1>2 DEF Cooling, QueueTyped
<1>5. Queueing'
  <2>1. \A i, j \in DOMAIN line' : i < j => waited[line'[j]] <= waited[line'[i]]
    BY <1>1, <1>2 DEF Queueing
  <2>2. \A i \in DOMAIN line' : waited[line'[i]] <= Timeout
    BY <1>1, <1>2 DEF Queueing
  <2> QED BY <2>1, <2>2 DEF Queueing
<1> QED BY <1>1, <1>3, <1>4, <1>5 DEF Budgeted

(* Time passes only while a query runs that has some left, or for an empty *)
(* line; a process that becomes a window old has outlived what others      *)
(* started before it.                                                      *)
LEMMA TickKeeps == ASSUME Budgeted, Tick PROVE Budgeted'
<1>1. /\ QueueTyped /\ Cooling /\ Queueing /\ UNCHANGED line
      /\ IF left = -1 THEN line = <<>> ELSE left > 0
      /\ left' = IF left = -1 THEN -1 ELSE left - 1
      /\ starts' = Older(starts) /\ sent' = Older(sent)
      /\ up' = IF up < Window THEN up + 1 ELSE Window
  BY DEF Budgeted, Tick
<1>2. Window \in Nat \ {0} /\ Timeout \in Nat
  BY QueryBudgetAssumption
<1>3. /\ left \in -1 .. Timeout /\ left' \in -1 .. Timeout /\ (left' >= 0 => left >= 0 /\ left' = left - 1)
      /\ up \in 0 .. Window /\ up' \in 0 .. Window
  BY <1>1, <1>2 DEF QueueTyped
<1>4. /\ waited' \in [Callers -> Nat]
      /\ \A i \in DOMAIN line : waited'[line[i]] = waited[line[i]] + 1 /\ waited[line[i]] \in Nat
  <2>1. \A c \in Callers : waited'[c] = IF Contains(line, c) THEN waited[c] + 1 ELSE 0
    BY DEF Tick
  <2>2. waited' = [c \in Callers |-> waited'[c]]
    BY DEF Tick
  <2>3. \A i \in DOMAIN line : line[i] \in Callers /\ Contains(line, line[i])
    BY <1>1 DEF QueueTyped, Contains
  <2>4. waited \in [Callers -> Nat]
    BY <1>1 DEF QueueTyped
  <2>5. \A c \in Callers : waited'[c] \in Nat
    BY <2>1, <2>4
  <2>6. waited' \in [Callers -> Nat]
    BY <2>2, <2>5
  <2>7. \A i \in DOMAIN line : waited[line[i]] \in Nat
    BY <2>3, <2>4
  <2> QED BY <2>1, <2>3, <2>6, <2>7
<1>5. \A f \in [Ages -> Nat] : Older(f) \in [Ages -> Nat]
  <2>1. \A a \in Ages : a # 0 => a - 1 \in Ages
    BY <1>2 DEF Ages
  <2> QED BY <2>1 DEF Older
<1>6. QueueTyped'
  BY <1>1, <1>3, <1>4, <1>5 DEF QueueTyped
<1>7. Cooling'
  <2>1. CASE up = Window
    BY <1>1, <1>2, <2>1 DEF Cooling
  <2>2. CASE up < Window
    <3>1. /\ up' = up + 1 /\ line' = <<>> /\ starts = NoStarts
          /\ \A a \in Ages : a < up => sent[a] = 0
      BY <1>1, <2>2 DEF Cooling
    <3>2. \A a \in Ages : a < up' => sent'[a] = 0
      <4> SUFFICES ASSUME NEW a \in Ages, a < up', a # 0 PROVE sent[a - 1] = 0
        BY <1>1 DEF Older
      <4>1. a - 1 \in Ages /\ a - 1 < up
        BY <1>2, <1>3, <3>1 DEF Ages
      <4> QED BY <3>1, <4>1
    <3>3. starts' = NoStarts
      <4>1. \A a \in Ages : a # 0 => a - 1 \in Ages
        BY <1>2 DEF Ages
      <4> QED BY <1>1, <3>1, <4>1 DEF Older, NoStarts
    <3>4. up' = Window => sent' = NoStarts
      <4> SUFFICES ASSUME up' = Window PROVE sent' = NoStarts
        OBVIOUS
      <4>1. \A a \in Ages : a < up'
        BY <1>2 DEF Ages
      <4>2. sent' = [a \in Ages |-> sent'[a]]
        BY <1>1 DEF Older
      <4> QED BY <3>2, <4>1, <4>2 DEF NoStarts
    <3> QED BY <3>1, <3>2, <3>3, <3>4 DEF Cooling
  <2> QED BY <1>2, <1>3, <2>1, <2>2
<1>8. Queueing'
  <2>1. \A i \in DOMAIN line : waited'[line[i]] <= Timeout
    <3> SUFFICES ASSUME NEW i \in DOMAIN line PROVE waited[line[i]] + 1 <= Timeout
      BY <1>4
    <3>1. left > 0 /\ waited[line[i]] + left <= Timeout /\ waited[line[i]] \in Nat
      BY <1>1, <1>3, <1>4 DEF Queueing
    <3> QED BY <1>2, <1>3, <3>1
  <2>2. \A i \in DOMAIN line : left' >= 0 => waited'[line[i]] + left' <= Timeout
    <3> SUFFICES ASSUME NEW i \in DOMAIN line, left' >= 0 PROVE waited[line[i]] + 1 + left' <= Timeout
      BY <1>4
    <3>1. left' = left - 1 /\ waited[line[i]] + left <= Timeout /\ waited[line[i]] \in Nat
      BY <1>1, <1>3, <1>4 DEF Queueing
    <3> QED BY <1>2, <1>3, <3>1
  <2>3. \A i, j \in DOMAIN line : i < j => waited'[line[j]] <= waited'[line[i]]
    BY <1>1, <1>4 DEF Queueing
  <2>4. left' >= 0 => line # <<>>
    BY <1>1, <1>3 DEF Queueing
  <2> QED BY <1>1, <2>1, <2>2, <2>3, <2>4 DEF Queueing
<1>9. Within(sent') <= Limit
  <2>1. sent \in [Ages -> Nat] /\ Within(sent) <= Limit
    BY <1>1 DEF Budgeted, QueueTyped
  <2>2. Within(sent') <= Within(sent)
    BY <1>1, <2>1, StartsGetOlder
  <2>3. Within(sent) \in Nat /\ Within(sent') \in Nat
    BY <1>6, <2>1, OneStartMore DEF QueueTyped
  <2> QED BY <2>1, <2>2, <2>3, QueryBudgetAssumption
<1> QED BY <1>6, <1>7, <1>8, <1>9 DEF Budgeted

(* A process that starts anew knows nothing, and waits.                    *)
LEMMA RestartKeeps == ASSUME Budgeted, Restart PROVE Budgeted'
<1>1. QueueTyped /\ Within(sent') <= Limit /\ up' = 0
  BY DEF Budgeted, Restart
<1>2. line' = <<>> /\ starts' = NoStarts /\ left' = -1 /\ UNCHANGED <<waited, sent>>
  BY DEF Restart
<1>3. QueueTyped'
  BY <1>1, <1>2, QueryBudgetAssumption DEF QueueTyped, NoStarts
<1>4. Cooling'
  BY <1>1, <1>2, QueryBudgetAssumption DEF Cooling, Ages
<1>5. Queueing'
  BY <1>2 DEF Queueing
<1> QED BY <1>1, <1>3, <1>4, <1>5 DEF Budgeted

(* Every step of the queue keeps the invariant.                            *)
LEMMA BudgetedStays == Budgeted /\ [BudgetNext]_budgetVars => Budgeted'
<1> SUFFICES ASSUME Budgeted, [BudgetNext]_budgetVars PROVE Budgeted'
  OBVIOUS
<1>1. CASE UNCHANGED budgetVars
  BY <1>1 DEF budgetVars, Budgeted, QueueTyped, Cooling, Queueing
<1>2. ASSUME NEW c \in Callers, Refuse(c) PROVE Budgeted'
  <2>1. line # <<>> /\ line' = Tail(line) /\ left' = -1 /\ UNCHANGED <<waited, starts, up, sent>>
    BY <1>2 DEF Refuse, ItsTurn
  <2> QED BY <2>1, NextInLine
<1>3. CASE End
  <2>1. line # <<>> /\ line' = Tail(line) /\ left' = -1 /\ UNCHANGED <<waited, starts, up, sent>>
    BY <1>3 DEF End, Budgeted, Queueing
  <2> QED BY <2>1, NextInLine
<1>4. CASE Restart
  BY <1>4, RestartKeeps
<1> QED BY <1>1, <1>2, <1>3, <1>4, EnqueueKeeps, StartKeeps, TickKeeps DEF BudgetNext

(* However calls queue, time out and fail, and whenever the process starts *)
(* anew: the provider sees at most so many queries in a window, and nobody *)
(* waits longer than the deadline.                                         *)
THEOREM QueriesStayBounded == OfficeSpec => []QueriesAreBounded
<1>1. OfficeInit => Budgeted
  BY BudgetedInit DEF OfficeInit
<1>2. Budgeted /\ [OfficeNext]_officeVars => Budgeted'
  BY BudgetedStays DEF OfficeNext, officeVars
<1>3. Budgeted => QueriesAreBounded
  BY BudgetedSays DEF QueriesAreBounded
<1> QED
  BY <1>1, <1>2, <1>3, PTL DEF OfficeSpec
=============================================================================
