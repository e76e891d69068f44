-------------------------- MODULE MCSupplyTrials --------------------------
(* Model-checking instance of SupplyTrials: two buyers want the same hours, *)
(* o1 may pay by Alipay, and o2 may have been left half paid.               *)
EXTENDS SupplyTrials, TLC

CONSTANTS o1, o2, a1, a2

MCSlots == (o1 :> {1, 2}) @@ (o2 :> {2, 3})

(* o1 orders first, unless o2 is half paid; what o2 does is looked at only  *)
(* when nothing went wrong for it. Refunds are asked for o1 only: two while *)
(* nothing else moves, and one, claimed once, when the node is delivered.   *)
Asked == {c \in Refs : refund[c].status # "NONE"}
Fits ==
    /\ order[o2] # "NONE" => /\ order[o1] # "NONE" \/ Undelivered(Facts(o2))
                             /\ late[o2] => order[o1] = "NONE"
                             /\ "FAILED" \notin {check[o1], check[o2]}
                             /\ \A c \in Asked : refund[c].run \in {"PROCESSING", "SUCCEEDED"} \/ refund[c].o = o2
    /\ \A c \in Refs : refund[c].o = o2 => order[o1] = "NONE"
    /\ Cardinality(Asked) = 2 => node[o1] = "none" /\ order[o2] = "NONE"
    /\ (node[o1] # "none" \/ order[o2] # "NONE") => \A c \in Refs : refund[c].claims <= 1

MCSymmetry == Permutations(Workers) \cup Permutations(Refs) \cup Permutations(Admins)
=============================================================================
