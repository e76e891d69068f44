--------------------------- MODULE MCMarketEntry ---------------------------
(* Instances for TLC of what comes to the market: lots of the exchange,     *)
(* demands and quotes, and machines for trials. They share no row, so the   *)
(* first state settles which of them moves and the others stay as they are. *)
EXTENDS ExchangeSupply, MarketDemands, SupplyIntake, TLC

CONSTANTS d0, x1, x2, l3, plainKey, catalogKey, k1, k2, w1, w2, poolA, poolB

VARIABLE desk

(* Windows of lots that overlap in pairs, in a chain and around one another. *)
Overlaps == {[start |-> 1, end |-> 3, units |-> 1], [start |-> 2, end |-> 4, units |-> 1],
             [start |-> 0, end |-> 2, units |-> 2]}

(* Hours of a node: two that overlap, and two pairs of which one is too long. *)
Free == {[start |-> 0, end |-> 2], [start |-> 1, end |-> 3], [start |-> 4, end |-> 5]}

entryVars == <<desk, lotVars, demandVars, intakeVars>>

EntryInit ==
    /\ desk \in {"lots", "demands", "machines"}
    /\ LotsInit /\ DemandInit /\ IntakeInit
    /\ desk # "lots" => store = "sqlite"

EntryNext ==
    \/ desk = "lots" /\ LotsNext /\ UNCHANGED <<desk, demandVars, intakeVars>>
    \/ desk = "demands" /\ DemandNext /\ UNCHANGED <<desk, lotVars, intakeVars>>
    \/ desk = "machines" /\ IntakeNext /\ UNCHANGED <<desk, lotVars, demandVars>>

EntrySpec == EntryInit /\ [][EntryNext]_entryVars

-----------------------------------------------------------------------------
(* What is on sale on the exchange is there: LotsFit.                      *)
LotsAreSound == desk = "lots" => LotsTypeOK /\ LotsFit

(* What is shown of demands and quotes is complete and current:            *)
(* DemandsAreComplete, QuotesAreCurrent.                                   *)
DemandsAreSound == desk = "demands" => DemandTypeOK /\ DemandsAreComplete /\ QuotesAreCurrent

(* What is on sale as a trial is verified, free and within the policy:     *)
(* PromotionsAreSound.                                                     *)
MachinesAreSound == desk = "machines" => IntakeTypeOK /\ PromotionsAreSound

(* What was withdrawn, closed, superseded, pruned, decided or suspended    *)
(* stays so, whoever comes late with what he read before.                  *)
EndsAreFinal == [][/\ desk = "lots" => WithdrawalReplays' /\ StaysOver
                   /\ desk = "demands" => DemandsOnlyAdvance
                   /\ desk = "machines" => DecisionsStand]_entryVars

-----------------------------------------------------------------------------
Symmetry == Permutations({x1, x2}) \cup Permutations({k1, k2}) \cup Permutations({w1, w2})
            \cup Permutations({poolA, poolB})

(* Bounds: quotes of the curated demand are drawn up while no other demand *)
(* is there; jobs begin when the nodes are complete and online; at most    *)
(* two windows are declared.                                               *)
Apart ==
    \/ desk # "demands" \/ Held = 0
    \/ /\ \A q \in QuoteKeys : offers[q].demand # Curated
       /\ \A v \in Visits : visit[v].step = "quote" => visit[v].d # Curated
Prompt == desk = "machines" /\ (\E j \in Jobs : jobs[j] # NoJob) =>
              \A n \in Nodes : agents[n] = "ACTIVE" /\ "gpus" \in DOMAIN parts[n]
Few == desk = "machines" => Cardinality(DOMAIN windows) <= 2
=============================================================================
