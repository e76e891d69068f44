-------------------------- MODULE MCHostingBilling --------------------------
(* Instances of HostingBilling for TLC.                                    *)
EXTENDS HostingBilling, TLC

CONSTANTS c1, c2

(* Prices that end within a micro at three minutes, and a price of one     *)
(* micro an hour, whose shares round to nothing.                           *)
MCRate == (c1 :> 10007) @@ (c2 :> 1)

(* The contract of the first price alone.                                  *)
MCRateOne == c1 :> 10007

(* The second tier is reached by one full hour.                            *)
MCFeeSteps == {[minimum |-> 0, fee |-> 100], [minimum |-> 10000, fee |-> 80]}

(* The contracts differ by their price.                                    *)
Symmetry == Permutations(Callers)
=============================================================================
