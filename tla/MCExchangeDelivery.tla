------------------------- MODULE MCExchangeDelivery -------------------------
(* Instances of ExchangeDelivery for TLC.                                  *)
EXTENDS ExchangeDelivery, TLC

CONSTANTS r1, r2

Symmetry == Permutations(Calls)
=============================================================================
