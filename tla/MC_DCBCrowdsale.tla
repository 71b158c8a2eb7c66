--------------------------- MODULE MC_DCBCrowdsale ---------------------------
(* Constants of DCBCrowdsale for TLC: one priced bond and one without a   *)
(* price.                                                                 *)
EXTENDS DCBCrowdsale

MCBondPrices == [b1 |-> 2]
=============================================================================
