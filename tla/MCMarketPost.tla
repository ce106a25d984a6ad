---------------------------- MODULE MCMarketPost ----------------------------
(* A Coupang row; a row of the other marketplace has NaverPost's runs.     *)
EXTENDS MarketPost, TLC

CONSTANTS c, t1, staff, auto, x, y

MCTarget == [i \in Inquiry |-> t1]

\* Texts are only compared.
MCSymmetry == Permutations(Answer)
=============================================================================
