------------------------------ MODULE MCMaker ------------------------------
(* Maker for TLC: the mid prices 10 and 11 1/2, in quarters of a tick.      *)
EXTENDS Maker

MidsMC == {40, 46}
=============================================================================
