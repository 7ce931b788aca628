---------------------------- MODULE MCStrategy1 ----------------------------
(* Instances of Strategy1 for TLC.  The constants are given in the cfgs.   *)
EXTENDS Strategy1
=============================================================================
