----------------------------- MODULE MCExample3 -----------------------------
(* Example3 for TLC.  The constants are given in the cfgs.                  *)
EXTENDS Example3
=============================================================================
