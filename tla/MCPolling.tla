----------------------------- MODULE MCPolling -----------------------------
(* Polling for TLC.  The constants are given in the cfgs.                  *)
EXTENDS Polling
=============================================================================
