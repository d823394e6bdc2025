---------------------------- MODULE MCLeaseTiming ----------------------------
(* Instances of LeaseTiming for TLC.                                       *)
EXTENDS LeaseTiming
=============================================================================
