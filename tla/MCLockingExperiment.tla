------------------------ MODULE MCLockingExperiment ------------------------
(* An instance of LockingExperiment for TLC.                               *)
EXTENDS LockingExperiment
=============================================================================
