------------------------------ MODULE Workers ------------------------------
(***************************************************************************)
(* The clients of the `messages` table: which worker process each consumer *)
(* runs in.  It decides which leases a heartbeat renews, and which         *)
(* consumers a crash takes with it.                                        *)
(***************************************************************************)
EXTENDS Messages

CONSTANTS
  Worker,     \* worker processes
  WorkerOf    \* the worker each consumer runs in

ASSUME WorkersAssumption == WorkerOf \in [Consumer -> Worker]
=============================================================================
