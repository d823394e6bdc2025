--------------------------- MODULE MCWorkerControl ---------------------------
(* Instances of WorkerControl for TLC.                                     *)
EXTENDS WorkerControl
=============================================================================
