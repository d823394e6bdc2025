-------------------------- MODULE MCLateStatements --------------------------
(* An instance of LateStatements for TLC.                                  *)
EXTENDS LateStatements

CONSTANTS c1, c2, w1, w2

OneQueue == [c \in Consumer |-> "default"]

TwoWorkers == [c \in Consumer |-> IF c = c1 THEN w1 ELSE w2]
=============================================================================
