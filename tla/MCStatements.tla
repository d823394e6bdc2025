---------------------------- MODULE MCStatements ----------------------------
(* An instance of Statements for TLC.                                      *)
EXTENDS Statements, FiniteSetsExt, TLC

CONSTANTS c1, c2, c3, w1, w2

TwoWorkers == [c \in Consumer |-> IF c = c3 THEN w2 ELSE w1]

(* Sessions differ only in their names, and so do the consumers of w1.     *)
Symmetry == Permutations(Session) \cup Permutations({c1, c2})

(* Backoff is PostgreSQL's least(power(2, attempts), 60) for every value   *)
(* attempts can have: the publish form allows max_attempts up to 20.       *)
ASSUME \A n \in 1..20 : Backoff(n) = Min({2^n, 60})
=============================================================================
