----------------------------- MODULE MCDelivery -----------------------------
(* An instance of Delivery for TLC.                                        *)
EXTENDS Delivery

CONSTANTS c1, c2, w1, w2

OneQueue == [c \in Consumer |-> "default"]

(* c1 has a process of its own.                                            *)
TwoWorkers == [c \in Consumer |-> IF c = c1 THEN w1 ELSE w2]
=============================================================================
