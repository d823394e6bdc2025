----------------------------- MODULE MCNotifier -----------------------------
(* Instances of Notifier for TLC.  Messages of one queue and idle consumers *)
(* are interchangeable.                                                    *)
EXTENDS Notifier, TLC

NotifierSymmetry == Permutations(Message) \cup Permutations(Consumer)
=============================================================================
