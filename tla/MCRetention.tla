---------------------------- MODULE MCRetention ----------------------------
(* Instances of Retention for TLC.                                          *)
EXTENDS Retention, TLC

Symmetry == Permutations(Requests) \cup Permutations(Workers)
=============================================================================
