----------------------------- MODULE MCRepairs -----------------------------
(* Instances of Repairs for TLC.                                           *)
EXTENDS Repairs, TLC

RequestSymmetry == Permutations(Requests)
=============================================================================
