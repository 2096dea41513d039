---------------------------- MODULE MCTransfers ----------------------------
(* Instances of Transfers for TLC: one unit per transfer; the product has  *)
(* two rows at one branch, one at another and none at the third.           *)
EXTENDS Transfers, TLC

CONSTANTS b1, b2, w1, w2, w3

TwoEach == [w \in Rows |-> 2]

TwoAtTheFirst == w1 :> b1 @@ w2 :> b1 @@ w3 :> b2

DownAndUp == {-1, 2}

TransferSymmetry ==
  Permutations(Requests) \cup Permutations(Transfers) \cup Permutations(Staff)
    \cup Permutations(Corrections) \cup Permutations({w1, w2})
=============================================================================
