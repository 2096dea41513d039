------------------------------ MODULE MCOrders ------------------------------
(* Instances of Orders for TLC: two checkouts that compete for stock.      *)
EXTENDS Orders, TLC

CONSTANTS i1, i2, o1, o2

OneEach == [i \in Items |-> 1]
TwoEach == [i \in Items |-> 2]

OneLine(i) == <<[item |-> i, quantity |-> 1]>>

\* o1 buys both items, in the order in which o2 does not need them.
OverlappingCarts == (o1 :> OneLine(i1) \o OneLine(i2)) @@ (o2 :> OneLine(i2))
SingleCarts == [c \in Checkouts |-> OneLine(i1)]

CompletionSymmetry == Permutations(Completions)
=============================================================================
