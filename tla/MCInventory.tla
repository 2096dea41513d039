---------------------------- MODULE MCInventory ----------------------------
(* Instances of Inventory for TLC: one or two records, a few requests.     *)
EXTENDS Inventory, TLC

OneRecord(q) == [i \in Items |-> q]

StockOfOne == OneRecord(1)
StockOfTwo == OneRecord(2)

NoDeltas == {}
UpToTwoDeltas == {-2, 1}

\* Quantities that the callers mean, and one that nothing refuses.
AnyBody == {-1, 1, 2}

EveryOperation == {"adjust", "reserve", "deduct", "release"}
ReserveOnly == {"reserve"}
=============================================================================
