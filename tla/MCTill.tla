------------------------------- MODULE MCTill -------------------------------
(***************************************************************************)
(* Instances of the modules that the browser of the admin app drives: the  *)
(* cart and the checkout of the till, the stocktake page, the passkeys of  *)
(* its user.  They share no variable: a behaviour explores one of them,    *)
(* named by part, and leaves the others as they begin.                     *)
(***************************************************************************)
EXTENDS Cart, Checkout, Stocktake, Passkeys, TLC

CONSTANTS Parts, i1, w1, r1, o1, o2, k1, k2, k3

VARIABLE part

\* 1499 LKR: 10 % off leaves a tax of 67.455.
MCPrice == [s \in Skus |-> 149900]
PercentDiscounts == {[type |-> "pct", value |-> 1000]}
FlatDiscounts == {[type |-> "flat", value |-> 500]}
MCRedemptions == {-500, 0, 200000}
MCOrderDiscounts == {-300, 0, 300}
Pair == {o1, o2}
TillSymmetry == Permutations(Pair) \cup Permutations(Scans)

TillInit == part \in Parts /\ CartInit /\ CheckoutInit /\ StocktakeInit /\ PasskeysInit

TillNext ==
  /\ UNCHANGED part
  /\ \/ /\ part = "cart" /\ CartNext
        /\ UNCHANGED <<checkoutVars, stocktakeVars, passkeyVars>>
     \/ /\ part = "checkout" /\ CheckoutNext
        /\ UNCHANGED <<cartVars, stocktakeVars, passkeyVars>>
     \/ /\ part = "stocktake" /\ StocktakeNext
        /\ UNCHANGED <<cartVars, checkoutVars, passkeyVars>>
     \/ /\ part = "passkeys" /\ PasskeysNext
        /\ UNCHANGED <<cartVars, checkoutVars, stocktakeVars>>

TillSpec == TillInit /\ [][TillNext]_<<part, cartVars, checkoutVars, stocktakeVars, passkeyVars>>

\* Requests end: the fairness under which the offline queue should drain.
TillFairSpec ==
  TillSpec /\ \A o \in Presses :
    WF_checkoutVars(RequestEnds(o) /\ UNCHANGED <<part, cartVars, stocktakeVars, passkeyVars>>)

\* Every variable of every part has its type.
TypesOK == CartTypeOK /\ CheckoutTypeOK /\ StocktakeTypeOK /\ PasskeysTypeOK
=============================================================================
