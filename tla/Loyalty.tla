------------------------------ MODULE Loyalty ------------------------------
(***************************************************************************)
(* Loyalty points of loyalty-service: a balance and a tier per customer,   *)
(* and the loyalty_transactions that record every change of the balance.   *)
(*                                                                         *)
(* earnPoints, redeemPoints and manualAdjust read the customer, decide and *)
(* compute a new total from what they read, and then write in one          *)
(* transaction an INCREMENT of the balance together with a ledger row that *)
(* carries the computed total.  Between the read and the write other       *)
(* requests may commit.                                                    *)
(***************************************************************************)
EXTENDS Integers, Sequences, FiniteSets, Functions

CONSTANTS Customers,
          LoyaltyCalls,      \* request ids, each used for one call
          MaxLoyaltyCalls,   \* how many handlers the service runs side by side
          LoyaltyOperations, \* the handlers that callers use in this instance
          MaxPoints,         \* the largest number of points of one call
          PremiumThreshold   \* PREMIUM_THRESHOLD, 5000 points in the code

ASSUME CustomersAssumption == Customers # {}
ASSUME LoyaltyCallsAssumption == IsFiniteSet(LoyaltyCalls)
ASSUME MaxLoyaltyCallsAssumption == MaxLoyaltyCalls \in Nat \ {0}
ASSUME MaxPointsAssumption == MaxPoints \in Nat \ {0}
ASSUME ThresholdAssumption == PremiumThreshold \in Nat
ASSUME LoyaltyOperationsAssumption == LoyaltyOperations \subseteq {"earn", "redeem", "adjust"}

VARIABLES customer,  \* customer -> [points, tier]
          ledger,    \* customer -> its loyalty_transactions, oldest first
          handling,  \* call -> where its handler is
          request    \* call -> what it asks for and the row it saw

loyaltyVars == <<customer, ledger, handling, request>>

NewCustomer == [points |-> 0, tier |-> "NORMAL"]

NoRequest == [op |-> "none", customer |-> CHOOSE c \in Customers : TRUE, points |-> 0,
              seen |-> NewCustomer]

LoyaltyInit == /\ customer = [c \in Customers |-> NewCustomer]
               /\ ledger = [c \in Customers |-> <<>>]
               /\ handling = [r \in LoyaltyCalls |-> "idle"]
               /\ request = [r \in LoyaltyCalls |-> NoRequest]

------------------------------------------------------------------------------
(* The read half of a handler.                                             *)

Handling == {r \in LoyaltyCalls : handling[r] = "checked"}

ReadCustomer(r, op, c, n, accepted) ==
  /\ handling[r] = "idle"
  /\ op \in LoyaltyOperations
  /\ Cardinality(Handling) < MaxLoyaltyCalls
  /\ request' = [request EXCEPT ![r] = [op |-> op, customer |-> c, points |-> n,
                                        seen |-> customer[c]]]
  /\ handling' = [handling EXCEPT ![r] = IF accepted THEN "checked" ELSE "refused"]
  /\ UNCHANGED <<customer, ledger>>

EarnPoints(r, c, n) == ReadCustomer(r, "earn", c, n, TRUE)

\* Mutant: redeems without looking at the balance.
RedeemUnchecked(r, c, n) == ReadCustomer(r, "redeem", c, n, TRUE)

\* A redemption is signed like its ledger row: redeeming 5 points is n = -5.
RedeemPoints(r, c, n) == ReadCustomer(r, "redeem", c, n, customer[c].points >= -n)

ManualAdjust(r, c, n) == ReadCustomer(r, "adjust", c, n, customer[c].points + n >= 0)

------------------------------------------------------------------------------
(* The write half: one transaction.                                        *)

NewTotal(r) == request[r].seen.points + request[r].points

\* Mutant: the ternary without its other branch.
NewTierOrNothing(r) == IF NewTotal(r) >= PremiumThreshold /\ request[r].seen.tier = "NORMAL"
                       THEN "PREMIUM" ELSE "undefined"

\* The tier an earn writes, decided on the row it read.
NewTier(r) == IF NewTotal(r) >= PremiumThreshold /\ request[r].seen.tier = "NORMAL"
              THEN "PREMIUM" ELSE request[r].seen.tier

\* Mutant: writes the total it computed instead of an increment.
CommitAbsolute(r, tier) ==
  LET c == request[r].customer
  IN  /\ handling[r] = "checked"
      /\ customer' = [customer EXCEPT ![c] = [points |-> NewTotal(r), tier |-> tier]]
      /\ ledger' = [ledger EXCEPT ![c] = Append(@,
                      [type |-> request[r].op, points |-> request[r].points,
                       balanceAfter |-> NewTotal(r), balance |-> NewTotal(r)])]
      /\ handling' = [handling EXCEPT ![r] = "done"]
      /\ UNCHANGED request

\* balance is the column customers.loyaltyPoints after this very transaction;
\* the row itself stores only balanceAfter, the total its handler computed.
CommitPoints(r, tier) ==
  LET c == request[r].customer
      balance == customer[c].points + request[r].points
  IN  /\ handling[r] = "checked"
      /\ customer' = [customer EXCEPT ![c] = [points |-> balance, tier |-> tier]]
      /\ ledger' = [ledger EXCEPT ![c] = Append(@,
                      [type |-> request[r].op, points |-> request[r].points,
                       balanceAfter |-> NewTotal(r), balance |-> balance])]
      /\ handling' = [handling EXCEPT ![r] = "done"]
      /\ UNCHANGED request

EarnCommit(r) == request[r].op = "earn" /\ CommitPoints(r, NewTier(r))

RedeemCommit(r) == /\ request[r].op = "redeem"
                   /\ CommitPoints(r, customer[request[r].customer].tier)

\* Mutant: a manual adjustment upgrades the customer as an earning does.
AdjustCommitUpgrades(r) == request[r].op = "adjust" /\ CommitPoints(r, NewTier(r))

AdjustPointsCommit(r) == /\ request[r].op = "adjust"
                         /\ CommitPoints(r, customer[request[r].customer].tier)

\* The process or its database connection dies before the transaction commits.
LoyaltyCallLost(r) == /\ handling[r] = "checked"
                      /\ handling' = [handling EXCEPT ![r] = "lost"]
                      /\ UNCHANGED <<customer, ledger, request>>

LoyaltyNext == \E r \in LoyaltyCalls :
                 \/ \E c \in Customers : \/ \E n \in 1..MaxPoints : EarnPoints(r, c, n)
                                         \/ \E n \in -MaxPoints..-1 : RedeemPoints(r, c, n)
                                         \/ \E n \in -MaxPoints..MaxPoints : ManualAdjust(r, c, n)
                 \/ EarnCommit(r)
                 \/ RedeemCommit(r)
                 \/ AdjustPointsCommit(r)
                 \/ LoyaltyCallLost(r)

LoyaltySpec == LoyaltyInit /\ [][LoyaltyNext]_loyaltyVars

------------------------------------------------------------------------------
(* Properties                                                              *)

Tiers == {"NORMAL", "PREMIUM"}
CustomerRow == [points : Int, tier : Tiers]
Request == [op : LoyaltyOperations \cup {"none"}, customer : Customers,
            points : -MaxPoints..MaxPoints, seen : CustomerRow]
LedgerRow == [type : LoyaltyOperations, points : Int, balanceAfter : Int, balance : Int]

\* Every variable has its type.
LoyaltyTypeOK == /\ customer \in [Customers -> CustomerRow]
                 /\ ledger \in [Customers -> Seq(LedgerRow)]
                 /\ handling \in [LoyaltyCalls -> {"idle", "checked", "refused", "done", "lost"}]
                 /\ request \in [LoyaltyCalls -> Request]

\* The ledger explains the balance: it adds up to it, however requests interleave.
BalanceIsLedger ==
  \A c \in Customers :
    LET posted == [k \in DOMAIN ledger[c] |-> ledger[c][k].points]
    IN  customer[c].points = SumFunctionOnSet(posted, DOMAIN posted)

Debits(c) == {r \in Handling : request[r].customer = c /\ request[r].points < 0}

\* How far concurrent redemptions overdraw a customer: each checks the balance and
\* decrements later, so the balance may become negative, but by less than what
\* the handlers that run side by side can take, however many redemptions there are.
OverdraftBounded ==
  \A c \in Customers :
    customer[c].points >= 1 - MaxPoints * (MaxLoyaltyCalls - Cardinality(Debits(c)))

\* Nobody is PREMIUM without an earning that computed a total at the threshold.
PremiumIsEarned ==
  \A c \in Customers :
    customer[c].tier = "PREMIUM" =>
      \E k \in DOMAIN ledger[c] : /\ ledger[c][k].type = "earn"
                                  /\ ledger[c][k].balanceAfter >= PremiumThreshold
=============================================================================
