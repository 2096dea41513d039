--------------------------- MODULE LoyaltyProofs ---------------------------
(***************************************************************************)
(* Proofs about Loyalty, for every set of customers and of requests, every *)
(* threshold and every bound on the requests in flight.                    *)
(***************************************************************************)
EXTENDS Loyalty, SumTheorems

\* A request that passed its check is a call of one of the handlers in use.
CheckedCalls == \A r \in LoyaltyCalls : handling[r] = "checked" => request[r].op \in LoyaltyOperations

LoyaltyTypeInv == LoyaltyTypeOK /\ CheckedCalls

\* What the six actions on a request come down to: three reads ...
Reads(r) == \E c \in Customers :
              \/ \E n \in 1..MaxPoints : EarnPoints(r, c, n)
              \/ \E n \in -MaxPoints..-1 : RedeemPoints(r, c, n)
              \/ \E n \in -MaxPoints..MaxPoints : ManualAdjust(r, c, n)

\* ... and three writes.
Commits(r) == EarnCommit(r) \/ RedeemCommit(r) \/ AdjustPointsCommit(r)

LEMMA InitTypeInv == LoyaltyInit => LoyaltyTypeInv
<1> SUFFICES ASSUME LoyaltyInit PROVE LoyaltyTypeInv
  OBVIOUS
<1>1. NewCustomer \in CustomerRow
  BY DEF NewCustomer, CustomerRow, Tiers
<1>2. 0 \in -MaxPoints..MaxPoints
  BY MaxPointsAssumption
<1>3. NoRequest \in Request
  BY <1>1, <1>2, CustomersAssumption DEF NoRequest, Request
<1>4. QED BY <1>1, <1>3 DEF LoyaltyInit, LoyaltyTypeInv, LoyaltyTypeOK, CheckedCalls

\* A read stores the row it saw, and refuses a debit that the row does not cover.
LEMMA LoyaltyReadStep ==
  ASSUME LoyaltyTypeInv, NEW r \in LoyaltyCalls, Reads(r)
  PROVE  \E c \in Customers, n \in -MaxPoints..MaxPoints, op \in LoyaltyOperations, ok \in BOOLEAN :
           /\ ReadCustomer(r, op, c, n, ok)
           /\ n < 0 /\ ok => customer[c].points >= 1
<1>1. PICK c \in Customers :
        \/ \E n \in 1..MaxPoints : EarnPoints(r, c, n)
        \/ \E n \in -MaxPoints..-1 : RedeemPoints(r, c, n)
        \/ \E n \in -MaxPoints..MaxPoints : ManualAdjust(r, c, n)
  BY DEF Reads
<1>2. customer[c].points \in Int /\ MaxPoints \in Nat
  BY MaxPointsAssumption DEF LoyaltyTypeInv, LoyaltyTypeOK, CustomerRow
<1>3. ASSUME NEW n \in 1..MaxPoints
      PROVE  n \in -MaxPoints..MaxPoints /\ ~ (n < 0)
  BY <1>2
<1>4. ASSUME NEW n \in -MaxPoints..-1, customer[c].points >= -n
      PROVE  customer[c].points >= 1
  BY <1>2, <1>4
<1>5. ASSUME NEW n \in -MaxPoints..-1
      PROVE  n \in -MaxPoints..MaxPoints
  BY <1>2
<1>6. ASSUME NEW n \in -MaxPoints..MaxPoints, n < 0, customer[c].points + n >= 0
      PROVE  customer[c].points >= 1
  BY <1>2, <1>6
<1>7. CASE \E n \in 1..MaxPoints : EarnPoints(r, c, n)
  <2>1. PICK n \in 1..MaxPoints : EarnPoints(r, c, n)
    BY <1>7
  <2>2. ReadCustomer(r, "earn", c, n, TRUE) /\ "earn" \in LoyaltyOperations
    BY <2>1 DEF EarnPoints, ReadCustomer
  <2>3. QED BY <1>3, <2>2
<1>8. CASE \E n \in -MaxPoints..-1 : RedeemPoints(r, c, n)
  <2>1. PICK n \in -MaxPoints..-1 : RedeemPoints(r, c, n)
    BY <1>8
  <2>2. PICK ok \in BOOLEAN : ok <=> customer[c].points >= -n
    OBVIOUS
  <2>3. ReadCustomer(r, "redeem", c, n, ok) /\ "redeem" \in LoyaltyOperations
    BY <2>1, <2>2 DEF RedeemPoints, ReadCustomer
  <2>4. QED BY <1>4, <1>5, <2>2, <2>3
<1>9. CASE \E n \in -MaxPoints..MaxPoints : ManualAdjust(r, c, n)
  <2>1. PICK n \in -MaxPoints..MaxPoints : ManualAdjust(r, c, n)
    BY <1>9
  <2>2. PICK ok \in BOOLEAN : ok <=> customer[c].points + n >= 0
    OBVIOUS
  <2>3. ReadCustomer(r, "adjust", c, n, ok) /\ "adjust" \in LoyaltyOperations
    BY <2>1, <2>2 DEF ManualAdjust, ReadCustomer
  <2>4. QED BY <1>6, <2>2, <2>3
<1>10. QED BY <1>1, <1>7, <1>8, <1>9

\* What a write does, whichever handler it belongs to.
LEMMA CommitStep ==
  ASSUME LoyaltyTypeInv, NEW r \in LoyaltyCalls, Commits(r)
  PROVE  \E c \in Customers, n \in -MaxPoints..MaxPoints, tier \in Tiers :
           /\ c = request[r].customer /\ n = request[r].points
           /\ CommitPoints(r, tier)
           /\ \/ request[r].op = "earn" /\ tier = NewTier(r)
              \/ tier = customer[c].tier
<1>1. request[r] \in Request /\ request[r].customer \in Customers
                      /\ request[r].points \in -MaxPoints..MaxPoints
                      /\ request[r].seen.tier \in Tiers
  BY DEF LoyaltyTypeInv, LoyaltyTypeOK, Request, CustomerRow
<1>2. customer[request[r].customer].tier \in Tiers
  BY <1>1 DEF LoyaltyTypeInv, LoyaltyTypeOK, CustomerRow
<1>3. NewTier(r) \in Tiers
  BY <1>1 DEF NewTier, Tiers
<1>4. QED BY <1>1, <1>2, <1>3 DEF Commits, EarnCommit, RedeemCommit, AdjustPointsCommit

LEMMA ReadTypeInv ==
  ASSUME LoyaltyTypeInv, NEW r \in LoyaltyCalls, NEW c \in Customers, NEW op \in LoyaltyOperations,
         NEW n \in -MaxPoints..MaxPoints, NEW ok \in BOOLEAN, ReadCustomer(r, op, c, n, ok)
  PROVE  LoyaltyTypeInv'
<1>1. [op |-> op, customer |-> c, points |-> n, seen |-> customer[c]] \in Request
  BY DEF LoyaltyTypeInv, LoyaltyTypeOK, Request
<1>2. QED BY <1>1 DEF ReadCustomer, LoyaltyTypeInv, LoyaltyTypeOK, CheckedCalls

LEMMA CommitTypeInv ==
  ASSUME LoyaltyTypeInv, NEW r \in LoyaltyCalls, NEW tier \in Tiers, CommitPoints(r, tier)
  PROVE  LoyaltyTypeInv'
<1> PICK c \in Customers : c = request[r].customer
  BY DEF LoyaltyTypeInv, LoyaltyTypeOK, Request
<1>1. /\ request[r].op \in LoyaltyOperations /\ request[r].points \in Int
      /\ NewTotal(r) \in Int /\ customer[c].points \in Int
  BY MaxPointsAssumption
     DEF CommitPoints, LoyaltyTypeInv, LoyaltyTypeOK, CheckedCalls, Request, CustomerRow, NewTotal
<1>2. customer[c].points + request[r].points \in Int
  BY <1>1
<1> DEFINE row == [type |-> request[r].op, points |-> request[r].points,
                   balanceAfter |-> NewTotal(r),
                   balance |-> customer[c].points + request[r].points]
<1>3. row \in LedgerRow
  BY <1>1, <1>2 DEF LedgerRow
<1>4. customer' \in [Customers -> CustomerRow]
  BY <1>2 DEF CommitPoints, LoyaltyTypeInv, LoyaltyTypeOK, CustomerRow
<1>5. ledger' = [ledger EXCEPT ![c] = Append(ledger[c], row)]
  BY DEF CommitPoints
<1> HIDE DEF row
<1>6. ledger' \in [Customers -> Seq(LedgerRow)]
  BY <1>3, <1>5 DEF LoyaltyTypeInv, LoyaltyTypeOK
<1>7. handling' \in [LoyaltyCalls -> {"idle", "checked", "refused", "done", "lost"}] /\ CheckedCalls'
  BY DEF CommitPoints, LoyaltyTypeInv, LoyaltyTypeOK, CheckedCalls
<1>8. QED BY <1>4, <1>6, <1>7 DEF CommitPoints, LoyaltyTypeInv, LoyaltyTypeOK

LEMMA NextTypeInv == LoyaltyTypeInv /\ [LoyaltyNext]_loyaltyVars => LoyaltyTypeInv'
<1> SUFFICES ASSUME LoyaltyTypeInv, [LoyaltyNext]_loyaltyVars PROVE LoyaltyTypeInv'
  OBVIOUS
<1>1. ASSUME NEW r \in LoyaltyCalls, Reads(r) PROVE LoyaltyTypeInv'
  BY <1>1, LoyaltyReadStep, ReadTypeInv
<1>2. ASSUME NEW r \in LoyaltyCalls, Commits(r) PROVE LoyaltyTypeInv'
  BY <1>2, CommitStep, CommitTypeInv
<1>3. ASSUME NEW r \in LoyaltyCalls, LoyaltyCallLost(r) PROVE LoyaltyTypeInv'
  BY <1>3 DEF LoyaltyCallLost, LoyaltyTypeInv, LoyaltyTypeOK, CheckedCalls
<1>4. CASE UNCHANGED loyaltyVars
  BY <1>4 DEF loyaltyVars, LoyaltyTypeInv, LoyaltyTypeOK, CheckedCalls
<1>5. QED BY <1>1, <1>2, <1>3, <1>4 DEF LoyaltyNext, Reads, Commits

\* Type correctness of the accounts, the ledger and the requests in flight.
THEOREM LoyaltyTypeCorrect == LoyaltySpec => []LoyaltyTypeOK
<1>1. LoyaltyTypeInv => LoyaltyTypeOK
  BY DEF LoyaltyTypeInv
<1>2. QED BY <1>1, InitTypeInv, NextTypeInv, PTL DEF LoyaltySpec

------------------------------------------------------------------------------
(* Nobody becomes PREMIUM but by an earning.                               *)

\* A ledger with an earning that computed a total at the threshold.
Earned(l) == \E k \in DOMAIN l : l[k].type = "earn" /\ l[k].balanceAfter >= PremiumThreshold

\* A handler that saw a PREMIUM customer saw one that had earned it.
SeenPremium ==
  \A r \in LoyaltyCalls : handling[r] = "checked" /\ request[r].seen.tier = "PREMIUM"
                      => Earned(ledger[request[r].customer])

PremiumInv == LoyaltyTypeInv /\ PremiumIsEarned /\ SeenPremium

LEMMA EarnedGrows ==
  ASSUME NEW S, NEW l \in Seq(S), NEW row
  PROVE  /\ Earned(l) => Earned(Append(l, row))
         /\ row.type = "earn" /\ row.balanceAfter >= PremiumThreshold => Earned(Append(l, row))
<1>1. Len(Append(l, row)) = Len(l) + 1 /\ DOMAIN Append(l, row) = 1..(Len(l) + 1)
  OBVIOUS
<1>2. Append(l, row)[Len(l) + 1] = row /\ Len(l) + 1 \in 1..(Len(l) + 1)
  OBVIOUS
<1>3. \A k \in DOMAIN l : k \in 1..(Len(l) + 1) /\ Append(l, row)[k] = l[k]
  OBVIOUS
<1>4. QED BY <1>1, <1>2, <1>3 DEF Earned

LEMMA InitPremiumInv == LoyaltyInit => PremiumInv
BY InitTypeInv DEF LoyaltyInit, PremiumInv, PremiumIsEarned, SeenPremium, NewCustomer

LEMMA NextPremiumInv == PremiumInv /\ [LoyaltyNext]_loyaltyVars => PremiumInv'
<1> SUFFICES ASSUME PremiumInv, [LoyaltyNext]_loyaltyVars PROVE PremiumInv'
  OBVIOUS
<1>1. LoyaltyTypeInv'
  BY NextTypeInv DEF PremiumInv
<1>2. PremiumIsEarned <=> \A c \in Customers :
                            customer[c].tier = "PREMIUM" => Earned(ledger[c])
  BY DEF PremiumIsEarned, Earned
<1>3. (\A c \in Customers : customer'[c].tier = "PREMIUM" => Earned(ledger'[c]))
        => PremiumIsEarned'
  BY DEF PremiumIsEarned, Earned
<1>4. ASSUME NEW r \in LoyaltyCalls, Reads(r) PROVE PremiumInv'
  <2>1. PICK c \in Customers, n \in -MaxPoints..MaxPoints, op \in LoyaltyOperations,
             ok \in BOOLEAN : ReadCustomer(r, op, c, n, ok)
    BY <1>4, LoyaltyReadStep DEF PremiumInv
  <2>2. customer' = customer /\ ledger' = ledger
    BY <2>1 DEF ReadCustomer
  <2>3. ASSUME NEW s \in LoyaltyCalls, handling'[s] = "checked", request'[s].seen.tier = "PREMIUM"
        PROVE  Earned(ledger'[request'[s].customer])
    <3>1. CASE s = r
      <4>1. request'[s].customer = c /\ request'[s].seen = customer[c]
        BY <2>1, <3>1 DEF ReadCustomer, PremiumInv, LoyaltyTypeInv, LoyaltyTypeOK
      <4>2. QED BY <1>2, <2>2, <2>3, <4>1 DEF PremiumInv
    <3>2. CASE s # r
      <4>1. handling'[s] = handling[s] /\ request'[s] = request[s]
        BY <2>1, <3>2 DEF ReadCustomer, PremiumInv, LoyaltyTypeInv, LoyaltyTypeOK
      <4>2. QED BY <2>2, <2>3, <4>1 DEF PremiumInv, SeenPremium
    <3>3. QED BY <3>1, <3>2
  <2>4. QED BY <1>1, <1>2, <1>3, <2>2, <2>3 DEF PremiumInv, SeenPremium
<1>5. ASSUME NEW r \in LoyaltyCalls, Commits(r) PROVE PremiumInv'
  <2>1. PICK c \in Customers, tier \in Tiers :
          /\ c = request[r].customer /\ CommitPoints(r, tier)
          /\ \/ request[r].op = "earn" /\ tier = NewTier(r)
             \/ tier = customer[c].tier
    BY <1>5, CommitStep DEF PremiumInv
  <2> DEFINE written == [type |-> request[r].op, points |-> request[r].points,
                         balanceAfter |-> NewTotal(r),
                         balance |-> customer[c].points + request[r].points]
  <2>10. ledger' = [ledger EXCEPT ![c] = Append(ledger[c], written)]
    BY <2>1 DEF CommitPoints
  <2>11. written.type = request[r].op /\ written.balanceAfter = NewTotal(r)
    OBVIOUS
  <2> HIDE DEF written
  <2>2. PICK row : /\ ledger' = [ledger EXCEPT ![c] = Append(ledger[c], row)]
                   /\ row.type = request[r].op /\ row.balanceAfter = NewTotal(r)
    BY <2>10, <2>11
  <2>3. ledger \in [Customers -> Seq(LedgerRow)]
    BY DEF PremiumInv, LoyaltyTypeInv, LoyaltyTypeOK
  <2>4. \A d \in Customers : Earned(ledger[d]) => Earned(ledger'[d])
    BY <2>2, <2>3, EarnedGrows
  <2>5. /\ \A d \in Customers \ {c} : customer'[d] = customer[d]
        /\ customer'[c].tier = tier
    BY <2>1 DEF CommitPoints, PremiumInv, LoyaltyTypeInv, LoyaltyTypeOK
  <2>6. tier = "PREMIUM" => Earned(ledger'[c])
    <3>1. CASE tier = customer[c].tier
      BY <1>2, <2>4, <3>1 DEF PremiumInv
    <3>2. CASE tier = request[r].seen.tier
      BY <2>1, <2>4, <3>2 DEF PremiumInv, SeenPremium, CommitPoints
    <3>3. CASE request[r].op = "earn" /\ NewTotal(r) >= PremiumThreshold
      <4>1. ledger'[c] = Append(ledger[c], row)
        BY <2>2, <2>3
      <4>2. Earned(Append(ledger[c], row))
        BY <2>2, <2>3, <3>3, EarnedGrows
      <4>3. QED BY <4>1, <4>2
    <3>4. QED BY <2>1, <3>1, <3>2, <3>3 DEF NewTier
  <2>7. \A d \in Customers : customer'[d].tier = "PREMIUM" => Earned(ledger'[d])
    BY <1>2, <2>4, <2>5, <2>6 DEF PremiumInv
  <2>8. SeenPremium'
    <3>1. \A s \in LoyaltyCalls : handling'[s] = "checked" => handling[s] = "checked"
      BY <2>1 DEF CommitPoints, PremiumInv, LoyaltyTypeInv, LoyaltyTypeOK
    <3>2. \A s \in LoyaltyCalls : request'[s] = request[s] /\ request[s].customer \in Customers
      BY <2>1 DEF CommitPoints, PremiumInv, LoyaltyTypeInv, LoyaltyTypeOK, Request
    <3>3. QED BY <2>4, <3>1, <3>2 DEF PremiumInv, SeenPremium
  <2>9. QED BY <1>1, <1>3, <2>7, <2>8 DEF PremiumInv
<1>6. ASSUME NEW r \in LoyaltyCalls, LoyaltyCallLost(r) PROVE PremiumInv'
  BY <1>1, <1>6 DEF LoyaltyCallLost, PremiumInv, PremiumIsEarned, SeenPremium, LoyaltyTypeInv, LoyaltyTypeOK
<1>7. CASE UNCHANGED loyaltyVars
  BY <1>1, <1>7 DEF loyaltyVars, PremiumInv, PremiumIsEarned, SeenPremium
<1>8. QED BY <1>4, <1>5, <1>6, <1>7 DEF LoyaltyNext, Reads, Commits

\* Nobody is PREMIUM without an earning that computed a total at the threshold,
\* however earnings, redemptions and adjustments interleave.
THEOREM PremiumStaysEarned == LoyaltySpec => []PremiumIsEarned
<1>1. PremiumInv => PremiumIsEarned
  BY DEF PremiumInv
<1>2. QED BY <1>1, InitPremiumInv, NextPremiumInv, PTL DEF LoyaltySpec

------------------------------------------------------------------------------
(* Concurrent redemptions overdraw a customer by a bounded amount.         *)

InFlightBounded == Cardinality(Handling) <= MaxLoyaltyCalls

OverdraftInv == LoyaltyTypeInv /\ InFlightBounded /\ OverdraftBounded

\* The handlers that could still start to take points from a customer.
Room(c) == MaxLoyaltyCalls - Cardinality(Debits(c))

LEMMA RequestSets ==
  /\ \A S \in SUBSET LoyaltyCalls : IsFiniteSet(S) /\ Cardinality(S) \in Nat
  /\ Handling \in SUBSET LoyaltyCalls
  /\ \A c : Debits(c) \in SUBSET Handling
BY LoyaltyCallsAssumption, FS_Subset, FS_CardinalityType DEF Handling, Debits

LEMMA Monotone ==
  ASSUME NEW m \in Nat, NEW a \in Int, NEW b \in Int, a <= b
  PROVE  m * a <= m * b /\ m * a \in Int /\ m * b \in Int
OBVIOUS

LEMMA OneMoreRoom ==
  ASSUME NEW m \in Nat, NEW a \in Int
  PROVE  m * (a + 1) = m * a + m /\ m * a \in Int
OBVIOUS

LEMMA InitOverdraftInv == LoyaltyInit => OverdraftInv
<1> SUFFICES ASSUME LoyaltyInit PROVE OverdraftInv
  OBVIOUS
<1>1. Handling = {} /\ \A c \in Customers : Debits(c) = {}
  BY DEF LoyaltyInit, Handling, Debits
<1>2. Cardinality({}) = 0
  BY FS_EmptySet
<1>3. MaxPoints * MaxLoyaltyCalls >= 1
  BY MaxPointsAssumption, MaxLoyaltyCallsAssumption
<1>4. ASSUME NEW c \in Customers
      PROVE  customer[c].points = 0 /\ Room(c) = MaxLoyaltyCalls
  <2>1. Cardinality(Debits(c)) = 0
    BY <1>1, <1>2
  <2>2. customer[c].points = 0
    BY DEF LoyaltyInit, NewCustomer
  <2>3. QED BY <2>1, <2>2, MaxLoyaltyCallsAssumption DEF Room
<1>5. OverdraftBounded
  <2> DEFINE bound == MaxPoints * MaxLoyaltyCalls
  <2>1. bound \in Int
    BY MaxPointsAssumption, MaxLoyaltyCallsAssumption
  <2>2. \A c \in Customers : MaxPoints * (MaxLoyaltyCalls - Cardinality(Debits(c))) = bound
    BY <1>4 DEF Room
  <2> HIDE DEF bound
  <2>3. 0 >= 1 - bound
    BY <1>3, <2>1 DEF bound
  <2>4. QED BY <1>4, <2>2, <2>3 DEF OverdraftBounded
<1>6. InFlightBounded
  BY <1>1, <1>2, MaxLoyaltyCallsAssumption DEF InFlightBounded
<1>7. QED BY <1>5, <1>6, InitTypeInv DEF OverdraftInv

\* A customer whose points do not shrink, and whose room does not, keeps the bound.
LEMMA KeepsBound ==
  ASSUME NEW c \in Customers, OverdraftInv, LoyaltyTypeInv',
         customer'[c].points >= customer[c].points,
         Cardinality(Debits(c)') <= Cardinality(Debits(c)),
         Debits(c)' \in SUBSET LoyaltyCalls
  PROVE  customer'[c].points >= 1 - MaxPoints * (MaxLoyaltyCalls - Cardinality(Debits(c)'))
<1> DEFINE old == MaxLoyaltyCalls - Cardinality(Debits(c))
           new == MaxLoyaltyCalls - Cardinality(Debits(c)')
<1>1. old \in Int /\ new \in Int /\ old <= new
  BY RequestSets, MaxLoyaltyCallsAssumption
<1>2. customer[c].points \in Int /\ customer'[c].points \in Int /\ MaxPoints \in Nat
  BY MaxPointsAssumption DEF OverdraftInv, LoyaltyTypeInv, LoyaltyTypeOK, CustomerRow
<1>3. customer[c].points >= 1 - MaxPoints * old
  BY DEF OverdraftInv, OverdraftBounded
<1> HIDE DEF old, new
<1>4. MaxPoints * old <= MaxPoints * new /\ MaxPoints * old \in Int /\ MaxPoints * new \in Int
  BY <1>1, <1>2, Monotone
<1>5. customer'[c].points >= 1 - MaxPoints * new
  BY <1>2, <1>3, <1>4
<1>6. QED BY <1>5 DEF new

\* Fewer requests in flight stay within the bound.
LEMMA FewerInFlight ==
  ASSUME InFlightBounded, Handling' \subseteq Handling
  PROVE  InFlightBounded'
<1>1. Cardinality(Handling') <= Cardinality(Handling)
  BY RequestSets, FS_Subset
<1>2. Cardinality(Handling') \in Nat /\ Cardinality(Handling) \in Nat
  BY RequestSets
<1>3. QED BY <1>1, <1>2, MaxLoyaltyCallsAssumption DEF InFlightBounded

LEMMA ReadOverdraft ==
  ASSUME OverdraftInv, NEW r \in LoyaltyCalls, Reads(r)
  PROVE  OverdraftInv'
<1> PICK c \in Customers, n \in -MaxPoints..MaxPoints, op \in LoyaltyOperations, ok \in BOOLEAN :
      /\ ReadCustomer(r, op, c, n, ok)
      /\ n < 0 /\ ok => customer[c].points >= 1
  BY LoyaltyReadStep DEF OverdraftInv
<1>1. LoyaltyTypeInv'
  BY ReadTypeInv DEF OverdraftInv
<1>2. /\ handling[r] = "idle" /\ customer' = customer /\ request'[r].customer = c
      /\ request'[r].points = n /\ Cardinality(Handling) < MaxLoyaltyCalls
      /\ handling'[r] = IF ok THEN "checked" ELSE "refused"
      /\ \A s \in LoyaltyCalls \ {r} : handling'[s] = handling[s] /\ request'[s] = request[s]
  BY DEF ReadCustomer, OverdraftInv, LoyaltyTypeInv, LoyaltyTypeOK
<1>3. Handling' = IF ok THEN Handling \cup {r} ELSE Handling
  BY <1>2 DEF Handling
<1>4. InFlightBounded'
  <2>1. CASE ok
    <3>1. Handling' = Handling \cup {r} /\ r \notin Handling
      BY <1>2, <1>3, <2>1 DEF Handling
    <3>2. IsFiniteSet(Handling) /\ Cardinality(Handling) \in Nat
      BY RequestSets
    <3>3. Cardinality(Handling') = Cardinality(Handling) + 1
      BY <3>1, <3>2, FS_AddElement
    <3>4. QED BY <1>2, <3>2, <3>3, MaxLoyaltyCallsAssumption DEF InFlightBounded
  <2>2. CASE ~ ok
    BY <1>3, <2>2, FewerInFlight DEF OverdraftInv
  <2>3. QED BY <2>1, <2>2
<1>5. \A d \in Customers : d # c \/ ~ ok \/ n >= 0 => Debits(d)' = Debits(d)
  BY <1>2 DEF Debits, Handling
<1>6. ASSUME NEW d \in Customers
      PROVE  customer'[d].points >= 1 - MaxPoints * (MaxLoyaltyCalls - Cardinality(Debits(d)'))
  <2>1. customer'[d].points \in Int
    BY <1>1 DEF LoyaltyTypeInv, LoyaltyTypeOK, CustomerRow
  <2>2. CASE Debits(d)' = Debits(d)
    BY <1>2, <2>2 DEF OverdraftInv, OverdraftBounded
  <2>3. CASE d = c /\ customer[d].points >= 1
    <3> DEFINE room == MaxLoyaltyCalls - Cardinality(Debits(d)')
    <3>1. Debits(d)' \subseteq Handling' /\ Handling' \subseteq LoyaltyCalls
      BY DEF Debits, Handling
    <3>2. Cardinality(Debits(d)') <= Cardinality(Handling')
      BY <3>1, RequestSets, FS_Subset
    <3>3. Cardinality(Debits(d)') \in Nat /\ Cardinality(Handling') \in Nat
      BY <3>1, RequestSets
    <3>4. room \in Int /\ 0 <= room
      BY <1>4, <3>2, <3>3, MaxLoyaltyCallsAssumption DEF InFlightBounded
    <3> HIDE DEF room
    <3>5. MaxPoints * 0 <= MaxPoints * room /\ MaxPoints * room \in Int /\ MaxPoints * 0 = 0
      BY <3>4, Monotone, MaxPointsAssumption
    <3>6. customer'[d].points >= 1 - MaxPoints * room
      BY <1>2, <2>1, <2>3, <3>5
    <3>7. QED BY <3>6 DEF room
  <2>4. d = c /\ ok /\ ~ (n >= 0) => customer[d].points >= 1
    BY MaxPointsAssumption
  <2>5. QED BY <1>5, <2>2, <2>3, <2>4
<1>7. QED BY <1>1, <1>4, <1>6 DEF OverdraftInv, OverdraftBounded

LEMMA CommitOverdraft ==
  ASSUME OverdraftInv, NEW r \in LoyaltyCalls, Commits(r)
  PROVE  OverdraftInv'
<1> PICK c \in Customers, n \in -MaxPoints..MaxPoints, tier \in Tiers :
      c = request[r].customer /\ n = request[r].points /\ CommitPoints(r, tier)
  BY CommitStep DEF OverdraftInv
<1>1. LoyaltyTypeInv'
  BY CommitTypeInv DEF OverdraftInv
<1>2. /\ handling[r] = "checked" /\ request' = request
      /\ handling' = [handling EXCEPT ![r] = "done"]
      /\ customer' = [customer EXCEPT ![c] = [points |-> customer[c].points + n,
                                              tier |-> tier]]
  BY DEF CommitPoints
<1>3. Handling' = Handling \ {r}
  BY <1>2 DEF Handling, OverdraftInv, LoyaltyTypeInv, LoyaltyTypeOK
<1>4. InFlightBounded'
  BY <1>3, FewerInFlight DEF OverdraftInv
<1>5. \A d \in Customers : Debits(d)' = Debits(d) \ {r}
  BY <1>2, <1>3 DEF Debits
<1>6. /\ customer'[c].points = customer[c].points + n
      /\ \A d \in Customers \ {c} : customer'[d].points = customer[d].points
  BY <1>2 DEF OverdraftInv, LoyaltyTypeInv, LoyaltyTypeOK
<1>7. \A d \in Customers : customer[d].points \in Int /\ Debits(d)' \in SUBSET LoyaltyCalls
                          /\ Cardinality(Debits(d)') <= Cardinality(Debits(d))
  BY <1>5, RequestSets, FS_Subset DEF OverdraftInv, LoyaltyTypeInv, LoyaltyTypeOK, CustomerRow
<1>8. n \in Int /\ MaxPoints \in Nat /\ -MaxPoints <= n
  BY MaxPointsAssumption
<1>9. ASSUME NEW d \in Customers, d # c \/ n >= 0
      PROVE  customer'[d].points >= 1 - MaxPoints * (MaxLoyaltyCalls - Cardinality(Debits(d)'))
  <2>1. customer'[d].points >= customer[d].points
    BY <1>6, <1>7, <1>8, <1>9
  <2>2. QED BY <1>1, <1>7, <2>1, KeepsBound
<1>10. ASSUME n < 0
       PROVE  customer'[c].points >= 1 - MaxPoints * (MaxLoyaltyCalls - Cardinality(Debits(c)'))
  <2> DEFINE room == MaxLoyaltyCalls - Cardinality(Debits(c))
             product == MaxPoints * room
  <2>1. r \in Debits(c)
    BY <1>2, <1>10 DEF Debits, Handling
  <2>2. IsFiniteSet(Debits(c)) /\ Cardinality(Debits(c)) \in Nat
    BY RequestSets
  <2>3. Cardinality(Debits(c)') = Cardinality(Debits(c)) - 1
    BY <1>5, <2>1, <2>2, FS_RemoveElement
  <2>4. room \in Int /\ MaxLoyaltyCalls - Cardinality(Debits(c)') = room + 1
    BY <2>2, <2>3, MaxLoyaltyCallsAssumption
  <2>5. customer[c].points >= 1 - product
    BY DEF OverdraftInv, OverdraftBounded
  <2> HIDE DEF room
  <2>6. MaxPoints * (room + 1) = product + MaxPoints /\ product \in Int
    BY <1>8, <2>4, OneMoreRoom
  <2> HIDE DEF product
  <2>7. customer[c].points + n >= 1 - (product + MaxPoints)
    BY <1>7, <1>8, <2>5, <2>6
  <2>8. QED BY <1>6, <2>4, <2>6, <2>7
<1>11. n >= 0 \/ n < 0
  BY <1>8
<1>12. QED BY <1>1, <1>4, <1>9, <1>10, <1>11 DEF OverdraftInv, OverdraftBounded

LEMMA NextOverdraftInv == OverdraftInv /\ [LoyaltyNext]_loyaltyVars => OverdraftInv'
<1> SUFFICES ASSUME OverdraftInv, [LoyaltyNext]_loyaltyVars PROVE OverdraftInv'
  OBVIOUS
<1>1. ASSUME NEW r \in LoyaltyCalls, Reads(r) PROVE OverdraftInv'
  BY <1>1, ReadOverdraft
<1>2. ASSUME NEW r \in LoyaltyCalls, Commits(r) PROVE OverdraftInv'
  BY <1>2, CommitOverdraft
<1>3. ASSUME UNCHANGED <<customer, request>>, Handling' \subseteq Handling PROVE OverdraftInv'
  <2>1. LoyaltyTypeInv'
    BY NextTypeInv DEF OverdraftInv
  <2>2. InFlightBounded'
    BY <1>3, FewerInFlight DEF OverdraftInv
  <2>3. \A c \in Customers : Debits(c)' \subseteq Debits(c) /\ Debits(c)' \in SUBSET LoyaltyCalls
    BY <1>3 DEF Debits, Handling
  <2>4. \A c \in Customers : Cardinality(Debits(c)') <= Cardinality(Debits(c))
    BY <2>3, RequestSets, FS_Subset
  <2>5. \A c \in Customers : customer'[c].points >= customer[c].points
    BY <1>3 DEF OverdraftInv, LoyaltyTypeInv, LoyaltyTypeOK, CustomerRow
  <2>6. QED BY <2>1, <2>2, <2>3, <2>4, <2>5, KeepsBound DEF OverdraftInv, OverdraftBounded
<1>4. ASSUME NEW r \in LoyaltyCalls, LoyaltyCallLost(r) PROVE OverdraftInv'
  BY <1>3, <1>4 DEF LoyaltyCallLost, Handling, OverdraftInv, LoyaltyTypeInv, LoyaltyTypeOK
<1>5. CASE UNCHANGED loyaltyVars
  BY <1>3, <1>5 DEF loyaltyVars, Handling
<1>6. QED BY <1>1, <1>2, <1>4, <1>5 DEF LoyaltyNext, Reads, Commits

\* A balance falls below zero by less than what MaxInFlight debits of the largest
\* size can take, however many redemptions and adjustments there are.
THEOREM OverdraftStaysBounded == LoyaltySpec => []OverdraftBounded
<1>1. OverdraftInv => OverdraftBounded
  BY DEF OverdraftInv
<1>2. QED BY <1>1, InitOverdraftInv, NextOverdraftInv, PTL DEF LoyaltySpec
------------------------------------------------------------------------------
(* The ledger adds up to the balance.                                      *)

Posted(l) == [k \in DOMAIN l |-> l[k].points]

PostedSum(l) == SumFunctionOnSet(Posted(l), DOMAIN l)

LedgerInv == LoyaltyTypeInv /\ BalanceIsLedger

LEMMA BalancePosted == BalanceIsLedger <=> \A c \in Customers : customer[c].points = PostedSum(ledger[c])
BY DEF BalanceIsLedger, PostedSum, Posted

LEMMA BalancePostedNext ==
  (\A c \in Customers : customer'[c].points = PostedSum(ledger'[c])) => BalanceIsLedger'
BY DEF BalanceIsLedger, PostedSum, Posted

\* One more row adds its points to the sum, and leaves those of the others.
LEMMA PostedAppend ==
  ASSUME NEW l \in Seq(LedgerRow), NEW row \in LedgerRow
  PROVE  PostedSum(Append(l, row)) = PostedSum(l) + row.points
<1> DEFINE n == Len(l)
           longer == Append(l, row)
           old == Posted(l)
           new == Posted(longer)
<1>1. n \in Nat /\ DOMAIN l = 1..n /\ DOMAIN longer = (1..n) \cup {n + 1} /\ n + 1 \notin 1..n
  OBVIOUS
<1>2. longer[n + 1] = row /\ \A k \in 1..n : longer[k] = l[k] /\ l[k] \in LedgerRow
  OBVIOUS
<1> HIDE DEF longer, n
<1>3. \A k \in 1..n : old[k] \in Int /\ new[k] = old[k]
  BY <1>1, <1>2 DEF Posted, LedgerRow
<1>4. new[n + 1] = row.points /\ row.points \in Int
  BY <1>1, <1>2 DEF Posted, LedgerRow
<1>5. IsFiniteSet(1..n)
  BY <1>1, FS_Interval
<1> HIDE DEF old, new
<1>6. SumFunctionOnSet(old, 1..n) = SumFunctionOnSet(new, 1..n)
  BY <1>3, <1>5, SumSame
<1>7. \A k \in (1..n) \cup {n + 1} : new[k] \in Int
  BY <1>3, <1>4
<1>8. SumFunctionOnSet(new, (1..n) \cup {n + 1}) = SumFunctionOnSet(new, 1..n) + new[n + 1]
  BY <1>1, <1>5, <1>7, SumAddElement
<1>9. QED BY <1>1, <1>4, <1>6, <1>8 DEF PostedSum, old, new, longer

LEMMA InitLedgerInv == LoyaltyInit => LedgerInv
<1> SUFFICES ASSUME LoyaltyInit PROVE LedgerInv
  OBVIOUS
<1>1. PostedSum(<<>>) = 0
  BY SumEmpty DEF PostedSum, Posted
<1>2. \A c \in Customers : customer[c].points = PostedSum(ledger[c])
  BY <1>1 DEF LoyaltyInit, NewCustomer
<1>3. QED BY <1>2, InitTypeInv, BalancePosted DEF LedgerInv

LEMMA NextLedgerInv == LedgerInv /\ [LoyaltyNext]_loyaltyVars => LedgerInv'
<1> SUFFICES ASSUME LedgerInv, [LoyaltyNext]_loyaltyVars PROVE LedgerInv'
  OBVIOUS
<1>1. LoyaltyTypeInv /\ LoyaltyTypeInv' /\ \A c \in Customers : customer[c].points = PostedSum(ledger[c])
  BY NextTypeInv, BalancePosted DEF LedgerInv
<1>2. ASSUME UNCHANGED <<customer, ledger>> PROVE LedgerInv'
  BY <1>1, <1>2, BalancePostedNext DEF LedgerInv
<1>3. ASSUME NEW r \in LoyaltyCalls, Commits(r) PROVE LedgerInv'
  <2>1. PICK c \in Customers, n \in -MaxPoints..MaxPoints, tier \in Tiers :
          c = request[r].customer /\ n = request[r].points /\ CommitPoints(r, tier)
    BY <1>1, <1>3, CommitStep
  <2> DEFINE balance == customer[c].points + n
             row == [type |-> request[r].op, points |-> n, balanceAfter |-> NewTotal(r),
                     balance |-> balance]
  <2>2. /\ customer' = [customer EXCEPT ![c] = [points |-> balance, tier |-> tier]]
        /\ ledger' = [ledger EXCEPT ![c] = Append(ledger[c], row)]
    BY <2>1 DEF CommitPoints
  <2>3. row.points = n /\ ledger \in [Customers -> Seq(LedgerRow)] /\ ledger' \in [Customers -> Seq(LedgerRow)]
        /\ customer \in [Customers -> CustomerRow] /\ DOMAIN customer = Customers
    BY <1>1 DEF LoyaltyTypeInv, LoyaltyTypeOK
  <2>4. row \in LedgerRow
    <3>1. request[r].op \in LoyaltyOperations
      BY <1>1, <2>1 DEF CommitPoints, LoyaltyTypeInv, CheckedCalls
    <3>2. customer[c].points \in Int /\ n \in Int
      BY <2>3, MaxPointsAssumption DEF CustomerRow
    <3>3. request[r].seen.points \in Int
      BY <1>1 DEF LoyaltyTypeInv, LoyaltyTypeOK, Request, CustomerRow
    <3>4. NewTotal(r) \in Int /\ balance \in Int
      BY <2>1, <3>2, <3>3 DEF NewTotal
    <3>5. QED BY <3>1, <3>2, <3>4 DEF LedgerRow
  <2> HIDE DEF row
  <2>5. PostedSum(ledger'[c]) = PostedSum(ledger[c]) + n
    BY <2>2, <2>3, <2>4, PostedAppend
  <2>6. ASSUME NEW d \in Customers PROVE customer'[d].points = PostedSum(ledger'[d])
    <3>1. CASE d = c
      BY <1>1, <2>2, <2>3, <2>5, <3>1
    <3>2. CASE d # c
      BY <1>1, <2>2, <2>3, <3>2
    <3>3. QED BY <3>1, <3>2
  <2>7. QED BY <1>1, <2>6, BalancePostedNext DEF LedgerInv
<1>4. ASSUME NEW r \in LoyaltyCalls, Reads(r) PROVE UNCHANGED <<customer, ledger>>
  BY <1>4 DEF Reads, EarnPoints, RedeemPoints, ManualAdjust, ReadCustomer
<1>5. QED BY <1>2, <1>3, <1>4 DEF LoyaltyNext, LoyaltyCallLost, Reads, Commits, loyaltyVars

\* The ledger explains the balance, however earnings, redemptions and adjustments
\* interleave: every committed transaction adds the points of its row to the balance.
THEOREM BalanceStaysLedger == LoyaltySpec => []BalanceIsLedger
<1>1. LedgerInv => BalanceIsLedger
  BY DEF LedgerInv
<1>2. QED BY <1>1, InitLedgerInv, NextLedgerInv, PTL DEF LoyaltySpec
=============================================================================
