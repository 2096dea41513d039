-------------------------- MODULE InventoryProofs --------------------------
(***************************************************************************)
(* Proofs about Inventory, for every set of records and of requests and    *)
(* every bound on the requests in flight.                                  *)
(***************************************************************************)
EXTENDS Inventory, SumTheorems

\* A request that passed its check is about a known record, and a reservation
\* carries a quantity that its DTO accepts.
CheckedCalls ==
  \A r \in Requests : phase[r] = "checked" =>
    /\ call[r].item \in Items
    /\ call[r].op = "reserve" => call[r].amount \in Quantities

TypeInv == TypeOK /\ CheckedCalls

LEMMA InitTypeInv == Init => TypeInv
BY InitialStockAssumption
   DEF Init, TypeInv, TypeOK, CheckedCalls, Phases, StockRecord, Record, Call, NoCall

\* The read half keeps the types: it stores the record it saw.
LEMMA ReadTypeInv ==
  ASSUME TypeInv, NEW r \in Requests, NEW op \in Operations,
         NEW i \in Items \cup {UnknownId}, NEW n \in Int, NEW accepted,
         Read(r, op, i, n, accepted),
         op # "reserve" \/ n \in Quantities
  PROVE  TypeInv'
<1>1. EnsureExists(i) \in StockRecord
  BY DEF EnsureExists, TypeInv, TypeOK, StockRecord, Record
<1>2. [op |-> op, item |-> i, amount |-> n, seen |-> EnsureExists(i)] \in Call
  BY <1>1 DEF Call
<1>3. TypeOK'
  BY <1>2 DEF Read, TypeInv, TypeOK, Phases, stockVars, alertVars
<1>4. CheckedCalls'
  BY DEF Read, TypeInv, TypeOK, CheckedCalls
<1>5. QED BY <1>3, <1>4 DEF TypeInv

LEMMA HandleTypeInv ==
  ASSUME TypeInv, NEW r \in Requests, Handle(r)
  PROVE  TypeInv'
<1>1. PICK i \in Items \cup {UnknownId} :
        \/ \E d \in Deltas : AdjustStock(r, i, d)
        \/ \E n \in Quantities : ReserveStock(r, i, n)
        \/ \E n \in BodyQuantities : DeductReserved(r, i, n) \/ ReleaseReserved(r, i, n)
  BY DEF Handle
<1>2. Quantities \subseteq Int
  BY MaxQuantityAssumption DEF Quantities
<1>3. ASSUME NEW d \in Deltas, AdjustStock(r, i, d) PROVE TypeInv'
  <2>1. d \in Int /\ "adjust" \in Operations
    BY <1>3, DeltasAssumption DEF AdjustStock, Read
  <2>2. QED BY <1>3, <2>1, ReadTypeInv DEF AdjustStock
<1>4. ASSUME NEW n \in Quantities, ReserveStock(r, i, n) PROVE TypeInv'
  <2>1. n \in Int /\ "reserve" \in Operations
    BY <1>2, <1>4 DEF ReserveStock, Read
  <2>2. QED BY <1>4, <2>1, ReadTypeInv DEF ReserveStock
<1>5. ASSUME NEW n \in BodyQuantities, DeductReserved(r, i, n) \/ ReleaseReserved(r, i, n)
      PROVE  TypeInv'
  <2>1. n \in Int
    BY BodyQuantitiesAssumption
  <2>2. CASE DeductReserved(r, i, n)
    BY <2>1, <2>2, ReadTypeInv DEF DeductReserved, Read
  <2>3. CASE ReleaseReserved(r, i, n)
    BY <2>1, <2>3, ReadTypeInv DEF ReleaseReserved, Read
  <2>4. QED BY <1>5, <2>2, <2>3
<1>6. QED BY <1>1, <1>3, <1>4, <1>5

\* The write half keeps the types: a sale row takes the quantity as it came, an
\* adjustment row its magnitude.
LEMMA CommitTypeInv ==
  ASSUME TypeInv, NEW r \in Requests, Commit(r)
  PROVE  TypeInv'
<1>1. /\ phase[r] = "checked"
      /\ call[r] \in Call
      /\ call[r].item \in Items
      /\ phase' = [phase EXCEPT ![r] = "done"]
      /\ call' = call
  BY DEF Commit, AdjustCommit, ReserveCommit, DeductCommit, ReleaseCommit, Checked,
         Answer, TypeInv, TypeOK, CheckedCalls
<1>2. CheckedCalls'
  BY <1>1 DEF TypeInv, TypeOK, CheckedCalls
<1>4. /\ stock[call[r].item] \in StockRecord
      /\ call[r].amount \in Int
      /\ call[r].seen \in StockRecord
  BY <1>1 DEF TypeInv, TypeOK, Call
<1>5. ASSUME alertVars' = alertVars \/ AlertIfLow(call[r].item)
      PROVE  sending' \subseteq Items /\ outcome' \in [Items -> {"none", "accepted", "failed"}]
  BY <1>1, <1>5 DEF AlertIfLow, alertVars, TypeInv, TypeOK
<1>6. ASSUME NEW type, NEW n, Moved(r, type, n),
             (type = "ADJUSTMENT" /\ n \in Nat) \/ (type = "SALE_OUT" /\ n \in Int)
      PROVE  movements' \subseteq Movement
  BY <1>1, <1>6 DEF Moved, Movement, TypeInv, TypeOK
<1>7. phase' \in [Requests -> Phases] /\ call' \in [Requests -> Call]
  BY <1>1 DEF TypeInv, TypeOK, Phases
<1>8. CASE AdjustCommit(r)
  <2>1. Magnitude(call[r].amount) \in Nat
    BY <1>4 DEF Magnitude
  <2>2. stock' \in [Items -> StockRecord]
    BY <1>1, <1>4, <1>8 DEF AdjustCommit, TypeInv, TypeOK, StockRecord
  <2>3. QED
    BY <1>2, <1>5, <1>6, <1>7, <1>8, <2>1, <2>2 DEF AdjustCommit, TypeInv, TypeOK
<1>9. CASE ReserveCommit(r)
  <2>2. stock' \in [Items -> StockRecord]
    BY <1>1, <1>4, <1>9 DEF ReserveCommit, TypeInv, TypeOK, StockRecord
  <2>3. QED
    BY <1>2, <1>4, <1>5, <1>6, <1>7, <1>9, <2>2 DEF ReserveCommit, TypeInv, TypeOK
<1>10. CASE DeductCommit(r)
  <2>2. stock' \in [Items -> StockRecord]
    BY <1>1, <1>4, <1>10 DEF DeductCommit, TypeInv, TypeOK, StockRecord, Record
  <2>3. QED
    BY <1>2, <1>4, <1>5, <1>6, <1>7, <1>10, <2>2 DEF DeductCommit, TypeInv, TypeOK
<1>11. CASE ReleaseCommit(r)
  <2>1. stock' \in [Items -> StockRecord]
    BY <1>1, <1>4, <1>11 DEF ReleaseCommit, TypeInv, TypeOK, StockRecord
  <2>2. QED
    BY <1>2, <1>5, <1>7, <1>11, <2>1 DEF ReleaseCommit, TypeInv, TypeOK, alertVars
<1>12. QED BY <1>8, <1>9, <1>10, <1>11 DEF Commit

LEMMA NextTypeInv == TypeInv /\ [Next]_vars => TypeInv'
<1> SUFFICES ASSUME TypeInv, [Next]_vars PROVE TypeInv'
  OBVIOUS
<1>1. ASSUME NEW r \in Requests, Handle(r) PROVE TypeInv'
  BY <1>1, HandleTypeInv
<1>2. ASSUME NEW r \in Requests, Commit(r) PROVE TypeInv'
  BY <1>2, CommitTypeInv
<1>3. ASSUME NEW r \in Requests, RequestLost(r) PROVE TypeInv'
  BY <1>3 DEF RequestLost, TypeInv, TypeOK, CheckedCalls, Phases, stockVars, alertVars
<1>4. ASSUME NEW i \in Items, AlertAccepted(i) \/ AlertFailed(i) PROVE TypeInv'
  BY <1>4 DEF AlertAccepted, AlertFailed, TypeInv, TypeOK, CheckedCalls, stockVars
<1>5. CASE DailyLowStockScan
  BY <1>5 DEF DailyLowStockScan, TypeInv, TypeOK, CheckedCalls, stockVars
<1>6. CASE UNCHANGED vars
  BY <1>6 DEF vars, TypeInv, TypeOK, CheckedCalls
<1>7. QED BY <1>1, <1>2, <1>3, <1>4, <1>5, <1>6 DEF Next

\* Type correctness of the stock records and of the requests in flight.
THEOREM TypeCorrect == Spec => []TypeOK
<1>1. TypeInv => TypeOK
  BY DEF TypeInv
<1>2. QED BY <1>1, InitTypeInv, NextTypeInv, PTL DEF Spec

------------------------------------------------------------------------------
(* Stock corrections and reservations never make a quantity negative.      *)

\* What an adjustment is about to write is not negative.
CheckedAdjust ==
  \A r \in Requests : Checked(r, "adjust") => call[r].seen.quantity + call[r].amount >= 0

NonNegInv == TypeInv /\ CheckedAdjust /\ QuantityNeverNegative

\* What is committed stays committed.
LEMMA CommittedGrows ==
  ASSUME TypeInv, [Next]_vars, NEW op
  PROVE  Committed(op) \subseteq Committed(op)'
<1> SUFFICES ASSUME NEW r \in Requests, phase[r] = "done" PROVE phase'[r] = "done" /\ call'[r] = call[r]
  BY DEF Committed
<1>1. ASSUME NEW s \in Requests, Handle(s) PROVE phase'[r] = "done" /\ call'[r] = call[r]
  BY <1>1 DEF Handle, AdjustStock, ReserveStock, DeductReserved, ReleaseReserved, Read, TypeInv, TypeOK
<1>2. ASSUME NEW s \in Requests, Commit(s) PROVE phase'[r] = "done" /\ call'[r] = call[r]
  BY <1>2 DEF Commit, AdjustCommit, ReserveCommit, DeductCommit, ReleaseCommit, Answer, TypeInv, TypeOK
<1>3. ASSUME NEW s \in Requests, RequestLost(s) PROVE phase'[r] = "done" /\ call'[r] = call[r]
  BY <1>3 DEF RequestLost, TypeInv, TypeOK
<1>4. ASSUME NEW i \in Items, AlertAccepted(i) \/ AlertFailed(i)
      PROVE  phase'[r] = "done" /\ call'[r] = call[r]
  BY <1>4 DEF AlertAccepted, AlertFailed
<1>5. CASE DailyLowStockScan
  BY <1>5 DEF DailyLowStockScan
<1>6. CASE UNCHANGED vars
  BY <1>6 DEF vars
<1>7. QED BY <1>1, <1>2, <1>3, <1>4, <1>5, <1>6 DEF Next

\* A commit puts its request among those of its operation.
LEMMA CommitCounts ==
  ASSUME TypeInv, NEW r \in Requests, NEW op, Checked(r, op), Answer(r)
  PROVE  r \in Committed(op)'
BY DEF Checked, Answer, Committed, TypeInv, TypeOK

LEMMA InitNonNegInv == Init => NonNegInv
BY InitTypeInv, InitialStockAssumption
   DEF Init, NonNegInv, CheckedAdjust, Checked, QuantityNeverNegative, Record

LEMMA NextNonNegInv ==
  ASSUME NonNegInv, [Next]_vars
  PROVE  NonNegInv'
<1>1. TypeInv' /\ Committed("deduct") \subseteq Committed("deduct")'
  BY NextTypeInv, CommittedGrows DEF NonNegInv
<1>2. ASSUME UNCHANGED stock,
             \A r \in Requests : Checked(r, "adjust")' => Checked(r, "adjust") /\ call'[r] = call[r]
      PROVE  NonNegInv'
  BY <1>1, <1>2 DEF NonNegInv, CheckedAdjust, QuantityNeverNegative
<1>3. ASSUME NEW r \in Requests, Handle(r) PROVE NonNegInv'
  <2>1. PICK i \in Items \cup {UnknownId} :
          \/ \E d \in Deltas : AdjustStock(r, i, d)
          \/ \E n \in Quantities : ReserveStock(r, i, n)
          \/ \E n \in BodyQuantities : DeductReserved(r, i, n) \/ ReleaseReserved(r, i, n)
    BY <1>3 DEF Handle
  <2>2. CASE \E d \in Deltas : AdjustStock(r, i, d)
    <3>1. PICK d \in Deltas : AdjustStock(r, i, d)
      BY <2>2
    <3>2. UNCHANGED stock /\ QuantityNeverNegative'
      BY <1>1, <3>1 DEF AdjustStock, Read, stockVars, NonNegInv, QuantityNeverNegative
    <3>3. ASSUME NEW s \in Requests, Checked(s, "adjust")'
          PROVE  call'[s].seen.quantity + call'[s].amount >= 0
      <4>1. CASE s = r
        BY <3>1, <3>3, <4>1
           DEF AdjustStock, Read, Checked, NonNegInv, TypeInv, TypeOK
      <4>2. CASE s # r
        BY <3>1, <3>3, <4>2
           DEF AdjustStock, Read, Checked, NonNegInv, TypeInv, TypeOK, CheckedAdjust
      <4>3. QED BY <4>1, <4>2
    <3>4. QED BY <1>1, <3>2, <3>3 DEF NonNegInv, CheckedAdjust
  <2>3. ASSUME NEW n,
               ReserveStock(r, i, n) \/ DeductReserved(r, i, n) \/ ReleaseReserved(r, i, n)
        PROVE  NonNegInv'
    BY <1>2, <2>3 DEF ReserveStock, DeductReserved, ReleaseReserved, Read, Checked,
                      stockVars, NonNegInv, TypeInv, TypeOK
  <2>4. QED BY <2>1, <2>2, <2>3
<1>4. ASSUME NEW r \in Requests, Commit(r) PROVE NonNegInv'
  <2>1. /\ call' = call
        /\ phase' = [phase EXCEPT ![r] = "done"]
        /\ call[r].item \in Items
        /\ call[r].op \in Operations \cup {"none"}
        /\ phase[r] = "checked"
    BY <1>4 DEF Commit, AdjustCommit, ReserveCommit, DeductCommit, ReleaseCommit,
                Checked, Answer, NonNegInv, TypeInv, TypeOK, CheckedCalls, Call
  <2>2. CheckedAdjust'
    BY <2>1 DEF NonNegInv, CheckedAdjust, Checked, TypeInv, TypeOK
  <2>3. CASE AdjustCommit(r)
    BY <1>1, <2>1, <2>2, <2>3
       DEF AdjustCommit, Checked, NonNegInv, CheckedAdjust, QuantityNeverNegative,
           TypeInv, TypeOK, StockRecord
  <2>4. CASE ReserveCommit(r)
    BY <1>1, <2>1, <2>2, <2>4
       DEF ReserveCommit, NonNegInv, QuantityNeverNegative, TypeInv, TypeOK, StockRecord
  <2>5. CASE DeductCommit(r)
    <3>1. r \in Committed("deduct")'
      BY <2>5, CommitCounts DEF DeductCommit, NonNegInv
    <3>2. QED BY <1>1, <2>2, <3>1 DEF NonNegInv, QuantityNeverNegative
  <2>6. CASE ReleaseCommit(r)
    BY <1>1, <2>1, <2>2, <2>6
       DEF ReleaseCommit, NonNegInv, QuantityNeverNegative, TypeInv, TypeOK, StockRecord
  <2>7. QED BY <1>4, <2>3, <2>4, <2>5, <2>6 DEF Commit
<1>5. ASSUME NEW r \in Requests, RequestLost(r) PROVE NonNegInv'
  BY <1>2, <1>5 DEF RequestLost, Checked, stockVars, NonNegInv, TypeInv, TypeOK
<1>6. ASSUME NEW i \in Items, AlertAccepted(i) \/ AlertFailed(i) PROVE NonNegInv'
  BY <1>2, <1>6 DEF AlertAccepted, AlertFailed, Checked, stockVars
<1>7. CASE DailyLowStockScan
  BY <1>2, <1>7 DEF DailyLowStockScan, Checked, stockVars
<1>8. CASE UNCHANGED vars
  BY <1>2, <1>8 DEF vars, Checked
<1>9. QED BY <1>3, <1>4, <1>5, <1>6, <1>7, <1>8 DEF Next

\* Until a deduction is made, no interleaving makes a quantity negative.
THEOREM QuantityStaysNonNegative == Spec => []QuantityNeverNegative
<1>1. NonNegInv /\ [Next]_vars => NonNegInv'
  BY NextNonNegInv
<1>2. NonNegInv => QuantityNeverNegative
  BY DEF NonNegInv
<1>3. QED BY <1>1, <1>2, InitNonNegInv, PTL DEF Spec

------------------------------------------------------------------------------
(* The reserved count is the sum of the answered calls.                    *)

LedgerInv == TypeInv /\ ReservedIsLedger

Amounts == [r \in Requests |-> call[r].amount]

LEMMA AmountsAreIntegers ==
  ASSUME TypeInv
  PROVE  \A r \in Requests : Amounts[r] \in Int
BY DEF Amounts, TypeInv, TypeOK, Call

LEMMA OnRecordFinite ==
  ASSUME NEW op, NEW i
  PROVE  OnRecord(op, i) \subseteq Requests /\ IsFiniteSet(OnRecord(op, i))
<1>1. OnRecord(op, i) \subseteq Requests
  BY DEF OnRecord, Committed
<1>2. QED BY <1>1, RequestsAssumption, FS_Subset

LEMMA TotalIsInteger ==
  ASSUME TypeInv, NEW op, NEW i
  PROVE  Total(op, i) \in Int
<1>1. \A r \in OnRecord(op, i) : Amounts[r] \in Int
  BY AmountsAreIntegers, OnRecordFinite
<1>2. QED BY <1>1, OnRecordFinite, SumType DEF Total, Amounts

\* A step that answers no call of a kind leaves its total alone.
LEMMA TotalSteady ==
  ASSUME TypeInv, NEW op, NEW i, OnRecord(op, i)' = OnRecord(op, i),
         \A r \in OnRecord(op, i) : call'[r] = call[r]
  PROVE  Total(op, i)' = Total(op, i)
<1> DEFINE S == OnRecord(op, i)
           next == [r \in Requests |-> call'[r].amount]
<1>1. IsFiniteSet(S) /\ S \subseteq Requests
  BY OnRecordFinite
<1>2. \A r \in S : Amounts[r] \in Int /\ next[r] = Amounts[r]
  BY <1>1, AmountsAreIntegers DEF Amounts
<1> HIDE DEF S, next
<1>3. SumFunctionOnSet(Amounts, S) = SumFunctionOnSet(next, S)
  BY <1>1, <1>2, SumSame
<1>4. QED BY <1>3 DEF Total, Amounts, next, S

\* A commit adds its amount to the total of its kind on its record, and to no other.
LEMMA TotalOfCommit ==
  ASSUME TypeInv, NEW r \in Requests, NEW kind, Checked(r, kind), Answer(r), NEW op, NEW i
  PROVE  Total(op, i)' = Total(op, i)
           + (IF op = kind /\ i = call[r].item THEN call[r].amount ELSE 0)
<1>1. /\ r \notin OnRecord(op, i) /\ call' = call
      /\ OnRecord(op, i)' = IF op = kind /\ i = call[r].item
                            THEN OnRecord(op, i) \cup {r} ELSE OnRecord(op, i)
  BY DEF Checked, Answer, OnRecord, Committed, TypeInv, TypeOK
<1>2. CASE op = kind /\ i = call[r].item
  <2> DEFINE S == OnRecord(op, i)
  <2>1. IsFiniteSet(S) /\ \A s \in S \cup {r} : Amounts[s] \in Int
    BY OnRecordFinite, AmountsAreIntegers
  <2> HIDE DEF S
  <2>2. SumFunctionOnSet(Amounts, S \cup {r}) = SumFunctionOnSet(Amounts, S) + Amounts[r]
    BY <1>1, <2>1, SumAddElement DEF S
  <2>3. Amounts' = Amounts /\ Amounts[r] = call[r].amount
    BY <1>1 DEF Amounts
  <2>4. QED BY <1>1, <1>2, <2>2, <2>3 DEF Total, Amounts, S
<1>3. CASE ~(op = kind /\ i = call[r].item)
  BY <1>1, <1>3, TotalSteady, TotalIsInteger
<1>4. QED BY <1>2, <1>3

LEMMA InitLedgerInv == Init => LedgerInv
<1> SUFFICES ASSUME Init PROVE ReservedIsLedger
  BY InitTypeInv DEF LedgerInv
<1>1. ASSUME NEW op, NEW i PROVE Total(op, i) = 0
  <2>1. OnRecord(op, i) = {}
    BY DEF Init, OnRecord, Committed
  <2>2. QED BY <2>1, SumEmpty DEF Total
<1>2. QED BY <1>1 DEF Init, ReservedIsLedger, Record

LEMMA NextLedgerInv ==
  ASSUME LedgerInv, [Next]_vars
  PROVE  LedgerInv'
<1>1. TypeInv /\ TypeInv'
  BY NextTypeInv DEF LedgerInv
<1>2. ASSUME UNCHANGED stock,
             \A s \in Requests : phase'[s] = "done" <=> phase[s] = "done",
             \A s \in Requests : phase[s] = "done" => call'[s] = call[s]
      PROVE  LedgerInv'
  <2>1. ASSUME NEW op, NEW i PROVE Total(op, i)' = Total(op, i)
    <3>1. OnRecord(op, i)' = OnRecord(op, i)
      BY <1>2 DEF OnRecord, Committed
    <3>2. \A s \in OnRecord(op, i) : call'[s] = call[s]
      BY <1>2 DEF OnRecord, Committed
    <3>3. QED BY <1>1, <3>1, <3>2, TotalSteady
  <2>2. QED BY <1>1, <1>2, <2>1 DEF LedgerInv, ReservedIsLedger
<1>3. ASSUME NEW r \in Requests, Handle(r) PROVE LedgerInv'
  BY <1>1, <1>2, <1>3 DEF Handle, AdjustStock, ReserveStock, DeductReserved, ReleaseReserved,
                          Read, stockVars, TypeInv, TypeOK
<1>4. ASSUME NEW r \in Requests, Commit(r) PROVE LedgerInv'
  <2> DEFINE c == call[r].item
             n == call[r].amount
  <2>1. /\ Answer(r) /\ phase[r] = "checked" /\ c \in Items /\ n \in Int
        /\ \A i \in Items : stock[i] \in StockRecord
    BY <1>1, <1>4 DEF Commit, AdjustCommit, ReserveCommit, DeductCommit, ReleaseCommit, Checked,
                      TypeInv, TypeOK, CheckedCalls, Call
  <2>2. \A op, i : Total(op, i) \in Int
    BY <1>1, TotalIsInteger
  <2>3. CASE AdjustCommit(r)
    <3>1. \A i \in Items : stock'[i].reserved = stock[i].reserved
      BY <1>1, <2>1, <2>3 DEF AdjustCommit, TypeInv, TypeOK, StockRecord
    <3>2. \A op, i : op # "adjust" => Total(op, i)' = Total(op, i)
      BY <1>1, <2>1, <2>2, <2>3, TotalOfCommit DEF AdjustCommit
    <3>3. QED BY <1>1, <3>1, <3>2 DEF LedgerInv, ReservedIsLedger
  <2>4. CASE ReserveCommit(r)
    <3>1. \A i \in Items : stock'[i].reserved = stock[i].reserved + (IF i = c THEN n ELSE 0)
      BY <1>1, <2>1, <2>4 DEF ReserveCommit, TypeInv, TypeOK, StockRecord
    <3>2. \A op, i : Total(op, i)'
                      = Total(op, i) + (IF op = "reserve" /\ i = c THEN n ELSE 0)
      BY <1>1, <2>1, <2>4, TotalOfCommit DEF ReserveCommit
    <3>3. QED BY <1>1, <2>1, <2>2, <3>1, <3>2 DEF LedgerInv, ReservedIsLedger, StockRecord
  <2>5. CASE DeductCommit(r)
    <3>1. \A i \in Items : stock'[i].reserved = stock[i].reserved - (IF i = c THEN n ELSE 0)
      BY <1>1, <2>1, <2>5 DEF DeductCommit, TypeInv, TypeOK, StockRecord, Record
    <3>2. \A op, i : Total(op, i)'
                      = Total(op, i) + (IF op = "deduct" /\ i = c THEN n ELSE 0)
      BY <1>1, <2>1, <2>5, TotalOfCommit DEF DeductCommit
    <3>3. QED BY <1>1, <2>1, <2>2, <3>1, <3>2 DEF LedgerInv, ReservedIsLedger, StockRecord
  <2>6. CASE ReleaseCommit(r)
    <3>1. \A i \in Items : stock'[i].reserved = stock[i].reserved - (IF i = c THEN n ELSE 0)
      BY <1>1, <2>1, <2>6 DEF ReleaseCommit, TypeInv, TypeOK, StockRecord
    <3>2. \A op, i : Total(op, i)'
                      = Total(op, i) + (IF op = "release" /\ i = c THEN n ELSE 0)
      BY <1>1, <2>1, <2>6, TotalOfCommit DEF ReleaseCommit
    <3>3. QED BY <1>1, <2>1, <2>2, <3>1, <3>2 DEF LedgerInv, ReservedIsLedger, StockRecord
  <2>7. QED BY <1>4, <2>3, <2>4, <2>5, <2>6 DEF Commit
<1>5. ASSUME NEW r \in Requests, RequestLost(r) PROVE LedgerInv'
  BY <1>1, <1>2, <1>5 DEF RequestLost, stockVars, TypeInv, TypeOK
<1>6. ASSUME NEW i \in Items, AlertAccepted(i) \/ AlertFailed(i) PROVE LedgerInv'
  BY <1>2, <1>6 DEF AlertAccepted, AlertFailed, stockVars
<1>7. CASE DailyLowStockScan
  BY <1>2, <1>7 DEF DailyLowStockScan, stockVars
<1>8. CASE UNCHANGED vars
  BY <1>2, <1>8 DEF vars, stockVars
<1>9. QED BY <1>3, <1>4, <1>5, <1>6, <1>7, <1>8 DEF Next

\* The reserved count of every record is exactly what the answered reserves, deductions and
\* releases add up to, for any number of records and requests in any interleaving.
THEOREM ReservedStaysLedger == Spec => []ReservedIsLedger
<1>1. LedgerInv /\ [Next]_vars => LedgerInv'
  BY NextLedgerInv
<1>2. LedgerInv => ReservedIsLedger
  BY DEF LedgerInv
<1>3. QED BY <1>1, <1>2, InitLedgerInv, PTL DEF Spec

------------------------------------------------------------------------------
(* Concurrent checkouts oversell a record by a bounded amount.             *)

InFlightBounded == Cardinality(InFlight) <= MaxInFlight

\* The invariant while no adjustment is committed.
OversellInv == TypeInv /\ InFlightBounded /\ WithinBound

\* Sets of requests are finite, and the reservations in flight are requests in flight.
LEMMA RequestSets ==
  /\ \A S \in SUBSET Requests : IsFiniteSet(S) /\ Cardinality(S) \in Nat
  /\ InFlight \in SUBSET Requests
  /\ \A i : Reserving(i) \in SUBSET InFlight
BY RequestsAssumption, FS_Subset, FS_CardinalityType DEF InFlight, Reserving, Checked

\* The releases of a negative quantity on a record, and what they add up to.
NegativeReleases(i) == {r \in OnRecord("release", i) : call[r].amount < 0}

Negations == [r \in Requests |-> -call[r].amount]

LEMMA UnreleasedNatural ==
  ASSUME TypeInv, NEW i
  PROVE  Unreleased(i) \in Nat
<1> DEFINE S == NegativeReleases(i)
<1>1. IsFiniteSet(S) /\ S \subseteq Requests
  BY OnRecordFinite, FS_Subset DEF NegativeReleases
<1>2. \A r \in S : Negations[r] \in Nat
  BY <1>1 DEF NegativeReleases, Negations, TypeInv, TypeOK, Call
<1> HIDE DEF S
<1>3. SumFunctionOnSet(Negations, S) \in Nat
  BY <1>1, <1>2, SumNatural
<1>4. QED BY <1>3 DEF Unreleased, Negations, NegativeReleases, S

\* A step that answers nothing leaves it alone.
LEMMA UnreleasedSteady ==
  ASSUME TypeInv, NEW i,
         \A r \in Requests : phase'[r] = "done" <=> phase[r] = "done",
         \A r \in Requests : phase[r] = "done" => call'[r] = call[r]
  PROVE  Unreleased(i)' = Unreleased(i)
<1> DEFINE S == NegativeReleases(i)
           next == [r \in Requests |-> -call'[r].amount]
<1>1. IsFiniteSet(S) /\ S \subseteq Requests
  BY OnRecordFinite, FS_Subset DEF NegativeReleases
<1>2. \A r \in S : Negations[r] \in Int /\ next[r] = Negations[r]
  BY <1>1 DEF NegativeReleases, OnRecord, Committed, Negations, TypeInv, TypeOK, Call
<1>3. NegativeReleases(i)' = S
  BY DEF NegativeReleases, OnRecord, Committed
<1> HIDE DEF S, next
<1>4. SumFunctionOnSet(Negations, S) = SumFunctionOnSet(next, S)
  BY <1>1, <1>2, SumSame
<1>5. Unreleased(i)' = SumFunctionOnSet(next, S)
  BY <1>3 DEF Unreleased, NegativeReleases, next
<1>6. QED BY <1>4, <1>5 DEF Unreleased, Negations, NegativeReleases, S

\* A commit adds to it if it is a release of a negative quantity on the record.
LEMMA UnreleasedOfCommit ==
  ASSUME TypeInv, NEW r \in Requests, NEW kind, Checked(r, kind), Answer(r), NEW i
  PROVE  Unreleased(i)' = Unreleased(i)
           + (IF kind = "release" /\ i = call[r].item /\ call[r].amount < 0
              THEN -call[r].amount ELSE 0)
<1> DEFINE S == NegativeReleases(i)
           counts == kind = "release" /\ i = call[r].item /\ call[r].amount < 0
<1>1. /\ r \notin S /\ call' = call
      /\ NegativeReleases(i)' = IF counts THEN S \cup {r} ELSE S
  BY DEF Checked, Answer, NegativeReleases, OnRecord, Committed, TypeInv, TypeOK
<1>2. Negations' = Negations /\ Negations[r] = -call[r].amount
  BY <1>1 DEF Negations
<1>3. Unreleased(i) = SumFunctionOnSet(Negations, S)
  BY DEF Unreleased, Negations, NegativeReleases
<1>4. Unreleased(i)' = SumFunctionOnSet(Negations, NegativeReleases(i)')
  BY <1>2 DEF Unreleased, Negations, NegativeReleases
<1>5. CASE counts
  <2>1. IsFiniteSet(S) /\ S \subseteq Requests
    BY OnRecordFinite, FS_Subset DEF NegativeReleases
  <2>1a. \A s \in Requests : Negations[s] \in Int
    BY DEF Negations, TypeInv, TypeOK, Call
  <2> HIDE DEF S
  <2>2. SumFunctionOnSet(Negations, S \cup {r}) = SumFunctionOnSet(Negations, S) + Negations[r]
    BY <1>1, <2>1, <2>1a, SumAddElement
  <2>3. QED BY <1>1, <1>2, <1>3, <1>4, <1>5, <2>2
<1>6. CASE ~counts
  BY <1>1, <1>3, <1>4, <1>6, UnreleasedNatural
<1>7. QED BY <1>5, <1>6

LEMMA MonotoneProduct ==
  ASSUME NEW m \in Nat, NEW a \in Nat, NEW b \in Nat, a <= b
  PROVE  m * a <= m * b
OBVIOUS

LEMMA ProductPred ==
  ASSUME NEW m \in Nat, NEW a \in Nat \ {0}
  PROVE  m * (a - 1) = m * a - m
OBVIOUS

LEMMA InitOversellInv == Init => OversellInv
<1> SUFFICES ASSUME Init PROVE OversellInv
  OBVIOUS
<1>1. InFlight = {} /\ \A i \in Items : Reserving(i) = {}
  BY DEF Init, InFlight, Reserving, Checked
<1>2. Cardinality({}) = 0
  BY FS_EmptySet
<1>3. MaxQuantity * MaxInFlight >= 1 /\ MaxQuantity * 0 = 0
  BY MaxQuantityAssumption, MaxInFlightAssumption
<1>4. MaxQuantity * MaxInFlight \in Int
  BY MaxQuantityAssumption, MaxInFlightAssumption
<1>5a. \A i \in Items : Unreleased(i) \in Nat
  BY InitTypeInv, UnreleasedNatural
<1>5. \A i \in Items : /\ stock[i].reserved = 0
                       /\ stock[i].quantity = InitialStock[i]
                       /\ InitialStock[i] \in Nat
  BY InitialStockAssumption DEF Init, Record
<1>6. WithinBound
  <2> DEFINE bound == MaxQuantity * MaxInFlight
  <2> HIDE DEF bound
  <2>1. bound \in Int /\ bound >= 1
    BY <1>3, <1>4 DEF bound
  <2>2. \A i \in Items : 0 + 0 <= InitialStock[i] + bound - 1
    BY <1>5, <2>1
  <2>3. \A i \in Items : /\ stock[i].reserved = 0 /\ stock[i].quantity = InitialStock[i]
                        /\ MaxQuantity * Cardinality(Reserving(i)) = 0
    <3> TAKE i \in Items
    <3>1. Cardinality(Reserving(i)) = 0
      BY <1>1, <1>2
    <3>2. MaxQuantity * Cardinality(Reserving(i)) = 0
      BY <1>3, <3>1
    <3>3. QED BY <1>5, <3>2
  <2>4. \A i \in Items : stock[i].reserved + MaxQuantity * Cardinality(Reserving(i))
                           <= stock[i].quantity + bound - 1 + Unreleased(i)
    BY <1>5a, <2>1, <2>2, <2>3, <1>5
  <2>5. QED BY <2>4 DEF WithinBound, bound
<1>7. InFlightBounded
  BY <1>1, <1>2, MaxInFlightAssumption DEF InFlightBounded
<1>8. QED BY <1>6, <1>7, InitTypeInv DEF OversellInv

\* A step in which no reservation starts, no quantity shrinks relative to what is
\* reserved by a check, and nothing new is in flight, keeps the bound.
LEMMA QuietStep ==
  ASSUME OversellInv, TypeInv', InFlight' \subseteq InFlight,
         \A i \in Items : Reserving(i)' \subseteq Reserving(i),
         \A i \in Items : stock'[i].reserved - stock'[i].quantity - Unreleased(i)'
                           <= stock[i].reserved - stock[i].quantity - Unreleased(i),
         \A i \in Items : Unreleased(i)' \in Nat
  PROVE  OversellInv'
<1>1. InFlightBounded'
  <2>1. Cardinality(InFlight') <= Cardinality(InFlight)
    BY RequestSets, FS_Subset
  <2>2. Cardinality(InFlight') \in Nat /\ Cardinality(InFlight) \in Nat
    BY RequestSets
  <2>3. QED
    BY <2>1, <2>2, MaxInFlightAssumption DEF OversellInv, InFlightBounded
<1>2. ASSUME NEW i \in Items
      PROVE  stock'[i].reserved + MaxQuantity * Cardinality(Reserving(i)')
               <= stock'[i].quantity + MaxQuantity * MaxInFlight - 1 + Unreleased(i)'
  <2> DEFINE m == MaxQuantity * MaxInFlight
             a == Cardinality(Reserving(i)')
             b == Cardinality(Reserving(i))
             u == Unreleased(i)
             v == Unreleased(i)'
  <2>1. /\ a \in Nat /\ b \in Nat /\ a <= b
    BY <1>2, RequestSets, FS_Subset
  <2>2. MaxQuantity * a <= MaxQuantity * b
    BY <2>1, MonotoneProduct, MaxQuantityAssumption
  <2>3. /\ m \in Int /\ MaxQuantity * a \in Int /\ MaxQuantity * b \in Int
    BY <2>1, MaxQuantityAssumption, MaxInFlightAssumption
  <2>4. /\ stock[i].reserved \in Int /\ stock[i].quantity \in Int
        /\ stock'[i].reserved \in Int /\ stock'[i].quantity \in Int
    BY DEF OversellInv, TypeInv, TypeOK, StockRecord
  <2>4a. u \in Nat
    BY UnreleasedNatural DEF OversellInv
  <2>4b. v \in Nat
    OBVIOUS
  <2>5. stock[i].reserved + MaxQuantity * b <= stock[i].quantity + m - 1 + u
    BY DEF OversellInv, WithinBound
  <2>6. stock'[i].reserved - stock'[i].quantity - v <= stock[i].reserved - stock[i].quantity - u
    OBVIOUS
  <2> DEFINE pa == MaxQuantity * a
             pb == MaxQuantity * b
  <2> HIDE DEF m, pa, pb, u, v
  <2>7. stock'[i].reserved + pa <= stock'[i].quantity + m - 1 + v
    BY <2>2, <2>3, <2>4, <2>4a, <2>4b, <2>5, <2>6 DEF pa, pb
  <2>8. QED BY <2>7 DEF m, pa, v
<1>3. QED BY <1>1, <1>2 DEF OversellInv, WithinBound

\* The check of a reservation: what it will add is still available, and with it
\* at most MaxInFlight reservations are in flight.
LEMMA ReserveCheckStep ==
  ASSUME OversellInv, TypeInv', NEW r \in Requests, NEW i \in Items,
         NEW n \in Quantities, ReserveStock(r, i, n), phase'[r] = "checked"
  PROVE  OversellInv'
<1>1. /\ phase[r] = "idle"
      /\ stock' = stock
      /\ phase' = [phase EXCEPT ![r] = "checked"]
      /\ Cardinality(InFlight) < MaxInFlight
      /\ Available(stock[i]) >= n
      /\ call' = [call EXCEPT ![r] = [op |-> "reserve", item |-> i, amount |-> n,
                                      seen |-> stock[i]]]
  BY DEF ReserveStock, Read, stockVars, EnsureExists, OversellInv, TypeInv, TypeOK
<1>2. InFlight' = InFlight \cup {r} /\ r \notin InFlight
  BY <1>1 DEF InFlight, OversellInv, TypeInv, TypeOK
<1>u. \A j \in Items : Unreleased(j)' = Unreleased(j) /\ Unreleased(j) \in Nat
  BY <1>1, UnreleasedSteady, UnreleasedNatural DEF OversellInv, TypeInv, TypeOK
<1>3. InFlightBounded'
  BY <1>1, <1>2, RequestSets, FS_AddElement, MaxInFlightAssumption DEF InFlightBounded
<1>4. ASSUME NEW j \in Items, j # i
      PROVE  stock'[j].reserved + MaxQuantity * Cardinality(Reserving(j)')
               <= stock'[j].quantity + MaxQuantity * MaxInFlight - 1 + Unreleased(j)'
  <2>1. Reserving(j)' = Reserving(j)
    BY <1>1, <1>4 DEF Reserving, Checked, OversellInv, TypeInv, TypeOK
  <2>2. QED BY <1>1, <1>u, <2>1 DEF OversellInv, WithinBound
<1>5. stock'[i].reserved + MaxQuantity * Cardinality(Reserving(i)')
        <= stock'[i].quantity + MaxQuantity * MaxInFlight - 1 + Unreleased(i)'
  <2> DEFINE a == Cardinality(Reserving(i)')
             m == MaxQuantity * MaxInFlight
             pa == MaxQuantity * a
  <2>1. Reserving(i)' \subseteq InFlight' /\ InFlight' \subseteq Requests
    BY DEF Reserving, Checked, InFlight
  <2>2. a \in Nat /\ a <= MaxInFlight
    <3>1. Cardinality(Reserving(i)') <= Cardinality(InFlight')
      BY <2>1, RequestSets, FS_Subset
    <3>2. Cardinality(Reserving(i)') \in Nat /\ Cardinality(InFlight') \in Nat
      BY <2>1, RequestSets
    <3>3. QED BY <1>3, <3>1, <3>2, MaxInFlightAssumption DEF InFlightBounded
  <2>3. pa <= m
    BY <2>2, MonotoneProduct, MaxQuantityAssumption, MaxInFlightAssumption
  <2>4. pa \in Int /\ m \in Int
    BY <2>2, MaxQuantityAssumption, MaxInFlightAssumption
  <2>5. stock[i].reserved \in Int /\ stock[i].quantity \in Int
    BY DEF OversellInv, TypeInv, TypeOK, StockRecord
  <2>6. stock[i].reserved <= stock[i].quantity - 1
    BY <1>1, <2>5, MaxQuantityAssumption DEF Available, Quantities
  <2> HIDE DEF pa, m
  <2>7. stock[i].reserved + pa <= stock[i].quantity + m - 1 + Unreleased(i)
    BY <1>u, <2>3, <2>4, <2>5, <2>6
  <2>8. QED BY <1>1, <1>u, <2>7 DEF pa, m
<1>6. QED BY <1>3, <1>4, <1>5 DEF OversellInv, WithinBound

\* The write of a reservation: what it reserves was counted while it was in flight.
LEMMA ReserveCommitStep ==
  ASSUME OversellInv, TypeInv', NEW r \in Requests, ReserveCommit(r)
  PROVE  OversellInv'
<1>0. PICK i \in Items, n \in Quantities : i = call[r].item /\ n = call[r].amount
  BY DEF ReserveCommit, Checked, OversellInv, TypeInv, CheckedCalls
<1>1. /\ phase[r] = "checked" /\ call[r].op = "reserve" /\ call[r].item = i
      /\ call' = call /\ phase' = [phase EXCEPT ![r] = "done"]
      /\ stock' = [stock EXCEPT ![i].reserved = @ + n]
  BY <1>0 DEF ReserveCommit, Checked, Answer
<1>u. \A j \in Items : Unreleased(j)' = Unreleased(j) /\ Unreleased(j) \in Nat
  <2>1. Checked(r, "reserve") /\ Answer(r)
    BY DEF ReserveCommit
  <2>2. QED BY <2>1, UnreleasedOfCommit, UnreleasedNatural DEF OversellInv
<1>2. InFlight' \subseteq InFlight
  BY <1>1 DEF InFlight, OversellInv, TypeInv, TypeOK
<1>3. InFlightBounded'
  <2>1. Cardinality(InFlight') <= Cardinality(InFlight)
    BY <1>2, RequestSets, FS_Subset
  <2>2. Cardinality(InFlight') \in Nat /\ Cardinality(InFlight) \in Nat
    BY <1>2, RequestSets
  <2>3. QED
    BY <2>1, <2>2, MaxInFlightAssumption DEF OversellInv, InFlightBounded
<1>4. ASSUME NEW j \in Items, j # i
      PROVE  stock'[j].reserved + MaxQuantity * Cardinality(Reserving(j)')
               <= stock'[j].quantity + MaxQuantity * MaxInFlight - 1 + Unreleased(j)'
  <2>1. Reserving(j)' = Reserving(j)
    BY <1>1, <1>4 DEF Reserving, Checked, OversellInv, TypeInv, TypeOK
  <2>2. stock'[j] = stock[j]
    BY <1>1, <1>4 DEF OversellInv, TypeInv, TypeOK
  <2>3. QED BY <1>u, <2>1, <2>2 DEF OversellInv, WithinBound
<1>5. stock'[i].reserved + MaxQuantity * Cardinality(Reserving(i)')
        <= stock'[i].quantity + MaxQuantity * MaxInFlight - 1 + Unreleased(i)'
  <2> DEFINE a == Cardinality(Reserving(i))
             m == MaxQuantity * MaxInFlight
             pa == MaxQuantity * a
             pb == MaxQuantity * (a - 1)
  <2>1. Reserving(i)' = Reserving(i) \ {r} /\ r \in Reserving(i)
    BY <1>1 DEF Reserving, Checked, OversellInv, TypeInv, TypeOK
  <2>2. a \in Nat /\ a # 0 /\ Cardinality(Reserving(i)') = a - 1
    BY <2>1, RequestSets, FS_RemoveElement, FS_EmptySet
  <2>3. pb = pa - MaxQuantity
    BY <2>2, ProductPred, MaxQuantityAssumption
  <2>4. pa \in Int /\ pb \in Int /\ m \in Int
    BY <2>2, MaxQuantityAssumption, MaxInFlightAssumption
  <2>5. stock[i] \in StockRecord
    BY <1>1 DEF OversellInv, TypeInv, TypeOK
  <2>6. stock'[i].reserved = stock[i].reserved + n /\ stock'[i].quantity = stock[i].quantity
    BY <1>1, <2>5 DEF OversellInv, TypeInv, TypeOK, StockRecord
  <2>7. stock[i].reserved + pa <= stock[i].quantity + m - 1 + Unreleased(i)
    BY <1>1 DEF OversellInv, WithinBound
  <2>8. n \in Nat /\ n <= MaxQuantity /\ MaxQuantity \in Nat
    BY <1>1, MaxQuantityAssumption DEF Quantities
  <2>9. stock[i].reserved \in Int /\ stock[i].quantity \in Int
    BY <2>5 DEF StockRecord
  <2> HIDE DEF pa, pb, m, a
  <2>10. stock[i].reserved + n + pb <= stock[i].quantity + m - 1 + Unreleased(i)
    BY <1>u, <2>3, <2>4, <2>7, <2>8, <2>9
  <2>11. QED BY <1>u, <2>2, <2>6, <2>10 DEF pb, m, a
<1>6. WithinBound'
  <2> SUFFICES ASSUME NEW j \in Items
               PROVE  stock'[j].reserved + MaxQuantity * Cardinality(Reserving(j)')
                        <= stock'[j].quantity + MaxQuantity * MaxInFlight - 1 + Unreleased(j)'
    BY DEF WithinBound
  <2>1. CASE j = i
    BY <1>5, <2>1
  <2>2. CASE j # i
    BY <1>4, <2>2
  <2>3. QED BY <2>1, <2>2
<1>7. QED BY <1>3, <1>6 DEF OversellInv

LEMMA NextOversellInv ==
  ASSUME OversellInv, [Next]_vars, Committed("adjust")' = {}
  PROVE  OversellInv'
<1>1. TypeInv'
  BY NextTypeInv DEF OversellInv
<1>2. ASSUME UNCHANGED stock, InFlight' \subseteq InFlight,
             \A i \in Items : Reserving(i)' \subseteq Reserving(i),
             \A s \in Requests : phase'[s] = "done" <=> phase[s] = "done",
             \A s \in Requests : phase[s] = "done" => call'[s] = call[s]
      PROVE  OversellInv'
  <2>1. \A i \in Items : Unreleased(i)' = Unreleased(i) /\ Unreleased(i) \in Nat
    BY <1>2, UnreleasedSteady, UnreleasedNatural DEF OversellInv
  <2>2. \A i \in Items : stock'[i].reserved - stock'[i].quantity - Unreleased(i)'
                           <= stock[i].reserved - stock[i].quantity - Unreleased(i)
    BY <1>2, <2>1 DEF OversellInv, TypeInv, TypeOK, StockRecord
  <2>3. QED BY <1>1, <1>2, <2>1, <2>2, QuietStep
<1>3. ASSUME NEW r \in Requests, Handle(r) PROVE OversellInv'
  <2>1. PICK i \in Items \cup {UnknownId} :
          \/ \E d \in Deltas : AdjustStock(r, i, d)
          \/ \E n \in Quantities : ReserveStock(r, i, n)
          \/ \E n \in BodyQuantities : DeductReserved(r, i, n) \/ ReleaseReserved(r, i, n)
    BY <1>3 DEF Handle
  <2>3. ASSUME NEW op \in Operations \ {"reserve"}, NEW n, NEW ok \in BOOLEAN,
               Read(r, op, i, n, ok)
        PROVE  OversellInv'
    \* The request enters the window between its check and its write, so it is
    \* in flight, but it is not a reservation.
    <3>1. InFlightBounded'
      <4>1. InFlight' \subseteq InFlight \cup {r}
        BY <2>3 DEF Read, InFlight, OversellInv, TypeInv, TypeOK
      <4>2. Cardinality(InFlight') <= Cardinality(InFlight \cup {r})
        <5>1. IsFiniteSet(InFlight \cup {r})
          BY RequestSets
        <5>2. QED BY <4>1, <5>1, FS_Subset
      <4>3. /\ Cardinality(InFlight') \in Nat
            /\ Cardinality(InFlight \cup {r}) <= Cardinality(InFlight) + 1
            /\ Cardinality(InFlight) \in Nat /\ Cardinality(InFlight \cup {r}) \in Nat
        <5>1. InFlight \cup {r} \in SUBSET Requests /\ InFlight' \in SUBSET Requests
          BY RequestSets DEF InFlight
        <5>2. QED BY <5>1, RequestSets, FS_AddElement
      <4>4. Cardinality(InFlight) < MaxInFlight
        BY <2>3 DEF Read
      <4>5. QED BY <4>2, <4>3, <4>4, MaxInFlightAssumption DEF InFlightBounded
    <3>2. \A j \in Items : Reserving(j)' = Reserving(j)
      BY <2>3 DEF Read, Reserving, Checked, OversellInv, TypeInv, TypeOK
    <3>3. stock' = stock
      BY <2>3 DEF Read, stockVars
    <3>4. \A j \in Items : Unreleased(j)' = Unreleased(j)
      BY <2>3, UnreleasedSteady DEF Read, OversellInv, TypeInv, TypeOK
    <3>5. QED BY <1>1, <3>1, <3>2, <3>3, <3>4 DEF OversellInv, WithinBound
  <2>2. ASSUME NEW d \in Deltas, AdjustStock(r, i, d) PROVE OversellInv'
    BY <2>2, <2>3 DEF AdjustStock, Read
  <2>4. ASSUME NEW n \in Quantities, ReserveStock(r, i, n) PROVE OversellInv'
    <3>1. CASE phase'[r] = "checked"
      <4>1. i \in Items
        BY <2>4, <3>1 DEF ReserveStock, Read, OversellInv, TypeInv, TypeOK
      <4>2. QED BY <1>1, <2>4, <3>1, <4>1, ReserveCheckStep
    <3>2. CASE phase'[r] # "checked"
      BY <1>2, <2>4, <3>2 DEF ReserveStock, Read, InFlight, Reserving, Checked, stockVars,
                              OversellInv, TypeInv, TypeOK
    <3>3. QED BY <3>1, <3>2
  <2>5. ASSUME NEW n \in BodyQuantities, DeductReserved(r, i, n) \/ ReleaseReserved(r, i, n)
        PROVE  OversellInv'
    BY <2>3, <2>5 DEF DeductReserved, ReleaseReserved, Read
  <2>6. QED BY <2>1, <2>2, <2>4, <2>5
<1>4. ASSUME NEW r \in Requests, Commit(r) PROVE OversellInv'
  <2> DEFINE i == call[r].item
             n == call[r].amount
  <2>1. CASE AdjustCommit(r)
    BY <2>1, CommitCounts DEF AdjustCommit, OversellInv
  <2>2. CASE ReserveCommit(r)
    BY <1>1, <2>2, ReserveCommitStep
  <2>3. CASE DeductCommit(r) \/ ReleaseCommit(r)
    <3>1. /\ phase[r] = "checked" /\ call[r].op # "reserve"
          /\ i \in Items /\ n \in Int
          /\ Answer(r) /\ call' = call /\ phase' = [phase EXCEPT ![r] = "done"]
      BY <2>3 DEF DeductCommit, ReleaseCommit, Checked, Answer, OversellInv, TypeInv, TypeOK,
                  CheckedCalls, Call
    <3>2. /\ InFlight' \subseteq InFlight
          /\ \A j \in Items : Reserving(j)' \subseteq Reserving(j)
      BY <3>1 DEF InFlight, Reserving, Checked, OversellInv, TypeInv, TypeOK
    <3>3. \A j \in Items : Unreleased(j) \in Nat /\ stock[j].reserved \in Int /\ stock[j].quantity \in Int
      BY UnreleasedNatural DEF OversellInv, TypeInv, TypeOK, StockRecord
    <3>4. \A j \in Items : stock'[j].reserved - stock'[j].quantity - Unreleased(j)'
                             <= stock[j].reserved - stock[j].quantity - Unreleased(j)
      <4>1. CASE DeductCommit(r)
        \* Quantity and reserved count change by the same.
        <5>1. \A j \in Items : Unreleased(j)' = Unreleased(j)
          BY <3>1, <3>3, <4>1, UnreleasedOfCommit DEF DeductCommit, OversellInv
        <5>2. \A j \in Items : stock'[j].reserved - stock'[j].quantity
                                 = stock[j].reserved - stock[j].quantity
          BY <3>1, <3>3, <4>1 DEF DeductCommit, Record, OversellInv, TypeInv, TypeOK
        <5>3. \A j \in Items : stock'[j].reserved \in Int /\ stock'[j].quantity \in Int
          BY <1>1 DEF TypeInv, TypeOK, StockRecord
        <5>4. QED BY <3>3, <5>1, <5>2, <5>3
      <4>2. CASE ReleaseCommit(r)
        \* What a negative release adds to the reserved count is counted as unreleased.
        <5>1. \A j \in Items : Unreleased(j)' = Unreleased(j) + (IF j = i /\ n < 0 THEN -n ELSE 0)
          BY <3>1, <3>3, <4>2, UnreleasedOfCommit DEF ReleaseCommit, OversellInv
        <5>2. \A j \in Items : /\ stock'[j].quantity = stock[j].quantity
                                /\ stock'[j].reserved = stock[j].reserved - (IF j = i THEN n ELSE 0)
          BY <3>1, <3>3, <4>2 DEF ReleaseCommit, OversellInv, TypeInv, TypeOK, StockRecord
        <5>3. QED BY <3>1, <3>3, <5>1, <5>2
      <4>3. QED BY <2>3, <4>1, <4>2
    <3>5. \A j \in Items : Unreleased(j)' \in Nat
      BY <3>1, <3>3, <2>3, UnreleasedOfCommit DEF DeductCommit, ReleaseCommit, OversellInv
    <3>6. QED BY <1>1, <3>2, <3>4, <3>5, QuietStep
  <2>4. QED BY <1>4, <2>1, <2>2, <2>3 DEF Commit
<1>5. ASSUME NEW r \in Requests, RequestLost(r) PROVE OversellInv'
  BY <1>2, <1>5 DEF RequestLost, InFlight, Reserving, Checked, stockVars,
                    OversellInv, TypeInv, TypeOK
<1>6. ASSUME NEW i \in Items, AlertAccepted(i) \/ AlertFailed(i) PROVE OversellInv'
  BY <1>2, <1>6 DEF AlertAccepted, AlertFailed, InFlight, Reserving, Checked, stockVars
<1>7. CASE DailyLowStockScan
  BY <1>2, <1>7 DEF DailyLowStockScan, InFlight, Reserving, Checked, stockVars
<1>8. CASE UNCHANGED vars
  BY <1>2, <1>8 DEF vars, InFlight, Reserving, Checked
<1>9. QED BY <1>3, <1>4, <1>5, <1>6, <1>7, <1>8 DEF Next

\* The number of requests in flight stays within its bound, whatever they do.
LEMMA NextInFlightBounded ==
  ASSUME TypeInv, InFlightBounded, [Next]_vars
  PROVE  InFlightBounded'
<1>1. \A S, T \in SUBSET Requests : S \subseteq T => Cardinality(S) <= Cardinality(T)
  BY RequestSets, FS_Subset
<1>2. InFlight \in SUBSET Requests /\ InFlight' \in SUBSET Requests
  BY DEF InFlight
<1>3. Cardinality(InFlight) \in Nat /\ Cardinality(InFlight') \in Nat
  BY <1>2, RequestSets
<1>4. ASSUME InFlight' \subseteq InFlight PROVE InFlightBounded'
  BY <1>1, <1>2, <1>3, <1>4, MaxInFlightAssumption DEF InFlightBounded
<1>5. ASSUME NEW r \in Requests, Handle(r) PROVE InFlightBounded'
  <2>1. InFlight' \subseteq InFlight \cup {r} /\ Cardinality(InFlight) < MaxInFlight
    BY <1>5 DEF Handle, AdjustStock, ReserveStock, DeductReserved, ReleaseReserved, Read,
                InFlight, TypeInv, TypeOK
  <2>2. InFlight \cup {r} \in SUBSET Requests
    BY <1>2
  <2>3. /\ Cardinality(InFlight \cup {r}) \in Nat
        /\ Cardinality(InFlight \cup {r}) <= Cardinality(InFlight) + 1
    BY <1>2, <1>3, <2>2, RequestSets, FS_AddElement
  <2>4. Cardinality(InFlight') <= Cardinality(InFlight \cup {r})
    BY <1>1, <1>2, <2>1, <2>2
  <2>5. QED BY <1>3, <2>1, <2>3, <2>4, MaxInFlightAssumption DEF InFlightBounded
<1>6. ASSUME NEW r \in Requests, Commit(r) \/ RequestLost(r) PROVE InFlightBounded'
  BY <1>4, <1>6 DEF Commit, AdjustCommit, ReserveCommit, DeductCommit, ReleaseCommit, Answer,
                    RequestLost, InFlight, TypeInv, TypeOK
<1>7. ASSUME NEW i \in Items, AlertAccepted(i) \/ AlertFailed(i) PROVE InFlightBounded'
  BY <1>4, <1>7 DEF AlertAccepted, AlertFailed, InFlight
<1>8. CASE DailyLowStockScan \/ UNCHANGED vars
  BY <1>4, <1>8 DEF DailyLowStockScan, vars, InFlight
<1>9. QED BY <1>5, <1>6, <1>7, <1>8 DEF Next

\* Until somebody corrects the stock, the reserved count passes the quantity by
\* less than what MaxInFlight reservations of the largest size ask for and releases of
\* a negative quantity have put back.
THEOREM OversellStaysBounded == Spec => []OversellBounded
<1> DEFINE Inv == TypeInv /\ InFlightBounded /\ OversellBounded
<1>1. Init => Inv
  BY InitOversellInv DEF OversellInv, OversellBounded
<1>2. Inv /\ [Next]_vars => Inv'
  <2> SUFFICES ASSUME Inv, [Next]_vars PROVE Inv'
    OBVIOUS
  <2>1. TypeInv' /\ InFlightBounded'
    BY NextTypeInv, NextInFlightBounded
  <2>2. ASSUME Committed("adjust")' = {} PROVE WithinBound'
    <3>1. Committed("adjust") = {}
      BY <2>2, CommittedGrows
    <3>2. OversellInv
      BY <3>1 DEF OversellInv, OversellBounded
    <3>3. QED BY <2>2, <3>2, NextOversellInv DEF OversellInv
  <2>3. QED BY <2>1, <2>2 DEF OversellBounded
<1>3. Inv => OversellBounded
  OBVIOUS
<1> HIDE DEF Inv
<1>4. QED BY <1>1, <1>2, <1>3, PTL DEF Spec
=============================================================================
