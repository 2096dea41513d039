----------------------------- MODULE Inventory -----------------------------
(***************************************************************************)
(* The stock records of inventory-service and its HTTP handlers.           *)
(*                                                                         *)
(* Every handler that changes a stock record first reads it (findUnique),  *)
(* decides on what it read, and only then writes, in a transaction of its  *)
(* own.  PostgreSQL runs these transactions at READ COMMITTED, so between  *)
(* a handler's read and its write other handlers may commit: a request is  *)
(* "checked" in that window and carries the record it saw.  A request is   *)
(* used once; what it asked for stays in call[r] after it is answered, so  *)
(* the finished requests are the history that the properties speak about.  *)
(***************************************************************************)
EXTENDS Integers, FiniteSets, Functions

CONSTANTS Items,         \* ids of the stock records
          UnknownId,     \* an id that names no stock record
          Requests,      \* request ids, each used for one HTTP call
          MaxInFlight,   \* how many handlers the service runs side by side
          Operations,    \* the handlers that callers use in this instance
          InitialStock,  \* the quantity each record is created with
          MaxQuantity,   \* the largest quantity a call reserves
          BodyQuantities,\* quantities in the bodies of deduct and release calls
          Deltas,        \* signed quantities of adjust calls
          LowStockQty    \* the low-stock threshold of the records

ASSUME ItemsAssumption == UnknownId \notin Items
ASSUME RequestsAssumption == IsFiniteSet(Requests)
ASSUME MaxInFlightAssumption == MaxInFlight \in Nat \ {0}
ASSUME InitialStockAssumption == InitialStock \in [Items -> Nat]
ASSUME MaxQuantityAssumption == MaxQuantity \in Nat \ {0}
ASSUME BodyQuantitiesAssumption == BodyQuantities \subseteq Int
ASSUME DeltasAssumption == Deltas \subseteq Int
ASSUME OperationsAssumption ==
  Operations \subseteq {"adjust", "reserve", "deduct", "release"}

\* The DTO of reserve asks for an integer of at least 1.  The bodies of deduct and
\* release have no DTO: nothing refuses a zero or a negative number there, only the
\* integer columns refuse a fraction, which ends like a lost request.
Quantities == 1..MaxQuantity

VARIABLES stock,      \* item -> [quantity, reserved]
          movements,  \* rows of stock_movements
          phase,      \* request -> where its handler is
          call,       \* request -> what it asks for and the record it saw
          sending,    \* items with a low-stock mail on its way to the worker
          outcome     \* item -> how its last low-stock mail went

stockVars == <<stock, movements>>
alertVars == <<sending, outcome>>
vars == <<stock, movements, phase, call, sending, outcome>>

Record(q, s) == [quantity |-> q, reserved |-> s]

NoCall == [op |-> "none", item |-> UnknownId, amount |-> 0, seen |-> Record(0, 0)]

Init == /\ stock = [i \in Items |-> Record(InitialStock[i], 0)]
        /\ movements = {}
        /\ phase = [r \in Requests |-> "idle"]
        /\ call = [r \in Requests |-> NoCall]
        /\ sending = {}
        /\ outcome = [i \in Items |-> "none"]

------------------------------------------------------------------------------
(* The read half of a handler: find the record, refuse or go on to write.  *)

\* Mutant: the check forgets the units that are reserved already.
AvailableForgetsReserved(inv) == inv.quantity

Available(inv) == inv.quantity - inv.reserved

InFlight == {r \in Requests : phase[r] = "checked"}

EnsureExists(i) == IF i \in Items THEN stock[i] ELSE Record(0, 0)

Read(r, op, i, n, accepted) ==
  /\ phase[r] = "idle"
  /\ op \in Operations
  /\ Cardinality(InFlight) < MaxInFlight
  /\ call' = [call EXCEPT ![r] = [op |-> op, item |-> i, amount |-> n,
                                  seen |-> EnsureExists(i)]]
  /\ phase' = [phase EXCEPT ![r] = IF i \in Items /\ accepted
                                   THEN "checked" ELSE "refused"]
  /\ UNCHANGED <<stockVars, alertVars>>

AdjustStock(r, i, d) == Read(r, "adjust", i, d, EnsureExists(i).quantity + d >= 0)

ReserveStock(r, i, n) == Read(r, "reserve", i, n, Available(EnsureExists(i)) >= n)

DeductReserved(r, i, n) == Read(r, "deduct", i, n, EnsureExists(i).reserved >= n)

ReleaseReserved(r, i, n) == Read(r, "release", i, n, TRUE)

------------------------------------------------------------------------------
(* The write half: one transaction, then the low-stock check.              *)

Checked(r, op) == phase[r] = "checked" /\ call[r].op = op

Answer(r) == phase' = [phase EXCEPT ![r] = "done"] /\ UNCHANGED call

Moved(r, type, n) ==
  movements' = movements \cup {[by |-> r, item |-> call[r].item,
                                type |-> type, quantity |-> n]}

AlertIfLow(i) ==
  /\ sending' = IF stock'[i].quantity <= LowStockQty THEN sending \cup {i} ELSE sending
  /\ UNCHANGED outcome

\* Mutant: without Math.abs.
SignedMagnitude(n) == n

Magnitude(n) == IF n < 0 THEN -n ELSE n

\* Mutant: the quantity is incremented like the other columns, on a stale check.
AdjustCommitIncrement(r) ==
  LET c == call[r] IN
  /\ Checked(r, "adjust")
  /\ stock' = [stock EXCEPT ![c.item].quantity = @ + c.amount]
  /\ Moved(r, "ADJUSTMENT", Magnitude(c.amount))
  /\ Answer(r)
  /\ AlertIfLow(c.item)

\* The new quantity is computed from the record that was read.
AdjustCommit(r) ==
  LET c == call[r] IN
  /\ Checked(r, "adjust")
  /\ stock' = [stock EXCEPT ![c.item].quantity = c.seen.quantity + c.amount]
  /\ Moved(r, "ADJUSTMENT", Magnitude(c.amount))
  /\ Answer(r)
  /\ AlertIfLow(c.item)

\* Mutant: writes the sum it computed instead of an increment.
ReserveCommitAbsolute(r) ==
  LET c == call[r] IN
  /\ Checked(r, "reserve")
  /\ stock' = [stock EXCEPT ![c.item].reserved = c.seen.reserved + c.amount]
  /\ Moved(r, "SALE_OUT", c.amount)
  /\ Answer(r)
  /\ UNCHANGED alertVars

ReserveCommit(r) ==
  LET c == call[r] IN
  /\ Checked(r, "reserve")
  /\ stock' = [stock EXCEPT ![c.item].reserved = @ + c.amount]
  /\ Moved(r, "SALE_OUT", c.amount)
  /\ Answer(r)
  /\ UNCHANGED alertVars

DeductCommit(r) ==
  LET c == call[r] IN
  /\ Checked(r, "deduct")
  /\ stock' = [stock EXCEPT ![c.item] = Record(@.quantity - c.amount,
                                               @.reserved - c.amount)]
  /\ Moved(r, "SALE_OUT", c.amount)
  /\ Answer(r)
  /\ AlertIfLow(c.item)

ReleaseCommit(r) ==
  LET c == call[r] IN
  /\ Checked(r, "release")
  /\ stock' = [stock EXCEPT ![c.item].reserved = @ - c.amount]
  /\ Answer(r)
  /\ UNCHANGED <<movements, alertVars>>

\* The process or its database connection dies before the transaction commits.
RequestLost(r) ==
  /\ phase[r] = "checked"
  /\ phase' = [phase EXCEPT ![r] = "lost"]
  /\ UNCHANGED <<stockVars, call, alertVars>>

------------------------------------------------------------------------------
(* Low-stock mails: fire and forget after a write, and a scan every day.   *)

Low(i) == stock[i].quantity <= LowStockQty

AlertAccepted(i) == /\ i \in sending
                    /\ sending' = sending \ {i}
                    /\ outcome' = [outcome EXCEPT ![i] = "accepted"]
                    /\ UNCHANGED <<stockVars, phase, call>>

AlertFailed(i) == /\ i \in sending
                  /\ sending' = sending \ {i}
                  /\ outcome' = [outcome EXCEPT ![i] = "failed"]
                  /\ UNCHANGED <<stockVars, phase, call>>

\* Mutant: the scan compares with < where the handlers compare with <=.
StrictLowStockScan ==
  /\ sending' = sending \cup {i \in Items : stock[i].quantity < LowStockQty}
  /\ UNCHANGED <<stockVars, phase, call, outcome>>

DailyLowStockScan == /\ sending' = sending \cup {i \in Items : Low(i)}
                     /\ UNCHANGED <<stockVars, phase, call, outcome>>

------------------------------------------------------------------------------

Handle(r) == \E i \in Items \cup {UnknownId} :
               \/ \E d \in Deltas : AdjustStock(r, i, d)
               \/ \E n \in Quantities : ReserveStock(r, i, n)
               \/ \E n \in BodyQuantities : DeductReserved(r, i, n) \/ ReleaseReserved(r, i, n)

Commit(r) == \/ AdjustCommit(r)
             \/ ReserveCommit(r)
             \/ DeductCommit(r)
             \/ ReleaseCommit(r)

Next == \/ \E r \in Requests : Handle(r) \/ Commit(r) \/ RequestLost(r)
        \/ \E i \in Items : AlertAccepted(i) \/ AlertFailed(i)
        \/ DailyLowStockScan

Spec == Init /\ [][Next]_vars

\* The cron job keeps firing, and the worker is not down at every attempt.
Fairness == /\ WF_vars(DailyLowStockScan)
            /\ \A i \in Items : SF_vars(AlertAccepted(i))

FairSpec == Spec /\ Fairness

------------------------------------------------------------------------------
(* Properties                                                              *)

Phases == {"idle", "checked", "refused", "done", "lost"}

StockRecord == [quantity : Int, reserved : Int]

Call == [op : Operations \cup {"none"}, item : Items \cup {UnknownId},
         amount : Int, seen : StockRecord]

\* The rows of stock_movements: an adjustment keeps the magnitude of its delta, while
\* the quantity of a sale may have either sign.
Movement == [by : Requests, item : Items, type : {"ADJUSTMENT"}, quantity : Nat]
            \cup [by : Requests, item : Items, type : {"SALE_OUT"}, quantity : Int]

\* Every variable has its type, and no adjustment is recorded with its sign.
TypeOK == /\ stock \in [Items -> StockRecord]
          /\ movements \subseteq Movement
          /\ phase \in [Requests -> Phases]
          /\ call \in [Requests -> Call]
          /\ sending \subseteq Items
          /\ outcome \in [Items -> {"none", "accepted", "failed"}]

Committed(op) == {r \in Requests : phase[r] = "done" /\ call[r].op = op}

OnRecord(op, i) == {r \in Committed(op) : call[r].item = i}

Total(op, i) == SumFunctionOnSet([r \in Requests |-> call[r].amount], OnRecord(op, i))

\* The reserved count of a record is exactly what the answered calls add up
\* to: however the handlers interleave, no reserve, deduct or release is lost.
ReservedIsLedger ==
  \A i \in Items :
    stock[i].reserved = Total("reserve", i) - Total("deduct", i) - Total("release", i)

Reserving(i) == {r \in Requests : Checked(r, "reserve") /\ call[r].item = i}

\* What releases of a negative quantity have added to the reserved count, unchecked.
Unreleased(i) ==
  SumFunctionOnSet([r \in Requests |-> -call[r].amount],
                   {r \in OnRecord("release", i) : call[r].amount < 0})

WithinBound ==
  \A i \in Items :
    stock[i].reserved + MaxQuantity * Cardinality(Reserving(i))
      <= stock[i].quantity + MaxQuantity * MaxInFlight - 1 + Unreleased(i)

\* How far concurrent checkouts can oversell a record: each reserve checks
\* the available quantity and increments later, so the reserved count may
\* pass the quantity, but by no more than what the handlers that run side by
\* side can ask for, however many checkouts there are in all.  A release of a
\* negative quantity, which nothing refuses, reserves without any check; the
\* bound grows by exactly that.  Zero or negative deductions leave it alone.  A
\* correction may take away what is reserved; it ends the promise.
OversellBounded == Committed("adjust") = {} => WithinBound

\* Stock corrections and reservations never drive a quantity below zero, in
\* any interleaving: what adjust writes is what it checked.  A deduction can,
\* when it was checked against units that a correction has taken away since.
QuantityNeverNegative == Committed("deduct") = {} => \A i \in Items : stock[i].quantity >= 0

\* The record never has more reserved than it has: "Only N units available".
NoOversell == \A i \in Items : stock[i].reserved <= stock[i].quantity

\* A record that stays low is reported again and again, although the mail
\* that a write fires is forgotten when it fails.
LowStockReported ==
  \A i \in Items : <>[]Low(i) => []<><<AlertAccepted(i)>>_vars
=============================================================================
