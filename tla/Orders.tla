------------------------------- MODULE Orders -------------------------------
(***************************************************************************)
(* order-service: checkout, completion and voiding of orders, composed     *)
(* with the stock handlers of Inventory, which it calls over HTTP.         *)
(*                                                                         *)
(* Each HTTP call to order-service is a handler that runs one await at a   *)
(* time: at[h] is the await it stands at and job[h] what it carries in     *)
(* local variables.  Its calls to inventory-service are Inventory requests *)
(* <<h, k>>, k being the line of the order.  There is no transaction       *)
(* around a handler: one that throws or dies leaves its effects behind.    *)
(***************************************************************************)
EXTENDS Integers, Sequences, FiniteSets, Functions

CONSTANTS Items, UnknownId, InitialStock, MaxQuantity, LowStockQty,  \* of Inventory
          Checkouts,    \* createOrder calls; the order one creates has its id
          Completions,  \* completeOrder calls
          Voids,        \* voidOrder calls
          Carts,        \* checkout -> sequence of [item, quantity]
          MaxLines,     \* bound: lines of a cart
          Members,      \* checkouts by a customer with points to earn
          MayDie        \* handlers that may die or lose a reply on their way

Handlers == Checkouts \cup Completions \cup Voids

Requests == Handlers \X (1..MaxLines)

ASSUME HandlersAssumption ==
  /\ IsFiniteSet(Handlers) /\ Checkouts # {}
  /\ Checkouts \cap (Completions \cup Voids) = {} /\ Completions \cap Voids = {}
\* The till has no checkout button without a product on the cart.
ASSUME CartsAssumption ==
  /\ Carts \in [Checkouts -> Seq([item : Items, quantity : 1..MaxQuantity])]
  /\ MaxLines \in Nat /\ \A c \in Checkouts : Len(Carts[c]) \in 1..MaxLines
ASSUME StockAssumption ==
  UnknownId \notin Items /\ InitialStock \in [Items -> Nat] /\ MaxQuantity \in Nat \ {0}

VARIABLES stock, movements, phase, call, sending, outcome  \* of Inventory

VARIABLES orders,    \* order -> its row: status and orderNumber
          invoices,  \* order -> its invoice row: number and isVoided
          earned,    \* order -> how often the loyalty service credited it
          at,        \* handler -> the await it stands at
          job        \* handler -> its order, its line and the number it drew

Inventory == INSTANCE Inventory
  WITH Deltas <- {}, BodyQuantities <- 1..MaxQuantity,
       MaxInFlight <- Cardinality(Handlers),
       Operations <- {"reserve", "deduct", "release"}

stockVars == <<stock, movements, phase, call, sending, outcome>>
orderVars == <<orders, invoices, earned>>
vars == <<stockVars, orderVars, at, job>>

NoRow == [status |-> "none", number |-> 0]
NoInvoice == [number |-> 0, voided |-> FALSE]
NoJob == [order |-> CHOOSE o \in Checkouts : TRUE, line |-> 1, number |-> 0]

Init == /\ Inventory!Init
        /\ orders = [o \in Checkouts |-> NoRow]
        /\ invoices = [o \in Checkouts |-> NoInvoice]
        /\ earned = [o \in Checkouts |-> 0]
        /\ at = [h \in Handlers |-> "idle"]
        /\ job = [h \in Handlers |-> NoJob]

------------------------------------------------------------------------------

Order(h) == job[h].order
Lines(h) == Carts[Order(h)]
Line(h) == Lines(h)[job[h].line]
Request(h) == <<h, job[h].line>>
Answered(h) == phase[Request(h)] \in {"done", "refused", "lost"}

Created == {o \in Checkouts : orders[o] # NoRow}
Invoiced == {o \in Checkouts : invoices[o] # NoInvoice}

GoTo(h, place) == at' = [at EXCEPT ![h] = place]

\* The next line of the order, or the step after the last one.
NextLine(h, loop, after) ==
  IF job[h].line < Len(Lines(h))
  THEN /\ GoTo(h, loop)
       /\ job' = [job EXCEPT ![h].line = @ + 1]
  ELSE GoTo(h, after) /\ UNCHANGED job

\* order_items keeps no inventoryId, so what completeOrder and voidOrder read
\* from a stored line names no stock record.
StoredInventoryId(line) == UnknownId

------------------------------------------------------------------------------
(* createOrder: reserve line by line, count today's orders, insert the row.*)

BeginCheckout(h) ==
  /\ h \in Checkouts /\ at[h] = "idle"
  /\ GoTo(h, "reserve")
  /\ job' = [job EXCEPT ![h].order = h]
  /\ UNCHANGED <<stockVars, orderVars>>

ReserveLine(h) ==
  /\ at[h] = "reserve"
  /\ Inventory!ReserveStock(Request(h), Line(h).item, Line(h).quantity)
  /\ GoTo(h, "reserving")
  /\ UNCHANGED <<orderVars, job>>

\* Mutant: a failed reserve is logged and forgotten, as a failed deduct is.
LineReservedOrNot(h) ==
  /\ at[h] = "reserving" /\ Answered(h)
  /\ NextLine(h, "reserve", "number")
  /\ UNCHANGED <<stockVars, orderVars>>

LineReserved(h) ==
  /\ at[h] = "reserving" /\ phase[Request(h)] = "done"
  /\ NextLine(h, "reserve", "number")
  /\ UNCHANGED <<stockVars, orderVars>>

\* axios throws; what earlier lines reserved stays reserved.
ReserveThrows(h) ==
  /\ at[h] = "reserving" /\ phase[Request(h)] \in {"refused", "lost"}
  /\ GoTo(h, "threw")
  /\ UNCHANGED <<stockVars, orderVars, job>>

\* All orders of the instance are made on one day, so they share the prefix.
GenerateOrderNumber(h) ==
  /\ at[h] = "number"
  /\ job' = [job EXCEPT ![h].number = Cardinality(Created) + 1]
  /\ GoTo(h, "insert")
  /\ UNCHANGED <<stockVars, orderVars>>

\* Mutant: orderNumber is not unique.
InsertOrderAnyNumber(h) ==
  /\ at[h] = "insert"
  /\ GoTo(h, "answered")
  /\ orders' = [orders EXCEPT ![h] = [status |-> "PENDING", number |-> job[h].number]]
  /\ UNCHANGED <<stockVars, invoices, earned, job>>

InsertOrder(h) ==
  /\ at[h] = "insert"
  /\ IF \E o \in Created : orders[o].number = job[h].number
     THEN GoTo(h, "threw") /\ UNCHANGED orders
     ELSE /\ GoTo(h, "answered")
          /\ orders' = [orders EXCEPT ![h] = [status |-> "PENDING",
                                              number |-> job[h].number]]
  /\ UNCHANGED <<stockVars, invoices, earned, job>>

------------------------------------------------------------------------------
(* completeOrder: deduct line by line, earn points, mark, invoice.         *)

BeginComplete(h, o) ==
  /\ h \in Completions /\ at[h] = "idle" /\ o \in Created
  /\ job' = [job EXCEPT ![h].order = o]
  /\ GoTo(h, IF orders[o].status = "PENDING" THEN "deduct" ELSE "refused")
  /\ UNCHANGED <<stockVars, orderVars>>

DeductLine(h) ==
  /\ at[h] = "deduct"
  /\ Inventory!DeductReserved(Request(h), StoredInventoryId(Line(h)), Line(h).quantity)
  /\ GoTo(h, "deducting")
  /\ UNCHANGED <<orderVars, job>>

\* A failed deduct is logged and the handler goes on, and so is the call that
\* should mark the IMEI sold, a route that does not exist.
LineDeducted(h) ==
  /\ at[h] = "deducting" /\ Answered(h)
  /\ NextLine(h, "deduct", "earn")
  /\ UNCHANGED <<stockVars, orderVars>>

\* The loyalty service credits the customer, or the call fails and is logged.
AwardPoints(h) ==
  /\ at[h] = "earn"
  /\ \/ /\ Order(h) \in Members
        /\ earned' = [earned EXCEPT ![Order(h)] = @ + 1]
     \/ UNCHANGED earned
  /\ GoTo(h, "complete")
  /\ UNCHANGED <<stockVars, orders, invoices, job>>

\* Mutant: the update is not awaited and may fail unnoticed.
MarkCompletedUnawaited(h) ==
  /\ at[h] = "complete"
  /\ \/ orders' = [orders EXCEPT ![Order(h)].status = "COMPLETED"]
     \/ UNCHANGED orders
  /\ GoTo(h, "invoice number")
  /\ UNCHANGED <<stockVars, invoices, earned, job>>

MarkCompleted(h) ==
  /\ at[h] = "complete"
  /\ orders' = [orders EXCEPT ![Order(h)].status = "COMPLETED"]
  /\ GoTo(h, "invoice number")
  /\ UNCHANGED <<stockVars, invoices, earned, job>>

GenerateInvoiceNumber(h) ==
  /\ at[h] = "invoice number"
  /\ job' = [job EXCEPT ![h].number = Cardinality(Invoiced) + 1]
  /\ GoTo(h, "invoice")
  /\ UNCHANGED <<stockVars, orderVars>>

\* Mutant: invoiceNo is not unique.
InsertInvoiceAnyNumber(h) ==
  /\ at[h] = "invoice"
  /\ IF Order(h) \in Invoiced
     THEN GoTo(h, "threw") /\ UNCHANGED invoices
     ELSE /\ GoTo(h, "answered")
          /\ invoices' = [invoices EXCEPT ![Order(h)] = [number |-> job[h].number,
                                                         voided |-> FALSE]]
  /\ UNCHANGED <<stockVars, orders, earned, job>>

\* Mutant: an upsert, which answers the second completion with the old invoice.
UpsertInvoice(h) ==
  /\ at[h] = "invoice"
  /\ \/ /\ Order(h) \in Invoiced
        /\ GoTo(h, "answered") /\ UNCHANGED invoices
     \/ /\ Order(h) \notin Invoiced
        /\ GoTo(h, "answered")
        /\ invoices' = [invoices EXCEPT ![Order(h)] = [number |-> job[h].number,
                                                       voided |-> FALSE]]
  /\ UNCHANGED <<stockVars, orders, earned, job>>

\* orderId and invoiceNo are both unique.
InsertInvoice(h) ==
  /\ at[h] = "invoice"
  /\ IF \/ Order(h) \in Invoiced
        \/ \E o \in Invoiced : invoices[o].number = job[h].number
     THEN GoTo(h, "threw") /\ UNCHANGED invoices
     ELSE /\ GoTo(h, "answered")
          /\ invoices' = [invoices EXCEPT ![Order(h)] = [number |-> job[h].number,
                                                         voided |-> FALSE]]
  /\ UNCHANGED <<stockVars, orders, earned, job>>

------------------------------------------------------------------------------
(* voidOrder: release line by line if PENDING, mark, void the invoice.     *)

BeginVoid(h, o) ==
  /\ h \in Voids /\ at[h] = "idle" /\ o \in Created
  /\ job' = [job EXCEPT ![h].order = o]
  /\ GoTo(h, CASE orders[o].status \in {"VOIDED", "REFUNDED"} -> "refused"
               [] orders[o].status = "PENDING" -> "release"
               [] OTHER -> "void")
  /\ UNCHANGED <<stockVars, orderVars>>

ReleaseLine(h) ==
  /\ at[h] = "release"
  /\ Inventory!ReleaseReserved(Request(h), StoredInventoryId(Line(h)), Line(h).quantity)
  /\ GoTo(h, "releasing")
  /\ UNCHANGED <<orderVars, job>>

LineReleased(h) ==
  /\ at[h] = "releasing" /\ Answered(h)
  /\ NextLine(h, "release", "void")
  /\ UNCHANGED <<stockVars, orderVars>>

\* Mutant: the status that voidOrder refuses but nothing ever writes.
MarkRefunded(h) ==
  /\ at[h] = "void"
  /\ orders' = [orders EXCEPT ![Order(h)].status = "REFUNDED"]
  /\ GoTo(h, "void invoice")
  /\ UNCHANGED <<stockVars, invoices, earned, job>>

MarkVoided(h) ==
  /\ at[h] = "void"
  /\ orders' = [orders EXCEPT ![Order(h)].status = "VOIDED"]
  /\ GoTo(h, "void invoice")
  /\ UNCHANGED <<stockVars, invoices, earned, job>>

VoidInvoice(h) ==
  /\ at[h] = "void invoice"
  /\ invoices' = IF Order(h) \in Invoiced
                 THEN [invoices EXCEPT ![Order(h)].voided = TRUE] ELSE invoices
  /\ GoTo(h, "answered")
  /\ UNCHANGED <<stockVars, orders, earned, job>>

------------------------------------------------------------------------------

Finished == {"answered", "threw", "refused"}

\* The process dies at some await, or an error it does not catch reaches the
\* handler there: a lost reply of a reserve, a database that is away.
HandlerDies(h) ==
  /\ h \in MayDie /\ at[h] \notin Finished \cup {"idle"}
  /\ GoTo(h, "threw")
  /\ UNCHANGED <<stockVars, orderVars, job>>

Checkout(h) == \/ BeginCheckout(h) \/ ReserveLine(h) \/ LineReserved(h)
               \/ ReserveThrows(h) \/ GenerateOrderNumber(h) \/ InsertOrder(h)

Complete(h) == \/ \E o \in Checkouts : BeginComplete(h, o)
               \/ DeductLine(h) \/ LineDeducted(h) \/ AwardPoints(h)
               \/ MarkCompleted(h) \/ GenerateInvoiceNumber(h) \/ InsertInvoice(h)

Void(h) == \/ \E o \in Checkouts : BeginVoid(h, o)
           \/ ReleaseLine(h) \/ LineReleased(h) \/ MarkVoided(h) \/ VoidInvoice(h)

\* inventory-service works on the calls it has received.
InventoryStep == /\ \E r \in Requests : Inventory!Commit(r) \/ Inventory!RequestLost(r)
                 /\ UNCHANGED <<orderVars, at, job>>

Next == \/ \E h \in Handlers : Checkout(h) \/ Complete(h) \/ Void(h) \/ HandlerDies(h)
        \/ InventoryStep

Spec == Init /\ [][Next]_vars

------------------------------------------------------------------------------
(* Properties                                                              *)

OrderRow == [status : {"none", "PENDING", "COMPLETED", "VOIDED"}, number : Nat]
InvoiceRow == [number : Nat, voided : BOOLEAN]

Places == {"idle", "reserve", "reserving", "number", "insert",
           "deduct", "deducting", "earn", "complete", "invoice number", "invoice",
           "release", "releasing", "void", "void invoice"} \cup Finished

Job == [order : Checkouts, line : 1..MaxLines, number : Nat]

\* Every variable has its type, those of the composed Inventory included.
TypeOK == /\ Inventory!TypeOK
          /\ orders \in [Checkouts -> OrderRow]
          /\ invoices \in [Checkouts -> InvoiceRow]
          /\ earned \in [Checkouts -> Nat]
          /\ at \in [Handlers -> Places]
          /\ job \in [Handlers -> Job]

\* Units of an item that order o sells.
Sold(o, i) ==
  SumFunctionOnSet([k \in 1..Len(Carts[o]) |-> IF Carts[o][k].item = i
                                              THEN Carts[o][k].quantity ELSE 0],
                   1..Len(Carts[o]))

\* Units of an item that a checkout without an order row holds: while it runs,
\* or for good when it threw.
Leaked(i) ==
  SumFunctionOnSet([r \in Requests |-> IF phase[r] = "done" /\ call[r].item = i
                                      THEN call[r].amount ELSE 0],
                   (Checkouts \ Created) \X (1..MaxLines))

\* Every order row has all its units reserved, and what else is reserved is what
\* checkouts without a row took: a checkout that fails half way never leaves an
\* order behind, and no order exists on units it failed to reserve.
StockAccounted ==
  \A i \in Items : stock[i].reserved =
    SumFunctionOnSet([o \in Checkouts |-> Sold(o, i)], Created) + Leaked(i)

OrderNumbering == INSTANCE Numbering
  WITH Documents <- Checkouts, number <- [o \in Checkouts |-> orders[o].number]

\* Order numbers are issued 1, 2, 3, ... without a gap or a duplicate, although each
\* comes from a count that is stale by the time it is used: refused inserts and dead
\* handlers waste no number.
OrderNumbersInSequence == OrderNumbering!Spec

InvoiceNumbering == INSTANCE Numbering
  WITH Documents <- Checkouts, number <- [o \in Checkouts |-> invoices[o].number]

\* Invoice numbers are issued in sequence too, under the same race, and an order
\* keeps the invoice number it got.
InvoiceNumbersInSequence == InvoiceNumbering!Spec

\* An order with an invoice was completed, and possibly voided since: no death of
\* the handler between its writes leaves an invoice for an order still open.
InvoicedOrdersAreClosed == \A o \in Invoiced : orders[o].status \in {"COMPLETED", "VOIDED"}

\* However many completions of an order race, at most one is answered with success.
OneCompletionAnswered ==
  \A g, h \in Completions :
    at[g] = "answered" /\ at[h] = "answered" /\ Order(g) = Order(h) => g = h

\* An answered completion has taken the order's units out of stock.
CompletedStockDeducted ==
  \A i \in Items :
    stock[i].quantity <= InitialStock[i]
      - SumFunctionOnSet([h \in Completions |-> Sold(Order(h), i)],
                         {h \in Completions : at[h] = "answered"})

Working(o) == {h \in Completions : Order(h) = o /\ at[h] \notin Finished \cup {"idle"}}

\* A COMPLETED order that no completion is still working on has its invoice.
CompletedIsInvoiced ==
  \A o \in Created : orders[o].status = "COMPLETED" /\ Working(o) = {} => o \in Invoiced
=============================================================================
