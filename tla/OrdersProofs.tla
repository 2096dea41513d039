---------------------------- MODULE OrdersProofs ----------------------------
(***************************************************************************)
(* Proofs about Orders, for every set of carts, of handlers and of deaths: *)
(* the numbers of orders and of invoices implement Numbering, an invoice   *)
(* is of a closed order and answers one completion, and the calls that the *)
(* orders make are steps of Inventory.                                     *)
(***************************************************************************)
EXTENDS Orders, SumTheorems

RowTypes == /\ orders \in [Checkouts -> OrderRow]
            /\ invoices \in [Checkouts -> InvoiceRow]
            /\ at \in [Handlers -> Places]
            /\ job \in [Handlers -> [order : Checkouts, line : Int, number : Nat]]

CheckoutPlaces == {"idle", "reserve", "reserving", "number", "insert", "answered", "threw"}
CompletionPlaces == {"idle", "deduct", "deducting", "earn", "complete",
                     "invoice number", "invoice"} \cup Finished
VoidPlaces == {"idle", "release", "releasing", "void", "void invoice"} \cup Finished

\* Each handler stays on its own path; a checkout has no row before its insert,
\* and the other two work on an order that has one.
Roles ==
  /\ \A h \in Checkouts : /\ at[h] \in CheckoutPlaces
                          /\ at[h] # "answered" => h \notin Created
  /\ \A h \in Completions : at[h] \in CompletionPlaces
  /\ \A h \in Voids : at[h] \in VoidPlaces
  /\ \A h \in Completions \cup Voids : at[h] # "idle" => Order(h) \in Created

OrderNumbers == {orders[o].number : o \in Created}
InvoiceNumbers == {invoices[o].number : o \in Invoiced}

\* The numbers are 1..n, and a number that was drawn is at most one more than the
\* count, however old it is: rows are never deleted.
Drawn == /\ OrderNumbers = 1..Cardinality(Created)
         /\ InvoiceNumbers = 1..Cardinality(Invoiced)
         /\ \A h \in Handlers :
              /\ at[h] = "insert" => job[h].number \in 1..(Cardinality(Created) + 1)
              /\ at[h] = "invoice" => job[h].number \in 1..(Cardinality(Invoiced) + 1)

NumberInv == RowTypes /\ Roles /\ Drawn

------------------------------------------------------------------------------

LEMMA FiniteRows ==
  /\ IsFiniteSet(Created) /\ Cardinality(Created) \in Nat
  /\ IsFiniteSet(Invoiced) /\ Cardinality(Invoiced) \in Nat
<1>1. IsFiniteSet(Checkouts)
  <2>1. Checkouts \in SUBSET Handlers
    BY DEF Handlers
  <2>2. QED BY <2>1, FS_Subset, HandlersAssumption
<1>2. Created \in SUBSET Checkouts /\ Invoiced \in SUBSET Checkouts
  BY DEF Created, Invoiced
<1>3. QED BY <1>1, <1>2, FS_Subset, FS_CardinalityType

OrderNumber == [o \in Checkouts |-> orders[o].number]
InvoiceNumber == [o \in Checkouts |-> invoices[o].number]

\* What Numbering!Next asks of the numbers before and after it.
TakenIn(f) == {f[o] : o \in Checkouts} \ {0}
Issued(f, g) == \E o \in Checkouts :
                  /\ f[o] = 0
                  /\ \E n \in TakenIn(f) \cup {0} : /\ TakenIn(f) = 1..n
                                               /\ g = [f EXCEPT ![o] = n + 1]

LEMMA OneMore ==
  ASSUME NEW f, NEW o \in Checkouts, f[o] = 0, NEW n \in Nat, TakenIn(f) = 1..n
  PROVE  Issued(f, [f EXCEPT ![o] = n + 1])
<1>1. n \in (1..n) \cup {0}
  OBVIOUS
<1>2. QED BY <1>1 DEF Issued

\* Rows that are not there carry 0, those that are there do not.
LEMMA TakenNumbers ==
  ASSUME NumberInv
  PROVE  /\ TakenIn(OrderNumber) = OrderNumbers /\ TakenIn(InvoiceNumber) = InvoiceNumbers
         /\ \A o \in Checkouts \ Created : OrderNumber[o] = 0
         /\ \A o \in Checkouts \ Invoiced : InvoiceNumber[o] = 0
<1>1. 0 \notin OrderNumbers /\ 0 \notin InvoiceNumbers
  BY FiniteRows DEF NumberInv, Drawn
<1>2. /\ \A o \in Checkouts \ Created : OrderNumber[o] = 0
      /\ \A o \in Checkouts \ Invoiced : InvoiceNumber[o] = 0
  BY DEF OrderNumber, InvoiceNumber, Created, Invoiced, NoRow, NoInvoice
<1>3. TakenIn(OrderNumber) = OrderNumbers
  BY <1>1, <1>2 DEF TakenIn, OrderNumber, OrderNumbers, Created
<1>4. TakenIn(InvoiceNumber) = InvoiceNumbers
  BY <1>1, <1>2 DEF TakenIn, InvoiceNumber, InvoiceNumbers, Invoiced
<1>5. QED BY <1>2, <1>3, <1>4

\* The number that follows 1..n is the only one that is not taken and at most n + 1.
LEMMA NextNumber ==
  ASSUME NEW n \in Nat, NEW k \in 1..(n + 1), k \notin 1..n
  PROVE  k = n + 1 /\ (1..n) \cup {k} = 1..(n + 1)
OBVIOUS

LEMMA Successor ==
  ASSUME NEW n \in Nat
  PROVE  n + 1 \in 1..(n + 1)
OBVIOUS

LEMMA InitNumberInv == Init => NumberInv
<1> SUFFICES ASSUME Init PROVE NumberInv
  OBVIOUS
<1>1. NoJob \in [order : Checkouts, line : Int, number : Nat]
  BY HandlersAssumption DEF NoJob
<1>2. RowTypes
  BY <1>1 DEF Init, RowTypes, NoRow, OrderRow, NoInvoice, InvoiceRow, Places
<1>3. Created = {} /\ Invoiced = {}
  BY DEF Init, Created, Invoiced
<1>4. Roles
  BY <1>3 DEF Init, Roles, CheckoutPlaces, CompletionPlaces, VoidPlaces, Handlers
<1>5. Drawn
  BY <1>3, FS_EmptySet DEF Init, Drawn, OrderNumbers, InvoiceNumbers
<1>6. QED BY <1>2, <1>4, <1>5 DEF NumberInv

------------------------------------------------------------------------------
(* Steps that draw no number and insert no row.                            *)

\* Handler h goes to a place of its path; rows of orders keep their numbers.
Quiet(h, p) ==
  /\ at' = [at EXCEPT ![h] = p]
  /\ p \notin {"idle", "insert", "invoice"}
  /\ h \in Checkouts => p \in CheckoutPlaces \ {"answered"} /\ at[h] # "answered"
  /\ h \in Completions => p \in CompletionPlaces
  /\ h \in Voids => p \in VoidPlaces
  /\ job' \in [Handlers -> [order : Checkouts, line : Int, number : Nat]]
  /\ \A g \in Handlers \ {h} : job'[g] = job[g]
  /\ h \notin Checkouts => job'[h].order \in Created

\* The order and invoice tables keep their rows and the numbers in them.
SameRows ==
  /\ orders' \in [Checkouts -> OrderRow]
  /\ invoices' \in [Checkouts -> InvoiceRow]
  /\ Created' = Created /\ Invoiced' = Invoiced
  /\ \A o \in Created : orders'[o].number = orders[o].number
  /\ \A o \in Invoiced : invoices'[o].number = invoices[o].number

LEMMA RolesNext ==
  ASSUME \A g \in Checkouts : at'[g] \in CheckoutPlaces,
         \A g \in Checkouts : at'[g] # "answered" => g \notin Created',
         \A g \in Completions : at'[g] \in CompletionPlaces,
         \A g \in Voids : at'[g] \in VoidPlaces,
         \A g \in Completions \cup Voids : at'[g] # "idle" => job'[g].order \in Created'
  PROVE  Roles'
BY DEF Roles, Order

LEMMA QuietStep ==
  ASSUME NumberInv, NEW h \in Handlers, NEW p \in Places, Quiet(h, p), SameRows
  PROVE  NumberInv'
<1>1. RowTypes'
  BY DEF NumberInv, RowTypes, Quiet, SameRows
<1>2. Roles'
  <2>1. \A g \in Handlers : at'[g] = IF g = h THEN p ELSE at[g]
    BY DEF NumberInv, RowTypes, Quiet
  <2>2. \A g \in Checkouts : at'[g] \in CheckoutPlaces
    BY <2>1 DEF NumberInv, Roles, Quiet, Handlers
  <2>3. \A g \in Checkouts : at'[g] # "answered" => g \notin Created'
    BY <2>1 DEF NumberInv, Roles, Quiet, SameRows, Handlers
  <2>4. \A g \in Completions \cup Voids : at'[g] \in IF g \in Completions
                                        THEN CompletionPlaces ELSE VoidPlaces
    BY <2>1, HandlersAssumption DEF NumberInv, Roles, Quiet, Handlers
  <2>5. \A g \in Completions \cup Voids : at'[g] # "idle" => job'[g].order \in Created'
    BY <2>1, HandlersAssumption DEF NumberInv, Roles, Quiet, SameRows, Handlers, Order
  <2>6. QED BY <2>2, <2>3, <2>4, <2>5, HandlersAssumption DEF Roles, Order
<1>3. OrderNumbers' = OrderNumbers /\ InvoiceNumbers' = InvoiceNumbers
  BY DEF SameRows, OrderNumbers, InvoiceNumbers
<1>4. Drawn'
  BY <1>3 DEF NumberInv, RowTypes, Drawn, Quiet, SameRows
<1>5. QED BY <1>1, <1>2, <1>4 DEF NumberInv

JobType == [order : Checkouts, line : Int, number : Nat]

LEMMA UnchangedRows ==
  ASSUME NumberInv, UNCHANGED <<orders, invoices>>
  PROVE  SameRows
BY DEF NumberInv, RowTypes, SameRows, Created, Invoiced

LEMMA StatusChange ==
  ASSUME NumberInv, NEW o \in Created, NEW s \in {"COMPLETED", "VOIDED"},
         orders' = [orders EXCEPT ![o].status = s], UNCHANGED invoices
  PROVE  SameRows
<1>1. o \in Checkouts
  BY DEF Created
<1>2. orders' \in [Checkouts -> OrderRow]
  BY <1>1 DEF NumberInv, RowTypes, OrderRow
<1>3. \A c \in Checkouts : /\ orders'[c].number = orders[c].number
                          /\ (orders'[c] = NoRow) <=> (orders[c] = NoRow)
  <2>1. orders[o] # NoRow /\ orders'[o].status = s
    BY <1>1 DEF NumberInv, RowTypes, OrderRow, Created
  <2>2. orders'[o] # NoRow
    BY <2>1 DEF NoRow
  <2>3. QED BY <1>1, <2>1, <2>2 DEF NumberInv, RowTypes, OrderRow
<1>4. Created' = Created
  BY <1>3 DEF Created
<1>5. QED BY <1>2, <1>3, <1>4 DEF NumberInv, RowTypes, SameRows, Created, Invoiced

LEMMA NextLineStep ==
  ASSUME NumberInv, NEW h \in Handlers, NEW loop, NEW after, NextLine(h, loop, after)
  PROVE  /\ at' = [at EXCEPT ![h] = loop] \/ at' = [at EXCEPT ![h] = after]
         /\ job' \in [Handlers -> JobType]
         /\ \A g \in Handlers \ {h} : job'[g] = job[g]
         /\ job'[h].order = job[h].order
<1>1. job \in [Handlers -> JobType] /\ job[h] \in JobType
  BY DEF NumberInv, RowTypes, JobType
<1>2. CASE job' = job
  BY <1>1, <1>2 DEF NextLine, GoTo
<1>3. CASE job' = [job EXCEPT ![h].line = @ + 1]
  BY <1>1, <1>3 DEF NextLine, GoTo, JobType
<1>4. QED BY <1>2, <1>3 DEF NextLine

LEMMA CheckoutQuiet ==
  ASSUME NumberInv, NEW h \in Handlers,
         BeginCheckout(h) \/ ReserveLine(h) \/ LineReserved(h) \/ ReserveThrows(h)
  PROVE  SameRows /\ \E p \in Places : Quiet(h, p)
<1>1. SameRows
  BY UnchangedRows DEF BeginCheckout, ReserveLine, LineReserved, ReserveThrows, orderVars
<1>2. job \in [Handlers -> JobType]
  BY DEF NumberInv, RowTypes, JobType
<1>3. h \in Checkouts
  BY DEF NumberInv, Roles, Handlers, CompletionPlaces, VoidPlaces, Finished,
         BeginCheckout, ReserveLine, LineReserved, ReserveThrows
<1>4. h \notin Completions /\ h \notin Voids
  BY <1>3, HandlersAssumption
<1> DEFINE Went(p) == /\ at' = [at EXCEPT ![h] = p]
                      /\ job' \in [Handlers -> JobType]
                      /\ \A g \in Handlers \ {h} : job'[g] = job[g]
<1>5. \E p \in {"reserve", "reserving", "number", "threw"} : Went(p)
  <2>1. CASE BeginCheckout(h)
    BY <2>1, <1>2, <1>3 DEF BeginCheckout, GoTo, JobType
  <2>2. CASE ReserveLine(h)
    BY <2>2, <1>2 DEF ReserveLine, GoTo
  <2>3. CASE LineReserved(h)
    BY <2>3, NextLineStep DEF LineReserved
  <2>4. CASE ReserveThrows(h)
    BY <2>4, <1>2 DEF ReserveThrows, GoTo
  <2>5. QED BY <2>1, <2>2, <2>3, <2>4
<1>6. at[h] # "answered"
  BY DEF BeginCheckout, ReserveLine, LineReserved, ReserveThrows
<1>7. \E p \in {"reserve", "reserving", "number", "threw"} : Quiet(h, p)
  BY <1>3, <1>4, <1>5, <1>6 DEF Quiet, CheckoutPlaces, JobType
<1>8. QED BY <1>1, <1>7 DEF Places, Finished

LEMMA TakesOrder ==
  ASSUME NEW h \in Handlers, NEW o \in Created, job \in [Handlers -> JobType],
         job' = [job EXCEPT ![h].order = o]
  PROVE  /\ job' \in [Handlers -> JobType] /\ job'[h].order = o
         /\ \A g \in Handlers \ {h} : job'[g] = job[g]
<1>1. o \in Checkouts /\ job[h] \in JobType
  BY DEF Created
<1>2. job'[h] = [job[h] EXCEPT !.order = o]
  OBVIOUS
<1>3. job'[h] \in JobType /\ job'[h].order = o
  BY <1>1, <1>2 DEF JobType
<1>4. QED BY <1>3

LEMMA CompletionQuiet ==
  ASSUME NumberInv, NEW h \in Handlers,
         \/ \E o \in Checkouts : BeginComplete(h, o)
         \/ DeductLine(h) \/ LineDeducted(h) \/ AwardPoints(h) \/ MarkCompleted(h)
  PROVE  SameRows /\ \E p \in Places : Quiet(h, p)
<1>1. job \in [Handlers -> JobType]
  BY DEF NumberInv, RowTypes, JobType
<1>2. h \in Completions
  BY DEF NumberInv, Roles, Handlers, CheckoutPlaces, VoidPlaces, Finished,
         BeginComplete, DeductLine, LineDeducted, AwardPoints, MarkCompleted
<1>3. h \notin Checkouts /\ h \notin Voids
  BY <1>2, HandlersAssumption
<1>4. at[h] # "idle" => job[h].order \in Created
  BY <1>2 DEF NumberInv, Roles, Order
<1>5. SameRows
  <2>1. CASE MarkCompleted(h)
    BY <2>1, <1>4, StatusChange DEF MarkCompleted, Order
  <2>2. CASE UNCHANGED <<orders, invoices>>
    BY <2>2, UnchangedRows
  <2>3. QED BY <2>1, <2>2 DEF BeginComplete, DeductLine, LineDeducted, AwardPoints, orderVars
<1> DEFINE Went(p) == /\ at' = [at EXCEPT ![h] = p]
                      /\ job' \in [Handlers -> JobType]
                      /\ \A g \in Handlers \ {h} : job'[g] = job[g]
                      /\ job'[h].order \in Created
<1> DEFINE Goes == \E p \in {"deduct", "deducting", "earn", "complete", "invoice number", "refused"} :
                      Went(p)
<1>6. Goes
  <2>1. ASSUME NEW o \in Checkouts, BeginComplete(h, o)
        PROVE  Goes
    <3>1. job' \in [Handlers -> JobType] /\ job'[h].order \in Created
                                       /\ \A g \in Handlers \ {h} : job'[g] = job[g]
      BY <2>1, <1>1, TakesOrder DEF BeginComplete
    <3>2. at' = [at EXCEPT ![h] = "deduct"] \/ at' = [at EXCEPT ![h] = "refused"]
      BY <2>1 DEF BeginComplete, GoTo
    <3>3. QED BY <3>1, <3>2
  <2>2. CASE DeductLine(h)
    BY <2>2, <1>1, <1>4 DEF DeductLine, GoTo
  <2>3. CASE LineDeducted(h)
    <3>1. NextLine(h, "deduct", "earn") /\ at[h] # "idle"
      BY <2>3 DEF LineDeducted
    <3>2. job' \in [Handlers -> JobType] /\ job'[h].order \in Created
                                       /\ \A g \in Handlers \ {h} : job'[g] = job[g]
      BY <3>1, <1>4, NextLineStep
    <3>3. at' = [at EXCEPT ![h] = "deduct"] \/ at' = [at EXCEPT ![h] = "earn"]
      BY <3>1, NextLineStep
    <3>4. QED BY <3>2, <3>3
  <2>4. CASE AwardPoints(h)
    BY <2>4, <1>1, <1>4 DEF AwardPoints, GoTo
  <2>5. CASE MarkCompleted(h)
    BY <2>5, <1>1, <1>4 DEF MarkCompleted, GoTo
  <2> HIDE DEF Goes
  <2>6. QED BY <2>1, <2>2, <2>3, <2>4, <2>5
<1>7. \E p \in {"deduct", "deducting", "earn", "complete", "invoice number", "refused"} :
        Quiet(h, p)
  BY <1>2, <1>3, <1>6 DEF Quiet, CompletionPlaces, Finished, JobType
<1>8. QED BY <1>5, <1>7 DEF Places, Finished

LEMMA VoidingInvoice ==
  ASSUME NumberInv, NEW o \in Invoiced, UNCHANGED orders,
         invoices' = [invoices EXCEPT ![o].voided = TRUE]
  PROVE  SameRows
<1>1. o \in Checkouts
  BY DEF Invoiced
<1>2. invoices' \in [Checkouts -> InvoiceRow]
  BY <1>1 DEF NumberInv, RowTypes, InvoiceRow
<1>3. \A c \in Checkouts \ {o} : invoices'[c] = invoices[c]
  BY DEF NumberInv, RowTypes
<1>4. invoices'[o].number = invoices[o].number /\ invoices'[o].voided
  BY <1>1 DEF NumberInv, RowTypes, InvoiceRow
<1>5. invoices'[o] # NoInvoice
  BY <1>4 DEF NoInvoice
<1>6. Invoiced' = Invoiced
  BY <1>1, <1>3, <1>5 DEF Invoiced
<1>7. QED BY <1>2, <1>3, <1>4, <1>6 DEF NumberInv, RowTypes, SameRows, Created, Invoiced

LEMMA VoidQuiet ==
  ASSUME NumberInv, NEW h \in Handlers, Void(h)
  PROVE  SameRows /\ \E p \in Places : Quiet(h, p)
<1>1. job \in [Handlers -> JobType]
  BY DEF NumberInv, RowTypes, JobType
<1>2. h \in Voids
  BY DEF NumberInv, Roles, Handlers, CheckoutPlaces, CompletionPlaces, Finished,
         Void, BeginVoid, ReleaseLine, LineReleased, MarkVoided, VoidInvoice
<1>3. h \notin Checkouts /\ h \notin Completions
  BY <1>2, HandlersAssumption
<1>4. at[h] # "idle" => job[h].order \in Created
  BY <1>2 DEF NumberInv, Roles, Order
<1>5. SameRows
  <2>1. CASE MarkVoided(h)
    BY <2>1, <1>4, StatusChange DEF MarkVoided, Order
  <2>2. CASE VoidInvoice(h)
    BY <2>2, VoidingInvoice, UnchangedRows DEF VoidInvoice
  <2>3. CASE UNCHANGED <<orders, invoices>>
    BY <2>3, UnchangedRows
  <2>4. QED BY <2>1, <2>2, <2>3 DEF Void, BeginVoid, ReleaseLine, LineReleased, orderVars
<1> DEFINE Went(p) == /\ at' = [at EXCEPT ![h] = p]
                      /\ job' \in [Handlers -> JobType]
                      /\ \A g \in Handlers \ {h} : job'[g] = job[g]
                      /\ job'[h].order \in Created
<1> DEFINE Goes == \E p \in {"release", "releasing", "void", "void invoice", "answered", "refused"} :
                      Went(p)
<1>6. Goes
  <2>1. ASSUME NEW o \in Checkouts, BeginVoid(h, o)
        PROVE  Goes
    <3>1. job' \in [Handlers -> JobType] /\ job'[h].order \in Created
                                       /\ \A g \in Handlers \ {h} : job'[g] = job[g]
      BY <2>1, <1>1, TakesOrder DEF BeginVoid
    <3>2. \/ at' = [at EXCEPT ![h] = "refused"]
          \/ at' = [at EXCEPT ![h] = "release"]
          \/ at' = [at EXCEPT ![h] = "void"]
      BY <2>1 DEF BeginVoid, GoTo
    <3>3. QED BY <3>1, <3>2
  <2>2. CASE ReleaseLine(h)
    BY <2>2, <1>1, <1>4 DEF ReleaseLine, GoTo
  <2>3. CASE LineReleased(h)
    <3>1. NextLine(h, "release", "void") /\ at[h] # "idle"
      BY <2>3 DEF LineReleased
    <3>2. job' \in [Handlers -> JobType] /\ job'[h].order \in Created
                                       /\ \A g \in Handlers \ {h} : job'[g] = job[g]
      BY <3>1, <1>4, NextLineStep
    <3>3. at' = [at EXCEPT ![h] = "release"] \/ at' = [at EXCEPT ![h] = "void"]
      BY <3>1, NextLineStep
    <3>4. QED BY <3>2, <3>3
  <2>4. CASE MarkVoided(h)
    BY <2>4, <1>1, <1>4 DEF MarkVoided, GoTo
  <2>5. CASE VoidInvoice(h)
    BY <2>5, <1>1, <1>4 DEF VoidInvoice, GoTo
  <2> HIDE DEF Goes
  <2>6. QED BY <2>1, <2>2, <2>3, <2>4, <2>5 DEF Void
<1>7. \E p \in {"release", "releasing", "void", "void invoice", "answered", "refused"} :
        Quiet(h, p)
  BY <1>2, <1>3, <1>6 DEF Quiet, VoidPlaces, Finished, JobType
<1>8. QED BY <1>5, <1>7 DEF Places, Finished

\* A handler that throws, whatever it was doing: its effects stay.
LEMMA ThrowQuiet ==
  ASSUME NumberInv, NEW h \in Handlers, at[h] \notin Finished \cup {"idle"},
         GoTo(h, "threw"), UNCHANGED <<orders, invoices, job>>
  PROVE  SameRows /\ \E p \in Places : Quiet(h, p)
<1>1. SameRows
  BY UnchangedRows
<1>2. Quiet(h, "threw")
  BY DEF GoTo, Finished, Quiet, NumberInv, RowTypes, Roles, Order, Handlers,
         CheckoutPlaces, CompletionPlaces, VoidPlaces
<1>3. QED BY <1>1, <1>2 DEF Places, Finished

------------------------------------------------------------------------------
(* Steps that draw a number: the count plus one, at the moment of the draw.*)

LEMMA DrawStep ==
  ASSUME NumberInv, NEW h \in Handlers, NEW k \in Nat,
         job' = [job EXCEPT ![h].number = k], UNCHANGED <<orders, invoices>>,
         \/ at[h] = "number" /\ GoTo(h, "insert") /\ k = Cardinality(Created) + 1
         \/ at[h] = "invoice number" /\ GoTo(h, "invoice") /\ k = Cardinality(Invoiced) + 1
  PROVE  NumberInv'
<1>1. job \in [Handlers -> JobType] /\ job[h] \in JobType /\ at \in [Handlers -> Places]
  BY DEF NumberInv, RowTypes, JobType
<1>2. /\ job' \in [Handlers -> JobType]
      /\ job'[h].number = k /\ job'[h].order = job[h].order
      /\ \A g \in Handlers \ {h} : job'[g] = job[g]
  BY <1>1 DEF JobType
<1>3. PICK p \in {"insert", "invoice"} :
        /\ at' = [at EXCEPT ![h] = p]
        /\ p = "insert" => at[h] = "number" /\ k = Cardinality(Created) + 1
        /\ p = "invoice" => at[h] = "invoice number" /\ k = Cardinality(Invoiced) + 1
  BY DEF GoTo
<1>4. \A g \in Handlers : at'[g] = IF g = h THEN p ELSE at[g]
  BY <1>1, <1>3
<1>5. RowTypes'
  BY <1>1, <1>2, <1>3 DEF NumberInv, RowTypes, JobType, Places
<1>6. Created' = Created /\ Invoiced' = Invoiced
  BY DEF Created, Invoiced
<1>7. Roles'
  <2>1. at[h] \in {"number", "invoice number"}
    BY <1>3
  <2>2. h \in Checkouts => p = "insert"
    BY <1>3, <2>1 DEF NumberInv, Roles, CheckoutPlaces
  <2>3. h \in Completions => p = "invoice"
    BY <1>3, <2>1 DEF NumberInv, Roles, CompletionPlaces, Finished
  <2>4. h \notin Voids
    BY <2>1 DEF NumberInv, Roles, VoidPlaces, Finished
  <2>5. \A g \in Checkouts : at'[g] \in CheckoutPlaces
    BY <1>4, <2>2 DEF NumberInv, Roles, CheckoutPlaces, Handlers
  <2>11. \A g \in Checkouts : at'[g] # "answered" => g \notin Created'
    BY <1>4, <1>6, <2>1 DEF NumberInv, Roles, Handlers
  <2>6. \A g \in Completions : at'[g] \in CompletionPlaces
    BY <1>4, <2>3 DEF NumberInv, Roles, CompletionPlaces, Handlers
  <2>7. \A g \in Voids : at'[g] \in VoidPlaces
    BY <1>4, <2>4 DEF NumberInv, Roles, Handlers
  <2>8. \A g \in Completions \cup Voids : at'[g] # "idle" => job'[g].order \in Created
    BY <1>2, <1>4, <2>1 DEF NumberInv, Roles, Order, Handlers
  <2>9. \A g \in Completions \cup Voids : at'[g] # "idle" => job'[g].order \in Created'
    BY <1>6, <2>8
  <2>10. QED BY <2>5, <2>11, <2>6, <2>7, <2>9, RolesNext
<1>8. OrderNumbers' = OrderNumbers /\ InvoiceNumbers' = InvoiceNumbers
  BY <1>6 DEF OrderNumbers, InvoiceNumbers
<1>9. Drawn'
  <2>1. ASSUME NEW g \in Handlers
        PROVE  /\ at'[g] = "insert" => job'[g].number \in 1..(Cardinality(Created') + 1)
               /\ at'[g] = "invoice" => job'[g].number \in 1..(Cardinality(Invoiced') + 1)
    <3>1. CASE g = h
      <4>1. k \in 1..k
        <5>1. CASE p = "insert"
          BY <5>1, <1>3, FiniteRows, Successor
        <5>2. CASE p = "invoice"
          BY <5>2, <1>3, FiniteRows, Successor
        <5>3. QED BY <5>1, <5>2
      <4>2. at'[g] = p /\ job'[g].number = k
        BY <3>1, <1>2, <1>4
      <4>3. p = "insert" => k = Cardinality(Created') + 1
        BY <1>3, <1>6
      <4>4. p = "invoice" => k = Cardinality(Invoiced') + 1
        BY <1>3, <1>6
      <4>5. QED BY <4>1, <4>2, <4>3, <4>4
    <3>2. CASE g # h
      BY <3>2, <1>2, <1>4, <1>6 DEF NumberInv, Drawn
    <3>3. QED BY <3>1, <3>2
  <2>3. OrderNumbers' = 1..Cardinality(Created') /\ InvoiceNumbers' = 1..Cardinality(Invoiced')
    BY <1>6, <1>8 DEF NumberInv, Drawn
  <2>4. QED BY <2>1, <2>3 DEF Drawn
<1>10. QED BY <1>5, <1>7, <1>9 DEF NumberInv

------------------------------------------------------------------------------
(* Steps that insert a row.                                                *)

LEMMA InsertOrderStep ==
  ASSUME NumberInv, NEW h \in Handlers, InsertOrder(h),
         ~ \E o \in Created : orders[o].number = job[h].number
  PROVE  /\ NumberInv'
         /\ Issued(OrderNumber, OrderNumber')
<1> DEFINE n == Cardinality(Created)
           k == job[h].number
<1>1. /\ at[h] = "insert" /\ at' = [at EXCEPT ![h] = "answered"]
      /\ orders' = [orders EXCEPT ![h] = [status |-> "PENDING", number |-> k]]
      /\ UNCHANGED <<invoices, job>>
  BY DEF InsertOrder, GoTo
<1>2. h \in Checkouts /\ h \notin Created
  BY <1>1 DEF NumberInv, Roles, Handlers, CompletionPlaces, VoidPlaces, Finished
<1>3. n \in Nat /\ k \in 1..(n + 1) /\ k \notin 1..n
  BY <1>1, FiniteRows DEF NumberInv, Drawn, OrderNumbers
<1>4. k = n + 1 /\ (1..n) \cup {k} = 1..(n + 1)
  BY <1>3, NextNumber
<1>5. /\ orders' \in [Checkouts -> OrderRow]
      /\ orders'[h] = [status |-> "PENDING", number |-> k]
      /\ \A o \in Checkouts \ {h} : orders'[o] = orders[o]
  BY <1>1, <1>2, <1>3 DEF NumberInv, RowTypes, OrderRow
<1>6. orders'[h] # NoRow /\ orders'[h].number = k
  BY <1>5 DEF NoRow
<1>7. Created' = Created \cup {h} /\ Invoiced' = Invoiced
  BY <1>1, <1>2, <1>5, <1>6 DEF Created, Invoiced
<1>8. Cardinality(Created') = n + 1
  BY <1>2, <1>7, FiniteRows, FS_AddElement
<1>9. OrderNumbers' = OrderNumbers \cup {k}
  BY <1>2, <1>5, <1>6, <1>7 DEF OrderNumbers, Created
<1>10. OrderNumbers = 1..n
  BY DEF NumberInv, Drawn
<1>11. InvoiceNumbers' = InvoiceNumbers
  BY <1>1, <1>7 DEF InvoiceNumbers
<1>12. \A g \in Handlers : at'[g] = IF g = h THEN "answered" ELSE at[g]
  BY <1>1 DEF NumberInv, RowTypes
<1>13. RowTypes'
  BY <1>1, <1>5 DEF NumberInv, RowTypes, Places, Finished
<1>14. Roles'
  <2>1. \A g \in Checkouts : at'[g] \in CheckoutPlaces
    BY <1>12 DEF NumberInv, Roles, CheckoutPlaces, Handlers
  <2>7. \A g \in Checkouts : at'[g] # "answered" => g \notin Created'
    BY <1>7, <1>12 DEF NumberInv, Roles, Handlers
  <2>2. \A g \in Completions \cup Voids : at'[g] = at[g] /\ job'[g] = job[g]
    BY <1>1, <1>2, <1>12, HandlersAssumption DEF Handlers
  <2>3. \A g \in Completions : at'[g] \in CompletionPlaces
    BY <2>2 DEF NumberInv, Roles
  <2>4. \A g \in Voids : at'[g] \in VoidPlaces
    BY <2>2 DEF NumberInv, Roles
  <2>5. \A g \in Completions \cup Voids : at'[g] # "idle" => job'[g].order \in Created'
    BY <1>7, <2>2 DEF NumberInv, Roles, Order
  <2>6. QED BY <2>1, <2>7, <2>3, <2>4, <2>5, RolesNext
<1>15. Drawn'
  <2>1. \A g \in Handlers : at'[g] = "insert" =>
                             job'[g].number \in 1..(Cardinality(Created') + 1)
    BY <1>1, <1>3, <1>8, <1>12 DEF NumberInv, Drawn
  <2>2. \A g \in Handlers : at'[g] = "invoice" =>
                             job'[g].number \in 1..(Cardinality(Invoiced') + 1)
    BY <1>1, <1>7, <1>12 DEF NumberInv, Drawn
  <2>3. OrderNumbers' = 1..Cardinality(Created')
    BY <1>4, <1>8, <1>9, <1>10
  <2>4. InvoiceNumbers' = 1..Cardinality(Invoiced')
    BY <1>7, <1>11 DEF NumberInv, Drawn
  <2>5. QED BY <2>1, <2>2, <2>3, <2>4 DEF Drawn
<1>16. Issued(OrderNumber, OrderNumber')
  <2>1. OrderNumber' = [OrderNumber EXCEPT ![h] = n + 1]
    BY <1>2, <1>4, <1>5, <1>6 DEF OrderNumber
  <2>2. OrderNumber[h] = 0 /\ TakenIn(OrderNumber) = 1..n
    BY <1>2, <1>10, TakenNumbers
  <2>3. QED BY <1>2, <1>3, <2>1, <2>2, OneMore
<1>17. QED BY <1>13, <1>14, <1>15, <1>16 DEF NumberInv

LEMMA InsertInvoiceStep ==
  ASSUME NumberInv, NEW h \in Handlers, InsertInvoice(h), Order(h) \notin Invoiced,
         ~ \E o \in Invoiced : invoices[o].number = job[h].number
  PROVE  /\ NumberInv'
         /\ Issued(InvoiceNumber, InvoiceNumber')
<1> DEFINE n == Cardinality(Invoiced)
           k == job[h].number
<1> PICK o : o = Order(h)
  OBVIOUS
<1>1. /\ at[h] = "invoice" /\ at' = [at EXCEPT ![h] = "answered"]
      /\ invoices' = [invoices EXCEPT ![o] = [number |-> k, voided |-> FALSE]]
      /\ UNCHANGED <<orders, job>>
  BY DEF InsertInvoice, GoTo
<1>2. h \in Completions
  BY <1>1 DEF NumberInv, Roles, Handlers, CheckoutPlaces, VoidPlaces, Finished
<1>3. o \in Checkouts /\ o \notin Invoiced
  BY DEF NumberInv, RowTypes, Order
<1>4. n \in Nat /\ k \in 1..(n + 1) /\ k \notin 1..n
  BY <1>1, FiniteRows DEF NumberInv, Drawn, InvoiceNumbers
<1>5. k = n + 1 /\ (1..n) \cup {k} = 1..(n + 1)
  BY <1>4, NextNumber
<1>6. /\ invoices' \in [Checkouts -> InvoiceRow]
      /\ invoices'[o] = [number |-> k, voided |-> FALSE]
      /\ \A c \in Checkouts \ {o} : invoices'[c] = invoices[c]
  BY <1>1, <1>3, <1>4 DEF NumberInv, RowTypes, InvoiceRow
<1>7. invoices'[o] # NoInvoice /\ invoices'[o].number = k
  BY <1>4, <1>6 DEF NoInvoice
<1>8. Invoiced' = Invoiced \cup {o} /\ Created' = Created
  BY <1>1, <1>3, <1>6, <1>7 DEF Created, Invoiced
<1>9. Cardinality(Invoiced') = n + 1
  BY <1>3, <1>8, FiniteRows, FS_AddElement
<1>10. InvoiceNumbers' = InvoiceNumbers \cup {k}
  BY <1>3, <1>6, <1>7, <1>8 DEF InvoiceNumbers, Invoiced
<1>11. InvoiceNumbers = 1..n
  BY DEF NumberInv, Drawn
<1>12. OrderNumbers' = OrderNumbers
  BY <1>1, <1>8 DEF OrderNumbers
<1>13. \A g \in Handlers : at'[g] = IF g = h THEN "answered" ELSE at[g]
  BY <1>1 DEF NumberInv, RowTypes
<1>14. RowTypes'
  BY <1>1, <1>6 DEF NumberInv, RowTypes, Places, Finished
<1>15. Roles'
  <2>1. h \notin Checkouts /\ h \notin Voids
    BY <1>2, HandlersAssumption
  <2>2. \A g \in Checkouts \cup Voids : at'[g] = at[g]
    BY <1>13, <2>1 DEF Handlers
  <2>3. \A g \in Completions : at'[g] \in CompletionPlaces
    BY <1>13 DEF NumberInv, Roles, CompletionPlaces, Finished, Handlers
  <2>4. \A g \in Completions \cup Voids : at'[g] # "idle" => Order(g) \in Created
    BY <1>1, <1>13 DEF NumberInv, Roles, Handlers
  <2>5. QED BY <1>1, <1>8, <2>2, <2>3, <2>4 DEF NumberInv, Roles, Order
<1>16. Drawn'
  <2>1. \A g \in Handlers : at'[g] = "invoice" =>
                             job'[g].number \in 1..(Cardinality(Invoiced') + 1)
    BY <1>1, <1>4, <1>9, <1>13 DEF NumberInv, Drawn
  <2>2. \A g \in Handlers : at'[g] = "insert" =>
                             job'[g].number \in 1..(Cardinality(Created') + 1)
    BY <1>1, <1>8, <1>13 DEF NumberInv, Drawn
  <2>3. InvoiceNumbers' = 1..Cardinality(Invoiced')
    BY <1>5, <1>9, <1>10, <1>11
  <2>4. OrderNumbers' = 1..Cardinality(Created')
    BY <1>8, <1>12 DEF NumberInv, Drawn
  <2>5. QED BY <2>1, <2>2, <2>3, <2>4 DEF Drawn
<1>17. Issued(InvoiceNumber, InvoiceNumber')
  <2>1. InvoiceNumber' = [InvoiceNumber EXCEPT ![o] = n + 1]
    BY <1>3, <1>5, <1>6, <1>7 DEF InvoiceNumber
  <2>2. InvoiceNumber[o] = 0 /\ TakenIn(InvoiceNumber) = 1..n
    BY <1>3, <1>11, TakenNumbers
  <2>3. QED BY <1>3, <1>4, <2>1, <2>2, OneMore
<1>18. QED BY <1>14, <1>15, <1>16, <1>17 DEF NumberInv

------------------------------------------------------------------------------
(* One step of the system, whichever it is.                                *)

\* A step issues the next order number, the next invoice number, or neither.
Numbers == /\ OrderNumber' = OrderNumber \/ Issued(OrderNumber, OrderNumber')
           /\ InvoiceNumber' = InvoiceNumber \/ Issued(InvoiceNumber, InvoiceNumber')

LEMMA SameNumbers ==
  ASSUME SameRows
  PROVE  Numbers
BY DEF SameRows, Numbers, OrderNumber, InvoiceNumber, Created, Invoiced

LEMMA QuietNext ==
  ASSUME NumberInv, NEW h \in Handlers, SameRows, \E p \in Places : Quiet(h, p)
  PROVE  NumberInv' /\ Numbers
BY QuietStep, SameNumbers

LEMMA DrawNext ==
  ASSUME NumberInv, NEW h \in Handlers, GenerateOrderNumber(h) \/ GenerateInvoiceNumber(h)
  PROVE  NumberInv' /\ Numbers
<1>1. Cardinality(Created) + 1 \in Nat /\ Cardinality(Invoiced) + 1 \in Nat
  BY FiniteRows
<1>2. NumberInv'
  BY <1>1, DrawStep DEF GenerateOrderNumber, GenerateInvoiceNumber, orderVars
<1>3. UNCHANGED <<orders, invoices>>
  BY DEF GenerateOrderNumber, GenerateInvoiceNumber, orderVars
<1>4. QED BY <1>2, <1>3, UnchangedRows, SameNumbers

LEMMA InsertOrderNext ==
  ASSUME NumberInv, NEW h \in Handlers, InsertOrder(h)
  PROVE  NumberInv' /\ Numbers
<1>1. CASE \E o \in Created : orders[o].number = job[h].number
  <2>1. /\ at[h] \notin Finished \cup {"idle"} /\ GoTo(h, "threw")
        /\ UNCHANGED <<orders, invoices, job>>
    BY <1>1 DEF InsertOrder, Finished
  <2>2. QED BY <2>1, ThrowQuiet, QuietNext
<1>2. CASE ~ \E o \in Created : orders[o].number = job[h].number
  <2>1. InvoiceNumber' = InvoiceNumber
    BY <1>2 DEF InsertOrder, InvoiceNumber
  <2>2. QED BY <1>2, <2>1, InsertOrderStep DEF Numbers
<1>3. QED BY <1>1, <1>2

LEMMA InsertInvoiceNext ==
  ASSUME NumberInv, NEW h \in Handlers, InsertInvoice(h)
  PROVE  NumberInv' /\ Numbers
<1> DEFINE Taken == \/ Order(h) \in Invoiced
                    \/ \E o \in Invoiced : invoices[o].number = job[h].number
<1>1. CASE Taken
  <2>1. /\ at[h] \notin Finished \cup {"idle"} /\ GoTo(h, "threw")
        /\ UNCHANGED <<orders, invoices, job>>
    BY <1>1 DEF InsertInvoice, Finished
  <2>2. QED BY <2>1, ThrowQuiet, QuietNext
<1>2. CASE ~ Taken
  <2>1. OrderNumber' = OrderNumber
    BY <1>2 DEF InsertInvoice, OrderNumber
  <2>2. QED BY <1>2, <2>1, InsertInvoiceStep DEF Numbers
<1>3. QED BY <1>1, <1>2

LEMMA UnchangedNext ==
  ASSUME NumberInv, UNCHANGED <<orders, invoices, at, job>>
  PROVE  NumberInv' /\ Numbers
<1>1. Created' = Created /\ Invoiced' = Invoiced
  BY DEF Created, Invoiced
<1>2. /\ OrderNumbers' = OrderNumbers /\ InvoiceNumbers' = InvoiceNumbers
      /\ OrderNumber' = OrderNumber /\ InvoiceNumber' = InvoiceNumber
  BY <1>1 DEF OrderNumbers, InvoiceNumbers, OrderNumber, InvoiceNumber
<1>3. RowTypes'
  BY DEF NumberInv, RowTypes
<1>4. Roles'
  BY <1>1 DEF NumberInv, Roles, Order
<1>5. Drawn'
  BY <1>1, <1>2 DEF NumberInv, Drawn
<1>6. QED BY <1>2, <1>3, <1>4, <1>5 DEF NumberInv, Numbers

LEMMA NextNumberInv == NumberInv /\ [Next]_vars => NumberInv' /\ Numbers
<1> SUFFICES ASSUME NumberInv, [Next]_vars PROVE NumberInv' /\ Numbers
  OBVIOUS
<1>1. ASSUME NEW h \in Handlers, Checkout(h)
      PROVE  NumberInv' /\ Numbers
  BY <1>1, CheckoutQuiet, QuietNext, DrawNext, InsertOrderNext DEF Checkout
<1>2. ASSUME NEW h \in Handlers, Complete(h)
      PROVE  NumberInv' /\ Numbers
  BY <1>2, CompletionQuiet, QuietNext, DrawNext, InsertInvoiceNext DEF Complete
<1>3. ASSUME NEW h \in Handlers, Void(h)
      PROVE  NumberInv' /\ Numbers
  BY <1>3, VoidQuiet, QuietNext
<1>4. ASSUME NEW h \in Handlers, HandlerDies(h)
      PROVE  NumberInv' /\ Numbers
  BY <1>4, ThrowQuiet, QuietNext DEF HandlerDies, orderVars
<1>5. CASE InventoryStep
  BY <1>5, UnchangedNext DEF InventoryStep, orderVars
<1>6. CASE UNCHANGED vars
  BY <1>6, UnchangedNext DEF vars, orderVars
<1>7. QED BY <1>1, <1>2, <1>3, <1>4, <1>5, <1>6 DEF Next

LEMMA NumbersAreDrawn == Spec => []NumberInv
<1>1. NumberInv /\ [Next]_vars => NumberInv'
  BY NextNumberInv
<1>2. QED BY <1>1, InitNumberInv, PTL DEF Spec

------------------------------------------------------------------------------

\* Order numbers are issued 1, 2, 3, ...: however many checkouts race, whoever dies
\* where, the order table implements Numbering.
THEOREM OrdersImplementNumbering == Spec => OrderNumbersInSequence
<1>1. Init => OrderNumbering!Init
  BY DEF Init, OrderNumbering!Init, NoRow
<1>2. NumberInv /\ [Next]_vars => [OrderNumbering!Next]_OrderNumber
  BY NextNumberInv
  DEF Numbers, Issued, TakenIn, OrderNumbering!Next, OrderNumbering!Issue,
      OrderNumbering!Issued, OrderNumber
<1>3. QED
  BY <1>1, <1>2, NumbersAreDrawn, PTL
  DEF Spec, OrderNumbersInSequence, OrderNumbering!Spec, OrderNumber

\* Invoice numbers are issued in sequence, whatever completions race and die.
THEOREM InvoicesImplementNumbering == Spec => InvoiceNumbersInSequence
<1>1. Init => InvoiceNumbering!Init
  BY DEF Init, InvoiceNumbering!Init, NoInvoice
<1>2. NumberInv /\ [Next]_vars => [InvoiceNumbering!Next]_InvoiceNumber
  BY NextNumberInv
  DEF Numbers, Issued, TakenIn, InvoiceNumbering!Next, InvoiceNumbering!Issue,
      InvoiceNumbering!Issued, InvoiceNumber
<1>3. QED
  BY <1>1, <1>2, NumbersAreDrawn, PTL
  DEF Spec, InvoiceNumbersInSequence, InvoiceNumbering!Spec, InvoiceNumber

------------------------------------------------------------------------------
(* Completed orders and their invoices.                                    *)

Closed(o) == orders[o].status \in {"COMPLETED", "VOIDED"}

\* A completion that is about to insert an invoice has marked its order, and one that
\* was answered has inserted it.
Invoicing ==
  \A h \in Completions : /\ at[h] \in {"invoice number", "invoice"} => Closed(Order(h))
                         /\ at[h] = "answered" => Order(h) \in Invoiced

InvoiceInv == NumberInv /\ Invoicing /\ InvoicedOrdersAreClosed /\ OneCompletionAnswered

\* Handler h goes to p and keeps its order; no order opens again, and no invoice is inserted.
Keeps(h, p) ==
  /\ at' = [at EXCEPT ![h] = p]
  /\ \A g \in Handlers : at[g] # "idle" => job'[g].order = job[g].order
  /\ Invoiced' = Invoiced
  /\ \A o \in Checkouts : Closed(o) /\ o \in Created => Closed(o)'
  /\ h \in Completions => /\ p \notin {"idle", "answered"}
                          /\ p \in {"invoice number", "invoice"} =>
                               at[h] # "idle" /\ Closed(Order(h))'

LEMMA InvoicedIsCreated ==
  ASSUME InvoiceInv, NEW o \in Invoiced
  PROVE  o \in Created /\ Closed(o)
<1>1. o \in Checkouts /\ Closed(o)
  BY DEF InvoiceInv, InvoicedOrdersAreClosed, Invoiced, Closed
<1>2. QED BY <1>1 DEF Closed, Created, NoRow

LEMMA KeepsStep ==
  ASSUME InvoiceInv, NumberInv', NEW h \in Handlers, NEW p, Keeps(h, p)
  PROVE  InvoiceInv'
<1>1. \A g \in Handlers : at'[g] = IF g = h THEN p ELSE at[g]
  BY DEF InvoiceInv, NumberInv, RowTypes, Keeps
<1>2. InvoicedOrdersAreClosed'
  <2>1. ASSUME NEW o \in Invoiced PROVE Closed(o)'
    BY <2>1, InvoicedIsCreated DEF Keeps, Invoiced
  <2>2. QED BY <2>1 DEF Keeps, InvoicedOrdersAreClosed, Closed
<1>3. ASSUME NEW g \in Completions, at'[g] = "answered"
      PROVE  at[g] = "answered" /\ Order(g)' = Order(g)
  <2>1. g \in Handlers /\ g # h
    BY <1>1, <1>3 DEF Keeps, Handlers
  <2>2. QED BY <2>1, <1>1, <1>3 DEF Keeps, Order
<1>4. OneCompletionAnswered'
  BY <1>3 DEF InvoiceInv, OneCompletionAnswered
<1>5. Invoicing'
  <2>1. ASSUME NEW g \in Completions, at'[g] \in {"invoice number", "invoice"} PROVE Closed(Order(g))'
    <3>1. g \in Handlers
      BY DEF Handlers
    <3>2. CASE g = h
      <4>1. at[h] # "idle" /\ Closed(Order(h))'
        BY <1>1, <2>1, <3>1, <3>2 DEF Keeps
      <4>2. QED BY <4>1, <3>2
    <3>3. CASE g # h
      <4>1. at[g] \in {"invoice number", "invoice"}
        BY <1>1, <2>1, <3>1, <3>3
      <4>2. Closed(Order(g)) /\ Order(g) \in Created
        BY <4>1 DEF InvoiceInv, Invoicing, NumberInv, Roles
      <4>3. Order(g)' = Order(g) /\ Order(g) \in Checkouts
        BY <3>1, <4>1, <4>2 DEF Keeps, Order, Created
      <4>4. QED BY <4>2, <4>3 DEF Keeps, Closed
    <3>4. QED BY <3>2, <3>3
  <2>2. QED BY <2>1, <1>3 DEF InvoiceInv, Invoicing, Keeps
<1>6. QED BY <1>2, <1>4, <1>5 DEF InvoiceInv

LEMMA SameStatus ==
  ASSUME UNCHANGED <<orders, invoices>>
  PROVE  /\ Invoiced' = Invoiced
         /\ \A o \in Checkouts : Closed(o) => Closed(o)'
BY DEF Invoiced, Closed

LEMMA LinesKeep ==
  ASSUME NumberInv, NEW h \in Handlers, NEW loop, NEW after, NextLine(h, loop, after),
         UNCHANGED <<orders, invoices>>, h \in Completions => after = "earn" /\ loop = "deduct"
  PROVE  \E p : Keeps(h, p)
<1>1. /\ at' = [at EXCEPT ![h] = loop] \/ at' = [at EXCEPT ![h] = after]
      /\ \A g \in Handlers : job'[g].order = job[g].order
  BY NextLineStep
<1>2. QED BY <1>1, SameStatus DEF Keeps

LEMMA CompleteKeeps ==
  ASSUME InvoiceInv, NEW h \in Handlers, Complete(h), ~InsertInvoice(h)
  PROVE  \E p : Keeps(h, p)
<1>0. /\ job \in [Handlers -> JobType] /\ at \in [Handlers -> Places] /\ orders \in [Checkouts -> OrderRow]
      /\ NumberInv
  BY DEF InvoiceInv, NumberInv, RowTypes, JobType
<1>1. ASSUME NEW o \in Checkouts, BeginComplete(h, o) PROVE \E p : Keeps(h, p)
  <2>1. \A g \in Handlers : at[g] # "idle" => job'[g].order = job[g].order
    BY <1>0, <1>1 DEF BeginComplete
  <2>2. CASE at' = [at EXCEPT ![h] = "deduct"]
    <3>1. Keeps(h, "deduct")
      BY <1>1, <2>1, <2>2, SameStatus DEF BeginComplete, Keeps, orderVars
    <3>2. QED BY <3>1
  <2>3. CASE at' = [at EXCEPT ![h] = "refused"]
    <3>1. Keeps(h, "refused")
      BY <1>1, <2>1, <2>3, SameStatus DEF BeginComplete, Keeps, orderVars
    <3>2. QED BY <3>1
  <2>4. QED BY <1>1, <2>2, <2>3 DEF BeginComplete, GoTo
<1>2. CASE DeductLine(h)
  <2>1. Keeps(h, "deducting")
    BY <1>2, SameStatus DEF DeductLine, Keeps, GoTo, orderVars
  <2>2. QED BY <2>1
<1>7. CASE AwardPoints(h)
  <2>1. Keeps(h, "complete")
    BY <1>7, SameStatus DEF AwardPoints, Keeps, GoTo
  <2>2. QED BY <2>1
<1>3. CASE LineDeducted(h)
  BY <1>0, <1>3, LinesKeep DEF LineDeducted, orderVars
<1>4. CASE MarkCompleted(h)
  <2>1. \A o \in Checkouts : Closed(o) => Closed(o)'
    BY <1>0, <1>4 DEF MarkCompleted, Closed, OrderRow
  <2>2. h \in Completions => Closed(Order(h))'
    <3>1. ASSUME h \in Completions PROVE Order(h) \in Checkouts
      BY <1>0, <1>4, <3>1 DEF MarkCompleted, JobType, Order
    <3>2. QED BY <1>0, <1>4, <3>1 DEF MarkCompleted, Closed, OrderRow, Order
  <2>3. Invoiced' = Invoiced
    BY <1>4 DEF MarkCompleted, Invoiced
  <2>4. Keeps(h, "invoice number")
    BY <1>4, <2>1, <2>2, <2>3 DEF MarkCompleted, GoTo, Keeps
  <2>5. QED BY <2>4
<1>5. CASE GenerateInvoiceNumber(h)
  <2>1. \A g \in Handlers : job'[g].order = job[g].order
    BY <1>0, <1>5 DEF GenerateInvoiceNumber, JobType
  <2>2. h \in Completions => Closed(Order(h))'
    BY <1>5, <2>1 DEF GenerateInvoiceNumber, InvoiceInv, Invoicing, Closed, Order, orderVars
  <2>3. Keeps(h, "invoice")
    BY <1>5, <2>1, <2>2, SameStatus DEF GenerateInvoiceNumber, GoTo, Keeps, orderVars
  <2>4. QED BY <2>3
<1>6. QED BY <1>1, <1>2, <1>3, <1>4, <1>5, <1>7 DEF Complete

LEMMA OthersKeep ==
  ASSUME InvoiceInv, NEW h \in Handlers, Checkout(h) \/ Void(h) \/ HandlerDies(h)
  PROVE  \E p : Keeps(h, p)
<1>0. /\ job \in [Handlers -> JobType] /\ at \in [Handlers -> Places] /\ orders \in [Checkouts -> OrderRow]
      /\ invoices \in [Checkouts -> InvoiceRow] /\ NumberInv
  BY DEF InvoiceInv, NumberInv, RowTypes, JobType
<1>1. CASE HandlerDies(h)
  <2>1. Keeps(h, "threw")
    BY <1>1, SameStatus DEF HandlerDies, GoTo, Keeps, orderVars
  <2>2. QED BY <2>1
<1>2. ASSUME ~HandlerDies(h) PROVE h \notin Completions
  BY <1>0, <1>2, HandlersAssumption DEF NumberInv, Roles, CompletionPlaces, Finished, Checkout, Void,
     BeginCheckout, ReserveLine, LineReserved, ReserveThrows, GenerateOrderNumber, InsertOrder,
     BeginVoid, ReleaseLine, LineReleased, MarkVoided, VoidInvoice
<1>3. CASE InsertOrder(h) /\ ~HandlerDies(h)
  <2>1. h \in Checkouts \ Created
    BY <1>0, <1>3, <1>2 DEF NumberInv, Roles, InsertOrder, Handlers, VoidPlaces, Finished
  <2>2. \A o \in Created : orders'[o] = orders[o]
    BY <1>0, <1>3, <2>1 DEF InsertOrder, Created
  <2>3. QED BY <1>2, <1>3, <2>2 DEF InsertOrder, GoTo, Keeps, Closed, Invoiced
<1>4. CASE GenerateOrderNumber(h) /\ ~HandlerDies(h)
  <2>1. \A g \in Handlers : job'[g].order = job[g].order
    BY <1>0, <1>4 DEF GenerateOrderNumber, JobType
  <2>2. QED BY <1>2, <1>4, <2>1, SameStatus DEF GenerateOrderNumber, GoTo, Keeps, orderVars
<1>5. CASE BeginCheckout(h) /\ ~HandlerDies(h)
  BY <1>0, <1>2, <1>5, SameStatus DEF BeginCheckout, GoTo, Keeps, orderVars
<1>6. CASE (ReserveLine(h) \/ ReserveThrows(h) \/ ReleaseLine(h)) /\ ~HandlerDies(h)
  BY <1>2, <1>6, SameStatus DEF ReserveLine, ReserveThrows, ReleaseLine, GoTo, Keeps, orderVars
<1>7. CASE (LineReserved(h) \/ LineReleased(h)) /\ ~HandlerDies(h)
  BY <1>0, <1>2, <1>7, LinesKeep DEF LineReserved, LineReleased, orderVars
<1>8. ASSUME NEW o \in Checkouts, BeginVoid(h, o), ~HandlerDies(h) PROVE \E p : Keeps(h, p)
  <2>1. \A g \in Handlers : at[g] # "idle" => job'[g].order = job[g].order
    BY <1>0, <1>8 DEF BeginVoid
  <2>2. QED BY <1>2, <1>8, <2>1, SameStatus DEF BeginVoid, GoTo, Keeps, orderVars
<1>9. CASE MarkVoided(h) /\ ~HandlerDies(h)
  <2>1. \A o \in Checkouts : Closed(o) => Closed(o)'
    BY <1>0, <1>9 DEF MarkVoided, Closed, OrderRow
  <2>2. QED BY <1>2, <1>9, <2>1 DEF MarkVoided, GoTo, Keeps, Invoiced
<1>10. CASE VoidInvoice(h) /\ ~HandlerDies(h)
  <2>1. Invoiced' = Invoiced
    <3>1. CASE Order(h) \in Invoiced
      BY <1>0, <1>10, <3>1, VoidingInvoice DEF VoidInvoice, SameRows
    <3>2. CASE Order(h) \notin Invoiced
      BY <1>10, <3>2 DEF VoidInvoice, Invoiced
    <3>3. QED BY <3>1, <3>2
  <2>2. QED BY <1>2, <1>10, <2>1 DEF VoidInvoice, GoTo, Keeps, Closed
<1>11. QED BY <1>1, <1>3, <1>4, <1>5, <1>6, <1>7, <1>8, <1>9, <1>10 DEF Checkout, Void

\* The insert of an invoice, where none was: the only step that answers a completion.
LEMMA InsertKeepsInv ==
  ASSUME InvoiceInv, NumberInv', NEW h \in Handlers, InsertInvoice(h)
  PROVE  InvoiceInv'
<1>0. /\ invoices \in [Checkouts -> InvoiceRow] /\ at \in [Handlers -> Places] /\ job' = job /\ orders' = orders
      /\ NumberInv
  BY DEF InvoiceInv, NumberInv, RowTypes, InsertInvoice
<1>1. h \in Completions /\ Order(h) \in Created /\ Closed(Order(h))
  BY <1>0 DEF InvoiceInv, Invoicing, NumberInv, Roles, InsertInvoice, Handlers, CheckoutPlaces, VoidPlaces,
     Finished
<1>2. CASE at' = [at EXCEPT ![h] = "threw"] /\ UNCHANGED invoices
  <2>1. Keeps(h, "threw")
    BY <1>0, <1>2, SameStatus DEF Keeps
  <2>2. QED BY <2>1, KeepsStep
<1>3. CASE /\ at' = [at EXCEPT ![h] = "answered"] /\ Order(h) \notin Invoiced
           /\ invoices' = [invoices EXCEPT ![Order(h)] = [number |-> job[h].number, voided |-> FALSE]]
  <2>1. \A g \in Handlers : at'[g] = IF g = h THEN "answered" ELSE at[g]
    BY <1>0, <1>3
  <2>2. Order(h) \in Checkouts /\ invoices[Order(h)] = NoInvoice
    BY <1>1, <1>3 DEF Created, Invoiced
  <2>3. job[h].number # 0
    <3>1. job[h].number \in 1..(Cardinality(Invoiced) + 1)
      BY <1>0 DEF InsertInvoice, NumberInv, Drawn
    <3>2. QED BY <3>1, FiniteRows
  <2>4. Invoiced' = Invoiced \cup {Order(h)}
    BY <1>0, <1>3, <2>2, <2>3 DEF Invoiced, NoInvoice
  <2>5. \A g \in Completions : Order(g)' = Order(g) /\ g \in Handlers
    BY <1>0 DEF Order, Handlers
  <2>6. InvoicedOrdersAreClosed'
    BY <1>0, <1>1, <2>4 DEF InvoiceInv, InvoicedOrdersAreClosed, Closed
  <2>7. Invoicing'
    BY <1>0, <2>1, <2>4, <2>5 DEF InvoiceInv, Invoicing, Closed, Order
  <2>8. \A g \in Completions : at[g] = "answered" => Order(g) # Order(h)
    BY <1>3 DEF InvoiceInv, Invoicing
  <2>9. OneCompletionAnswered'
    BY <2>1, <2>5, <2>8 DEF InvoiceInv, OneCompletionAnswered
  <2>10. QED BY <2>6, <2>7, <2>9 DEF InvoiceInv
<1>4. QED BY <1>2, <1>3 DEF InsertInvoice, GoTo

LEMMA NextInvoiceInv == InvoiceInv /\ [Next]_vars => InvoiceInv'
<1> SUFFICES ASSUME InvoiceInv, [Next]_vars PROVE InvoiceInv'
  OBVIOUS
<1>1. NumberInv'
  BY NextNumberInv DEF InvoiceInv
<1>2. ASSUME NEW h \in Handlers, Checkout(h) \/ Complete(h) \/ Void(h) \/ HandlerDies(h) PROVE InvoiceInv'
  BY <1>1, <1>2, KeepsStep, CompleteKeeps, OthersKeep, InsertKeepsInv
<1>3. CASE UNCHANGED <<orders, invoices, at, job>>
  <2>1. Invoiced' = Invoiced /\ \A h : Order(h)' = Order(h)
    BY <1>3 DEF Invoiced, Order
  <2>2. QED BY <1>1, <1>3, <2>1
        DEF InvoiceInv, Invoicing, InvoicedOrdersAreClosed, OneCompletionAnswered, Closed
<1>4. QED BY <1>2, <1>3 DEF Next, InventoryStep, vars, orderVars

LEMMA InitInvoiceInv == Init => InvoiceInv
<1> SUFFICES ASSUME Init PROVE InvoiceInv
  OBVIOUS
<1>1. Invoiced = {} /\ \A h \in Completions : at[h] = "idle"
  BY DEF Init, Invoiced, Handlers
<1>2. QED BY <1>1, InitNumberInv DEF InvoiceInv, Invoicing, InvoicedOrdersAreClosed, OneCompletionAnswered

LEMMA InvoicesAreDrawn == Spec => []InvoiceInv
<1>1. QED BY InitInvoiceInv, NextInvoiceInv, PTL DEF Spec

\* InvoicedOrdersAreClosed, for every set of carts, of handlers and of deaths: the status is
\* written before the number is drawn, and no status opens an order again.
THEOREM InvoicedOrdersStayClosed == Spec => []InvoicedOrdersAreClosed
<1>1. InvoiceInv => InvoicedOrdersAreClosed
  BY DEF InvoiceInv
<1>2. QED BY <1>1, InvoicesAreDrawn, PTL

\* OneCompletionAnswered, for any number of completions: an answer follows the insert of the
\* invoice, and the invoice of an order is inserted once.
THEOREM OneCompletionIsAnswered == Spec => []OneCompletionAnswered
<1>1. InvoiceInv => OneCompletionAnswered
  BY DEF InvoiceInv
<1>2. QED BY <1>1, InvoicesAreDrawn, PTL

------------------------------------------------------------------------------
(* The types, those of the stock records that the orders are made on included. *)

Stock == INSTANCE InventoryProofs
  WITH Deltas <- {}, BodyQuantities <- 1..MaxQuantity, MaxInFlight <- Cardinality(Handlers),
       Operations <- {"reserve", "deduct", "release"}

\* Every handler works on a line that its order has, the first one before it begins.
LineInv == \A h \in Handlers : /\ job[h].line \in 1..Len(Lines(h))
                               /\ at[h] = "idle" => job[h].line = 1

EarnedType == earned \in [Checkouts -> Nat]

TypesInv == NumberInv /\ LineInv /\ EarnedType /\ Stock!TypeInv

\* The constants that orders give to the stock records are what Inventory assumes.
LEMMA StockConstants ==
  /\ {"reserve", "deduct", "release"} \subseteq {"adjust", "reserve", "deduct", "release"}
  /\ {} \subseteq Int /\ 1..MaxQuantity \subseteq Int /\ MaxQuantity \in Nat \ {0} /\ InitialStock \in [Items -> Nat]
  /\ Cardinality(Handlers) \in Nat \ {0} /\ UnknownId \notin Items
  /\ Stock!IsFiniteSet(Requests)
<1>1. Cardinality(Handlers) \in Nat \ {0}
  <2>1. Handlers # {}
    BY HandlersAssumption DEF Handlers
  <2>2. IsFiniteSet(Handlers)
    BY HandlersAssumption
  <2>3. Cardinality(Handlers) # 0
    BY <2>1, <2>2, FS_EmptySet
  <2>4. Cardinality(Handlers) \in Nat
    BY <2>2, FS_CardinalityType
  <2>5. QED BY <2>3, <2>4
<1>2. IsFiniteSet(Requests)
  <2>1. IsFiniteSet(1..MaxLines)
    BY CartsAssumption, FS_Interval
  <2>2. IsFiniteSet(Handlers)
    BY HandlersAssumption
  <2>3. IsFiniteSet(Handlers \X (1..MaxLines))
    BY <2>1, <2>2, FS_Product
  <2>4. QED BY <2>3 DEF Requests
<1>3. Stock!IsFiniteSet(Requests)
  BY <1>2 DEF IsFiniteSet, Stock!IsFiniteSet
<1>4. QED BY <1>1, <1>3, StockAssumption

\* How a step of handler h moves its order and its line.
SameLines == \A g \in Handlers : job'[g].order = job[g].order /\ job'[g].line = job[g].line
TakesAnOrder(h) == at[h] = "idle" /\ \E o \in Checkouts : job' = [job EXCEPT ![h].order = o]
TakesNextLine(h) ==
  at[h] # "idle" /\ job[h].line < Len(Lines(h)) /\ job' = [job EXCEPT ![h].line = @ + 1]

Moves(h) == /\ at'[h] # "idle" /\ \A g \in Handlers \ {h} : at'[g] = at[g]
            /\ SameLines \/ TakesAnOrder(h) \/ TakesNextLine(h)

LEMMA CartLengths ==
  ASSUME NEW o \in Checkouts
  PROVE  Len(Carts[o]) \in 1..MaxLines
BY CartsAssumption

LEMMA MovesLines ==
  ASSUME NumberInv, LineInv, NEW h \in Handlers, Moves(h)
  PROVE  LineInv'
<1>1. job \in [Handlers -> JobType]
  BY DEF NumberInv, RowTypes, JobType
<1>2. \A g \in Handlers : job'[g].line \in 1..Len(Lines(g)')
  <2>1. CASE SameLines
    BY <2>1 DEF SameLines, LineInv, Lines, Order
  <2>2. CASE TakesAnOrder(h)
    BY <1>1, <2>2, CartLengths DEF TakesAnOrder, LineInv, Lines, Order, JobType
  <2>3. CASE TakesNextLine(h)
    BY <1>1, <2>3, CartLengths DEF TakesNextLine, LineInv, Lines, Order, JobType
  <2>4. QED BY <2>1, <2>2, <2>3 DEF Moves
<1>3. \A g \in Handlers : at'[g] = "idle" => job'[g].line = 1
  BY <1>1 DEF Moves, SameLines, TakesAnOrder, TakesNextLine, LineInv, JobType
<1>4. QED BY <1>2, <1>3 DEF LineInv

LEMMA NextLineMoves ==
  ASSUME NumberInv, NEW h \in Handlers, NEW loop, NEW after, NextLine(h, loop, after),
         at[h] # "idle", loop # "idle", after # "idle"
  PROVE  Moves(h)
BY DEF NextLine, GoTo, Moves, SameLines, TakesNextLine, NumberInv, RowTypes

LEMMA HandlerMoves ==
  ASSUME NumberInv, NEW h \in Handlers, Checkout(h) \/ Complete(h) \/ Void(h) \/ HandlerDies(h)
  PROVE  Moves(h)
<1>1. at \in [Handlers -> Places] /\ job \in [Handlers -> JobType]
  BY DEF NumberInv, RowTypes, JobType
<1>2. CASE LineReserved(h) \/ LineDeducted(h) \/ LineReleased(h)
  BY <1>2, NextLineMoves DEF LineReserved, LineDeducted, LineReleased
<1>3. CASE BeginCheckout(h)
  BY <1>1, <1>3 DEF BeginCheckout, GoTo, Moves, TakesAnOrder
<1>4. ASSUME NEW o \in Checkouts, BeginComplete(h, o) PROVE Moves(h)
  BY <1>1, <1>4 DEF BeginComplete, GoTo, Moves, TakesAnOrder
<1>5. ASSUME NEW o \in Checkouts, BeginVoid(h, o) PROVE Moves(h)
  BY <1>1, <1>5 DEF BeginVoid, GoTo, Moves, TakesAnOrder
<1>6. ASSUME NEW n \in Nat, NEW p \in Places \ {"idle"}, GoTo(h, p), job' = [job EXCEPT ![h].number = n]
      PROVE  Moves(h)
  <2>1. SameLines
    BY <1>1, <1>6 DEF SameLines, JobType
  <2>2. QED BY <1>1, <1>6, <2>1 DEF GoTo, Moves
<1>11. CASE GenerateOrderNumber(h) \/ GenerateInvoiceNumber(h)
  <2>1. Cardinality(Created) + 1 \in Nat /\ Cardinality(Invoiced) + 1 \in Nat
    BY FiniteRows
  <2>2. QED BY <1>6, <1>11, <2>1 DEF GenerateOrderNumber, GenerateInvoiceNumber, Places
<1>7. CASE ReserveLine(h) \/ ReserveThrows(h) \/ DeductLine(h) \/ ReleaseLine(h)
  BY <1>1, <1>7 DEF ReserveLine, ReserveThrows, DeductLine, ReleaseLine, GoTo, Moves, SameLines
<1>8. CASE InsertOrder(h) \/ AwardPoints(h) \/ MarkCompleted(h) \/ InsertInvoice(h)
  BY <1>1, <1>8 DEF InsertOrder, AwardPoints, MarkCompleted, InsertInvoice, GoTo, Moves, SameLines
<1>9. CASE MarkVoided(h) \/ VoidInvoice(h) \/ HandlerDies(h)
  BY <1>1, <1>9 DEF MarkVoided, VoidInvoice, HandlerDies, GoTo, Moves, SameLines
<1>10. QED BY <1>2, <1>3, <1>4, <1>5, <1>6, <1>7, <1>8, <1>9, <1>11 DEF Checkout, Complete, Void

LEMMA EarnedGrows ==
  ASSUME EarnedType, [Next]_vars
  PROVE  EarnedType'
<1>1. CASE earned' = earned
  BY <1>1 DEF EarnedType
<1>2. ASSUME NEW h \in Handlers, AwardPoints(h) PROVE EarnedType'
  BY <1>2 DEF AwardPoints, EarnedType
<1>3. ASSUME NEW h \in Handlers, Checkout(h) \/ Complete(h) \/ Void(h) \/ HandlerDies(h), ~AwardPoints(h)
      PROVE  earned' = earned
  BY <1>3 DEF Checkout, BeginCheckout, ReserveLine, LineReserved, ReserveThrows, GenerateOrderNumber,
     InsertOrder, Complete, BeginComplete, DeductLine, LineDeducted, MarkCompleted, GenerateInvoiceNumber,
     InsertInvoice, Void, BeginVoid, ReleaseLine, LineReleased, MarkVoided, VoidInvoice, HandlerDies,
     orderVars
<1>4. QED BY <1>1, <1>2, <1>3 DEF Next, InventoryStep, vars, orderVars

------------------------------------------------------------------------------
(* Every step of the orders is a step of the stock records, or none.       *)

LEMMA LineOfSeq ==
  ASSUME NEW S, NEW s \in Seq(S), NEW k \in 1..Len(s)
  PROVE  s[k] \in S
OBVIOUS

LEMMA RequestIsKnown ==
  ASSUME NumberInv, LineInv, NEW h \in Handlers
  PROVE  /\ Request(h) \in Requests
         /\ Line(h) \in [item : Items, quantity : 1..MaxQuantity]
<1>1. Order(h) \in Checkouts
  BY DEF NumberInv, RowTypes, Order
<1>2. /\ Carts[Order(h)] \in Seq([item : Items, quantity : 1..MaxQuantity])
      /\ Len(Carts[Order(h)]) \in 1..MaxLines
  BY <1>1, CartsAssumption
<1>3. job[h].line \in 1..Len(Carts[Order(h)])
  BY DEF LineInv, Lines
<1>4. job[h].line \in 1..MaxLines
  BY <1>2, <1>3, CartsAssumption
<1>5. Request(h) \in Requests
  BY <1>4 DEF Request, Requests
<1>6. Line(h) \in [item : Items, quantity : 1..MaxQuantity]
  BY <1>2, <1>3, LineOfSeq DEF Line, Lines
<1>7. QED BY <1>5, <1>6

\* The two instances count alike.
LEMMA SameCount == \A S : Stock!Cardinality(S) = Inventory!Cardinality(S)
BY DEF Stock!Cardinality, Inventory!Cardinality

\* A call that a handler makes, on a stock record or on the id that names none.
LEMMA StockCall ==
  ASSUME NEW r \in Requests, NEW i \in Items \cup {UnknownId}, NEW n \in 1..MaxQuantity,
         Inventory!ReserveStock(r, i, n) \/ Inventory!DeductReserved(r, i, n)
           \/ Inventory!ReleaseReserved(r, i, n)
  PROVE  Stock!Handle(r)
BY SameCount
   DEF Inventory!ReserveStock, Inventory!DeductReserved, Inventory!ReleaseReserved, Inventory!Read,
   Inventory!InFlight, Inventory!EnsureExists, Inventory!Available, Inventory!Record, Inventory!stockVars,
   Inventory!alertVars, Stock!Handle, Stock!ReserveStock, Stock!DeductReserved, Stock!ReleaseReserved,
   Stock!Read, Stock!InFlight, Stock!EnsureExists, Stock!Available, Stock!Record, Stock!stockVars,
   Stock!alertVars, Stock!Quantities

LEMMA StockCommit ==
  ASSUME NEW r \in Requests, Inventory!Commit(r)
  PROVE  Stock!Commit(r)
BY DEF Inventory!Commit, Inventory!AdjustCommit, Inventory!ReserveCommit, Inventory!DeductCommit,
   Inventory!ReleaseCommit, Inventory!Checked, Inventory!Answer, Inventory!Moved, Inventory!Magnitude,
   Inventory!AlertIfLow, Inventory!Record, Inventory!alertVars,
   Stock!Commit, Stock!AdjustCommit, Stock!ReserveCommit, Stock!DeductCommit, Stock!ReleaseCommit,
   Stock!Checked, Stock!Answer, Stock!Moved, Stock!Magnitude, Stock!AlertIfLow, Stock!Record,
   Stock!alertVars

LEMMA StockLost ==
  ASSUME NEW r \in Requests, Inventory!RequestLost(r)
  PROVE  Stock!RequestLost(r)
BY DEF Inventory!RequestLost, Inventory!stockVars, Inventory!alertVars,
   Stock!RequestLost, Stock!stockVars, Stock!alertVars

LEMMA StockStep ==
  ASSUME NumberInv, LineInv, [Next]_vars
  PROVE  [Stock!Next]_(Stock!vars)
<1>1. CASE UNCHANGED stockVars
  BY <1>1 DEF stockVars, Stock!vars
<1>2. ASSUME NEW h \in Handlers, ReserveLine(h) \/ DeductLine(h) \/ ReleaseLine(h) PROVE Stock!Next
  <2>1. /\ Request(h) \in Requests
        /\ Line(h).item \in Items /\ Line(h).quantity \in 1..MaxQuantity
    BY RequestIsKnown
  <2>2. Stock!Handle(Request(h))
    BY <1>2, <2>1, StockCall DEF ReserveLine, DeductLine, ReleaseLine, StoredInventoryId
  <2>3. QED BY <2>1, <2>2 DEF Stock!Next
<1>3. CASE InventoryStep
  BY <1>3, StockCommit, StockLost DEF InventoryStep, Stock!Next
<1>4. ASSUME NEW h \in Handlers, Checkout(h) \/ Complete(h) \/ Void(h) \/ HandlerDies(h),
             ~(ReserveLine(h) \/ DeductLine(h) \/ ReleaseLine(h))
      PROVE  UNCHANGED stockVars
  BY <1>4 DEF Checkout, BeginCheckout, LineReserved, ReserveThrows, GenerateOrderNumber, InsertOrder,
     Complete, BeginComplete, LineDeducted, AwardPoints, MarkCompleted, GenerateInvoiceNumber,
     InsertInvoice, Void, BeginVoid, LineReleased, MarkVoided, VoidInvoice, HandlerDies
<1>5. QED BY <1>1, <1>2, <1>3, <1>4 DEF Next, vars

LEMMA InitTypesInv == Init => TypesInv
<1> SUFFICES ASSUME Init PROVE TypesInv
  OBVIOUS
<1>1. LineInv
  <2>1. NoJob.order \in Checkouts /\ NoJob.line = 1
    BY HandlersAssumption DEF NoJob
  <2>2. QED BY <2>1, CartLengths DEF Init, LineInv, Lines, Order
<1>2. EarnedType
  BY DEF Init, EarnedType
<1>3. Stock!TypeInv
  <2>1. Stock!Init
    BY DEF Init, Inventory!Init, Inventory!Record, Inventory!NoCall, Stock!Init, Stock!Record, Stock!NoCall
  <2>2. QED BY <2>1, StockConstants, Stock!InitTypeInv
<1>4. QED BY <1>1, <1>2, <1>3, InitNumberInv DEF TypesInv

LEMMA NextTypesInv == TypesInv /\ [Next]_vars => TypesInv'
<1> SUFFICES ASSUME TypesInv, [Next]_vars PROVE TypesInv'
  OBVIOUS
<1>1. NumberInv'
  BY NextNumberInv DEF TypesInv
<1>2. LineInv'
  <2>1. CASE UNCHANGED <<at, job>>
    BY <2>1 DEF TypesInv, LineInv, Lines, Order
  <2>2. QED BY <2>1, HandlerMoves, MovesLines DEF TypesInv, Next, InventoryStep, vars
<1>3. EarnedType'
  BY EarnedGrows DEF TypesInv
<1>4. Stock!TypeInv'
  BY StockStep, StockConstants, Stock!NextTypeInv DEF TypesInv
<1>5. QED BY <1>1, <1>2, <1>3, <1>4 DEF TypesInv

LEMMA TypesAreKept == Spec => []TypesInv
<1>1. QED BY InitTypesInv, NextTypesInv, PTL DEF Spec

LEMMA SameStockTypes ==
  ASSUME Stock!TypeInv
  PROVE  Inventory!TypeOK
BY DEF Stock!TypeInv, Stock!TypeOK, Stock!StockRecord, Stock!Movement, Stock!Phases, Stock!Call,
   Inventory!TypeOK, Inventory!StockRecord, Inventory!Movement, Inventory!Phases, Inventory!Call

\* TypeOK, for every set of carts, of handlers and of deaths: a handler never stands at a
\* line its order does not have, and every call it makes is one that inventory-service takes.
THEOREM TypeCorrect == Spec => []TypeOK
<1>1. TypesInv => TypeOK
  <2>1. ASSUME TypesInv, NEW h \in Handlers PROVE job[h].line \in 1..MaxLines
    <3>1. Order(h) \in Checkouts /\ job[h].line \in 1..Len(Carts[Order(h)])
      BY <2>1 DEF TypesInv, NumberInv, RowTypes, LineInv, Lines, Order
    <3>2. QED BY <3>1, CartLengths, CartsAssumption
  <2>2. ASSUME TypesInv PROVE job \in [Handlers -> Job]
    BY <2>1, <2>2 DEF TypesInv, NumberInv, RowTypes, Job
  <2>3. QED BY <2>2, SameStockTypes DEF TypesInv, NumberInv, RowTypes, EarnedType, TypeOK
<1>2. QED BY <1>1, TypesAreKept, PTL

\* Every run of the orders is a run of the stock records alone: order-service changes them by
\* the handlers of inventory-service only, one call a line, so what is proved of Inventory
\* holds of the composition.
THEOREM OrdersImplementInventory == Spec => Stock!Spec
<1>1. Init => Stock!Init
  BY DEF Init, Inventory!Init, Inventory!Record, Inventory!NoCall, Stock!Init, Stock!Record, Stock!NoCall
<1>2. TypesInv /\ [Next]_vars => [Stock!Next]_(Stock!vars)
  BY StockStep DEF TypesInv
<1>3. QED BY <1>1, <1>2, TypesAreKept, PTL DEF Spec, Stock!Spec

\* OversellBounded of the records that concurrent checkouts reserve from.
THEOREM OrdersOversellBounded == Spec => []Stock!OversellBounded
<1>1. Stock!Spec => []Stock!OversellBounded
  BY StockConstants, Stock!OversellStaysBounded
<1>2. QED BY <1>1, OrdersImplementInventory, PTL
------------------------------------------------------------------------------
(* The reserved units belong to orders, or to checkouts without one.       *)

\* A request of a checkout reserves a line of its cart.
Asked(h, k) ==
  phase[<<h, k>>] # "idle" => /\ k \in 1..Len(Carts[h])
                              /\ call[<<h, k>>].op = "reserve"
                              /\ call[<<h, k>>].item = Carts[h][k].item
                              /\ call[<<h, k>>].amount = Carts[h][k].quantity

\* The lines before the one that the checkout works on are reserved, and all of them
\* when it has left the loop.
Secured(h) ==
  \A k \in 1..Len(Carts[h]) :
    \/ at[h] \in {"reserve", "reserving"} /\ k < job[h].line
    \/ at[h] \in {"number", "insert", "answered"}
    => phase[<<h, k>>] = "done"

OwnOrder(h) == at[h] # "idle" => job[h].order = h

\* completeOrder and voidOrder name a record that does not exist: their calls are refused.
NeverTaken(h) == \A k \in 1..MaxLines : phase[<<h, k>>] \in {"idle", "refused"}

LinesReserved ==
  /\ \A h \in Checkouts : /\ \A k \in 1..MaxLines : Asked(h, k)
                          /\ Secured(h) /\ OwnOrder(h)
  /\ \A h \in Completions \cup Voids : NeverTaken(h)

LinesInv == TypesInv /\ LinesReserved

SameHandler(g) == /\ at'[g] = at[g] /\ job'[g].order = job[g].order
                  /\ job'[g].line = job[g].line

LEMMA OthersStay ==
  ASSUME NumberInv, NEW h \in Handlers, Checkout(h) \/ Complete(h) \/ Void(h) \/ HandlerDies(h)
  PROVE  \A g \in Handlers \ {h} : SameHandler(g)
<1>1. Moves(h) /\ job \in [Handlers -> JobType]
  BY HandlerMoves DEF NumberInv, RowTypes, JobType
<1>2. QED BY <1>1 DEF Moves, SameLines, TakesAnOrder, TakesNextLine, SameHandler, JobType

LEMMA KeepsRecords ==
  ASSUME NEW h \in Handlers, Checkout(h) \/ Complete(h) \/ Void(h) \/ HandlerDies(h),
         ~(ReserveLine(h) \/ DeductLine(h) \/ ReleaseLine(h))
  PROVE  UNCHANGED stockVars
BY DEF Checkout, BeginCheckout, LineReserved, ReserveThrows, GenerateOrderNumber, InsertOrder,
   Complete, BeginComplete, LineDeducted, AwardPoints, MarkCompleted, GenerateInvoiceNumber,
   InsertInvoice, Void, BeginVoid, LineReleased, MarkVoided, VoidInvoice, HandlerDies

\* Which handlers take which steps.
LEMMA OnItsPath ==
  ASSUME NumberInv, NEW h \in Handlers
  PROVE  /\ Checkout(h) => h \in Checkouts
         /\ Complete(h) => h \in Completions
         /\ Void(h) => h \in Voids
<1>1. /\ h \in Checkouts => at[h] \in CheckoutPlaces
      /\ h \in Completions => at[h] \in CompletionPlaces
      /\ h \in Voids => at[h] \in VoidPlaces
      /\ h \in Checkouts \/ h \in Completions \/ h \in Voids
  BY DEF NumberInv, Roles, Handlers
<1>2. Checkout(h) => h \in Checkouts \/ at[h] \in {"reserve", "reserving", "number", "insert"}
  BY DEF Checkout, BeginCheckout, ReserveLine, LineReserved, ReserveThrows, GenerateOrderNumber, InsertOrder
<1>3. Complete(h) => h \in Completions
                     \/ at[h] \in {"deduct", "deducting", "earn", "complete", "invoice number", "invoice"}
  BY DEF Complete, BeginComplete, DeductLine, LineDeducted, AwardPoints, MarkCompleted,
     GenerateInvoiceNumber, InsertInvoice
<1>4. Void(h) => h \in Voids \/ at[h] \in {"release", "releasing", "void", "void invoice"}
  BY DEF Void, BeginVoid, ReleaseLine, LineReleased, MarkVoided, VoidInvoice
<1>5. QED BY <1>1, <1>2, <1>3, <1>4 DEF CheckoutPlaces, CompletionPlaces, VoidPlaces, Finished

\* A handler that the step leaves where it was, with its requests.
LEMMA SameLinesReserved ==
  ASSUME LinesReserved, NEW g \in Handlers, SameHandler(g),
         \A k \in 1..MaxLines : /\ phase'[<<g, k>>] = phase[<<g, k>>]
                                /\ call'[<<g, k>>] = call[<<g, k>>]
  PROVE  /\ g \in Checkouts => (\A k \in 1..MaxLines : Asked(g, k)') /\ Secured(g)' /\ OwnOrder(g)'
         /\ g \in Completions \cup Voids => NeverTaken(g)'
<1>1. ASSUME g \in Checkouts
      PROVE  (\A k \in 1..MaxLines : Asked(g, k)') /\ Secured(g)' /\ OwnOrder(g)'
  <2>1. 1..Len(Carts[g]) \subseteq 1..MaxLines
    BY <1>1, CartLengths, CartsAssumption
  <2>2. QED BY <1>1, <2>1 DEF LinesReserved, Asked, Secured, OwnOrder, SameHandler
<1>2. ASSUME g \in Completions \cup Voids PROVE NeverTaken(g)'
  BY <1>2 DEF LinesReserved, NeverTaken
<1>3. QED BY <1>1, <1>2

\* A call of inventory-service changes the one request that it is.
LEMMA CallOfRequest ==
  ASSUME Stock!TypeInv, NEW r \in Requests, NEW op, NEW i, NEW n, NEW accepted,
         Inventory!Read(r, op, i, n, accepted)
  PROVE  /\ phase[r] = "idle"
         /\ phase'[r] \in {"checked", "refused"}
         /\ i \notin Items => phase'[r] = "refused"
         /\ call'[r].op = op /\ call'[r].item = i /\ call'[r].amount = n
         /\ \A q \in Requests \ {r} : phase'[q] = phase[q] /\ call'[q] = call[q]
<1>1. phase \in [Requests -> Stock!Phases] /\ call \in [Requests -> Stock!Call]
  BY DEF Stock!TypeInv, Stock!TypeOK
<1>2. QED BY <1>1 DEF Inventory!Read

\* The steps of a checkout.
LEMMA CheckoutLines ==
  ASSUME LinesInv, NEW h \in Checkouts, Checkout(h) \/ HandlerDies(h)
  PROVE  LinesReserved'
<1> h \in Handlers
  BY DEF Handlers
<1>1. /\ NumberInv /\ LineInv /\ Stock!TypeInv /\ at \in [Handlers -> Places]
      /\ job \in [Handlers -> JobType]
      /\ \A g \in Handlers \ {h} : SameHandler(g)
  BY OthersStay DEF LinesInv, TypesInv, NumberInv, RowTypes, JobType
<1>2. h \notin Completions \cup Voids
  BY HandlersAssumption
<1>3. /\ \A k \in 1..MaxLines : Asked(h, k)
      /\ Secured(h) /\ OwnOrder(h)
  BY DEF LinesInv, LinesReserved
<1>4. Len(Carts[h]) \in 1..MaxLines /\ 1..Len(Carts[h]) \subseteq 1..MaxLines
  BY CartLengths, CartsAssumption
<1>5. ASSUME \A g \in Handlers \ {h}, k \in 1..MaxLines :
               phase'[<<g, k>>] = phase[<<g, k>>] /\ call'[<<g, k>>] = call[<<g, k>>],
             \A k \in 1..MaxLines : Asked(h, k)', Secured(h)', OwnOrder(h)'
      PROVE  LinesReserved'
  <2>1. \A g \in Handlers \ {h} :
          /\ g \in Checkouts => (\A k \in 1..MaxLines : Asked(g, k)') /\ Secured(g)' /\ OwnOrder(g)'
          /\ g \in Completions \cup Voids => NeverTaken(g)'
    BY <1>1, <1>5, SameLinesReserved DEF LinesInv
  <2>2. \A g \in Checkouts \cup Completions \cup Voids : g \in Handlers
    BY DEF Handlers
  <2>3. QED BY <1>2, <1>5, <2>1, <2>2 DEF LinesReserved
<1>6. ASSUME UNCHANGED stockVars, Secured(h)', OwnOrder(h)' PROVE LinesReserved'
  BY <1>3, <1>5, <1>6 DEF stockVars, Asked
<1>7. CASE BeginCheckout(h)
  <2>1. at'[h] = "reserve" /\ job'[h].order = h /\ job'[h].line = job[h].line
    BY <1>1, <1>7 DEF BeginCheckout, GoTo, JobType
  <2>2. job[h].line = 1
    BY <1>1, <1>7 DEF BeginCheckout, LineInv
  <2>3. Secured(h)' /\ OwnOrder(h)'
    BY <1>4, <2>1, <2>2 DEF Secured, OwnOrder
  <2>4. QED BY <1>6, <1>7, <2>3 DEF BeginCheckout
<1>8. CASE ReserveLine(h)
  <2> DEFINE k0 == job[h].line
  <2>1. at[h] = "reserve" /\ at'[h] = "reserving" /\ job' = job /\ job[h].order = h
    BY <1>1, <1>3, <1>8 DEF ReserveLine, GoTo, OwnOrder
  <2>2. k0 \in 1..Len(Carts[h]) /\ <<h, k0>> \in Requests /\ Request(h) = <<h, k0>>
        /\ Line(h) = Carts[h][k0]
    BY <1>1, <1>4, <2>1 DEF LineInv, Lines, Line, Order, Request, Requests
  <2>3. \E ok : Inventory!Read(<<h, k0>>, "reserve", Carts[h][k0].item, Carts[h][k0].quantity, ok)
    BY <1>8, <2>2 DEF ReserveLine, Inventory!ReserveStock
  <2> HIDE DEF k0
  <2>4. /\ phase[<<h, k0>>] = "idle"
        /\ call'[<<h, k0>>].op = "reserve" /\ call'[<<h, k0>>].item = Carts[h][k0].item
        /\ call'[<<h, k0>>].amount = Carts[h][k0].quantity
        /\ \A q \in Requests \ {<<h, k0>>} : phase'[q] = phase[q] /\ call'[q] = call[q]
    BY <1>1, <2>2, <2>3, CallOfRequest
  <2>5. \A g \in Handlers, k \in 1..MaxLines :
          <<g, k>> \in Requests /\ (g # h \/ k # k0 => <<g, k>> # <<h, k0>>)
    BY DEF Requests
  <2>6. \A k \in 1..MaxLines : Asked(h, k)'
    BY <1>3, <2>2, <2>4, <2>5 DEF Asked
  <2>7. Secured(h)'
    <3>1. ASSUME NEW k \in 1..Len(Carts[h]), k < k0 PROVE phase'[<<h, k>>] = "done"
      <4>1. phase[<<h, k>>] = "done"
        BY <1>3, <2>1, <3>1 DEF Secured, k0
      <4>2. k \in 1..MaxLines /\ k # k0
        BY <1>4, <2>2, <3>1
      <4>3. QED BY <2>4, <2>5, <4>1, <4>2
    <3>2. QED BY <2>1, <3>1 DEF Secured, k0
  <2>8. OwnOrder(h)'
    BY <2>1 DEF OwnOrder
  <2>9. QED BY <1>5, <2>4, <2>5, <2>6, <2>7, <2>8
<1>9. CASE LineReserved(h)
  <2>1. at[h] = "reserving" /\ job[h].order = h /\ phase[<<h, job[h].line>>] = "done"
        /\ UNCHANGED stockVars
    BY <1>3, <1>9 DEF LineReserved, Request, OwnOrder
  <2>2. job[h].line \in 1..Len(Carts[h])
    BY <1>1, <2>1 DEF LineInv, Lines, Order
  <2>3. \A k \in 1..Len(Carts[h]) : k < job[h].line + 1 => phase'[<<h, k>>] = "done"
    <3>1. ASSUME NEW k \in 1..Len(Carts[h]), k < job[h].line + 1 PROVE k = job[h].line \/ k < job[h].line
      BY <1>4, <2>2, <3>1
    <3>2. QED BY <1>3, <2>1, <3>1 DEF Secured, stockVars
  <2>4. CASE job[h].line < Len(Carts[h])
    <3>1. at'[h] = "reserve" /\ job'[h].line = job[h].line + 1 /\ job'[h].order = h
      BY <1>1, <1>9, <2>1, <2>4 DEF LineReserved, NextLine, GoTo, Lines, Order, JobType
    <3>2. QED BY <1>6, <2>1, <2>3, <3>1 DEF Secured, OwnOrder
  <2>5. CASE ~(job[h].line < Len(Carts[h]))
    <3>1. at'[h] = "number" /\ job'[h].order = h
      BY <1>1, <1>9, <2>1, <2>5 DEF LineReserved, NextLine, GoTo, Lines, Order
    <3>2. \A k \in 1..Len(Carts[h]) : k < job[h].line + 1
      BY <1>4, <2>2, <2>5
    <3>3. QED BY <1>6, <2>1, <2>3, <3>1, <3>2 DEF Secured, OwnOrder
  <2>6. QED BY <2>4, <2>5
<1>10. CASE ReserveThrows(h) \/ HandlerDies(h)
  <2>1. at'[h] = "threw" /\ job' = job /\ UNCHANGED stockVars /\ at[h] # "idle"
    BY <1>1, <1>10 DEF ReserveThrows, HandlerDies, GoTo
  <2>2. QED BY <1>3, <1>6, <2>1 DEF Secured, OwnOrder
<1>11. CASE GenerateOrderNumber(h)
  <2>1. at[h] = "number" /\ at'[h] = "insert" /\ job'[h].order = job[h].order /\ UNCHANGED stockVars
    BY <1>1, <1>11 DEF GenerateOrderNumber, GoTo, JobType
  <2>2. QED BY <1>3, <1>6, <2>1 DEF Secured, OwnOrder, stockVars
<1>12. CASE InsertOrder(h)
  <2>1. at[h] = "insert" /\ at'[h] \in {"threw", "answered"} /\ job' = job /\ UNCHANGED stockVars
    BY <1>1, <1>12 DEF InsertOrder, GoTo
  <2>2. QED BY <1>3, <1>6, <2>1 DEF Secured, OwnOrder, stockVars
<1>13. QED BY <1>7, <1>8, <1>9, <1>10, <1>11, <1>12 DEF Checkout

\* The steps of a completion or of a void.
LEMMA OtherLines ==
  ASSUME LinesInv, NEW h \in Completions \cup Voids, Complete(h) \/ Void(h) \/ HandlerDies(h)
  PROVE  LinesReserved'
<1> h \in Handlers
  BY DEF Handlers
<1>1. /\ NumberInv /\ LineInv /\ Stock!TypeInv
      /\ \A g \in Handlers \ {h} : SameHandler(g)
  BY OthersStay DEF LinesInv, TypesInv
<1>2. h \notin Checkouts /\ NeverTaken(h)
  BY HandlersAssumption DEF LinesInv, LinesReserved
<1>3. ASSUME \A g \in Handlers \ {h}, k \in 1..MaxLines :
               phase'[<<g, k>>] = phase[<<g, k>>] /\ call'[<<g, k>>] = call[<<g, k>>],
             NeverTaken(h)'
      PROVE  LinesReserved'
  <2>1. \A g \in Handlers \ {h} :
          /\ g \in Checkouts => (\A k \in 1..MaxLines : Asked(g, k)') /\ Secured(g)' /\ OwnOrder(g)'
          /\ g \in Completions \cup Voids => NeverTaken(g)'
    BY <1>1, <1>3, SameLinesReserved DEF LinesInv
  <2>2. \A g \in Checkouts \cup Completions \cup Voids : g \in Handlers
    BY DEF Handlers
  <2>3. QED BY <1>2, <1>3, <2>1, <2>2 DEF LinesReserved
<1>4. CASE DeductLine(h) \/ ReleaseLine(h)
  <2> DEFINE r == Request(h)
  <2>1. r \in Requests /\ UnknownId \notin Items
    BY <1>1, RequestIsKnown, StockAssumption
  <2>2. \E op, ok : Inventory!Read(r, op, UnknownId, Line(h).quantity, ok)
    BY <1>4 DEF DeductLine, ReleaseLine, StoredInventoryId, Inventory!DeductReserved, Inventory!ReleaseReserved
  <2> HIDE DEF r
  <2>3. /\ phase'[r] = "refused"
        /\ \A q \in Requests \ {r} : phase'[q] = phase[q] /\ call'[q] = call[q]
    BY <1>1, <2>1, <2>2, CallOfRequest
  <2>4. /\ \A k \in 1..MaxLines : <<h, k>> \in Requests
        /\ \A g \in Handlers \ {h}, k \in 1..MaxLines : <<g, k>> \in Requests \ {r}
    BY DEF Requests, r, Request
  <2>5. NeverTaken(h)'
    BY <1>2, <2>3, <2>4 DEF NeverTaken
  <2>6. QED BY <1>3, <2>3, <2>4, <2>5
<1>5. CASE ~(DeductLine(h) \/ ReleaseLine(h))
  <2>1. ~ ReserveLine(h)
    BY <1>1, <1>2, OnItsPath DEF Checkout
  <2>2. UNCHANGED stockVars
    BY <1>5, <2>1, KeepsRecords
  <2>3. QED BY <1>2, <1>3, <2>2 DEF stockVars, NeverTaken
<1>6. QED BY <1>4, <1>5

\* A write of inventory-service, or a call it loses: a reserved line stays reserved.
LEMMA InventoryLines ==
  ASSUME LinesInv, InventoryStep
  PROVE  LinesReserved'
<1> PICK r \in Requests : Inventory!Commit(r) \/ Inventory!RequestLost(r)
  BY DEF InventoryStep
<1>1. at' = at /\ job' = job
  BY DEF InventoryStep
<1>2. phase \in [Requests -> Stock!Phases] /\ call' = call /\ phase[r] = "checked"
      /\ (phase' = [phase EXCEPT ![r] = "done"] \/ phase' = [phase EXCEPT ![r] = "lost"])
  BY DEF LinesInv, TypesInv, Stock!TypeInv, Stock!TypeOK, Inventory!Commit, Inventory!AdjustCommit,
     Inventory!ReserveCommit, Inventory!DeductCommit, Inventory!ReleaseCommit, Inventory!Checked,
     Inventory!Answer, Inventory!RequestLost
<1>3. \A q \in Requests : /\ phase[q] \in {"idle", "refused", "done"} => phase'[q] = phase[q]
                          /\ phase'[q] # "idle" => phase[q] # "idle"
  BY <1>2
<1>4. \A h \in Handlers, k \in 1..MaxLines : <<h, k>> \in Requests
  BY DEF Requests
<1>5. \A h \in Checkouts : Len(Carts[h]) \in 1..MaxLines /\ 1..Len(Carts[h]) \subseteq 1..MaxLines
  BY CartLengths, CartsAssumption
<1>6. \A h \in Checkouts \cup Completions \cup Voids : h \in Handlers
  BY DEF Handlers
<1>7. ASSUME NEW h \in Checkouts
      PROVE  (\A k \in 1..MaxLines : Asked(h, k)') /\ Secured(h)' /\ OwnOrder(h)'
  BY <1>1, <1>2, <1>3, <1>4, <1>5, <1>6 DEF LinesInv, LinesReserved, Asked, Secured, OwnOrder
<1>8. ASSUME NEW h \in Completions \cup Voids PROVE NeverTaken(h)'
  BY <1>3, <1>4, <1>6 DEF LinesInv, LinesReserved, NeverTaken
<1>9. QED BY <1>7, <1>8 DEF LinesReserved

LEMMA InitLinesInv == Init => LinesInv
<1> SUFFICES ASSUME Init PROVE LinesReserved
  BY InitTypesInv DEF LinesInv
<1>1. /\ \A h \in Handlers, k \in 1..MaxLines : phase[<<h, k>>] = "idle"
      /\ \A h \in Handlers : at[h] = "idle"
  BY DEF Init, Inventory!Init, Requests
<1>2. QED BY <1>1 DEF LinesReserved, Asked, Secured, OwnOrder, NeverTaken, Handlers

LEMMA NextLinesInv == LinesInv /\ [Next]_vars => LinesInv'
<1> SUFFICES ASSUME LinesInv, [Next]_vars PROVE LinesReserved'
  BY NextTypesInv DEF LinesInv
<1>1. ASSUME NEW h \in Handlers, Checkout(h) \/ Complete(h) \/ Void(h) \/ HandlerDies(h)
      PROVE  LinesReserved'
  <2>1. NumberInv
    BY DEF LinesInv, TypesInv
  <2>2. CASE h \in Checkouts
    <3>1. h \notin Completions /\ h \notin Voids
      BY <2>2, HandlersAssumption
    <3>2. QED BY <1>1, <2>1, <2>2, <3>1, OnItsPath, CheckoutLines
  <2>3. CASE h \notin Checkouts
    <3>1. h \in Completions \cup Voids
      BY <2>3 DEF Handlers
    <3>2. QED BY <1>1, <2>1, <2>3, <3>1, OnItsPath, OtherLines
  <2>4. QED BY <2>2, <2>3
<1>2. CASE InventoryStep
  BY <1>2, InventoryLines
<1>3. CASE UNCHANGED vars
  BY <1>3 DEF vars, stockVars, LinesInv, LinesReserved, Asked, Secured, OwnOrder, NeverTaken
<1>4. QED BY <1>1, <1>2, <1>3 DEF Next
LEMMA SameSum == \A f, S : Stock!SumFunctionOnSet(f, S) = SumFunctionOnSet(f, S)
BY DEF Stock!SumFunctionOnSet, Stock!FoldFunctionOnSet, Stock!MapThenFoldSet,
   SumFunctionOnSet, FoldFunctionOnSet, MapThenFoldSet

\* The units that a request reserved on an item.
Held(i) == [r \in Requests |-> IF phase[r] = "done" /\ call[r].item = i THEN call[r].amount ELSE 0]

OrderRequests == Checkouts \X (1..MaxLines)

LEMMA RequestsFinite ==
  /\ IsFiniteSet(Requests) /\ IsFiniteSet(Checkouts) /\ IsFiniteSet(1..MaxLines)
  /\ \A S \in SUBSET Checkouts : IsFiniteSet(S) /\ IsFiniteSet(S \X (1..MaxLines))
<1>1. IsFiniteSet(1..MaxLines)
  BY CartsAssumption, FS_Interval
<1>2. IsFiniteSet(Handlers) /\ IsFiniteSet(Checkouts)
  <2>1. Checkouts \in SUBSET Handlers
    BY DEF Handlers
  <2>2. QED BY <2>1, FS_Subset, HandlersAssumption
<1>3. IsFiniteSet(Handlers \X (1..MaxLines))
  BY <1>1, <1>2, FS_Product
<1>4. ASSUME NEW S \in SUBSET Checkouts
      PROVE  IsFiniteSet(S) /\ IsFiniteSet(S \X (1..MaxLines))
  <2>1. IsFiniteSet(S)
    BY <1>2, FS_Subset
  <2>2. QED BY <1>1, <2>1, FS_Product
<1>5. QED BY <1>1, <1>2, <1>3, <1>4 DEF Requests

LEMMA HeldType ==
  ASSUME Stock!TypeInv, NEW i
  PROVE  \A r \in Requests : Held(i)[r] \in Int /\ call[r].amount \in Int
<1>1. \A r \in Requests : call[r].amount \in Int
  BY DEF Stock!TypeInv, Stock!TypeOK, Stock!Call
<1>2. QED BY <1>1 DEF Held

\* Only reserves change the records that exist.
LEMMA OnlyReserves ==
  ASSUME LinesInv, NEW i \in Items
  PROVE  /\ Stock!OnRecord("deduct", i) = {} /\ Stock!OnRecord("release", i) = {}
         /\ Stock!OnRecord("reserve", i) \in SUBSET OrderRequests
         /\ \A r \in Stock!OnRecord("reserve", i) : phase[r] = "done" /\ call[r].item = i
         /\ \A r \in OrderRequests \ Stock!OnRecord("reserve", i) : ~(phase[r] = "done" /\ call[r].item = i)
<1>1. ASSUME NEW r \in Requests, phase[r] = "done"
      PROVE  r \in OrderRequests /\ call[r].op = "reserve"
  <2>1. PICK h \in Handlers, k \in 1..MaxLines : r = <<h, k>>
    BY DEF Requests
  <2>2. h \in Checkouts
    BY <1>1, <2>1 DEF LinesInv, LinesReserved, NeverTaken, Handlers
  <2>3. Asked(h, k)
    BY <2>2 DEF LinesInv, LinesReserved
  <2>4. QED BY <1>1, <2>1, <2>2, <2>3 DEF Asked, OrderRequests
<1>2. OrderRequests \subseteq Requests
  BY DEF OrderRequests, Requests, Handlers
<1>3. QED BY <1>1, <1>2 DEF Stock!OnRecord, Stock!Committed

\* The requests of an order with a row hold what the order sells.
LEMMA OrderHolds ==
  ASSUME LinesInv, NEW o \in Created, NEW i \in Items
  PROVE  SumFunctionOnSet(Held(i), {o} \X (1..MaxLines)) = Sold(o, i)
<1> DEFINE n == Len(Carts[o])
           sells == [k \in 1..n |-> IF Carts[o][k].item = i THEN Carts[o][k].quantity ELSE 0]
           held == [k \in 1..MaxLines |-> Held(i)[<<o, k>>]]
<1>1. o \in Checkouts /\ o \in Handlers
  BY DEF Created, Handlers
<1>2. n \in 1..MaxLines /\ 1..n \in SUBSET (1..MaxLines)
  BY <1>1, CartLengths, CartsAssumption
<1>3. at[o] = "answered"
  BY <1>1 DEF LinesInv, TypesInv, NumberInv, Roles
<1>4. \A k \in 1..MaxLines : <<o, k>> \in Requests /\ held[k] = Held(i)[<<o, k>>] /\ held[k] \in Int
                           /\ Held(i)[<<o, k>>] \in Int
  <2>1. \A k \in 1..MaxLines : <<o, k>> \in Requests
    BY <1>1 DEF Requests
  <2>2. QED BY <2>1, HeldType DEF LinesInv, TypesInv
<1>5. \A k \in 1..n : phase[<<o, k>>] = "done" /\ Asked(o, k)
  BY <1>1, <1>2, <1>3 DEF LinesInv, LinesReserved, Secured
<1>6. \A k \in 1..n : held[k] = sells[k]
  BY <1>2, <1>4, <1>5 DEF Held, Asked
<1>7. \A k \in (1..MaxLines) \ (1..n) : held[k] = 0
  <2>1. \A k \in (1..MaxLines) \ (1..n) : phase[<<o, k>>] = "idle"
    BY <1>1 DEF LinesInv, LinesReserved, Asked
  <2>2. QED BY <1>4, <2>1 DEF Held
<1>8. IsFiniteSet(1..MaxLines) /\ IsFiniteSet(1..n)
  BY <1>2, RequestsFinite, FS_Subset
<1> HIDE DEF held, sells, n
<1>9. SumFunctionOnSet(Held(i), {o} \X (1..MaxLines)) = SumFunctionOnSet(held, 1..MaxLines)
  <2> DEFINE L == 1..MaxLines
             f == Held(i)
  <2>1. RowOf(held, f, o, L)
    BY <1>4, <1>8 DEF RowOf
  <2> HIDE DEF L, f
  <2>2. SumFunctionOnSet(f, RowCells(o, L)) = SumFunctionOnSet(held, L)
    BY <2>1, SumRow
  <2>3. QED BY <2>2 DEF L, f, RowCells
<1>10. SumFunctionOnSet(held, 1..MaxLines) = SumFunctionOnSet(held, 1..n)
  BY <1>2, <1>4, <1>7, <1>8, SumWithoutZeros
<1>11. SumFunctionOnSet(held, 1..n) = SumFunctionOnSet(sells, 1..n)
  <2>1. \A k \in 1..n : held[k] \in Int /\ sells[k] = held[k]
    BY <1>2, <1>4, <1>6
  <2>2. QED BY <1>8, <2>1, SumSame
<1>12. QED BY <1>9, <1>10, <1>11 DEF Sold, sells, n

LEMMA Accounted ==
  ASSUME LinesInv, Stock!ReservedIsLedger
  PROVE  StockAccounted
<1> SUFFICES ASSUME NEW i \in Items
             PROVE  stock[i].reserved = SumFunctionOnSet([o \in Checkouts |-> Sold(o, i)], Created) + Leaked(i)
  BY DEF StockAccounted
<1> DEFINE ledger == Stock!OnRecord("reserve", i)
           amounts == [r \in Requests |-> call[r].amount]
           sold == [o \in Checkouts |-> Sold(o, i)]
           ours == Created \X (1..MaxLines)
           others == (Checkouts \ Created) \X (1..MaxLines)
<1>1. Created \in SUBSET Checkouts /\ Checkouts \ Created \in SUBSET Checkouts
  BY DEF Created
<1>2. ours \cup others = OrderRequests /\ ours \cap others = {}
  BY <1>1 DEF OrderRequests
<1>3. OrderRequests \subseteq Requests
  BY DEF OrderRequests, Requests, Handlers
<1>4. \A r \in Requests : Held(i)[r] \in Int /\ amounts[r] \in Int
  BY HeldType DEF LinesInv, TypesInv
<1>5. IsFiniteSet(OrderRequests) /\ IsFiniteSet(ours) /\ IsFiniteSet(others) /\ IsFiniteSet(Created)
      /\ IsFiniteSet(1..MaxLines)
  BY <1>1, RequestsFinite DEF OrderRequests
<1>6. ledger \in SUBSET OrderRequests /\ IsFiniteSet(ledger)
  BY <1>5, OnlyReserves, FS_Subset
<1>7. stock[i].reserved = SumFunctionOnSet(amounts, ledger)
  <2>1. stock[i].reserved = Stock!Total("reserve", i) - Stock!Total("deduct", i) - Stock!Total("release", i)
    BY DEF Stock!ReservedIsLedger
  <2>2. Stock!Total("deduct", i) = 0 /\ Stock!Total("release", i) = 0
    BY OnlyReserves, SameSum, SumEmpty DEF Stock!Total
  <2>3. Stock!Total("reserve", i) = SumFunctionOnSet(amounts, ledger)
    BY SameSum DEF Stock!Total
  <2>4. SumFunctionOnSet(amounts, ledger) \in Int
    BY <1>3, <1>4, <1>6, SumType
  <2> HIDE DEF amounts, ledger
  <2>5. QED BY <2>1, <2>2, <2>3, <2>4
<1>8. SumFunctionOnSet(amounts, ledger) = SumFunctionOnSet(Held(i), ledger)
  <2>1. \A r \in ledger : amounts[r] \in Int /\ Held(i)[r] = amounts[r]
    BY <1>3, <1>4, <1>6, OnlyReserves DEF Held
  <2> HIDE DEF amounts, ledger
  <2>2. QED BY <1>6, <2>1, SumSame
<1>9. SumFunctionOnSet(Held(i), ledger) = SumFunctionOnSet(Held(i), OrderRequests)
  <2>1. \A r \in OrderRequests : Held(i)[r] \in Int
    BY <1>3, <1>4
  <2>2. \A r \in OrderRequests \ ledger : Held(i)[r] = 0
    BY <1>3, OnlyReserves DEF Held
  <2> HIDE DEF ledger
  <2>3. QED BY <1>5, <1>6, <2>1, <2>2, SumWithoutZeros
<1>10. SumFunctionOnSet(Held(i), ours \cup others)
         = SumFunctionOnSet(Held(i), ours) + SumFunctionOnSet(Held(i), others)
  <2>1. \A r \in ours \cup others : Held(i)[r] \in Int
    BY <1>2, <1>3, <1>4
  <2> HIDE DEF ours, others
  <2>2. QED BY <1>2, <1>5, <2>1, SumDisjoint
<1>11. SumFunctionOnSet(Held(i), ours) = SumFunctionOnSet(sold, Created)
  <2> DEFINE L == 1..MaxLines
             f == Held(i)
  <2>1. \A r \in TableCells(Created, L) : f[r] \in Int
    BY <1>2, <1>3, <1>4 DEF TableCells
  <2>2. \A o \in Created : sold[o] = SumFunctionOnSet(f, RowCells(o, L))
    BY <1>1, OrderHolds DEF RowCells
  <2>3. RowsOf(sold, f, Created, L)
    BY <1>5, <2>1, <2>2 DEF RowsOf
  <2> HIDE DEF sold, L, f
  <2>4. SumFunctionOnSet(f, TableCells(Created, L)) = SumFunctionOnSet(sold, Created)
    BY <2>3, SumTable
  <2>5. QED BY <2>4 DEF L, f, TableCells
<1>12. SumFunctionOnSet(Held(i), others) = Leaked(i)
  BY DEF Leaked, Held
<1> HIDE DEF ledger, amounts, sold, ours, others
<1>13. QED BY <1>2, <1>7, <1>8, <1>9, <1>10, <1>11, <1>12 DEF sold

\* Every order row has all its units reserved, and what else is reserved is what checkouts
\* without a row took, for every set of carts, of handlers and of deaths.
THEOREM StockStaysAccounted == Spec => []StockAccounted
<1>1. Stock!Spec => []Stock!ReservedIsLedger
  BY StockConstants, Stock!ReservedStaysLedger
<1>2. Spec => []LinesInv
  BY InitLinesInv, NextLinesInv, PTL DEF Spec
<1>3. LinesInv /\ Stock!ReservedIsLedger => StockAccounted
  BY Accounted
<1>4. QED BY <1>1, <1>2, <1>3, OrdersImplementInventory, PTL
=============================================================================
