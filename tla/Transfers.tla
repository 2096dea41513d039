----------------------------- MODULE Transfers -----------------------------
(***************************************************************************)
(* Stock transfers between branches (inventory-service, transfers): a      *)
(* request of one branch is approved, dispatched and received, or rejected *)
(* or cancelled; receiving it moves the units in the inventory table.      *)
(*                                                                         *)
(* Every handler but create reads the transfer, checks its status, and     *)
(* writes the new one after the next await, without looking again.         *)
(*                                                                         *)
(* The model follows one product.  Only the sku is unique in the inventory *)
(* table: the product may have several rows at a branch (its variants), or *)
(* none.  The same rows are written by the stock corrections, which put    *)
(* back what they read and a difference, and by deductions.                *)
(***************************************************************************)
EXTENDS Integers, Sequences, FiniteSets, Functions

CONSTANTS Branches,
          Rows,          \* rows of the product in the inventory table
          BranchOf,      \* row -> its branch
          InitialStock,  \* row -> its quantity
          Staff,         \* who requests and who cancels
          MaxQuantity,   \* the largest quantity of a request
          Transfers,     \* calls of createRequest; the transfer has the call's id
          Requests,      \* calls on existing transfers, each used once
          Corrections,   \* calls of adjust and deduct, each used once
          Deltas         \* what they add to or take from a row

ASSUME RowsAssumption == BranchOf \in [Rows -> Branches]
ASSUME DeltasAssumption == Deltas \subseteq Int
ASSUME StockAssumption == InitialStock \in [Rows -> Nat]
ASSUME RequestsAssumption == IsFiniteSet(Transfers) /\ IsFiniteSet(Requests)
ASSUME MaxQuantityAssumption == MaxQuantity \in Nat

VARIABLES transfer,  \* transfer -> its row, or NoTransfer
          log,       \* transfer -> the statuses it had (the code keeps the last one only)
          quantity,  \* row -> inventory.quantity
          at,        \* request -> where its handler is
          call,      \* request -> the transfer and the status it is about to write
          fixing,    \* correction -> its step, its row, its delta and the quantity it saw
          adjusted,  \* row -> what the answered corrections add up to
          overtaken  \* rows whose quantity changed between a correction's read and its write

fixVars == <<fixing, adjusted, overtaken>>
vars == <<transfer, log, quantity, at, call, fixVars>>

Statuses == {"REQUESTED", "APPROVED", "REJECTED", "IN_TRANSIT", "COMPLETED", "CANCELLED"}

\* The status tests of the handlers, seen as a workflow.
Transitions ==
  [s \in Statuses |->
     CASE s = "REQUESTED" -> {"APPROVED", "REJECTED", "CANCELLED"}
       [] s = "APPROVED" -> {"REJECTED", "IN_TRANSIT", "COMPLETED", "CANCELLED"}
       [] s = "IN_TRANSIT" -> {"COMPLETED"}
       [] OTHER -> {}]

NoTransfer == [status |-> "none", from |-> "none", to |-> "none", qty |-> 0, by |-> "none"]
NoCall == [transfer |-> "none", status |-> "none"]
NoFix == [step |-> "idle", row |-> "none", delta |-> 0, seen |-> 0]

Created == {t \in Transfers : transfer[t] # NoTransfer}

Init == /\ transfer = [t \in Transfers |-> NoTransfer]
        /\ log = [t \in Transfers |-> <<>>]
        /\ quantity = InitialStock
        /\ at = [r \in Requests |-> "idle"]
        /\ call = [r \in Requests |-> NoCall]
        /\ fixing = [a \in Corrections |-> NoFix]
        /\ adjusted = [w \in Rows |-> 0]
        /\ overtaken = {}

------------------------------------------------------------------------------

\* Two branches and at least one unit; a request that fails the test leaves nothing.
CreateRequest(t, from, to, qty, by) ==
  /\ t \notin Created /\ from # to /\ qty >= 1
  /\ transfer' = [transfer EXCEPT ![t] = [status |-> "REQUESTED", from |-> from,
                                          to |-> to, qty |-> qty, by |-> by]]
  /\ log' = [log EXCEPT ![t] = <<"REQUESTED">>]
  /\ UNCHANGED <<quantity, at, call, fixVars>>

\* The read half of a handler.
Read(r, t, s, accepted) ==
  /\ at[r] = "idle" /\ t \in Created
  /\ IF accepted
     THEN /\ at' = [at EXCEPT ![r] = "checked"]
          /\ call' = [call EXCEPT ![r] = [transfer |-> t, status |-> s]]
     ELSE at' = [at EXCEPT ![r] = "refused"] /\ UNCHANGED call
  /\ UNCHANGED <<transfer, log, quantity, fixVars>>

ApproveTransfer(r, t) == Read(r, t, "APPROVED", transfer[t].status = "REQUESTED")

RejectTransfer(r, t) ==
  Read(r, t, "REJECTED", transfer[t].status \in {"REQUESTED", "APPROVED"})

MarkInTransit(r, t) == Read(r, t, "IN_TRANSIT", transfer[t].status = "APPROVED")

\* Mutant: receiving does not look at the approval.
CompleteUnapproved(r, t) ==
  Read(r, t, "COMPLETED", transfer[t].status \in {"REQUESTED", "APPROVED", "IN_TRANSIT"})

CompleteTransfer(r, t) ==
  Read(r, t, "COMPLETED", transfer[t].status \in {"APPROVED", "IN_TRANSIT"})

CancelTransfer(r, t, by) ==
  Read(r, t, "CANCELLED", /\ transfer[t].status \in {"REQUESTED", "APPROVED"}
                          /\ transfer[t].by = by)

------------------------------------------------------------------------------
(* The write half.                                                         *)

\* Mutant: the status column is set to undefined.
MarkUndefined(r) ==
  /\ transfer' = [transfer EXCEPT ![call[r].transfer].status = "undefined"]
  /\ log' = [log EXCEPT ![call[r].transfer] = Append(@, call[r].status)]
  /\ at' = [at EXCEPT ![r] = "done"]
  /\ UNCHANGED call

Mark(r) ==
  /\ transfer' = [transfer EXCEPT ![call[r].transfer].status = call[r].status]
  /\ log' = [log EXCEPT ![call[r].transfer] = Append(@, call[r].status)]
  /\ at' = [at EXCEPT ![r] = "done"]
  /\ UNCHANGED call

StatusCommit(r) ==
  /\ at[r] = "checked" /\ call[r].status # "COMPLETED"
  /\ Mark(r)
  /\ UNCHANGED <<quantity, fixVars>>

\* Mutant: one statement for both branches, which finds the source rows only.
SourceOnly(t) ==
  [w \in Rows |-> quantity[w] - (IF BranchOf[w] = transfer[t].from THEN transfer[t].qty ELSE 0)]

\* updateMany changes every row of the two branches: none where there is no row, each
\* by the whole quantity where there are several, and nothing looks whether the source
\* has that many.
Moved(t) ==
  [w \in Rows |-> quantity[w] - (IF BranchOf[w] = transfer[t].from THEN transfer[t].qty ELSE 0)
                              + (IF BranchOf[w] = transfer[t].to THEN transfer[t].qty ELSE 0)]

\* The stock rows and the status change in one transaction.
CompleteCommit(r) ==
  /\ at[r] = "checked" /\ call[r].status = "COMPLETED"
  /\ quantity' = Moved(call[r].transfer)
  /\ Mark(r)
  /\ UNCHANGED fixVars

\* The process dies, or the database refuses, before the write.
RequestLost(r) ==
  /\ at[r] = "checked"
  /\ at' = [at EXCEPT ![r] = "lost"]
  /\ UNCHANGED <<transfer, log, quantity, call, fixVars>>

------------------------------------------------------------------------------
(* The stock handlers of Inventory, as far as they change a quantity.      *)

transferVars == <<transfer, log, at, call>>

\* The read half of adjustStock.
AdjustStock(a, w, d) ==
  /\ fixing[a].step = "idle"
  /\ fixing' = [fixing EXCEPT ![a] =
                  [step |-> IF quantity[w] + d >= 0 THEN "checked" ELSE "refused",
                   row |-> w, delta |-> d, seen |-> quantity[w]]]
  /\ UNCHANGED <<transferVars, quantity, adjusted, overtaken>>

\* Its write puts what it saw and the delta, whatever has committed since.
AdjustCommit(a) ==
  LET f == fixing[a] IN
  /\ f.step = "checked"
  /\ quantity' = [quantity EXCEPT ![f.row] = f.seen + f.delta]
  /\ overtaken' = IF quantity[f.row] = f.seen THEN overtaken ELSE overtaken \cup {f.row}
  /\ adjusted' = [adjusted EXCEPT ![f.row] = @ + f.delta]
  /\ fixing' = [fixing EXCEPT ![a].step = "done"]
  /\ UNCHANGED transferVars

AdjustLost(a) ==
  /\ fixing[a].step = "checked"
  /\ fixing' = [fixing EXCEPT ![a].step = "lost"]
  /\ UNCHANGED <<transferVars, quantity, adjusted, overtaken>>

\* deductReserved decrements the quantity; what it checks is the reserved count, which
\* no transfer touches.
Deduct(a, w, n) ==
  /\ fixing[a].step = "idle"
  /\ quantity' = [quantity EXCEPT ![w] = @ - n]
  /\ adjusted' = [adjusted EXCEPT ![w] = @ - n]
  /\ fixing' = [fixing EXCEPT ![a] = [step |-> "done", row |-> w, delta |-> -n,
                                      seen |-> quantity[w]]]
  /\ UNCHANGED <<transferVars, overtaken>>

Next ==
  \/ \E t \in Transfers, from, to \in Branches, qty \in 0..MaxQuantity, by \in Staff :
       CreateRequest(t, from, to, qty, by)
  \/ \E r \in Requests, t \in Transfers :
       \/ ApproveTransfer(r, t)
       \/ RejectTransfer(r, t)
       \/ MarkInTransit(r, t)
       \/ CompleteTransfer(r, t)
       \/ \E by \in Staff : CancelTransfer(r, t, by)
  \/ \E r \in Requests : StatusCommit(r) \/ CompleteCommit(r) \/ RequestLost(r)
  \/ \E a \in Corrections : \/ \E w \in Rows, d \in Deltas : AdjustStock(a, w, d) \/ Deduct(a, w, d)
                           \/ AdjustCommit(a)
                           \/ AdjustLost(a)

Spec == Init /\ [][Next]_vars

------------------------------------------------------------------------------
(* Properties                                                              *)

Row == [status : Statuses, from : Branches, to : Branches, qty : 1..MaxQuantity, by : Staff]
Call == [transfer : Transfers, status : Statuses]
Fix == [step : {"checked", "refused", "done", "lost"}, row : Rows, delta : Int, seen : Int]

\* Every variable has its type; a quantity may be any integer.
TypeOK == /\ transfer \in [Transfers -> Row \cup {NoTransfer}]
          /\ log \in [Transfers -> Seq(Statuses)]
          /\ quantity \in [Rows -> Int]
          /\ at \in [Requests -> {"idle", "checked", "refused", "done", "lost"}]
          /\ call \in [Requests -> Call \cup {NoCall}]
          /\ fixing \in [Corrections -> Fix \cup {NoFix}]
          /\ adjusted \in [Rows -> Int]
          /\ overtaken \subseteq Rows

Completions(t) == Cardinality({k \in DOMAIN log[t] : log[t][k] = "COMPLETED"})

\* Units that the completed transfers brought to a branch, less those they took.
Received(b) ==
  SumFunctionOnSet([t \in Created |-> IF transfer[t].to = b
                                      THEN Completions(t) * transfer[t].qty ELSE 0], Created)
Sent(b) ==
  SumFunctionOnSet([t \in Created |-> IF transfer[t].from = b
                                      THEN Completions(t) * transfer[t].qty ELSE 0], Created)

\* The stock of every row is explained by the completions of its branch and by the
\* corrections of the row: however handlers race or die, units move with the status or
\* not at all, every row of a branch moves by the same, and a transfer that was rejected
\* or cancelled and never completed moved none.  Only a correction that writes over what
\* changed since it read the row leaves a row that nothing explains.
StockFollowsCompletions ==
  \A w \in Rows \ overtaken :
    quantity[w] = InitialStock[w] + adjusted[w] + Received(BranchOf[w]) - Sent(BranchOf[w])

TransferWorkflow == INSTANCE Workflow WITH Documents <- Transfers, First <- "REQUESTED"

\* Every status of a transfer may follow one it had before: none is dispatched or
\* completed without having been approved, even when handlers act on a stale status.
LogFollowsWorkflow == TransferWorkflow!Spec
=============================================================================
