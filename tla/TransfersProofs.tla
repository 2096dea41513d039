-------------------------- MODULE TransfersProofs --------------------------
(***************************************************************************)
(* Proofs about Transfers, for every set of branches, rows and calls.      *)
(***************************************************************************)
EXTENDS Transfers, SumTheorems

\* A status that a log has, and one that may follow a status that it has.
Has(l, s) == \E k \in DOMAIN l : l[k] = s
Follows(s, l) == \E k \in DOMAIN l : s \in Transitions[l[k]]

\* A handler past its check is about to write a status that may follow one the
\* transfer had: the one it read, however long ago.
Carried ==
  \A r \in Requests : at[r] = "checked" =>
    /\ call[r] \in Call /\ call[r].transfer \in Created
    /\ Follows(call[r].status, log[call[r].transfer])

\* A transfer has its status in its log, and a log when it has a row.
LoggedRows == /\ \A t \in Created : Has(log[t], transfer[t].status)
         /\ \A t \in Transfers \ Created : log[t] = <<>>

TransferInv == TypeOK /\ Carried /\ LoggedRows

\* What a step does to the logs.
Logged == log' = log \/ TransferWorkflow!Next

LEMMA Appending ==
  ASSUME NEW l \in Seq(Statuses), NEW s \in Statuses
  PROVE  /\ Append(l, s) \in Seq(Statuses)
         /\ Has(Append(l, s), s)
         /\ \A x : Follows(x, l) => Follows(x, Append(l, s))
<1>1. /\ Append(l, s) \in Seq(Statuses)
      /\ Len(l) + 1 \in DOMAIN Append(l, s) /\ Append(l, s)[Len(l) + 1] = s
      /\ \A k \in DOMAIN l : k \in DOMAIN Append(l, s) /\ Append(l, s)[k] = l[k]
  OBVIOUS
<1>2. QED BY <1>1 DEF Has, Follows

LEMMA RowsAreCreated == \A row \in Row : row # NoTransfer
BY DEF Row, NoTransfer, Statuses

LEMMA CreatedRows ==
  ASSUME TypeOK
  PROVE  \A t \in Created : t \in Transfers /\ transfer[t] \in Row
BY DEF TypeOK, Created

LEMMA InitTransferInv == Init => TransferInv
<1> SUFFICES ASSUME Init PROVE TransferInv
  OBVIOUS
<1>1. TypeOK
  BY StockAssumption DEF Init, TypeOK
<1>2. Carried /\ LoggedRows
  BY DEF Init, Carried, LoggedRows, Created
<1>3. QED BY <1>1, <1>2 DEF TransferInv

------------------------------------------------------------------------------

\* A request of a branch: a row that was not there, and a log that starts.
LEMMA CreateStep ==
  ASSUME TransferInv, NEW t \in Transfers, NEW from \in Branches, NEW to \in Branches,
         NEW qty \in 0..MaxQuantity, NEW by \in Staff, CreateRequest(t, from, to, qty, by)
  PROVE  TransferInv' /\ TransferWorkflow!Open(t)
<1> DEFINE new == [status |-> "REQUESTED", from |-> from, to |-> to, qty |-> qty, by |-> by]
<1>1. new \in Row /\ new.status = "REQUESTED" /\ "REQUESTED" \in Statuses
  BY MaxQuantityAssumption DEF CreateRequest, Row, Statuses
<1>2. /\ t \notin Created /\ transfer' = [transfer EXCEPT ![t] = new]
      /\ log' = [log EXCEPT ![t] = <<"REQUESTED">>]
      /\ UNCHANGED <<quantity, at, call, fixing, adjusted, overtaken>>
  BY DEF CreateRequest, fixVars
<1> HIDE DEF new
<1>3. <<"REQUESTED">> \in Seq(Statuses) /\ Has(<<"REQUESTED">>, "REQUESTED")
  BY <1>1 DEF Has
<1>4. TypeOK'
  BY <1>1, <1>2, <1>3 DEF TransferInv, TypeOK
<1>5. /\ transfer'[t] = new /\ log'[t] = <<"REQUESTED">>
      /\ \A u \in Transfers \ {t} : transfer'[u] = transfer[u] /\ log'[u] = log[u]
  BY <1>2 DEF TransferInv, TypeOK
<1>6. Created' = Created \cup {t}
  BY <1>1, <1>5, RowsAreCreated DEF Created
<1>7. Carried'
  BY <1>2, <1>5, <1>6 DEF TransferInv, Carried, Created
<1>8. LoggedRows'
  BY <1>1, <1>2, <1>3, <1>5, <1>6 DEF TransferInv, LoggedRows, Created
<1>9. log[t] = <<>>
  BY <1>2 DEF TransferInv, LoggedRows
<1>10. QED BY <1>2, <1>4, <1>7, <1>8, <1>9 DEF TransferInv, TransferWorkflow!Open

\* A check: the status to be written may follow the one that was read.
LEMMA ReadStep ==
  ASSUME TransferInv, NEW r \in Requests, NEW t \in Transfers, NEW s \in Statuses,
         NEW accepted \in BOOLEAN, Read(r, t, s, accepted),
         accepted => s \in Transitions[transfer[t].status]
  PROVE  TransferInv' /\ log' = log
<1> DEFINE c == [transfer |-> t, status |-> s]
<1>1. /\ t \in Created /\ Created' = Created
      /\ UNCHANGED <<transfer, log, quantity, fixing, adjusted, overtaken>>
  BY DEF Read, Created, fixVars
<1>2. accepted => Follows(s, log[t])
  BY <1>1 DEF TransferInv, LoggedRows, Has, Follows
<1>3. c \in Call /\ c.transfer = t /\ c.status = s
  BY DEF Call
<1>4. \/ /\ accepted /\ at' = [at EXCEPT ![r] = "checked"]
         /\ call' = [call EXCEPT ![r] = c]
      \/ at' = [at EXCEPT ![r] = "refused"] /\ call' = call
  BY DEF Read
<1> HIDE DEF c
<1>5. /\ TypeOK'
      /\ at'[r] = "checked" => accepted /\ call'[r] = c
      /\ \A q \in Requests \ {r} : at'[q] = at[q] /\ call'[q] = call[q]
  BY <1>1, <1>3, <1>4 DEF TransferInv, TypeOK
<1>6. ASSUME NEW q \in Requests, at'[q] = "checked"
      PROVE  /\ call'[q] \in Call /\ call'[q].transfer \in Created
             /\ Follows(call'[q].status, log[call'[q].transfer])
  <2>1. CASE q = r
    BY <1>1, <1>2, <1>3, <1>5, <1>6, <2>1
  <2>2. CASE q # r
    BY <1>5, <1>6, <2>2 DEF TransferInv, Carried
  <2>3. QED BY <2>1, <2>2
<1>7. Carried'
  BY <1>1, <1>6 DEF Carried
<1>8. LoggedRows'
  BY <1>1 DEF TransferInv, LoggedRows
<1>9. QED BY <1>1, <1>5, <1>7, <1>8 DEF TransferInv

LEMMA CheckStep ==
  ASSUME TransferInv, NEW r \in Requests, NEW t \in Transfers,
         \/ ApproveTransfer(r, t) \/ RejectTransfer(r, t) \/ MarkInTransit(r, t)
         \/ CompleteTransfer(r, t) \/ \E by \in Staff : CancelTransfer(r, t, by)
  PROVE  TransferInv' /\ log' = log
<1>1. /\ {"APPROVED", "REJECTED", "CANCELLED"} \subseteq Transitions["REQUESTED"]
      /\ {"REJECTED", "IN_TRANSIT", "COMPLETED", "CANCELLED"} \subseteq Transitions["APPROVED"]
      /\ "COMPLETED" \in Transitions["IN_TRANSIT"]
      /\ {"APPROVED", "REJECTED", "IN_TRANSIT", "COMPLETED", "CANCELLED"} \subseteq Statuses
  BY DEF Transitions, Statuses
<1>2. CASE ApproveTransfer(r, t)
  BY <1>1, <1>2, ReadStep DEF ApproveTransfer
<1>3. CASE RejectTransfer(r, t)
  <2> DEFINE accepted == transfer[t].status \in {"REQUESTED", "APPROVED"}
  <2>1. Read(r, t, "REJECTED", accepted) /\ accepted \in BOOLEAN
    BY <1>3 DEF RejectTransfer
  <2>2. accepted => "REJECTED" \in Transitions[transfer[t].status]
    BY <1>1
  <2> HIDE DEF accepted
  <2>3. QED BY <1>1, <2>1, <2>2, ReadStep
<1>4. CASE MarkInTransit(r, t)
  BY <1>1, <1>4, ReadStep DEF MarkInTransit
<1>5. CASE CompleteTransfer(r, t)
  <2> DEFINE accepted == transfer[t].status \in {"APPROVED", "IN_TRANSIT"}
  <2>1. Read(r, t, "COMPLETED", accepted) /\ accepted \in BOOLEAN
    BY <1>5 DEF CompleteTransfer
  <2>2. accepted => "COMPLETED" \in Transitions[transfer[t].status]
    BY <1>1
  <2> HIDE DEF accepted
  <2>3. QED BY <1>1, <2>1, <2>2, ReadStep
<1>6. ASSUME NEW by \in Staff, CancelTransfer(r, t, by)
      PROVE  TransferInv' /\ log' = log
  <2> DEFINE accepted == /\ transfer[t].status \in {"REQUESTED", "APPROVED"}
                         /\ transfer[t].by = by
  <2>1. Read(r, t, "CANCELLED", accepted) /\ accepted \in BOOLEAN
    BY <1>6 DEF CancelTransfer
  <2>2. accepted => "CANCELLED" \in Transitions[transfer[t].status]
    BY <1>1
  <2> HIDE DEF accepted
  <2>3. QED BY <1>1, <2>1, <2>2, ReadStep
<1>7. QED BY <1>2, <1>3, <1>4, <1>5, <1>6

\* A write: the status goes to the row and to the log, the units to the branches.
LEMMA WriteStep ==
  ASSUME TransferInv, NEW r \in Requests, StatusCommit(r) \/ CompleteCommit(r)
  PROVE  TransferInv' /\ TransferWorkflow!Next
<1> DEFINE t == call[r].transfer
           s == call[r].status
           new == [transfer[t] EXCEPT !.status = s]
<1>1. t \in Created /\ s \in Statuses /\ Follows(s, log[t])
  BY DEF StatusCommit, CompleteCommit, TransferInv, Carried, Call
<1>2. t \in Transfers /\ transfer[t] \in Row /\ log[t] \in Seq(Statuses)
  BY <1>1, CreatedRows DEF TransferInv, TypeOK
<1>3. new \in Row /\ new.status = s
  BY <1>1, <1>2 DEF Row
<1>4. /\ transfer' = [transfer EXCEPT ![t] = new]
      /\ log' = [log EXCEPT ![t] = Append(log[t], s)]
      /\ at' = [at EXCEPT ![r] = "done"] /\ call' = call
      /\ UNCHANGED <<fixing, adjusted, overtaken>>
  BY DEF StatusCommit, CompleteCommit, Mark, fixVars
<1>5. quantity' \in [Rows -> Int]
  <2>1. transfer[t].qty \in Int
    BY <1>2, MaxQuantityAssumption DEF Row
  <2>2. Moved(t) \in [Rows -> Int]
    BY <2>1 DEF Moved, TransferInv, TypeOK
  <2>3. QED BY <2>2 DEF StatusCommit, CompleteCommit, TransferInv, TypeOK
<1> HIDE DEF t, s, new
<1>6. /\ Append(log[t], s) \in Seq(Statuses) /\ Has(Append(log[t], s), s)
      /\ \A x : Follows(x, log[t]) => Follows(x, Append(log[t], s))
  BY <1>1, <1>2, Appending
<1>7. TypeOK'
  BY <1>2, <1>3, <1>4, <1>5, <1>6 DEF TransferInv, TypeOK
<1>8. /\ transfer'[t] = new /\ log'[t] = Append(log[t], s)
      /\ \A u \in Transfers \ {t} : transfer'[u] = transfer[u] /\ log'[u] = log[u]
      /\ \A q \in Requests : at'[q] = "checked" => at[q] = "checked"
  BY <1>2, <1>4 DEF TransferInv, TypeOK
<1>9. Created' = Created
  BY <1>1, <1>2, <1>3, <1>8, RowsAreCreated DEF Created
<1>10. \A u \in Transfers : \A x : Follows(x, log[u]) => Follows(x, log'[u])
  BY <1>6, <1>8
<1>11. Carried'
  BY <1>4, <1>8, <1>9, <1>10 DEF TransferInv, Carried, Created
<1>12. LoggedRows'
  BY <1>1, <1>3, <1>6, <1>8, <1>9 DEF TransferInv, LoggedRows, Created
<1>13. TransferWorkflow!Move(t)
  BY <1>1, <1>4 DEF TransferWorkflow!Move, Follows
<1>14. QED BY <1>2, <1>7, <1>11, <1>12, <1>13 DEF TransferInv, TransferWorkflow!Next

LEMMA LostStep ==
  ASSUME TransferInv, NEW r \in Requests, RequestLost(r)
  PROVE  TransferInv' /\ log' = log
<1>1. TypeOK' /\ Created' = Created
  BY DEF RequestLost, TransferInv, TypeOK, Created, fixVars
<1>2. \A q \in Requests : at'[q] = "checked" => at[q] = "checked"
  BY DEF RequestLost, TransferInv, TypeOK
<1>3. QED BY <1>1, <1>2 DEF RequestLost, TransferInv, Carried, LoggedRows

\* A correction of the stock touches no transfer.
LEMMA FixStep ==
  ASSUME TransferInv, NEW a \in Corrections,
         \/ \E w \in Rows, d \in Deltas : AdjustStock(a, w, d) \/ Deduct(a, w, d)
         \/ AdjustCommit(a) \/ AdjustLost(a)
  PROVE  TransferInv' /\ log' = log
<1>1. UNCHANGED <<transfer, log, at, call>>
  BY DEF AdjustStock, Deduct, AdjustCommit, AdjustLost, transferVars
<1>2. fixing[a].step = "checked" => fixing[a] \in Fix
  BY DEF TransferInv, TypeOK, NoFix
<1>3. ASSUME NEW w \in Rows, NEW d \in Deltas, AdjustStock(a, w, d) PROVE TypeOK'
  <2>1. /\ UNCHANGED <<quantity, adjusted, overtaken>> /\ quantity[w] \in Int /\ d \in Int
        /\ fixing' = [fixing EXCEPT ![a] =
             [step |-> IF quantity[w] + d >= 0 THEN "checked" ELSE "refused",
              row |-> w, delta |-> d, seen |-> quantity[w]]]
    BY <1>3, DeltasAssumption DEF AdjustStock, TransferInv, TypeOK
  <2>2. [step |-> IF quantity[w] + d >= 0 THEN "checked" ELSE "refused",
         row |-> w, delta |-> d, seen |-> quantity[w]] \in Fix
    BY <2>1 DEF Fix
  <2>3. QED BY <1>1, <2>1, <2>2 DEF TransferInv, TypeOK
<1>4. ASSUME NEW w \in Rows, NEW n \in Deltas, Deduct(a, w, n) PROVE TypeOK'
  <2>1. /\ quantity[w] \in Int /\ adjusted[w] \in Int /\ n \in Int /\ overtaken' = overtaken
        /\ quantity' = [quantity EXCEPT ![w] = @ - n] /\ adjusted' = [adjusted EXCEPT ![w] = @ - n]
        /\ fixing' = [fixing EXCEPT ![a] = [step |-> "done", row |-> w, delta |-> -n,
                                           seen |-> quantity[w]]]
    BY <1>4, DeltasAssumption DEF Deduct, TransferInv, TypeOK
  <2>2. [step |-> "done", row |-> w, delta |-> -n, seen |-> quantity[w]] \in Fix
    BY <2>1 DEF Fix
  <2>3. QED BY <1>1, <2>1, <2>2 DEF TransferInv, TypeOK
<1>5. ASSUME AdjustCommit(a) PROVE TypeOK'
  <2> DEFINE w == fixing[a].row
             d == fixing[a].delta
             new == [fixing[a] EXCEPT !.step = "done"]
  <2>1. /\ w \in Rows /\ d \in Int /\ fixing[a].seen \in Int /\ new \in Fix
    BY <1>2, <1>5 DEF AdjustCommit, Fix
  <2>2. /\ quantity' = [quantity EXCEPT ![w] = fixing[a].seen + d]
        /\ adjusted' = [adjusted EXCEPT ![w] = @ + d]
        /\ overtaken' \subseteq overtaken \cup {w}
        /\ fixing' = [fixing EXCEPT ![a] = new]
    BY <1>5 DEF AdjustCommit
  <2> HIDE DEF w, d, new
  <2>3. TypeOK
    BY DEF TransferInv
  <2>4. fixing' \in [Corrections -> Fix \cup {NoFix}] /\ overtaken' \subseteq Rows
    BY <2>1, <2>2, <2>3 DEF TypeOK
  <2>5. quantity' \in [Rows -> Int] /\ adjusted' \in [Rows -> Int]
    BY <2>1, <2>2, <2>3 DEF TypeOK
  <2>6. QED BY <1>1, <2>3, <2>4, <2>5 DEF TypeOK
<1>6. ASSUME AdjustLost(a) PROVE TypeOK'
  <2> DEFINE new == [fixing[a] EXCEPT !.step = "lost"]
  <2>1. new \in Fix /\ fixing' = [fixing EXCEPT ![a] = new] /\ UNCHANGED <<quantity, adjusted, overtaken>>
    BY <1>2, <1>6 DEF AdjustLost, Fix
  <2> HIDE DEF new
  <2>2. TypeOK
    BY DEF TransferInv
  <2>3. fixing' \in [Corrections -> Fix \cup {NoFix}]
    BY <2>1, <2>2 DEF TypeOK
  <2>4. QED BY <1>1, <2>1, <2>2, <2>3 DEF TypeOK
<1>7. TypeOK'
  <2>1. CASE \E w \in Rows, d \in Deltas : AdjustStock(a, w, d) \/ Deduct(a, w, d)
    <3>1. PICK w \in Rows, d \in Deltas : AdjustStock(a, w, d) \/ Deduct(a, w, d)
      BY <2>1
    <3>2. QED BY <1>3, <1>4, <3>1
  <2>2. QED BY <1>5, <1>6, <2>1
<1>8. QED BY <1>1, <1>7 DEF TransferInv, Carried, LoggedRows, Created

LEMMA NextTransferInv == TransferInv /\ [Next]_vars => TransferInv' /\ Logged
<1> SUFFICES ASSUME TransferInv, [Next]_vars PROVE TransferInv' /\ Logged
  OBVIOUS
<1>1. ASSUME NEW t \in Transfers, NEW from \in Branches, NEW to \in Branches,
             NEW qty \in 0..MaxQuantity, NEW by \in Staff, CreateRequest(t, from, to, qty, by)
      PROVE  TransferInv' /\ Logged
  BY <1>1, CreateStep DEF Logged, TransferWorkflow!Next
<1>2. ASSUME NEW r \in Requests, NEW t \in Transfers,
             \/ ApproveTransfer(r, t) \/ RejectTransfer(r, t) \/ MarkInTransit(r, t)
             \/ CompleteTransfer(r, t) \/ \E by \in Staff : CancelTransfer(r, t, by)
      PROVE  TransferInv' /\ Logged
  BY <1>2, CheckStep DEF Logged
<1>3. ASSUME NEW r \in Requests, StatusCommit(r) \/ CompleteCommit(r) \/ RequestLost(r)
      PROVE  TransferInv' /\ Logged
  BY <1>3, WriteStep, LostStep DEF Logged
<1>4. ASSUME NEW a \in Corrections,
             \/ \E w \in Rows, d \in Deltas : AdjustStock(a, w, d) \/ Deduct(a, w, d)
             \/ AdjustCommit(a) \/ AdjustLost(a)
      PROVE  TransferInv' /\ Logged
  BY <1>4, FixStep DEF Logged
<1>5. CASE UNCHANGED vars
  <2>1. UNCHANGED <<transfer, log, quantity, at, call, fixing, adjusted, overtaken>>
    BY <1>5 DEF vars, fixVars
  <2>2. QED BY <2>1 DEF TransferInv, TypeOK, Carried, LoggedRows, Created, Logged
<1>6. QED BY <1>1, <1>2, <1>3, <1>4, <1>5 DEF Next

LEMMA TransferInvariant == Spec => []TransferInv
<1>1. TransferInv /\ [Next]_vars => TransferInv'
  BY NextTransferInv
<1>2. QED BY <1>1, InitTransferInv, PTL DEF Spec

\* Type correctness of transfers, branch stock and handlers.
THEOREM TypeCorrect == Spec => []TypeOK
<1>1. TransferInv => TypeOK
  BY DEF TransferInv
<1>2. QED BY <1>1, TransferInvariant, PTL

\* However handlers race on stale reads, the transfers implement Workflow: none is
\* dispatched or completed that was never approved.
THEOREM TransfersImplementWorkflow == Spec => LogFollowsWorkflow
<1>1. Init => TransferWorkflow!Init
  BY DEF Init, TransferWorkflow!Init
<1>2. TransferInv /\ [Next]_vars => [TransferWorkflow!Next]_log
  BY NextTransferInv DEF Logged
<1>3. QED
  BY <1>1, <1>2, TransferInvariant, PTL
  DEF Spec, LogFollowsWorkflow, TransferWorkflow!Spec
------------------------------------------------------------------------------
(* The stock follows the completions.                                      *)
(*                                                                         *)
(* The sums over the transfers that exist are taken over all of them: one  *)
(* that does not exist has an empty log, and adds nothing.                 *)

CompletedIn(l) == {k \in DOMAIN l : l[k] = "COMPLETED"}

Units(row, l) == Cardinality(CompletedIn(l)) * row.qty

\* The units that the completions recorded in the logs brought to and took from b.
In(rows, logs, b) == [t \in Transfers |-> IF rows[t].to = b THEN Units(rows[t], logs[t]) ELSE 0]
Out(rows, logs, b) == [t \in Transfers |-> IF rows[t].from = b THEN Units(rows[t], logs[t]) ELSE 0]

\* The quantities of the rows but those in except, less what the corrections add up to.
Explained(rows, logs, stock, fixes, except) ==
  \A w \in Rows \ except :
    stock[w] = InitialStock[w] + fixes[w] + SumFunctionOnSet(In(rows, logs, BranchOf[w]), Transfers)
                                          - SumFunctionOnSet(Out(rows, logs, BranchOf[w]), Transfers)

LEMMA CompletedCount ==
  ASSUME NEW l \in Seq(Statuses)
  PROVE  IsFiniteSet(CompletedIn(l)) /\ Cardinality(CompletedIn(l)) \in Nat
<1>1. DOMAIN l = 1..Len(l) /\ Len(l) \in Nat
  OBVIOUS
<1>2. IsFiniteSet(1..Len(l)) /\ CompletedIn(l) \subseteq 1..Len(l)
  BY <1>1, FS_Interval DEF CompletedIn
<1>3. QED BY <1>2, FS_Subset, FS_CardinalityType

LEMMA CompletedAppend ==
  ASSUME NEW l \in Seq(Statuses), NEW s \in Statuses
  PROVE  Cardinality(CompletedIn(Append(l, s)))
           = Cardinality(CompletedIn(l)) + (IF s = "COMPLETED" THEN 1 ELSE 0)
<1> DEFINE n == Len(l) + 1
<1>1. /\ n \notin DOMAIN l /\ DOMAIN Append(l, s) = DOMAIN l \cup {n}
      /\ Append(l, s)[n] = s /\ \A k \in DOMAIN l : Append(l, s)[k] = l[k]
  OBVIOUS
<1> HIDE DEF n
<1>2. CompletedIn(Append(l, s)) = IF s = "COMPLETED" THEN CompletedIn(l) \cup {n} ELSE CompletedIn(l)
  BY <1>1 DEF CompletedIn
<1>3. n \notin CompletedIn(l)
  BY <1>1 DEF CompletedIn
<1>4. IsFiniteSet(CompletedIn(l)) /\ Cardinality(CompletedIn(l)) \in Nat
  BY CompletedCount
<1>5. Cardinality(CompletedIn(l) \cup {n}) = Cardinality(CompletedIn(l)) + 1
  BY <1>3, <1>4, FS_AddElement
<1>6. QED BY <1>2, <1>4, <1>5

LEMMA UnitsType ==
  ASSUME NEW row \in Row \cup {NoTransfer}, NEW l \in Seq(Statuses)
  PROVE  Units(row, l) \in Int /\ row.qty \in Int
<1>1. row.qty \in Int
  BY MaxQuantityAssumption DEF Row, NoTransfer
<1>2. QED BY <1>1, CompletedCount DEF Units

LEMMA EmptyLog == ASSUME NEW row \in Row \cup {NoTransfer} PROVE Units(row, <<>>) = 0
<1>1. Cardinality(CompletedIn(<<>>)) = 0
  BY FS_EmptySet DEF CompletedIn
<1>2. <<>> \in Seq(Statuses)
  OBVIOUS
<1>3. row.qty \in Int
  BY <1>2, UnitsType
<1>4. Units(row, <<>>) = 0 * row.qty
  BY <1>1 DEF Units
<1>5. QED BY <1>3, <1>4

LEMMA TermsType ==
  ASSUME NEW rows \in [Transfers -> Row \cup {NoTransfer}],
         NEW logs \in [Transfers -> Seq(Statuses)], NEW b
  PROVE  \A t \in Transfers : In(rows, logs, b)[t] \in Int /\ Out(rows, logs, b)[t] \in Int
BY UnitsType DEF In, Out

\* The property in terms of all the transfers; rows, logs and stock may be those
\* before a step or after it.
LEMMA ExplainedStock ==
  ASSUME NEW rows \in [Transfers -> Row \cup {NoTransfer}],
         NEW logs \in [Transfers -> Seq(Statuses)],
         \A t \in Transfers : rows[t] = NoTransfer => logs[t] = <<>>, NEW b
  PROVE  LET open == {t \in Transfers : rows[t] # NoTransfer}
             units(t) == Cardinality({k \in DOMAIN logs[t] : logs[t][k] = "COMPLETED"}) * rows[t].qty
         IN  /\ SumFunctionOnSet([t \in open |-> IF rows[t].to = b THEN units(t) ELSE 0], open)
                  = SumFunctionOnSet(In(rows, logs, b), Transfers)
             /\ SumFunctionOnSet([t \in open |-> IF rows[t].from = b THEN units(t) ELSE 0], open)
                  = SumFunctionOnSet(Out(rows, logs, b), Transfers)
<1> DEFINE open == {t \in Transfers : rows[t] # NoTransfer}
           in == [t \in open |-> IF rows[t].to = b THEN Units(rows[t], logs[t]) ELSE 0]
           out == [t \in open |-> IF rows[t].from = b THEN Units(rows[t], logs[t]) ELSE 0]
           allIn == In(rows, logs, b)
           allOut == Out(rows, logs, b)
<1>1. open \in SUBSET Transfers /\ IsFiniteSet(open) /\ IsFiniteSet(Transfers)
  BY RequestsAssumption, FS_Subset
<1>2. \A t \in Transfers : allIn[t] \in Int /\ allOut[t] \in Int
  BY TermsType
<1>3. \A t \in open : in[t] = allIn[t] /\ out[t] = allOut[t]
  BY DEF In, Out
<1>4. \A t \in Transfers \ open : allIn[t] = 0 /\ allOut[t] = 0
  BY EmptyLog DEF In, Out
<1> HIDE DEF open, in, out, allIn, allOut
<1>5. /\ SumFunctionOnSet(allIn, open) = SumFunctionOnSet(in, open)
      /\ SumFunctionOnSet(allOut, open) = SumFunctionOnSet(out, open)
  BY <1>1, <1>2, <1>3, SumSame
<1>6. /\ SumFunctionOnSet(allIn, Transfers) = SumFunctionOnSet(allIn, open)
      /\ SumFunctionOnSet(allOut, Transfers) = SumFunctionOnSet(allOut, open)
  BY <1>1, <1>2, <1>4, SumWithoutZeros
<1>7. QED BY <1>5, <1>6 DEF open, in, out, allIn, allOut, Units, CompletedIn

LEMMA OneMore ==
  ASSUME NEW c \in Int, NEW q \in Int
  PROVE  (c + 1) * q = c * q + q
OBVIOUS

LEMMA OneTermChanges ==
  ASSUME NEW t \in Transfers, NEW f, NEW g,
         \A u \in Transfers : f[u] \in Int /\ g[u] \in Int,
         \A u \in Transfers \ {t} : g[u] = f[u]
  PROVE  SumFunctionOnSet(g, Transfers) = SumFunctionOnSet(f, Transfers) - f[t] + g[t]
<1>1. IsFiniteSet(Transfers)
  BY RequestsAssumption
<1>2. QED BY <1>1, SumChange

\* The same units, on both sides of a step.
LEMMA SameUnits ==
  ASSUME NEW rows, NEW logs, NEW rows2, NEW logs2, NEW stock, NEW fixes, NEW except,
         \A t \in Transfers : \/ rows2[t].to = rows[t].to /\ rows2[t].from = rows[t].from
                                 /\ Units(rows2[t], logs2[t]) = Units(rows[t], logs[t])
                              \/ Units(rows[t], logs[t]) = 0 /\ Units(rows2[t], logs2[t]) = 0,
         Explained(rows, logs, stock, fixes, except)
  PROVE  Explained(rows2, logs2, stock, fixes, except)
<1>1. \A b : In(rows2, logs2, b) = In(rows, logs, b) /\ Out(rows2, logs2, b) = Out(rows, logs, b)
  BY DEF In, Out
<1>2. QED BY <1>1 DEF Explained

\* What the write of a completion does to rows, logs and stock.
Completes(t, rows, logs, stock, rows2, logs2, stock2) ==
  /\ rows \in [Transfers -> Row \cup {NoTransfer}] /\ logs \in [Transfers -> Seq(Statuses)]
  /\ rows2 \in [Transfers -> Row \cup {NoTransfer}] /\ logs2 \in [Transfers -> Seq(Statuses)]
  /\ \A u \in Transfers \ {t} : rows2[u] = rows[u] /\ logs2[u] = logs[u]
  /\ rows2[t].to = rows[t].to /\ rows2[t].from = rows[t].from /\ rows2[t].qty = rows[t].qty
  /\ logs2[t] = Append(logs[t], "COMPLETED")
  /\ stock \in [Rows -> Int]
  /\ \A w \in Rows : stock2[w] = stock[w] - (IF BranchOf[w] = rows[t].from THEN rows[t].qty ELSE 0)
                                         + (IF BranchOf[w] = rows[t].to THEN rows[t].qty ELSE 0)

\* It adds the quantity of its transfer to the units the transfer moved.
LEMMA CompletedUnits ==
  ASSUME NEW rows, NEW logs, NEW stock, NEW rows2, NEW logs2, NEW stock2, NEW t \in Transfers,
         NEW fixes \in [Rows -> Int], NEW except,
         Completes(t, rows, logs, stock, rows2, logs2, stock2),
         Explained(rows, logs, stock, fixes, except)
  PROVE  Explained(rows2, logs2, stock2, fixes, except)
<1> USE DEF Completes
<1> DEFINE q == rows[t].qty
           old == Units(rows[t], logs[t])
<1>1. q \in Int /\ old \in Int
  BY UnitsType
<1> HIDE DEF old
<1>2. Units(rows2[t], logs2[t]) = old + q
  <2> DEFINE c == Cardinality(CompletedIn(logs[t]))
  <2>1. Cardinality(CompletedIn(logs2[t])) = c + 1
    BY CompletedAppend DEF Statuses
  <2>2. c \in Int
    BY CompletedCount
  <2> HIDE DEF c
  <2>3. (c + 1) * q = c * q + q
    BY <1>1, <2>2, OneMore
  <2>4. QED BY <2>1, <2>3 DEF Units, c, old
<1>3. IsFiniteSet(Transfers)
  BY RequestsAssumption
<1>4. ASSUME NEW b
      PROVE  /\ SumFunctionOnSet(In(rows2, logs2, b), Transfers)
                  = SumFunctionOnSet(In(rows, logs, b), Transfers) + (IF b = rows[t].to THEN q ELSE 0)
             /\ SumFunctionOnSet(In(rows, logs, b), Transfers) \in Int
  <2> DEFINE f == In(rows, logs, b)
             g == In(rows2, logs2, b)
  <2>1. \A u \in Transfers : f[u] \in Int /\ g[u] \in Int
    BY TermsType
  <2>2. \A u \in Transfers \ {t} : g[u] = f[u]
    BY DEF In
  <2>3. g[t] = f[t] + (IF b = rows[t].to THEN q ELSE 0)
    <3>1. f[t] = IF rows[t].to = b THEN old ELSE 0
      BY DEF In, old
    <3>2. g[t] = IF rows[t].to = b THEN old + q ELSE 0
      BY <1>2 DEF In
    <3> HIDE DEF f, g, q
    <3>3. QED BY <1>1, <3>1, <3>2
  <2> HIDE DEF f, g
  <2>4. SumFunctionOnSet(g, Transfers) = SumFunctionOnSet(f, Transfers) - f[t] + g[t]
    BY <2>1, <2>2, OneTermChanges
  <2>5. SumFunctionOnSet(f, Transfers) \in Int
    BY <1>3, <2>1, SumType
  <2>6. QED BY <1>1, <2>1, <2>3, <2>4, <2>5 DEF f, g
<1>5. ASSUME NEW b
      PROVE  /\ SumFunctionOnSet(Out(rows2, logs2, b), Transfers)
                  = SumFunctionOnSet(Out(rows, logs, b), Transfers) + (IF b = rows[t].from THEN q ELSE 0)
             /\ SumFunctionOnSet(Out(rows, logs, b), Transfers) \in Int
  <2> DEFINE f == Out(rows, logs, b)
             g == Out(rows2, logs2, b)
  <2>1. \A u \in Transfers : f[u] \in Int /\ g[u] \in Int
    BY TermsType
  <2>2. \A u \in Transfers \ {t} : g[u] = f[u]
    BY DEF Out
  <2>3. g[t] = f[t] + (IF b = rows[t].from THEN q ELSE 0)
    <3>1. f[t] = IF rows[t].from = b THEN old ELSE 0
      BY DEF Out, old
    <3>2. g[t] = IF rows[t].from = b THEN old + q ELSE 0
      BY <1>2 DEF Out
    <3> HIDE DEF f, g, q
    <3>3. QED BY <1>1, <3>1, <3>2
  <2> HIDE DEF f, g
  <2>4. SumFunctionOnSet(g, Transfers) = SumFunctionOnSet(f, Transfers) - f[t] + g[t]
    BY <2>1, <2>2, OneTermChanges
  <2>5. SumFunctionOnSet(f, Transfers) \in Int
    BY <1>3, <2>1, SumType
  <2>6. QED BY <1>1, <2>1, <2>3, <2>4, <2>5 DEF f, g
<1>6. \A w \in Rows : stock[w] \in Int /\ InitialStock[w] \in Int /\ fixes[w] \in Int
  BY StockAssumption
<1> HIDE DEF q
<1>7. ASSUME NEW w \in Rows \ except
      PROVE  stock2[w] = InitialStock[w] + fixes[w]
                           + SumFunctionOnSet(In(rows2, logs2, BranchOf[w]), Transfers)
                           - SumFunctionOnSet(Out(rows2, logs2, BranchOf[w]), Transfers)
  <2> DEFINE b == BranchOf[w]
             in == SumFunctionOnSet(In(rows, logs, b), Transfers)
             out == SumFunctionOnSet(Out(rows, logs, b), Transfers)
             in2 == SumFunctionOnSet(In(rows2, logs2, b), Transfers)
             out2 == SumFunctionOnSet(Out(rows2, logs2, b), Transfers)
  <2>1. in2 = in + (IF b = rows[t].to THEN q ELSE 0) /\ in \in Int
    BY <1>4
  <2>2. out2 = out + (IF b = rows[t].from THEN q ELSE 0) /\ out \in Int
    BY <1>5
  <2>3. stock[w] = InitialStock[w] + fixes[w] + in - out
    BY DEF Explained
  <2>4. stock2[w] = stock[w] - (IF b = rows[t].from THEN q ELSE 0) + (IF b = rows[t].to THEN q ELSE 0)
    BY DEF q
  <2> DEFINE plus == IF b = rows[t].to THEN q ELSE 0
             minus == IF b = rows[t].from THEN q ELSE 0
  <2>5. plus \in Int /\ minus \in Int
    BY <1>1
  <2> HIDE DEF in, out, in2, out2, plus, minus, b, Completes
  <2>6. stock2[w] = InitialStock[w] + fixes[w] + in2 - out2
    BY <1>6, <2>1, <2>2, <2>3, <2>4, <2>5 DEF plus, minus
  <2>7. QED BY <2>6 DEF in2, out2, b
<1>8. QED BY <1>7 DEF Explained

------------------------------------------------------------------------------

StockInv == TransferInv /\ Explained(transfer, log, quantity, adjusted, overtaken)

LEMMA RowsAndLogs ==
  ASSUME TransferInv
  PROVE  /\ transfer \in [Transfers -> Row \cup {NoTransfer}] /\ log \in [Transfers -> Seq(Statuses)]
         /\ quantity \in [Rows -> Int] /\ adjusted \in [Rows -> Int]
         /\ \A t \in Transfers : transfer[t] = NoTransfer => log[t] = <<>>
BY DEF TransferInv, TypeOK, LoggedRows, Created

LEMMA StockFollows == StockInv => StockFollowsCompletions
<1> SUFFICES ASSUME StockInv PROVE StockFollowsCompletions
  OBVIOUS
<1>1. \A b : /\ Received(b) = SumFunctionOnSet(In(transfer, log, b), Transfers)
             /\ Sent(b) = SumFunctionOnSet(Out(transfer, log, b), Transfers)
  BY RowsAndLogs, ExplainedStock DEF Received, Sent, Created, Completions, StockInv
<1>2. QED BY <1>1 DEF StockInv, Explained, StockFollowsCompletions

LEMMA InitStockInv == Init => StockInv
<1> SUFFICES ASSUME Init PROVE StockInv
  OBVIOUS
<1>1. TransferInv
  BY InitTransferInv
<1>2. \A t \in Transfers : log[t] = <<>> /\ Units(transfer[t], log[t]) = 0
  BY EmptyLog DEF Init
<1>3. \A b : \A t \in Transfers : In(transfer, log, b)[t] = 0 /\ Out(transfer, log, b)[t] = 0
  BY <1>2 DEF In, Out
<1>4. IsFiniteSet(Transfers) /\ {} \in SUBSET Transfers
  BY RequestsAssumption
<1>5. ASSUME NEW b
      PROVE  /\ SumFunctionOnSet(In(transfer, log, b), Transfers) = 0
             /\ SumFunctionOnSet(Out(transfer, log, b), Transfers) = 0
  BY <1>3, <1>4, SumWithoutZeros, SumEmpty
<1>6. \A w \in Rows : quantity[w] = InitialStock[w] + adjusted[w] + 0 - 0
  BY StockAssumption DEF Init
<1>7. QED BY <1>1, <1>5, <1>6 DEF StockInv, Explained

\* A step that completes no transfer moves no units.
LEMMA KeepsStock ==
  ASSUME StockInv, TransferInv', UNCHANGED <<quantity, adjusted, overtaken>>,
         \A t \in Transfers :
           \/ transfer'[t] = transfer[t] /\ log'[t] = log[t]
           \/ /\ transfer'[t].to = transfer[t].to /\ transfer'[t].from = transfer[t].from
              /\ transfer'[t].qty = transfer[t].qty
              /\ \E s \in Statuses \ {"COMPLETED"} : log'[t] = Append(log[t], s)
           \/ log[t] = <<>> /\ \E s \in Statuses \ {"COMPLETED"} : log'[t] = <<s>>
  PROVE  StockInv'
<1>1. /\ transfer \in [Transfers -> Row \cup {NoTransfer}] /\ log \in [Transfers -> Seq(Statuses)]
      /\ transfer' \in [Transfers -> Row \cup {NoTransfer}]
  BY RowsAndLogs DEF StockInv, TransferInv, TypeOK
<1>2. ASSUME NEW t \in Transfers
      PROVE  \/ transfer'[t].to = transfer[t].to /\ transfer'[t].from = transfer[t].from
                /\ Units(transfer'[t], log'[t]) = Units(transfer[t], log[t])
             \/ Units(transfer[t], log[t]) = 0 /\ Units(transfer'[t], log'[t]) = 0
  <2>1. CASE transfer'[t] = transfer[t] /\ log'[t] = log[t]
    BY <2>1
  <2>2. ASSUME transfer'[t].to = transfer[t].to, transfer'[t].from = transfer[t].from,
               transfer'[t].qty = transfer[t].qty,
               NEW s \in Statuses \ {"COMPLETED"}, log'[t] = Append(log[t], s)
        PROVE  Units(transfer'[t], log'[t]) = Units(transfer[t], log[t])
    <3>1. Cardinality(CompletedIn(log'[t])) = Cardinality(CompletedIn(log[t])) + 0
      BY <1>1, <2>2, CompletedAppend
    <3>2. Cardinality(CompletedIn(log[t])) \in Nat
      BY <1>1, CompletedCount
    <3>3. QED BY <2>2, <3>1, <3>2 DEF Units
  <2>3. ASSUME log[t] = <<>>, NEW s \in Statuses \ {"COMPLETED"}, log'[t] = <<s>>
        PROVE  Units(transfer[t], log[t]) = 0 /\ Units(transfer'[t], log'[t]) = 0
    <3>1. CompletedIn(log'[t]) = {}
      BY <2>3 DEF CompletedIn
    <3>2. Units(transfer'[t], log'[t]) = 0 * transfer'[t].qty
      BY <3>1, FS_EmptySet DEF Units
    <3>3. transfer'[t].qty \in Int
      BY <1>1, MaxQuantityAssumption DEF Row, NoTransfer
    <3>4. QED BY <1>1, <2>3, <3>2, <3>3, EmptyLog
  <2>4. QED BY <2>1, <2>2, <2>3
<1>3. Explained(transfer', log', quantity, adjusted, overtaken)
  BY <1>2, SameUnits DEF StockInv
<1>4. QED BY <1>3 DEF StockInv

LEMMA CompleteKeepsStock ==
  ASSUME StockInv, TransferInv', NEW r \in Requests, CompleteCommit(r)
  PROVE  StockInv'
<1> DEFINE t == call[r].transfer
<1>1. t \in Transfers /\ transfer[t] \in Row
  BY CreatedRows DEF CompleteCommit, StockInv, TransferInv, Carried
<1>2. /\ transfer \in [Transfers -> Row \cup {NoTransfer}] /\ log \in [Transfers -> Seq(Statuses)]
      /\ transfer' \in [Transfers -> Row \cup {NoTransfer}] /\ log' \in [Transfers -> Seq(Statuses)]
      /\ quantity \in [Rows -> Int]
  BY RowsAndLogs DEF StockInv, TransferInv, TypeOK
<1>3. /\ transfer' = [transfer EXCEPT ![t].status = "COMPLETED"]
      /\ log' = [log EXCEPT ![t] = Append(@, "COMPLETED")] /\ quantity' = Moved(t)
      /\ UNCHANGED <<adjusted, overtaken>>
  BY DEF CompleteCommit, Mark, fixVars
<1> HIDE DEF t
<1>4. /\ \A u \in Transfers \ {t} : transfer'[u] = transfer[u] /\ log'[u] = log[u]
      /\ log'[t] = Append(log[t], "COMPLETED")
      /\ transfer'[t] = [transfer[t] EXCEPT !.status = "COMPLETED"]
  BY <1>1, <1>2, <1>3
<1>5. /\ transfer'[t].to = transfer[t].to /\ transfer'[t].from = transfer[t].from
      /\ transfer'[t].qty = transfer[t].qty
  BY <1>1, <1>4 DEF Row
<1>6. Explained(transfer', log', Moved(t), adjusted, overtaken)
  <2> DEFINE moved == Moved(t)
  <2>1. \A w \in Rows : moved[w] = quantity[w] - (IF BranchOf[w] = transfer[t].from THEN transfer[t].qty ELSE 0)
                                              + (IF BranchOf[w] = transfer[t].to THEN transfer[t].qty ELSE 0)
    BY DEF Moved
  <2>2. Explained(transfer, log, quantity, adjusted, overtaken) /\ adjusted \in [Rows -> Int]
    BY RowsAndLogs DEF StockInv
  <2> HIDE DEF moved
  <2>3. Completes(t, transfer, log, quantity, transfer', log', moved)
    BY <1>1, <1>2, <1>4, <1>5, <2>1 DEF Completes
  <2>4. Explained(transfer', log', moved, adjusted, overtaken)
    BY <1>1, <2>2, <2>3, CompletedUnits
  <2>5. QED BY <2>4 DEF moved
<1>7. QED BY <1>3, <1>6 DEF StockInv

\* A correction that finds the row as it saw it changes the row and its ledger by the same.
LEMMA RowMoves ==
  ASSUME StockInv, TransferInv', UNCHANGED <<transfer, log>>, overtaken \subseteq overtaken',
         NEW w \in Rows, NEW d \in Int,
         w \notin overtaken' => quantity'[w] = quantity[w] + d /\ adjusted'[w] = adjusted[w] + d,
         \A v \in Rows \ {w} : quantity'[v] = quantity[v] /\ adjusted'[v] = adjusted[v]
  PROVE  StockInv'
<1> DEFINE in(v) == SumFunctionOnSet(In(transfer, log, BranchOf[v]), Transfers)
           out(v) == SumFunctionOnSet(Out(transfer, log, BranchOf[v]), Transfers)
<1>1. \A v \in Rows : in(v) \in Int /\ out(v) \in Int
  BY RowsAndLogs, TermsType, SumType, RequestsAssumption DEF StockInv
<1>2. \A v \in Rows : quantity[v] \in Int /\ adjusted[v] \in Int /\ InitialStock[v] \in Int
  BY RowsAndLogs, StockAssumption DEF StockInv
<1>3. \A v \in Rows \ overtaken : quantity[v] = InitialStock[v] + adjusted[v] + in(v) - out(v)
  BY DEF StockInv, Explained
<1> HIDE DEF in, out
<1>4. ASSUME NEW v \in Rows \ overtaken'
      PROVE  quantity'[v] = InitialStock[v] + adjusted'[v] + in(v) - out(v)
  <2>1. v \in Rows \ overtaken
    OBVIOUS
  <2>2. CASE v = w
    BY <1>1, <1>2, <1>3, <2>1, <2>2
  <2>3. CASE v # w
    BY <1>3, <2>1, <2>3
  <2>4. QED BY <2>2, <2>3
<1>5. QED BY <1>4 DEF StockInv, Explained, in, out

LEMMA NextStockInv == StockInv /\ [Next]_vars => StockInv'
<1> SUFFICES ASSUME StockInv, [Next]_vars PROVE StockInv'
  OBVIOUS
<1>1. TransferInv' /\ TransferInv
  BY NextTransferInv DEF StockInv
<1>2. ASSUME UNCHANGED <<transfer, log, quantity, adjusted, overtaken>> PROVE StockInv'
  BY <1>1, <1>2 DEF StockInv
<1>3. ASSUME NEW t \in Transfers, NEW from, NEW to, NEW qty, NEW by,
             CreateRequest(t, from, to, qty, by)
      PROVE  StockInv'
  <2>1. log[t] = <<>> /\ log' = [log EXCEPT ![t] = <<"REQUESTED">>]
    BY <1>1, <1>3 DEF CreateRequest, TransferInv, LoggedRows
  <2>2. "REQUESTED" \in Statuses \ {"COMPLETED"}
    BY DEF Statuses
  <2>3. /\ \A u \in Transfers \ {t} : transfer'[u] = transfer[u] /\ log'[u] = log[u]
        /\ log'[t] = <<"REQUESTED">> /\ UNCHANGED <<quantity, adjusted, overtaken>>
    BY <1>1, <1>3, <2>1 DEF CreateRequest, TransferInv, TypeOK, fixVars
  <2>4. QED BY <1>1, <2>1, <2>2, <2>3, KeepsStock
<1>4. ASSUME NEW r \in Requests, StatusCommit(r) PROVE StockInv'
  <2> DEFINE t == call[r].transfer
             s == call[r].status
  <2>1. t \in Transfers /\ transfer[t] \in Row /\ s \in Statuses \ {"COMPLETED"}
    BY <1>1, <1>4, CreatedRows DEF StatusCommit, TransferInv, Carried, Call
  <2>2. /\ transfer' = [transfer EXCEPT ![t].status = s]
        /\ log' = [log EXCEPT ![t] = Append(@, s)] 
        /\ UNCHANGED <<quantity, adjusted, overtaken>>
    BY <1>4 DEF StatusCommit, Mark, fixVars
  <2> HIDE DEF t, s
  <2>3. /\ \A u \in Transfers \ {t} : transfer'[u] = transfer[u] /\ log'[u] = log[u]
        /\ log'[t] = Append(log[t], s) /\ transfer'[t] = [transfer[t] EXCEPT !.status = s]
    BY <1>1, <2>1, <2>2 DEF TransferInv, TypeOK
  <2>4. /\ transfer'[t].to = transfer[t].to /\ transfer'[t].from = transfer[t].from
        /\ transfer'[t].qty = transfer[t].qty
    BY <2>1, <2>3 DEF Row
  <2>5. QED BY <1>1, <2>1, <2>2, <2>3, <2>4, KeepsStock
<1>5. ASSUME NEW r \in Requests, CompleteCommit(r) PROVE StockInv'
  BY <1>1, <1>5, CompleteKeepsStock
<1>6. ASSUME NEW r \in Requests, NEW t \in Transfers,
             \/ ApproveTransfer(r, t) \/ RejectTransfer(r, t) \/ MarkInTransit(r, t)
             \/ CompleteTransfer(r, t) \/ \E by \in Staff : CancelTransfer(r, t, by)
      PROVE  StockInv'
  BY <1>2, <1>6 DEF ApproveTransfer, RejectTransfer, MarkInTransit, CompleteTransfer,
                    CancelTransfer, Read, fixVars
<1>7. ASSUME NEW r \in Requests, RequestLost(r) PROVE StockInv'
  BY <1>2, <1>7 DEF RequestLost, fixVars
<1>8. ASSUME NEW a \in Corrections, NEW w \in Rows, NEW d \in Deltas, AdjustStock(a, w, d)
      PROVE  StockInv'
  BY <1>2, <1>8 DEF AdjustStock, transferVars
<1>9. ASSUME NEW a \in Corrections, AdjustLost(a) PROVE StockInv'
  BY <1>2, <1>9 DEF AdjustLost, transferVars
<1>10. ASSUME NEW a \in Corrections, AdjustCommit(a) PROVE StockInv'
  <2> DEFINE w == fixing[a].row
             d == fixing[a].delta
  <2>1. w \in Rows /\ d \in Int /\ fixing[a].seen \in Int
    BY <1>1, <1>10 DEF AdjustCommit, TransferInv, TypeOK, Fix, NoFix
  <2>2. /\ quantity' = [quantity EXCEPT ![w] = fixing[a].seen + d]
        /\ adjusted' = [adjusted EXCEPT ![w] = @ + d]
        /\ overtaken' = IF quantity[w] = fixing[a].seen THEN overtaken ELSE overtaken \cup {w}
        /\ transfer' = transfer /\ log' = log
    BY <1>10 DEF AdjustCommit, transferVars
  <2> HIDE DEF w, d
  <2>3. /\ overtaken \subseteq overtaken'
        /\ w \notin overtaken' => quantity'[w] = quantity[w] + d /\ adjusted'[w] = adjusted[w] + d
        /\ \A v \in Rows \ {w} : quantity'[v] = quantity[v] /\ adjusted'[v] = adjusted[v]
    BY <1>1, <2>1, <2>2 DEF TransferInv, TypeOK
  <2>4. QED BY <1>1, <2>1, <2>2, <2>3, RowMoves
<1>11. ASSUME NEW a \in Corrections, NEW w \in Rows, NEW n \in Deltas, Deduct(a, w, n)
      PROVE  StockInv'
  <2>1. /\ quantity' = [quantity EXCEPT ![w] = @ - n] /\ adjusted' = [adjusted EXCEPT ![w] = @ - n]
        /\ transfer' = transfer /\ log' = log /\ overtaken' = overtaken /\ n \in Int /\ -n \in Int
    BY <1>11, DeltasAssumption DEF Deduct, transferVars
  <2>2. /\ quantity'[w] = quantity[w] + (-n) /\ adjusted'[w] = adjusted[w] + (-n)
        /\ \A v \in Rows \ {w} : quantity'[v] = quantity[v] /\ adjusted'[v] = adjusted[v]
    BY <1>1, <2>1 DEF TransferInv, TypeOK
  <2>3. QED BY <1>1, <2>1, <2>2, RowMoves
<1>12. CASE UNCHANGED vars
  BY <1>2, <1>12 DEF vars, fixVars
<1>13. QED
  BY <1>3, <1>4, <1>5, <1>6, <1>7, <1>8, <1>9, <1>10, <1>11, <1>12 DEF Next

\* The stock of every row is what it was, what its corrections add up to and what the
\* completions brought to its branch, less what they took: units move with the status or
\* not at all, and only a correction that overtakes them unsettles a row.
THEOREM StockStaysExplained == Spec => []StockFollowsCompletions
BY InitStockInv, NextStockInv, StockFollows, PTL DEF Spec
=============================================================================
