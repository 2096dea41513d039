------------------------------ MODULE Payroll ------------------------------
(***************************************************************************)
(* Payrolls of hr-service: calculation, manual adjustment, approval and    *)
(* payment, while the employee's salary may change.  Payrolls of different *)
(* employees have nothing in common, so the module has one employee.       *)
(*                                                                         *)
(* Every handler reads a row, checks that its status allows the call, and  *)
(* writes after at least one more await, calculate even after a request to *)
(* order-service.  Nothing is checked again when it writes.                *)
(***************************************************************************)
EXTENDS Integers, Sequences, FiniteSets

CONSTANTS Periods,      \* months: each has at most one payroll (a unique index)
          PayrollCalls, \* calls of the handlers, each used once
          Salaries,     \* base salary plus allowance
          Withheld,     \* salary -> EPF and ETF on it
          Amounts,      \* commissions, and deductions entered by hand
          Same          \* stands for a field that an adjustment leaves out

ASSUME SalariesAssumption == Salaries \subseteq Nat /\ Salaries # {}
ASSUME AmountsAssumption == Amounts \subseteq Nat /\ 0 \in Amounts /\ Same \notin Amounts
ASSUME WithheldAssumption == Withheld \in [Salaries -> Nat]

VARIABLES salary,   \* what the employee row says
          past,     \* salaries it has said so far
          payroll,  \* period -> its row, or NoPayroll
          log,      \* period -> the statuses it had (the code keeps the last one only)
          place,    \* call -> where its handler is
          work      \* call -> what its handler carries in local variables

payrollVars == <<salary, past, payroll, log, place, work>>

PayrollStatuses == {"DRAFT", "APPROVED", "PAID"}

\* The status tests of the handlers, seen as a workflow.
Transitions == [s \in PayrollStatuses |-> CASE s = "DRAFT" -> {"DRAFT", "APPROVED"}
                                            [] s = "APPROVED" -> {"PAID"}
                                            [] OTHER -> {}]

NoPayroll == [status |-> "none", base |-> 0, commission |-> 0, deductions |-> 0, netPay |-> 0]
NoWork == [op |-> "none", period |-> CHOOSE p \in Periods : TRUE, row |-> NoPayroll]

Created == {p \in Periods : payroll[p] # NoPayroll}

\* A row as the handlers compute it.
Computed(status, base, commission, deductions) ==
  [status |-> status, base |-> base, commission |-> commission, deductions |-> deductions,
   netPay |-> base + commission - deductions]

PayrollInit == /\ salary \in Salaries
               /\ past = {salary}
               /\ payroll = [p \in Periods |-> NoPayroll]
               /\ log = [p \in Periods |-> <<>>]
               /\ place = [r \in PayrollCalls |-> "idle"]
               /\ work = [r \in PayrollCalls |-> NoWork]

------------------------------------------------------------------------------
(* The read halves.                                                        *)

UpdateEmployee(s) ==
  /\ salary' = s /\ past' = past \cup {s}
  /\ UNCHANGED <<payroll, log, place, work>>

\* The handler goes on to write newRow, or answers 400.
ReadPayroll(r, op, p, newRow, accepted) ==
  /\ IF accepted
     THEN /\ place' = [place EXCEPT ![r] = "checked"]
          /\ work' = [work EXCEPT ![r] = [op |-> op, period |-> p, row |-> newRow]]
     ELSE place' = [place EXCEPT ![r] = "refused"] /\ UNCHANGED work
  /\ UNCHANGED <<salary, past, payroll, log>>

\* calculate reads the employee first and the payroll of the period after that.
Calculate(r, p) ==
  /\ place[r] = "idle"
  /\ place' = [place EXCEPT ![r] = "reading"]
  /\ work' = [work EXCEPT ![r] = [op |-> "calculate", period |-> p,
                                  row |-> Computed("DRAFT", salary, 0, Withheld[salary])]]
  /\ UNCHANGED <<salary, past, payroll, log>>

\* The commission is whatever order-service says, 0 when it does not answer.
FindExisting(r, commission) ==
  /\ place[r] = "reading"
  /\ LET p == work[r].period
         row == work[r].row
     IN  ReadPayroll(r, IF p \in Created THEN "recalculate" ELSE "create", p,
              Computed("DRAFT", row.base, commission, row.deductions),
              p \in Created => payroll[p].status = "DRAFT")

\* What adjust stores for a field: the call's, or the one read when the call has none.
Given(x, stored) == IF x = Same THEN stored ELSE x

\* adjust computes the net pay from the row it read, with what the call replaces.
Adjust(r, p, commission, deductions) ==
  /\ place[r] = "idle"
  /\ ReadPayroll(r, "adjust", p,
                 Computed("DRAFT", payroll[p].base, Given(commission, payroll[p].commission),
                          Given(deductions, payroll[p].deductions)),
                 payroll[p].status = "DRAFT")

Approve(r, p) ==
  /\ place[r] = "idle" /\ p \in Created
  /\ ReadPayroll(r, "approve", p, payroll[p], payroll[p].status = "DRAFT")

\* Mutant: a draft may be paid too.
MarkPaidDraft(r, p) ==
  /\ place[r] = "idle" /\ p \in Created
  /\ ReadPayroll(r, "pay", p, payroll[p], payroll[p].status \in {"DRAFT", "APPROVED"})

MarkPaid(r, p) ==
  /\ place[r] = "idle" /\ p \in Created
  /\ ReadPayroll(r, "pay", p, payroll[p], payroll[p].status = "APPROVED")

------------------------------------------------------------------------------
(* The write halves.                                                       *)

PayrollChecked(r, op) == place[r] = "checked" /\ work[r].op = op
PayrollAnswer(r, how) == place' = [place EXCEPT ![r] = how] /\ UNCHANGED <<salary, past, work>>

Store(r, row) == payroll' = [payroll EXCEPT ![work[r].period] = row]
Log(r, status) == log' = [log EXCEPT ![work[r].period] = Append(@, status)]

\* A second create for the period is refused by the unique index.
CreateCommit(r) ==
  /\ PayrollChecked(r, "create")
  /\ IF work[r].period \in Created
     THEN PayrollAnswer(r, "refused") /\ UNCHANGED <<payroll, log>>
     ELSE PayrollAnswer(r, "done") /\ Store(r, work[r].row) /\ Log(r, "DRAFT")

\* The update writes the whole row, its status too.
RecalculateCommit(r) ==
  /\ PayrollChecked(r, "recalculate")
  /\ PayrollAnswer(r, "done") /\ Store(r, work[r].row) /\ Log(r, "DRAFT")

\* Mutant: only what the call names is written, and the net pay.
AdjustCommitPartial(r) ==
  /\ PayrollChecked(r, "adjust")
  /\ PayrollAnswer(r, "done")
  /\ Store(r, [payroll[work[r].period] EXCEPT !.commission = work[r].row.commission,
                                              !.netPay = work[r].row.netPay])
  /\ UNCHANGED log

\* Commission, deductions and net pay are written; salary and status are not.
AdjustPayrollCommit(r) ==
  /\ PayrollChecked(r, "adjust")
  /\ PayrollAnswer(r, "done")
  /\ Store(r, [payroll[work[r].period] EXCEPT !.commission = work[r].row.commission,
                                              !.deductions = work[r].row.deductions,
                                              !.netPay = work[r].row.netPay])
  /\ UNCHANGED log

\* Mutant: the status is named as the call is.
ApproveCommitVerb(r) ==
  /\ PayrollChecked(r, "approve")
  /\ PayrollAnswer(r, "done")
  /\ Store(r, [payroll[work[r].period] EXCEPT !.status = "approve"]) /\ Log(r, "APPROVED")

ApproveCommit(r) ==
  /\ PayrollChecked(r, "approve")
  /\ PayrollAnswer(r, "done")
  /\ Store(r, [payroll[work[r].period] EXCEPT !.status = "APPROVED"]) /\ Log(r, "APPROVED")

PaidCommit(r) ==
  /\ PayrollChecked(r, "pay")
  /\ PayrollAnswer(r, "done")
  /\ Store(r, [payroll[work[r].period] EXCEPT !.status = "PAID"]) /\ Log(r, "PAID")

\* The process dies, or the database refuses, before the write.
PayrollCallLost(r) ==
  /\ place[r] \in {"reading", "checked"}
  /\ PayrollAnswer(r, "lost")
  /\ UNCHANGED <<payroll, log>>

PayrollNext ==
  \/ \E s \in Salaries : UpdateEmployee(s)
  \/ \E r \in PayrollCalls, p \in Periods :
       \/ Calculate(r, p)
       \/ Approve(r, p)
       \/ MarkPaid(r, p)
  \/ \E r \in PayrollCalls, p \in Created, c, d \in Amounts \cup {Same} : Adjust(r, p, c, d)
  \/ \E r \in PayrollCalls :
       \/ \E c \in Amounts : FindExisting(r, c)
       \/ CreateCommit(r) \/ RecalculateCommit(r) \/ AdjustPayrollCommit(r)
       \/ ApproveCommit(r) \/ PaidCommit(r) \/ PayrollCallLost(r)

PayrollSpec == PayrollInit /\ [][PayrollNext]_payrollVars

------------------------------------------------------------------------------
(* Properties                                                              *)

PayrollRow == [status : PayrollStatuses, base : Salaries, commission : Nat, deductions : Nat, netPay : Int]
Work == [op : {"calculate", "create", "recalculate", "adjust", "approve", "pay"},
         period : Periods, row : PayrollRow]

\* Every variable has its type; a net pay may be negative.
PayrollTypeOK == /\ salary \in Salaries /\ past \in SUBSET Salaries
                 /\ payroll \in [Periods -> PayrollRow \cup {NoPayroll}]
                 /\ log \in [Periods -> Seq(PayrollStatuses)]
                 /\ place \in [PayrollCalls -> {"idle", "reading", "checked", "refused", "done", "lost"}]
                 /\ work \in [PayrollCalls -> Work \cup {NoWork}]

\* A net pay is explained by the commission and the deductions beside it and a salary
\* the employee had, though an adjustment computes it from a row that a recalculation
\* may have replaced (with the salary of the row itself it need not add up).
NetPayExplained ==
  \A p \in Created : \E s \in past :
    payroll[p].netPay = s + payroll[p].commission - payroll[p].deductions

PayrollWorkflow == INSTANCE Workflow WITH Documents <- Periods, First <- "DRAFT"

\* A payroll is paid only if it was approved, and approved only as a draft, at some
\* time before: a handler may act on a stale status, but on none the payroll never had.
LogFollowsWorkflow == PayrollWorkflow!Spec
=============================================================================
