------------------------------ MODULE Repairs ------------------------------
(***************************************************************************)
(* Repair tickets of repair-service: check-in, the status lifecycle, the   *)
(* two ways to sign for the device and the courier data.                   *)
(*                                                                         *)
(* A handler reads the ticket, checks its status, and writes ticket and    *)
(* history in one transaction later: after a PDF was rendered by the       *)
(* worker service, or at least after the next await.  Other handlers may   *)
(* commit in between.                                                      *)
(***************************************************************************)
EXTENDS Integers, Sequences, FiniteSets

CONSTANTS Tickets,  \* calls of create and kioskCheckin; the ticket has the call's id
          Requests  \* calls on existing tickets, each used once

ASSUME TicketsAssumption == IsFiniteSet(Tickets) /\ Tickets # {}
ASSUME RequestsAssumption == Requests \cap Tickets = {}

VARIABLES row,      \* ticket -> its row in repair_tickets
          history,  \* ticket -> its rows in repair_status_history, oldest first
          at,       \* call -> where its handler is
          drawn,    \* ticket -> the number its handler drew
          call      \* request -> what it asks for

vars == <<row, history, at, drawn, call>>

Statuses == {"RECEIVED", "PENDING_DIAGNOSIS", "AWAITING_PARTS", "UNDER_REPAIR",
             "READY_FOR_PICKUP", "COMPLETED", "CANCELLED"}

ValidTransitions ==
  [s \in Statuses |->
     CASE s = "RECEIVED" -> {"PENDING_DIAGNOSIS", "CANCELLED"}
       [] s = "PENDING_DIAGNOSIS" -> {"AWAITING_PARTS", "UNDER_REPAIR", "CANCELLED"}
       [] s = "AWAITING_PARTS" -> {"UNDER_REPAIR", "CANCELLED"}
       [] s = "UNDER_REPAIR" -> {"READY_FOR_PICKUP", "AWAITING_PARTS", "CANCELLED"}
       [] s = "READY_FOR_PICKUP" -> {"COMPLETED", "UNDER_REPAIR"}
       [] OTHER -> {}]

NoRow == [status |-> "none", number |-> 0, signed |-> FALSE, courier |-> "none"]
NoCall == [op |-> "none", ticket |-> CHOOSE t \in Tickets : TRUE, status |-> "none"]

Created == {t \in Tickets : row[t] # NoRow}

Init == /\ row = [t \in Tickets |-> NoRow]
        /\ history = [t \in Tickets |-> <<>>]
        /\ at = [c \in Tickets \cup Requests |-> "idle"]
        /\ drawn = [t \in Tickets |-> 0]
        /\ call = [r \in Requests |-> NoCall]

------------------------------------------------------------------------------
(* create and kioskCheckin                                                 *)

\* All tickets of the instance are made in one year, so they share the prefix.
GenerateTicketNumber(t) ==
  /\ at[t] = "idle"
  /\ drawn' = [drawn EXCEPT ![t] = Cardinality(Created) + 1]
  /\ at' = [at EXCEPT ![t] = "insert"]
  /\ UNCHANGED <<row, history, call>>

\* Mutant: ticketNumber is not unique.
InsertTicketAnyNumber(t) ==
  /\ at[t] = "insert"
  /\ row' = [row EXCEPT ![t] = [NoRow EXCEPT !.status = "RECEIVED", !.number = drawn[t]]]
  /\ history' = [history EXCEPT ![t] = <<"RECEIVED">>]
  /\ at' = [at EXCEPT ![t] = "done"]
  /\ UNCHANGED <<drawn, call>>

\* Mutant: the row keeps the default status of the schema.
InsertTicketDefaultStatus(t) ==
  /\ at[t] = "insert"
  /\ IF \E u \in Created : row[u].number = drawn[t]
     THEN at' = [at EXCEPT ![t] = "refused"] /\ UNCHANGED <<row, history>>
     ELSE /\ row' = [row EXCEPT ![t] = [NoRow EXCEPT !.status = "PENDING_DIAGNOSIS",
                                                     !.number = drawn[t]]]
          /\ history' = [history EXCEPT ![t] = <<"RECEIVED">>]
          /\ at' = [at EXCEPT ![t] = "done"]
  /\ UNCHANGED <<drawn, call>>

\* ticketNumber is unique: a second insert of a number fails.
InsertTicket(t) ==
  /\ at[t] = "insert"
  /\ IF \E u \in Created : row[u].number = drawn[t]
     THEN at' = [at EXCEPT ![t] = "refused"] /\ UNCHANGED <<row, history>>
     ELSE /\ row' = [row EXCEPT ![t] = [NoRow EXCEPT !.status = "RECEIVED",
                                                     !.number = drawn[t]]]
          /\ history' = [history EXCEPT ![t] = <<"RECEIVED">>]
          /\ at' = [at EXCEPT ![t] = "done"]
  /\ UNCHANGED <<drawn, call>>

------------------------------------------------------------------------------
(* The read half of the handlers on a ticket.                              *)

Read(r, op, t, s, accepted) ==
  /\ at[r] = "idle" /\ t \in Created
  /\ IF accepted
     THEN /\ at' = [at EXCEPT ![r] = "checked"]
          /\ call' = [call EXCEPT ![r] = [op |-> op, ticket |-> t, status |-> s]]
     ELSE at' = [at EXCEPT ![r] = "refused"] /\ UNCHANGED call
  /\ UNCHANGED <<row, history, drawn>>

\* Mutant: any status may follow any other.
UpdateAnyStatus(r, t, s) == Read(r, "status", t, s, TRUE)

UpdateStatus(r, t, s) ==
  Read(r, "status", t, s, s \in ValidTransitions[row[t].status])

\* Mutant: a device may be signed for as soon as its repair has begun.
CompleteEarly(r, t) ==
  Read(r, "sign", t, "COMPLETED", row[t].status \in {"UNDER_REPAIR", "READY_FOR_PICKUP"})

CompleteWithSignature(r, t) ==
  Read(r, "sign", t, "COMPLETED", row[t].status = "READY_FOR_PICKUP")

SignCourierDelivery(r, t) ==
  Read(r, "delivery", t, "COMPLETED", row[t].status = "READY_FOR_PICKUP")

SaveCourierInfo(r, t) == Read(r, "courier", t, "none", TRUE)

------------------------------------------------------------------------------
(* The write half: one transaction.                                        *)

Checked(r, op) == at[r] = "checked" /\ call[r].op = op

\* The ticket takes the status asked for, and the history gets its row.
Commit(r, newRow) ==
  /\ row' = [row EXCEPT ![call[r].ticket] = newRow]
  /\ history' = [history EXCEPT ![call[r].ticket] = Append(@, call[r].status)]
  /\ at' = [at EXCEPT ![r] = "done"]
  /\ UNCHANGED <<drawn, call>>

Ticket(r) == row[call[r].ticket]

StatusCommit(r) ==
  Checked(r, "status") /\ Commit(r, [Ticket(r) EXCEPT !.status = call[r].status])

SignCommit(r) ==
  /\ Checked(r, "sign")
  /\ Commit(r, [Ticket(r) EXCEPT !.status = "COMPLETED", !.signed = TRUE])

DeliveryCommit(r) ==
  /\ Checked(r, "delivery")
  /\ Commit(r, [Ticket(r) EXCEPT !.status = "COMPLETED", !.signed = TRUE,
                                 !.courier = "DELIVERED"])

\* Mutant: stores the status that the carrier reports, whatever it is.
CourierCommitRaw(r) ==
  /\ Checked(r, "courier")
  /\ row' = [row EXCEPT ![call[r].ticket].courier = call[r].op]
  /\ at' = [at EXCEPT ![r] = "done"]
  /\ UNCHANGED <<history, drawn, call>>

CourierCommit(r) ==
  /\ Checked(r, "courier")
  /\ row' = [row EXCEPT ![call[r].ticket].courier = "PENDING"]
  /\ at' = [at EXCEPT ![r] = "done"]
  /\ UNCHANGED <<history, drawn, call>>

\* The process dies, or the database refuses, before the transaction commits.
RequestLost(c) ==
  /\ at[c] \in {"insert", "checked"}
  /\ at' = [at EXCEPT ![c] = "lost"]
  /\ UNCHANGED <<row, history, drawn, call>>

Next ==
  \/ \E t \in Tickets : GenerateTicketNumber(t) \/ InsertTicket(t)
  \/ \E r \in Requests, t \in Tickets :
       \/ \E s \in Statuses : UpdateStatus(r, t, s)
       \/ CompleteWithSignature(r, t)
       \/ SignCourierDelivery(r, t)
       \/ SaveCourierInfo(r, t)
  \/ \E r \in Requests : \/ StatusCommit(r) \/ SignCommit(r)
                         \/ DeliveryCommit(r) \/ CourierCommit(r)
  \/ \E c \in Tickets \cup Requests : RequestLost(c)

Spec == Init /\ [][Next]_vars

------------------------------------------------------------------------------
(* Properties                                                              *)

Row == [status : Statuses \cup {"none"}, number : Nat, signed : BOOLEAN,
        courier : {"none", "PENDING", "DELIVERED"}]
Call == [op : {"none", "status", "sign", "delivery", "courier"}, ticket : Tickets,
         status : Statuses \cup {"none"}]

\* Every variable has its type.
TypeOK == /\ row \in [Tickets -> Row]
          /\ history \in [Tickets -> Seq(Statuses)]
          /\ at \in [Tickets \cup Requests ->
                       {"idle", "insert", "checked", "refused", "done", "lost"}]
          /\ drawn \in [Tickets -> Nat]
          /\ call \in [Requests -> Call]

\* The ticket shows the status that its history ends with, whoever wrote last.
StatusIsLastEntry ==
  \A t \in Created : history[t] # <<>> /\ row[t].status = history[t][Len(history[t])]

\* A customer who signed took a device that was ready: a signature, or a courier
\* delivery, stands on a ticket whose history has READY_FOR_PICKUP before COMPLETED,
\* though the status may have moved while the receipt was rendered.
SignedWasReady ==
  \A t \in Tickets : row[t].signed \/ row[t].courier = "DELIVERED" =>
    \E j, k \in DOMAIN history[t] : /\ j < k
                                    /\ history[t][j] = "READY_FOR_PICKUP"
                                    /\ history[t][k] = "COMPLETED"

TicketNumbering == INSTANCE Numbering
  WITH Documents <- Tickets, number <- [t \in Tickets |-> row[t].number]

\* Ticket numbers are issued 1, 2, 3, ... although two check-ins may count the same
\* tickets: the loser's insert fails and wastes no number.
TicketNumbersInSequence == TicketNumbering!Spec

RepairWorkflow == INSTANCE Workflow
  WITH Documents <- Tickets, First <- "RECEIVED", Transitions <- ValidTransitions,
       log <- history

\* The history is append-only, and every status in it may follow one that the
\* ticket had before, however stale what its handler read.
HistoryFollowsWorkflow == RepairWorkflow!Spec
=============================================================================
