--------------------------- MODULE RepairsProofs ---------------------------
(***************************************************************************)
(* Proofs about Repairs, for every set of check-ins and of later calls.    *)
(***************************************************************************)
EXTENDS Repairs, FiniteSetTheorems, TLAPS

\* A status that may follow one of a log's entries.
Follows(s, l) == \E k \in DOMAIN l : s \in ValidTransitions[l[k]]

\* A checked request is about a ticket with a row, and carries a status that may
\* follow one the ticket had: the one its handler read.
CheckedCalls ==
  \A r \in Requests : at[r] = "checked" =>
    /\ call[r].ticket \in Created
    /\ call[r].op \in {"status", "sign", "delivery"} =>
         call[r].status \in Statuses /\ Follows(call[r].status, history[call[r].ticket])
    /\ call[r].op \in {"sign", "delivery"} => call[r].status = "COMPLETED"

\* A ticket has a history when it has a row, and gets its row by its insert.
Opened == /\ \A t \in Tickets : t \notin Created => history[t] = <<>>
          /\ \A t \in Tickets : at[t] \in {"idle", "insert"} => t \notin Created

HistoryInv == TypeOK /\ StatusIsLastEntry /\ CheckedCalls /\ Opened

LEMMA TransitionsAreStatuses ==
  /\ \A s \in Statuses : ValidTransitions[s] \subseteq Statuses
  /\ \A s \in Statuses : "COMPLETED" \in ValidTransitions[s] => s = "READY_FOR_PICKUP"
  /\ "COMPLETED" \in ValidTransitions["READY_FOR_PICKUP"]
BY DEF ValidTransitions, Statuses

LEMMA Appending ==
  ASSUME NEW l \in Seq(Statuses), NEW s \in Statuses
  PROVE  /\ Append(l, s) \in Seq(Statuses) /\ Append(l, s) # <<>>
         /\ Len(Append(l, s)) = Len(l) + 1 /\ Append(l, s)[Len(l) + 1] = s
         /\ Len(l) + 1 \in DOMAIN Append(l, s)
         /\ \A k \in DOMAIN l : /\ k \in DOMAIN Append(l, s) /\ k < Len(l) + 1
                                /\ Append(l, s)[k] = l[k]
OBVIOUS

LEMMA FollowsGrows ==
  ASSUME NEW l \in Seq(Statuses), NEW s \in Statuses, NEW x, Follows(x, l)
  PROVE  Follows(x, Append(l, s))
BY Appending DEF Follows

LEMMA FollowsLast ==
  ASSUME NEW l \in Seq(Statuses), l # <<>>, NEW s \in ValidTransitions[l[Len(l)]]
  PROVE  Follows(s, l)
<1>1. Len(l) \in DOMAIN l
  OBVIOUS
<1>2. QED BY <1>1 DEF Follows

LEMMA InitHistoryInv == Init => HistoryInv
<1> SUFFICES ASSUME Init PROVE HistoryInv
  OBVIOUS
<1>1. NoCall \in Call
  BY TicketsAssumption DEF NoCall, Call
<1>2. NoRow \in Row
  BY DEF NoRow, Row
<1>3. TypeOK
  BY <1>1, <1>2 DEF Init, TypeOK
<1>4. Created = {}
  BY DEF Init, Created
<1>5. QED BY <1>3, <1>4 DEF Init, HistoryInv, StatusIsLastEntry, CheckedCalls, Opened

------------------------------------------------------------------------------
(* A check-in.                                                             *)

LEMMA NumberStep ==
  ASSUME HistoryInv, NEW t \in Tickets, GenerateTicketNumber(t),
         Cardinality(Created) \in Nat
  PROVE  HistoryInv'
<1>1. TypeOK'
  BY DEF GenerateTicketNumber, HistoryInv, TypeOK
<1>2. Created' = Created
  BY DEF GenerateTicketNumber, Created
<1>3. \A u \in Tickets : at'[u] \in {"idle", "insert"} => at[u] \in {"idle", "insert"}
  BY DEF GenerateTicketNumber, HistoryInv, TypeOK
<1>4. \A r \in Requests : at'[r] = at[r]
  BY RequestsAssumption DEF GenerateTicketNumber, HistoryInv, TypeOK
<1>5. Opened'
  BY <1>2, <1>3 DEF GenerateTicketNumber, HistoryInv, Opened
<1>6. CheckedCalls'
  BY <1>2, <1>4 DEF GenerateTicketNumber, HistoryInv, CheckedCalls
<1>7. QED BY <1>1, <1>2, <1>5, <1>6 DEF GenerateTicketNumber, HistoryInv, StatusIsLastEntry

\* The insert of a row whose number is free opens the ticket's log.
LEMMA InsertStep ==
  ASSUME HistoryInv, NEW t \in Tickets, InsertTicket(t),
         ~ \E u \in Created : row[u].number = drawn[t]
  PROVE  /\ HistoryInv' /\ RepairWorkflow!Open(t)
         /\ t \notin Created /\ Created' = Created \cup {t}
         /\ row'[t].number = drawn[t]
         /\ \A u \in Tickets \ {t} : row'[u] = row[u]
<1>1. /\ at[t] = "insert" /\ at' = [at EXCEPT ![t] = "done"]
      /\ row' = [row EXCEPT ![t] = [NoRow EXCEPT !.status = "RECEIVED",
                                                 !.number = drawn[t]]]
      /\ history' = [history EXCEPT ![t] = <<"RECEIVED">>]
      /\ UNCHANGED <<drawn, call>>
  BY DEF InsertTicket
<1>2. t \notin Created /\ history[t] = <<>>
  BY <1>1 DEF HistoryInv, Opened
<1>3. /\ row'[t] \in Row /\ row'[t].status = "RECEIVED" /\ row'[t].number = drawn[t]
      /\ \A u \in Tickets \ {t} : row'[u] = row[u]
  BY <1>1 DEF HistoryInv, TypeOK, Row, NoRow, Statuses
<1>4. row'[t] # NoRow
  BY <1>3 DEF NoRow
<1>5. Created' = Created \cup {t}
  BY <1>3, <1>4 DEF Created
<1>6. <<"RECEIVED">> \in Seq(Statuses) /\ <<"RECEIVED">> # <<>>
      /\ Len(<<"RECEIVED">>) = 1 /\ <<"RECEIVED">>[1] = "RECEIVED"
  BY DEF Statuses
<1>7. /\ history'[t] = <<"RECEIVED">>
      /\ \A u \in Tickets \ {t} : history'[u] = history[u]
  BY <1>1 DEF HistoryInv, TypeOK
<1>8. TypeOK'
  BY <1>1, <1>3, <1>6 DEF HistoryInv, TypeOK
<1>9. StatusIsLastEntry'
  BY <1>3, <1>5, <1>6, <1>7 DEF HistoryInv, StatusIsLastEntry, Created
<1>10. \A c \in (Tickets \cup Requests) \ {t} : at'[c] = at[c]
  BY <1>1 DEF HistoryInv, TypeOK
<1>11. at'[t] = "done"
  BY <1>1 DEF HistoryInv, TypeOK
<1>12. Opened'
  BY <1>5, <1>7, <1>10, <1>11 DEF HistoryInv, Opened
<1>13. CheckedCalls'
  <2>1. \A r \in Requests : at'[r] = at[r] /\ call'[r] = call[r]
    BY <1>1, <1>10, RequestsAssumption
  <2>2. \A r \in Requests : at[r] = "checked" => history'[call[r].ticket] = history[call[r].ticket]
    BY <1>2, <1>7 DEF HistoryInv, CheckedCalls, Created
  <2>3. QED BY <1>5, <2>1, <2>2 DEF HistoryInv, CheckedCalls
<1>14. RepairWorkflow!Open(t)
  BY <1>1, <1>2 DEF RepairWorkflow!Open
<1>15. QED
  BY <1>2, <1>3, <1>5, <1>8, <1>9, <1>12, <1>13, <1>14 DEF HistoryInv

------------------------------------------------------------------------------
(* Steps that leave every log alone.                                       *)

\* A call moves on, tickets keep status, number and history.
LEMMA QuietStep ==
  ASSUME HistoryInv, TypeOK', CheckedCalls', UNCHANGED history,
         \A t \in Tickets : /\ row'[t] = NoRow <=> row[t] = NoRow
                            /\ row'[t].status = row[t].status,
         \A t \in Tickets : at'[t] \in {"idle", "insert"} => at[t] \in {"idle", "insert"}
  PROVE  HistoryInv' /\ Created' = Created
<1>1. Created' = Created
  BY DEF Created
<1>2. StatusIsLastEntry'
  BY <1>1 DEF HistoryInv, StatusIsLastEntry, Created
<1>3. Opened'
  BY <1>1 DEF HistoryInv, Opened
<1>4. QED BY <1>1, <1>2, <1>3 DEF HistoryInv

\* What the four handlers on a ticket read.
Reads(r, t) == \/ \E s \in Statuses : UpdateStatus(r, t, s)
               \/ CompleteWithSignature(r, t)
               \/ SignCourierDelivery(r, t)
               \/ SaveCourierInfo(r, t)

LEMMA ReadStep ==
  ASSUME HistoryInv, NEW r \in Requests, NEW t \in Tickets, Reads(r, t)
  PROVE  HistoryInv' /\ UNCHANGED <<row, history>>
<1>1. PICK op \in {"status", "sign", "delivery", "courier"},
           s \in Statuses \cup {"none"}, ok \in BOOLEAN :
        /\ Read(r, op, t, s, ok)
        /\ op \in {"status", "sign", "delivery"} => s \in Statuses
        /\ op \in {"status", "sign", "delivery"} /\ ok => s \in ValidTransitions[row[t].status]
        /\ op \in {"sign", "delivery"} => s = "COMPLETED"
  <2>1. CASE \E s \in Statuses : UpdateStatus(r, t, s)
    <3>1. PICK s \in Statuses : UpdateStatus(r, t, s)
      BY <2>1
    <3>2. PICK ok \in BOOLEAN : ok <=> s \in ValidTransitions[row[t].status]
      OBVIOUS
    <3>3. QED BY <3>1, <3>2 DEF UpdateStatus
  <2>2. PICK ready \in BOOLEAN : ready <=> row[t].status = "READY_FOR_PICKUP"
    OBVIOUS
  <2>3. "COMPLETED" \in Statuses
    BY DEF Statuses
  <2>4. CASE CompleteWithSignature(r, t)
    <3>1. Read(r, "sign", t, "COMPLETED", ready)
      BY <2>2, <2>4 DEF CompleteWithSignature
    <3>2. QED BY <2>2, <2>3, <3>1, TransitionsAreStatuses
  <2>5. CASE SignCourierDelivery(r, t)
    <3>1. Read(r, "delivery", t, "COMPLETED", ready)
      BY <2>2, <2>5 DEF SignCourierDelivery
    <3>2. QED BY <2>2, <2>3, <3>1, TransitionsAreStatuses
  <2>6. CASE SaveCourierInfo(r, t)
    BY <2>6 DEF SaveCourierInfo
  <2>7. QED BY <2>1, <2>4, <2>5, <2>6 DEF Reads
<1>2. UNCHANGED <<row, history, drawn>> /\ t \in Created
  BY <1>1 DEF Read
<1>3. \A c \in (Tickets \cup Requests) \ {r} : at'[c] = at[c]
  BY <1>1 DEF Read, HistoryInv, TypeOK
<1>4. call' \in [Requests -> Call] /\ \A q \in Requests \ {r} : call'[q] = call[q]
  <2>1. [op |-> op, ticket |-> t, status |-> s] \in Call
    BY <1>1 DEF Call
  <2>2. QED BY <1>1, <2>1 DEF Read, HistoryInv, TypeOK
<1>5. TypeOK'
  BY <1>1, <1>2, <1>4 DEF Read, HistoryInv, TypeOK
<1>6. ASSUME NEW q \in Requests, at'[q] = "checked"
      PROVE  /\ call'[q].ticket \in Created'
             /\ call'[q].op \in {"status", "sign", "delivery"} =>
                  /\ call'[q].status \in Statuses
                  /\ Follows(call'[q].status, history'[call'[q].ticket])
             /\ call'[q].op \in {"sign", "delivery"} => call'[q].status = "COMPLETED"
  <2>1. Created' = Created
    BY <1>2 DEF Created
  <2>2. CASE q # r
    <3>1. call'[q] = call[q] /\ at[q] = "checked"
      BY <1>3, <1>4, <1>6, <2>2
    <3>2. QED BY <1>2, <2>1, <3>1 DEF HistoryInv, CheckedCalls
  <2>3. CASE q = r
    <3>1. ok /\ call'[r] = [op |-> op, ticket |-> t, status |-> s]
      BY <1>1, <1>6, <2>3 DEF Read, HistoryInv, TypeOK
    <3>2. s \in ValidTransitions[row[t].status] => Follows(s, history[t])
      BY <1>2, FollowsLast DEF HistoryInv, StatusIsLastEntry, TypeOK
    <3>3. QED BY <1>1, <1>2, <2>1, <2>3, <3>1, <3>2
  <2>4. QED BY <2>2, <2>3
<1>7. CheckedCalls'
  BY <1>6 DEF CheckedCalls
<1>8. \A u \in Tickets : at'[u] = at[u]
  BY <1>3, RequestsAssumption
<1>9. QED BY <1>2, <1>5, <1>7, <1>8, QuietStep

\* Requests that are checked after the step were checked before it.
LEMMA CourierStep ==
  ASSUME HistoryInv, NEW r \in Requests, CourierCommit(r)
  PROVE  /\ HistoryInv' /\ UNCHANGED history /\ Created' = Created
         /\ \A u \in Tickets : row'[u].number = row[u].number
<1> PICK t \in Created : t = call[r].ticket
  BY DEF CourierCommit, Checked, HistoryInv, CheckedCalls
<1>1. /\ at' = [at EXCEPT ![r] = "done"] /\ UNCHANGED <<history, drawn, call>>
      /\ row' = [row EXCEPT ![t].courier = "PENDING"]
  BY DEF CourierCommit
<1>2. t \in Tickets /\ row[t] \in Row /\ row[t].status # "none"
  <2>1. t \in Tickets /\ row[t] \in Row
    BY DEF Created, HistoryInv, TypeOK
  <2>2. /\ history[t] \in Seq(Statuses) /\ history[t] # <<>>
        /\ row[t].status = history[t][Len(history[t])]
    BY <2>1 DEF HistoryInv, StatusIsLastEntry, TypeOK
  <2>3. row[t].status \in Statuses
    BY <2>2
  <2>4. QED BY <2>1, <2>3 DEF Statuses
<1>3. /\ row' \in [Tickets -> Row]
      /\ \A u \in Tickets \ {t} : row'[u] = row[u]
      /\ row'[t].status = row[t].status /\ row'[t].number = row[t].number
  BY <1>1, <1>2 DEF HistoryInv, TypeOK, Row
<1>4. row'[t] # NoRow /\ row[t] # NoRow
  BY <1>2, <1>3 DEF NoRow
<1>5. \A u \in Tickets : /\ row'[u] = NoRow <=> row[u] = NoRow
                         /\ row'[u].status = row[u].status
                         /\ row'[u].number = row[u].number
  BY <1>3, <1>4
<1>6. \A c \in Tickets \cup Requests : at'[c] = IF c = r THEN "done" ELSE at[c]
  BY <1>1 DEF HistoryInv, TypeOK
<1>7. TypeOK'
  BY <1>1, <1>3 DEF HistoryInv, TypeOK
<1>8. Created' = Created
  BY <1>5 DEF Created
<1>9. CheckedCalls'
  BY <1>1, <1>6, <1>8 DEF HistoryInv, CheckedCalls
<1>10. QED BY <1>1, <1>5, <1>6, <1>7, <1>9, QuietStep

LEMMA LostStep ==
  ASSUME HistoryInv, NEW c \in Tickets \cup Requests, at' = [at EXCEPT ![c] = "lost"] \/
                                                     at' = [at EXCEPT ![c] = "refused"],
         UNCHANGED <<row, history, drawn, call>>
  PROVE  HistoryInv'
<1>1. TypeOK'
  BY DEF HistoryInv, TypeOK
<1>2. \A d \in Tickets \cup Requests : at'[d] = at[d] \/ at'[d] \in {"lost", "refused"}
  BY DEF HistoryInv, TypeOK
<1>3. Created' = Created
  BY DEF Created
<1>4. CheckedCalls'
  BY <1>2, <1>3 DEF HistoryInv, CheckedCalls
<1>5. QED BY <1>1, <1>2, <1>4, QuietStep

------------------------------------------------------------------------------
(* The transactions that write a status.                                   *)

Writes(r) == StatusCommit(r) \/ SignCommit(r) \/ DeliveryCommit(r)

\* They append the status that the row takes, and it may follow an earlier one.
LEMMA WriteStep ==
  ASSUME HistoryInv, NEW r \in Requests, Writes(r)
  PROVE  /\ HistoryInv' /\ RepairWorkflow!Move(call[r].ticket)
         /\ call[r].ticket \in Created /\ Created' = Created
         /\ \A u \in Tickets : row'[u].number = row[u].number
<1> DEFINE s == call[r].status
<1> PICK t \in Created : t = call[r].ticket
  BY DEF Writes, StatusCommit, SignCommit, DeliveryCommit, Checked, HistoryInv, CheckedCalls
<1>1. t \in Tickets /\ row[t] \in Row /\ history[t] \in Seq(Statuses)
  BY DEF Created, HistoryInv, TypeOK
<1>2. s \in Statuses /\ Follows(s, history[t])
  BY DEF Writes, StatusCommit, SignCommit, DeliveryCommit, Checked, HistoryInv, CheckedCalls
<1>3. PICK new \in Row : /\ Commit(r, new)
                         /\ new.status = s /\ new.number = row[t].number
  <2>1. CASE StatusCommit(r)
    <3>1. [row[t] EXCEPT !.status = s] \in Row
      BY <1>1, <1>2 DEF Row
    <3>2. QED BY <1>1, <2>1, <3>1 DEF StatusCommit, Ticket, Row
  <2>2. CASE SignCommit(r)
    <3>1. s = "COMPLETED"
      BY <2>2 DEF SignCommit, Checked, HistoryInv, CheckedCalls
    <3>2. [row[t] EXCEPT !.status = "COMPLETED", !.signed = TRUE] \in Row
      BY <1>1, <1>2, <3>1 DEF Row
    <3>3. QED BY <1>1, <2>2, <3>1, <3>2 DEF SignCommit, Ticket, Row
  <2>3. CASE DeliveryCommit(r)
    <3>1. s = "COMPLETED"
      BY <2>3 DEF DeliveryCommit, Checked, HistoryInv, CheckedCalls
    <3>2. [row[t] EXCEPT !.status = "COMPLETED", !.signed = TRUE,
                         !.courier = "DELIVERED"] \in Row
      BY <1>1, <1>2, <3>1 DEF Row
    <3>3. QED BY <1>1, <2>3, <3>1, <3>2 DEF DeliveryCommit, Ticket, Row
  <2>4. QED BY <2>1, <2>2, <2>3 DEF Writes
<1>4. /\ row' = [row EXCEPT ![t] = new]
      /\ history' = [history EXCEPT ![t] = Append(history[t], s)]
      /\ at' = [at EXCEPT ![r] = "done"] /\ UNCHANGED <<drawn, call>>
  BY <1>3 DEF Commit
<1>5. /\ \A u \in Tickets : row'[u] = IF u = t THEN new ELSE row[u]
      /\ \A u \in Tickets : history'[u] = IF u = t THEN Append(history[t], s) ELSE history[u]
      /\ \A c \in Tickets \cup Requests : at'[c] = IF c = r THEN "done" ELSE at[c]
  BY <1>1, <1>4 DEF HistoryInv, TypeOK
<1>6. new # NoRow
  BY <1>2, <1>3 DEF NoRow, Statuses
<1>7. Created' = Created
  BY <1>5, <1>6 DEF Created
<1>8. Append(history[t], s) \in Seq(Statuses)
  BY <1>1, <1>2
<1>9. TypeOK'
  BY <1>1, <1>3, <1>4, <1>8 DEF HistoryInv, TypeOK
<1>10. StatusIsLastEntry'
  <2>1. ASSUME NEW u \in Created
        PROVE  history'[u] # <<>> /\ row'[u].status = history'[u][Len(history'[u])]
    <3>1. CASE u = t
      <4>1. history'[u] = Append(history[t], s) /\ row'[u].status = s
        BY <1>1, <1>3, <1>5, <3>1
      <4> HIDE DEF s
      <4>2. /\ Append(history[t], s) # <<>>
            /\ Append(history[t], s)[Len(Append(history[t], s))] = s
        BY <1>1, <1>2, Appending
      <4>3. QED BY <4>1, <4>2
    <3>2. CASE u # t
      BY <1>5, <3>2 DEF HistoryInv, StatusIsLastEntry, Created
    <3>3. QED BY <3>1, <3>2
  <2>2. QED BY <1>7, <2>1 DEF StatusIsLastEntry
<1>11. \A u \in Tickets : \A x : Follows(x, history[u]) => Follows(x, history'[u])
  BY <1>1, <1>2, <1>5, FollowsGrows
<1>12. CheckedCalls'
  <2>1. ASSUME NEW q \in Requests, at'[q] = "checked"
        PROVE  call'[q] = call[q] /\ at[q] = "checked" /\ call[q].ticket \in Tickets
    BY <1>4, <1>5, <2>1 DEF HistoryInv, TypeOK, Call
  <2>2. QED BY <1>7, <1>11, <2>1 DEF HistoryInv, CheckedCalls
<1>13. \A u \in Tickets : at'[u] = at[u]
  BY <1>5, RequestsAssumption
<1>14. Opened'
  BY <1>5, <1>7, <1>13 DEF HistoryInv, Opened
<1>15. RepairWorkflow!Move(t)
  BY <1>2, <1>4 DEF RepairWorkflow!Move, Follows
<1>16. \A u \in Tickets : row'[u].number = row[u].number
  BY <1>3, <1>5
<1>17. QED BY <1>7, <1>9, <1>10, <1>12, <1>14, <1>15, <1>16 DEF HistoryInv

------------------------------------------------------------------------------
(* One step of the system, as the two abstract specifications see it.      *)

TicketNumbers == {row[t].number : t \in Created}

\* The numbers are 1..n, and one that was drawn is at most n + 1, however old.
Drawn == /\ TicketNumbers = 1..Cardinality(Created)
         /\ \A t \in Tickets : at[t] = "insert" => drawn[t] \in 1..(Cardinality(Created) + 1)

RepairInv == HistoryInv /\ Drawn

LEMMA FiniteTickets == IsFiniteSet(Created) /\ Cardinality(Created) \in Nat
<1>1. Created \in SUBSET Tickets
  BY DEF Created
<1>2. QED BY <1>1, TicketsAssumption, FS_Subset, FS_CardinalityType

TicketNumber == [t \in Tickets |-> row[t].number]
Taken == {TicketNumber[t] : t \in Tickets} \ {0}

\* What Numbering!Next and Workflow!Next ask of a step.
Issued == \E t \in Tickets :
            /\ TicketNumber[t] = 0
            /\ \E n \in Taken \cup {0} : /\ Taken = 1..n
                                        /\ TicketNumber' = [TicketNumber EXCEPT ![t] = n + 1]

Logged == history' = history \/ RepairWorkflow!Next

\* Tickets without a row carry 0, those with one do not.
LEMMA TakenNumbers ==
  ASSUME RepairInv
  PROVE  Taken = TicketNumbers /\ \A t \in Tickets \ Created : TicketNumber[t] = 0
<1>1. 0 \notin TicketNumbers
  BY FiniteTickets DEF RepairInv, Drawn
<1>2. \A t \in Tickets \ Created : TicketNumber[t] = 0
  BY DEF TicketNumber, Created, NoRow
<1>3. QED BY <1>1, <1>2 DEF Taken, TicketNumber, TicketNumbers, Created

LEMMA InitRepairInv == Init => RepairInv
<1> SUFFICES ASSUME Init PROVE RepairInv
  OBVIOUS
<1>1. Created = {}
  BY DEF Init, Created
<1>2. Drawn
  BY <1>1, FS_EmptySet DEF Init, Drawn, TicketNumbers
<1>3. QED BY <1>2, InitHistoryInv DEF RepairInv

\* Rows keep their numbers and no handler draws one.
LEMMA SameNumbers ==
  ASSUME Drawn, Created' = Created, UNCHANGED drawn,
         \A t \in Tickets : row'[t].number = row[t].number,
         \A t \in Tickets : at'[t] = "insert" => at[t] = "insert"
  PROVE  Drawn' /\ TicketNumber' = TicketNumber
<1>1. TicketNumbers' = TicketNumbers /\ TicketNumber' = TicketNumber
  BY DEF TicketNumbers, TicketNumber, Created
<1>2. QED BY <1>1 DEF Drawn

LEMMA NumberNext ==
  ASSUME RepairInv, NEW t \in Tickets, GenerateTicketNumber(t)
  PROVE  RepairInv' /\ Logged /\ TicketNumber' = TicketNumber
<1>1. HistoryInv'
  BY NumberStep, FiniteTickets DEF RepairInv
<1>2. /\ Created' = Created /\ TicketNumbers' = TicketNumbers
      /\ TicketNumber' = TicketNumber /\ history' = history
  BY DEF GenerateTicketNumber, Created, TicketNumbers, TicketNumber
<1>3. /\ \A u \in Tickets \ {t} : at'[u] = at[u] /\ drawn'[u] = drawn[u]
      /\ drawn'[t] = Cardinality(Created) + 1
  BY DEF GenerateTicketNumber, RepairInv, HistoryInv, TypeOK
<1>4. Cardinality(Created) + 1 \in 1..(Cardinality(Created) + 1)
  BY FiniteTickets
<1>5. Drawn'
  BY <1>2, <1>3, <1>4 DEF RepairInv, Drawn
<1>6. QED BY <1>1, <1>2, <1>5 DEF RepairInv, Logged

LEMMA NextNumber ==
  ASSUME NEW n \in Nat, NEW k \in 1..(n + 1), k \notin 1..n
  PROVE  k = n + 1 /\ (1..n) \cup {k} = 1..(n + 1) /\ n \in (1..n) \cup {0}
OBVIOUS

LEMMA Widen ==
  ASSUME NEW n \in Nat, NEW k \in 1..(n + 1)
  PROVE  k \in 1..((n + 1) + 1)
OBVIOUS

LEMMA InsertNext ==
  ASSUME RepairInv, NEW t \in Tickets, InsertTicket(t)
  PROVE  RepairInv' /\ Logged /\ (TicketNumber' = TicketNumber \/ Issued)
<1>1. CASE \E u \in Created : row[u].number = drawn[t]
  <2>1. at' = [at EXCEPT ![t] = "refused"] /\ UNCHANGED <<row, history, drawn, call>>
    BY <1>1 DEF InsertTicket
  <2>2. HistoryInv'
    BY <2>1, LostStep DEF RepairInv
  <2>3. \A u \in Tickets : at'[u] = "insert" => at[u] = "insert"
    BY <2>1 DEF RepairInv, HistoryInv, TypeOK
  <2>4. Created' = Created
    BY <2>1 DEF Created
  <2>5. Drawn' /\ TicketNumber' = TicketNumber
    BY <2>1, <2>3, <2>4, SameNumbers DEF RepairInv
  <2>6. QED BY <2>1, <2>2, <2>5 DEF RepairInv, Logged
<1>2. CASE ~ \E u \in Created : row[u].number = drawn[t]
  <2> DEFINE n == Cardinality(Created)
             k == drawn[t]
  <2>1. /\ HistoryInv' /\ RepairWorkflow!Open(t)
        /\ t \notin Created /\ Created' = Created \cup {t}
        /\ row'[t].number = k /\ \A u \in Tickets \ {t} : row'[u] = row[u]
    BY <1>2, InsertStep DEF RepairInv
  <2>2. n \in Nat /\ k \in 1..(n + 1) /\ k \notin 1..n
    BY <1>2, FiniteTickets DEF InsertTicket, RepairInv, Drawn, TicketNumbers
  <2>3. k = n + 1 /\ (1..n) \cup {k} = 1..(n + 1) /\ n \in (1..n) \cup {0}
    BY <2>2, NextNumber
  <2>4. TicketNumbers = 1..n
    BY DEF RepairInv, Drawn
  <2>5. TicketNumbers' = TicketNumbers \cup {k}
    BY <2>1 DEF TicketNumbers, Created
  <2>6. Cardinality(Created') = n + 1
    BY <2>1, FiniteTickets, FS_AddElement
  <2>7. \A u \in Tickets : at'[u] = "insert" => at[u] = "insert" /\ drawn'[u] = drawn[u]
    BY DEF InsertTicket, RepairInv, HistoryInv, TypeOK
  <2>8. \A u \in Tickets : at'[u] = "insert" => drawn'[u] \in 1..(Cardinality(Created') + 1)
    BY <2>2, <2>6, <2>7, Widen DEF RepairInv, Drawn
  <2>9. TicketNumbers' = 1..Cardinality(Created')
    BY <2>3, <2>4, <2>5, <2>6
  <2>10. Drawn'
    BY <2>8, <2>9 DEF Drawn
  <2>11. Issued
    <3>1. TicketNumber' = [TicketNumber EXCEPT ![t] = n + 1]
      BY <2>1, <2>3 DEF TicketNumber
    <3>2. TicketNumber[t] = 0 /\ Taken = 1..n
      BY <2>1, <2>4, TakenNumbers
    <3>3. QED BY <2>3, <3>1, <3>2 DEF Issued
  <2>12. QED BY <2>1, <2>10, <2>11 DEF RepairInv, Logged, RepairWorkflow!Next
<1>3. QED BY <1>1, <1>2

LEMMA RequestNext ==
  ASSUME RepairInv, NEW r \in Requests,
         Writes(r) \/ CourierCommit(r) \/ \E t \in Tickets : Reads(r, t)
  PROVE  RepairInv' /\ Logged /\ TicketNumber' = TicketNumber
<1>1. /\ HistoryInv' /\ Logged /\ Created' = Created
      /\ \A t \in Tickets : row'[t].number = row[t].number
  <2>1. CASE Writes(r)
    <3>1. call[r].ticket \in Tickets
      BY <2>1, WriteStep DEF RepairInv, Created
    <3>2. QED BY <2>1, <3>1, WriteStep DEF RepairInv, Logged, RepairWorkflow!Next
  <2>2. CASE CourierCommit(r)
    BY <2>2, CourierStep DEF RepairInv, Logged
  <2>3. CASE \E t \in Tickets : Reads(r, t)
    BY <2>3, ReadStep DEF RepairInv, Logged, Created
  <2>4. QED BY <2>1, <2>2, <2>3
<1>2. UNCHANGED drawn
  BY DEF Writes, StatusCommit, SignCommit, DeliveryCommit, Commit, CourierCommit, Reads,
         UpdateStatus, CompleteWithSignature, SignCourierDelivery, SaveCourierInfo, Read
<1>3. \E p : at' = [at EXCEPT ![r] = p]
  BY DEF Writes, StatusCommit, SignCommit, DeliveryCommit, Commit, CourierCommit, Reads,
         UpdateStatus, CompleteWithSignature, SignCourierDelivery, SaveCourierInfo, Read
<1>4. \A t \in Tickets : at'[t] = at[t]
  BY <1>3, RequestsAssumption DEF RepairInv, HistoryInv, TypeOK
<1>5. Drawn' /\ TicketNumber' = TicketNumber
  BY <1>1, <1>2, <1>4, SameNumbers DEF RepairInv
<1>6. QED BY <1>1, <1>5 DEF RepairInv

LEMMA LostNext ==
  ASSUME RepairInv, NEW c \in Tickets \cup Requests, RequestLost(c)
  PROVE  RepairInv' /\ Logged /\ TicketNumber' = TicketNumber
<1>1. at' = [at EXCEPT ![c] = "lost"] /\ UNCHANGED <<row, history, drawn, call>>
  BY DEF RequestLost
<1>2. HistoryInv' /\ Created' = Created
  BY <1>1, LostStep DEF RepairInv, Created
<1>3. \A t \in Tickets : at'[t] = "insert" => at[t] = "insert"
  BY <1>1 DEF RepairInv, HistoryInv, TypeOK
<1>4. QED BY <1>1, <1>2, <1>3, SameNumbers DEF RepairInv, Logged

LEMMA NextRepairInv ==
  RepairInv /\ [Next]_vars =>
    RepairInv' /\ Logged /\ (TicketNumber' = TicketNumber \/ Issued)
<1> SUFFICES ASSUME RepairInv, [Next]_vars
             PROVE  RepairInv' /\ Logged /\ (TicketNumber' = TicketNumber \/ Issued)
  OBVIOUS
<1>1. ASSUME NEW t \in Tickets, GenerateTicketNumber(t) \/ InsertTicket(t)
      PROVE  RepairInv' /\ Logged /\ (TicketNumber' = TicketNumber \/ Issued)
  BY <1>1, NumberNext, InsertNext
<1>2. ASSUME NEW r \in Requests, Writes(r) \/ CourierCommit(r) \/ \E t \in Tickets : Reads(r, t)
      PROVE  RepairInv' /\ Logged /\ TicketNumber' = TicketNumber
  BY <1>2, RequestNext
<1>3. ASSUME NEW c \in Tickets \cup Requests, RequestLost(c)
      PROVE  RepairInv' /\ Logged /\ TicketNumber' = TicketNumber
  BY <1>3, LostNext
<1>4. CASE UNCHANGED vars
  <2>1. UNCHANGED <<row, history, at, drawn, call>>
    BY <1>4 DEF vars
  <2>2. /\ Created' = Created /\ TicketNumbers' = TicketNumbers
        /\ TicketNumber' = TicketNumber
    BY <2>1 DEF Created, TicketNumbers, TicketNumber
  <2>3. TypeOK' /\ StatusIsLastEntry' /\ CheckedCalls' /\ Opened'
    BY <2>1, <2>2 DEF RepairInv, HistoryInv, TypeOK, StatusIsLastEntry, CheckedCalls, Opened
  <2>4. Drawn'
    BY <2>1, <2>2 DEF RepairInv, Drawn
  <2>5. QED BY <2>1, <2>2, <2>3, <2>4 DEF RepairInv, HistoryInv, Logged
<1>5. QED BY <1>1, <1>2, <1>3, <1>4 DEF Next, Writes, Reads

LEMMA RepairInvariant == Spec => []RepairInv
<1>1. RepairInv /\ [Next]_vars => RepairInv'
  BY NextRepairInv
<1>2. QED BY <1>1, InitRepairInv, PTL DEF Spec

------------------------------------------------------------------------------

\* Type correctness of tickets, histories and handlers.
THEOREM TypeCorrect == Spec => []TypeOK
<1>1. RepairInv => TypeOK
  BY DEF RepairInv, HistoryInv
<1>2. QED BY <1>1, RepairInvariant, PTL

\* The ticket always shows the status its history ends with.
THEOREM StatusIsHistory == Spec => []StatusIsLastEntry
<1>1. RepairInv => StatusIsLastEntry
  BY DEF RepairInv, HistoryInv
<1>2. QED BY <1>1, RepairInvariant, PTL

\* However handlers race on stale reads, the histories implement Workflow: they only
\* grow, and every status may follow one that the ticket had before.
THEOREM RepairsImplementWorkflow == Spec => HistoryFollowsWorkflow
<1>1. Init => RepairWorkflow!Init
  BY DEF Init, RepairWorkflow!Init
<1>2. RepairInv /\ [Next]_vars => [RepairWorkflow!Next]_history
  BY NextRepairInv DEF Logged
<1>3. QED
  BY <1>1, <1>2, RepairInvariant, PTL DEF Spec, HistoryFollowsWorkflow, RepairWorkflow!Spec

\* Ticket numbers are issued 1, 2, 3, ... however many check-ins race.
THEOREM TicketsImplementNumbering == Spec => TicketNumbersInSequence
<1>1. Init => TicketNumbering!Init
  BY DEF Init, TicketNumbering!Init, NoRow
<1>2. RepairInv /\ [Next]_vars => [TicketNumbering!Next]_TicketNumber
  BY NextRepairInv
  DEF Issued, Taken, TicketNumbering!Next, TicketNumbering!Issue, TicketNumbering!Issued,
      TicketNumber
<1>3. QED
  BY <1>1, <1>2, RepairInvariant, PTL
  DEF Spec, TicketNumbersInSequence, TicketNumbering!Spec, TicketNumber

------------------------------------------------------------------------------
(* Signatures.                                                             *)

\* A log in which the device was handed over when it was ready.
HandedOver(l) == \E j, k \in DOMAIN l : /\ j < k /\ l[j] = "READY_FOR_PICKUP"
                                        /\ l[k] = "COMPLETED"

SignedFor(r) == r.signed \/ r.courier = "DELIVERED"

LEMMA HandedOverGrows ==
  ASSUME NEW l \in Seq(Statuses), NEW s \in Statuses
  PROVE  /\ HandedOver(l) => HandedOver(Append(l, s))
         /\ s = "COMPLETED" /\ Follows(s, l) => HandedOver(Append(l, s))
<1>1. /\ Len(l) + 1 \in DOMAIN Append(l, s) /\ Append(l, s)[Len(l) + 1] = s
      /\ \A k \in DOMAIN l : /\ k \in DOMAIN Append(l, s) /\ k < Len(l) + 1
                             /\ Append(l, s)[k] = l[k] /\ l[k] \in Statuses
  BY Appending
<1>2. HandedOver(l) => HandedOver(Append(l, s))
  BY <1>1 DEF HandedOver
<1>3. ASSUME s = "COMPLETED", Follows(s, l)
      PROVE  HandedOver(Append(l, s))
  <2>1. PICK k \in DOMAIN l : s \in ValidTransitions[l[k]]
    BY <1>3 DEF Follows
  <2>2. l[k] = "READY_FOR_PICKUP"
    BY <1>1, <1>3, <2>1, TransitionsAreStatuses
  <2>3. QED BY <1>1, <1>3, <2>2 DEF HandedOver
<1>4. QED BY <1>2, <1>3

\* A step that signs for a ticket hands it over.
LEMMA SigningStep ==
  ASSUME RepairInv, [Next]_vars
  PROVE  \A t \in Tickets : SignedFor(row'[t]) => SignedFor(row[t]) \/ HandedOver(history'[t])
<1> SUFFICES ASSUME NEW t \in Tickets, SignedFor(row'[t]), ~ SignedFor(row[t])
             PROVE  HandedOver(history'[t])
  OBVIOUS
<1>1. row[t] \in Row /\ history[t] \in Seq(Statuses) /\ row'[t] # row[t]
  BY DEF RepairInv, HistoryInv, TypeOK
<1>2. ASSUME NEW r \in Requests, SignCommit(r) \/ DeliveryCommit(r)
      PROVE  HandedOver(history'[t])
  <2>1. call[r].ticket = t
    BY <1>1, <1>2 DEF SignCommit, DeliveryCommit, Commit, RepairInv, HistoryInv, TypeOK
  <2>2. call[r].status = "COMPLETED" /\ Follows("COMPLETED", history[t])
    BY <1>2, <2>1 DEF SignCommit, DeliveryCommit, Checked, RepairInv, HistoryInv, CheckedCalls
  <2>3. history'[t] = Append(history[t], "COMPLETED")
    BY <1>2, <2>1, <2>2 DEF SignCommit, DeliveryCommit, Commit, RepairInv, HistoryInv, TypeOK
  <2>4. "COMPLETED" \in Statuses
    BY DEF Statuses
  <2>5. QED BY <1>1, <2>2, <2>3, <2>4, HandedOverGrows
<1>3. ASSUME NEW r \in Requests, StatusCommit(r)
      PROVE  FALSE
  <2>1. row'[t] = row[t] \/ row'[t] = [row[t] EXCEPT !.status = call[r].status]
    BY <1>3 DEF StatusCommit, Commit, Ticket, RepairInv, HistoryInv, TypeOK
  <2>2. QED BY <1>1, <2>1 DEF SignedFor, Row
<1>4. ASSUME NEW r \in Requests, CourierCommit(r)
      PROVE  FALSE
  <2>1. row'[t] = row[t] \/ row'[t] = [row[t] EXCEPT !.courier = "PENDING"]
    BY <1>4 DEF CourierCommit, RepairInv, HistoryInv, TypeOK
  <2>2. QED BY <1>1, <2>1 DEF SignedFor, Row
<1>5. ASSUME NEW u \in Tickets, InsertTicket(u)
      PROVE  FALSE
  <2>1. row'[t] = row[t] \/ row'[t] = [NoRow EXCEPT !.status = "RECEIVED", !.number = drawn[u]]
    BY <1>5 DEF InsertTicket, RepairInv, HistoryInv, TypeOK
  <2>2. QED BY <1>1, <2>1 DEF SignedFor, NoRow
<1>6. row' # row
  BY <1>1
<1>7. QED
  BY <1>2, <1>3, <1>4, <1>5, <1>6
  DEF Next, GenerateTicketNumber, UpdateStatus, CompleteWithSignature, SignCourierDelivery,
      SaveCourierInfo, Read, RequestLost, vars

\* A signature, or a delivery, only stands on a ticket that was completed after it had
\* been ready for pickup.
THEOREM SignedStaysReady == Spec => []SignedWasReady
<1>1. SignedWasReady <=> \A t \in Tickets : SignedFor(row[t]) => HandedOver(history[t])
  BY DEF SignedWasReady, SignedFor, HandedOver
<1>2. SignedWasReady' <=> \A t \in Tickets : SignedFor(row'[t]) => HandedOver(history'[t])
  BY DEF SignedWasReady, SignedFor, HandedOver
<1>3. Init => SignedWasReady
  BY <1>1 DEF Init, NoRow, SignedFor
<1>4. ASSUME RepairInv, Logged
      PROVE  \A t \in Tickets : HandedOver(history[t]) => HandedOver(history'[t])
  <2>1. ASSUME NEW t \in Tickets, HandedOver(history[t])
        PROVE  HandedOver(history'[t])
    <3>1. history \in [Tickets -> Seq(Statuses)]
      BY <1>4 DEF RepairInv, HistoryInv, TypeOK
    <3>2. history[t] # <<>>
      BY <2>1 DEF HandedOver
    <3>3. \/ history'[t] = history[t]
          \/ \E k \in DOMAIN history[t] : \E s \in ValidTransitions[history[t][k]] :
               history'[t] = Append(history[t], s)
      BY <1>4, <3>1, <3>2
      DEF Logged, RepairWorkflow!Next, RepairWorkflow!Open, RepairWorkflow!Move
    <3>4. \A k \in DOMAIN history[t] : ValidTransitions[history[t][k]] \subseteq Statuses
      BY <3>1, TransitionsAreStatuses
    <3>5. QED BY <2>1, <3>1, <3>3, <3>4, HandedOverGrows
  <2>2. QED BY <2>1
<1>5. RepairInv /\ SignedWasReady /\ [Next]_vars => SignedWasReady'
  BY <1>1, <1>2, <1>4, SigningStep, NextRepairInv
<1>6. QED BY <1>3, <1>5, RepairInvariant, PTL DEF Spec
=============================================================================
