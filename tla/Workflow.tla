----------------------------- MODULE Workflow -----------------------------
(***************************************************************************)
(* What a document with a status promises when its handlers check the      *)
(* status they read and write the next one later: the log of statuses      *)
(* starts with First, only grows, and every status in it may follow some   *)
(* status the document had before.  It need not be the one just before: a  *)
(* handler that raced may have written in between.                         *)
(***************************************************************************)
EXTENDS Naturals, Sequences

CONSTANTS Documents,
          First,       \* the status a document is created with
          Transitions  \* status -> the statuses that may follow it

VARIABLE log  \* document -> the statuses it had, oldest first

Init == log = [d \in Documents |-> <<>>]

Open(d) == log[d] = <<>> /\ log' = [log EXCEPT ![d] = <<First>>]

Move(d) == \E k \in DOMAIN log[d] :
             \E s \in Transitions[log[d][k]] : log' = [log EXCEPT ![d] = Append(@, s)]

Next == \E d \in Documents : Open(d) \/ Move(d)

Spec == Init /\ [][Next]_log
=============================================================================
