----------------------------- MODULE Numbering -----------------------------
(***************************************************************************)
(* What numbered documents promise: numbers are issued 1, 2, 3, ..., no    *)
(* two documents carry the same one, and a document keeps the number it    *)
(* has.  Orders, invoices and repair tickets draw their numbers by         *)
(* counting the rows of a table; this is what their tables implement.      *)
(***************************************************************************)
EXTENDS Integers

CONSTANT Documents

VARIABLE number  \* document -> its number, 0 before it has one

Init == number = [d \in Documents |-> 0]

Issued == {number[d] : d \in Documents} \ {0}

Issue(d) == /\ number[d] = 0
            /\ \E n \in Issued \cup {0} : /\ Issued = 1..n
                                          /\ number' = [number EXCEPT ![d] = n + 1]

Next == \E d \in Documents : Issue(d)

Spec == Init /\ [][Next]_number
=============================================================================
