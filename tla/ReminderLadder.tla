--------------------------- MODULE ReminderLadder ---------------------------
(***************************************************************************)
(* What the reminders of an invoice promise its customer: a ladder of three *)
(* levels, climbed one by one, whose last rung may repeat.  A level may      *)
(* leave again as long as it is not booked; only what left is booked.        *)
(***************************************************************************)
EXTENDS Integers, Sequences

CONSTANT Invoices
VARIABLES booked,   \* the levels booked for an invoice, in order
          reached   \* the highest level that ever left

Rung(i) == IF Len(booked[i]) < 3 THEN Len(booked[i]) + 1 ELSE 3

Init == booked = [i \in Invoices |-> <<>>] /\ reached = [i \in Invoices |-> 0]

Send(i) == /\ reached' = [reached EXCEPT ![i] = Rung(i)]
           /\ UNCHANGED booked

Book(i) == /\ reached[i] = Rung(i)
           /\ booked' = [booked EXCEPT ![i] = Append(@, Rung(i))]
           /\ UNCHANGED reached

Next == \E i \in Invoices : Send(i) \/ Book(i)
Spec == Init /\ [][Next]_<<booked, reached>>
=============================================================================
