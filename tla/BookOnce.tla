------------------------------ MODULE BookOnce ------------------------------
(***************************************************************************)
(* What booking promises: a thing that asks for money - a click of a client, *)
(* a line of a bank statement, a withheld deposit - has at most one receipt  *)
(* that counts.  A reversed receipt may be followed by another one only for  *)
(* a repeatable thing (a bank line that is assigned again).                  *)
(***************************************************************************)
EXTENDS FiniteSets

CONSTANTS Things, Repeatable,
          Receipts    \* the receipts there may be
VARIABLES live,   \* [Things -> SUBSET Receipts]: the receipts that count
          spent   \* things that were booked at some time

Init == live = [x \in Things |-> {}] /\ spent = {}

Book(x) == /\ live[x] = {}
           /\ x \in spent => x \in Repeatable
           /\ spent' = spent \cup {x}
           /\ \E one \in Receipts : live' = [live EXCEPT ![x] = {one}]
Reverse(x) == /\ live[x] # {}
              /\ live' = [live EXCEPT ![x] = {}]
              /\ UNCHANGED spent

Next == \E x \in Things : Book(x) \/ Reverse(x)
Spec == Init /\ [][Next]_<<live, spent>>
=============================================================================
