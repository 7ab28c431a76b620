---------------------------- MODULE AutoInvoice ----------------------------
(***************************************************************************)
(* The automatic invoice run.  Each process (Planners) looks every minute       *)
(* whether a run is due, by the later of the marker in the database and its own   *)
(* guard in memory, and then sends every customer through the handler of the      *)
(* button "+ Rechnung".  No lease keeps two processes apart: what an invoice       *)
(* bills is claimed by a unique key, and the loser is told so.                     *)
(*                                                                           *)
(* Every period of the schedule leaves one open item per customer.               *)
(***************************************************************************)
EXTENDS Naturals, FiniteSets, FiniteSetsExt

CONSTANTS
    Planners,    \* processes
    Customers,   \* persons.id, in the order of the run
    LastTerm,    \* bound: periods of the schedule
    MaxTroubles  \* bound: crashes, failures, missing data and time limits

ASSUME AutoInvoiceAssumption == Customers \subseteq Nat /\ {LastTerm, MaxTroubles} \subseteq Nat

VARIABLES
    term,     \* the current period
    marker,   \* auto_invoice_status.last_run_at
    guard,    \* the guards in memory
    round,    \* the run of a process
    issued,   \* number of invoices that bill an item
    sellerOK, \* the details of the issuer are complete
    reached,  \* the last period in which a run came to a customer
    troubles

autoVars == <<term, marker, guard, round, issued, sellerOK, reached, troubles>>

Terms   == 1 .. LastTerm
NoRound == [on |-> FALSE, at |-> 0, left |-> {}, items |-> {}]
Item(c) == { c } \X (1 .. term)
Open(c) == { i \in Item(c) : issued[i] = 0 }
Trouble == troubles < MaxTroubles /\ troubles' = troubles + 1

AutoInvoiceInit ==
    /\ term = 1 /\ marker = 0
    /\ guard = [h \in Planners |-> 0]
    /\ round = [h \in Planners |-> NoRound]
    /\ issued = [i \in Customers \X Terms |-> 0]
    /\ sellerOK \in BOOLEAN
    /\ reached = [c \in Customers |-> 0]
    /\ troubles = 0

\* The later of the two; 0 stands for a run that never was.
LastRun(h) == Max({marker, guard[h]})

\* The very first run belongs to the schedule, not to the start of a process.
FirstStart(h) ==
    /\ ~round[h].on /\ LastRun(h) = 0
    /\ guard' = [guard EXCEPT ![h] = term]
    /\ UNCHANGED <<term, marker, round, issued, sellerOK, reached, troubles>>

BeginRound(h) ==
    /\ ~round[h].on /\ LastRun(h) \in 1 .. term - 1
    /\ guard' = [guard EXCEPT ![h] = term]
    /\ round' = [round EXCEPT ![h] = [on |-> TRUE, at |-> term, left |-> Customers, items |-> {}]]
    /\ UNCHANGED <<term, marker, issued, sellerOK, reached, troubles>>

\* The handler of one customer reads what is open before it claims it; missing
\* details of the issuer end the round, and it does not count.
Current(h) == Min(round[h].left)
Busy(h)    == round[h].on /\ round[h].left # {}
EndsAt(h, left) == round' = [round EXCEPT ![h].left = left, ![h].items = {}]

PrepareInvoice(h) ==
    /\ Busy(h) /\ round[h].items = {}
    /\ reached' = [reached EXCEPT ![Current(h)] = Max({@, round[h].at})]
    /\ IF Open(Current(h)) = {}
       THEN EndsAt(h, round[h].left \ {Current(h)})
       ELSE IF sellerOK THEN round' = [round EXCEPT ![h].items = Open(Current(h))]
                        ELSE round' = [round EXCEPT ![h] = NoRound]
    /\ UNCHANGED <<term, marker, guard, issued, sellerOK, troubles>>

Unclaimed(items) == \A i \in items : issued[i] = 0

\* Created, or raced by somebody else: the customer is done either way.
ClaimInvoice(h) ==
    /\ Busy(h) /\ round[h].items # {}
    /\ issued' = [i \in DOMAIN issued |->
                    issued[i] + IF i \in round[h].items /\ Unclaimed(round[h].items) THEN 1 ELSE 0]
    /\ EndsAt(h, round[h].left \ {Current(h)})
    /\ UNCHANGED <<term, marker, guard, sellerOK, reached, troubles>>

\* A failure, a panic or missing details of the customer: counted, then the next.
SkipCustomer(h) ==
    /\ Busy(h) /\ round[h].items # {} /\ Trouble
    /\ EndsAt(h, round[h].left \ {Current(h)})
    /\ UNCHANGED <<term, marker, guard, issued, sellerOK, reached>>

\* Mutant: a round cut off by the time limit counts as done.
MutantTimeLimit(h) == marker' = round[h].at
AtTimeLimit(h) == UNCHANGED marker

CutRound(h) ==
    /\ Busy(h) /\ round[h].items = {} /\ Trouble
    /\ AtTimeLimit(h)
    /\ round' = [round EXCEPT ![h] = NoRound]
    /\ UNCHANGED <<term, guard, issued, sellerOK, reached>>

\* The marker is written after the last customer; best effort.
EndRound(h) ==
    /\ round[h].on /\ round[h].left = {}
    /\ \/ marker' = round[h].at /\ UNCHANGED troubles
       \/ Trouble /\ UNCHANGED marker
    /\ round' = [round EXCEPT ![h] = NoRound]
    /\ UNCHANGED <<term, guard, issued, sellerOK, reached>>

\* A process dies and is started again with no guard.
Restart(h) ==
    /\ Trouble
    /\ guard' = [guard EXCEPT ![h] = 0]
    /\ round' = [round EXCEPT ![h] = NoRound]
    /\ UNCHANGED <<term, marker, issued, sellerOK, reached>>

\* Somebody presses the button, completes the details, and time goes by.
PressButton(c) ==
    /\ sellerOK /\ Open(c) # {}
    /\ issued' = [i \in DOMAIN issued |-> issued[i] + IF i \in Open(c) THEN 1 ELSE 0]
    /\ UNCHANGED <<term, marker, guard, round, sellerOK, reached, troubles>>

CompleteSeller ==
    /\ ~sellerOK /\ sellerOK' = TRUE
    /\ UNCHANGED <<term, marker, guard, round, issued, reached, troubles>>

NextTerm ==
    /\ term < LastTerm /\ term' = term + 1
    /\ UNCHANGED <<marker, guard, round, issued, sellerOK, reached, troubles>>

AutoInvoiceNext ==
    \/ \E h \in Planners : \/ FirstStart(h) \/ BeginRound(h) \/ PrepareInvoice(h) \/ ClaimInvoice(h)
                           \/ SkipCustomer(h) \/ CutRound(h) \/ EndRound(h) \/ Restart(h)
    \/ \E c \in Customers : PressButton(c)
    \/ CompleteSeller \/ NextTerm

AutoInvoiceSpec == AutoInvoiceInit /\ [][AutoInvoiceNext]_autoVars

-----------------------------------------------------------------------------

(* Safety.  The marker only stands at a period in which some round came to every     *)
(* customer: a round that was cut off or broken off is not written down as done, or   *)
(* the rest of the customers would wait a whole period (StartAutoInvoice,             *)
(* runAutoInvoice).                                                                 *)
MarkerIsEarned == \A c \in Customers : reached[c] >= marker
=============================================================================
