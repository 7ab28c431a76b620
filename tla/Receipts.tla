------------------------------ MODULE Receipts ------------------------------
(***************************************************************************)
(* How money gets booked in Parkrr: receipts with idempotency keys, the      *)
(* lines of bank statements that are assigned to them, and deposits.         *)
(*                                                                           *)
(* A request is a record with a program counter.  It takes the customer's    *)
(* settlement lock (lockInvoicePersonTx) before it decides and holds it to   *)
(* the end of its transaction, so the rest of the transaction is one action; *)
(* what it reads or claims before - the look-up of its key, the try-lock of  *)
(* a bank line - is an action of its own.  Any request may fail there and    *)
(* roll back: a closed tax year, a cancelled invoice, a lost connection.     *)
(*                                                                           *)
(* A person has one invoice; the positions a receipt may settle as well are  *)
(* the matter of Settlement, and no line, key or deposit depends on them.    *)
(* Requests without a key book each time they are sent and promise nothing;  *)
(* they are left out.                                                        *)
(***************************************************************************)
EXTENDS Integers, FiniteSets, FiniteSetsExt

CONSTANTS
    Requests,      \* concurrent requests of all clients
    NoRequest,
    NoActor, Actors, \* users: idempotency keys are scoped to them
    Persons,       \* customers, each with one invoice
    InvoiceTotal,  \* [Persons -> Nat]
    ClientKeys,    \* Idempotency-Key headers
    BankLines,     \* bank_transactions.id
    LineAmount,    \* [BankLines -> Nat]
    DepositAmounts,\* bound: amounts of deposits
    MaxReceipts,   \* bound: rows of payments
    MaxDeposits    \* bound: rows of deposits

ReceiptIds == 1 .. MaxReceipts
DepositIds == 1 .. MaxDeposits
Key == [kind : {"client", "bank", "deposit"}, id : Nat, gen : ReceiptIds \cup {0}]

ASSUME ReceiptsAssumption ==
    /\ NoRequest \notin Requests /\ NoActor \notin Actors
    /\ ClientKeys \subseteq Nat /\ BankLines \subseteq Nat
    /\ InvoiceTotal \in [Persons -> Nat]
    /\ LineAmount \in [BankLines -> Nat \ {0}]
    /\ DepositAmounts \subseteq Nat \ {0}
    /\ MaxReceipts \in Nat /\ MaxDeposits \in Nat

VARIABLES
    nReceipt, receipt,  \* payments: rows 1..nReceipt
    paidAmount,         \* invoices.paid_amount, per customer
    bankLine,           \* bank_transactions
    nDeposit, deposit,  \* deposits: rows 1..nDeposit
    lineLock,           \* pg_try_advisory_xact_lock per bank line
    request             \* what each request is about to do

receiptVars == <<nReceipt, receipt, paidAmount>>
depositVars == <<nDeposit, deposit>>
receiptsVars == <<receiptVars, bankLine, depositVars, lineLock, request>>

NoKey     == [kind |-> "client", id |-> 0, gen |-> 0]
NoReceipt == [actor |-> NoActor, person |-> 0, key |-> NoKey, body |-> "none",
              amount |-> 0, given |-> 0, reversed |-> FALSE]
Idle      == [at |-> "idle", actor |-> NoActor, person |-> 0, id |-> 0, body |-> "none", gen |-> 0]
NoDeposit == [person |-> 0, kind |-> "none", amount |-> 0, pay |-> 0]

Bodies == {"auto", "credit", "invoice", "none"}
Booked == 1 .. nReceipt

ReceiptsTypeOK ==
    /\ nReceipt \in 0 .. MaxReceipts /\ nDeposit \in 0 .. MaxDeposits
    /\ receipt \in [ReceiptIds -> [actor : Actors \cup {NoActor}, person : Persons \cup {0}, key : Key,
                                   body : Bodies, amount : Nat, given : Nat, reversed : BOOLEAN]]
    /\ \A p \in Persons : paidAmount[p] \in 0 .. InvoiceTotal[p]
    /\ bankLine \in [BankLines -> [status : {"absent", "offen", "zugeordnet", "ignoriert"},
                                   pay : Booked \cup {0}]]
    /\ deposit \in [DepositIds -> [person : Persons \cup {0}, amount : Nat, pay : Booked \cup {0},
                                   kind : {"none", "erhalten", "einbehalten", "zurueck"}]]
    /\ lineLock \in [BankLines -> Requests \cup {NoRequest}]
    /\ request \in [Requests -> [at : {"idle", "check", "book", "assign", "reverse"},
                                 actor : Actors \cup {NoActor}, person : Persons \cup {0}, id : Nat,
                                 body : Bodies, gen : ReceiptIds \cup {0}]]

ReceiptsInit ==
    /\ nReceipt = 0 /\ receipt = [p \in ReceiptIds |-> NoReceipt]
    /\ paidAmount = [p \in Persons |-> 0]
    /\ bankLine = [t \in BankLines |-> [status |-> "absent", pay |-> 0]]
    /\ nDeposit = 0 /\ deposit = [d \in DepositIds |-> NoDeposit]
    /\ lineLock = [t \in BankLines |-> NoRequest]
    /\ request = [r \in Requests |-> Idle]

-----------------------------------------------------------------------------
(* Booking under a key.                                                     *)

\* Mutant: nobody looks whether the key was used.
MutantPrior(actor, key) == 0
\* The receipt an actor already booked under a key, 0 if there is none.
PriorReceipt(actor, key) ==
    LET prior == { p \in Booked : receipt[p].actor = actor /\ receipt[p].key = key }
    IN  IF prior = {} THEN 0 ELSE CHOOSE p \in prior : TRUE

SameRequest(p, person, body, amount) ==
    receipt[p].person = person /\ receipt[p].body = body /\ receipt[p].amount = amount

\* What a new receipt gives the invoice: all that is open where the client chose
\* it (or chose "oldest first"), nothing where the money stays credit.
Given(person, body, amount) ==
    LET open == InvoiceTotal[person] - paidAmount[person]
    IN  IF body = "credit" THEN 0 ELSE IF amount < open THEN amount ELSE open

\* recordInvoicePaymentTx: inserts a receipt nobody booked under this key.
InsertReceipt(actor, person, key, body, amount) ==
    /\ nReceipt < MaxReceipts
    /\ PriorReceipt(actor, key) = 0
    /\ nReceipt' = nReceipt + 1
    /\ receipt' = [receipt EXCEPT ![nReceipt + 1] =
         [actor |-> actor, person |-> person, key |-> key, body |-> body, amount |-> amount,
          given |-> Given(person, body, amount), reversed |-> FALSE]]
    /\ paidAmount' = [paidAmount EXCEPT ![person] = @ + Given(person, body, amount)]

\* A transaction ends: its bank locks fall.
Release(r) == lineLock' = [t \in BankLines |-> IF lineLock[t] = r THEN NoRequest ELSE lineLock[t]]
Done(r)    == request' = [request EXCEPT ![r] = Idle] /\ Release(r)

ClientKey(r) == [kind |-> "client", id |-> request[r].id, gen |-> 0]

\* A client books (or repeats, after a lost answer) under its key; the amount is 1.
StartPay(r, actor, person, k, body) ==
    /\ request[r].at = "idle"
    /\ request' = [request EXCEPT ![r] = [at |-> "check", actor |-> actor, person |-> person,
                                          id |-> k, body |-> body, gen |-> 0]]
    /\ UNCHANGED <<receiptVars, bankLine, depositVars, lineLock>>

\* PayInvoices and CreatePayment first look for the key without any lock.
CheckKey(r) ==
    /\ request[r].at = "check"
    /\ IF PriorReceipt(request[r].actor, ClientKey(r)) # 0
       THEN Done(r)
       ELSE request' = [request EXCEPT ![r].at = "book"] /\ UNCHANGED lineLock
    /\ UNCHANGED <<receiptVars, bankLine, depositVars>>

\* Under the lock: book, or replay (or refuse) if the key was booked meanwhile.
PayInvoices(r) ==
    /\ request[r].at = "book"
    /\ \/ InsertReceipt(request[r].actor, request[r].person, ClientKey(r), request[r].body, 1)
       \/ PriorReceipt(request[r].actor, ClientKey(r)) # 0 /\ UNCHANGED receiptVars
    /\ Done(r)
    /\ UNCHANGED <<bankLine, depositVars>>

\* A request fails between two of its statements and rolls back.
FailRequest(r) ==
    /\ request[r].at # "idle"
    /\ Done(r)
    /\ UNCHANGED <<receiptVars, bankLine, depositVars>>

-----------------------------------------------------------------------------
(* Bank lines.                                                              *)

\* Known references are left as they are (ON CONFLICT DO NOTHING).
ImportBankStatement(file) ==
    /\ bankLine' = [t \in BankLines |-> IF t \in file /\ bankLine[t].status = "absent"
                                        THEN [status |-> "offen", pay |-> 0] ELSE bankLine[t]]
    /\ UNCHANGED <<receiptVars, depositVars, lineLock, request>>

Reversed(p) == p # 0 /\ receipt[p].reversed

\* A line whose receipt was reversed counts as open again.
EffectiveStatus(t) ==
    IF bankLine[t].status = "zugeordnet" /\ Reversed(bankLine[t].pay) THEN "offen"
    ELSE bankLine[t].status

Assignable(t) == /\ EffectiveStatus(t) = "offen"
                 /\ bankLine[t].pay # 0 => Reversed(bankLine[t].pay)

\* Claims the line, then waits for the customer's lock.
StartAssign(r, actor, person, t, body) ==
    /\ request[r].at = "idle"
    /\ lineLock[t] = NoRequest
    /\ Assignable(t)
    /\ lineLock' = [lineLock EXCEPT ![t] = r]
    /\ request' = [request EXCEPT ![r] = [at |-> "assign", actor |-> actor, person |-> person,
                                          id |-> t, body |-> body, gen |-> bankLine[t].pay]]
    /\ UNCHANGED <<receiptVars, bankLine, depositVars>>

\* The reversed receipt of an earlier assignment is part of the key.
LineKey(t, gen) == [kind |-> "bank", id |-> t, gen |-> gen]

AssignBankTransaction(r) ==
    LET q == request[r] IN
    /\ q.at = "assign"
    /\ q.body = "invoice" => paidAmount[q.person] < InvoiceTotal[q.person]
    /\ \/ /\ InsertReceipt(q.actor, q.person, LineKey(q.id, q.gen), q.body, LineAmount[q.id])
          /\ bankLine' = [bankLine EXCEPT ![q.id] = [status |-> "zugeordnet", pay |-> nReceipt']]
       \/ /\ LET p == PriorReceipt(q.actor, LineKey(q.id, q.gen)) IN
                /\ p # 0
                /\ SameRequest(p, q.person, q.body, LineAmount[q.id]) /\ ~receipt[p].reversed
                /\ bankLine' = [bankLine EXCEPT ![q.id] = [status |-> "zugeordnet", pay |-> p]]
          /\ UNCHANGED receiptVars
    /\ Done(r)
    /\ UNCHANGED depositVars

SetBankTransactionIgnored(t, ignored) ==
    /\ lineLock[t] = NoRequest
    /\ EffectiveStatus(t) = (IF ignored THEN "offen" ELSE "ignoriert")
    /\ bankLine[t].pay # 0 => Reversed(bankLine[t].pay)
    /\ bankLine' = [bankLine EXCEPT ![t].status = IF ignored THEN "ignoriert" ELSE "offen"]
    /\ UNCHANGED <<receiptVars, depositVars, lineLock, request>>

-----------------------------------------------------------------------------
(* Storno.                                                                  *)

LinesOf(p)         == { t \in BankLines : bankLine[t].pay = p }
Lockable(r, lines) == \A t \in lines : lineLock[t] \in {r, NoRequest}
LockLines(r, lines) == [t \in BankLines |-> IF t \in lines THEN r ELSE lineLock[t]]

\* DeletePayment claims the bank lines of the receipt, then waits for the customer
\* (a Storno of what is reversed already is refused whenever it gets there).
StartReverse(r, p) ==
    /\ request[r].at = "idle"
    /\ p \in Booked /\ ~receipt[p].reversed
    /\ Lockable(r, LinesOf(p))
    /\ lineLock' = LockLines(r, LinesOf(p))
    /\ request' = [request EXCEPT ![r] = [Idle EXCEPT !.at = "reverse", !.id = p]]
    /\ UNCHANGED <<receiptVars, bankLine, depositVars>>

\* Mutant: a Storno leaves the bank lines of its receipt as they are.
MutantReopen(p) == bankLine
\* reopenPaymentBankTransactionsTx: the line keeps the receipt as its generation.
Reopen(p) == [t \in BankLines |->
    IF bankLine[t].pay = p /\ bankLine[t].status = "zugeordnet"
    THEN [bankLine[t] EXCEPT !.status = "offen"] ELSE bankLine[t]]

\* Lines linked while the request waited are claimed again before the Storno.
DeletePayment(r) ==
    LET p == request[r].id IN
    /\ request[r].at = "reverse"
    /\ Lockable(r, LinesOf(p))
    /\ ~receipt[p].reversed
    /\ receipt' = [receipt EXCEPT ![p].reversed = TRUE, ![p].given = 0]
    /\ paidAmount' = [paidAmount EXCEPT ![receipt[p].person] =
         IF @ > receipt[p].given THEN @ - receipt[p].given ELSE 0]
    /\ bankLine' = Reopen(p)
    /\ Done(r)
    /\ UNCHANGED <<nReceipt, depositVars>>

-----------------------------------------------------------------------------
(* Deposits.                                                                *)

\* A withheld deposit whose receipt was reversed is a deposit again.
Counts(d) == d <= nDeposit /\ deposit[d].kind # "none" /\ ~Reversed(deposit[d].pay)
DepositBalance(person) ==
    LET own == { d \in DepositIds : Counts(d) /\ deposit[d].person = person }
    IN  MapThenSumSet(LAMBDA d : IF deposit[d].kind = "erhalten" THEN deposit[d].amount
                                 ELSE -deposit[d].amount, own)

CoversAmount(person, amount) == amount <= DepositBalance(person)

CreateDeposit(actor, person, kind, amount) ==
    /\ nDeposit < MaxDeposits
    /\ kind # "erhalten" => CoversAmount(person, amount)
    /\ nDeposit' = nDeposit + 1
    /\ IF kind = "einbehalten"
       THEN InsertReceipt(actor, person, [kind |-> "deposit", id |-> nDeposit', gen |-> 0],
                          "auto", amount)
       ELSE UNCHANGED receiptVars
    /\ deposit' = [deposit EXCEPT ![nDeposit'] = [person |-> person, kind |-> kind,
         amount |-> amount, pay |-> IF kind = "einbehalten" THEN nReceipt' ELSE 0]]
    /\ UNCHANGED <<bankLine, lineLock, request>>

DeleteDeposit(d) ==
    /\ d <= nDeposit /\ deposit[d].kind # "none" /\ deposit[d].pay = 0
    /\ deposit[d].kind = "erhalten" => CoversAmount(deposit[d].person, deposit[d].amount)
    /\ deposit' = [deposit EXCEPT ![d] = NoDeposit]
    /\ UNCHANGED <<receiptVars, bankLine, nDeposit, lineLock, request>>

-----------------------------------------------------------------------------
RequestStep(r) ==
    \/ \E a \in Actors, p \in Persons, k \in ClientKeys, body \in {"auto", "credit"} :
         StartPay(r, a, p, k, body)
    \/ CheckKey(r) \/ PayInvoices(r) \/ FailRequest(r)
    \/ \E a \in Actors, p \in Persons, t \in BankLines, body \in {"invoice", "credit"} :
         StartAssign(r, a, p, t, body)
    \/ AssignBankTransaction(r)
    \/ \E p \in ReceiptIds : StartReverse(r, p)
    \/ DeletePayment(r)

ReceiptsNext ==
    \/ \E r \in Requests : RequestStep(r)
    \/ \E file \in SUBSET BankLines : ImportBankStatement(file)
    \/ \E t \in BankLines, ignored \in BOOLEAN : SetBankTransactionIgnored(t, ignored)
    \/ \E a \in Actors, p \in Persons, amount \in DepositAmounts,
          kind \in {"erhalten", "einbehalten", "zurueck"} : CreateDeposit(a, p, kind, amount)
    \/ \E d \in DepositIds : DeleteDeposit(d)

ReceiptsSpec == ReceiptsInit /\ [][ReceiptsNext]_receiptsVars

-----------------------------------------------------------------------------
(* Refinement.  Whatever overlaps - a retry with its first attempt, two users *)
(* on one bank line, an assignment with the Storno of the last one - nothing  *)
(* is booked twice (AssignBankTransaction, recordInvoicePaymentTx).           *)
Things == [kind : {"client"}, actor : Actors, id : ClientKeys]
          \cup [kind : {"bank"}, actor : {NoActor}, id : BankLines]
          \cup [kind : {"deposit"}, actor : {NoActor}, id : DepositIds]
ThingOf(p) == [kind |-> receipt[p].key.kind, id |-> receipt[p].key.id,
               actor |-> IF receipt[p].key.kind = "client" THEN receipt[p].actor ELSE NoActor]

Once == INSTANCE BookOnce WITH
    Receipts <- ReceiptIds,
    Repeatable <- { x \in Things : x.kind = "bank" },
    live  <- [x \in Things |-> { p \in Booked : ThingOf(p) = x /\ ~receipt[p].reversed }],
    spent <- { ThingOf(p) : p \in Booked }
BooksOnce == Once!Spec

(* Safety.  A bank line and its receipt agree: a line that shows as assigned  *)
(* has a receipt that counts, and money that came in by a line is shown there *)
(* (no line of received money can be ignored or offered again).               *)
LineShowsReceipt ==
    /\ \A t \in BankLines : bankLine[t].status = "zugeordnet" => ~Reversed(bankLine[t].pay)
    /\ \A p \in Booked : receipt[p].key.kind = "bank" /\ ~receipt[p].reversed =>
         bankLine[receipt[p].key.id] = [status |-> "zugeordnet", pay |-> p]
=============================================================================
