--------------------------- MODULE ReceiptsProofs ---------------------------
(***************************************************************************)
(* Machine-checked theorems about Receipts, for every set of requests, actors, *)
(* customers, keys and bank lines and every bound: nothing is booked twice *)
(* (Receipts implements BookOnce), and a bank line and its receipt agree;  *)
(* and about Indexation, for every set of vehicles, index, threshold and   *)
(* length of periods: no rise is charged twice where one plan runs at a time. *)
(*                                                                         *)
(* What makes the first two inductive is who may touch a line.  A request that assigns *)
(* one holds its lock and finds it as it left it (LinesClaimed): everybody else *)
(* either needs the lock or only reopens lines of the receipt it reverses.  And *)
(* money of a line that counts is shown on the line (LineShowsReceipt), so a *)
(* line that may be assigned has none.                                     *)
(***************************************************************************)
EXTENDS Receipts, Indexation, WellFoundedInduction, TLAPS

ReceiptRow == [actor : Actors \cup {NoActor}, person : Persons \cup {0}, key : Key,
               body : Bodies, amount : Nat, given : Nat, reversed : BOOLEAN]
LineRow    == [status : {"absent", "offen", "zugeordnet", "ignoriert"}, pay : Booked \cup {0}]
DepositRow == [person : Persons \cup {0}, amount : Nat, pay : Booked \cup {0},
               kind : {"none", "erhalten", "einbehalten", "zurueck"}]
RequestRow == [at : {"idle", "check", "book", "assign", "reverse"}, actor : Actors \cup {NoActor},
               person : Persons \cup {0}, id : Nat, body : Bodies, gen : ReceiptIds \cup {0}]

\* The type invariant, with names for the rows.
LEMMA ReceiptsTyped ==
    ReceiptsTypeOK <=>
        /\ nReceipt \in 0 .. MaxReceipts /\ nDeposit \in 0 .. MaxDeposits
        /\ receipt \in [ReceiptIds -> ReceiptRow]
        /\ \A p \in Persons : paidAmount[p] \in 0 .. InvoiceTotal[p]
        /\ bankLine \in [BankLines -> LineRow]
        /\ deposit \in [DepositIds -> DepositRow]
        /\ lineLock \in [BankLines -> Requests \cup {NoRequest}]
        /\ request \in [Requests -> RequestRow]
BY DEF ReceiptsTypeOK, ReceiptRow, LineRow, DepositRow, RequestRow

\* What a request is about, by what it is about to do.
RequestsKnown == \A r \in Requests :
    /\ request[r].at \in {"check", "book"} =>
          /\ request[r].actor \in Actors /\ request[r].person \in Persons /\ request[r].id \in ClientKeys
          /\ request[r].body \in {"auto", "credit"}
    /\ request[r].at = "assign" =>
          /\ request[r].actor \in Actors /\ request[r].person \in Persons /\ request[r].id \in BankLines
          /\ request[r].body \in {"invoice", "credit"}
    /\ request[r].at = "reverse" => request[r].id \in Booked

ReceiptsBase == ReceiptsTypeOK /\ RequestsKnown /\ DOMAIN paidAmount = Persons

\* Types and what requests are about, at the start.
LEMMA ReceiptsBaseStart == ReceiptsInit => ReceiptsBase
<1>. SUFFICES ASSUME ReceiptsInit PROVE ReceiptsBase
  OBVIOUS
<1>1. NoReceipt \in ReceiptRow /\ Idle \in RequestRow /\ NoDeposit \in DepositRow
  BY DEF NoReceipt, ReceiptRow, NoKey, Key, Bodies, Idle, RequestRow, NoDeposit, DepositRow
<1>2. [status |-> "absent", pay |-> 0] \in LineRow
  BY DEF LineRow
<1>3. nReceipt \in 0 .. MaxReceipts /\ nDeposit \in 0 .. MaxDeposits /\ \A p \in Persons : paidAmount[p] \in 0 .. InvoiceTotal[p]
  BY ReceiptsAssumption DEF ReceiptsInit
<1>4. ReceiptsTypeOK
  BY <1>1, <1>2, <1>3, ReceiptsTyped DEF ReceiptsInit
<1>. QED BY <1>4 DEF ReceiptsInit, ReceiptsBase, RequestsKnown, Idle

\* More rows, and the rows there were stay named.
LEMMA MoreBooked ==
    ASSUME ReceiptsTypeOK, nReceipt' \in {nReceipt, nReceipt + 1}
    PROVE  Booked \subseteq Booked'
BY ReceiptsAssumption DEF ReceiptsTypeOK, Booked

\* A new row of payments.
LEMMA InsertTypes ==
    ASSUME ReceiptsBase, NEW a \in Actors, NEW p \in Persons, NEW k \in Key, NEW b \in Bodies, NEW m \in Nat,
           InsertReceipt(a, p, k, b, m)
    PROVE  /\ nReceipt' \in 0 .. MaxReceipts /\ nReceipt' = nReceipt + 1 /\ nReceipt' \in ReceiptIds
           /\ receipt' \in [ReceiptIds -> ReceiptRow]
           /\ \A q \in Persons : paidAmount'[q] \in 0 .. InvoiceTotal[q]
           /\ DOMAIN paidAmount' = Persons
           /\ \E row \in ReceiptRow : /\ receipt' = [receipt EXCEPT ![nReceipt'] = row]
                                      /\ row.actor = a /\ row.key = k /\ ~row.reversed
<1>. DEFINE g == Given(p, b, m)
            row == [actor |-> a, person |-> p, key |-> k, body |-> b, amount |-> m, given |-> g, reversed |-> FALSE]
<1>1. nReceipt \in Nat /\ MaxReceipts \in Nat /\ receipt \in [ReceiptIds -> ReceiptRow] /\ DOMAIN paidAmount = Persons
  BY ReceiptsTyped, ReceiptsAssumption DEF ReceiptsBase
<1>2. nReceipt' \in 0 .. MaxReceipts /\ nReceipt' = nReceipt + 1 /\ nReceipt' \in ReceiptIds
  BY <1>1 DEF InsertReceipt, ReceiptIds
<1>3. InvoiceTotal[p] \in Nat /\ paidAmount[p] \in 0 .. InvoiceTotal[p]
  BY ReceiptsAssumption DEF ReceiptsBase, ReceiptsTypeOK
<1>4. g \in Nat /\ paidAmount[p] + g \in 0 .. InvoiceTotal[p]
  BY <1>3 DEF Given
<1>5. row \in ReceiptRow
  BY <1>4 DEF ReceiptRow
<1>6. receipt' = [receipt EXCEPT ![nReceipt'] = row]
  BY <1>2 DEF InsertReceipt
<1>7. receipt' \in [ReceiptIds -> ReceiptRow]
  BY <1>1, <1>2, <1>5, <1>6
<1>8. paidAmount' = [paidAmount EXCEPT ![p] = paidAmount[p] + g]
  BY DEF InsertReceipt
<1>9. \A q \in Persons : paidAmount'[q] \in 0 .. InvoiceTotal[q]
  <2>1. \A q \in Persons : paidAmount'[q] = IF q = p THEN paidAmount[p] + g ELSE paidAmount[q]
    BY <1>1, <1>8
  <2>. HIDE DEF g
  <2>. QED BY <1>4, <2>1 DEF ReceiptsBase, ReceiptsTypeOK
<1>10. row.actor = a /\ row.key = k /\ ~row.reversed
  OBVIOUS
<1>. HIDE DEF row
<1>. QED BY <1>1, <1>2, <1>5, <1>6, <1>7, <1>8, <1>9, <1>10

\* A request ends.
LEMMA DoneTypes ==
    ASSUME ReceiptsBase, NEW r \in Requests, Done(r), Booked \subseteq Booked'
    PROVE  /\ lineLock' \in [BankLines -> Requests \cup {NoRequest}]
           /\ request' \in [Requests -> RequestRow]
           /\ RequestsKnown'
           /\ \A x \in Requests : request'[x] = IF x = r THEN Idle ELSE request[x]
           /\ \A t \in BankLines : lineLock'[t] = IF lineLock[t] = r THEN NoRequest ELSE lineLock[t]
<1>1. Idle \in RequestRow /\ Idle.at = "idle"
  BY DEF Idle, RequestRow, Bodies
<1>2. request \in [Requests -> RequestRow] /\ lineLock \in [BankLines -> Requests \cup {NoRequest}]
  BY ReceiptsTyped DEF ReceiptsBase
<1>3. request' = [request EXCEPT ![r] = Idle] /\ lineLock' = [t \in BankLines |-> IF lineLock[t] = r THEN NoRequest ELSE lineLock[t]]
  BY DEF Done, Release
<1>4. \A x \in Requests : request'[x] = IF x = r THEN Idle ELSE request[x]
  BY <1>2, <1>3
<1>5. RequestsKnown'
  BY <1>1, <1>4 DEF ReceiptsBase, RequestsKnown
<1>. QED BY <1>1, <1>2, <1>3, <1>4, <1>5

\* More receipts, more rows that may name them.
LEMMA WiderRows ==
    ASSUME Booked \subseteq Booked'
    PROVE  LineRow \subseteq LineRow' /\ DepositRow \subseteq DepositRow'
BY DEF LineRow, DepositRow

\* A request starts: one more record with what it is about.
LEMMA StartTypes ==
    ASSUME ReceiptsBase, NEW r \in Requests, NEW row \in RequestRow, request' = [request EXCEPT ![r] = row],
           nReceipt' = nReceipt,
           row.at \in {"check", "book"} => row.actor \in Actors /\ row.person \in Persons /\ row.id \in ClientKeys /\ row.body \in {"auto", "credit"},
           row.at = "assign" => row.actor \in Actors /\ row.person \in Persons /\ row.id \in BankLines /\ row.body \in {"invoice", "credit"},
           row.at = "reverse" => row.id \in Booked
    PROVE  /\ request' \in [Requests -> RequestRow]
           /\ RequestsKnown'
           /\ \A x \in Requests : request'[x] = IF x = r THEN row ELSE request[x]
<1>1. request \in [Requests -> RequestRow]
  BY ReceiptsTyped DEF ReceiptsBase
<1>2. \A x \in Requests : request'[x] = IF x = r THEN row ELSE request[x]
  BY <1>1
<1>3. Booked' = Booked
  BY DEF Booked
<1>. QED BY <1>1, <1>2, <1>3 DEF ReceiptsBase, RequestsKnown

\* The base of a next state, from its parts.
LEMMA BaseTogether ==
    ASSUME ReceiptsBase, nReceipt' \in 0 .. MaxReceipts, nReceipt' \in {nReceipt, nReceipt + 1},
           nDeposit' \in 0 .. MaxDeposits,
           receipt' \in [ReceiptIds -> ReceiptRow],
           \A q \in Persons : paidAmount'[q] \in 0 .. InvoiceTotal[q], DOMAIN paidAmount' = Persons,
           bankLine' = bankLine \/ bankLine' \in [BankLines -> LineRow'],
           deposit' = deposit \/ deposit' \in [DepositIds -> DepositRow'],
           lineLock' \in [BankLines -> Requests \cup {NoRequest}],
           request' \in [Requests -> RequestRow],
           RequestsKnown'
    PROVE  ReceiptsBase'
<1>1. bankLine \in [BankLines -> LineRow] /\ deposit \in [DepositIds -> DepositRow]
  BY ReceiptsTyped DEF ReceiptsBase
<1>2. LineRow \subseteq LineRow' /\ DepositRow \subseteq DepositRow'
  BY MoreBooked, WiderRows DEF ReceiptsBase
<1>3. bankLine' \in [BankLines -> LineRow'] /\ deposit' \in [DepositIds -> DepositRow']
  BY <1>1, <1>2
<1>4. ReceiptsTypeOK'
  BY <1>3 DEF ReceiptsTypeOK, ReceiptRow, LineRow, DepositRow, RequestRow
<1>. QED BY <1>4 DEF ReceiptsBase

\* Receipts are numbered from 1.
LEMMA BookedIds == ReceiptsTypeOK => Booked \subseteq ReceiptIds /\ ReceiptIds \subseteq Nat \ {0} /\ nReceipt \in Nat
BY ReceiptsAssumption DEF ReceiptsTypeOK, Booked, ReceiptIds

\* The base is kept by the steps of a request.
LEMMA RequestBase == ASSUME ReceiptsBase, NEW r \in Requests, RequestStep(r) PROVE ReceiptsBase'
<1>0. /\ nReceipt \in 0 .. MaxReceipts /\ nDeposit \in 0 .. MaxDeposits /\ nReceipt \in Nat
      /\ receipt \in [ReceiptIds -> ReceiptRow]
      /\ \A p \in Persons : paidAmount[p] \in 0 .. InvoiceTotal[p]
      /\ DOMAIN paidAmount = Persons
      /\ bankLine \in [BankLines -> LineRow]
      /\ deposit \in [DepositIds -> DepositRow]
      /\ lineLock \in [BankLines -> Requests \cup {NoRequest}]
      /\ request \in [Requests -> RequestRow] /\ RequestsKnown
  BY ReceiptsTyped, ReceiptsAssumption DEF ReceiptsBase
<1>d. ASSUME Done(r), UNCHANGED <<receiptVars, bankLine, depositVars>> PROVE ReceiptsBase'
  <2>1. Booked \subseteq Booked'
    BY <1>d DEF Booked, receiptVars
  <2>2. lineLock' \in [BankLines -> Requests \cup {NoRequest}] /\ request' \in [Requests -> RequestRow] /\ RequestsKnown'
    BY <1>d, <2>1, DoneTypes
  <2>. QED BY <1>0, <1>d, <2>2, BaseTogether DEF receiptVars, depositVars
<1>1. ASSUME NEW a \in Actors, NEW p \in Persons, NEW k \in ClientKeys, NEW body \in {"auto", "credit"}, StartPay(r, a, p, k, body)
      PROVE  ReceiptsBase'
  <2>. DEFINE row == [at |-> "check", actor |-> a, person |-> p, id |-> k, body |-> body, gen |-> 0]
  <2>1. row \in RequestRow /\ row.at = "check" /\ row.actor = a /\ row.person = p /\ row.id = k /\ row.body = body
    BY ReceiptsAssumption DEF RequestRow, Bodies
  <2>2. request' = [request EXCEPT ![r] = row] /\ UNCHANGED <<receiptVars, bankLine, depositVars, lineLock>>
    BY <1>1 DEF StartPay
  <2>. HIDE DEF row
  <2>3. request' \in [Requests -> RequestRow] /\ RequestsKnown'
    BY <2>1, <2>2, StartTypes DEF receiptVars
  <2>. QED BY <1>0, <2>2, <2>3, BaseTogether DEF receiptVars, depositVars
<1>2. CASE CheckKey(r)
  <2>1. CASE Done(r)
    BY <1>d, <1>2, <2>1 DEF CheckKey
  <2>2. CASE ~Done(r)
    <3>. DEFINE row == [request[r] EXCEPT !.at = "book"]
    <3>1. request[r].at = "check" /\ request' = [request EXCEPT ![r] = row] /\ UNCHANGED <<receiptVars, bankLine, depositVars, lineLock>>
      BY <1>2, <2>2 DEF CheckKey
    <3>2. row \in RequestRow
      BY <1>0 DEF RequestRow
    <3>3. row.at = "book" /\ row.actor = request[r].actor /\ row.person = request[r].person /\ row.id = request[r].id /\ row.body = request[r].body
      BY <1>0 DEF RequestRow
    <3>. HIDE DEF row
    <3>4. request' \in [Requests -> RequestRow] /\ RequestsKnown'
      BY <1>0, <3>1, <3>2, <3>3, StartTypes DEF receiptVars, RequestsKnown
    <3>. QED BY <1>0, <3>1, <3>4, BaseTogether DEF receiptVars, depositVars
  <2>. QED BY <2>1, <2>2
<1>3. CASE PayInvoices(r)
  <2>1. CASE UNCHANGED receiptVars
    BY <1>d, <1>3, <2>1 DEF PayInvoices
  <2>2. CASE InsertReceipt(request[r].actor, request[r].person, ClientKey(r), request[r].body, 1)
    <3>1. request[r].actor \in Actors /\ request[r].person \in Persons /\ request[r].id \in Nat /\ request[r].body \in Bodies
      BY <1>0, <1>3, ReceiptsAssumption DEF PayInvoices, RequestsKnown, Bodies
    <3>2. ClientKey(r) \in Key
      BY <3>1 DEF ClientKey, Key
    <3>3. /\ nReceipt' \in 0 .. MaxReceipts /\ nReceipt' = nReceipt + 1
          /\ receipt' \in [ReceiptIds -> ReceiptRow]
          /\ \A q \in Persons : paidAmount'[q] \in 0 .. InvoiceTotal[q]
          /\ DOMAIN paidAmount' = Persons
      BY <2>2, <3>1, <3>2, InsertTypes
    <3>4. Done(r) /\ UNCHANGED <<bankLine, depositVars>>
      BY <1>3 DEF PayInvoices
    <3>5. Booked \subseteq Booked'
      BY <3>3, MoreBooked DEF ReceiptsBase
    <3>6. lineLock' \in [BankLines -> Requests \cup {NoRequest}] /\ request' \in [Requests -> RequestRow] /\ RequestsKnown'
      BY <3>4, <3>5, DoneTypes
    <3>. QED BY <1>0, <3>3, <3>4, <3>6, BaseTogether DEF depositVars
  <2>. QED BY <1>3, <2>1, <2>2 DEF PayInvoices
<1>4. CASE FailRequest(r)
  BY <1>d, <1>4 DEF FailRequest
<1>5. ASSUME NEW a \in Actors, NEW p \in Persons, NEW t \in BankLines, NEW body \in {"invoice", "credit"}, StartAssign(r, a, p, t, body)
      PROVE  ReceiptsBase'
  <2>. DEFINE row == [at |-> "assign", actor |-> a, person |-> p, id |-> t, body |-> body, gen |-> bankLine[t].pay]
  <2>0. bankLine[t].pay \in ReceiptIds \cup {0}
    BY <1>0, BookedIds DEF LineRow, ReceiptsBase
  <2>1. row \in RequestRow /\ row.at = "assign" /\ row.actor = a /\ row.person = p /\ row.id = t /\ row.body = body
    BY <2>0, ReceiptsAssumption DEF RequestRow, Bodies
  <2>2. request' = [request EXCEPT ![r] = row] /\ UNCHANGED <<receiptVars, bankLine, depositVars>> /\ lineLock' = [lineLock EXCEPT ![t] = r]
    BY <1>5 DEF StartAssign
  <2>. HIDE DEF row
  <2>3. request' \in [Requests -> RequestRow] /\ RequestsKnown'
    BY <2>1, <2>2, StartTypes DEF receiptVars
  <2>4. lineLock' \in [BankLines -> Requests \cup {NoRequest}]
    BY <1>0, <2>2
  <2>. QED BY <1>0, <2>2, <2>3, <2>4, BaseTogether DEF receiptVars, depositVars
<1>6. CASE AssignBankTransaction(r)
  <2>. DEFINE q == request[r]
  <2>0. /\ q.actor \in Actors /\ q.person \in Persons /\ q.id \in BankLines /\ q.body \in Bodies /\ q.gen \in ReceiptIds \cup {0}
        /\ Done(r) /\ UNCHANGED depositVars
    BY <1>0, <1>6 DEF AssignBankTransaction, RequestsKnown, Bodies, RequestRow
  <2>1. CASE /\ InsertReceipt(q.actor, q.person, LineKey(q.id, q.gen), q.body, LineAmount[q.id])
             /\ bankLine' = [bankLine EXCEPT ![q.id] = [status |-> "zugeordnet", pay |-> nReceipt']]
    <3>1. LineKey(q.id, q.gen) \in Key /\ LineAmount[q.id] \in Nat
      BY <2>0, ReceiptsAssumption DEF LineKey, Key
    <3>2. /\ nReceipt' \in 0 .. MaxReceipts /\ nReceipt' = nReceipt + 1
          /\ receipt' \in [ReceiptIds -> ReceiptRow]
          /\ \A x \in Persons : paidAmount'[x] \in 0 .. InvoiceTotal[x]
          /\ DOMAIN paidAmount' = Persons
      BY <2>0, <2>1, <3>1, InsertTypes
    <3>3. Booked \subseteq Booked'
      BY <3>2, MoreBooked DEF ReceiptsBase
    <3>4. lineLock' \in [BankLines -> Requests \cup {NoRequest}] /\ request' \in [Requests -> RequestRow] /\ RequestsKnown'
      BY <2>0, <3>3, DoneTypes
    <3>5. [status |-> "zugeordnet", pay |-> nReceipt'] \in LineRow'
      BY <1>0, <3>2 DEF LineRow, Booked
    <3>6. bankLine' \in [BankLines -> LineRow']
      BY <1>0, <2>1, <3>3, <3>5, WiderRows
    <3>. QED BY <1>0, <2>0, <3>2, <3>4, <3>6, BaseTogether DEF depositVars
  <2>2. CASE \E p \in Booked : bankLine' = [bankLine EXCEPT ![q.id] = [status |-> "zugeordnet", pay |-> p]] /\ UNCHANGED receiptVars
    <3>1. PICK p \in Booked : bankLine' = [bankLine EXCEPT ![q.id] = [status |-> "zugeordnet", pay |-> p]] /\ UNCHANGED receiptVars
      BY <2>2
    <3>2. Booked' = Booked
      BY <3>1 DEF Booked, receiptVars
    <3>3. lineLock' \in [BankLines -> Requests \cup {NoRequest}] /\ request' \in [Requests -> RequestRow] /\ RequestsKnown'
      BY <2>0, <3>2, DoneTypes
    <3>4. [status |-> "zugeordnet", pay |-> p] \in LineRow'
      BY <3>2 DEF LineRow
    <3>5. bankLine' \in [BankLines -> LineRow']
      BY <1>0, <3>1, <3>2, <3>4, WiderRows
    <3>. QED BY <1>0, <2>0, <3>1, <3>3, <3>5, BaseTogether DEF depositVars, receiptVars
  <2>3. ASSUME NEW a, NEW k, PriorReceipt(a, k) # 0 PROVE PriorReceipt(a, k) \in Booked
    BY <2>3 DEF PriorReceipt
  <2>. QED BY <1>6, <2>1, <2>2, <2>3 DEF AssignBankTransaction
<1>7. ASSUME NEW p \in ReceiptIds, StartReverse(r, p) PROVE ReceiptsBase'
  <2>. DEFINE row == [Idle EXCEPT !.at = "reverse", !.id = p]
  <2>1. row \in RequestRow /\ row.at = "reverse" /\ row.id = p
    <3>1. Idle \in RequestRow
      BY DEF RequestRow, Bodies, Idle
    <3>2. p \in Nat
      BY BookedIds DEF ReceiptsBase
    <3>. QED BY <3>1, <3>2 DEF RequestRow
  <2>2. /\ request' = [request EXCEPT ![r] = row] /\ UNCHANGED <<receiptVars, bankLine, depositVars>>
        /\ lineLock' = LockLines(r, LinesOf(p)) /\ p \in Booked
    BY <1>7 DEF StartReverse
  <2>. HIDE DEF row
  <2>3. request' \in [Requests -> RequestRow] /\ RequestsKnown'
    BY <2>1, <2>2, StartTypes DEF receiptVars
  <2>4. lineLock' \in [BankLines -> Requests \cup {NoRequest}]
    BY <1>0, <2>2 DEF LockLines
  <2>. QED BY <1>0, <2>2, <2>3, <2>4, BaseTogether DEF receiptVars, depositVars
<1>8. CASE DeletePayment(r)
  <2>. DEFINE p == request[r].id
  <2>0. /\ p \in ReceiptIds /\ Done(r) /\ UNCHANGED <<nReceipt, depositVars>>
        /\ receipt' = [receipt EXCEPT ![p].reversed = TRUE, ![p].given = 0]
        /\ paidAmount' = [paidAmount EXCEPT ![receipt[p].person] = IF @ > receipt[p].given THEN @ - receipt[p].given ELSE 0]
        /\ bankLine' = Reopen(p)
    <3>1. p \in ReceiptIds
      BY <1>0, <1>8, BookedIds DEF DeletePayment, RequestsKnown, ReceiptsBase
    <3>. QED BY <1>8, <3>1 DEF DeletePayment
  <2>1. receipt[p] \in ReceiptRow
    BY <1>0, <2>0
  <2>2. [receipt[p] EXCEPT !.reversed = TRUE, !.given = 0] \in ReceiptRow
    BY <2>1 DEF ReceiptRow
  <2>3. receipt' \in [ReceiptIds -> ReceiptRow]
    BY <1>0, <2>0, <2>2
  <2>4. \A x \in Persons : paidAmount'[x] \in 0 .. InvoiceTotal[x]
    <3>1. ASSUME NEW x \in Persons PROVE paidAmount'[x] \in 0 .. InvoiceTotal[x]
      <4>1. paidAmount[x] \in 0 .. InvoiceTotal[x] /\ InvoiceTotal[x] \in Nat /\ receipt[p].given \in Nat
        BY <1>0, <2>1, ReceiptsAssumption DEF ReceiptRow
      <4>2. paidAmount'[x] \in {paidAmount[x], 0} \/ (paidAmount'[x] = paidAmount[x] - receipt[p].given /\ paidAmount[x] > receipt[p].given)
        BY <1>0, <2>0
      <4>. QED BY <4>1, <4>2
    <3>. QED BY <3>1
  <2>5. DOMAIN paidAmount' = Persons
    BY <1>0, <2>0
  <2>6. Booked' = Booked
    BY <2>0 DEF Booked
  <2>7. lineLock' \in [BankLines -> Requests \cup {NoRequest}] /\ request' \in [Requests -> RequestRow] /\ RequestsKnown'
    BY <2>0, <2>6, DoneTypes
  <2>8. \A t \in BankLines : [bankLine[t] EXCEPT !.status = "offen"] \in LineRow
    BY <1>0 DEF LineRow
  <2>9. bankLine' \in [BankLines -> LineRow']
    BY <1>0, <2>0, <2>6, <2>8, WiderRows DEF Reopen
  <2>. QED BY <1>0, <2>0, <2>3, <2>4, <2>5, <2>7, <2>9, BaseTogether DEF depositVars
<1>. QED BY <1>1, <1>2, <1>3, <1>4, <1>5, <1>6, <1>7, <1>8 DEF RequestStep

\* The base is kept by every step.
LEMMA ReceiptsBaseStep == ReceiptsBase /\ [ReceiptsNext]_receiptsVars => ReceiptsBase'
<1>. SUFFICES ASSUME ReceiptsBase, [ReceiptsNext]_receiptsVars PROVE ReceiptsBase'
  OBVIOUS
<1>0. /\ nReceipt \in 0 .. MaxReceipts /\ nDeposit \in 0 .. MaxDeposits /\ nReceipt \in Nat /\ nDeposit \in Nat
      /\ receipt \in [ReceiptIds -> ReceiptRow]
      /\ \A p \in Persons : paidAmount[p] \in 0 .. InvoiceTotal[p]
      /\ DOMAIN paidAmount = Persons
      /\ bankLine \in [BankLines -> LineRow]
      /\ deposit \in [DepositIds -> DepositRow]
      /\ lineLock \in [BankLines -> Requests \cup {NoRequest}]
      /\ request \in [Requests -> RequestRow] /\ RequestsKnown
  BY ReceiptsTyped, ReceiptsAssumption DEF ReceiptsBase
<1>s. ASSUME Booked \subseteq Booked', UNCHANGED request PROVE RequestsKnown'
  BY <1>0, <1>s DEF RequestsKnown
<1>1. CASE \E r \in Requests : RequestStep(r)
  BY <1>1, RequestBase
<1>2. ASSUME NEW file \in SUBSET BankLines, ImportBankStatement(file) PROVE ReceiptsBase'
  <2>1. Booked' = Booked /\ UNCHANGED <<receiptVars, depositVars, lineLock, request>>
    BY <1>2 DEF ImportBankStatement, Booked, receiptVars
  <2>2. [status |-> "offen", pay |-> 0] \in LineRow
    BY DEF LineRow
  <2>3. bankLine' \in [BankLines -> LineRow']
    BY <1>0, <1>2, <2>1, <2>2, WiderRows DEF ImportBankStatement
  <2>. QED BY <1>0, <1>s, <2>1, <2>3, BaseTogether DEF receiptVars, depositVars
<1>3. ASSUME NEW t \in BankLines, NEW ignored \in BOOLEAN, SetBankTransactionIgnored(t, ignored) PROVE ReceiptsBase'
  <2>1. Booked' = Booked /\ UNCHANGED <<receiptVars, depositVars, lineLock, request>>
    BY <1>3 DEF SetBankTransactionIgnored, Booked, receiptVars
  <2>2. \A s \in {"ignoriert", "offen"} : [bankLine[t] EXCEPT !.status = s] \in LineRow
    BY <1>0 DEF LineRow
  <2>3. bankLine' \in [BankLines -> LineRow']
    BY <1>0, <1>3, <2>1, <2>2, WiderRows DEF SetBankTransactionIgnored
  <2>. QED BY <1>0, <1>s, <2>1, <2>3, BaseTogether DEF receiptVars, depositVars
<1>4. ASSUME NEW a \in Actors, NEW p \in Persons, NEW m \in DepositAmounts, NEW kind \in {"erhalten", "einbehalten", "zurueck"},
             CreateDeposit(a, p, kind, m)
      PROVE  ReceiptsBase'
  <2>0. /\ nDeposit' = nDeposit + 1 /\ nDeposit' \in 0 .. MaxDeposits /\ nDeposit' \in DepositIds /\ m \in Nat
        /\ UNCHANGED <<bankLine, lineLock, request>>
    BY <1>0, <1>4, ReceiptsAssumption DEF CreateDeposit, DepositIds
  <2>1. CASE kind = "einbehalten"
    <3>. DEFINE k == [kind |-> "deposit", id |-> nDeposit', gen |-> 0]
    <3>1. k \in Key /\ "auto" \in Bodies
      BY <2>0 DEF Key, Bodies
    <3>2. InsertReceipt(a, p, k, "auto", m)
      BY <1>4, <2>1 DEF CreateDeposit
    <3>. HIDE DEF k
    <3>3. /\ nReceipt' \in 0 .. MaxReceipts /\ nReceipt' = nReceipt + 1
          /\ receipt' \in [ReceiptIds -> ReceiptRow]
          /\ \A x \in Persons : paidAmount'[x] \in 0 .. InvoiceTotal[x]
          /\ DOMAIN paidAmount' = Persons
      BY <2>0, <3>1, <3>2, InsertTypes
    <3>4. Booked \subseteq Booked'
      BY <3>3, MoreBooked DEF ReceiptsBase
    <3>5. [person |-> p, kind |-> kind, amount |-> m, pay |-> nReceipt'] \in DepositRow'
      BY <1>0, <2>0, <3>3 DEF DepositRow, Booked
    <3>6. deposit' \in [DepositIds -> DepositRow']
      BY <1>0, <1>4, <2>0, <2>1, <3>4, <3>5, WiderRows DEF CreateDeposit
    <3>. QED BY <1>0, <1>s, <2>0, <3>3, <3>4, <3>6, BaseTogether
  <2>2. CASE kind # "einbehalten"
    <3>1. UNCHANGED receiptVars
      BY <1>4, <2>2 DEF CreateDeposit
    <3>2. Booked' = Booked
      BY <3>1 DEF Booked, receiptVars
    <3>3. [person |-> p, kind |-> kind, amount |-> m, pay |-> 0] \in DepositRow'
      BY <2>0 DEF DepositRow
    <3>4. deposit' \in [DepositIds -> DepositRow']
      BY <1>0, <1>4, <2>0, <2>2, <3>2, <3>3, WiderRows DEF CreateDeposit
    <3>. QED BY <1>0, <1>s, <2>0, <3>1, <3>2, <3>4, BaseTogether DEF receiptVars
  <2>. QED BY <2>1, <2>2
<1>5. ASSUME NEW d \in DepositIds, DeleteDeposit(d) PROVE ReceiptsBase'
  <2>1. Booked' = Booked /\ UNCHANGED <<receiptVars, bankLine, nDeposit, lineLock, request>>
    BY <1>5 DEF DeleteDeposit, Booked, receiptVars
  <2>2. NoDeposit \in DepositRow
    BY DEF NoDeposit, DepositRow
  <2>3. deposit' \in [DepositIds -> DepositRow']
    BY <1>0, <1>5, <2>1, <2>2, WiderRows DEF DeleteDeposit
  <2>. QED BY <1>0, <1>s, <2>1, <2>3, BaseTogether DEF receiptVars
<1>6. CASE UNCHANGED receiptsVars
  <2>1. Booked' = Booked
    BY <1>6 DEF receiptsVars, receiptVars, Booked
  <2>. QED BY <1>0, <1>s, <1>6, <2>1, BaseTogether DEF receiptsVars, receiptVars, depositVars
<1>. QED BY <1>1, <1>2, <1>3, <1>4, <1>5, <1>6 DEF ReceiptsNext

-----------------------------------------------------------------------------
(* What books once.                                                         *)

\* The thing a row of payments is about.
Thing(row) == [kind |-> row.key.kind, id |-> row.key.id,
               actor |-> IF row.key.kind = "client" THEN row.actor ELSE NoActor]

\* Every receipt is about a thing there is; only a bank line has generations.
RowsKnown == \A p \in Booked :
    /\ Thing(receipt[p]) \in Things
    /\ receipt[p].key.kind # "bank" => receipt[p].key.gen = 0
    /\ receipt[p].key.kind = "bank" => receipt[p].key.id \in BankLines
    /\ receipt[p].key.kind = "deposit" => receipt[p].key.id <= nDeposit

\* What nobody may book again is booked once.
KeysOnce == \A p, q \in Booked :
    receipt[p].key.kind # "bank" /\ Thing(receipt[p]) = Thing(receipt[q]) => p = q

\* A request that assigns a line holds it, as it found it.
LinesClaimed == \A r \in Requests, t \in BankLines : request[r].at = "assign" /\ request[r].id = t =>
    lineLock[t] = r /\ Assignable(t) /\ request[r].gen = bankLine[t].pay

OnceInv == ReceiptsBase /\ RowsKnown /\ KeysOnce /\ LinesClaimed /\ LineShowsReceipt

\* The inductive invariant holds at the start.
LEMMA OnceStart == ReceiptsInit => OnceInv
<1>. SUFFICES ASSUME ReceiptsInit PROVE OnceInv
  OBVIOUS
<1>1. ReceiptsBase /\ Booked = {}
  BY ReceiptsBaseStart DEF ReceiptsInit, Booked
<1>2. LinesClaimed
  BY DEF ReceiptsInit, LinesClaimed, Idle
<1>3. LineShowsReceipt
  BY <1>1 DEF ReceiptsInit, LineShowsReceipt
<1>. QED BY <1>1, <1>2, <1>3 DEF OnceInv, RowsKnown, KeysOnce

\* What the look-up of a key says.
LEMMA PriorMeans ==
    ASSUME ReceiptsTypeOK, NEW a, NEW k
    PROVE  /\ PriorReceipt(a, k) = 0 => \A p \in Booked : ~(receipt[p].actor = a /\ receipt[p].key = k)
           /\ PriorReceipt(a, k) # 0 => /\ PriorReceipt(a, k) \in Booked
                                        /\ receipt[PriorReceipt(a, k)].actor = a
                                        /\ receipt[PriorReceipt(a, k)].key = k
<1>. DEFINE prior == { p \in Booked : receipt[p].actor = a /\ receipt[p].key = k }
<1>1. prior # {} => PriorReceipt(a, k) \in prior
  BY DEF PriorReceipt
<1>2. prior = {} => PriorReceipt(a, k) = 0
  BY DEF PriorReceipt
<1>3. 0 \notin Booked
  BY DEF Booked
<1>. QED BY <1>1, <1>2, <1>3

\* A line with money that counts cannot be assigned, ignored or offered.
LEMMA LiveLineIsTaken ==
    ASSUME OnceInv, NEW p \in Booked, receipt[p].key.kind = "bank", ~receipt[p].reversed
    PROVE  EffectiveStatus(receipt[p].key.id) = "zugeordnet" /\ bankLine[receipt[p].key.id].status = "zugeordnet"
<1>1. bankLine[receipt[p].key.id] = [status |-> "zugeordnet", pay |-> p]
  BY DEF OnceInv, LineShowsReceipt
<1>2. bankLine[receipt[p].key.id].status = "zugeordnet" /\ bankLine[receipt[p].key.id].pay = p
  BY <1>1
<1>3. ~Reversed(bankLine[receipt[p].key.id].pay)
  BY <1>2 DEF Reversed
<1>. QED BY <1>2, <1>3 DEF EffectiveStatus

\* Two receipts of a thing do not both count.
LEMMA OneLive ==
    ASSUME OnceInv, NEW p \in Booked, NEW q \in Booked, Thing(receipt[p]) = Thing(receipt[q]),
           ~receipt[p].reversed, ~receipt[q].reversed
    PROVE  p = q
<1>1. receipt[p].key.kind = receipt[q].key.kind /\ receipt[p].key.id = receipt[q].key.id
  BY DEF Thing
<1>2. CASE receipt[p].key.kind = "bank"
  <2>1. /\ bankLine[receipt[p].key.id] = [status |-> "zugeordnet", pay |-> p]
        /\ bankLine[receipt[q].key.id] = [status |-> "zugeordnet", pay |-> q]
    BY <1>1, <1>2 DEF OnceInv, LineShowsReceipt
  <2>2. bankLine[receipt[p].key.id].pay = p /\ bankLine[receipt[q].key.id].pay = q
    BY <2>1
  <2>. QED BY <1>1, <2>2
<1>. QED BY <1>2 DEF OnceInv, KeysOnce

\* Locks: what one request does to its own lines leaves the lines of the others.
LEMMA ClaimsStay ==
    ASSUME OnceInv, NEW r \in Requests,
           \A x \in Requests : x # r => request'[x] = request[x],
           request'[r].at # "assign",
           \A t \in BankLines : lineLock[t] \notin {r, NoRequest} => lineLock'[t] = lineLock[t] /\ bankLine'[t] = bankLine[t],
           \A p \in Booked : receipt[p].reversed => receipt'[p].reversed
    PROVE  LinesClaimed'
<1>1. SUFFICES ASSUME NEW x \in Requests, NEW t \in BankLines, request'[x].at = "assign", request'[x].id = t
      PROVE  lineLock'[t] = x /\ Assignable(t)' /\ request'[x].gen = bankLine'[t].pay
  BY DEF LinesClaimed
<1>2. x # r /\ request'[x] = request[x]
  BY <1>1
<1>3. lineLock[t] = x /\ Assignable(t) /\ request[x].gen = bankLine[t].pay
  BY <1>1, <1>2 DEF OnceInv, LinesClaimed
<1>4. lineLock'[t] = lineLock[t] /\ bankLine'[t] = bankLine[t]
  BY <1>2, <1>3, ReceiptsAssumption
<1>5. bankLine[t].pay \in Booked \cup {0}
  BY <1>3, ReceiptsTyped DEF OnceInv, ReceiptsBase, LineRow
<1>6. Reversed(bankLine[t].pay) => Reversed(bankLine[t].pay)'
  BY <1>4, <1>5 DEF Reversed
<1>7. Assignable(t)'
  BY <1>3, <1>4, <1>6 DEF Assignable, EffectiveStatus
<1>. QED BY <1>1, <1>2, <1>3, <1>4, <1>7

\* A row of payments about a thing without a receipt that counts.
LEMMA InsertBooks ==
    ASSUME OnceInv, nReceipt' = nReceipt + 1, nReceipt' \in ReceiptIds,
           NEW row \in ReceiptRow, receipt' = [receipt EXCEPT ![nReceipt'] = row], ~row.reversed,
           Thing(row) \in Things,
           \A p \in Booked : Thing(receipt[p]) = Thing(row) => row.key.kind = "bank" /\ receipt[p].reversed
    PROVE  Once!Book(Thing(row))
<1>. DEFINE x == Thing(row)
            Live == [y \in Things |-> { p \in Booked : ThingOf(p) = y /\ ~receipt[p].reversed }]
            Spent == { ThingOf(p) : p \in Booked }
<1>0. /\ receipt \in [ReceiptIds -> ReceiptRow] /\ Booked \subseteq ReceiptIds /\ nReceipt \in Nat
      /\ nReceipt' \notin Booked /\ Booked' = Booked \cup {nReceipt'}
  BY ReceiptsTyped, BookedIds DEF OnceInv, ReceiptsBase, Booked
<1>1. \A p \in Booked : receipt'[p] = receipt[p]
  BY <1>0
<1>2. receipt'[nReceipt'] = row
  BY <1>0
<1>3. \A p \in Booked : ThingOf(p) = Thing(receipt[p])
  BY DEF ThingOf, Thing
<1>4. \A p \in Booked' : ThingOf(p)' = Thing(receipt'[p])
  BY DEF ThingOf, Thing
<1>5. Live[x] = {}
  BY <1>3
<1>6. x \in Spent => x \in { y \in Things : y.kind = "bank" }
  BY <1>3 DEF Thing
<1>7. Spent' = Spent \cup {x}
  <2>1. Spent' = { ThingOf(p)' : p \in Booked' }
    OBVIOUS
  <2>. QED BY <1>0, <1>1, <1>2, <1>3, <1>4, <2>1
<1>8. Live' = [Live EXCEPT ![x] = {nReceipt'}]
  <2>1. ASSUME NEW y \in Things PROVE Live'[y] = IF y = x THEN {nReceipt'} ELSE Live[y]
    <3>1. Live[y] = { p \in Booked : Thing(receipt[p]) = y /\ ~receipt[p].reversed }
      BY <1>3
    <3>2. Live'[y] = { p \in Booked' : ThingOf(p)' = y /\ ~receipt'[p].reversed }
      OBVIOUS
    <3>3. Live'[y] = { p \in Booked' : Thing(receipt'[p]) = y /\ ~receipt'[p].reversed }
      BY <1>4, <3>2
    <3>4. CASE y = x
      <4>1. \A p \in Booked : ~(Thing(receipt'[p]) = y /\ ~receipt'[p].reversed)
        BY <1>1, <3>4
      <4>2. Thing(receipt'[nReceipt']) = y /\ ~receipt'[nReceipt'].reversed
        BY <1>2, <3>4
      <4>. QED BY <1>0, <3>3, <3>4, <4>1, <4>2
    <3>5. CASE y # x
      <4>1. Thing(receipt'[nReceipt']) # y
        BY <1>2, <3>5
      <4>. QED BY <1>0, <1>1, <3>1, <3>3, <3>5, <4>1
    <3>. QED BY <3>4, <3>5
  <2>. HIDE DEF Live
  <2>2. Live' \in [Things -> SUBSET Booked'] /\ DOMAIN Live = Things
    BY DEF Live
  <2>. QED BY <2>1, <2>2
<1>. QED BY <1>5, <1>6, <1>7, <1>8 DEF Once!Book

\* A Storno of a receipt that counts.
LEMMA ReverseReverses ==
    ASSUME OnceInv, nReceipt' = nReceipt, NEW p \in Booked, ~receipt[p].reversed,
           \A q \in Booked : /\ Thing(receipt'[q]) = Thing(receipt[q])
                             /\ receipt'[q].reversed = (receipt[q].reversed \/ q = p)
    PROVE  \E x \in Things : Once!Reverse(x)
<1>. DEFINE Live == [y \in Things |-> { q \in Booked : ThingOf(q) = y /\ ~receipt[q].reversed }]
            Spent == { ThingOf(q) : q \in Booked }
<1>0. Booked' = Booked
  BY DEF Booked
<1>3. \A q \in Booked : ThingOf(q) = Thing(receipt[q])
  BY DEF ThingOf, Thing
<1>4. \A q \in Booked : ThingOf(q)' = Thing(receipt'[q])
  BY DEF ThingOf, Thing
<1>5. PICK x \in Things : x = Thing(receipt[p])
  BY DEF OnceInv, RowsKnown
<1>6. Live[x] = {p}
  BY <1>3, <1>5, OneLive
<1>7. Spent' = Spent
  <2>1. Spent' = { ThingOf(q)' : q \in Booked' }
    OBVIOUS
  <2>. QED BY <1>0, <1>3, <1>4, <2>1
<1>8. Live' = [Live EXCEPT ![x] = {}]
  <2>1. \A y \in Things : Live'[y] = { q \in Booked : Thing(receipt[q]) = y /\ ~receipt[q].reversed /\ q # p }
    BY <1>0, <1>4
  <2>2. ASSUME NEW y \in Things PROVE Live'[y] = IF y = x THEN {} ELSE Live[y]
    <3>1. Live[y] = { q \in Booked : Thing(receipt[q]) = y /\ ~receipt[q].reversed }
      BY <1>3
    <3>2. CASE y = x
      BY <1>6, <2>1, <3>1, <3>2
    <3>3. CASE y # x
      <4>1. Thing(receipt[p]) # y
        BY <1>5, <3>3
      <4>2. \A q \in Booked : Thing(receipt[q]) = y => q # p
        BY <4>1
      <4>. QED BY <2>1, <3>1, <3>3, <4>2
    <3>. QED BY <3>2, <3>3
  <2>. HIDE DEF Live
  <2>3. Live' \in [Things -> SUBSET Booked'] /\ DOMAIN Live = Things
    BY DEF Live
  <2>. QED BY <2>2, <2>3
<1>. QED BY <1>5, <1>6, <1>7, <1>8 DEF Once!Reverse

\* Nothing is booked or reversed.
LEMMA NothingBooked ==
    ASSUME UNCHANGED <<nReceipt, receipt>>
    PROVE  UNCHANGED <<[y \in Things |-> { q \in Booked : ThingOf(q) = y /\ ~receipt[q].reversed }],
                       { ThingOf(q) : q \in Booked }>>
BY DEF Booked, ThingOf

\* What the rows look like after a receipt was booked.
LEMMA InsertKeeps ==
    ASSUME OnceInv, nReceipt' = nReceipt + 1, nReceipt' \in ReceiptIds,
           NEW row \in ReceiptRow, receipt' = [receipt EXCEPT ![nReceipt'] = row],
           Thing(row) \in Things,
           row.key.kind # "bank" => row.key.gen = 0,
           row.key.kind = "bank" => row.key.id \in BankLines,
           row.key.kind = "deposit" => row.key.id <= nDeposit',
           nDeposit' \in {nDeposit, nDeposit + 1},
           \A p \in Booked : Thing(receipt[p]) = Thing(row) => row.key.kind = "bank" /\ receipt[p].reversed
    PROVE  /\ RowsKnown' /\ KeysOnce'
           /\ Booked' = Booked \cup {nReceipt'} /\ nReceipt' \notin Booked
           /\ receipt'[nReceipt'] = row
           /\ \A p \in Booked : receipt'[p] = receipt[p]
<1>0. /\ receipt \in [ReceiptIds -> ReceiptRow] /\ Booked \subseteq ReceiptIds /\ nReceipt \in Nat
      /\ nReceipt' \notin Booked /\ Booked' = Booked \cup {nReceipt'} /\ nDeposit \in Nat
  BY ReceiptsTyped, BookedIds, ReceiptsAssumption DEF OnceInv, ReceiptsBase, Booked
<1>1. \A p \in Booked : receipt'[p] = receipt[p]
  BY <1>0
<1>2. receipt'[nReceipt'] = row
  BY <1>0
<1>3. \A p \in Booked : receipt[p].key.kind = "deposit" => receipt[p].key.id <= nDeposit'
  <2>1. \A p \in Booked : receipt[p].key.id \in Nat
    BY <1>0 DEF ReceiptRow, Key
  <2>. QED BY <1>0, <2>1 DEF OnceInv, RowsKnown
<1>4. RowsKnown'
  BY <1>0, <1>1, <1>2, <1>3 DEF OnceInv, RowsKnown
<1>5. KeysOnce'
  <2>1. SUFFICES ASSUME NEW p \in Booked', NEW q \in Booked', receipt'[p].key.kind # "bank", Thing(receipt'[p]) = Thing(receipt'[q])
        PROVE  p = q
    BY DEF KeysOnce
  <2>2. receipt'[q].key.kind = receipt'[p].key.kind
    BY <2>1 DEF Thing
  <2>. QED BY <1>0, <1>1, <1>2, <2>1, <2>2 DEF OnceInv, KeysOnce
<1>. QED BY <1>0, <1>1, <1>2, <1>4, <1>5

\* Rows stay, and at most get reversed: what they are about stays.
LEMMA RowsStay ==
    ASSUME OnceInv, nReceipt' = nReceipt, nDeposit' \in {nDeposit, nDeposit + 1},
           \A p \in Booked : receipt'[p].key = receipt[p].key /\ receipt'[p].actor = receipt[p].actor
    PROVE  RowsKnown' /\ KeysOnce'
<1>0. /\ receipt \in [ReceiptIds -> ReceiptRow] /\ Booked \subseteq ReceiptIds /\ nDeposit \in Nat /\ Booked' = Booked
  BY ReceiptsTyped, BookedIds, ReceiptsAssumption DEF OnceInv, ReceiptsBase, Booked
<1>1. \A p \in Booked : receipt[p].key.id \in Nat
  BY <1>0 DEF ReceiptRow, Key
<1>2. \A p \in Booked : Thing(receipt'[p]) = Thing(receipt[p])
  BY DEF Thing
<1>. QED BY <1>0, <1>1, <1>2 DEF OnceInv, RowsKnown, KeysOnce

\* Receipts of no line leave the lines as they show.
LEMMA ShownStays ==
    ASSUME OnceInv, bankLine' = bankLine, Booked' \in {Booked, Booked \cup {nReceipt'}},
           \A p \in Booked : receipt'[p] = receipt[p],
           \A p \in Booked' \ Booked : receipt'[p].key.kind # "bank"
    PROVE  LineShowsReceipt'
<1>1. \A t \in BankLines : bankLine[t].pay \in Booked \cup {0}
  BY ReceiptsTyped DEF OnceInv, ReceiptsBase, LineRow
<1>2. \A t \in BankLines : Reversed(bankLine[t].pay)' = Reversed(bankLine[t].pay)
  BY <1>1 DEF Reversed
<1>. QED BY <1>2 DEF OnceInv, LineShowsReceipt

\* What every step does, seen from what is booked.
OnceMoves == [Once!Next]_<<[x \in Things |-> { p \in Booked : ThingOf(p) = x /\ ~receipt[p].reversed }],
                           { ThingOf(p) : p \in Booked }>>

\* A step that books and reverses nothing and leaves the lines.
LEMMA QuietStep ==
    ASSUME OnceInv, ReceiptsBase', UNCHANGED <<nReceipt, receipt, bankLine>>,
           nDeposit' \in {nDeposit, nDeposit + 1}, LinesClaimed'
    PROVE  OnceInv' /\ OnceMoves
<1>1. Booked' = Booked
  BY DEF Booked
<1>2. RowsKnown' /\ KeysOnce'
  BY RowsStay
<1>3. LineShowsReceipt'
  BY <1>1, ShownStays
<1>4. OnceMoves
  BY NothingBooked DEF OnceMoves
<1>. QED BY <1>2, <1>3, <1>4 DEF OnceInv

\* A step of a request keeps the invariant and is one of BookOnce, or changes nothing there.
LEMMA RequestOnce ==
    ASSUME OnceInv, ReceiptsBase', NEW r \in Requests, RequestStep(r)
    PROVE  OnceInv' /\ OnceMoves
<1>0. /\ ReceiptsBase /\ ReceiptsTypeOK /\ nReceipt \in Nat
      /\ receipt \in [ReceiptIds -> ReceiptRow] /\ Booked \subseteq ReceiptIds
      /\ bankLine \in [BankLines -> LineRow]
      /\ lineLock \in [BankLines -> Requests \cup {NoRequest}]
      /\ request \in [Requests -> RequestRow] /\ RequestsKnown
  BY ReceiptsTyped, BookedIds DEF OnceInv, ReceiptsBase
<1>d. ASSUME Done(r) PROVE /\ \A x \in Requests : x # r => request'[x] = request[x]
                           /\ request'[r].at # "assign"
                           /\ \A t \in BankLines : lineLock[t] \notin {r, NoRequest} => lineLock'[t] = lineLock[t]
  BY <1>0, <1>d DEF Done, Release, Idle
<1>e. ASSUME NEW row, row.at # "assign", request' = [request EXCEPT ![r] = row]
      PROVE  (\A x \in Requests : x # r => request'[x] = request[x]) /\ request'[r].at # "assign"
  BY <1>0, <1>e
<1>i. ASSUME NEW a \in Actors, NEW p \in Persons, NEW k \in Key, NEW b \in Bodies, NEW m \in Nat, InsertReceipt(a, p, k, b, m)
      PROVE  \E row \in ReceiptRow : /\ receipt' = [receipt EXCEPT ![nReceipt'] = row]
                                     /\ row.actor = a /\ row.key = k /\ ~row.reversed
                                     /\ nReceipt' = nReceipt + 1 /\ nReceipt' \in ReceiptIds
                                     /\ \A q \in Booked : ~(receipt[q].actor = a /\ receipt[q].key = k)
  <2>1. PriorReceipt(a, k) = 0
    BY <1>i DEF InsertReceipt
  <2>2. \A q \in Booked : ~(receipt[q].actor = a /\ receipt[q].key = k)
    BY <1>0, <2>1, PriorMeans
  <2>. QED BY <1>0, <1>i, <2>2, InsertTypes
<1>1. ASSUME NEW a \in Actors, NEW p \in Persons, NEW k \in ClientKeys, NEW body \in {"auto", "credit"}, StartPay(r, a, p, k, body)
      PROVE  OnceInv' /\ OnceMoves
  <2>1. LinesClaimed'
    BY <1>0, <1>1, <1>e, ClaimsStay DEF StartPay, receiptVars
  <2>. QED BY <1>1, <2>1, QuietStep DEF StartPay, receiptVars, depositVars
<1>2. CASE CheckKey(r)
  <2>1. (\A x \in Requests : x # r => request'[x] = request[x]) /\ request'[r].at # "assign"
    <3>1. CASE Done(r)
      BY <3>1, <1>d
    <3>2. CASE request' = [request EXCEPT ![r].at = "book"]
      <4>1. request'[r].at = "book"
        BY <1>0, <3>2 DEF RequestRow
      <4>. QED BY <1>0, <3>2, <4>1
    <3>. QED BY <1>2, <3>1, <3>2 DEF CheckKey
  <2>2. \A t \in BankLines : lineLock[t] \notin {r, NoRequest} => lineLock'[t] = lineLock[t]
    BY <1>2, <1>d DEF CheckKey
  <2>3. UNCHANGED <<receiptVars, bankLine, depositVars>>
    BY <1>2 DEF CheckKey
  <2>4. LinesClaimed'
    BY <2>1, <2>2, <2>3, ClaimsStay DEF receiptVars
  <2>. QED BY <2>3, <2>4, QuietStep DEF receiptVars, depositVars
<1>3. CASE PayInvoices(r)
  <2>0. Done(r) /\ UNCHANGED <<bankLine, depositVars>>
    BY <1>3 DEF PayInvoices
  <2>1. CASE UNCHANGED receiptVars
    <3>1. LinesClaimed'
      BY <2>0, <2>1, <1>d, ClaimsStay DEF receiptVars
    <3>. QED BY <2>0, <2>1, <3>1, QuietStep DEF receiptVars, depositVars
  <2>2. CASE InsertReceipt(request[r].actor, request[r].person, ClientKey(r), request[r].body, 1)
    <3>. DEFINE a == request[r].actor  k == ClientKey(r)
    <3>1. a \in Actors /\ request[r].person \in Persons /\ request[r].id \in ClientKeys /\ request[r].body \in Bodies
      BY <1>0, <1>3 DEF PayInvoices, RequestsKnown, Bodies
    <3>2. k \in Key /\ k.kind = "client" /\ k.gen = 0 /\ k.id = request[r].id
      BY <3>1, ReceiptsAssumption DEF ClientKey, Key
    <3>3. PICK row \in ReceiptRow : /\ receipt' = [receipt EXCEPT ![nReceipt'] = row]
                                    /\ row.actor = a /\ row.key = k /\ ~row.reversed
                                    /\ nReceipt' = nReceipt + 1 /\ nReceipt' \in ReceiptIds
                                    /\ \A q \in Booked : ~(receipt[q].actor = a /\ receipt[q].key = k)
      BY <1>i, <2>2, <3>1, <3>2
    <3>4. Thing(row) = [kind |-> "client", id |-> request[r].id, actor |-> a]
      BY <3>2, <3>3 DEF Thing
    <3>5. Thing(row) \in Things
      BY <3>1, <3>4 DEF Things
    <3>6. ASSUME NEW q \in Booked, Thing(receipt[q]) = Thing(row) PROVE FALSE
      <4>1. receipt[q].key.kind = "client" /\ receipt[q].key.id = k.id /\ receipt[q].actor = a
        BY <3>2, <3>4, <3>6 DEF Thing
      <4>2. receipt[q].key.gen = 0 /\ receipt[q].key \in Key
        BY <1>0, <4>1 DEF OnceInv, RowsKnown, ReceiptRow
      <4>3. receipt[q].key = k
        BY <3>2, <4>1, <4>2 DEF Key
      <4>. QED BY <3>3, <4>1, <4>3
    <3>7. nDeposit' = nDeposit
      BY <2>0 DEF depositVars
    <3>8. Once!Book(Thing(row))
      BY <3>3, <3>5, <3>6, InsertBooks
    <3>9. /\ RowsKnown' /\ KeysOnce' /\ Booked' = Booked \cup {nReceipt'} /\ nReceipt' \notin Booked
          /\ receipt'[nReceipt'] = row /\ \A q \in Booked : receipt'[q] = receipt[q]
      BY <3>2, <3>3, <3>5, <3>6, <3>7, InsertKeeps
    <3>10. LineShowsReceipt'
      BY <2>0, <3>2, <3>3, <3>9, ShownStays
    <3>11. LinesClaimed'
      BY <1>d, <2>0, <3>9, ClaimsStay
    <3>. QED BY <3>5, <3>8, <3>9, <3>10, <3>11 DEF OnceInv, OnceMoves, Once!Next
  <2>. QED BY <1>3, <2>1, <2>2 DEF PayInvoices
<1>4. CASE FailRequest(r)
  <2>1. Done(r) /\ UNCHANGED <<receiptVars, bankLine, depositVars>>
    BY <1>4 DEF FailRequest
  <2>2. LinesClaimed'
    BY <2>1, <1>d, ClaimsStay DEF receiptVars
  <2>. QED BY <2>1, <2>2, QuietStep DEF receiptVars, depositVars
<1>5. ASSUME NEW a \in Actors, NEW p \in Persons, NEW t \in BankLines, NEW body \in {"invoice", "credit"}, StartAssign(r, a, p, t, body)
      PROVE  OnceInv' /\ OnceMoves
  <2>. DEFINE row == [at |-> "assign", actor |-> a, person |-> p, id |-> t, body |-> body, gen |-> bankLine[t].pay]
  <2>1. /\ request' = [request EXCEPT ![r] = row] /\ lineLock' = [lineLock EXCEPT ![t] = r]
        /\ lineLock[t] = NoRequest /\ Assignable(t) /\ request[r].at = "idle"
        /\ UNCHANGED <<receiptVars, bankLine, depositVars>>
    BY <1>5 DEF StartAssign
  <2>2. row.id = t /\ row.gen = bankLine[t].pay
    OBVIOUS
  <2>. HIDE DEF row
  <2>3. ASSUME NEW x \in Requests, NEW l \in BankLines, request'[x].at = "assign", request'[x].id = l
        PROVE  lineLock'[l] = x /\ Assignable(l)' /\ request'[x].gen = bankLine'[l].pay
    <3>1. Assignable(l)' = Assignable(l) /\ bankLine' = bankLine
      BY <2>1 DEF Assignable, EffectiveStatus, Reversed, receiptVars
    <3>2. CASE x = r
      BY <1>0, <2>1, <2>2, <2>3, <3>1, <3>2
    <3>3. CASE x # r
      <4>1. request'[x] = request[x]
        BY <1>0, <2>1, <3>3
      <4>2. lineLock[l] = x /\ Assignable(l) /\ request[x].gen = bankLine[l].pay
        BY <2>3, <4>1 DEF OnceInv, LinesClaimed
      <4>3. l # t
        BY <2>1, <4>2, ReceiptsAssumption
      <4>. QED BY <1>0, <2>1, <3>1, <4>1, <4>2, <4>3
    <3>. QED BY <3>2, <3>3
  <2>4. LinesClaimed'
    BY <2>3 DEF LinesClaimed
  <2>. QED BY <2>1, <2>4, QuietStep DEF receiptVars, depositVars
<1>6. CASE AssignBankTransaction(r)
  <2>. DEFINE q == request[r]  t == q.id  k == LineKey(q.id, q.gen)
  <2>0. /\ q.actor \in Actors /\ q.person \in Persons /\ t \in BankLines /\ q.body \in Bodies /\ q.gen \in ReceiptIds \cup {0}
        /\ Done(r) /\ UNCHANGED depositVars
        /\ lineLock[t] = r /\ Assignable(t)
    BY <1>0, <1>6 DEF AssignBankTransaction, RequestsKnown, Bodies, RequestRow, OnceInv, LinesClaimed
  <2>1. k \in Key /\ k.kind = "bank" /\ k.id = t /\ LineAmount[t] \in Nat
    BY <2>0, ReceiptsAssumption DEF LineKey, Key
  <2>2. ASSUME NEW p \in Booked, receipt[p].key.kind = "bank", receipt[p].key.id = t PROVE receipt[p].reversed
    BY <2>0, <2>2, LiveLineIsTaken DEF Assignable
  <2>3. CASE /\ InsertReceipt(q.actor, q.person, k, q.body, LineAmount[q.id])
             /\ bankLine' = [bankLine EXCEPT ![t] = [status |-> "zugeordnet", pay |-> nReceipt']]
    <3>3. PICK row \in ReceiptRow : /\ receipt' = [receipt EXCEPT ![nReceipt'] = row]
                                    /\ row.actor = q.actor /\ row.key = k /\ ~row.reversed
                                    /\ nReceipt' = nReceipt + 1 /\ nReceipt' \in ReceiptIds
      BY <1>i, <2>0, <2>1, <2>3
    <3>4. Thing(row) = [kind |-> "bank", id |-> t, actor |-> NoActor]
      BY <2>1, <3>3 DEF Thing
    <3>5. Thing(row) \in Things
      BY <2>0, <3>4 DEF Things
    <3>6. ASSUME NEW p \in Booked, Thing(receipt[p]) = Thing(row) PROVE row.key.kind = "bank" /\ receipt[p].reversed
      <4>1. receipt[p].key.kind = "bank" /\ receipt[p].key.id = t
        BY <3>4, <3>6 DEF Thing
      <4>. QED BY <2>1, <2>2, <3>3, <4>1
    <3>7. nDeposit' = nDeposit
      BY <2>0 DEF depositVars
    <3>8. Once!Book(Thing(row))
      BY <3>3, <3>5, <3>6, InsertBooks
    <3>9. /\ RowsKnown' /\ KeysOnce' /\ Booked' = Booked \cup {nReceipt'} /\ nReceipt' \notin Booked
          /\ receipt'[nReceipt'] = row /\ \A p \in Booked : receipt'[p] = receipt[p]
      BY <2>0, <2>1, <3>3, <3>5, <3>6, <3>7, InsertKeeps
    <3>10. LineShowsReceipt'
      <4>1. /\ bankLine'[t] = [status |-> "zugeordnet", pay |-> nReceipt']
            /\ \A l \in BankLines : l # t => bankLine'[l] = bankLine[l]
        BY <1>0, <2>0, <2>3
      <4>2. \A l \in BankLines : bankLine[l].pay \in Booked \cup {0}
        BY <1>0 DEF LineRow
      <4>3. ASSUME NEW l \in BankLines, bankLine'[l].status = "zugeordnet" PROVE ~Reversed(bankLine[l].pay)'
        <5>1. CASE l = t
          <6>1. bankLine'[l].pay = nReceipt'
            BY <4>1, <5>1
          <6>. QED BY <3>3, <3>9, <6>1 DEF Reversed
        <5>2. CASE l # t
          <6>1. ~Reversed(bankLine[l].pay) /\ bankLine'[l] = bankLine[l]
            BY <4>1, <4>3, <5>2 DEF OnceInv, LineShowsReceipt
          <6>. QED BY <3>9, <4>2, <6>1 DEF Reversed
        <5>. QED BY <5>1, <5>2
      <4>4. ASSUME NEW p \in Booked', receipt'[p].key.kind = "bank", ~receipt'[p].reversed
            PROVE  bankLine'[receipt'[p].key.id] = [status |-> "zugeordnet", pay |-> p]
        <5>1. CASE p = nReceipt'
          BY <2>1, <3>3, <3>9, <4>1, <5>1
        <5>2. CASE p \in Booked
          <6>1. receipt'[p] = receipt[p] /\ receipt[p].key.id \in BankLines
            BY <3>9, <4>4, <5>2 DEF OnceInv, RowsKnown
          <6>2. receipt[p].key.id # t
            BY <2>2, <4>4, <5>2, <6>1
          <6>. QED BY <4>1, <4>4, <5>2, <6>1, <6>2 DEF OnceInv, LineShowsReceipt
        <5>. QED BY <3>9, <5>1, <5>2
      <4>. QED BY <4>3, <4>4 DEF LineShowsReceipt
    <3>11. LinesClaimed'
      <4>1. \A l \in BankLines : lineLock[l] \notin {r, NoRequest} => bankLine'[l] = bankLine[l]
        BY <1>0, <2>0, <2>3
      <4>. QED BY <1>d, <2>0, <3>9, <4>1, ClaimsStay
    <3>. QED BY <3>5, <3>8, <3>9, <3>10, <3>11 DEF OnceInv, OnceMoves, Once!Next
  <2>4. ASSUME NEW p, p = PriorReceipt(q.actor, k), p # 0, ~receipt[p].reversed PROVE FALSE
    <3>1. p \in Booked /\ receipt[p].key = k
      BY <1>0, <2>4, PriorMeans
    <3>. QED BY <2>1, <2>2, <2>4, <3>1
  <2>. QED BY <1>6, <2>3, <2>4 DEF AssignBankTransaction
<1>7. ASSUME NEW p \in ReceiptIds, StartReverse(r, p) PROVE OnceInv' /\ OnceMoves
  <2>. DEFINE row == [Idle EXCEPT !.at = "reverse", !.id = p]
  <2>1. row.at = "reverse"
    BY DEF Idle
  <2>2. /\ request' = [request EXCEPT ![r] = row] /\ UNCHANGED <<receiptVars, bankLine, depositVars>>
        /\ lineLock' = LockLines(r, LinesOf(p)) /\ Lockable(r, LinesOf(p))
    BY <1>7 DEF StartReverse
  <2>. HIDE DEF row
  <2>3. \A t \in BankLines : lineLock[t] \notin {r, NoRequest} => lineLock'[t] = lineLock[t]
    BY <1>0, <2>2 DEF LockLines, Lockable
  <2>4. LinesClaimed'
    BY <1>e, <2>1, <2>2, <2>3, ClaimsStay DEF receiptVars
  <2>. QED BY <2>2, <2>4, QuietStep DEF receiptVars, depositVars
<1>8. CASE DeletePayment(r)
  <2>0. PICK p \in Booked :
           /\ Done(r) /\ UNCHANGED <<nReceipt, depositVars>> /\ ~receipt[p].reversed
           /\ receipt' = [receipt EXCEPT ![p].reversed = TRUE, ![p].given = 0]
           /\ bankLine' = Reopen(p) /\ Lockable(r, LinesOf(p))
    BY <1>0, <1>8 DEF DeletePayment, RequestsKnown
  <2>1. Booked' = Booked
    BY <2>0 DEF Booked
  <2>2. \A x \in Booked : x # p => receipt'[x] = receipt[x]
    BY <1>0, <2>0
  <2>3. receipt'[p].key = receipt[p].key /\ receipt'[p].actor = receipt[p].actor /\ receipt'[p].reversed
    <3>1. receipt'[p] = [receipt[p] EXCEPT !.reversed = TRUE, !.given = 0] /\ receipt[p] \in ReceiptRow
      BY <1>0, <2>0
    <3>. QED BY <3>1 DEF ReceiptRow
  <2>4. RowsKnown' /\ KeysOnce'
    BY <2>0, <2>2, <2>3, RowsStay DEF depositVars
  <2>5. \A t \in BankLines : bankLine'[t] = IF bankLine[t].pay = p /\ bankLine[t].status = "zugeordnet"
                                            THEN [bankLine[t] EXCEPT !.status = "offen"] ELSE bankLine[t]
    BY <1>0, <2>0 DEF Reopen
  <2>6. LinesClaimed'
    <3>1. \A t \in BankLines : lineLock[t] \notin {r, NoRequest} => bankLine'[t] = bankLine[t]
      BY <2>0, <2>5 DEF Lockable, LinesOf
    <3>. QED BY <1>d, <2>0, <2>2, <2>3, <3>1, ClaimsStay
  <2>7. LineShowsReceipt'
    <3>1. ASSUME NEW t \in BankLines, bankLine'[t].status = "zugeordnet" PROVE ~Reversed(bankLine[t].pay)'
      <4>1. bankLine[t].pay # p \/ bankLine[t].status # "zugeordnet"
        <5>1. [bankLine[t] EXCEPT !.status = "offen"].status = "offen"
          BY <1>0 DEF LineRow
        <5>. QED BY <2>5, <3>1, <5>1
      <4>2. bankLine'[t] = bankLine[t]
        BY <2>5, <4>1
      <4>3. bankLine[t].pay # p /\ ~Reversed(bankLine[t].pay) /\ bankLine[t].pay \in Booked \cup {0}
        BY <1>0, <3>1, <4>1, <4>2 DEF OnceInv, LineShowsReceipt, LineRow
      <4>. QED BY <2>2, <4>2, <4>3 DEF Reversed
    <3>2. ASSUME NEW x \in Booked, receipt'[x].key.kind = "bank", ~receipt'[x].reversed
          PROVE  bankLine'[receipt'[x].key.id] = [status |-> "zugeordnet", pay |-> x]
      <4>1. x # p /\ receipt'[x] = receipt[x]
        BY <2>2, <2>3, <3>2
      <4>2. bankLine[receipt[x].key.id] = [status |-> "zugeordnet", pay |-> x] /\ receipt[x].key.id \in BankLines
        BY <3>2, <4>1 DEF OnceInv, LineShowsReceipt, RowsKnown
      <4>3. bankLine[receipt[x].key.id].pay = x
        BY <4>2
      <4>. QED BY <2>5, <4>1, <4>2, <4>3
    <3>. QED BY <2>1, <3>1, <3>2 DEF LineShowsReceipt
  <2>8. \E x \in Things : Once!Reverse(x)
    <3>1. \A x \in Booked : Thing(receipt'[x]) = Thing(receipt[x]) /\ receipt'[x].reversed = (receipt[x].reversed \/ x = p)
      <4>1. \A x \in Booked : receipt[x].reversed \in BOOLEAN
        BY <1>0 DEF ReceiptRow
      <4>2. ASSUME NEW x \in Booked PROVE Thing(receipt'[x]) = Thing(receipt[x])
        BY <2>2, <2>3 DEF Thing
      <4>3. \A x \in Booked : receipt'[x].reversed \in BOOLEAN
        BY <1>0, <2>1, ReceiptsTyped DEF ReceiptsBase, ReceiptsTypeOK
      <4>. QED BY <2>2, <2>3, <4>1, <4>2, <4>3
    <3>. QED BY <2>0, <3>1, ReverseReverses
  <2>. QED BY <2>4, <2>6, <2>7, <2>8 DEF OnceInv, OnceMoves, Once!Next
<1>. QED BY <1>1, <1>2, <1>3, <1>4, <1>5, <1>6, <1>7, <1>8 DEF RequestStep

\* So is every step.
LEMMA OnceStep == OnceInv /\ ReceiptsBase' /\ [ReceiptsNext]_receiptsVars => OnceInv' /\ OnceMoves
<1>. SUFFICES ASSUME OnceInv, ReceiptsBase', [ReceiptsNext]_receiptsVars PROVE OnceInv' /\ OnceMoves
  OBVIOUS
<1>0. /\ ReceiptsBase /\ ReceiptsTypeOK /\ nReceipt \in Nat /\ nDeposit \in Nat
      /\ receipt \in [ReceiptIds -> ReceiptRow] /\ Booked \subseteq ReceiptIds
      /\ bankLine \in [BankLines -> LineRow]
      /\ request \in [Requests -> RequestRow] /\ RequestsKnown
  BY ReceiptsTyped, BookedIds, ReceiptsAssumption DEF OnceInv, ReceiptsBase
<1>s. ASSUME UNCHANGED <<bankLine, lineLock, request>>, \A p \in Booked : receipt'[p] = receipt[p] PROVE LinesClaimed'
  <2>1. SUFFICES ASSUME NEW x \in Requests, NEW t \in BankLines, request[x].at = "assign", request[x].id = t
        PROVE  lineLock[t] = x /\ Assignable(t)' /\ request[x].gen = bankLine[t].pay
    BY <1>s DEF LinesClaimed
  <2>2. lineLock[t] = x /\ Assignable(t) /\ request[x].gen = bankLine[t].pay
    BY <2>1 DEF OnceInv, LinesClaimed
  <2>3. bankLine[t].pay \in Booked \cup {0}
    BY <1>0 DEF LineRow
  <2>4. Reversed(bankLine[t].pay)' = Reversed(bankLine[t].pay)
    BY <1>s, <2>3 DEF Reversed
  <2>. QED BY <1>s, <2>2, <2>4 DEF Assignable, EffectiveStatus
<1>l. ASSUME NEW moved \in SUBSET BankLines, UNCHANGED <<receiptVars, depositVars, lineLock, request>>,
             \A t \in BankLines \ moved : bankLine'[t] = bankLine[t],
             \A t \in moved : /\ bankLine'[t].status # "zugeordnet"
                              /\ \A p \in Booked : receipt[p].key.kind = "bank" /\ receipt[p].key.id = t => receipt[p].reversed,
             \A t \in moved : \A x \in Requests : ~(request[x].at = "assign" /\ request[x].id = t)
      PROVE  OnceInv' /\ OnceMoves
  <2>1. Booked' = Booked
    BY <1>l DEF Booked, receiptVars
  <2>2. RowsKnown' /\ KeysOnce'
    BY <1>l, RowsStay DEF receiptVars, depositVars
  <2>3. OnceMoves
    BY <1>l, NothingBooked DEF OnceMoves, receiptVars
  <2>4. LineShowsReceipt'
    <3>1. ASSUME NEW t \in BankLines, bankLine'[t].status = "zugeordnet" PROVE ~Reversed(bankLine[t].pay)'
      BY <1>l, <3>1 DEF OnceInv, LineShowsReceipt, Reversed, receiptVars
    <3>2. ASSUME NEW p \in Booked, receipt[p].key.kind = "bank", ~receipt[p].reversed
          PROVE  bankLine'[receipt[p].key.id] = [status |-> "zugeordnet", pay |-> p]
      BY <1>l, <3>2 DEF OnceInv, LineShowsReceipt, RowsKnown
    <3>. QED BY <1>l, <2>1, <3>1, <3>2 DEF LineShowsReceipt, receiptVars
  <2>5. LinesClaimed'
    <3>1. SUFFICES ASSUME NEW x \in Requests, NEW t \in BankLines, request[x].at = "assign", request[x].id = t
          PROVE  lineLock[t] = x /\ Assignable(t)' /\ request[x].gen = bankLine'[t].pay
      BY <1>l DEF LinesClaimed
    <3>2. bankLine'[t] = bankLine[t] /\ lineLock[t] = x /\ Assignable(t) /\ request[x].gen = bankLine[t].pay
      BY <1>l, <3>1 DEF OnceInv, LinesClaimed
    <3>. QED BY <1>l, <3>2 DEF Assignable, EffectiveStatus, Reversed, receiptVars
  <2>. QED BY <2>2, <2>3, <2>4, <2>5 DEF OnceInv
<1>1. CASE \E r \in Requests : RequestStep(r)
  BY <1>1, RequestOnce
<1>2. ASSUME NEW file \in SUBSET BankLines, ImportBankStatement(file) PROVE OnceInv' /\ OnceMoves
  <2>. DEFINE moved == { t \in file : bankLine[t].status = "absent" }
  <2>0. PICK m \in SUBSET BankLines : m = moved
    OBVIOUS
  <2>1. UNCHANGED <<receiptVars, depositVars, lineLock, request>>
    BY <1>2 DEF ImportBankStatement
  <2>2. \A t \in BankLines : bankLine'[t] = IF t \in m THEN [status |-> "offen", pay |-> 0] ELSE bankLine[t]
    BY <1>2, <2>0 DEF ImportBankStatement
  <2>3. ASSUME NEW t \in m
        PROVE  /\ bankLine'[t].status # "zugeordnet"
               /\ \A p \in Booked : receipt[p].key.kind = "bank" /\ receipt[p].key.id = t => receipt[p].reversed
    BY <2>0, <2>2, LiveLineIsTaken
  <2>4. ASSUME NEW t \in m, NEW x \in Requests, request[x].at = "assign", request[x].id = t PROVE FALSE
    BY <2>0, <2>4 DEF OnceInv, LinesClaimed, Assignable, EffectiveStatus
  <2>. HIDE DEF moved
  <2>5. \A t \in BankLines \ m : bankLine'[t] = bankLine[t]
    BY <2>2
  <2>. QED BY <1>l, <2>1, <2>3, <2>4, <2>5
<1>3. ASSUME NEW t \in BankLines, NEW ignored \in BOOLEAN, SetBankTransactionIgnored(t, ignored) PROVE OnceInv' /\ OnceMoves
  <2>1. UNCHANGED <<receiptVars, depositVars, lineLock, request>> /\ lineLock[t] = NoRequest
    BY <1>3 DEF SetBankTransactionIgnored
  <2>2. bankLine'[t].status # "zugeordnet" /\ \A l \in BankLines \ {t} : bankLine'[l] = bankLine[l]
    <3>1. \A w \in {"ignoriert", "offen"} : [bankLine[t] EXCEPT !.status = w].status = w
      BY <1>0 DEF LineRow
    <3>. QED BY <1>0, <1>3, <3>1 DEF SetBankTransactionIgnored
  <2>3. EffectiveStatus(t) # "zugeordnet"
    BY <1>3 DEF SetBankTransactionIgnored
  <2>4. \A p \in Booked : receipt[p].key.kind = "bank" /\ receipt[p].key.id = t => receipt[p].reversed
    BY <2>3, LiveLineIsTaken
  <2>5. \A x \in Requests : ~(request[x].at = "assign" /\ request[x].id = t)
    BY <2>1, ReceiptsAssumption DEF OnceInv, LinesClaimed
  <2>6. PICK m \in SUBSET BankLines : m = {t}
    OBVIOUS
  <2>. QED BY <1>l, <2>1, <2>2, <2>4, <2>5, <2>6
<1>4. ASSUME NEW a \in Actors, NEW p \in Persons, NEW m \in DepositAmounts, NEW kind \in {"erhalten", "einbehalten", "zurueck"},
             CreateDeposit(a, p, kind, m)
      PROVE  OnceInv' /\ OnceMoves
  <2>0. /\ nDeposit' = nDeposit + 1 /\ nDeposit' \in DepositIds /\ nDeposit' \in Nat /\ m \in Nat
        /\ UNCHANGED <<bankLine, lineLock, request>>
    BY <1>0, <1>4, ReceiptsAssumption DEF CreateDeposit, DepositIds
  <2>1. CASE kind = "einbehalten"
    <3>0. PICK id \in DepositIds : id = nDeposit'
      BY <2>0
    <3>. DEFINE k == [kind |-> "deposit", id |-> id, gen |-> 0]
    <3>1. k \in Key /\ "auto" \in Bodies /\ k.kind = "deposit" /\ k.id = id /\ k.gen = 0
      BY <2>0, <3>0 DEF Key, Bodies
    <3>2. InsertReceipt(a, p, k, "auto", m)
      BY <1>4, <2>1, <3>0 DEF CreateDeposit
    <3>. HIDE DEF k
    <3>3. PICK row \in ReceiptRow : /\ receipt' = [receipt EXCEPT ![nReceipt'] = row]
                                    /\ row.actor = a /\ row.key = k /\ ~row.reversed
                                    /\ nReceipt' = nReceipt + 1 /\ nReceipt' \in ReceiptIds
      BY <1>0, <2>0, <3>1, <3>2, InsertTypes
    <3>4. Thing(row) = [kind |-> "deposit", id |-> id, actor |-> NoActor]
      BY <3>1, <3>3 DEF Thing
    <3>5. Thing(row) \in Things
      BY <3>4 DEF Things
    <3>6. ASSUME NEW q \in Booked, Thing(receipt[q]) = Thing(row) PROVE FALSE
      <4>1. receipt[q].key.kind = "deposit" /\ receipt[q].key.id = id
        BY <3>4, <3>6 DEF Thing
      <4>. QED BY <1>0, <2>0, <3>0, <4>1 DEF OnceInv, RowsKnown
    <3>8. Once!Book(Thing(row))
      BY <3>3, <3>5, <3>6, InsertBooks
    <3>7. row.key.kind = "deposit" /\ row.key.gen = 0 /\ row.key.id <= nDeposit' /\ nDeposit' \in {nDeposit, nDeposit + 1}
      BY <2>0, <3>0, <3>1, <3>3
    <3>9. /\ RowsKnown' /\ KeysOnce' /\ Booked' = Booked \cup {nReceipt'} /\ nReceipt' \notin Booked
          /\ receipt'[nReceipt'] = row /\ \A q \in Booked : receipt'[q] = receipt[q]
      BY <3>3, <3>5, <3>6, <3>7, InsertKeeps
    <3>10. LineShowsReceipt'
      BY <2>0, <3>1, <3>3, <3>9, ShownStays
    <3>11. LinesClaimed'
      BY <1>s, <2>0, <3>9
    <3>. QED BY <3>5, <3>8, <3>9, <3>10, <3>11 DEF OnceInv, OnceMoves, Once!Next
  <2>2. CASE kind # "einbehalten"
    <3>1. UNCHANGED receiptVars
      BY <1>4, <2>2 DEF CreateDeposit
    <3>2. LinesClaimed'
      BY <1>s, <2>0, <3>1 DEF receiptVars
    <3>. QED BY <2>0, <3>1, <3>2, QuietStep DEF receiptVars
  <2>. QED BY <2>1, <2>2
<1>5. ASSUME NEW d \in DepositIds, DeleteDeposit(d) PROVE OnceInv' /\ OnceMoves
  <2>1. UNCHANGED <<receiptVars, bankLine, nDeposit, lineLock, request>>
    BY <1>5 DEF DeleteDeposit
  <2>2. LinesClaimed'
    BY <1>s, <2>1 DEF receiptVars
  <2>. QED BY <2>1, <2>2, QuietStep DEF receiptVars
<1>6. CASE UNCHANGED receiptsVars
  <2>1. LinesClaimed'
    BY <1>s, <1>6 DEF receiptsVars, receiptVars
  <2>. QED BY <1>6, <2>1, QuietStep DEF receiptsVars, receiptVars, depositVars
<1>. QED BY <1>1, <1>2, <1>3, <1>4, <1>5, <1>6 DEF ReceiptsNext

(* Requests find a line as they left it while they hold its lock, and a receipt that *)
(* counts is what its line shows: the inductive invariant of Receipts.               *)
THEOREM ReceiptsHold == ReceiptsSpec => []OnceInv
<1>1. OnceInv /\ [ReceiptsNext]_receiptsVars => OnceInv'
  BY ReceiptsBaseStep, OnceStep DEF OnceInv
<1>. QED BY OnceStart, <1>1, PTL DEF ReceiptsSpec

(* The tables of receipts, keys and lines stay in their domains. *)
THEOREM ReceiptsTypes == ReceiptsSpec => []ReceiptsTypeOK
<1>1. OnceInv => ReceiptsTypeOK
  BY DEF OnceInv, ReceiptsBase
<1>. QED BY ReceiptsHold, <1>1, PTL

(* A bank line that shows as assigned has a receipt that counts, and a receipt of a   *)
(* line that counts is the one it shows (AssignBankTransaction, ReversePayment), who-  *)
(* ever assigns, ignores and reverses at the same time.                               *)
THEOREM LinesAndReceiptsAgree == ReceiptsSpec => []LineShowsReceipt
<1>1. OnceInv => LineShowsReceipt
  BY DEF OnceInv
<1>. QED BY ReceiptsHold, <1>1, PTL

(* Receipts implements BookOnce: money is booked at most once for each key and each   *)
(* line, whatever is repeated, lost or raced (RecordPayment, AssignBankTransaction).  *)
THEOREM NothingBookedTwice == ReceiptsSpec => BooksOnce
<1>1. ReceiptsInit => Once!Init
  <2>1. ReceiptsInit => Booked = {}
    BY DEF ReceiptsInit, Booked
  <2>. QED BY <2>1 DEF Once!Init
<1>2. OnceInv /\ [ReceiptsNext]_receiptsVars => OnceMoves
  BY ReceiptsBaseStep, OnceStep DEF OnceInv
<1>. QED BY <1>1, <1>2, ReceiptsHold, PTL DEF ReceiptsSpec, BooksOnce, Once!Spec, OnceMoves

-----------------------------------------------------------------------------
(* Prices bound to the index.                                               *)

AgreedRow == [rate : Nat, month : CPIMonths]
LotRow    == [start : CPIMonths, rate : Nat, yearly : BOOLEAN, passed : BOOLEAN, agreed : AgreedRow]
TariffRow == [base : CPIMonths \cup {NoMonth}, threshold : Thresholds, price : Nat, set : 0 .. MaxSettings]
PlanRow   == [month : CPIMonths \cup {NoMonth}, price : Nat, rows : SUBSET Raises]

\* A raise belongs to a vehicle that exists, follows the month it is computed
\* from, and starts with the next period at the latest.
Dated(x) == x.lot \in DOMAIN lot /\ x.month < x.from /\ x.from <= NextPeriodStart(x.lot)

\* The tables and the plans in flight: one row per vehicle, months of the past.
IndexRows ==
    /\ IndexationTypeOK
    /\ cpiKnown \subseteq 0 .. calendar
    /\ \A x \in raises : Dated(x)
    /\ \A o \in Officers : \A x \in plans[o].rows : Dated(x)
    /\ \A o \in Officers : \A x, y \in plans[o].rows : x.lot = y.lot => x = y

\* The type invariant, with names for the rows.
LEMMA IndexationTyped ==
    IndexationTypeOK <=>
        /\ cpiKnown \subseteq CPIMonths /\ tariff \in TariffRow
        /\ DOMAIN lot \subseteq Lots /\ \A v \in DOMAIN lot : lot[v] \in LotRow
        /\ raises \subseteq Raises /\ \A x, y \in raises : x.lot = y.lot /\ x.from = y.from => x = y
        /\ calendar \in CPIMonths /\ plans \in [Officers -> PlanRow]
BY DEF IndexationTypeOK, TariffRow, LotRow, AgreedRow, PlanRow

\* Months are numbers, and the index is positive and never falls.
LEMMA IndexFacts ==
    /\ CPIMonths \subseteq Nat /\ NoMonth \in Int /\ LotYear \in Nat /\ LotYear >= 1
    /\ \A m \in CPIMonths : CPI[m] \in Nat /\ CPI[m] > 0
    /\ FirstPrice \in Nat /\ 0 \in 0 .. MaxSettings /\ 0 \in CPIMonths
BY IndexationAssumption DEF IndexationAssumption, NoMonth

\* The quotient and its multiples.
LEMMA NextYear == ASSUME NEW c \in Nat, NEW y \in Nat, y >= 1
                  PROVE  c \div y \in Nat /\ y * (c \div y + 1) \in Nat /\ c < y * (c \div y + 1)
OBVIOUS
\* The years to a later day are no fewer.
LEMMA YearsPass == ASSUME NEW c \in Nat, NEW d \in Nat, c <= d, NEW y \in Nat, y >= 1
                   PROVE  y * (c \div y + 1) <= y * (d \div y + 1)
<1>1. PICK p \in Nat, q \in Nat : p = c \div y /\ q = d \div y
  BY NextYear
<1>2. p <= q
  BY <1>1
<1>. QED BY <1>1, <1>2
\* A price that follows the index, with the cents cut off, is a price.
LEMMA IndexedNat == ASSUME NEW p \in Nat, NEW c \in Nat, c >= 1 PROVE p \div c \in Nat /\ (p \div c) * c <= p
OBVIOUS
\* A price times a quotient of the index is a number, and exact when the index is known.
LEMMA IndexedPrice == ASSUME NEW p \in Nat, NEW m \in CPIMonths, NEW b \in CPIMonths
                      PROVE  Indexed(p, m, b) \in Nat /\ Indexed(p, m, b) * CPI[b] <= p * CPI[m]
<1>1. PICK q \in Nat, c \in Nat : q = CPI[m] /\ c = CPI[b] /\ c >= 1
  BY IndexFacts
<1>2. p * q \in Nat
  OBVIOUS
<1>. QED BY <1>1, <1>2, IndexedNat DEF Indexed

\* Among naturals there is a least one.
LEMMA LeastNumber == ASSUME NEW B \in SUBSET Nat, B # {} PROVE \E n \in B : \A m \in B : n <= m
<1>1. IsWellFoundedOn(OpToRel(<, Nat), Nat)
  BY NatLessThanWellFounded
<1>2. PICK n \in B : \A m \in B : ~(<<m, n>> \in OpToRel(<, Nat))
  BY <1>1, WFMin
<1>3. \A m \in B : ~(m < n)
  BY <1>2 DEF OpToRel
<1>. QED BY <1>3

\* The latest of some raises that start by some day is one of them.
LEMMA LatestIsOne ==
    ASSUME NEW xs \in SUBSET Raises, xs # {}, NEW b \in Nat, \A x \in xs : x.from <= b
    PROVE  Latest(xs) \in xs /\ \A y \in xs : y.from <= Latest(xs).from
<1>. DEFINE B == { b - x.from : x \in xs }
<1>1. B \in SUBSET Nat /\ B # {}
  BY DEF Raises
<1>2. PICK n \in B : \A m \in B : n <= m
  BY <1>1, LeastNumber
<1>3. PICK x \in xs : n = b - x.from
  BY <1>2
<1>4. ASSUME NEW y \in xs PROVE y.from <= x.from
  <2>1. n <= b - y.from /\ y.from \in Nat /\ x.from \in Nat
    BY <1>2 DEF Raises
  <2>. QED BY <1>3, <2>1
<1>. QED BY <1>4 DEF Latest

\* The next period of a vehicle, and that it is never earlier than before.
LEMMA NextStarts ==
    ASSUME IndexationTypeOK, NEW v \in DOMAIN lot
    PROVE  NextPeriodStart(v) \in Nat /\ calendar < NextPeriodStart(v)
<1>1. calendar \in Nat
  BY IndexFacts, IndexationTyped
<1>. QED BY <1>1, IndexFacts, NextYear DEF NextPeriodStart
LEMMA StartsLater ==
    ASSUME IndexationTypeOK, IndexationTypeOK', NEW v \in DOMAIN lot, v \in DOMAIN lot', lot'[v].yearly = lot[v].yearly,
           calendar <= calendar'
    PROVE  NextPeriodStart(v) <= NextPeriodStart(v)'
<1>1. calendar \in Nat /\ calendar' \in Nat
  BY IndexFacts, IndexationTyped DEF IndexationTypeOK
<1>2. LotYear * (calendar \div LotYear + 1) <= LotYear * (calendar' \div LotYear + 1)
  BY <1>1, IndexFacts, YearsPass
<1>3. calendar + 1 <= calendar' + 1
  <2>1. PICK c \in Nat, d \in Nat : c = calendar /\ d = calendar'
    BY <1>1
  <2>2. c <= d
    BY <2>1
  <2>3. c + 1 <= d + 1
    BY <2>2
  <2>. QED BY <2>1, <2>3
<1>. QED BY <1>2, <1>3 DEF NextPeriodStart

\* The raises of a vehicle, those in force on a day, and the price of the day.
LEMMA PriceOfDay ==
    ASSUME IndexRows, NEW v \in DOMAIN lot, NEW day \in Int
    PROVE  /\ RateAt(v, day) \in Nat
           /\ \/ RateAt(v, day) = lot[v].rate /\ \A x \in LotRaises(v) : ~(x.from <= day)
              \/ \E x \in LotRaises(v) : /\ x.from <= day /\ RateAt(v, day) = x.rate
                                         /\ \A y \in LotRaises(v) : y.from <= day => y.from <= x.from
<1>1. PICK past : past = { x \in LotRaises(v) : x.from <= day }
  OBVIOUS
<1>2. lot[v] \in LotRow /\ raises \subseteq Raises /\ \A x \in raises : x.from <= NextPeriodStart(x.lot)
  BY IndexationTyped DEF IndexRows, Dated
<1>3. past \in SUBSET Raises /\ \A x \in past : x.from <= NextPeriodStart(v)
  BY <1>1, <1>2 DEF LotRaises
<1>4. CASE past = {}
  <2>1. RateAt(v, day) = lot[v].rate
    BY <1>1, <1>4 DEF RateAt
  <2>. QED BY <1>1, <1>2, <1>4, <2>1 DEF LotRow
<1>5. CASE past # {}
  <2>1. RateAt(v, day) = Latest(past).rate
    BY <1>1, <1>5 DEF RateAt
  <2>2. Latest(past) \in past /\ \A y \in past : y.from <= Latest(past).from
    BY <1>3, <1>5, NextStarts, LatestIsOne DEF IndexRows
  <2>3. PICK x \in past : RateAt(v, day) = x.rate /\ \A y \in past : y.from <= x.from
    BY <2>1, <2>2
  <2>. QED BY <1>1, <1>3, <2>3 DEF Raises
<1>. QED BY <1>4, <1>5

\* What a plan raises from: the tariff's month or the contract's, or the last raise's.
LEMMA BaseOfPlan ==
    ASSUME IndexRows, NEW v \in DOMAIN lot
    PROVE  \/ LotRaises(v) = {} /\ BaseMonth(v) = Larger(tariff.base, lot[v].start)
           \/ \E x \in LotRaises(v) : BaseMonth(v) = x.month /\ \A y \in LotRaises(v) : y.from <= x.from
<1>1. LotRaises(v) \in SUBSET Raises /\ \A x \in LotRaises(v) : x.from <= NextPeriodStart(v)
  BY IndexationTyped DEF IndexRows, Dated, LotRaises
<1>2. LotRaises(v) # {} => /\ Latest(LotRaises(v)) \in LotRaises(v)
                           /\ \A y \in LotRaises(v) : y.from <= Latest(LotRaises(v)).from
  BY <1>1, NextStarts, LatestIsOne DEF IndexRows
<1>. QED BY <1>2 DEF BaseMonth

-----------------------------------------------------------------------------
\* At the start nothing is raised and nothing planned.
LEMMA IndexRowsStart == IndexationInit => IndexRows
<1>. SUFFICES ASSUME IndexationInit PROVE IndexRows
  OBVIOUS
<1>1. \A s \in CPIMonths, y \in BOOLEAN : FirstLot(s, y) \in LotRow
  BY IndexFacts DEF FirstLot, LotRow, AgreedRow
<1>2. DOMAIN lot \subseteq Lots /\ \A v \in DOMAIN lot : lot[v] \in LotRow
  BY <1>1, IndexationAssumption DEF IndexationInit, IndexationAssumption
<1>3. NoPlan \in PlanRow
  BY DEF NoPlan, PlanRow
<1>4. tariff \in TariffRow
  BY IndexFacts DEF IndexationInit, TariffRow
<1>5. IndexationTypeOK
  BY <1>2, <1>3, <1>4, IndexFacts, IndexationTyped DEF IndexationInit
<1>. QED BY <1>5, IndexFacts DEF IndexationInit, IndexRows, NoPlan

\* What was in time stays in time.
LEMMA StaysDated ==
    ASSUME IndexationTypeOK, IndexationTypeOK', DOMAIN lot \subseteq DOMAIN lot',
           \A v \in DOMAIN lot : lot'[v].yearly = lot[v].yearly, calendar <= calendar',
           NEW x \in Raises, Dated(x)
    PROVE  Dated(x)'
<1>1. x.lot \in DOMAIN lot /\ x.from \in Nat
  BY DEF Dated, Raises
<1>2. NextPeriodStart(x.lot) <= NextPeriodStart(x.lot)' /\ NextPeriodStart(x.lot) \in Nat /\ NextPeriodStart(x.lot)' \in Nat
  <2>1. PICK v \in DOMAIN lot : v = x.lot
    BY <1>1
  <2>2. NextPeriodStart(v) <= NextPeriodStart(v)' /\ NextPeriodStart(v) \in Nat
    BY StartsLater, NextStarts
  <2>3. calendar' \in Nat
    BY IndexFacts DEF IndexationTypeOK
  <2>4. NextPeriodStart(v)' \in Nat
    <3>1. PICK d \in Nat : d = calendar'
      BY <2>3
    <3>2. LotYear * (d \div LotYear + 1) \in Nat /\ d + 1 \in Nat
      BY IndexFacts, NextYear
    <3>. QED BY <3>1, <3>2 DEF NextPeriodStart
  <2>. QED BY <2>1, <2>2, <2>4
<1>3. x.from <= NextPeriodStart(x.lot) /\ x.month < x.from
  BY DEF Dated
<1>4. x.from <= NextPeriodStart(x.lot)'
  BY <1>1, <1>2, <1>3
<1>. QED BY <1>1, <1>3, <1>4 DEF Dated

\* Steps that leave the vehicles, or change no more of them than what a plan passes over.
SameLots == DOMAIN lot' = DOMAIN lot /\ \A v \in DOMAIN lot : lot'[v] \in LotRow /\ lot'[v].yearly = lot[v].yearly

\* Such a step keeps the rows, if its own new raises and plans are dated.
LEMMA RowsKept ==
    ASSUME IndexRows, SameLots, calendar' \in CPIMonths, calendar <= calendar', cpiKnown' \subseteq CPIMonths \cap (0 .. calendar'),
           tariff' \in TariffRow, raises' \subseteq Raises, \A x \in raises' : Dated(x),
           \A x, y \in raises' : x.lot = y.lot /\ x.from = y.from => x = y,
           plans' \in [Officers -> PlanRow], \A o \in Officers : \A x \in plans'[o].rows : Dated(x),
           \A o \in Officers : \A x, y \in plans'[o].rows : x.lot = y.lot => x = y
    PROVE  IndexRows'
<1>1. IndexationTypeOK /\ DOMAIN lot \subseteq Lots
  BY IndexationTyped DEF IndexRows
<1>2. IndexationTypeOK'
  BY <1>1, IndexationTyped DEF SameLots, IndexationTypeOK, LotRow, AgreedRow, TariffRow, PlanRow
<1>3. \A x \in Raises : Dated(x) => Dated(x)'
  BY <1>1, <1>2, StaysDated DEF SameLots
<1>4. \A o \in Officers : plans'[o].rows \subseteq Raises
  BY DEF PlanRow
<1>. QED BY <1>2, <1>3, <1>4 DEF IndexRows

\* What a plan says of a vehicle: a raise of a month entered, from the next period on.
LEMMA PlannedRow ==
    ASSUME IndexRows, NEW m \in cpiKnown, NEW v \in DOMAIN lot, Raised(v, m)
    PROVE  RowFor(v, m) \in Raises /\ Dated(RowFor(v, m)) /\ RowFor(v, m).lot = v
<1>1. PICK next \in Nat : next = NextPeriodStart(v) /\ calendar < next
  BY NextStarts DEF IndexRows
<1>2. m \in CPIMonths /\ m <= calendar /\ calendar \in Nat /\ m \in Nat
  <2>1. m \in CPIMonths /\ calendar \in CPIMonths /\ m \in 0 .. calendar
    BY IndexationTyped DEF IndexRows
  <2>. QED BY <2>1, IndexFacts
<1>3. BaseMonth(v) \in CPIMonths
  BY IndexationTyped DEF IndexRows, Raised
<1>4. RateAt(v, next - 1) \in Nat
  BY PriceOfDay
<1>5. PICK rate \in Nat : rate = Indexed(RateAt(v, next - 1), m, BaseMonth(v))
  BY <1>2, <1>3, <1>4, IndexedPrice
<1>6. RowFor(v, m) = [lot |-> v, from |-> next, rate |-> rate, month |-> m]
  BY <1>1, <1>5 DEF RowFor
<1>7. v \in Lots
  BY IndexationTyped DEF IndexRows
<1>8. m < next /\ next <= NextPeriodStart(v)
  BY <1>1, <1>2
<1>. QED BY <1>2, <1>6, <1>7, <1>8 DEF Raises, Dated

\* Rows, unfolded once for all steps.
LEMMA RowsNow ==
    ASSUME IndexRows
    PROVE  /\ cpiKnown \subseteq CPIMonths \cap (0 .. calendar) /\ tariff \in TariffRow
           /\ DOMAIN lot \subseteq Lots /\ \A v \in DOMAIN lot : lot[v] \in LotRow
           /\ raises \subseteq Raises /\ \A x, y \in raises : x.lot = y.lot /\ x.from = y.from => x = y
           /\ calendar \in CPIMonths /\ calendar \in Nat /\ plans \in [Officers -> PlanRow]
           /\ \A x \in raises : Dated(x)
           /\ \A o \in Officers : \A x \in plans[o].rows : Dated(x)
           /\ \A o \in Officers : \A x, y \in plans[o].rows : x.lot = y.lot => x = y
BY IndexFacts, IndexationTyped DEF IndexRows

\* Planning keeps the rows.
LEMMA PlanKeepsRows ==
    ASSUME IndexRows, NEW o \in Officers, NEW m \in CPIMonths, PlanIndexation(o, m)
    PROVE  IndexRows'
<1>. USE RowsNow
<1>1. PICK rows : rows = { RowFor(v, m) : v \in { u \in DOMAIN lot : Raised(u, m) } }
  OBVIOUS
<1>2. m \in cpiKnown /\ tariff.base \in CPIMonths
  BY DEF PlanIndexation, TariffDue
<1>3. \A x \in rows : x \in Raises /\ Dated(x)
  BY <1>1, <1>2, PlannedRow
<1>4. \A x, y \in rows : x.lot = y.lot => x = y
  BY <1>1, <1>2, PlannedRow
<1>5. PICK price \in Nat : price = Indexed(tariff.price, m, tariff.base)
  BY <1>2, IndexedPrice DEF TariffRow
<1>6. plans' = [plans EXCEPT ![o] = [month |-> m, price |-> price, rows |-> rows]]
  BY <1>1, <1>5 DEF PlanIndexation
<1>7. [month |-> m, price |-> price, rows |-> rows] \in PlanRow
  BY <1>3 DEF PlanRow
<1>8. plans' \in [Officers -> PlanRow]
  BY <1>6, <1>7
<1>9. \A p \in Officers : plans'[p].rows = plans[p].rows \/ plans'[p].rows = rows
  BY <1>6
<1>10. UNCHANGED <<cpiKnown, tariff, lot, raises, calendar>> /\ calendar <= calendar
  BY DEF PlanIndexation
<1>11. SameLots
  BY <1>10 DEF SameLots
<1>. QED BY <1>3, <1>4, <1>8, <1>9, <1>10, <1>11, RowsKept

\* So does applying a plan.
LEMMA ApplyKeepsRows ==
    ASSUME IndexRows, NEW o \in Officers, ApplyIndexation(o) \/ AbortIndexation(o)
    PROVE  IndexRows'
<1>. USE RowsNow
<1>1. plans[o] \in PlanRow /\ plans[o].rows \subseteq Raises /\ NoPlan \in PlanRow /\ NoPlan.rows = {}
  BY DEF PlanRow, NoPlan
<1>2. plans' = [plans EXCEPT ![o] = NoPlan]
  BY DEF ApplyIndexation, AbortIndexation
<1>3. plans' \in [Officers -> PlanRow] /\ \A p \in Officers : plans'[p].rows \subseteq plans[p].rows
  BY <1>1, <1>2
<1>4. UNCHANGED <<cpiKnown, lot, calendar>> /\ calendar <= calendar
  BY DEF ApplyIndexation, AbortIndexation
<1>5. raises' = raises \/ raises' = raises \cup Inserted(plans[o].rows)
  BY DEF ApplyIndexation, AbortIndexation
<1>6. raises' \subseteq Raises /\ \A x \in raises' : Dated(x)
  BY <1>1, <1>5 DEF Inserted
<1>7. \A x, y \in raises' : x.lot = y.lot /\ x.from = y.from => x = y
  BY <1>5 DEF Inserted, LotRaises
<1>8. tariff' \in TariffRow
  BY <1>1 DEF ApplyIndexation, AbortIndexation, TariffRow, PlanRow
<1>9. SameLots
  BY <1>4 DEF SameLots
<1>. QED BY <1>3, <1>4, <1>6, <1>7, <1>8, <1>9, RowsKept

\* So do the steps of the desk that plan nothing.
LEMMA DeskKeepsRows ==
    ASSUME IndexRows,
           \/ \E m \in CPIMonths : SaveCPI(m) \/ DeleteCPI(m)
           \/ \E base \in CPIMonths \cup {NoMonth}, t \in Thresholds : SetCategoryIndexation(base, t)
           \/ \E x \in raises : DeleteRateChange(x)
    PROVE  IndexRows'
<1>. USE RowsNow
<1>0. calendar <= calendar
  OBVIOUS
<1>1. UNCHANGED <<lot, calendar, plans>> /\ raises' \subseteq raises
  <2>1. ASSUME NEW x \in raises, DeleteRateChange(x) PROVE UNCHANGED <<lot, calendar, plans>> /\ raises' \subseteq raises
    BY <2>1 DEF DeleteRateChange
  <2>. QED BY <2>1 DEF SaveCPI, DeleteCPI, SetCategoryIndexation
<1>2. cpiKnown' \subseteq CPIMonths \cap (0 .. calendar)
  <2>1. CASE \E m \in CPIMonths : SaveCPI(m)
    <3>1. PICK m \in CPIMonths : m <= calendar /\ cpiKnown' = cpiKnown \cup {m}
      BY <2>1 DEF SaveCPI
    <3>2. m \in 0 .. calendar
      BY <3>1, IndexFacts
    <3>. QED BY <3>1, <3>2
  <2>. QED BY <2>1 DEF DeleteCPI, SetCategoryIndexation, DeleteRateChange
<1>3. tariff' \in TariffRow
  <2>1. CASE \E base \in CPIMonths \cup {NoMonth}, t \in Thresholds : SetCategoryIndexation(base, t)
    <3>1. PICK base \in CPIMonths \cup {NoMonth}, t \in Thresholds : SetCategoryIndexation(base, t)
      BY <2>1
    <3>2. tariff.set + 1 \in 0 .. MaxSettings
      <4>1. tariff.set \in 0 .. MaxSettings /\ tariff.set < MaxSettings /\ MaxSettings \in Nat
        BY <3>1, IndexationAssumption DEF SetCategoryIndexation, TariffRow, IndexationAssumption
      <4>. QED BY <4>1
    <3>. QED BY <3>1, <3>2 DEF SetCategoryIndexation, TariffRow
  <2>. QED BY <2>1 DEF SaveCPI, DeleteCPI, DeleteRateChange
<1>4. SameLots
  BY <1>1 DEF SameLots
<1>. QED BY <1>0, <1>1, <1>2, <1>3, <1>4, RowsKept

\* So does the time that passes.
LEMMA TimeKeepsRows ==
    ASSUME IndexRows, NextPeriod \/ \E v \in DOMAIN lot : PassOver(v)
    PROVE  IndexRows'
<1>. USE RowsNow
<1>1. UNCHANGED <<cpiKnown, tariff, raises, plans>>
  BY DEF NextPeriod, PassOver
<1>2. calendar' \in CPIMonths /\ calendar <= calendar' /\ cpiKnown \subseteq 0 .. calendar'
  <2>1. CASE NextPeriod
    <3>1. calendar' = calendar + 1 /\ calendar < LastMonth /\ LastMonth \in Nat
      BY <2>1, IndexationAssumption DEF NextPeriod, IndexationAssumption
    <3>2. calendar' \in 0 .. LastMonth /\ \A m \in 0 .. calendar : m \in 0 .. calendar'
      BY <3>1
    <3>. QED BY <3>1, <3>2, IndexationAssumption DEF IndexationAssumption
  <2>. QED BY <2>1 DEF PassOver
<1>3. SameLots
  <2>1. CASE NextPeriod
    BY <2>1 DEF NextPeriod, SameLots
  <2>2. ASSUME NEW v \in DOMAIN lot, PassOver(v) PROVE SameLots
    <3>1. PICK was \in LotRow : was = lot[v]
      OBVIOUS
    <3>2. PICK new : new = [was EXCEPT !.passed = ~was.passed]
      OBVIOUS
    <3>3. lot' = [lot EXCEPT ![v] = new]
      BY <2>2, <3>1, <3>2 DEF PassOver
    <3>4. new = [start |-> was.start, rate |-> was.rate, yearly |-> was.yearly, passed |-> ~was.passed, agreed |-> was.agreed]
      BY <3>1, <3>2 DEF LotRow
    <3>5. new \in LotRow /\ new.yearly = was.yearly
      BY <3>1, <3>4 DEF LotRow
    <3>6. DOMAIN lot' = DOMAIN lot /\ \A u \in DOMAIN lot : lot'[u] = IF u = v THEN new ELSE lot[u]
      BY <3>3
    <3>7. \A u \in DOMAIN lot : lot[u] \in LotRow
      OBVIOUS
    <3>. HIDE RowsNow
    <3>. QED BY <3>1, <3>5, <3>6, <3>7 DEF SameLots
  <2>. QED BY <2>1, <2>2
<1>. QED BY <1>1, <1>2, <1>3, RowsKept

\* The earlier one of two months.
LEMMA EarlierOf == ASSUME NEW a \in Nat, NEW b \in Nat
                   PROVE  Min({a, b}) \in {a, b} /\ Min({a, b}) <= a /\ Min({a, b}) <= b
<1>1. \E x \in {a, b} : \A y \in {a, b} : x <= y
  <2>1. CASE a <= b
    BY <2>1
  <2>2. CASE b <= a
    BY <2>2
  <2>. QED BY <2>1, <2>2
<1>2. Min({a, b}) \in {a, b} /\ \A y \in {a, b} : Min({a, b}) <= y
  BY <1>1 DEF Min
<1>. QED BY <1>2

\* What a copy takes along of the raises.
CopiedRaises(v, copy, start) == { [x EXCEPT !.lot = copy] : x \in { y \in LotRaises(v) : start < y.from } }

LEMMA CopiedRaise ==
    ASSUME raises \subseteq Raises, NEW v, NEW copy \in Lots, NEW start \in Nat, NEW z \in CopiedRaises(v, copy, start)
    PROVE  /\ z \in Raises /\ z.lot = copy
           /\ \E x \in raises : x.lot = v /\ start < x.from /\ z.from = x.from /\ z.month = x.month /\ z.rate = x.rate
<1>1. PICK x \in LotRaises(v) : start < x.from /\ z = [x EXCEPT !.lot = copy]
  BY DEF CopiedRaises
<1>2. x \in raises /\ x.lot = v /\ x \in Raises
  BY <1>1 DEF LotRaises
<1>. QED BY <1>1, <1>2 DEF Raises

LEMMA CopiedLot ==
    ASSUME IndexRows, NEW v \in DOMAIN lot, NEW copy \in Lots, NEW start \in CPIMonths, NEW current \in BOOLEAN,
           DuplicateVehicle(v, copy, start, current)
    PROVE  /\ copy \notin DOMAIN lot /\ DOMAIN lot' = DOMAIN lot \cup {copy} /\ \A u \in DOMAIN lot : lot'[u] = lot[u]
           /\ lot'[copy] \in LotRow /\ lot'[copy].start = start /\ lot'[copy].yearly = lot[v].yearly
           /\ current => lot'[copy].rate = lot'[copy].agreed.rate /\ lot'[copy].agreed.month = start
           /\ ~current => /\ lot'[copy].rate = RateAt(v, start) /\ lot'[copy].agreed.rate = lot[v].agreed.rate
                          /\ lot'[copy].agreed.month <= lot[v].agreed.month
           /\ raises' = IF current THEN raises ELSE raises \cup CopiedRaises(v, copy, start)
           /\ UNCHANGED <<cpiKnown, tariff, calendar, plans>>
<1>. USE RowsNow
<1>1. start \in Nat /\ lot[v].agreed.month \in CPIMonths /\ lot[v].agreed.month \in Nat /\ tariff.price \in Nat
      /\ lot[v].agreed.rate \in Nat
  BY IndexFacts DEF LotRow, AgreedRow, TariffRow
<1>2. PICK rate \in Nat : rate = IF current THEN tariff.price ELSE RateAt(v, start)
  BY <1>1, PriceOfDay
<1>3. PICK month \in CPIMonths : month = Min({lot[v].agreed.month, start}) /\ month <= lot[v].agreed.month
  BY <1>1, EarlierOf
<1>4. PICK agreed \in AgreedRow :
          agreed = IF current THEN [rate |-> rate, month |-> start] ELSE [rate |-> lot[v].agreed.rate, month |-> month]
  BY <1>1, <1>2, <1>3 DEF AgreedRow
<1>5. PICK row : row = [start |-> start, rate |-> rate, yearly |-> lot[v].yearly, passed |-> FALSE, agreed |-> agreed]
  OBVIOUS
<1>6. row \in LotRow
  BY <1>2, <1>4, <1>5 DEF LotRow
<1>7. [lot[v].agreed EXCEPT !.month = Min({@, start})] = [rate |-> lot[v].agreed.rate, month |-> month]
  BY <1>1, <1>3 DEF LotRow, AgreedRow
<1>8. PICK said : said = IF current THEN [rate |-> rate, month |-> start] ELSE [lot[v].agreed EXCEPT !.month = Min({@, start})]
  OBVIOUS
<1>9. said = agreed
  BY <1>4, <1>7, <1>8
<1>10. lot' = [u \in DOMAIN lot \cup {copy} |->
                  IF u = copy THEN [lot[v] EXCEPT !.start = start, !.rate = rate, !.passed = FALSE, !.agreed = said] ELSE lot[u]]
  BY <1>2, <1>8 DEF DuplicateVehicle
<1>11. [lot[v] EXCEPT !.start = start, !.rate = rate, !.passed = FALSE, !.agreed = said] = row
  <2>1. PICK no : no = FALSE
    OBVIOUS
  <2>2. PICK y : y = [lot[v] EXCEPT !.start = start, !.rate = rate, !.passed = no, !.agreed = said]
    OBVIOUS
  <2>3. y = [start |-> start, rate |-> rate, yearly |-> lot[v].yearly, passed |-> no, agreed |-> said]
    <3>1. PICK x \in LotRow : x = lot[v]
      OBVIOUS
    <3>2. y = [x EXCEPT !.start = start, !.rate = rate, !.passed = no, !.agreed = said]
      BY <2>2, <3>1
    <3>3. y = [start |-> start, rate |-> rate, yearly |-> x.yearly, passed |-> no, agreed |-> said]
      BY <3>2 DEF LotRow
    <3>. QED BY <3>1, <3>3
  <2>. QED BY <1>5, <1>9, <2>1, <2>2, <2>3
<1>12. lot' = [u \in DOMAIN lot \cup {copy} |-> IF u = copy THEN row ELSE lot[u]]
  BY <1>10, <1>11
<1>13. copy \notin DOMAIN lot /\ UNCHANGED <<cpiKnown, tariff, calendar, plans>>
  BY DEF DuplicateVehicle
<1>14. DOMAIN lot' = DOMAIN lot \cup {copy} /\ lot'[copy] = row /\ \A u \in DOMAIN lot : lot'[u] = lot[u]
  BY <1>12, <1>13
<1>15. raises' = IF current THEN raises ELSE raises \cup CopiedRaises(v, copy, start)
  BY DEF DuplicateVehicle, CopiedRaises
<1>. QED BY <1>1, <1>2, <1>3, <1>4, <1>5, <1>6, <1>13, <1>14, <1>15

\* A copy keeps the rows of the vehicles there are, and adds its own.
LEMMA CopyKeepsRows ==
    ASSUME IndexRows, NEW v \in DOMAIN lot, NEW copy \in Lots, NEW start \in CPIMonths, NEW current \in BOOLEAN,
           DuplicateVehicle(v, copy, start, current)
    PROVE  IndexRows'
<1>. USE RowsNow
<1>1. /\ copy \notin DOMAIN lot /\ DOMAIN lot' = DOMAIN lot \cup {copy} /\ \A u \in DOMAIN lot : lot'[u] = lot[u]
      /\ lot'[copy] \in LotRow /\ lot'[copy].yearly = lot[v].yearly
      /\ raises' = IF current THEN raises ELSE raises \cup CopiedRaises(v, copy, start)
      /\ UNCHANGED <<cpiKnown, tariff, calendar, plans>>
  BY CopiedLot
<1>2. start \in Nat /\ calendar <= calendar'
  BY <1>1, IndexFacts
<1>3. ASSUME NEW z \in CopiedRaises(v, copy, start)
      PROVE  /\ z \in Raises /\ z.lot = copy
             /\ \E x \in raises : x.lot = v /\ start < x.from /\ z.from = x.from /\ z.month = x.month /\ z.rate = x.rate
  BY <1>2, CopiedRaise
<1>4. \A y, z \in CopiedRaises(v, copy, start) : y.from = z.from => y = z
  <2>. SUFFICES ASSUME NEW y \in CopiedRaises(v, copy, start), NEW z \in CopiedRaises(v, copy, start), y.from = z.from
                PROVE  y = z
    OBVIOUS
  <2>1. y.lot = z.lot /\ y.month = z.month /\ y.rate = z.rate /\ y \in Raises /\ z \in Raises
    BY <1>3
  <2>. QED BY <2>1 DEF Raises
<1>5. raises' \subseteq Raises
  BY <1>1, <1>3
<1>6. \A x, y \in raises' : x.lot = y.lot /\ x.from = y.from => x = y
  <2>1. \A x \in raises : x.lot # copy
    BY <1>1 DEF Dated
  <2>. QED BY <1>1, <1>3, <1>4, <2>1
<1>7. IndexationTypeOK /\ IndexationTypeOK'
  <2>1. DOMAIN lot' \subseteq Lots /\ \A u \in DOMAIN lot' : lot'[u] \in LotRow
    BY <1>1
  <2>. QED BY <1>1, <1>5, <1>6, <2>1, IndexationTyped DEF IndexRows, IndexationTypeOK, LotRow, AgreedRow, TariffRow, PlanRow
<1>8. \A x \in Raises : Dated(x) => Dated(x)'
  BY <1>1, <1>2, <1>7, StaysDated
<1>9. NextPeriodStart(copy)' = NextPeriodStart(v)
  BY <1>1 DEF NextPeriodStart
<1>10. ASSUME NEW z \in CopiedRaises(v, copy, start) PROVE Dated(z)'
  BY <1>1, <1>3, <1>9 DEF Dated
<1>11. \A x \in raises' : Dated(x)'
  BY <1>1, <1>8, <1>10
<1>12. \A o \in Officers : \A x \in plans'[o].rows : Dated(x)'
  BY <1>1, <1>8 DEF PlanRow
<1>13. cpiKnown' \subseteq 0 .. calendar' /\ \A o \in Officers : \A x, y \in plans'[o].rows : x.lot = y.lot => x = y
  BY <1>1
<1>. QED BY <1>7, <1>11, <1>12, <1>13 DEF IndexRows

\* Every table and every plan in flight of the indexation keeps its domain.
THEOREM IndexationTypes == IndexationSpec => []IndexationTypeOK
<1>1. IndexationInit => IndexRows
  BY IndexRowsStart
<1>2. IndexRows /\ [IndexationNext]_indexVars => IndexRows'
  <2>. SUFFICES ASSUME IndexRows, [IndexationNext]_indexVars PROVE IndexRows'
    OBVIOUS
  <2>1. CASE UNCHANGED indexVars
    BY <2>1 DEF indexVars, IndexRows, IndexationTypeOK, Dated, NextPeriodStart
  <2>2. CASE IndexationNext
    BY <2>2, PlanKeepsRows, ApplyKeepsRows, DeskKeepsRows, TimeKeepsRows, CopyKeepsRows DEF IndexationNext
  <2>. QED BY <2>1, <2>2
<1>3. IndexRows => IndexationTypeOK
  BY DEF IndexRows
<1>. QED BY <1>1, <1>2, <1>3, PTL DEF IndexationSpec

-----------------------------------------------------------------------------
\* Products of prices and index values.
LEMMA ScaledUp == ASSUME NEW a \in Nat, NEW b \in Nat, NEW c \in Nat, a <= b PROVE a * c <= b * c /\ c * a <= c * b
OBVIOUS
LEMMA ScaledDown == ASSUME NEW a \in Nat, NEW b \in Nat, NEW c \in Nat, c >= 1, a * c <= b * c PROVE a <= b
OBVIOUS
LEMMA ProductNat == ASSUME NEW a \in Nat, NEW b \in Nat PROVE a * b \in Nat
OBVIOUS
LEMMA Swapped == ASSUME NEW a \in Nat, NEW b \in Nat, NEW c \in Nat PROVE (a * b) * c = (a * c) * b
OBVIOUS

\* q is to r no more than m is to b.
NoMore(q, r, m, b) == q * b <= r * m

\* A price q raised by m / b from a price r that had itself risen by no more than b / a.
LEMMA RiseOnRise ==
    ASSUME NEW q \in Nat, NEW r \in Nat, NEW m \in Nat, NEW b \in Nat, NEW a \in Nat, NEW g \in Nat, b >= 1,
           NoMore(q, r, m, b), NoMore(r, g, b, a)
    PROVE  NoMore(q, g, m, a)
<1>. USE DEF NoMore
<1>1. /\ q * a \in Nat /\ g * m \in Nat /\ q * b \in Nat /\ r * m \in Nat /\ r * a \in Nat /\ g * b \in Nat
  BY ProductNat
<1>2. (q * b) * a <= (r * m) * a
  BY <1>1, ScaledUp
<1>3. (r * a) * m <= (g * b) * m
  BY <1>1, ScaledUp
<1>4. (q * b) * a = (q * a) * b /\ (r * m) * a = (r * a) * m /\ (g * b) * m = (g * m) * b
  BY Swapped
<1>5. (q * a) * b \in Nat /\ (r * a) * m \in Nat /\ (g * m) * b \in Nat
  BY <1>1, ProductNat
<1>6. (q * a) * b <= (g * m) * b
  BY <1>2, <1>3, <1>4, <1>5
<1>. QED BY <1>1, <1>6, ScaledDown

-----------------------------------------------------------------------------
\* A price of month m is no more than the index has risen since the price was agreed.
Follows(v, rate, m) == rate * CPI[lot[v].agreed.month] <= lot[v].agreed.rate * CPI[m]
\* A plan's row comes after every raise of its vehicle.
ComesLast(x) == \A y \in LotRaises(x.lot) : y.from <= x.from /\ y.month <= x.month
\* The stored price of a vehicle is one of some month up to its start and to its first raise.
StoredAgreed(v) ==
    \E k \in CPIMonths : /\ Follows(v, lot[v].rate, k) /\ k <= lot[v].start
                         /\ \A x \in raises : x.lot = v => k <= x.month
                         /\ \A o \in Officers : \A x \in plans[o].rows : x.lot = v => k <= x.month
RisesInOrder == \A x, y \in raises : x.lot = y.lot /\ x.from <= y.from => x.month <= y.month
RisesInv ==
    /\ IndexRows /\ RisesInOrder
    /\ \A x \in raises : Follows(x.lot, x.rate, x.month)
    /\ \A o \in Officers : \A x \in plans[o].rows : Follows(x.lot, x.rate, x.month) /\ ComesLast(x)
    /\ \A v \in DOMAIN lot : StoredAgreed(v)

\* An index that never falls, one plan at a time, and copies that start no earlier than their original.
NeverFalls   == \A m, n \in CPIMonths : m <= n => CPI[m] <= CPI[n]
OnePlan      == \A o, p \in Officers : o = p
CopiesFollow == \A v \in DOMAIN lot, copy \in Lots, start \in CPIMonths :
                    DuplicateVehicle(v, copy, start, FALSE) => lot[v].start <= start

\* The later the month, the more a price may have risen.
LEMMA FollowsLater ==
    ASSUME NeverFalls, IndexRows, NEW v \in DOMAIN lot, NEW rate \in Nat, NEW j \in CPIMonths, NEW k \in CPIMonths, j <= k,
           Follows(v, rate, j)
    PROVE  Follows(v, rate, k)
<1>1. PICK a \in Nat, g \in Nat, x \in Nat, y \in Nat :
          a = CPI[lot[v].agreed.month] /\ g = lot[v].agreed.rate /\ x = CPI[j] /\ y = CPI[k] /\ x <= y
  <2>1. lot[v].agreed.month \in CPIMonths /\ lot[v].agreed.rate \in Nat
    BY RowsNow DEF LotRow, AgreedRow
  <2>2. CPI[lot[v].agreed.month] \in Nat /\ CPI[j] \in Nat /\ CPI[k] \in Nat /\ CPI[j] <= CPI[k]
    BY <2>1, IndexFacts DEF NeverFalls
  <2>. QED BY <2>1, <2>2
<1>2. rate * a \in Nat /\ g * x \in Nat /\ g * y \in Nat /\ g * x <= g * y
  BY <1>1, ProductNat, ScaledUp
<1>3. rate * a <= g * x
  BY <1>1 DEF Follows
<1>4. rate * a <= g * y
  BY <1>2, <1>3
<1>. QED BY <1>1, <1>4 DEF Follows

\* The row a plan has for a vehicle.
LEMMA PlannedFollows ==
    ASSUME NeverFalls, RisesInv, NEW m \in cpiKnown, NEW v \in DOMAIN lot, Raised(v, m), NEW k \in CPIMonths,
           Follows(v, lot[v].rate, k), k <= lot[v].start, \A x \in raises : x.lot = v => k <= x.month
    PROVE  Follows(v, RowFor(v, m).rate, m) /\ k <= m /\ \A y \in LotRaises(v) : y.from <= NextPeriodStart(v) /\ y.month <= m
<1>. USE RowsNow DEF RisesInv
<1>1. PICK day \in Int : day = NextPeriodStart(v) - 1
  BY NextStarts DEF IndexRows
<1>2. PICK base \in CPIMonths : base = BaseMonth(v)
  BY DEF Raised
<1>3. m \in CPIMonths /\ m \in Nat /\ base \in Nat /\ base < m /\ k \in Nat /\ lot[v].start \in Nat
      /\ tariff.base \in Int /\ lot[v].rate \in Nat
  <2>1. m \in CPIMonths /\ base < m
    BY <1>2 DEF Raised
  <2>2. lot[v].start \in CPIMonths /\ lot[v].rate \in Nat
    BY DEF LotRow
  <2>3. tariff.base \in CPIMonths \cup {NoMonth}
    BY DEF TariffRow
  <2>4. CPIMonths \subseteq Nat /\ NoMonth \in Int
    BY IndexFacts
  <2>5. m \in Nat /\ base \in Nat /\ k \in Nat /\ lot[v].start \in Nat
    BY <2>1, <2>2, <2>4
  <2>6. \A n \in CPIMonths \cup {NoMonth} : n \in Int
    BY <2>4
  <2>7. tariff.base \in Int
    BY <2>3, <2>6
  <2>. QED BY <2>1, <2>2, <2>5, <2>7
<1>4. \A x \in LotRaises(v) : x \in raises /\ x.lot = v /\ x \in Raises
  BY DEF LotRaises
<1>5. PICK r \in Nat : r = RateAt(v, day)
  BY PriceOfDay
<1>6. \/ r = lot[v].rate /\ \A x \in LotRaises(v) : ~(x.from <= day)
      \/ \E x \in LotRaises(v) : /\ x.from <= day /\ r = x.rate
                                 /\ \A y \in LotRaises(v) : y.from <= day => y.from <= x.from
  BY <1>5, PriceOfDay
<1>7. Follows(v, r, base) /\ k <= base /\ \A y \in LotRaises(v) : y.month <= base
  <2>1. CASE LotRaises(v) = {}
    <3>1. r = lot[v].rate
      BY <1>6, <2>1
    <3>2. base = Larger(tariff.base, lot[v].start)
      BY <1>2, <2>1, BaseOfPlan
    <3>3. k <= base
      BY <1>3, <3>2 DEF Larger
    <3>. QED BY <1>3, <2>1, <3>1, <3>3, FollowsLater
  <2>2. CASE LotRaises(v) # {}
    <3>1. PICK x \in LotRaises(v) : base = x.month /\ \A y \in LotRaises(v) : y.from <= x.from
      BY <1>2, <2>2, BaseOfPlan
    <3>2. \A y \in LotRaises(v) : y.month <= base
      BY <1>4, <3>1 DEF RisesInOrder
    <3>3. k <= base
      BY <1>4, <3>1
    <3>4. CASE r = lot[v].rate
      BY <1>3, <3>2, <3>3, <3>4, FollowsLater
    <3>5. CASE r # lot[v].rate
      <4>1. PICK y \in LotRaises(v) : r = y.rate
        BY <1>6, <3>5
      <4>2. PICK j \in CPIMonths : j = y.month /\ j <= base /\ Follows(v, r, j)
        BY <1>4, <3>2, <4>1 DEF Raises
      <4>3. Follows(v, r, base)
        BY <4>2, FollowsLater
      <4>. QED BY <3>2, <3>3, <4>3
    <3>. QED BY <3>4, <3>5
  <2>. QED BY <2>1, <2>2
<1>8. Follows(v, RowFor(v, m).rate, m)
  <2>1. PICK q \in Nat : q = Indexed(r, m, base) /\ q * CPI[base] <= r * CPI[m]
    BY <1>3, IndexedPrice
  <2>2. RowFor(v, m).rate = q
    BY <1>1, <1>2, <1>5, <2>1 DEF RowFor
  <2>3. PICK a \in Nat, g \in Nat, b \in Nat, c \in Nat :
            a = CPI[lot[v].agreed.month] /\ g = lot[v].agreed.rate /\ b = CPI[base] /\ b >= 1 /\ c = CPI[m]
    <3>1. lot[v].agreed.month \in CPIMonths /\ lot[v].agreed.rate \in Nat
      BY DEF LotRow, AgreedRow
    <3>2. CPI[lot[v].agreed.month] \in Nat /\ CPI[base] \in Nat /\ CPI[base] >= 1 /\ CPI[m] \in Nat
      BY <1>3, <3>1, IndexFacts
    <3>. QED BY <3>1, <3>2
  <2>4. q * b <= r * c /\ r * a <= g * b
    BY <1>7, <2>1, <2>3 DEF Follows
  <2>5. NoMore(q, r, c, b) /\ NoMore(r, g, b, a)
    BY <2>4 DEF NoMore
  <2>6. NoMore(q, g, c, a)
    <3>. HIDE RowsNow DEF RisesInv
    <3>1. b >= 1
      BY <2>3
    <3>. QED BY <2>5, <3>1, RiseOnRise
  <2>. QED BY <2>2, <2>3, <2>6 DEF Follows, NoMore
<1>9. k <= m /\ \A y \in LotRaises(v) : y.month <= m
  <2>1. \A y \in LotRaises(v) : y.month \in Nat
    BY <1>4, IndexFacts DEF Raises
  <2>. QED BY <1>3, <1>7, <2>1
<1>10. \A y \in LotRaises(v) : y.from <= NextPeriodStart(v)
  BY <1>4 DEF Dated
<1>. QED BY <1>8, <1>9, <1>10

\* Steps that raise nobody and plan nothing new.
LEMMA QuietKeepsRises ==
    ASSUME RisesInv, IndexRows', DOMAIN lot' = DOMAIN lot,
           \A v \in DOMAIN lot : lot'[v].agreed = lot[v].agreed /\ lot'[v].rate = lot[v].rate /\ lot'[v].start = lot[v].start,
           raises' \subseteq raises, \A o \in Officers : plans'[o].rows \subseteq plans[o].rows
    PROVE  RisesInv'
<1>1. \A x \in raises : x.lot \in DOMAIN lot
  BY DEF RisesInv, IndexRows, Dated
<1>2. \A o \in Officers : \A x \in plans[o].rows : x.lot \in DOMAIN lot
  BY DEF RisesInv, IndexRows, Dated
<1>3. \A x \in raises' : Follows(x.lot, x.rate, x.month)'
  BY <1>1 DEF RisesInv, Follows
<1>4. \A o \in Officers : \A x \in plans'[o].rows : Follows(x.lot, x.rate, x.month)' /\ ComesLast(x)'
  BY <1>2 DEF RisesInv, Follows, ComesLast, LotRaises
<1>5. RisesInOrder'
  BY DEF RisesInv, RisesInOrder
<1>6. ASSUME NEW v \in DOMAIN lot PROVE StoredAgreed(v)'
  <2>1. PICK k \in CPIMonths : /\ Follows(v, lot[v].rate, k) /\ k <= lot[v].start
                               /\ \A x \in raises : x.lot = v => k <= x.month
                               /\ \A o \in Officers : \A x \in plans[o].rows : x.lot = v => k <= x.month
    BY DEF RisesInv, StoredAgreed
  <2>2. Follows(v, lot[v].rate, k)'
    BY <2>1 DEF Follows
  <2>. QED BY <2>1, <2>2 DEF StoredAgreed
<1>. QED BY <1>3, <1>4, <1>5, <1>6 DEF RisesInv

\* A plan raises nobody beyond the index.
LEMMA PlanKeepsRises ==
    ASSUME OnePlan, NeverFalls, RisesInv, IndexRows', NEW o \in Officers, NEW m \in CPIMonths, PlanIndexation(o, m)
    PROVE  RisesInv'
<1>1. PICK rows : rows = { RowFor(v, m) : v \in { u \in DOMAIN lot : Raised(u, m) } }
  OBVIOUS
<1>2. /\ m \in cpiKnown /\ UNCHANGED <<lot, raises>> /\ IndexRows /\ RisesInOrder
      /\ \A p \in Officers : p = o /\ plans'[p].rows = rows
  BY <1>1, RowsNow DEF PlanIndexation, RisesInv, OnePlan
<1>3. ASSUME NEW v \in DOMAIN lot
      PROVE  StoredAgreed(v)' /\ (Raised(v, m) => /\ Follows(v, RowFor(v, m).rate, m)
                                                  /\ \A y \in LotRaises(v) : y.from <= NextPeriodStart(v) /\ y.month <= m)
  <2>1. PICK k \in CPIMonths : /\ Follows(v, lot[v].rate, k) /\ k <= lot[v].start
                               /\ \A x \in raises : x.lot = v => k <= x.month
    BY DEF RisesInv, StoredAgreed
  <2>2. Raised(v, m) => /\ Follows(v, RowFor(v, m).rate, m) /\ k <= m
                        /\ \A y \in LotRaises(v) : y.from <= NextPeriodStart(v) /\ y.month <= m
    BY <1>2, <2>1, PlannedFollows
  <2>3. \A x \in rows : x.lot = v => Raised(v, m) /\ x.month = m
    BY <1>1 DEF RowFor
  <2>4. Follows(v, lot[v].rate, k)'
    BY <1>2, <2>1 DEF Follows
  <2>5. StoredAgreed(v)'
    BY <1>2, <2>1, <2>2, <2>3, <2>4 DEF StoredAgreed
  <2>. QED BY <2>2, <2>5
<1>4. ASSUME NEW x \in rows PROVE Follows(x.lot, x.rate, x.month)' /\ ComesLast(x)'
  <2>1. PICK v \in DOMAIN lot : x = RowFor(v, m) /\ Raised(v, m)
    BY <1>1
  <2>2. x.lot = v /\ x.month = m /\ x.from = NextPeriodStart(v)
    BY <2>1 DEF RowFor
  <2>3. Follows(x.lot, x.rate, x.month) /\ ComesLast(x)
    BY <1>3, <2>1, <2>2 DEF ComesLast
  <2>. QED BY <1>2, <2>3 DEF Follows, ComesLast, LotRaises
<1>5. \A x \in raises' : Follows(x.lot, x.rate, x.month)'
  BY <1>2 DEF RisesInv, Follows
<1>6. RisesInOrder'
  BY <1>2 DEF RisesInOrder
<1>. QED BY <1>2, <1>3, <1>4, <1>5, <1>6 DEF RisesInv

\* Nor does its transaction: the row it inserts comes after what is there.
LEMMA ApplyKeepsRises ==
    ASSUME OnePlan, RisesInv, IndexRows', NEW o \in Officers, ApplyIndexation(o)
    PROVE  RisesInv'
<1>1. /\ UNCHANGED lot /\ raises' = raises \cup Inserted(plans[o].rows) /\ IndexRows /\ RisesInOrder
      /\ \A p \in Officers : p = o /\ plans'[p].rows = {}
  BY RowsNow DEF ApplyIndexation, RisesInv, OnePlan, NoPlan
<1>2. \A x \in Inserted(plans[o].rows) :
          /\ x \in plans[o].rows /\ x \in Raises /\ Follows(x.lot, x.rate, x.month) /\ ComesLast(x)
          /\ \A y \in raises : y.lot = x.lot => y.from # x.from
  BY <1>1, RowsNow DEF RisesInv, Inserted, LotRaises, PlanRow
<1>3. \A x, y \in Inserted(plans[o].rows) : x.lot = y.lot => x = y
  BY <1>1, RowsNow DEF Inserted
<1>4. \A x \in raises' : Follows(x.lot, x.rate, x.month)'
  BY <1>1, <1>2 DEF RisesInv, Follows
<1>5. RisesInOrder'
  <2>. SUFFICES ASSUME NEW x \in raises', NEW y \in raises', x.lot = y.lot, x.from <= y.from PROVE x.month <= y.month
    BY DEF RisesInOrder
  <2>1. x \in Raises /\ y \in Raises /\ x.month \in Nat /\ y.month \in Nat /\ x.from \in Nat /\ y.from \in Nat
    <3>1. x \in Raises /\ y \in Raises
      BY <1>1, <1>2, RowsNow
    <3>. QED BY <3>1, IndexFacts DEF Raises
  <2>2. CASE x \in raises /\ y \in raises
    BY <1>1, <2>2 DEF RisesInOrder
  <2>3. CASE y \notin raises /\ x \in raises
    BY <1>1, <1>2, <2>3 DEF ComesLast, LotRaises
  <2>4. CASE x \notin raises /\ y \in raises
    <3>1. y.from <= x.from /\ y.from # x.from
      BY <1>1, <1>2, <2>4 DEF ComesLast, LotRaises
    <3>. QED BY <2>1, <3>1
  <2>5. CASE x \notin raises /\ y \notin raises
    <3>1. x = y
      BY <1>1, <1>3, <2>5
    <3>. QED BY <2>1, <3>1
  <2>. QED BY <2>2, <2>3, <2>4, <2>5
<1>6. ASSUME NEW v \in DOMAIN lot PROVE StoredAgreed(v)'
  <2>1. PICK k \in CPIMonths : /\ Follows(v, lot[v].rate, k) /\ k <= lot[v].start
                               /\ \A x \in raises : x.lot = v => k <= x.month
                               /\ \A p \in Officers : \A x \in plans[p].rows : x.lot = v => k <= x.month
    BY DEF RisesInv, StoredAgreed
  <2>2. Follows(v, lot[v].rate, k)'
    BY <1>1, <2>1 DEF Follows
  <2>. QED BY <1>1, <1>2, <2>1, <2>2 DEF StoredAgreed
<1>. QED BY <1>1, <1>4, <1>5, <1>6 DEF RisesInv

\* A copy that starts no earlier has a price of some month before its own start and raises.
LEMMA CopyKeepsRises ==
    ASSUME NeverFalls, RisesInv, IndexRows', NEW v \in DOMAIN lot, NEW copy \in Lots, NEW start \in CPIMonths, NEW current \in BOOLEAN,
           DuplicateVehicle(v, copy, start, current), current \/ lot[v].start <= start
    PROVE  RisesInv'
<1>0. IndexRows
  BY DEF RisesInv
<1>1. /\ copy \notin DOMAIN lot /\ DOMAIN lot' = DOMAIN lot \cup {copy} /\ \A u \in DOMAIN lot : lot'[u] = lot[u]
      /\ lot'[copy] \in LotRow /\ lot'[copy].start = start
      /\ current => lot'[copy].rate = lot'[copy].agreed.rate /\ lot'[copy].agreed.month = start
      /\ ~current => /\ lot'[copy].rate = RateAt(v, start) /\ lot'[copy].agreed.rate = lot[v].agreed.rate
                     /\ lot'[copy].agreed.month <= lot[v].agreed.month
      /\ raises' = IF current THEN raises ELSE raises \cup CopiedRaises(v, copy, start)
      /\ plans' = plans
  <2>1. /\ copy \notin DOMAIN lot /\ DOMAIN lot' = DOMAIN lot \cup {copy} /\ \A u \in DOMAIN lot : lot'[u] = lot[u]
        /\ lot'[copy] \in LotRow /\ lot'[copy].start = start /\ lot'[copy].yearly = lot[v].yearly
        /\ current => lot'[copy].rate = lot'[copy].agreed.rate /\ lot'[copy].agreed.month = start
        /\ ~current => /\ lot'[copy].rate = RateAt(v, start) /\ lot'[copy].agreed.rate = lot[v].agreed.rate
                       /\ lot'[copy].agreed.month <= lot[v].agreed.month
        /\ raises' = IF current THEN raises ELSE raises \cup CopiedRaises(v, copy, start)
        /\ UNCHANGED <<cpiKnown, tariff, calendar, plans>>
    BY <1>0, CopiedLot
  <2>. QED BY <2>1
<1>2. IndexRows /\ RisesInOrder /\ start \in Nat /\ raises \subseteq Raises /\ lot[v] \in LotRow
  BY IndexFacts, RowsNow DEF RisesInv
<1>3. ASSUME NEW z \in CopiedRaises(v, copy, start)
      PROVE  /\ z \in Raises /\ z.lot = copy
             /\ \E x \in raises : x.lot = v /\ start < x.from /\ z.from = x.from /\ z.month = x.month /\ z.rate = x.rate
  BY <1>2, CopiedRaise
<1>4. \A x \in raises : x.lot \in DOMAIN lot /\ x.lot # copy
  BY <1>1, <1>2 DEF IndexRows, Dated
<1>5. \A o \in Officers : \A x \in plans[o].rows : x.lot \in DOMAIN lot /\ x.lot # copy
  BY <1>1, <1>2 DEF IndexRows, Dated
<1>6. ASSUME ~current, NEW r \in Nat, NEW k \in CPIMonths, Follows(v, r, k) PROVE Follows(copy, r, k)'
  <2>1. PICK a \in Nat, b \in Nat, g \in Nat, c \in Nat :
            /\ a = CPI[lot'[copy].agreed.month] /\ b = CPI[lot[v].agreed.month] /\ a <= b
            /\ g = lot[v].agreed.rate /\ c = CPI[k]
    BY <1>1, <1>2, <1>6, IndexFacts DEF NeverFalls, LotRow, AgreedRow
  <2>2. r * a <= r * b /\ r * a \in Nat /\ r * b \in Nat /\ g * c \in Nat
    BY <2>1, ScaledUp, ProductNat
  <2>3. r * b <= g * c
    BY <1>6, <2>1 DEF Follows
  <2>4. r * a <= g * c
    BY <2>2, <2>3
  <2>5. lot'[copy].agreed.rate = g
    BY <1>1, <1>6, <2>1
  <2>. QED BY <2>1, <2>4, <2>5 DEF Follows
<1>7. \A x \in raises' : Follows(x.lot, x.rate, x.month)'
  <2>1. \A x \in raises : Follows(x.lot, x.rate, x.month)'
    BY <1>1, <1>4 DEF RisesInv, Follows
  <2>2. ASSUME ~current, NEW z \in CopiedRaises(v, copy, start) PROVE Follows(z.lot, z.rate, z.month)'
    <3>1. PICK x \in raises : x.lot = v /\ z.month = x.month /\ z.rate = x.rate
      BY <1>3, <2>2
    <3>2. Follows(v, z.rate, z.month) /\ z.rate \in Nat /\ z.month \in CPIMonths /\ z.lot = copy
      BY <1>3, <2>2, <3>1 DEF RisesInv, Raises
    <3>3. Follows(copy, z.rate, z.month)'
      BY <1>6, <2>2, <3>2
    <3>. QED BY <3>2, <3>3
  <2>. QED BY <1>1, <2>1, <2>2
<1>8. \A o \in Officers : \A x \in plans'[o].rows : Follows(x.lot, x.rate, x.month)' /\ ComesLast(x)'
  <2>. SUFFICES ASSUME NEW o \in Officers, NEW x \in plans[o].rows PROVE Follows(x.lot, x.rate, x.month)' /\ ComesLast(x)'
    BY <1>1
  <2>1. x.lot \in DOMAIN lot /\ x.lot # copy /\ Follows(x.lot, x.rate, x.month) /\ ComesLast(x)
    BY <1>5 DEF RisesInv
  <2>2. LotRaises(x.lot)' = LotRaises(x.lot)
    BY <1>1, <1>3, <2>1 DEF LotRaises
  <2>3. ComesLast(x)'
    BY <2>1, <2>2 DEF ComesLast
  <2>. QED BY <1>1, <2>1, <2>3 DEF Follows
<1>9. RisesInOrder'
  <2>. SUFFICES ASSUME NEW x \in raises', NEW y \in raises', x.lot = y.lot, x.from <= y.from PROVE x.month <= y.month
    BY DEF RisesInOrder
  <2>1. CASE x \in raises /\ y \in raises
    BY <1>2, <2>1 DEF RisesInOrder
  <2>2. CASE x \notin raises \/ y \notin raises
    <3>1. ~current /\ x \in CopiedRaises(v, copy, start) /\ y \in CopiedRaises(v, copy, start)
      BY <1>1, <1>3, <1>4, <2>2
    <3>2. PICK p \in raises, q \in raises : p.lot = v /\ q.lot = v /\ p.from = x.from /\ q.from = y.from
                                            /\ p.month = x.month /\ q.month = y.month
      BY <1>3, <3>1
    <3>. QED BY <1>2, <3>2 DEF RisesInOrder
  <2>. QED BY <2>1, <2>2
<1>10. ASSUME NEW u \in DOMAIN lot PROVE StoredAgreed(u)'
  <2>1. PICK k \in CPIMonths : /\ Follows(u, lot[u].rate, k) /\ k <= lot[u].start
                               /\ \A x \in raises : x.lot = u => k <= x.month
                               /\ \A o \in Officers : \A x \in plans[o].rows : x.lot = u => k <= x.month
    BY DEF RisesInv, StoredAgreed
  <2>2. u # copy /\ lot'[u] = lot[u] /\ \A x \in raises' : x.lot = u => k <= x.month
    BY <1>1, <1>3, <2>1
  <2>3. Follows(u, lot[u].rate, k)'
    BY <2>1, <2>2 DEF Follows
  <2>. QED BY <1>1, <2>1, <2>2, <2>3 DEF StoredAgreed
<1>11. StoredAgreed(copy)'
  <2>. SUFFICES \E k \in CPIMonths : /\ Follows(copy, lot[copy].rate, k)' /\ k <= start
                                     /\ \A x \in raises' : x.lot = copy => k <= x.month
    BY <1>1, <1>5 DEF StoredAgreed
  <2>1. CASE current
    <3>1. PICK g \in Nat, c \in Nat : g = lot'[copy].agreed.rate /\ c = CPI[start]
      BY <1>1, IndexFacts DEF LotRow, AgreedRow
    <3>2. g * c <= g * c
      BY <3>1, ProductNat
    <3>3. Follows(copy, lot[copy].rate, start)'
      BY <1>1, <2>1, <3>1, <3>2 DEF Follows
    <3>4. start <= start
      BY <1>2
    <3>. QED BY <1>1, <1>4, <2>1, <3>3, <3>4
  <2>2. CASE ~current
    <3>1. PICK r \in Nat : r = RateAt(v, start) /\ lot'[copy].rate = r
      BY <1>1, <1>2, <2>2, PriceOfDay
    <3>2. PICK k \in CPIMonths : /\ Follows(v, lot[v].rate, k) /\ k <= lot[v].start
                                 /\ \A x \in raises : x.lot = v => k <= x.month
      BY DEF RisesInv, StoredAgreed
    <3>3. \/ r = lot[v].rate
          \/ \E x \in LotRaises(v) : /\ x.from <= start /\ r = x.rate
      BY <1>2, <3>1, PriceOfDay
    <3>4. CASE r = lot[v].rate
      <4>1. Follows(copy, lot[copy].rate, k)'
        BY <1>6, <2>2, <3>1, <3>2, <3>4
      <4>2. k <= start
        <5>1. k \in Nat /\ lot[v].start \in Nat /\ lot[v].start <= start
          BY <1>2, <2>2, IndexFacts DEF LotRow
        <5>. QED BY <1>2, <3>2, <5>1
      <4>3. \A x \in raises' : x.lot = copy => k <= x.month
        BY <1>1, <1>3, <1>4, <2>2, <3>2
      <4>. QED BY <4>1, <4>2, <4>3
    <3>5. ASSUME NEW x \in LotRaises(v), x.from <= start, r = x.rate PROVE StoredAgreed(copy)'
      <4>1. x \in raises /\ x.lot = v /\ x \in Raises /\ x.month \in CPIMonths /\ x.month \in Nat /\ x.from \in Nat
            /\ Follows(v, r, x.month) /\ x.month < x.from
        BY <1>2, <3>5, IndexFacts DEF RisesInv, IndexRows, Dated, Raises, LotRaises
      <4>2. Follows(copy, lot[copy].rate, x.month)'
        BY <1>6, <2>2, <3>1, <4>1
      <4>3. x.month <= start
        BY <1>2, <3>5, <4>1
      <4>4. ASSUME NEW z \in raises', z.lot = copy PROVE x.month <= z.month
        <5>1. PICK y \in raises : y.lot = v /\ start < y.from /\ z.month = y.month
          BY <1>1, <1>3, <1>4, <2>2, <4>4
        <5>2. x.from <= y.from
          BY <1>2, <3>5, <4>1, <5>1 DEF Raises
        <5>. QED BY <1>2, <4>1, <5>1, <5>2 DEF RisesInOrder
      <4>. QED BY <1>1, <1>5, <4>1, <4>2, <4>3, <4>4 DEF StoredAgreed
    <3>. QED BY <1>1, <1>5, <3>3, <3>4, <3>5 DEF StoredAgreed
  <2>. QED BY <2>1, <2>2
<1>. QED BY <1>1, <1>7, <1>8, <1>9, <1>10, <1>11 DEF RisesInv

\* Nothing is raised at the start, and prices are agreed at the start of a contract.
LEMMA RisesStart == IndexationInit => RisesInv
<1>. SUFFICES ASSUME IndexationInit PROVE RisesInv
  OBVIOUS
<1>1. IndexRows
  BY IndexRowsStart
<1>2. raises = {} /\ \A o \in Officers : plans[o].rows = {}
  BY DEF IndexationInit, NoPlan
<1>3. ASSUME NEW v \in DOMAIN lot PROVE StoredAgreed(v)
  <2>1. PICK s \in CPIMonths, y \in BOOLEAN : lot[v] = FirstLot(s, y)
    BY DEF IndexationInit
  <2>2. PICK g \in Nat, c \in Nat : g = FirstPrice /\ c = CPI[s]
    BY IndexFacts
  <2>3. g * c <= g * c /\ s <= s
    BY <2>2, ProductNat, IndexFacts
  <2>. QED BY <1>2, <2>1, <2>2, <2>3 DEF StoredAgreed, Follows, FirstLot
<1>. QED BY <1>1, <1>2, <1>3 DEF RisesInv, RisesInOrder

\* NoRiseTwice, for any vehicles, thresholds and lengths of periods and any index that does not fall: no
\* customer pays more than the index has risen since the price was agreed, as long as one plan is made
\* and applied at a time and no copy that keeps its price starts before its original (5.1 of the README
\* shows why).
THEOREM RisesChargedOnce == OnePlan /\ NeverFalls => (IndexationSpec /\ [][CopiesFollow]_indexVars => []NoRiseTwice)
<1>. SUFFICES ASSUME OnePlan, NeverFalls PROVE IndexationSpec /\ [][CopiesFollow]_indexVars => []NoRiseTwice
  OBVIOUS
<1>1. IndexationInit => RisesInv
  BY RisesStart
<1>2. RisesInv /\ [IndexationNext]_indexVars /\ [CopiesFollow]_indexVars => RisesInv'
  <2>. SUFFICES ASSUME RisesInv, [IndexationNext]_indexVars, [CopiesFollow]_indexVars PROVE RisesInv'
    OBVIOUS
  <2>0. IndexRows
    BY DEF RisesInv
  <2>1. CASE UNCHANGED indexVars
    BY <2>1 DEF indexVars, RisesInv, IndexRows, IndexationTypeOK, Dated, NextPeriodStart, RisesInOrder, Follows, ComesLast,
                LotRaises, StoredAgreed
  <2>2. ASSUME NEW o \in Officers, NEW m \in CPIMonths, PlanIndexation(o, m) PROVE RisesInv'
    BY <2>0, <2>2, PlanKeepsRows, PlanKeepsRises
  <2>3. ASSUME NEW o \in Officers, ApplyIndexation(o) PROVE RisesInv'
    BY <2>0, <2>3, ApplyKeepsRows, ApplyKeepsRises
  <2>4. ASSUME NEW o \in Officers, AbortIndexation(o) PROVE RisesInv'
    <3>1. IndexRows'
      BY <2>0, <2>4, ApplyKeepsRows
    <3>2. UNCHANGED <<lot, raises>> /\ \A p \in Officers : plans'[p].rows \subseteq plans[p].rows
      BY <2>0, <2>4, RowsNow DEF AbortIndexation, NoPlan
    <3>. QED BY <3>1, <3>2, QuietKeepsRises
  <2>5. CASE \/ \E m \in CPIMonths : SaveCPI(m) \/ DeleteCPI(m)
             \/ \E base \in CPIMonths \cup {NoMonth}, t \in Thresholds : SetCategoryIndexation(base, t)
             \/ \E x \in raises : DeleteRateChange(x)
    <3>1. IndexRows'
      BY <2>0, <2>5, DeskKeepsRows
    <3>2. UNCHANGED <<lot, plans>> /\ raises' \subseteq raises
      <4>1. ASSUME NEW x \in raises, DeleteRateChange(x) PROVE UNCHANGED <<lot, plans>> /\ raises' \subseteq raises
        BY <4>1 DEF DeleteRateChange
      <4>. QED BY <2>5, <4>1 DEF SaveCPI, DeleteCPI, SetCategoryIndexation
    <3>. QED BY <3>1, <3>2, QuietKeepsRises
  <2>6. CASE NextPeriod \/ \E v \in DOMAIN lot : PassOver(v)
    <3>1. IndexRows'
      BY <2>0, <2>6, TimeKeepsRows
    <3>2. UNCHANGED <<raises, plans>>
      BY <2>6 DEF NextPeriod, PassOver
    <3>3. /\ DOMAIN lot' = DOMAIN lot
          /\ \A v \in DOMAIN lot : lot'[v].agreed = lot[v].agreed /\ lot'[v].rate = lot[v].rate /\ lot'[v].start = lot[v].start
      BY <2>0, <2>6, RowsNow DEF NextPeriod, PassOver, LotRow
    <3>. QED BY <3>1, <3>2, <3>3, QuietKeepsRises
  <2>7. ASSUME NEW v \in DOMAIN lot, NEW copy \in Lots, NEW start \in CPIMonths, NEW current \in BOOLEAN,
               DuplicateVehicle(v, copy, start, current)
        PROVE  RisesInv'
    <3>1. copy \notin DOMAIN lot /\ copy \in DOMAIN lot'
      BY <2>7 DEF DuplicateVehicle
    <3>2. CopiesFollow
      BY <3>1 DEF indexVars
    <3>3. current \/ lot[v].start <= start
      BY <2>7, <3>2 DEF CopiesFollow
    <3>. QED BY <2>0, <2>7, <3>3, CopyKeepsRows, CopyKeepsRises
  <2>. QED BY <2>1, <2>2, <2>3, <2>4, <2>5, <2>6, <2>7 DEF IndexationNext
<1>3. RisesInv => NoRiseTwice
  BY DEF RisesInv, NoRiseTwice, Follows
<1>. QED BY <1>1, <1>2, <1>3, PTL DEF IndexationSpec
=============================================================================
