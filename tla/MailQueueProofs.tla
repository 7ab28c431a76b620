-------------------------- MODULE MailQueueProofs ---------------------------
(***************************************************************************)
(* Machine-checked theorems about MailQueue, for any numbers of invoices,  *)
(* loops, clerks, connections, retries and rows.                           *)
(*                                                                         *)
(* Struct: the domains of the columns, and what loops and requests have in *)
(* hand. Everything about the outbox and the reminders builds on it.       *)
(***************************************************************************)
EXTENDS MailQueue, TLAPS

USE DEF invoiceVars, ladderVars, mailVars, clerkVars

-----------------------------------------------------------------------------
\* The mails in hand of a loop l are rows of the table, each once; a reminder is
\* handled on a connection of its own, an invoice without.
Handling(l) == l.pc \in {"check", "smtp", "sent"}
HandOf(l) ==
    /\ l.pc # "batch" /\ ~Handling(l) => l.batch = {}
    /\ \A e \in l.batch : e.row \in 1 .. nMail /\ e.row # l.cur.row
    /\ \A e, f \in l.batch : e.row = f.row => e = f
    /\ Handling(l) => /\ l.cur \in Claims /\ l.cur.row \in 1 .. nMail
                      /\ l.pc = "check" => mail[l.cur.row].kind = "reminder"
                      /\ mail[l.cur.row].kind = "reminder" <=> l.conn # NoOne
    /\ ~Handling(l) => l.cur = NoClaim /\ l.conn = NoOne

\* A request q names an invoice or a row of the table, and holds a connection
\* from the lock to the end of the reminder.
RequestOf(q) ==
    /\ q.pc \in {"lock", "locked", "guarded", "booking", "compose"} => q.inv \in Invoices
    /\ q.pc \in {"locked", "guarded", "booking"} <=> q.conn # NoOne
    /\ q.pc = "booking" => q.level \in Levels
    /\ q.pc = "retry" => q.row \in 1 .. nMail

\* Every row is about an invoice; a reminder is of a level.
RowsNamed == \A r \in 1 .. nMail :
    mail[r].inv \in Invoices /\ (mail[r].kind = "reminder" => mail[r].level \in Levels)
Struct == /\ Columns /\ RowsNamed
          /\ \A w \in Workers : HandOf(worker[w])
          /\ \A c \in Clerks : RequestOf(clerk[c])

\* Rows are only added, and keep what they are about.
RowsKept ==
    /\ nMail <= nMail'
    /\ \A r \in 1 .. nMail : /\ mail'[r].kind = mail[r].kind /\ mail'[r].inv = mail[r].inv
                             /\ mail'[r].level = mail[r].level
                             /\ mail[r].anon => mail'[r].anon

-----------------------------------------------------------------------------
(* Rows.                                                                     *)

LEMMA Numbers ==
    /\ MaxMails \in Nat /\ MaxRetries \in Nat /\ MaxRequests \in Nat /\ 0 \notin MailIds
    /\ NoOne \notin Invoices /\ NoOne \notin Conns
BY MailAssumption DEF MailAssumption, MailIds

\* new is about the same mail as row.
SameMail(new, row) == /\ new \in MailRow /\ new.kind = row.kind /\ new.inv = row.inv
                      /\ new.level = row.level /\ new.anon = row.anon

LEMMA RowOps ==
  ASSUME NEW row \in MailRow, NEW tries
  PROVE  /\ SameMail(PutBackRow(row), row) /\ SameMail(Rejected(row), row)
         /\ SameMail(RetryOrFail(row, tries), row) /\ SameMail(GoneOut(row), row)
         /\ SameMail([row EXCEPT !.status = "sent"], row)
         /\ SameMail([row EXCEPT !.status = "failed", !.swept = TRUE], row)
         /\ SameMail([row EXCEPT !.status = "queued", !.attempts = 0, !.swept = FALSE], row)
         /\ SameMail([row EXCEPT !.status = "sending", !.attempts = @ + 1], row)
<1>1. SameMail(PutBackRow(row), row)
  <2>1. (IF row.attempts = 0 THEN 0 ELSE row.attempts - 1) \in Nat
    BY DEF MailRow
  <2>2. QED
    BY <2>1 DEF SameMail, MailRow, PutBackRow
<1>2. SameMail(Rejected(row), row)
  BY DEF SameMail, MailRow, Rejected
<1>3. SameMail(RetryOrFail(row, tries), row)
  <2>1. (IF tries > MaxRetries THEN "failed" ELSE "queued") \in {"queued", "failed"}
    OBVIOUS
  <2>2. QED
    BY <2>1 DEF SameMail, MailRow, RetryOrFail
<1>4. SameMail(GoneOut(row), row)
  <2>1. (IF row.anon \/ row.out = "late" THEN "late" ELSE "yes") \in {"yes", "late"}
    OBVIOUS
  <2>2. QED
    BY <2>1 DEF SameMail, MailRow, GoneOut
<1>5. SameMail([row EXCEPT !.status = "sent"], row)
  BY DEF SameMail, MailRow
<1>6. SameMail([row EXCEPT !.status = "failed", !.swept = TRUE], row)
  BY DEF SameMail, MailRow
<1>7. SameMail([row EXCEPT !.status = "queued", !.attempts = 0, !.swept = FALSE], row)
  BY DEF SameMail, MailRow
<1>8. SameMail([row EXCEPT !.status = "sending", !.attempts = @ + 1], row)
  <2>1. row.attempts + 1 \in Nat
    BY DEF MailRow
  <2>2. QED
    BY <2>1 DEF SameMail, MailRow
<1>9. QED
  BY <1>1, <1>2, <1>3, <1>4, <1>5, <1>6, <1>7, <1>8

LEMMA UpdateRow ==
  ASSUME Columns, NEW r \in 1 .. nMail, NEW new, SameMail(new, mail[r]), nMail' = nMail, mail' = [mail EXCEPT ![r] = new]
  PROVE  mail' \in [MailIds -> MailRow] /\ RowsKept
<1>1. r \in MailIds /\ nMail \in Nat
  BY Numbers DEF Columns, MailIds
<1>2. mail' \in [MailIds -> MailRow]
  BY <1>1 DEF Columns, SameMail
<1>3. \A q \in 1 .. nMail : q \in MailIds
  BY Numbers DEF Columns, MailIds
<1>4. RowsKept
  BY <1>1, <1>3 DEF Columns, RowsKept, SameMail
<1>5. QED
  BY <1>2, <1>4

LEMMA EnqueueRow ==
  ASSUME Columns, RowsNamed, NEW kind \in {"invoice", "reminder"}, NEW i \in Invoices,
         NEW level \in 0 .. 3, kind = "reminder" => level \in Levels, Enqueue(kind, i, level)
  PROVE  /\ mail' \in [MailIds -> MailRow] /\ RowsKept /\ nMail' \in 0 .. MaxMails
         /\ RowsNamed'
         /\ nMail' = nMail + 1 /\ \A r \in 1 .. nMail : mail'[r] = mail[r]
         /\ mail'[nMail + 1].status = "queued" /\ mail'[nMail + 1].attempts = 0
<1> DEFINE new == [NoMail EXCEPT !.kind = kind, !.inv = i, !.level = level, !.status = "queued"]
<1>1. /\ new \in MailRow /\ new.inv = i /\ new.status = "queued" /\ new.attempts = 0
      /\ new.kind = kind /\ new.level = level
  BY DEF NoMail, MailRow
<1>2. nMail + 1 \in MailIds /\ nMail' \in 0 .. MaxMails /\ nMail \in Nat
  BY Numbers DEF Columns, MailIds, Enqueue
<1>3. mail' = [mail EXCEPT ![nMail + 1] = new] /\ nMail' = nMail + 1
  BY DEF Enqueue
<1> HIDE DEF new
<1>4. \A r \in 1 .. nMail : r \in MailIds /\ mail'[r] = mail[r]
  BY <1>2, <1>3, Numbers DEF Columns, MailIds
<1>5. mail' \in [MailIds -> MailRow]
  BY <1>1, <1>2, <1>3 DEF Columns
<1>6. mail'[nMail + 1] = new
  BY <1>2, <1>3 DEF Columns
<1>7. RowsKept
  BY <1>2, <1>3, <1>4 DEF RowsKept
<1>8. RowsNamed'
  <2>1. \A r \in 1 .. nMail' : r = nMail + 1 \/ r \in 1 .. nMail
    BY <1>2, <1>3
  <2>2. QED
    BY <2>1, <1>1, <1>4, <1>6 DEF RowsNamed
<1>9. QED
  BY <1>1, <1>2, <1>3, <1>4, <1>5, <1>6, <1>7, <1>8

\* A row in the hands of a loop is a row of the table.
LEMMA RowInHand ==
  ASSUME Struct, NEW w \in Workers
  PROVE  /\ InHand(w) \subseteq 1 .. nMail
         /\ \A e \in worker[w].batch : e \in Claims /\ e.row \in 1 .. nMail /\ mail[e.row] \in MailRow
         /\ Handling(worker[w]) => /\ worker[w].cur.row \in 1 .. nMail
                           /\ mail[worker[w].cur.row] \in MailRow
<1>1. worker[w] \in Loop /\ HandOf(worker[w])
  BY DEF Struct, Columns
<1>2. \A r \in 1 .. nMail : r \in MailIds /\ mail[r] \in MailRow
  BY Numbers DEF Struct, Columns, MailIds
<1>3. \A e \in worker[w].batch : e \in Claims /\ e.row \in 1 .. nMail
  BY <1>1 DEF Loop, HandOf
<1>4. Handling(worker[w]) => worker[w].cur.row \in 1 .. nMail
  BY <1>1 DEF HandOf
<1>5. ~Handling(worker[w]) => worker[w].cur.row = 0
  BY <1>1 DEF HandOf, NoClaim
<1>6. InHand(w) \subseteq 1 .. nMail
  BY <1>3, <1>4, <1>5 DEF InHand
<1>7. QED
  BY <1>2, <1>3, <1>4, <1>6

LEMMA SameRows ==
  ASSUME Columns, UNCHANGED mailVars
  PROVE  mail' \in [MailIds -> MailRow] /\ RowsKept /\ nMail' \in 0 .. MaxMails
BY DEF Columns, RowsKept

LEMMA NextLevelType == ASSUME Columns, NEW i \in Invoices PROVE NextLevel(i) \in Levels
<1>1. Len(booked[i]) \in Nat
  BY DEF Columns
<1>2. QED
  BY <1>1 DEF NextLevel, Smaller, Levels

RowsOK == mail' \in [MailIds -> MailRow] /\ RowsKept /\ nMail' \in 0 .. MaxMails

LEMMA RowsStep == Struct /\ Next => RowsOK
<1> SUFFICES ASSUME Struct, Next PROVE RowsOK
    OBVIOUS
<1>1. Columns /\ RowsNamed /\ (\A c \in Clerks : RequestOf(clerk[c])) /\ nMail \in 0 .. MaxMails
  BY DEF Struct, Columns
<1>2. CASE UNCHANGED mailVars
  BY <1>1, <1>2, SameRows DEF RowsOK
<1> DEFINE Becomes(r, new) == mail' = [mail EXCEPT ![r] = new] /\ nMail' = nMail
<1>a. ASSUME NEW r \in 1 .. nMail, NEW new, SameMail(new, mail[r]), Becomes(r, new) PROVE RowsOK
  BY <1>1, <1>a, UpdateRow DEF RowsOK
<1>b. \A r \in 1 .. nMail : r \in MailIds /\ mail[r] \in MailRow
  BY <1>1, Numbers DEF Columns, MailIds
<1>c. \A r \in MailIds : mail[r] \in MailRow
  BY <1>1 DEF Columns
<1>3. ASSUME NEW i \in Invoices, Anonymize(i) PROVE RowsOK
  <2> DEFINE new(r) == [mail[r] EXCEPT !.anon = TRUE,
                       !.status = IF @ \in {"queued", "sending"} THEN "failed" ELSE @]
  <2>2. \A r \in MailIds : /\ new(r) \in MailRow /\ new(r).kind = mail[r].kind
                           /\ new(r).inv = mail[r].inv
                           /\ new(r).level = mail[r].level /\ new(r).anon
    BY <1>c DEF MailRow
  <2>1. nMail' = nMail /\ mail' = [r \in MailIds |->
          IF r > nMail \/ mail[r].inv # i THEN mail[r] ELSE new(r)]
    BY <1>3 DEF Anonymize
  <2> HIDE DEF new
  <2>3. mail' \in [MailIds -> MailRow]
    BY <2>1, <2>2, <1>c
  <2>4. \A r \in MailIds : mail'[r] = mail[r] \/ mail'[r] = new(r)
    BY <2>1
  <2>5. RowsKept
    BY <1>1, <1>b, <2>1, <2>2, <2>4 DEF RowsKept
  <2>6. QED
    BY <1>1, <2>1, <2>3, <2>5 DEF RowsOK
<1>4. ASSUME NEW c \in Clerks, QueueInvoiceMail(c) PROVE RowsOK
  <2>1. clerk[c].inv \in Invoices /\ Enqueue("invoice", clerk[c].inv, 0)
    BY <1>1, <1>4 DEF QueueInvoiceMail, RequestOf
  <2>2. QED
    BY <1>1, <2>1, EnqueueRow DEF RowsOK
<1>5. ASSUME NEW c \in Clerks, RequeueFailed(c) PROVE RowsOK
  <2> DEFINE r == clerk[c].row
             new == [mail[r] EXCEPT !.status = "queued", !.attempts = 0, !.swept = FALSE]
  <2>1. r \in 1 .. nMail
    BY <1>1, <1>5 DEF RequeueFailed, RequestOf
  <2>2. SameMail(new, mail[r])
    BY <1>b, <2>1, RowOps
  <2>3. Becomes(r, new)
    BY <1>b, <1>5, <2>1 DEF RequeueFailed
  <2> HIDE DEF r, new
  <2>4. QED
    BY <1>a, <2>1, <2>2, <2>3
<1>6. ASSUME NEW w \in Workers, NEW d \in worker[w].due, QueueReminder(w, d) PROVE RowsOK
  <2>1. d[1] \in Invoices /\ d[2] \in 0 .. 3 /\ d[2] \in Levels
    BY <1>1 DEF Columns, Loop, Levels
  <2>2. CASE UNCHANGED mailVars
    BY <1>1, <2>2, SameRows DEF RowsOK
  <2>3. CASE Enqueue("reminder", d[1], d[2])
    BY <1>1, <2>1, <2>3, EnqueueRow DEF RowsOK
  <2>4. QED
    BY <1>6, <2>2, <2>3 DEF QueueReminder
<1>7. ASSUME NEW w \in Workers, NEW r \in MailIds, MarkInterrupted(w, r) PROVE RowsOK
  <2> DEFINE new == [mail[r] EXCEPT !.status = "failed", !.swept = TRUE]
  <2>1. r \in 1 .. nMail
    BY <1>1, <1>7 DEF MarkInterrupted, MailIds
  <2>2. SameMail(new, mail[r])
    BY <1>b, <2>1, RowOps
  <2>3. Becomes(r, new)
    BY <1>b, <1>7, <2>1 DEF MarkInterrupted
  <2> HIDE DEF new
  <2>4. QED
    BY <1>a, <2>1, <2>2, <2>3
<1>8. ASSUME NEW w \in Workers, NEW rows \in SUBSET MailIds, Claim(w, rows) PROVE RowsOK
  <2> DEFINE new(r) == [mail[r] EXCEPT !.status = "sending", !.attempts = @ + 1]
  <2>2. \A r \in MailIds : SameMail(new(r), mail[r])
    BY <1>c, RowOps
  <2>1. nMail' = nMail /\ mail' = [r \in MailIds |-> IF r \in rows THEN new(r) ELSE mail[r]]
    BY <1>8 DEF Claim
  <2> HIDE DEF new
  <2>3. mail' \in [MailIds -> MailRow]
    BY <1>c, <2>1, <2>2 DEF SameMail
  <2>4. \A r \in MailIds : mail'[r] = mail[r] \/ mail'[r] = new(r)
    BY <2>1
  <2>5. RowsKept
    BY <1>1, <1>b, <2>1, <2>2, <2>4 DEF RowsKept, SameMail
  <2>6. QED
    BY <1>1, <2>1, <2>3, <2>5 DEF RowsOK
<1>9. ASSUME NEW w \in Workers, NEW e \in worker[w].batch, PutBack(w, e) \/ OpenInvoice(w, e) PROVE RowsOK
  <2>1. e.row \in 1 .. nMail /\ mail[e.row] \in MailRow
    BY RowInHand
  <2>2. SameMail(PutBackRow(mail[e.row]), mail[e.row]) /\ SameMail(Rejected(mail[e.row]), mail[e.row])
    BY <2>1, RowOps
  <2>3. CASE PutBack(w, e)
    <3>1. Becomes(e.row, PutBackRow(mail[e.row]))
      BY <1>b, <2>1, <2>3 DEF PutBack
    <3>2. QED
      BY <1>a, <2>1, <2>2, <3>1
  <2>4. CASE OpenInvoice(w, e)
    <3>1. Becomes(e.row, Rejected(mail[e.row])) \/ UNCHANGED mailVars
      BY <1>b, <2>1, <2>4 DEF OpenInvoice
    <3>2. QED
      BY <1>a, <1>2, <2>1, <2>2, <3>1
  <2>5. QED
    BY <1>9, <2>3, <2>4
<1>10. ASSUME NEW w \in Workers,
              RejectReminder(w) \/ TransmitFails(w) \/ MarkSent(w) \/ MarkSentOnly(w) PROVE RowsOK
  <2> DEFINE r == worker[w].cur.row
             t == worker[w].cur.tries
             sent == [mail[r] EXCEPT !.status = "sent"]
  <2>1. r \in 1 .. nMail /\ mail[r] \in MailRow
    BY <1>10, RowInHand DEF Handling, RejectReminder, TransmitFails, MarkSent, MarkSentOnly
  <2>2. SameMail(Rejected(mail[r]), mail[r]) /\ SameMail(RetryOrFail(mail[r], t), mail[r])
        /\ SameMail(sent, mail[r])
    BY <2>1, RowOps
  <2>3. Becomes(r, Rejected(mail[r])) \/ Becomes(r, RetryOrFail(mail[r], t)) \/ Becomes(r, sent)
    <3>1. CASE RejectReminder(w)
      BY <1>b, <2>1, <3>1 DEF RejectReminder
    <3>2. CASE TransmitFails(w)
      BY <1>b, <2>1, <3>2 DEF TransmitFails
    <3>3. CASE MarkSent(w) \/ MarkSentOnly(w)
      BY <1>b, <2>1, <3>3 DEF MarkSent, MarkSentOnly
    <3>4. QED
      BY <1>10, <3>1, <3>2, <3>3
  <2> HIDE DEF r, t, sent
  <2>4. QED
    BY <1>a, <2>1, <2>2, <2>3
<1>11. ASSUME NEW w \in Workers, Transmit(w) PROVE RowsOK
  <2> DEFINE r == worker[w].cur.row
             t == worker[w].cur.tries
  <2>1. r \in 1 .. nMail /\ mail[r] \in MailRow
    BY <1>11, RowInHand DEF Handling, Transmit
  <2>2. SameMail(GoneOut(mail[r]), mail[r])
    BY <2>1, RowOps
  <2>3. SameMail(RetryOrFail(GoneOut(mail[r]), t), mail[r])
    <3>1. GoneOut(mail[r]) \in MailRow
      BY <2>2 DEF SameMail
    <3>2. SameMail(RetryOrFail(GoneOut(mail[r]), t), GoneOut(mail[r]))
      BY <3>1, RowOps
    <3>3. QED
      BY <2>2, <3>2 DEF SameMail
  <2>4. Becomes(r, GoneOut(mail[r])) \/ Becomes(r, RetryOrFail(GoneOut(mail[r]), t))
    BY <1>b, <2>1, <1>11 DEF Transmit
  <2> HIDE DEF r, t
  <2>5. QED
    BY <1>a, <2>1, <2>2, <2>3, <2>4
<1>12. QED
  <2>1. ASSUME InvoiceNext PROVE RowsOK
    BY <1>2, <1>3, <2>1 DEF InvoiceNext, Pay, ReversePayment, CancelInvoice, DunningDaysPass
  <2>2. ASSUME NEW c \in Clerks, ClerkNext(c) PROVE RowsOK
    BY <1>2, <1>4, <1>5, <2>2
       DEF ClerkNext, Begin, BeginReminder, BeginInvoiceMail, BeginRetry, TakeReminderLock,
           RefusePending, PendingUnknown, PassPending, SendReminder, BookReminder, GiveUp
  <2>3. ASSUME NEW w \in Workers, WorkerNext(w) PROVE RowsOK
    BY <1>2, <1>6, <1>7, <1>8, <1>9, <1>10, <1>11, <2>3
       DEF WorkerNext, Carry, Deliver, ReadDue, LockReminder, CheckDue, Interrupt
  <2>4. ASSUME NEW k \in Conns, RecycleConn(k) PROVE RowsOK
    BY <1>2, <2>4 DEF RecycleConn
  <2>5. QED
    BY <2>1, <2>2, <2>3, <2>4 DEF Next

-----------------------------------------------------------------------------
(* Loops and requests.                                                       *)

LEMMA HandKept ==
  ASSUME Columns, RowsOK, NEW w, NEW l, HandOf(l), worker'[w] = l
  PROVE  HandOf(worker[w])'
<1>1. \A r \in 1 .. nMail : r \in 1 .. nMail' /\ mail'[r].kind = mail[r].kind
  <2>1. \A r \in 1 .. nMail : r \in 1 .. nMail'
    BY Numbers DEF Columns, RowsKept, RowsOK
  <2>2. QED
    BY <2>1 DEF RowsKept, RowsOK
<1>2. QED
  BY <1>1 DEF HandOf, Handling

LEMMA RequestKept ==
  ASSUME Columns, RowsOK, NEW c, NEW q, RequestOf(q), clerk'[c] = q
  PROVE  RequestOf(clerk[c])'
<1>1. \A r \in 1 .. nMail : r \in 1 .. nMail'
  BY Numbers DEF Columns, RowsKept, RowsOK
<1>2. QED
  BY <1>1 DEF RequestOf

LoopsOK == worker' \in [Workers -> Loop] /\ \A w \in Workers : HandOf(worker[w])'

LEMMA LoopChanges ==
  ASSUME Struct, RowsOK, NEW w \in Workers, NEW l \in Loop, HandOf(l), worker' = [worker EXCEPT ![w] = l]
  PROVE  LoopsOK
<1>1. worker' \in [Workers -> Loop]
  BY DEF Struct, Columns
<1>2. ASSUME NEW v \in Workers PROVE HandOf(worker[v])'
  <2>1. worker'[v] = IF v = w THEN l ELSE worker[v]
    BY DEF Struct, Columns
  <2>2. Columns /\ RowsOK /\ HandOf(worker[v])
    BY DEF Struct
  <2>3. QED
    BY <2>1, <2>2, HandKept
<1>3. QED
  BY <1>1, <1>2 DEF LoopsOK

LEMMA LoopsKept ==
  ASSUME Struct, RowsOK, worker' = worker
  PROVE  LoopsOK
BY HandKept DEF LoopsOK, Struct, Columns

RequestsOK == /\ clerk' \in [Clerks -> Request] /\ \A c \in Clerks : RequestOf(clerk[c])'
              /\ requests' \in 0 .. MaxRequests

LEMMA RequestChanges ==
  ASSUME Struct, RowsOK, NEW c \in Clerks, NEW q \in Request, RequestOf(q), clerk' = [clerk EXCEPT ![c] = q],
         requests' \in 0 .. MaxRequests
  PROVE  RequestsOK
<1>1. clerk' \in [Clerks -> Request]
  BY DEF Struct, Columns
<1>2. ASSUME NEW d \in Clerks PROVE RequestOf(clerk[d])'
  <2>1. clerk'[d] = IF d = c THEN q ELSE clerk[d]
    BY DEF Struct, Columns
  <2>2. Columns /\ RowsOK /\ RequestOf(clerk[d])
    BY DEF Struct
  <2>3. QED
    BY <2>1, <2>2, RequestKept
<1>3. QED
  BY <1>1, <1>2 DEF RequestsOK

LEMMA RequestsKept ==
  ASSUME Struct, RowsOK, UNCHANGED clerkVars
  PROVE  RequestsOK
BY RequestKept DEF RequestsOK, Struct, Columns

LEMMA RestingOK == Resting \in Loop /\ HandOf(Resting)
BY DEF Resting, Loop, HandOf, Handling, NoClaim

\* What is left of a batch.
LEMMA Lighter ==
  ASSUME NEW l \in Loop, HandOf(l), NEW e \in l.batch, l.pc = "batch"
  PROVE  /\ HandOf([l EXCEPT !.batch = @ \ {e}, !.pc = IF @ = "batch" /\ l.batch = {e} THEN "idle" ELSE @])
         /\ [l EXCEPT !.batch = @ \ {e}, !.pc = IF @ = "batch" /\ l.batch = {e} THEN "idle" ELSE @] \in Loop
<1> DEFINE pc == IF l.pc = "batch" /\ l.batch = {e} THEN "idle" ELSE l.pc
           m == [l EXCEPT !.batch = @ \ {e}, !.pc = pc]
<1>1. pc \in {"batch", "idle"} /\ (pc = "idle" => l.batch \ {e} = {})
  OBVIOUS
<1> HIDE DEF pc
<1>2. m \in Loop /\ m.batch = l.batch \ {e} /\ m.pc = pc /\ m.cur = l.cur /\ m.conn = l.conn
  BY <1>1 DEF Loop
<1> HIDE DEF m
<1>3. HandOf(m)
  BY <1>1, <1>2 DEF HandOf, Handling
<1>4. QED
  BY <1>2, <1>3 DEF m, pc

LEMMA Taken ==
  ASSUME NEW l \in Loop, HandOf(l), NEW e \in l.batch, NEW pc \in {"check", "smtp"}, NEW k \in Conns \cup {NoOne},
         pc = "check" => mail[e.row].kind = "reminder",
         mail[e.row].kind = "reminder" <=> k # NoOne
  PROVE  /\ HandOf([l EXCEPT !.pc = pc, !.cur = e, !.conn = k, !.batch = @ \ {e}])
         /\ [l EXCEPT !.pc = pc, !.cur = e, !.conn = k, !.batch = @ \ {e}] \in Loop
<1> DEFINE m == [l EXCEPT !.pc = pc, !.cur = e, !.conn = k, !.batch = @ \ {e}]
<1>1. /\ m \in Loop /\ m.batch = l.batch \ {e} /\ m.pc = pc /\ m.cur = e /\ m.conn = k
      /\ e \in Claims
  BY DEF Loop
<1> HIDE DEF m
<1>2. HandOf(m)
  BY <1>1 DEF HandOf, Handling
<1>3. QED
  BY <1>1, <1>2 DEF m

LEMMA Done ==
  ASSUME NEW l \in Loop, HandOf(l)
  PROVE  LET m == [Resting EXCEPT !.pc = IF l.batch = {} THEN "idle" ELSE "batch", !.batch = l.batch]
         IN m \in Loop /\ HandOf(m)
<1> DEFINE pc == IF l.batch = {} THEN "idle" ELSE "batch"
           m == [Resting EXCEPT !.pc = pc, !.batch = l.batch]
<1>1. pc \in {"batch", "idle"} /\ (pc = "idle" => l.batch = {})
  OBVIOUS
<1> HIDE DEF pc
<1>2. /\ m \in Loop /\ m.batch = l.batch /\ m.pc = pc /\ m.cur = NoClaim /\ m.conn = NoOne
  BY <1>1 DEF Loop, Resting
<1>3. \A e \in l.batch : e.row \in 1 .. nMail /\ e.row # 0
  BY DEF HandOf
<1> HIDE DEF m
<1>4. HandOf(m)
  BY <1>1, <1>2, <1>3 DEF HandOf, Handling, NoClaim
<1>5. QED
  BY <1>2, <1>4 DEF m, pc

LEMMA LoopsStep == Struct /\ Next => LoopsOK
<1> SUFFICES ASSUME Struct, Next PROVE LoopsOK
    OBVIOUS
<1>1. RowsOK
  BY RowsStep
<1>2. CASE worker' = worker
  BY <1>1, <1>2, LoopsKept
<1>3. ASSUME NEW w \in Workers, WorkerNext(w) PROVE LoopsOK
  <2> DEFINE l == worker[w]
             Turns(m) == worker' = [worker EXCEPT ![w] = m]
  <2>1. l \in Loop /\ HandOf(l) /\ worker \in [Workers -> Loop]
    BY DEF Struct, Columns
  <2>2. ASSUME NEW m \in Loop, HandOf(m), Turns(m) PROVE LoopsOK
    BY <1>1, <2>2, LoopChanges
  <2>3. CASE ReadDue(w)
    <3> DEFINE due == { i \in Invoices : /\ invoice[i] = "open" /\ i \notin anonymized
                                         /\ i \in waited /\ Len(booked[i]) < 3 /\ ~Pending(i) }
               pairs == { <<i, NextLevel(i)>> : i \in due }
               m == [l EXCEPT !.pc = "dunning", !.due = pairs]
    <3>1. pairs \in SUBSET (Invoices \X Levels)
      BY NextLevelType DEF Struct
    <3>2. Turns(m) /\ l.pc = "idle"
      BY <2>1, <2>3 DEF ReadDue
    <3> HIDE DEF pairs
    <3>3. m \in Loop /\ m.pc = "dunning" /\ m.batch = l.batch /\ m.cur = l.cur /\ m.conn = l.conn
      BY <2>1, <3>1 DEF Loop
    <3>4. HandOf(m)
      BY <2>1, <3>2, <3>3 DEF HandOf, Handling
    <3>5. QED
      BY <2>2, <3>2, <3>3, <3>4
  <2>4. ASSUME NEW d \in l.due, QueueReminder(w, d) PROVE LoopsOK
    <3> DEFINE rest == l.due \ {d}
               pc == IF rest = {} THEN "idle" ELSE "dunning"
               m == [l EXCEPT !.due = rest, !.pc = pc]
    <3>1. rest \in SUBSET (Invoices \X Levels) /\ pc \in {"idle", "dunning"}
      BY <2>1 DEF Loop
    <3>2. Turns(m) /\ l.pc = "dunning"
      BY <2>1, <2>4 DEF QueueReminder
    <3> HIDE DEF rest, pc
    <3>3. m \in Loop /\ m.pc = pc /\ m.batch = l.batch /\ m.cur = l.cur /\ m.conn = l.conn
      BY <2>1, <3>1 DEF Loop
    <3>4. HandOf(m)
      BY <2>1, <3>1, <3>2, <3>3 DEF HandOf, Handling
    <3>5. QED
      BY <2>2, <3>2, <3>3, <3>4
  <2>5. ASSUME NEW r \in MailIds, MarkInterrupted(w, r) PROVE LoopsOK
    BY <1>2, <2>5 DEF MarkInterrupted
  <2>6. ASSUME NEW rows \in SUBSET MailIds, Claim(w, rows) PROVE LoopsOK
    <3> DEFINE claims == { [row |-> r, tries |-> mail[r].attempts + 1, real |-> ~mail[r].anon] : r \in rows }
               m == [l EXCEPT !.pc = "batch", !.batch = claims]
    <3>1. \A r \in rows : r \in 1 .. nMail /\ r \in MailIds /\ mail[r].attempts + 1 \in Nat
      <4>1. rows \subseteq Queued
        BY <2>6 DEF Claim
      <4>2. \A r \in MailIds : mail[r].attempts \in Nat
        BY DEF Struct, Columns, MailRow
      <4>3. QED
        BY <4>1, <4>2 DEF Queued
    <3>2. claims \in SUBSET Claims
      <4>1. \A r \in rows : (~mail[r].anon) \in BOOLEAN
        OBVIOUS
      <4>2. \A r \in rows : [row |-> r, tries |-> mail[r].attempts + 1, real |-> ~mail[r].anon] \in Claims
        BY <3>1, <4>1 DEF Claims
      <4>3. QED
        BY <4>2
    <3>3. \A e \in claims : e.row \in rows
      OBVIOUS
    <3>4. \A e, f \in claims : e.row = f.row => e = f
      <4>1. ASSUME NEW e \in claims PROVE e = [row |-> e.row, tries |-> mail[e.row].attempts + 1,
                                               real |-> ~mail[e.row].anon]
        OBVIOUS
      <4>2. QED
        BY <4>1
    <3>5. Turns(m) /\ l.pc = "idle"
      BY <2>1, <2>6 DEF Claim
    <3> HIDE DEF claims
    <3>6. m \in Loop /\ m.pc = "batch" /\ m.batch = claims /\ m.cur = l.cur /\ m.conn = l.conn
      BY <2>1, <3>2 DEF Loop
    <3>7. l.cur.row = 0 /\ l.cur = NoClaim /\ l.conn = NoOne
      BY <2>1, <3>5 DEF HandOf, Handling, NoClaim
    <3>8. HandOf(m)
      BY <3>1, <3>3, <3>4, <3>6, <3>7 DEF HandOf, Handling
    <3>9. QED
      BY <2>2, <3>5, <3>6, <3>8
  <2>7. ASSUME NEW e \in l.batch, l.pc = "batch", Drop(w, e) PROVE LoopsOK
    <3> DEFINE m == [l EXCEPT !.batch = @ \ {e}, !.pc = IF @ = "batch" /\ l.batch = {e} THEN "idle" ELSE @]
    <3>1. m \in Loop /\ HandOf(m)
      BY <2>1, <2>7, Lighter
    <3>2. Turns(m)
      BY <2>1, <2>7 DEF Drop
    <3>3. QED
      BY <2>2, <3>1, <3>2
  <2>8. ASSUME NEW e \in l.batch, NEW pc \in {"check", "smtp"}, NEW k \in Conns \cup {NoOne},
               pc = "check" => mail[e.row].kind = "reminder", mail[e.row].kind = "reminder" <=> k # NoOne,
               InHands(w, e, pc, k)
        PROVE LoopsOK
    <3> DEFINE m == [l EXCEPT !.pc = pc, !.cur = e, !.conn = k, !.batch = @ \ {e}]
    <3>1. m \in Loop /\ HandOf(m)
      BY <2>1, <2>8, Taken
    <3>2. Turns(m)
      BY <2>1, <2>8 DEF InHands
    <3>3. QED
      BY <2>2, <3>1, <3>2
  <2>9. ASSUME NEW e \in l.batch, Deliver(w, e) PROVE LoopsOK
    <3>1. CASE PutBack(w, e)
      BY <2>7, <3>1 DEF PutBack
    <3>2. CASE OpenInvoice(w, e)
      <4>1. Drop(w, e) \/ InHands(w, e, "smtp", NoOne)
        BY <3>2 DEF OpenInvoice
      <4>2. l.pc = "batch" /\ mail[e.row].kind = "invoice"
        BY <3>2 DEF OpenInvoice
      <4>3. QED
        BY <2>7, <2>8, <4>1, <4>2
    <3>3. ASSUME NEW k \in Conns, LockReminder(w, e, k) PROVE LoopsOK
      BY <2>8, <3>3, Numbers DEF LockReminder
    <3>4. QED
      BY <2>9, <3>1, <3>2, <3>3 DEF Deliver
  <2>10. ASSUME Proceed(w) PROVE LoopsOK
    <3> DEFINE m == [Resting EXCEPT !.pc = IF l.batch = {} THEN "idle" ELSE "batch", !.batch = l.batch]
    <3>1. m \in Loop /\ HandOf(m)
      BY <2>1, Done
    <3>2. Turns(m)
      BY <2>10 DEF Proceed
    <3>3. QED
      BY <2>2, <3>1, <3>2
  <2>11. ASSUME NEW pc \in {"smtp", "sent"}, Handling(l), worker' = [worker EXCEPT ![w].pc = pc] PROVE LoopsOK
    <3> DEFINE m == [l EXCEPT !.pc = pc]
    <3>1. m \in Loop /\ m.pc = pc /\ m.batch = l.batch /\ m.cur = l.cur /\ m.conn = l.conn
      BY <2>1 DEF Loop
    <3>2. HandOf(m)
      BY <2>1, <2>11, <3>1 DEF HandOf, Handling
    <3>3. Turns(m)
      BY <2>1, <2>11
    <3>4. QED
      BY <2>2, <3>1, <3>2, <3>3
  <2>12. ASSUME Carry(w) PROVE LoopsOK
    <3>1. CASE CheckDue(w)
      BY <2>11, <3>1 DEF CheckDue, Handling
    <3>2. CASE Transmit(w)
      BY <2>10, <2>11, <3>2 DEF Transmit, Handling
    <3>3. CASE RejectReminder(w) \/ TransmitFails(w) \/ MarkSent(w) \/ MarkSentOnly(w)
      BY <2>10, <3>3 DEF RejectReminder, TransmitFails, MarkSent, MarkSentOnly
    <3>4. QED
      BY <2>12, <3>1, <3>2, <3>3 DEF Carry
  <2>13. ASSUME Interrupt(w) PROVE LoopsOK
    BY <2>2, <2>13, RestingOK DEF Interrupt
  <2>14. QED
    BY <1>3, <2>3, <2>4, <2>5, <2>6, <2>9, <2>12, <2>13 DEF WorkerNext
<1>4. QED
  <2>1. ASSUME InvoiceNext PROVE worker' = worker
    BY <2>1 DEF InvoiceNext, Pay, ReversePayment, CancelInvoice, DunningDaysPass, Anonymize
  <2>2. ASSUME NEW c \in Clerks, ClerkNext(c) PROVE worker' = worker
    BY <2>2
       DEF ClerkNext, Begin, BeginReminder, BeginInvoiceMail, BeginRetry, TakeReminderLock,
           RefusePending, PendingUnknown, PassPending, SendReminder, BookReminder, GiveUp,
           QueueInvoiceMail, RequeueFailed
  <2>3. ASSUME NEW k \in Conns, RecycleConn(k) PROVE worker' = worker
    BY <2>3 DEF RecycleConn
  <2>4. QED
    BY <1>2, <1>3, <2>1, <2>2, <2>3 DEF Next

LEMMA NoRequestOK == NoRequest \in Request /\ RequestOf(NoRequest)
BY DEF NoRequest, Request, RequestOf

LEMMA RequestsStep == Struct /\ Next => RequestsOK
<1> SUFFICES ASSUME Struct, Next PROVE RequestsOK
    OBVIOUS
<1>1. RowsOK
  BY RowsStep
<1>2. CASE UNCHANGED clerkVars
  BY <1>1, <1>2, RequestsKept
<1>3. ASSUME NEW c \in Clerks, ClerkNext(c) PROVE RequestsOK
  <2> DEFINE q == clerk[c]
             Turns(m) == clerk' = [clerk EXCEPT ![c] = m]
  <2>1. q \in Request /\ RequestOf(q) /\ clerk \in [Clerks -> Request] /\ requests \in 0 .. MaxRequests
    BY DEF Struct, Columns
  <2>2. ASSUME NEW m \in Request, RequestOf(m), Turns(m), requests' \in 0 .. MaxRequests PROVE RequestsOK
    BY <1>1, <2>2, RequestChanges
  <2>3. ASSUME Answer(c), requests' = requests PROVE RequestsOK
    BY <2>1, <2>2, <2>3, NoRequestOK DEF Answer
  <2>4. ASSUME NEW m \in Request, RequestOf(m), Begin(c, m) PROVE RequestsOK
    <3>1. requests' \in 0 .. MaxRequests
      BY <2>1, <2>4, Numbers DEF Begin
    <3>2. QED
      BY <2>2, <2>4, <3>1 DEF Begin
  <2>5. ASSUME NEW i \in Invoices, BeginReminder(c, i) \/ BeginInvoiceMail(c, i) PROVE RequestsOK
    <3> DEFINE m(pc) == [NoRequest EXCEPT !.pc = pc, !.inv = i]
    <3>1. ASSUME NEW pc \in {"lock", "compose"} PROVE m(pc) \in Request /\ RequestOf(m(pc))
      <4>1. m(pc) \in Request
        BY NoRequestOK DEF Request
      <4>2. m(pc).pc = pc /\ m(pc).inv = i /\ m(pc).conn = NoOne
        BY DEF NoRequest
      <4> HIDE DEF m
      <4>3. RequestOf(m(pc))
        BY <4>2 DEF RequestOf
      <4>4. QED
        BY <4>1, <4>3
    <3>2. Begin(c, m("lock")) \/ Begin(c, m("compose"))
      BY <2>5 DEF BeginReminder, BeginInvoiceMail
    <3> HIDE DEF m
    <3>3. QED
      BY <2>4, <3>1, <3>2
  <2>6. ASSUME NEW r \in MailIds, BeginRetry(c, r) PROVE RequestsOK
    <3> DEFINE m == [NoRequest EXCEPT !.pc = "retry", !.row = r]
    <3>1. m \in Request /\ m.pc = "retry" /\ m.row = r /\ m.conn = NoOne
      <4>1. m \in Request
        BY NoRequestOK DEF Request
      <4>2. QED
        BY <4>1 DEF NoRequest
    <3>2. r \in 1 .. nMail
      BY <2>6 DEF BeginRetry, MailIds, Struct, Columns
    <3>3. Begin(c, m)
      BY <2>6 DEF BeginRetry
    <3> HIDE DEF m
    <3>4. RequestOf(m)
      BY <3>1, <3>2 DEF RequestOf
    <3>5. QED
      BY <2>4, <3>1, <3>3, <3>4
  <2>7. ASSUME NEW k \in Conns, TakeReminderLock(c, k) PROVE RequestsOK
    <3> DEFINE m == [q EXCEPT !.pc = "locked", !.conn = k]
    <3>1. m \in Request /\ m.pc = "locked" /\ m.conn = k /\ m.inv = q.inv
      BY <2>1 DEF Request
    <3>2. Turns(m) /\ q.pc = "lock" /\ requests' = requests
      BY <2>1, <2>7 DEF TakeReminderLock
    <3> HIDE DEF m
    <3>3. RequestOf(m)
      BY <2>1, <3>1, <3>2, Numbers DEF RequestOf
    <3>4. QED
      BY <2>1, <2>2, <3>1, <3>2, <3>3
  <2>8. CASE PassPending(c)
    <3> DEFINE m == [q EXCEPT !.pc = "guarded"]
    <3>1. m \in Request /\ m.pc = "guarded" /\ m.conn = q.conn /\ m.inv = q.inv
      BY <2>1 DEF Request
    <3>2. Turns(m) /\ q.pc = "locked" /\ requests' = requests
      BY <2>1, <2>8 DEF PassPending
    <3> HIDE DEF m
    <3>3. RequestOf(m)
      BY <2>1, <3>1, <3>2 DEF RequestOf
    <3>4. QED
      BY <2>1, <2>2, <3>1, <3>2, <3>3
  <2>9. CASE SendReminder(c)
    <3> DEFINE m == [q EXCEPT !.pc = "booking", !.level = NextLevel(q.inv)]
    <3>1. q.pc = "guarded" /\ requests' = requests
      BY <2>9 DEF SendReminder
    <3>2. q.inv \in Invoices /\ q.conn # NoOne
      BY <2>1, <3>1 DEF RequestOf
    <3>3. NextLevel(q.inv) \in Levels
      BY <3>2, NextLevelType DEF Struct
    <3>4. CASE Answer(c)
      BY <2>3, <3>1, <3>4
    <3>5. CASE Turns(m)
      <4>1. /\ m \in Request /\ m.pc = "booking" /\ m.conn = q.conn /\ m.inv = q.inv
            /\ m.level \in Levels
        <5>1. NextLevel(q.inv) \in 0 .. 3
          BY <3>3 DEF Levels
        <5>2. m \in Request
          BY <2>1, <5>1 DEF Request
        <5>3. m.pc = "booking" /\ m.conn = q.conn /\ m.inv = q.inv /\ m.level = NextLevel(q.inv)
          BY <2>1 DEF Request
        <5>4. QED
          BY <3>3, <5>2, <5>3
      <4> HIDE DEF m
      <4>2. RequestOf(m)
        BY <3>2, <4>1 DEF RequestOf
      <4>3. QED
        BY <2>1, <2>2, <3>1, <3>5, <4>1, <4>2
    <3>6. QED
      BY <2>1, <2>9, <3>4, <3>5 DEF SendReminder
  <2>10. CASE \/ RefusePending(c) \/ PendingUnknown(c) \/ BookReminder(c) \/ QueueInvoiceMail(c)
              \/ RequeueFailed(c) \/ GiveUp(c)
    BY <2>3, <2>10 DEF RefusePending, PendingUnknown, BookReminder, QueueInvoiceMail, RequeueFailed, GiveUp
  <2>11. QED
    BY <1>3, <2>5, <2>6, <2>7, <2>8, <2>9, <2>10 DEF ClerkNext
<1>4. QED
  <2>1. ASSUME InvoiceNext PROVE UNCHANGED clerkVars
    BY <2>1 DEF InvoiceNext, Pay, ReversePayment, CancelInvoice, DunningDaysPass, Anonymize
  <2>2. ASSUME NEW w \in Workers, WorkerNext(w) PROVE UNCHANGED clerkVars
    BY <2>2
       DEF WorkerNext, ReadDue, QueueReminder, MarkInterrupted, Claim, Deliver, PutBack, OpenInvoice,
           LockReminder, Carry, CheckDue, RejectReminder, Transmit, TransmitFails, MarkSent,
           MarkSentOnly, Interrupt
  <2>3. ASSUME NEW k \in Conns, RecycleConn(k) PROVE UNCHANGED clerkVars
    BY <2>3 DEF RecycleConn
  <2>4. QED
    BY <1>2, <1>3, <2>1, <2>2, <2>3 DEF Next

\* A row is added by Enqueue alone.
LEMMA RowsNamedStep == Struct /\ Next => RowsNamed'
<1> SUFFICES ASSUME Struct, Next PROVE RowsNamed'
    OBVIOUS
<1>1. RowsOK /\ RowsNamed /\ Columns
  BY RowsStep DEF Struct
<1>2. CASE nMail' = nMail
  BY <1>1, <1>2 DEF RowsOK, RowsKept, RowsNamed
<1>3. ASSUME NEW c \in Clerks, QueueInvoiceMail(c) PROVE RowsNamed'
  <2>1. clerk[c].inv \in Invoices /\ Enqueue("invoice", clerk[c].inv, 0)
    BY <1>3 DEF QueueInvoiceMail, RequestOf, Struct
  <2>2. QED
    BY <1>1, <2>1, EnqueueRow
<1>4. ASSUME NEW w \in Workers, NEW d \in worker[w].due, QueueReminder(w, d) PROVE RowsNamed'
  <2>1. d[1] \in Invoices /\ d[2] \in 0 .. 3 /\ d[2] \in Levels
    BY <1>1 DEF Columns, Loop, Levels
  <2>2. CASE Enqueue("reminder", d[1], d[2])
    BY <1>1, <2>1, <2>2, EnqueueRow
  <2>3. QED
    BY <1>2, <1>4, <2>2 DEF QueueReminder
<1>5. QED
  <2>1. ASSUME InvoiceNext PROVE nMail' = nMail
    BY <2>1 DEF InvoiceNext, Pay, ReversePayment, CancelInvoice, DunningDaysPass, Anonymize
  <2>2. ASSUME NEW c \in Clerks, ClerkNext(c) PROVE nMail' = nMail \/ QueueInvoiceMail(c)
    BY <2>2
       DEF ClerkNext, Begin, BeginReminder, BeginInvoiceMail, BeginRetry, TakeReminderLock,
           RefusePending, PendingUnknown, PassPending, SendReminder, BookReminder, GiveUp, RequeueFailed
  <2>3. ASSUME NEW w \in Workers, WorkerNext(w)
        PROVE  nMail' = nMail \/ \E d \in worker[w].due : QueueReminder(w, d)
    BY <2>3
       DEF WorkerNext, ReadDue, MarkInterrupted, Claim, Deliver, PutBack, OpenInvoice,
           LockReminder, Carry, CheckDue, RejectReminder, Transmit, TransmitFails, MarkSent,
           MarkSentOnly, Interrupt
  <2>4. ASSUME NEW k \in Conns, RecycleConn(k) PROVE nMail' = nMail
    BY <2>4 DEF RecycleConn
  <2>5. QED
    BY <1>2, <1>3, <1>4, <2>1, <2>2, <2>3, <2>4 DEF Next

-----------------------------------------------------------------------------
(* The other columns, and the whole structure.                               *)

LEMMA BookOK ==
  ASSUME Columns, NEW i \in Invoices, NEW level \in Levels, Book(i, level)
  PROVE  booked' \in [Invoices -> Seq(Levels)] /\ waited' \subseteq Invoices
<1>1. Append(booked[i], level) \in Seq(Levels)
  BY DEF Columns
<1>2. QED
  BY <1>1 DEF Columns, Book

LEMMA LeavesOK ==
  ASSUME Columns, NEW i \in Invoices, NEW level \in 0 .. 3, Leaves(i, level)
  PROVE  reached' \in [Invoices -> 0 .. 3]
<1>1. Larger(reached[i], level) \in 0 .. 3
  BY DEF Columns, Larger
<1>2. QED
  BY <1>1 DEF Columns, Leaves

OthersOK ==
    /\ invoice' \in [Invoices -> {"open", "paid", "canceled"}]
    /\ anonymized' \subseteq Invoices /\ waited' \subseteq Invoices
    /\ booked' \in [Invoices -> Seq(Levels)]
    /\ reached' \in [Invoices -> 0 .. 3]
    /\ leaked' \in [Conns -> SUBSET Invoices]

LEMMA OthersStep == Struct /\ Next => OthersOK
<1> SUFFICES ASSUME Struct, Next PROVE OthersOK
    OBVIOUS
<1> USE DEF OthersOK
<1>1. Columns /\ RowsNamed
  BY DEF Struct
<1>2. CASE UNCHANGED <<invoiceVars, ladderVars, leaked>>
  BY <1>1, <1>2 DEF Columns
<1>3. CASE InvoiceNext
  BY <1>1, <1>3
     DEF Columns, InvoiceNext, Pay, ReversePayment, CancelInvoice, DunningDaysPass, Anonymize
<1>4. ASSUME NEW c \in Clerks, ClerkNext(c) PROVE OthersOK
  <2>1. RequestOf(clerk[c]) /\ clerk[c] \in Request
    BY DEF Struct, Columns
  <2>2. CASE RefusePending(c) \/ PendingUnknown(c)
    <3>1. clerk[c].conn \in Conns /\ clerk[c].inv \in Invoices
      BY <2>1, <2>2 DEF RefusePending, PendingUnknown, RequestOf, Request
    <3>2. leaked[clerk[c].conn] \cup {clerk[c].inv} \in SUBSET Invoices
      BY <1>1, <3>1 DEF Columns
    <3>3. leaked' \in [Conns -> SUBSET Invoices]
      BY <1>1, <2>2, <3>1, <3>2 DEF Columns, RefusePending, PendingUnknown
    <3>4. QED
      BY <1>1, <2>2, <3>3 DEF Columns, RefusePending, PendingUnknown
  <2>3. CASE SendReminder(c)
    <3>1. clerk[c].inv \in Invoices
      BY <2>1, <2>3 DEF SendReminder, RequestOf
    <3>2. NextLevel(clerk[c].inv) \in 0 .. 3
      BY <1>1, <3>1, NextLevelType DEF Levels
    <3>3. Leaves(clerk[c].inv, NextLevel(clerk[c].inv))
      BY <2>3 DEF SendReminder
    <3>4. reached' \in [Invoices -> 0 .. 3]
      BY <1>1, <3>1, <3>2, <3>3, LeavesOK
    <3>5. QED
      BY <1>1, <2>3, <3>4 DEF Columns, SendReminder
  <2>4. CASE BookReminder(c)
    <3>1. clerk[c].inv \in Invoices /\ clerk[c].level \in Levels
      BY <2>1, <2>4 DEF BookReminder, RequestOf
    <3>2. booked' \in [Invoices -> Seq(Levels)] /\ waited' \subseteq Invoices
      BY <1>1, <2>4, <3>1, BookOK DEF BookReminder
    <3>3. QED
      BY <1>1, <2>4, <3>2 DEF Columns, BookReminder
  <2>5. QED
    BY <1>2, <1>4, <2>2, <2>3, <2>4
       DEF ClerkNext, Begin, BeginReminder, BeginInvoiceMail, BeginRetry, TakeReminderLock,
           PassPending, GiveUp, QueueInvoiceMail, RequeueFailed
<1>5. ASSUME NEW w \in Workers, WorkerNext(w) PROVE OthersOK
  <2> DEFINE r == worker[w].cur.row
  <2>1. Handling(worker[w]) => r \in 1 .. nMail /\ mail[r] \in MailRow
    BY RowInHand
  <2>2. CASE Transmit(w)
    <3>1. mail[r].inv \in Invoices /\ mail[r].level \in 0 .. 3
      BY <1>1, <2>1, <2>2 DEF Transmit, Handling, RowsNamed, MailRow
    <3>2. CASE Leaves(mail[r].inv, mail[r].level)
      <4>1. reached' \in [Invoices -> 0 .. 3]
        BY <1>1, <3>1, <3>2, LeavesOK
      <4>2. QED
        BY <1>1, <2>2, <4>1 DEF Columns, Transmit
    <3>3. CASE UNCHANGED reached
      BY <1>2, <2>2, <3>3 DEF Transmit
    <3>4. QED
      BY <2>2, <3>2, <3>3 DEF Transmit
  <2>3. CASE MarkSent(w)
    <3>1. CASE mail[r].kind = "reminder"
      <4>1. mail[r].inv \in Invoices /\ mail[r].level \in Levels
        BY <1>1, <2>1, <2>3, <3>1 DEF MarkSent, Handling, RowsNamed
      <4>2. booked' \in [Invoices -> Seq(Levels)] /\ waited' \subseteq Invoices
        BY <1>1, <2>3, <3>1, <4>1, BookOK DEF MarkSent
      <4>3. QED
        BY <1>1, <2>3, <4>2 DEF Columns, MarkSent
    <3>2. CASE mail[r].kind # "reminder"
      BY <1>2, <2>3, <3>2 DEF MarkSent
    <3>3. QED
      BY <3>1, <3>2
  <2>4. QED
    BY <1>2, <1>5, <2>2, <2>3
       DEF WorkerNext, ReadDue, QueueReminder, MarkInterrupted, Claim, Deliver, PutBack, OpenInvoice,
           LockReminder, Carry, CheckDue, RejectReminder, TransmitFails, MarkSentOnly, Interrupt
<1>6. ASSUME NEW k \in Conns, RecycleConn(k) PROVE OthersOK
  BY <1>1, <1>6 DEF Columns, RecycleConn
<1>7. QED
  BY <1>3, <1>4, <1>5, <1>6 DEF Next

LEMMA StructInit == Init => Struct
<1> SUFFICES ASSUME Init PROVE Struct
    OBVIOUS
<1>1. mail \in [MailIds -> MailRow] /\ nMail \in 0 .. MaxMails /\ requests \in 0 .. MaxRequests
  BY Numbers DEF Init, NoMail, MailRow
<1>2. worker \in [Workers -> Loop] /\ \A w \in Workers : HandOf(worker[w])
  <2>1. \A w \in Workers : worker[w] = Resting
    BY DEF Init
  <2>2. QED
    BY <2>1, RestingOK DEF Init
<1>3. clerk \in [Clerks -> Request] /\ \A c \in Clerks : RequestOf(clerk[c])
  <2>1. \A c \in Clerks : clerk[c] = NoRequest
    BY DEF Init
  <2>2. QED
    BY <2>1, NoRequestOK DEF Init
<1>4. /\ invoice \in [Invoices -> {"open", "paid", "canceled"}]
      /\ anonymized \subseteq Invoices /\ waited \subseteq Invoices
      /\ leaked \in [Conns -> SUBSET Invoices] /\ reached \in [Invoices -> 0 .. 3]
  BY DEF Init
<1>5. booked \in [Invoices -> Seq(Levels)]
  <2>1. <<>> \in Seq(Levels)
    OBVIOUS
  <2>2. QED
    BY <2>1 DEF Init
<1>6. RowsNamed
  BY DEF Init, RowsNamed
<1>7. QED
  BY <1>1, <1>2, <1>3, <1>4, <1>5, <1>6 DEF Struct, Columns

LEMMA StructStep == Struct /\ [Next]_vars => Struct'
<1>1. ASSUME Struct, Next PROVE Struct'
  <2>1. RowsOK /\ LoopsOK /\ RequestsOK /\ OthersOK /\ RowsNamed'
    BY <1>1, RowsStep, LoopsStep, RequestsStep, OthersStep, RowsNamedStep
  <2>2. QED
    BY <2>1 DEF RowsOK, LoopsOK, RequestsOK, OthersOK, Struct, Columns
<1>2. ASSUME Struct, UNCHANGED vars PROVE Struct'
  BY <1>2 DEF vars, Struct, Columns, RowsNamed, HandOf, Handling, RequestOf
<1>3. QED
  BY <1>1, <1>2

(* Invariant: every column keeps its domain, and loops and requests handle rows *)
(* of the table and invoices that exist, on a connection exactly while they     *)
(* hold a reminder's lock (the steps of outbox.go and reminders.go).            *)
THEOREM Structure == Spec => []Struct
BY StructInit, StructStep, PTL DEF Spec

-----------------------------------------------------------------------------
(* A mail is in the hands of one loop, and waits only while attempts are    *)
(* left.  What makes both inductive is ClaimOf: a row in hand is "sending"  *)
(* with the attempt its claim read, unless its customer was anonymised.     *)

Held(l) == { e \in l.batch \cup {l.cur} : e.row # 0 }
ClaimOf(l) == \A e \in Held(l) :
    \/ mail[e.row].anon
    \/ /\ mail[e.row].status = "sending" /\ mail[e.row].attempts = e.tries
       /\ e.tries <= MaxRetries + 1
Outbox == ClaimedOnce /\ AttemptsLeft /\ \A w \in Workers : ClaimOf(worker[w])

LEMMA HeldRows ==
  ASSUME Struct, NEW w \in Workers
  PROVE  /\ InHand(w) = { e.row : e \in Held(worker[w]) }
         /\ \A e \in Held(worker[w]) : e \in Claims /\ e.row \in 1 .. nMail /\ e.row \in MailIds
         /\ \A e \in worker[w].batch : e \in Held(worker[w])
         /\ Handling(worker[w]) => worker[w].cur \in Held(worker[w])
         /\ ~Handling(worker[w]) => Held(worker[w]) = worker[w].batch
<1>1. HandOf(worker[w]) /\ worker[w] \in Loop /\ nMail \in 0 .. MaxMails
  BY DEF Struct, Columns
<1>2. \A e \in worker[w].batch : e \in Claims /\ e.row \in 1 .. nMail /\ e.row # 0
  BY <1>1 DEF HandOf, Loop
<1>3. Handling(worker[w]) => worker[w].cur \in Claims /\ worker[w].cur.row \in 1 .. nMail /\ worker[w].cur.row # 0
  BY <1>1 DEF HandOf
<1>4. ~Handling(worker[w]) => worker[w].cur.row = 0
  BY <1>1 DEF HandOf, NoClaim
<1>5. \A r \in 1 .. nMail : r \in MailIds
  BY <1>1, Numbers DEF MailIds
<1>6. InHand(w) = { e.row : e \in Held(worker[w]) }
  BY DEF InHand, Held
<1>7. QED
  BY <1>2, <1>3, <1>4, <1>5, <1>6 DEF Held

\* Two loops have the same row only when it is anonymised.
LEMMA NotShared ==
  ASSUME Struct, ClaimedOnce, NEW v \in Workers, NEW w \in Workers, v # w,
         NEW e \in Held(worker[v]), NEW f \in Held(worker[w]), e.row = f.row
  PROVE  mail[e.row].anon
<1>1. e.row \in InHand(v) \cap InHand(w)
  BY HeldRows
<1>2. QED
  BY <1>1 DEF ClaimedOnce

\* Nothing new in hand, and what stays in hand is as claimed.
LEMMA HandsShrink ==
  ASSUME Struct, Struct', Outbox, RowsKept, AttemptsLeft',
         \A v \in Workers : Held(worker'[v]) \subseteq Held(worker[v]),
         \A v \in Workers : \A e \in Held(worker'[v]) :
            \/ mail'[e.row].anon
            \/ mail'[e.row].status = mail[e.row].status /\ mail'[e.row].attempts = mail[e.row].attempts
  PROVE  Outbox'
<1>1. ASSUME NEW v \in Workers, NEW e \in Held(worker'[v])
      PROVE  /\ e \in Held(worker[v]) /\ (mail[e.row].anon => mail'[e.row].anon)
             /\ \/ mail'[e.row].anon
                \/ /\ mail'[e.row].status = "sending" /\ mail'[e.row].attempts = e.tries
                   /\ e.tries <= MaxRetries + 1
  <2>1. e \in Held(worker[v]) /\ e.row \in 1 .. nMail
    BY HeldRows
  <2>2. mail[e.row].anon => mail'[e.row].anon
    BY <2>1 DEF RowsKept
  <2>3. QED
    BY <2>1, <2>2 DEF Outbox, ClaimOf
<1>2. \A v \in Workers : ClaimOf(worker[v])'
  BY <1>1 DEF ClaimOf
<1>3. ClaimedOnce'
  <2> SUFFICES ASSUME NEW v \in Workers, NEW w \in Workers, NEW r \in (InHand(v) \cap InHand(w))'
               PROVE  v = w \/ mail'[r].anon
    BY DEF ClaimedOnce
  <2>1. PICK e \in Held(worker'[v]) : r = e.row
    BY HeldRows DEF InHand, Held
  <2>2. PICK f \in Held(worker'[w]) : r = f.row
    BY HeldRows DEF InHand, Held
  <2>3. QED
    BY <1>1, <2>1, <2>2, NotShared DEF Outbox
<1>4. QED
  BY <1>2, <1>3 DEF Outbox

\* The row of one mail changes, and no loop that still has it minds.
LEMMA OneRow ==
  ASSUME Struct, Struct', Outbox, RowsKept, NEW r \in 1 .. nMail, NEW new,
         nMail' = nMail, mail' = [mail EXCEPT ![r] = new],
         new.status = "queued" /\ ~new.anon => new.attempts <= MaxRetries,
         \A v \in Workers : Held(worker'[v]) \subseteq Held(worker[v]),
         \A v \in Workers : \A e \in Held(worker'[v]) : e.row = r =>
            mail[r].anon \/ (new.status = mail[r].status /\ new.attempts = mail[r].attempts)
  PROVE  Outbox'
<1>1. r \in MailIds /\ mail \in [MailIds -> MailRow] /\ \A q \in 1 .. nMail : q \in MailIds
  BY Numbers DEF Struct, Columns, MailIds
<1>2. \A q \in 1 .. nMail : mail'[q] = IF q = r THEN new ELSE mail[q]
  BY <1>1
<1>3. AttemptsLeft'
  BY <1>2 DEF AttemptsLeft, Outbox
<1>4. ASSUME NEW v \in Workers, NEW e \in Held(worker'[v])
      PROVE  \/ mail'[e.row].anon
             \/ mail'[e.row].status = mail[e.row].status /\ mail'[e.row].attempts = mail[e.row].attempts
  <2>1. e \in Held(worker[v]) /\ e.row \in 1 .. nMail
    BY HeldRows
  <2>2. mail[e.row].anon => mail'[e.row].anon
    BY <2>1 DEF RowsKept
  <2>3. QED
    BY <1>2, <2>1, <2>2
<1>5. QED
  BY <1>3, <1>4, HandsShrink

\* What a loop holds after it dropped a claim, or is done with its mail.
LEMMA HeldAfter ==
  ASSUME Struct, NEW w \in Workers
  PROVE  /\ \A e \in worker[w].batch : worker[w].pc = "batch" /\ Drop(w, e) =>
              /\ \A v \in Workers : Held(worker'[v]) \subseteq Held(worker[v])
              /\ \A f \in Held(worker'[w]) : f.row # e.row
              /\ \A v \in Workers : v # w => worker'[v] = worker[v]
         /\ Proceed(w) /\ Handling(worker[w]) =>
              /\ \A v \in Workers : Held(worker'[v]) \subseteq Held(worker[v])
              /\ \A f \in Held(worker'[w]) : f.row # worker[w].cur.row
              /\ \A v \in Workers : v # w => worker'[v] = worker[v]
<1>1. worker[w] \in Loop /\ HandOf(worker[w]) /\ worker \in [Workers -> Loop]
  BY DEF Struct, Columns
<1>2. ASSUME NEW e \in worker[w].batch, worker[w].pc = "batch", Drop(w, e)
      PROVE  /\ \A v \in Workers : Held(worker'[v]) \subseteq Held(worker[v])
             /\ \A f \in Held(worker'[w]) : f.row # e.row
             /\ \A v \in Workers : v # w => worker'[v] = worker[v]
  <2>1. /\ worker'[w].batch = worker[w].batch \ {e} /\ worker'[w].cur = worker[w].cur
        /\ \A v \in Workers : v # w => worker'[v] = worker[v]
    BY <1>1, <1>2 DEF Drop, Loop
  <2>2. Held(worker'[w]) \subseteq Held(worker[w])
    BY <2>1 DEF Held
  <2>3. \A f \in Held(worker'[w]) : f \in worker[w].batch \ {e}
    <3>1. worker[w].cur.row = 0
      BY <1>1, <1>2 DEF HandOf, Handling, NoClaim
    <3>2. QED
      BY <2>1, <3>1 DEF Held
  <2>4. QED
    BY <1>1, <2>1, <2>2, <2>3 DEF HandOf
<1>3. ASSUME Proceed(w), Handling(worker[w])
      PROVE  /\ \A v \in Workers : Held(worker'[v]) \subseteq Held(worker[v])
             /\ \A f \in Held(worker'[w]) : f.row # worker[w].cur.row
             /\ \A v \in Workers : v # w => worker'[v] = worker[v]
  <2>1. /\ worker'[w].batch = worker[w].batch /\ worker'[w].cur = NoClaim
        /\ \A v \in Workers : v # w => worker'[v] = worker[v]
    BY <1>1, <1>3 DEF Proceed, Resting
  <2>2. \A f \in Held(worker'[w]) : f \in worker[w].batch
    BY <2>1 DEF Held, NoClaim
  <2>3. Held(worker'[w]) \subseteq Held(worker[w])
    BY <2>2 DEF Held
  <2>4. QED
    BY <1>1, <2>1, <2>2, <2>3 DEF HandOf
<1>4. QED
  BY <1>2, <1>3

\* A row a loop gives up is not in the hands of another one.
LEMMA GivenUp ==
  ASSUME Struct, Struct', Outbox, RowsKept, NEW w \in Workers, NEW e \in Held(worker[w]), NEW new,
         nMail' = nMail, mail' = [mail EXCEPT ![e.row] = new],
         new.status = "queued" /\ ~new.anon => new.attempts <= MaxRetries,
         \A v \in Workers : Held(worker'[v]) \subseteq Held(worker[v]),
         \A f \in Held(worker'[w]) : f.row # e.row
  PROVE  Outbox'
<1>1. e.row \in 1 .. nMail
  BY HeldRows
<1>2. ASSUME NEW v \in Workers, NEW f \in Held(worker'[v]), f.row = e.row PROVE mail[e.row].anon
  BY <1>2, NotShared DEF Outbox
<1>3. QED
  BY <1>1, <1>2, OneRow

\* A new row is queued, and in nobody's hands.
LEMMA NewRow ==
  ASSUME Struct, Struct', Outbox, RowsKept, NEW kind \in {"invoice", "reminder"}, NEW i \in Invoices,
         NEW level \in 0 .. 3, kind = "reminder" => level \in Levels, Enqueue(kind, i, level),
         \A v \in Workers : Held(worker'[v]) \subseteq Held(worker[v])
  PROVE  Outbox'
<1>1. /\ nMail' = nMail + 1 /\ \A r \in 1 .. nMail : mail'[r] = mail[r]
      /\ mail'[nMail + 1].status = "queued" /\ mail'[nMail + 1].attempts = 0
  BY EnqueueRow DEF Struct
<1>2. \A r \in 1 .. nMail' : r = nMail + 1 \/ r \in 1 .. nMail
  BY <1>1 DEF Struct, Columns
<1>3. AttemptsLeft'
  BY <1>1, <1>2, Numbers DEF AttemptsLeft, Outbox
<1>4. \A v \in Workers : \A e \in Held(worker'[v]) : mail'[e.row] = mail[e.row]
  BY <1>1, HeldRows
<1>5. QED
  BY <1>3, <1>4, HandsShrink

LEMMA ClaimStep ==
  ASSUME Struct, Struct', Outbox, RowsKept, NEW w \in Workers, NEW rows \in SUBSET MailIds, Claim(w, rows)
  PROVE  Outbox'
<1> DEFINE claim(r) == [row |-> r, tries |-> mail[r].attempts + 1, real |-> ~mail[r].anon]
<1>1. /\ worker[w].pc = "idle" /\ rows \subseteq Queued /\ nMail' = nMail
      /\ worker' = [worker EXCEPT ![w].pc = "batch", ![w].batch = { claim(r) : r \in rows }]
  BY DEF Claim
<1>a. /\ worker \in [Workers -> Loop] /\ mail \in [MailIds -> MailRow] /\ nMail \in 0 .. MaxMails
      /\ HandOf(worker[w])
  BY DEF Struct, Columns
<1>2. \A r \in 1 .. nMail :
        /\ r \in MailIds /\ mail[r].attempts \in Nat
        /\ mail'[r].anon <=> mail[r].anon
        /\ r \notin rows => mail'[r] = mail[r]
        /\ r \in rows => mail'[r].status = "sending" /\ mail'[r].attempts = mail[r].attempts + 1
  <2>1. \A r \in 1 .. nMail : r \in MailIds /\ mail[r] \in MailRow
    BY <1>a, Numbers DEF MailIds
  <2> DEFINE taken(row) == [row EXCEPT !.status = "sending", !.attempts = @ + 1]
  <2>2. \A r \in MailIds : mail'[r] = IF r \in rows THEN taken(mail[r]) ELSE mail[r]
    BY DEF Claim
  <2>3. ASSUME NEW row \in MailRow
        PROVE  /\ row.attempts \in Nat /\ taken(row).anon = row.anon
               /\ taken(row).status = "sending" /\ taken(row).attempts = row.attempts + 1
    BY DEF MailRow
  <2> HIDE DEF taken
  <2>4. QED
    BY <2>1, <2>2, <2>3
<1>3. \A v \in Workers : v # w => worker'[v] = worker[v]
  BY <1>1, <1>a
<1>4. \A f \in Held(worker'[w]) : f.row \in rows /\ f.tries = mail[f.row].attempts + 1
  <2>1. worker'[w].batch = { claim(r) : r \in rows } /\ worker'[w].cur = worker[w].cur
    BY <1>1, <1>a DEF Loop
  <2>2. worker[w].cur.row = 0
    BY <1>1, <1>a DEF HandOf, Handling, NoClaim
  <2>3. QED
    BY <2>1, <2>2 DEF Held
<1>5. \A r \in rows : r \in 1 .. nMail /\ mail[r].status = "queued"
  BY <1>1 DEF Queued
<1>6. AttemptsLeft'
  <2> SUFFICES ASSUME NEW r \in 1 .. nMail, mail'[r].status = "queued", ~mail'[r].anon
               PROVE  mail'[r].attempts <= MaxRetries
    BY <1>1 DEF AttemptsLeft
  <2>1. r \notin rows /\ mail'[r] = mail[r]
    BY <1>2
  <2>2. QED
    BY <2>1 DEF AttemptsLeft, Outbox
<1>7. ASSUME NEW f \in Held(worker'[w])
      PROVE  \/ mail'[f.row].anon
             \/ /\ mail'[f.row].status = "sending" /\ mail'[f.row].attempts = f.tries
                /\ f.tries <= MaxRetries + 1
  <2>1. f.row \in rows /\ f.row \in 1 .. nMail /\ mail[f.row].status = "queued"
    BY <1>4, <1>5
  <2>2. mail[f.row].anon \/ mail[f.row].attempts <= MaxRetries
    BY <2>1 DEF AttemptsLeft, Outbox
  <2>3. mail[f.row].attempts <= MaxRetries => f.tries <= MaxRetries + 1
    BY <1>2, <1>4, <2>1, Numbers
  <2>4. QED
    BY <1>2, <1>4, <2>1, <2>2, <2>3
<1>8. ASSUME NEW v \in Workers, v # w, NEW e \in Held(worker[v])
      PROVE  \/ mail'[e.row].anon
             \/ /\ e.row \notin rows
                /\ mail'[e.row].status = "sending" /\ mail'[e.row].attempts = e.tries
                /\ e.tries <= MaxRetries + 1
  <2>1. e.row \in 1 .. nMail
    BY HeldRows
  <2>2. mail[e.row].anon \/ (mail[e.row].status = "sending" /\ mail[e.row].attempts = e.tries /\ e.tries <= MaxRetries + 1)
    BY DEF Outbox, ClaimOf
  <2>3. QED
    BY <1>2, <1>5, <2>1, <2>2
<1>9. \A v \in Workers : ClaimOf(worker[v])'
  BY <1>3, <1>7, <1>8 DEF ClaimOf
<1>10. ClaimedOnce'
  <2> SUFFICES ASSUME NEW v \in Workers, NEW u \in Workers, NEW r \in (InHand(v) \cap InHand(u))', v # u
               PROVE  mail'[r].anon
    BY DEF ClaimedOnce
  <2>1. PICK e \in Held(worker'[v]) : r = e.row
    BY HeldRows DEF InHand, Held
  <2>2. PICK f \in Held(worker'[u]) : r = f.row
    BY HeldRows DEF InHand, Held
  <2>3. CASE v # w /\ u # w
    <3>1. e \in Held(worker[v]) /\ f \in Held(worker[u]) /\ e.row \in 1 .. nMail
      BY <1>3, <2>1, <2>2, <2>3, HeldRows
    <3>2. mail[e.row].anon
      BY <2>1, <2>2, <3>1, NotShared DEF Outbox
    <3>3. QED
      BY <1>2, <2>1, <3>1, <3>2
  <2>4. CASE v = w
    BY <1>3, <1>4, <1>8, <2>1, <2>2, <2>4
  <2>5. CASE u = w
    BY <1>3, <1>4, <1>8, <2>1, <2>2, <2>5
  <2>6. QED
    BY <2>3, <2>4, <2>5
<1>11. QED
  BY <1>6, <1>9, <1>10 DEF Outbox

LEMMA OutboxStep ==
  ASSUME Struct, Struct', Outbox, Next
  PROVE  Outbox'
<1>1. RowsOK /\ RowsKept /\ Columns /\ Columns'
  BY RowsStep DEF RowsOK, Struct
<1>2. ASSUME UNCHANGED mailVars, \A v \in Workers : Held(worker'[v]) \subseteq Held(worker[v])
      PROVE  Outbox'
  <2>1. AttemptsLeft'
    BY <1>2 DEF AttemptsLeft, Outbox
  <2>2. QED
    BY <1>1, <1>2, <2>1, HandsShrink
<1>3. ASSUME worker' = worker PROVE \A v \in Workers : Held(worker'[v]) \subseteq Held(worker[v])
  BY <1>3
<1>4. \A r \in 1 .. nMail : r \in MailIds /\ mail[r] \in MailRow /\ mail[r].anon \in BOOLEAN
  BY <1>1, Numbers DEF Columns, MailIds, MailRow
<1>5. ASSUME NEW i \in Invoices, Anonymize(i) PROVE Outbox'
  <2>1. \A r \in 1 .. nMail : mail'[r].anon \/ mail'[r] = mail[r]
    BY <1>4, <1>5 DEF Anonymize, MailRow
  <2>2. nMail' = nMail /\ worker' = worker
    BY <1>5 DEF Anonymize
  <2>3. AttemptsLeft'
    BY <2>1, <2>2 DEF AttemptsLeft, Outbox
  <2>4. \A v \in Workers : \A e \in Held(worker'[v]) : mail'[e.row].anon \/ mail'[e.row] = mail[e.row]
    BY <2>1, <2>2, HeldRows
  <2>5. QED
    BY <1>1, <1>3, <2>2, <2>3, <2>4, HandsShrink
<1>6. ASSUME NEW c \in Clerks, QueueInvoiceMail(c) PROVE Outbox'
  <2>1. clerk[c].inv \in Invoices /\ Enqueue("invoice", clerk[c].inv, 0) /\ worker' = worker
    BY <1>6 DEF QueueInvoiceMail, RequestOf, Struct
  <2>2. QED
    BY <1>1, <1>3, <2>1, NewRow
<1>7. ASSUME NEW c \in Clerks, RequeueFailed(c) PROVE Outbox'
  <2> DEFINE r == clerk[c].row
             new == [mail[r] EXCEPT !.status = "queued", !.attempts = 0, !.swept = FALSE]
  <2>1. r \in 1 .. nMail /\ mail[r].status = "failed" /\ worker' = worker /\ nMail' = nMail
    BY <1>7 DEF RequeueFailed, RequestOf, Struct
  <2>2. mail' = [mail EXCEPT ![r] = new]
    BY <1>1, <1>4, <1>7, <2>1 DEF RequeueFailed, Columns
  <2>3. new.attempts <= MaxRetries
    BY <1>4, <2>1, Numbers DEF MailRow
  <2>4. \A v \in Workers : \A e \in Held(worker[v]) : e.row = r => mail[r].anon
    BY <2>1 DEF Outbox, ClaimOf
  <2> HIDE DEF r, new
  <2>5. /\ \A v \in Workers : Held(worker'[v]) \subseteq Held(worker[v])
        /\ \A v \in Workers : \A e \in Held(worker'[v]) : e.row = r =>
              mail[r].anon \/ (new.status = mail[r].status /\ new.attempts = mail[r].attempts)
        /\ new.status = "queued" /\ ~new.anon => new.attempts <= MaxRetries
    BY <1>3, <2>1, <2>3, <2>4
  <2>6. QED
    BY <1>1, <2>1, <2>2, <2>5, OneRow
<1>8. ASSUME NEW w \in Workers, NEW r \in MailIds, MarkInterrupted(w, r) PROVE Outbox'
  <2> DEFINE new == [mail[r] EXCEPT !.status = "failed", !.swept = TRUE]
  <2>1. r \in 1 .. nMail /\ worker' = worker /\ nMail' = nMail /\ \A v \in Workers : r \notin InHand(v)
    BY <1>1, <1>8 DEF MarkInterrupted, MailIds, Columns
  <2>2. mail' = [mail EXCEPT ![r] = new]
    BY <1>1, <1>4, <1>8, <2>1 DEF MarkInterrupted, Columns
  <2>3. new.status = "failed"
    BY <1>4, <2>1 DEF MailRow
  <2>4. \A v \in Workers : \A e \in Held(worker[v]) : e.row # r
    BY <2>1, HeldRows
  <2> HIDE DEF new
  <2>5. /\ \A v \in Workers : Held(worker'[v]) \subseteq Held(worker[v])
        /\ \A v \in Workers : \A e \in Held(worker'[v]) : e.row = r =>
              mail[r].anon \/ (new.status = mail[r].status /\ new.attempts = mail[r].attempts)
        /\ new.status = "queued" /\ ~new.anon => new.attempts <= MaxRetries
    BY <1>3, <2>1, <2>3, <2>4
  <2>6. QED
    BY <1>1, <2>1, <2>2, <2>5, OneRow
<1>9. ASSUME NEW w \in Workers, NEW pc, worker' = [worker EXCEPT ![w].pc = pc]
      PROVE  \A v \in Workers : Held(worker'[v]) = Held(worker[v])
  <2>1. \A v \in Workers : worker'[v].batch = worker[v].batch /\ worker'[v].cur = worker[v].cur
    BY <1>1, <1>9 DEF Columns, Loop
  <2>2. QED
    BY <2>1 DEF Held
<1>10. ASSUME \A v \in Workers : worker'[v].batch = worker[v].batch /\ worker'[v].cur = worker[v].cur
       PROVE  \A v \in Workers : Held(worker'[v]) \subseteq Held(worker[v])
  BY <1>10 DEF Held
<1>11. ASSUME NEW w \in Workers, NEW d \in worker[w].due, QueueReminder(w, d) PROVE Outbox'
  <2>1. d[1] \in Invoices /\ d[2] \in 0 .. 3 /\ d[2] \in Levels
    BY <1>1 DEF Columns, Loop, Levels
  <2>2. \A v \in Workers : Held(worker'[v]) \subseteq Held(worker[v])
    <3>1. \A v \in Workers : worker'[v].batch = worker[v].batch /\ worker'[v].cur = worker[v].cur
      BY <1>1, <1>11 DEF QueueReminder, Columns, Loop
    <3>2. QED
      BY <1>10, <3>1
  <2>3. CASE Enqueue("reminder", d[1], d[2])
    BY <1>1, <2>1, <2>2, <2>3, NewRow
  <2>4. QED
    BY <1>2, <1>11, <2>2, <2>3 DEF QueueReminder
<1>12. ASSUME NEW w \in Workers, ReadDue(w) PROVE Outbox'
  <2>1. \A v \in Workers : worker'[v].batch = worker[v].batch /\ worker'[v].cur = worker[v].cur
    BY <1>1, <1>12 DEF ReadDue, Columns, Loop
  <2>2. QED
    BY <1>2, <1>10, <1>12, <2>1 DEF ReadDue
<1>13. ASSUME NEW w \in Workers, NEW e \in worker[w].batch, NEW pc, NEW k, worker[w].pc = "batch",
              InHands(w, e, pc, k)
       PROVE  \A v \in Workers : Held(worker'[v]) \subseteq Held(worker[v])
  <2>1. /\ worker'[w].batch = worker[w].batch \ {e} /\ worker'[w].cur = e
        /\ \A v \in Workers : v # w => worker'[v] = worker[v]
    BY <1>1, <1>13 DEF InHands, Columns, Loop
  <2>2. QED
    BY <2>1 DEF Held
<1>14. ASSUME NEW w \in Workers, NEW e \in worker[w].batch, NEW new, worker[w].pc = "batch", Drop(w, e),
              nMail' = nMail, mail' = [mail EXCEPT ![e.row] = new],
              new.status = "queued" /\ ~new.anon => new.attempts <= MaxRetries
       PROVE  Outbox'
  <2>1. /\ \A v \in Workers : Held(worker'[v]) \subseteq Held(worker[v])
        /\ \A f \in Held(worker'[w]) : f.row # e.row
        /\ e \in Held(worker[w])
    BY <1>14, HeldAfter, HeldRows
  <2>2. QED
    BY <1>1, <1>14, <2>1, GivenUp
<1>15. ASSUME NEW w \in Workers, NEW new, Handling(worker[w]), Proceed(w),
              nMail' = nMail, mail' = [mail EXCEPT ![worker[w].cur.row] = new],
              new.status = "queued" /\ ~new.anon => new.attempts <= MaxRetries
       PROVE  Outbox'
  <2>1. /\ \A v \in Workers : Held(worker'[v]) \subseteq Held(worker[v])
        /\ \A f \in Held(worker'[w]) : f.row # worker[w].cur.row
    BY <1>15, HeldAfter
  <2>2. worker[w].cur \in Held(worker[w])
    BY <1>15, HeldRows
  <2>3. QED
    BY <1>1, <1>15, <2>1, <2>2, GivenUp
<1>16. ASSUME NEW w \in Workers, NEW e \in worker[w].batch, Deliver(w, e) PROVE Outbox'
  <2>1. e \in Held(worker[w]) /\ e.row \in 1 .. nMail /\ mail[e.row] \in MailRow
    BY <1>4, HeldRows
  <2>2. CASE PutBack(w, e)
    <3> DEFINE new == PutBackRow(mail[e.row])
    <3>1. new.anon = mail[e.row].anon
      BY <2>1 DEF MailRow, PutBackRow
    <3>2. new.attempts \in Nat /\ (new.attempts = 0 \/ new.attempts = mail[e.row].attempts - 1)
      BY <2>1 DEF MailRow, PutBackRow
    <3>3. ~new.anon => new.attempts <= MaxRetries
      <4>1. CASE ~mail[e.row].anon
        <5>1. mail[e.row].attempts <= MaxRetries + 1 /\ mail[e.row].attempts \in Nat
          BY <2>1, <4>1 DEF Outbox, ClaimOf, MailRow
        <5>2. QED
          BY <3>2, <5>1, Numbers
      <4>2. QED
        BY <3>1, <4>1
    <3>4. /\ worker[w].pc = "batch" /\ Drop(w, e) /\ nMail' = nMail
          /\ mail' = [mail EXCEPT ![e.row] = new]
      BY <1>1, <2>2 DEF PutBack, Columns
    <3> HIDE DEF new
    <3>5. QED
      BY <1>14, <3>3, <3>4
  <2>3. CASE OpenInvoice(w, e)
    <3>1. worker[w].pc = "batch" /\ nMail' = nMail
      BY <2>3 DEF OpenInvoice
    <3>2. CASE Drop(w, e) /\ mail' = [mail EXCEPT ![e.row] = Rejected(@)]
      <4>1. Rejected(mail[e.row]).status = "failed"
        BY <2>1 DEF MailRow, Rejected
      <4>2. mail' = [mail EXCEPT ![e.row] = Rejected(mail[e.row])]
        BY <1>1, <3>2 DEF Columns
      <4>3. QED
        BY <1>14, <3>1, <3>2, <4>1, <4>2
    <3>3. CASE InHands(w, e, "smtp", NoOne) /\ UNCHANGED mail
      BY <1>2, <1>13, <3>1, <3>3
    <3>4. QED
      BY <2>3, <3>2, <3>3 DEF OpenInvoice
  <2>4. ASSUME NEW k \in Conns, LockReminder(w, e, k) PROVE Outbox'
    BY <1>2, <1>13, <2>4 DEF LockReminder
  <2>5. QED
    BY <1>16, <2>2, <2>3, <2>4 DEF Deliver
<1>17. ASSUME NEW w \in Workers, Carry(w) PROVE Outbox'
  <2> DEFINE r == worker[w].cur.row
             t == worker[w].cur.tries
             sent == [mail[r] EXCEPT !.status = "sent"]
  <2>1. Handling(worker[w])
    BY <1>17 DEF Carry, CheckDue, RejectReminder, Transmit, TransmitFails, MarkSent, MarkSentOnly, Handling
  <2>2. /\ worker[w].cur \in Held(worker[w]) /\ r \in 1 .. nMail /\ mail[r] \in MailRow
        /\ t \in Nat
    BY <1>4, <2>1, HeldRows DEF Claims
  <2>3. CASE CheckDue(w)
    BY <1>2, <1>9, <2>3 DEF CheckDue
  <2>4. CASE RejectReminder(w)
    <3>1. Rejected(mail[r]).status = "failed"
      BY <2>2 DEF MailRow, Rejected
    <3>2. Proceed(w) /\ nMail' = nMail /\ mail' = [mail EXCEPT ![r] = Rejected(mail[r])]
      BY <1>1, <2>4 DEF RejectReminder, Columns
    <3>3. QED
      BY <1>15, <2>1, <3>1, <3>2
  <2>5. CASE MarkSent(w) \/ MarkSentOnly(w)
    <3>1. sent.status = "sent"
      BY <2>2 DEF MailRow
    <3>2. Proceed(w) /\ nMail' = nMail /\ mail' = [mail EXCEPT ![r] = sent]
      BY <1>1, <2>5 DEF MarkSent, MarkSentOnly, Columns
    <3> HIDE DEF sent
    <3>3. QED
      BY <1>15, <2>1, <3>1, <3>2
  <2>6. mail[r].anon \/ mail[r].attempts = t
    BY <2>2 DEF Outbox, ClaimOf
  <2>7. ASSUME NEW row \in MailRow, row.attempts = mail[r].attempts, row.anon <=> mail[r].anon,
               Proceed(w), nMail' = nMail, mail' = [mail EXCEPT ![r] = RetryOrFail(row, t)]
        PROVE  Outbox'
    <3> DEFINE new == RetryOrFail(row, t)
    <3>1. /\ new.attempts = row.attempts /\ (new.anon <=> row.anon)
          /\ new.status = IF t > MaxRetries THEN "failed" ELSE "queued"
      BY DEF MailRow, RetryOrFail
    <3>2. mail' = [mail EXCEPT ![r] = new]
      BY <2>7
    <3> HIDE DEF new
    <3>3. new.status = "queued" /\ ~new.anon => new.attempts <= MaxRetries
      BY <2>2, <2>6, <2>7, <3>1, Numbers
    <3>4. QED
      BY <1>15, <2>1, <2>7, <3>2, <3>3
  <2>8. CASE TransmitFails(w)
    <3>1. Proceed(w) /\ nMail' = nMail /\ mail' = [mail EXCEPT ![r] = RetryOrFail(mail[r], t)]
      BY <1>1, <2>8 DEF TransmitFails, Columns
    <3>2. QED
      BY <2>2, <2>7, <3>1
  <2>9. CASE Transmit(w)
    <3> DEFINE gone == GoneOut(mail[r])
    <3>1. /\ gone \in MailRow /\ gone.attempts = mail[r].attempts /\ (gone.anon <=> mail[r].anon)
          /\ gone.status = mail[r].status
      <4>1. gone \in MailRow
        BY <2>2, RowOps DEF SameMail
      <4>2. gone.attempts = mail[r].attempts /\ gone.anon = mail[r].anon /\ gone.status = mail[r].status
        BY <2>2 DEF GoneOut, MailRow
      <4>3. QED
        BY <4>1, <4>2
    <3>2. CASE mail' = [mail EXCEPT ![r] = RetryOrFail(GoneOut(@), t)] /\ Proceed(w)
      <4>1. nMail' = nMail /\ mail' = [mail EXCEPT ![r] = RetryOrFail(gone, t)]
        BY <1>1, <2>9, <3>2 DEF Transmit, Columns
      <4>2. QED
        BY <2>7, <3>1, <3>2, <4>1
    <3>3. CASE mail' = [mail EXCEPT ![r] = GoneOut(@)] /\ worker' = [worker EXCEPT ![w].pc = "sent"]
      <4>1. nMail' = nMail /\ mail' = [mail EXCEPT ![r] = gone]
        BY <1>1, <2>9, <3>3 DEF Transmit, Columns
      <4>2. gone.status = "queued" /\ ~gone.anon => gone.attempts <= MaxRetries
        BY <2>2, <3>1 DEF AttemptsLeft, Outbox
      <4>3. /\ \A v \in Workers : Held(worker'[v]) \subseteq Held(worker[v])
            /\ \A v \in Workers : \A e \in Held(worker'[v]) : e.row = r =>
                  mail[r].anon \/ (gone.status = mail[r].status /\ gone.attempts = mail[r].attempts)
        BY <1>9, <3>1, <3>3
      <4>4. r \in 1 .. nMail
        BY <2>2
      <4> HIDE DEF gone, r
      <4>5. QED
        BY <1>1, <4>1, <4>2, <4>3, <4>4, OneRow
    <3>4. QED
      BY <2>9, <3>2, <3>3 DEF Transmit
  <2>10. QED
    BY <1>17, <2>3, <2>4, <2>5, <2>8, <2>9 DEF Carry
<1>18. ASSUME NEW w \in Workers, Interrupt(w) PROVE Outbox'
  <2>1. \A v \in Workers : worker'[v] = worker[v] \/ worker'[v] = Resting
    BY <1>1, <1>18 DEF Interrupt, Columns
  <2>2. Held(Resting) = {}
    BY DEF Held, Resting, NoClaim
  <2>3. QED
    BY <1>2, <1>18, <2>1, <2>2 DEF Interrupt
<1>19. QED
  <2>1. ASSUME InvoiceNext PROVE Outbox'
    BY <1>2, <1>3, <1>5, <2>1 DEF InvoiceNext, Pay, ReversePayment, CancelInvoice, DunningDaysPass
  <2>2. ASSUME NEW c \in Clerks, ClerkNext(c) PROVE Outbox'
    BY <1>2, <1>3, <1>6, <1>7, <2>2
       DEF ClerkNext, Begin, BeginReminder, BeginInvoiceMail, BeginRetry, TakeReminderLock,
           RefusePending, PendingUnknown, PassPending, SendReminder, BookReminder, GiveUp
  <2>3. ASSUME NEW w \in Workers, WorkerNext(w) PROVE Outbox'
    BY <1>1, <1>8, <1>11, <1>12, <1>16, <1>17, <1>18, <2>3, ClaimStep DEF WorkerNext
  <2>4. ASSUME NEW k \in Conns, RecycleConn(k) PROVE Outbox'
    BY <1>2, <1>3, <2>4 DEF RecycleConn
  <2>5. QED
    BY <2>1, <2>2, <2>3, <2>4 DEF Next

LEMMA OutboxInit == Init => Outbox
<1> SUFFICES ASSUME Init PROVE Outbox
    OBVIOUS
<1>1. \A w \in Workers : Held(worker[w]) = {} /\ InHand(w) = {}
  BY DEF Init, Held, InHand, Resting, NoClaim
<1>2. AttemptsLeft
  BY DEF Init, AttemptsLeft
<1>3. QED
  BY <1>1, <1>2 DEF Outbox, ClaimOf, ClaimedOnce

LEMMA OutboxInv == Spec => []Outbox
<1>1. Struct /\ Struct' /\ Outbox /\ [Next]_vars => Outbox'
  <2>1. ASSUME Struct, Struct', Outbox, Next PROVE Outbox'
    BY <2>1, OutboxStep
  <2>2. ASSUME Outbox, UNCHANGED vars PROVE Outbox'
    BY <2>2 DEF vars, Outbox, ClaimOf, Held, ClaimedOnce, InHand, AttemptsLeft
  <2>3. QED
    BY <2>1, <2>2
<1>2. QED
  BY <1>1, OutboxInit, Structure, PTL DEF Spec

(* The columns keep their domains, and a mail that waits has attempts left:     *)
(* retryOrFail gives up after the last backoff whatever requeues in between.    *)
THEOREM TypeCorrect == Spec => []TypeOK
<1>1. Struct /\ Outbox => TypeOK
  BY DEF Struct, Outbox, TypeOK
<1>2. QED
  BY <1>1, Structure, OutboxInv, PTL

(* However many loops share the outbox, a mail that is not anonymised is in the *)
(* hands of one of them: the claim, put-backs, the sweep of what is stuck and   *)
(* retries by hand never give it to a second.                                   *)
THEOREM ClaimedByOne == Spec => []ClaimedOnce
<1>1. Outbox => ClaimedOnce
  BY DEF Outbox
<1>2. QED
  BY <1>1, OutboxInv, PTL

-----------------------------------------------------------------------------
(* Reminders of one invoice exclude each other, an invoice is not cancelled *)
(* while its mail is under way, and the customer climbs the ladder.         *)
(*                                                                          *)
(* Exclusion rests on two facts about connections (LockInv): nobody shares  *)
(* the connection in use, and at most one connection holds the lock of an   *)
(* invoice - in use, or leaked back into the pool with the lock.            *)

Alone ==
    /\ \A v, w \in Workers : worker[v].conn = worker[w].conn /\ worker[v].conn # NoOne => v = w
    /\ \A c, d \in Clerks : clerk[c].conn = clerk[d].conn /\ clerk[c].conn # NoOne => c = d
    /\ \A w \in Workers, c \in Clerks : worker[w].conn = clerk[c].conn => worker[w].conn = NoOne
OneLock == \A i \in Invoices : \A k, o \in Conns : Locked(i, k) /\ Locked(i, o) => k = o
LockInv == Alone /\ OneLock

\* The connection in hand, the mail and the request stay.
KeepsHand(w) == worker'[w].conn = worker[w].conn /\ worker'[w].cur = worker[w].cur
KeepsLock(c) == clerk'[c].conn = clerk[c].conn /\ clerk'[c].inv = clerk[c].inv

\* Who is on a connection has a reminder of a row in hand.
LEMMA OnConn ==
  ASSUME Struct
  PROVE  /\ \A w \in Workers : worker[w].conn \in Conns \cup {NoOne}
         /\ \A c \in Clerks : clerk[c].conn \in Conns \cup {NoOne}
         /\ \A w \in Workers : worker[w].conn # NoOne =>
               worker[w].cur.row \in 1 .. nMail /\ mail[worker[w].cur.row].inv \in Invoices
         /\ \A c \in Clerks : clerk[c].conn # NoOne => clerk[c].inv \in Invoices
<1>1. \A w \in Workers : worker[w] \in Loop /\ HandOf(worker[w])
  BY DEF Struct, Columns
<1>2. \A c \in Clerks : clerk[c] \in Request /\ RequestOf(clerk[c])
  BY DEF Struct, Columns
<1>3. \A w \in Workers : worker[w].conn # NoOne => worker[w].cur.row \in 1 .. nMail
  BY <1>1 DEF HandOf
<1>4. \A c \in Clerks : clerk[c].conn # NoOne => clerk[c].inv \in Invoices
  BY <1>2 DEF RequestOf
<1>5. QED
  BY <1>1, <1>2, <1>3, <1>4 DEF Struct, RowsNamed, Loop, Request

LEMMA LocksShrink ==
  ASSUME Struct, RowsKept, LockInv,
         \A w \in Workers : worker'[w].conn = NoOne \/ KeepsHand(w),
         \A c \in Clerks : clerk'[c].conn = NoOne \/ KeepsLock(c),
         \A k \in Conns : leaked'[k] \subseteq leaked[k]
  PROVE  LockInv'
<1>1. Alone'
  BY DEF LockInv, Alone, KeepsHand, KeepsLock
<1>2. ASSUME NEW i \in Invoices, NEW k \in Conns, Locked(i, k)' PROVE Locked(i, k)
  <2>1. CASE i \in leaked'[k]
    BY <2>1 DEF Locked
  <2>2. CASE \E c \in Clerks : clerk'[c].conn = k /\ clerk'[c].inv = i
    BY <2>2, Numbers DEF Locked, KeepsLock
  <2>3. ASSUME NEW w \in Workers, worker'[w].conn = k, mail'[worker'[w].cur.row].inv = i PROVE Locked(i, k)
    <3>1. worker[w].conn = k /\ worker'[w].cur = worker[w].cur /\ k # NoOne
      BY <2>3, Numbers DEF KeepsHand
    <3>2. worker[w].cur.row \in 1 .. nMail
      BY <3>1, OnConn
    <3>3. mail[worker[w].cur.row].inv = i
      BY <2>3, <3>1, <3>2 DEF RowsKept
    <3>4. QED
      BY <3>1, <3>3 DEF Locked
  <2>4. QED
    BY <1>2, <2>1, <2>2, <2>3 DEF Locked
<1>3. OneLock'
  BY <1>2 DEF LockInv, OneLock
<1>4. QED
  BY <1>1, <1>3 DEF LockInv

LEMMA ClerkLocks ==
  ASSUME Struct, LockInv, NEW c \in Clerks, NEW k \in Conns, TakeReminderLock(c, k)
  PROVE  LockInv'
<1> DEFINE i == clerk[c].inv
<1>1. /\ TryLock(i, k) /\ worker' = worker /\ mail' = mail /\ leaked' = leaked
      /\ clerk[c].pc = "lock" /\ clerk' = [clerk EXCEPT ![c].pc = "locked", ![c].conn = k]
  BY DEF TakeReminderLock
<1>2. /\ clerk'[c].conn = k /\ clerk'[c].inv = i /\ k # NoOne
      /\ \A d \in Clerks : d # c => clerk'[d] = clerk[d]
  BY <1>1, Numbers DEF Struct, Columns, Request
<1>3. (\A w \in Workers : worker[w].conn # k) /\ (\A d \in Clerks : clerk[d].conn # k)
  BY <1>1 DEF TryLock, InUse
<1>4. Alone'
  <2>1. \A v, w \in Workers : worker'[v].conn = worker'[w].conn /\ worker'[v].conn # NoOne => v = w
    BY <1>1 DEF LockInv, Alone
  <2>2. \A b, d \in Clerks : clerk'[b].conn = clerk'[d].conn /\ clerk'[b].conn # NoOne => b = d
    BY <1>2, <1>3 DEF LockInv, Alone
  <2>3. ASSUME NEW w \in Workers, NEW d \in Clerks, worker'[w].conn = clerk'[d].conn
        PROVE  worker'[w].conn = NoOne
    <3>1. d # c
      BY <1>1, <1>2, <1>3, <2>3
    <3>2. worker[w].conn = clerk[d].conn /\ worker'[w] = worker[w]
      BY <1>1, <1>2, <2>3, <3>1
    <3>3. QED
      BY <3>2 DEF LockInv, Alone
  <2>4. QED
    BY <2>1, <2>2, <2>3 DEF Alone
<1>5. ASSUME NEW j \in Invoices, NEW o \in Conns, Locked(j, o)' PROVE Locked(j, o) \/ (j = i /\ o = k)
  BY <1>1, <1>2, <1>5 DEF Locked
<1>6. \A o \in Conns : o # k => ~Locked(i, o)
  BY <1>1 DEF TryLock
<1>7. OneLock'
  BY <1>5, <1>6 DEF OneLock, LockInv
<1>8. QED
  BY <1>4, <1>7 DEF LockInv

LEMMA LoopLocks ==
  ASSUME Struct, LockInv, NEW w \in Workers, NEW e \in worker[w].batch, NEW k \in Conns, LockReminder(w, e, k)
  PROVE  LockInv'
<1> DEFINE i == mail[e.row].inv
<1>1. /\ TryLock(i, k) /\ clerk' = clerk /\ mail' = mail /\ leaked' = leaked
      /\ InHands(w, e, "check", k)
  BY DEF LockReminder
<1>2. /\ worker'[w].conn = k /\ worker'[w].cur = e /\ k # NoOne
      /\ \A v \in Workers : v # w => worker'[v] = worker[v]
  BY <1>1, Numbers DEF Struct, Columns, Loop, InHands
<1>4. Alone'
  BY <1>1, <1>2 DEF Alone, LockInv, TryLock, InUse
<1>5. ASSUME NEW j \in Invoices, NEW o \in Conns, Locked(j, o)' PROVE Locked(j, o) \/ (j = i /\ o = k)
  BY <1>1, <1>2, <1>5 DEF Locked
<1>6. \A o \in Conns : o # k => ~Locked(i, o)
  BY <1>1 DEF TryLock
<1>7. OneLock'
  BY <1>5, <1>6 DEF OneLock, LockInv
<1>8. QED
  BY <1>4, <1>7 DEF LockInv

\* The connection goes back to the pool, and the lock with it.
LEMMA LockLeaks ==
  ASSUME Struct, LockInv, NEW c \in Clerks, RefusePending(c) \/ PendingUnknown(c)
  PROVE  LockInv'
<1> DEFINE i == clerk[c].inv
           k == clerk[c].conn
<1>1. /\ worker' = worker /\ mail' = mail /\ clerk[c].pc = "locked"
      /\ leaked' = [leaked EXCEPT ![k] = @ \cup {i}] /\ clerk' = [clerk EXCEPT ![c] = NoRequest]
  BY DEF RefusePending, PendingUnknown, Answer
<1>2. k \in Conns
  BY <1>1, OnConn DEF Struct, RequestOf
<1>3. clerk'[c] = NoRequest /\ \A d \in Clerks : d # c => clerk'[d] = clerk[d]
  BY <1>1 DEF Struct, Columns
<1>4. Alone'
  BY <1>1, <1>3 DEF Alone, LockInv, NoRequest
<1>5. ASSUME NEW j \in Invoices, NEW o \in Conns, Locked(j, o)' PROVE Locked(j, o)
  <2>1. j \in leaked'[o] => Locked(j, o)
    BY <1>1, <1>2 DEF Locked, Struct, Columns
  <2>2. \A d \in Clerks : clerk'[d].conn = o /\ clerk'[d].inv = j => Locked(j, o)
    BY <1>3, Numbers DEF Locked, NoRequest
  <2>3. QED
    BY <1>1, <1>5, <2>1, <2>2 DEF Locked
<1>6. OneLock'
  BY <1>5 DEF OneLock, LockInv
<1>7. QED
  BY <1>4, <1>6 DEF LockInv

LEMMA LockStep == Struct /\ LockInv /\ Next => LockInv'
<1> SUFFICES ASSUME Struct, LockInv, Next PROVE LockInv'
    OBVIOUS
<1>1. RowsKept /\ Columns
  BY RowsStep DEF RowsOK, Struct
<1>2. ASSUME \A w \in Workers : worker'[w].conn = NoOne \/ KeepsHand(w),
             \A c \in Clerks : clerk'[c].conn = NoOne \/ KeepsLock(c),
             \A k \in Conns : leaked'[k] \subseteq leaked[k]
      PROVE  LockInv'
  BY <1>1, <1>2, LocksShrink
<1>3. CASE InvoiceNext
  <2>1. worker' = worker /\ clerk' = clerk /\ leaked' = leaked
    BY <1>3 DEF InvoiceNext, Pay, ReversePayment, CancelInvoice, DunningDaysPass, Anonymize
  <2>2. QED
    BY <1>2, <2>1 DEF KeepsHand, KeepsLock
<1>4. ASSUME NEW k \in Conns, RecycleConn(k) PROVE LockInv'
  BY <1>1, <1>2, <1>4 DEF RecycleConn, KeepsHand, KeepsLock, Columns
<1>5. ASSUME NEW c \in Clerks, ClerkNext(c) PROVE LockInv'
  <2>1. ASSUME NEW k \in Conns, TakeReminderLock(c, k) PROVE LockInv'
    BY <2>1, ClerkLocks
  <2>2. CASE RefusePending(c) \/ PendingUnknown(c)
    BY <2>2, LockLeaks
  <2>3. ASSUME worker' = worker, leaked' = leaked, clerk'[c].conn = NoOne \/ KeepsLock(c),
               \A d \in Clerks : d # c => clerk'[d] = clerk[d]
        PROVE  LockInv'
    BY <1>2, <2>3 DEF KeepsHand, KeepsLock
  <2>4. CASE Answer(c) /\ worker' = worker /\ leaked' = leaked
    BY <1>1, <2>3, <2>4 DEF Answer, NoRequest, Columns
  <2>5. CASE (\E i \in Invoices : BeginReminder(c, i) \/ BeginInvoiceMail(c, i)) \/ (\E r \in MailIds : BeginRetry(c, r))
    <3>1. ASSUME NEW m, m.conn = NoOne, Begin(c, m) PROVE LockInv'
      BY <1>1, <2>3, <3>1 DEF Begin, Columns
    <3>2. ASSUME NEW i \in Invoices, BeginReminder(c, i) PROVE LockInv'
      BY <3>1, <3>2 DEF BeginReminder, NoRequest
    <3>3. ASSUME NEW i \in Invoices, BeginInvoiceMail(c, i) PROVE LockInv'
      BY <3>1, <3>3 DEF BeginInvoiceMail, NoRequest
    <3>4. ASSUME NEW r \in MailIds, BeginRetry(c, r) PROVE LockInv'
      BY <3>1, <3>4 DEF BeginRetry, NoRequest
    <3>5. QED
      BY <2>5, <3>2, <3>3, <3>4
  <2>6. CASE PassPending(c)
    BY <1>1, <2>3, <2>6 DEF PassPending, KeepsLock, Columns, Request
  <2>7. CASE SendReminder(c)
    <3>1. Answer(c) \/ (KeepsLock(c) /\ \A d \in Clerks : d # c => clerk'[d] = clerk[d])
      <4> DEFINE level == NextLevel(clerk[c].inv)
      <4>1. Answer(c) \/ clerk' = [clerk EXCEPT ![c].pc = "booking", ![c].level = level]
        BY <2>7 DEF SendReminder
      <4> HIDE DEF level
      <4>2. QED
        BY <1>1, <4>1 DEF KeepsLock, Columns, Request
    <3>2. worker' = worker /\ leaked' = leaked
      BY <2>7 DEF SendReminder
    <3>3. QED
      BY <2>3, <2>4, <3>1, <3>2
  <2>8. CASE BookReminder(c) \/ QueueInvoiceMail(c) \/ RequeueFailed(c) \/ GiveUp(c)
    BY <2>4, <2>8 DEF BookReminder, QueueInvoiceMail, RequeueFailed, GiveUp
  <2>9. QED
    BY <1>5, <2>1, <2>2, <2>5, <2>6, <2>7, <2>8 DEF ClerkNext
<1>6. ASSUME NEW w \in Workers, WorkerNext(w) PROVE LockInv'
  <2>1. ASSUME clerk' = clerk, leaked' = leaked, worker'[w].conn = NoOne \/ KeepsHand(w),
               \A v \in Workers : v # w => worker'[v] = worker[v]
        PROVE  LockInv'
    BY <1>2, <2>1 DEF KeepsHand, KeepsLock
  <2>2. ASSUME NEW e \in worker[w].batch, NEW k \in Conns, LockReminder(w, e, k) PROVE LockInv'
    BY <2>2, LoopLocks
  <2>3. CASE Proceed(w) /\ clerk' = clerk /\ leaked' = leaked
    BY <1>1, <2>1, <2>3 DEF Proceed, Resting, Columns
  <2>4. ASSUME NEW e \in worker[w].batch, PutBack(w, e) PROVE LockInv'
    BY <1>1, <2>1, <2>4 DEF PutBack, Drop, KeepsHand, Columns, Loop
  <2>5. ASSUME NEW e \in worker[w].batch, OpenInvoice(w, e) PROVE LockInv'
    <3>1. (Drop(w, e) \/ InHands(w, e, "smtp", NoOne)) /\ clerk' = clerk /\ leaked' = leaked
      BY <2>5 DEF OpenInvoice
    <3>2. Drop(w, e) => KeepsHand(w) /\ \A v \in Workers : v # w => worker'[v] = worker[v]
      BY <1>1 DEF Drop, KeepsHand, Columns, Loop
    <3>3. InHands(w, e, "smtp", NoOne) => /\ worker'[w].conn = NoOne
                                          /\ \A v \in Workers : v # w => worker'[v] = worker[v]
      BY <1>1 DEF InHands, Columns, Loop
    <3>4. QED
      BY <2>1, <3>1, <3>2, <3>3
  <2>6. CASE ReadDue(w) \/ \E d \in worker[w].due : QueueReminder(w, d)
    <3>1. ASSUME NEW pc, NEW due,
                 \/ worker' = [worker EXCEPT ![w].pc = pc, ![w].due = due]
                 \/ worker' = [worker EXCEPT ![w].due = due, ![w].pc = pc],
                 clerk' = clerk, leaked' = leaked
          PROVE  LockInv'
      BY <1>1, <2>1, <3>1 DEF KeepsHand, Columns, Loop
    <3>2. QED
      BY <2>6, <3>1 DEF ReadDue, QueueReminder
  <2>7. CASE \E r \in MailIds : MarkInterrupted(w, r)
    BY <1>1, <2>1, <2>7 DEF MarkInterrupted, KeepsHand
  <2>8. CASE \E rows \in SUBSET MailIds : Claim(w, rows)
    <3>1. ASSUME NEW pc, NEW batch, worker' = [worker EXCEPT ![w].pc = pc, ![w].batch = batch],
                 clerk' = clerk, leaked' = leaked
          PROVE  LockInv'
      BY <1>1, <2>1, <3>1 DEF KeepsHand, Columns, Loop
    <3>2. QED
      BY <2>8, <3>1 DEF Claim
  <2>9. CASE CheckDue(w)
    BY <1>1, <2>1, <2>9 DEF CheckDue, KeepsHand, Columns, Loop
  <2>10. CASE Transmit(w)
    <3>1. (Proceed(w) \/ worker' = [worker EXCEPT ![w].pc = "sent"]) /\ clerk' = clerk /\ leaked' = leaked
      BY <2>10 DEF Transmit
    <3>2. QED
      BY <1>1, <2>1, <2>3, <3>1 DEF KeepsHand, Columns, Loop
  <2>11. CASE RejectReminder(w) \/ TransmitFails(w) \/ MarkSent(w) \/ MarkSentOnly(w)
    BY <2>3, <2>11 DEF RejectReminder, TransmitFails, MarkSent, MarkSentOnly
  <2>12. CASE Interrupt(w)
    BY <1>1, <2>1, <2>12 DEF Interrupt, Resting, Columns
  <2>13. QED
    BY <1>6, <2>2, <2>4, <2>5, <2>6, <2>7, <2>8, <2>9, <2>10, <2>11, <2>12
       DEF WorkerNext, Deliver, Carry
<1>7. QED
  BY <1>3, <1>4, <1>5, <1>6 DEF Next

LEMMA LockInvariant == Spec => []LockInv
<1>1. Init => LockInv
  BY Numbers DEF Init, LockInv, Alone, OneLock, Locked, Resting, NoRequest
<1>2. Struct /\ LockInv /\ [Next]_vars => LockInv'
  <2>1. ASSUME LockInv, UNCHANGED vars PROVE LockInv'
    BY <2>1 DEF vars, LockInv, Alone, OneLock, Locked
  <2>2. QED
    BY <2>1, LockStep
<1>3. QED
  BY <1>1, <1>2, Structure, PTL DEF Spec

LEMMA LockExcludes == Struct /\ LockInv => ReminderExclusive
<1> SUFFICES ASSUME Struct, LockInv, NEW i \in Invoices
             PROVE  /\ \A v, w \in Workers : LoopReminds(v, i) /\ LoopReminds(w, i) => v = w
                    /\ \A c, d \in Clerks : ClickReminds(c, i) /\ ClickReminds(d, i) => c = d
                    /\ \A w \in Workers, c \in Clerks : ~(LoopReminds(w, i) /\ ClickReminds(c, i))
    BY DEF ReminderExclusive
<1>1. ASSUME NEW w \in Workers, LoopReminds(w, i)
      PROVE  worker[w].conn \in Conns /\ Locked(i, worker[w].conn)
  <2>1. worker[w].conn # NoOne
    BY <1>1 DEF LoopReminds, Struct, HandOf, Handling
  <2>2. QED
    BY <1>1, <2>1, OnConn DEF LoopReminds, Locked
<1>2. ASSUME NEW c \in Clerks, ClickReminds(c, i)
      PROVE  clerk[c].conn \in Conns /\ Locked(i, clerk[c].conn)
  <2>1. clerk[c].conn # NoOne
    BY <1>2 DEF ClickReminds, Struct, RequestOf
  <2>2. QED
    BY <1>2, <2>1, OnConn DEF ClickReminds, Locked
<1>3. QED
  BY <1>1, <1>2, Numbers DEF LockInv, Alone, OneLock

(* Between the check of the level and the end of its delivery nobody else sends *)
(* a reminder of the same invoice: neither another loop nor the button          *)
(* (withReminderLock, RemindInvoice), although connections go back into the     *)
(* pool with the lock.                                                          *)
THEOREM RemindersExclude == Spec => []ReminderExclusive
BY LockInvariant, LockExcludes, Structure, PTL

-----------------------------------------------------------------------------
(* How a mail gets under way, and how a click comes to book.                 *)

LEMMA Underway ==
  ASSUME Struct, Next, NEW v \in Workers, worker'[v].pc \in {"smtp", "sent"}
  PROVE  \/ worker'[v] = worker[v]
         \/ CheckDue(v) /\ worker'[v].pc = "smtp" /\ worker'[v].cur = worker[v].cur
         \/ Transmit(v) /\ worker'[v].pc = "sent" /\ worker'[v].cur = worker[v].cur
         \/ \E e \in worker[v].batch :
              /\ OpenInvoice(v, e) /\ worker'[v].pc = "smtp" /\ worker'[v].cur = e
              /\ mail' = mail /\ invoice[mail[e.row].inv] # "canceled"
<1> DEFINE Goal == \/ worker'[v] = worker[v]
                   \/ CheckDue(v) /\ worker'[v].pc = "smtp" /\ worker'[v].cur = worker[v].cur
                   \/ Transmit(v) /\ worker'[v].pc = "sent" /\ worker'[v].cur = worker[v].cur
                   \/ \E e \in worker[v].batch :
                        /\ OpenInvoice(v, e) /\ worker'[v].pc = "smtp" /\ worker'[v].cur = e
                        /\ mail' = mail /\ invoice[mail[e.row].inv] # "canceled"
<1>1. Columns
  BY DEF Struct
<1>2. CASE InvoiceNext
  BY <1>2 DEF InvoiceNext, Pay, ReversePayment, CancelInvoice, DunningDaysPass, Anonymize
<1>3. ASSUME NEW c \in Clerks, ClerkNext(c) PROVE Goal
  BY <1>3
     DEF ClerkNext, Begin, BeginReminder, BeginInvoiceMail, BeginRetry, TakeReminderLock,
         RefusePending, PendingUnknown, PassPending, SendReminder, BookReminder, GiveUp,
         QueueInvoiceMail, RequeueFailed
<1>4. ASSUME NEW k \in Conns, RecycleConn(k) PROVE Goal
  BY <1>4 DEF RecycleConn
<1>5. ASSUME NEW w \in Workers, WorkerNext(w), w # v PROVE Goal
  BY <1>1, <1>5
     DEF WorkerNext, ReadDue, QueueReminder, MarkInterrupted, Claim, Deliver, PutBack, OpenInvoice,
         LockReminder, Carry, CheckDue, RejectReminder, Transmit, TransmitFails, MarkSent,
         MarkSentOnly, Interrupt, Proceed, Drop, InHands, Columns
<1>6. ASSUME WorkerNext(v) PROVE Goal
  <2>1. ASSUME NEW e \in worker[v].batch, OpenInvoice(v, e) PROVE Goal
    <3>1. Drop(v, e) => worker'[v].pc \notin {"smtp", "sent"}
      BY <1>1, <2>1 DEF OpenInvoice, Drop, Columns, Loop
    <3>2. InHands(v, e, "smtp", NoOne) => worker'[v].pc = "smtp" /\ worker'[v].cur = e
      BY <1>1 DEF InHands, Columns, Loop
    <3>3. QED
      BY <2>1, <3>1, <3>2 DEF OpenInvoice
  <2>2. CASE Transmit(v) /\ worker' = [worker EXCEPT ![v].pc = "sent"]
    BY <1>1, <2>2 DEF Columns, Loop
  <2>3. CASE CheckDue(v)
    BY <1>1, <2>3 DEF CheckDue, Columns, Loop
  <2>4. CASE Proceed(v)
    BY <1>1, <2>4 DEF Proceed, Resting, Columns
  <2>5. CASE ReadDue(v) \/ (\E d \in worker[v].due : QueueReminder(v, d))
    <3>1. ASSUME NEW pc \in {"idle", "dunning"}, NEW due,
                 \/ worker' = [worker EXCEPT ![v].pc = pc, ![v].due = due]
                 \/ worker' = [worker EXCEPT ![v].due = due, ![v].pc = pc]
          PROVE  FALSE
      BY <1>1, <3>1 DEF Columns, Loop
    <3>2. QED
      BY <2>5, <3>1 DEF ReadDue, QueueReminder
  <2>6. CASE \E rows \in SUBSET MailIds : Claim(v, rows)
    <3>1. ASSUME NEW batch, worker' = [worker EXCEPT ![v].pc = "batch", ![v].batch = batch] PROVE FALSE
      BY <1>1, <3>1 DEF Columns, Loop
    <3>2. QED
      BY <2>6, <3>1 DEF Claim
  <2>7. CASE \E r \in MailIds : MarkInterrupted(v, r)
    BY <2>7 DEF MarkInterrupted
  <2>8. CASE \E e \in worker[v].batch : PutBack(v, e)
    BY <1>1, <2>8 DEF PutBack, Drop, Columns, Loop
  <2>9. CASE \E e \in worker[v].batch : \E k \in Conns : LockReminder(v, e, k)
    BY <1>1, <2>9 DEF LockReminder, InHands, Columns, Loop
  <2>10. CASE Interrupt(v)
    BY <1>1, <2>10 DEF Interrupt, Resting, Columns
  <2>11. QED
    BY <1>6, <2>1, <2>2, <2>3, <2>4, <2>5, <2>6, <2>7, <2>8, <2>9, <2>10
       DEF WorkerNext, Deliver, Carry, RejectReminder, Transmit, TransmitFails, MarkSent, MarkSentOnly
<1>7. QED
  BY <1>2, <1>3, <1>4, <1>5, <1>6 DEF Next

LEMMA Booking ==
  ASSUME Struct, Next, NEW d \in Clerks, clerk'[d].pc = "booking"
  PROVE  \/ clerk'[d] = clerk[d]
         \/ /\ SendReminder(d) /\ clerk'[d].inv = clerk[d].inv
            /\ clerk'[d].level = NextLevel(clerk[d].inv)
<1> DEFINE Goal == \/ clerk'[d] = clerk[d]
                   \/ /\ SendReminder(d) /\ clerk'[d].inv = clerk[d].inv
                      /\ clerk'[d].level = NextLevel(clerk[d].inv)
<1>1. Columns
  BY DEF Struct
<1>2. CASE InvoiceNext
  BY <1>2 DEF InvoiceNext, Pay, ReversePayment, CancelInvoice, DunningDaysPass, Anonymize
<1>3. ASSUME NEW w \in Workers, WorkerNext(w) PROVE Goal
  BY <1>3
     DEF WorkerNext, ReadDue, QueueReminder, MarkInterrupted, Claim, Deliver, PutBack, OpenInvoice,
         LockReminder, Carry, CheckDue, RejectReminder, Transmit, TransmitFails, MarkSent,
         MarkSentOnly, Interrupt
<1>4. ASSUME NEW k \in Conns, RecycleConn(k) PROVE Goal
  BY <1>4 DEF RecycleConn
<1>5. ASSUME NEW c \in Clerks, Answer(c) PROVE Goal
  BY <1>1, <1>5 DEF Answer, NoRequest, Columns
<1>6. ASSUME NEW c \in Clerks, NEW m, m.pc # "booking", Begin(c, m) PROVE Goal
  BY <1>1, <1>6 DEF Begin, Columns
<1>7. ASSUME NEW c \in Clerks, ClerkNext(c) PROVE Goal
  <2>1. ASSUME NEW i \in Invoices, BeginReminder(c, i) PROVE Goal
    BY <1>6, <2>1 DEF BeginReminder, NoRequest
  <2>2. ASSUME NEW i \in Invoices, BeginInvoiceMail(c, i) PROVE Goal
    BY <1>6, <2>2 DEF BeginInvoiceMail, NoRequest
  <2>3. ASSUME NEW r \in MailIds, BeginRetry(c, r) PROVE Goal
    BY <1>6, <2>3 DEF BeginRetry, NoRequest
  <2>4. CASE PassPending(c) \/ \E k \in Conns : TakeReminderLock(c, k)
    <3>1. CASE PassPending(c)
      BY <1>1, <3>1 DEF PassPending, Columns, Request
    <3>2. ASSUME NEW k \in Conns, TakeReminderLock(c, k) PROVE Goal
      <4>1. clerk' = [clerk EXCEPT ![c].pc = "locked", ![c].conn = k]
        BY <3>2 DEF TakeReminderLock
      <4>2. QED
        BY <1>1, <4>1 DEF Columns, Request
    <3>3. QED
      BY <2>4, <3>1, <3>2
  <2>5. CASE SendReminder(c)
    <3> DEFINE level == NextLevel(clerk[c].inv)
    <3>1. Answer(c) \/ clerk' = [clerk EXCEPT ![c].pc = "booking", ![c].level = level]
      BY <2>5 DEF SendReminder
    <3> HIDE DEF level
    <3>2. Answer(c) \/ (clerk'[c].inv = clerk[c].inv /\ clerk'[c].level = level)
      BY <1>1, <3>1 DEF Columns, Request
    <3>3. d # c => Answer(c) \/ clerk'[d] = clerk[d]
      BY <1>1, <3>1 DEF Columns
    <3>4. QED
      BY <1>5, <2>5, <3>2, <3>3 DEF level
  <2>6. QED
    BY <1>5, <1>7, <2>1, <2>2, <2>3, <2>4, <2>5
       DEF ClerkNext, RefusePending, PendingUnknown, BookReminder, GiveUp, QueueInvoiceMail, RequeueFailed
<1>8. QED
  BY <1>2, <1>3, <1>4, <1>7 DEF Next

-----------------------------------------------------------------------------
(* The Storno and the delivery.                                              *)

Mailing(w) == worker[w].pc \in {"smtp", "sent"} /\ mail[worker[w].cur.row].kind = "invoice"

LEMMA CanceledStep == Struct /\ CanceledNotMailed /\ Next => CanceledNotMailed'
<1> SUFFICES ASSUME Struct, CanceledNotMailed, Next, NEW v \in Workers, Mailing(v)'
             PROVE  invoice'[mail'[worker'[v].cur.row].inv] # "canceled"
    BY DEF CanceledNotMailed, Mailing
<1>1. RowsKept /\ Columns
  BY RowsStep DEF RowsOK, Struct
<1>2. \A r \in 1 .. nMail : mail'[r].kind = mail[r].kind /\ mail'[r].inv = mail[r].inv
  BY <1>1 DEF RowsKept
<1>3. Handling(worker[v]) => worker[v].cur.row \in 1 .. nMail
  BY DEF Struct, HandOf
<1>4. \A i \in Invoices : invoice'[i] = "canceled" => invoice[i] = "canceled" \/ ~RowLocked(i)
  <2>1. CASE InvoiceNext
    BY <1>1, <2>1
       DEF InvoiceNext, Pay, ReversePayment, CancelInvoice, DunningDaysPass, Anonymize, Columns
  <2>2. ASSUME NEW c \in Clerks, ClerkNext(c) PROVE invoice' = invoice
    BY <2>2
       DEF ClerkNext, Begin, BeginReminder, BeginInvoiceMail, BeginRetry, TakeReminderLock,
           RefusePending, PendingUnknown, PassPending, SendReminder, BookReminder, GiveUp,
           QueueInvoiceMail, RequeueFailed
  <2>3. ASSUME NEW w \in Workers, WorkerNext(w) PROVE invoice' = invoice
    BY <2>3
       DEF WorkerNext, ReadDue, QueueReminder, MarkInterrupted, Claim, Deliver, PutBack, OpenInvoice,
           LockReminder, Carry, CheckDue, RejectReminder, Transmit, TransmitFails, MarkSent,
           MarkSentOnly, Interrupt
  <2>4. ASSUME NEW k \in Conns, RecycleConn(k) PROVE invoice' = invoice
    BY <2>4 DEF RecycleConn
  <2>5. QED
    BY <2>1, <2>2, <2>3, <2>4 DEF Next
<1>5. ASSUME worker[v].pc \in {"smtp", "sent"}, worker'[v].cur = worker[v].cur
      PROVE  invoice'[mail'[worker'[v].cur.row].inv] # "canceled"
  <2> DEFINE i == mail[worker[v].cur.row].inv
  <2>1. worker[v].cur.row \in 1 .. nMail
    BY <1>3, <1>5 DEF Handling
  <2>2. Mailing(v) /\ mail'[worker'[v].cur.row].inv = i /\ i \in Invoices
    BY <1>2, <1>5, <2>1 DEF Mailing, Struct, RowsNamed
  <2>3. invoice[i] # "canceled" /\ RowLocked(i)
    BY <2>2 DEF CanceledNotMailed, RowLocked, Mailing
  <2>4. QED
    BY <1>4, <2>2, <2>3
<1>6. ASSUME NEW e \in worker[v].batch, OpenInvoice(v, e), worker'[v].cur = e, mail' = mail,
             invoice[mail[e.row].inv] # "canceled"
      PROVE  invoice'[mail'[worker'[v].cur.row].inv] # "canceled"
  BY <1>6 DEF OpenInvoice
<1>7. CheckDue(v) /\ worker'[v].cur = worker[v].cur => ~Mailing(v)'
  BY DEF CheckDue, Mailing, Struct, HandOf, Handling
<1>8. QED
  BY <1>5, <1>6, <1>7, Underway DEF Mailing, Transmit

(* No invoice is cancelled from the moment its delivery checked it until its    *)
(* outcome is booked: deliverInvoice keeps its row locked, and the Storno waits. *)
THEOREM StornoWaits == Spec => []CanceledNotMailed
<1>1. Init => CanceledNotMailed
  BY DEF Init, CanceledNotMailed, Resting
<1>2. CanceledNotMailed /\ UNCHANGED vars => CanceledNotMailed'
  BY DEF vars, CanceledNotMailed
<1>3. QED
  BY <1>1, <1>2, CanceledStep, Structure, PTL DEF Spec

-----------------------------------------------------------------------------
(* The ladder.                                                               *)

\* Loop w, or click c, has level l of invoice i on its way; gone once it left.
OnRung(i, l, gone) == l = NextLevel(i) /\ (gone => reached[i] = l)
LoopRung(w) ==
    LET row == mail[worker[w].cur.row] IN
    worker[w].pc \in {"smtp", "sent"} /\ row.kind = "reminder"
        => OnRung(row.inv, row.level, worker[w].pc = "sent")
ClickRung(c) == clerk[c].pc = "booking" => OnRung(clerk[c].inv, clerk[c].level, TRUE)
LadderInv ==
    /\ \A i \in Invoices : reached[i] <= NextLevel(i)
    /\ \A w \in Workers : LoopRung(w)
    /\ \A c \in Clerks : ClickRung(c)

\* What a step does to the ladder: a level leaves, or is booked, or neither.
Sends(i) == reached' = [reached EXCEPT ![i] = NextLevel(i)] /\ booked' = booked
Books(i) == /\ reached[i] = NextLevel(i) /\ reached' = reached
            /\ booked' = [booked EXCEPT ![i] = Append(@, NextLevel(i))]

LEMMA NextLevels ==
  ASSUME Columns, NEW i \in Invoices
  PROVE  /\ NextLevel(i) \in 1 .. 3 /\ reached[i] \in 0 .. 3
         /\ Books(i) => NextLevel(i)' \in 1 .. 3 /\ NextLevel(i) <= NextLevel(i)'
         /\ booked'[i] = booked[i] => NextLevel(i)' = NextLevel(i)
         /\ Larger(reached[i], NextLevel(i)) = IF reached[i] <= NextLevel(i) THEN NextLevel(i) ELSE reached[i]
<1>1. NextLevel(i) \in 1 .. 3 /\ reached[i] \in 0 .. 3
  BY NextLevelType DEF Levels, Columns
<1>2. ASSUME Books(i) PROVE NextLevel(i)' \in 1 .. 3 /\ NextLevel(i) <= NextLevel(i)'
  <2>1. booked[i] \in Seq(Levels) /\ NextLevel(i) \in Levels
    BY NextLevelType DEF Columns
  <2>2. booked'[i] = Append(booked[i], NextLevel(i))
    BY <1>2 DEF Books, Columns
  <2>3. Len(booked'[i]) = Len(booked[i]) + 1 /\ Len(booked[i]) \in Nat
    BY <2>1, <2>2
  <2>4. QED
    BY <2>3 DEF NextLevel, Smaller
<1>3. booked'[i] = booked[i] => NextLevel(i)' = NextLevel(i)
  BY DEF NextLevel, Smaller
<1>4. Larger(reached[i], NextLevel(i)) = IF reached[i] <= NextLevel(i) THEN NextLevel(i) ELSE reached[i]
  BY <1>1 DEF Larger
<1>5. QED
  BY <1>1, <1>2, <1>3, <1>4

LEMMA LoopReminder ==
  ASSUME Struct, NEW w \in Workers, worker[w].pc \in {"smtp", "sent"}, mail[worker[w].cur.row].kind = "reminder"
  PROVE  /\ worker[w].cur.row \in 1 .. nMail /\ mail[worker[w].cur.row].inv \in Invoices
         /\ LoopReminds(w, mail[worker[w].cur.row].inv)
BY DEF Struct, HandOf, Handling, RowsNamed, LoopReminds

\* Whoever carries level NextLevel(i), its step is a step of the ladder.
LEMMA Rungs ==
  ASSUME Struct, LadderInv, Next
  PROVE  \/ UNCHANGED <<booked, reached>>
         \/ \E i \in Invoices : Sends(i)
         \/ \E i \in Invoices : /\ Books(i)
               /\ \/ \E w \in Workers : LoopReminds(w, i) /\ worker'[w].pc \notin {"smtp", "sent"}
                  \/ \E c \in Clerks : ClickReminds(c, i) /\ clerk'[c].pc # "booking"
<1> DEFINE Climbs == \/ \E i \in Invoices : Sends(i)
                     \/ \E i \in Invoices : /\ Books(i)
                           /\ \/ \E w \in Workers : LoopReminds(w, i) /\ worker'[w].pc \notin {"smtp", "sent"}
                              \/ \E c \in Clerks : ClickReminds(c, i) /\ clerk'[c].pc # "booking"
<1>1. Columns
  BY DEF Struct
<1>2. ASSUME NEW c \in Clerks, SendReminder(c) PROVE Climbs
  <2> DEFINE i == clerk[c].inv
  <2>1. i \in Invoices /\ Leaves(i, NextLevel(i)) /\ booked' = booked
    BY <1>2 DEF SendReminder, Struct, RequestOf
  <2>2. Larger(reached[i], NextLevel(i)) = NextLevel(i)
    BY <1>1, <2>1, NextLevels DEF LadderInv
  <2>3. Sends(i)
    BY <2>1, <2>2 DEF Leaves, Sends
  <2>4. QED
    BY <2>1, <2>3
<1>3. ASSUME NEW c \in Clerks, BookReminder(c) PROVE Climbs
  <2> DEFINE i == clerk[c].inv
  <2>1. i \in Invoices /\ Book(i, clerk[c].level) /\ reached' = reached /\ Answer(c)
        /\ clerk[c].pc = "booking"
    BY <1>3 DEF BookReminder, Struct, RequestOf
  <2>2. clerk[c].level = NextLevel(i) /\ reached[i] = NextLevel(i)
    BY <2>1 DEF LadderInv, ClickRung, OnRung
  <2>3. Books(i)
    BY <2>1, <2>2 DEF Book, Books
  <2>4. ClickReminds(c, i) /\ clerk'[c].pc # "booking"
    BY <1>1, <2>1 DEF ClickReminds, Answer, NoRequest, Columns
  <2>5. QED
    BY <2>1, <2>3, <2>4
<1>4. ASSUME NEW w \in Workers, Transmit(w), mail[worker[w].cur.row].kind = "reminder" PROVE Climbs
  <2> DEFINE i == mail[worker[w].cur.row].inv
             l == mail[worker[w].cur.row].level
  <2>1. i \in Invoices /\ Leaves(i, l) /\ booked' = booked /\ worker[w].pc = "smtp"
    BY <1>4, LoopReminder DEF Transmit
  <2>2. l = NextLevel(i)
    BY <1>4, <2>1 DEF LadderInv, LoopRung, OnRung
  <2>3. Larger(reached[i], NextLevel(i)) = NextLevel(i)
    BY <1>1, <2>1, NextLevels DEF LadderInv
  <2>4. Sends(i)
    BY <2>1, <2>2, <2>3 DEF Leaves, Sends
  <2>5. QED
    BY <2>1, <2>4
<1>5. ASSUME NEW w \in Workers, MarkSent(w), mail[worker[w].cur.row].kind = "reminder" PROVE Climbs
  <2> DEFINE i == mail[worker[w].cur.row].inv
             l == mail[worker[w].cur.row].level
  <2>1. i \in Invoices /\ Book(i, l) /\ reached' = reached /\ worker[w].pc = "sent" /\ LoopReminds(w, i)
        /\ Proceed(w)
    BY <1>5, LoopReminder DEF MarkSent
  <2>2. l = NextLevel(i) /\ reached[i] = NextLevel(i)
    BY <1>5, <2>1 DEF LadderInv, LoopRung, OnRung
  <2>3. Books(i)
    BY <2>1, <2>2 DEF Book, Books
  <2>4. worker'[w].pc \notin {"smtp", "sent"}
    BY <1>1, <2>1 DEF Proceed, Resting, Columns
  <2>5. QED
    BY <2>1, <2>3, <2>4
<1>6. ASSUME InvoiceNext PROVE UNCHANGED <<booked, reached>>
  BY <1>6 DEF InvoiceNext, Pay, ReversePayment, CancelInvoice, DunningDaysPass, Anonymize
<1>7. ASSUME NEW c \in Clerks, ClerkNext(c) PROVE UNCHANGED <<booked, reached>> \/ SendReminder(c) \/ BookReminder(c)
  BY <1>7
     DEF ClerkNext, Begin, BeginReminder, BeginInvoiceMail, BeginRetry, TakeReminderLock,
         RefusePending, PendingUnknown, PassPending, GiveUp, QueueInvoiceMail, RequeueFailed
<1>8. ASSUME NEW w \in Workers, WorkerNext(w)
      PROVE  \/ UNCHANGED <<booked, reached>>
             \/ (Transmit(w) \/ MarkSent(w)) /\ mail[worker[w].cur.row].kind = "reminder"
  BY <1>8
     DEF WorkerNext, ReadDue, QueueReminder, MarkInterrupted, Claim, Deliver, PutBack, OpenInvoice,
         LockReminder, Carry, CheckDue, RejectReminder, Transmit, TransmitFails, MarkSent,
         MarkSentOnly, Interrupt
<1>9. ASSUME NEW k \in Conns, RecycleConn(k) PROVE UNCHANGED <<booked, reached>>
  BY <1>9 DEF RecycleConn
<1>10. QED
  BY <1>2, <1>3, <1>4, <1>5, <1>6, <1>7, <1>8, <1>9 DEF Next

LEMMA RungStays ==
  ASSUME Struct, NEW i \in Invoices, NEW l, NEW gone \in BOOLEAN, OnRung(i, l, gone),
         UNCHANGED <<booked, reached>> \/ (\E j \in Invoices : Sends(j)) \/ (\E j \in Invoices \ {i} : Books(j))
  PROVE  l = NextLevel(i)' /\ (gone => reached'[i] = l)
<1>1. booked \in [Invoices -> Seq(Levels)] /\ reached \in [Invoices -> 0 .. 3] /\ Columns
  BY DEF Struct, Columns
<1>2. booked'[i] = booked[i]
  BY <1>1 DEF Sends, Books
<1>3. NextLevel(i)' = NextLevel(i)
  BY <1>1, <1>2, NextLevels
<1>4. reached'[i] = reached[i] \/ reached'[i] = NextLevel(i)
  BY <1>1 DEF Sends, Books
<1>5. QED
  BY <1>3, <1>4 DEF OnRung

LEMMA LadderStep ==
  ASSUME Struct, Struct', ReminderExclusive, LadderInv, Next
  PROVE  LadderInv'
<1>1. RowsKept /\ Columns
  BY RowsStep DEF RowsOK, Struct
<1>2. ASSUME NEW i \in Invoices PROVE reached'[i] <= NextLevel(i)'
  <2>1. /\ NextLevel(i) \in 1 .. 3 /\ reached[i] \in 0 .. 3 /\ reached[i] <= NextLevel(i)
        /\ Books(i) => NextLevel(i)' \in 1 .. 3 /\ NextLevel(i) <= NextLevel(i)'
        /\ booked'[i] = booked[i] => NextLevel(i)' = NextLevel(i)
    BY <1>1, NextLevels DEF LadderInv
  <2>2. CASE UNCHANGED <<booked, reached>>
    BY <2>1, <2>2
  <2>3. ASSUME NEW j \in Invoices, Sends(j) PROVE reached'[i] <= NextLevel(i)'
    <3>1. booked' = booked /\ reached'[i] = IF i = j THEN NextLevel(i) ELSE reached[i]
      BY <1>1, <2>3 DEF Sends, Columns
    <3>2. QED
      BY <2>1, <3>1
  <2>4. ASSUME NEW j \in Invoices, Books(j) PROVE reached'[i] <= NextLevel(i)'
    <3>1. reached' = reached /\ (i # j => booked'[i] = booked[i])
      BY <1>1, <2>4 DEF Books, Columns
    <3>2. QED
      BY <2>1, <2>4, <3>1
  <2>5. QED
    BY <2>2, <2>3, <2>4, Rungs
\* Nobody else books while a level of i is on its way.
<1>3. ASSUME NEW w \in Workers, NEW i \in Invoices, LoopReminds(w, i), worker'[w].pc \in {"smtp", "sent"}
      PROVE  UNCHANGED <<booked, reached>> \/ (\E j \in Invoices : Sends(j)) \/ (\E j \in Invoices \ {i} : Books(j))
  BY <1>3, Rungs DEF ReminderExclusive
<1>4. ASSUME NEW c \in Clerks, NEW i \in Invoices, ClickReminds(c, i), clerk'[c].pc = "booking"
      PROVE  UNCHANGED <<booked, reached>> \/ (\E j \in Invoices : Sends(j)) \/ (\E j \in Invoices \ {i} : Books(j))
  BY <1>4, Rungs DEF ReminderExclusive
<1>5. ASSUME NEW w \in Workers, NEW i \in Invoices, NEW l, worker'[w].pc \in {"smtp", "sent"},
             mail'[worker'[w].cur.row].kind = "reminder",
             mail'[worker'[w].cur.row].inv = i, mail'[worker'[w].cur.row].level = l
      PROVE  l = NextLevel(i)' /\ (worker'[w].pc = "sent" => reached'[i] = l)
  <2> DEFINE r == worker[w].cur.row
  <2>1. /\ Handling(worker[w]) => r \in 1 .. nMail
        /\ r \in 1 .. nMail => /\ mail'[r].kind = mail[r].kind /\ mail'[r].inv = mail[r].inv
                               /\ mail'[r].level = mail[r].level
    BY <1>1 DEF Struct, HandOf, RowsKept
  <2>2. CASE worker'[w] = worker[w]
    <3>1. r \in 1 .. nMail /\ mail[r].inv = i /\ mail[r].level = l /\ mail[r].kind = "reminder"
      BY <1>5, <2>1, <2>2 DEF Handling
    <3>2. LoopReminds(w, i) /\ OnRung(i, l, worker[w].pc = "sent")
      BY <1>5, <2>2, <3>1 DEF LoopReminds, LadderInv, LoopRung
    <3>3. \/ UNCHANGED <<booked, reached>> \/ \E j \in Invoices : Sends(j)
          \/ \E j \in Invoices \ {i} : Books(j)
      BY <1>3, <1>5, <3>2
    <3>4. CASE worker[w].pc = "sent"
      BY <2>2, <3>2, <3>3, <3>4, RungStays DEF OnRung
    <3>5. CASE worker[w].pc # "sent"
      <4>1. OnRung(i, l, FALSE)
        BY <3>2 DEF OnRung
      <4>2. QED
        BY <2>2, <3>3, <3>5, <4>1, RungStays
    <3>6. QED
      BY <3>4, <3>5
  <2>3. CASE CheckDue(w) /\ worker'[w].pc = "smtp" /\ worker'[w].cur = worker[w].cur
    <3>1. l = NextLevel(i) /\ UNCHANGED <<booked, reached>>
      BY <1>5, <2>3 DEF CheckDue, StillDue
    <3>2. NextLevel(i)' = NextLevel(i)
      BY <3>1 DEF NextLevel, Smaller
    <3>3. QED
      BY <2>3, <3>1, <3>2
  <2>4. CASE Transmit(w) /\ worker'[w].pc = "sent" /\ worker'[w].cur = worker[w].cur
    <3>1. worker[w].pc = "smtp" /\ r \in 1 .. nMail
      BY <2>1, <2>4 DEF Transmit, Handling
    <3>2. mail[r].kind = "reminder" /\ mail[r].inv = i /\ mail[r].level = l
      BY <1>5, <2>1, <2>4, <3>1
    <3>3. Leaves(i, l) /\ booked' = booked
      BY <2>4, <3>2 DEF Transmit
    <3>4. l = NextLevel(i)
      BY <3>1, <3>2 DEF LadderInv, LoopRung, OnRung
    <3>5. Larger(reached[i], l) = l
      BY <1>1, <3>4, NextLevels DEF LadderInv
    <3>6. QED
      BY <1>1, <3>3, <3>4, <3>5, NextLevels DEF Leaves, Columns
  <2>5. CASE \E e \in worker[w].batch : OpenInvoice(w, e) /\ worker'[w].cur = e /\ mail' = mail
    BY <1>5, <2>5 DEF OpenInvoice
  <2>6. QED
    BY <1>5, <2>2, <2>3, <2>4, <2>5, Underway
<1>6. ASSUME NEW c \in Clerks, NEW i \in Invoices, NEW l, clerk'[c].pc = "booking",
             clerk'[c].inv = i, clerk'[c].level = l
      PROVE  l = NextLevel(i)' /\ reached'[i] = l
  <2>1. CASE clerk'[c] = clerk[c]
    <3>1. ClickReminds(c, i) /\ OnRung(i, l, TRUE)
      BY <1>6, <2>1 DEF ClickReminds, LadderInv, ClickRung
    <3>2. \/ UNCHANGED <<booked, reached>> \/ \E j \in Invoices : Sends(j)
          \/ \E j \in Invoices \ {i} : Books(j)
      BY <1>4, <1>6, <3>1
    <3>3. TRUE \in BOOLEAN
      OBVIOUS
    <3>4. QED
      BY <3>1, <3>2, <3>3, RungStays
  <2>2. CASE SendReminder(c) /\ clerk'[c].inv = clerk[c].inv /\ clerk'[c].level = NextLevel(clerk[c].inv)
    <3>1. l = NextLevel(i) /\ Leaves(i, l) /\ booked' = booked
      BY <1>6, <2>2 DEF SendReminder
    <3>2. Larger(reached[i], l) = l
      BY <1>1, <3>1, NextLevels DEF LadderInv
    <3>3. QED
      BY <1>1, <3>1, <3>2, NextLevels DEF Leaves, Columns
  <2>3. QED
    BY <1>6, <2>1, <2>2, Booking
<1>7. \A w \in Workers : LoopRung(w)'
  <2>1. \A w \in Workers : worker'[w].pc \in {"smtp", "sent"} => mail'[worker'[w].cur.row].inv \in Invoices
    BY DEF Struct, HandOf, Handling, RowsNamed
  <2>2. QED
    BY <1>5, <2>1 DEF LoopRung, OnRung, NextLevel
<1>8. \A c \in Clerks : ClickRung(c)'
  <2>1. \A c \in Clerks : clerk'[c].pc = "booking" => clerk'[c].inv \in Invoices
    BY DEF Struct, RequestOf
  <2>2. QED
    BY <1>6, <2>1 DEF ClickRung, OnRung, NextLevel
<1>9. QED
  BY <1>2, <1>7, <1>8 DEF LadderInv

LEMMA LadderInit == Init => LadderInv /\ Ladder!Init
<1> SUFFICES ASSUME Init PROVE LadderInv /\ Ladder!Init
    OBVIOUS
<1>1. \A i \in Invoices : reached[i] = 0 /\ Len(booked[i]) = 0
  BY DEF Init
<1>2. \A i \in Invoices : NextLevel(i) = 1
  BY <1>1 DEF NextLevel, Smaller
<1>3. LadderInv
  <2>1. \A w \in Workers : worker[w].pc = "idle"
    BY DEF Init, Resting
  <2>2. \A c \in Clerks : clerk[c].pc = "idle"
    BY DEF Init, NoRequest
  <2>3. \A i \in Invoices : reached[i] <= NextLevel(i)
    BY <1>1, <1>2
  <2>4. (\A w \in Workers : LoopRung(w)) /\ (\A c \in Clerks : ClickRung(c))
    BY <2>1, <2>2 DEF LoopRung, ClickRung
  <2>5. QED
    BY <2>3, <2>4 DEF LadderInv
<1>4. Ladder!Init
  BY DEF Init, Ladder!Init
<1>5. QED
  BY <1>3, <1>4

LEMMA LadderInvariant == Spec => []LadderInv
<1>1. Struct /\ Struct' /\ ReminderExclusive /\ LadderInv /\ [Next]_vars => LadderInv'
  <2>1. ASSUME LadderInv, UNCHANGED vars PROVE LadderInv'
    BY <2>1 DEF vars, LadderInv, LoopRung, ClickRung, OnRung, NextLevel, Smaller
  <2>2. QED
    BY <2>1, LadderStep
<1>2. QED
  BY <1>1, LadderInit, Structure, RemindersExclude, PTL DEF Spec

(* Every behaviour of the outbox and the reminder button climbs the ladder of   *)
(* ReminderLadder: a level leaves only when the one below is booked, and is     *)
(* booked only when it left.                                                   *)
THEOREM OutboxClimbs == Spec => ClimbsTheLadder
<1>1. ASSUME Struct, LadderInv, Next PROVE [Ladder!Next]_<<booked, reached>>
  <2>1. ASSUME NEW i \in Invoices PROVE Ladder!Rung(i) = NextLevel(i)
    <3>1. Len(booked[i]) \in Nat
      BY <1>1 DEF Struct, Columns
    <3>2. QED
      BY <3>1 DEF Ladder!Rung, NextLevel, Smaller
  <2>2. ASSUME NEW i \in Invoices, Sends(i) PROVE Ladder!Send(i)
    BY <2>1, <2>2 DEF Sends, Ladder!Send
  <2>3. ASSUME NEW i \in Invoices, Books(i) PROVE Ladder!Book(i)
    BY <1>1, <2>1, <2>3 DEF Books, Ladder!Book
  <2>4. QED
    BY <1>1, <2>2, <2>3, Rungs DEF Ladder!Next
<1>2. UNCHANGED vars => UNCHANGED <<booked, reached>>
  BY DEF vars
<1>3. QED
  BY <1>1, <1>2, LadderInit, LadderInvariant, Structure, PTL DEF Spec, ClimbsTheLadder, Ladder!Spec

=============================================================================
