----------------------------- MODULE MailQueue -----------------------------
(***************************************************************************)
(* The mail outbox of Parkrr and the reminders (Mahnungen) of invoices.     *)
(*                                                                          *)
(* Mail loops (StartMailQueue) claim rows of mail_outbox and deliver them;  *)
(* clerks send reminders by hand, queue invoices and retry failed mails;    *)
(* meanwhile invoices are paid and cancelled and customers anonymised.      *)
(*                                                                          *)
(* Reminders of one invoice are serialised by a PostgreSQL session lock.    *)
(* It belongs to a pooled connection: a connection that goes back to the    *)
(* pool without unlocking keeps the lock (leaked), and whoever gets that    *)
(* connection next passes the lock again.  Every statement is one step; a   *)
(* mail in flight is a step of its own between two statements.              *)
(***************************************************************************)
EXTENDS Integers, Sequences, FiniteSets

CONSTANTS
    Invoices,      \* invoices, each of a customer of its own
    Workers,       \* mail loops, one per process
    Clerks,        \* concurrent requests of operators
    Conns,         \* connections of the pool that reminders use
    NoOne,         \* no invoice, no connection
    RemindSlots,   \* capacity of remindSlots
    BatchSize,     \* LIMIT of a claim
    MaxRetries,    \* length of outboxBackoff
    MaxMails,      \* bound: rows of mail_outbox
    MaxBooked,     \* bound: reminders booked per invoice
    MaxRequests    \* bound: requests of the clerks

MailIds == 1 .. MaxMails
Levels  == 1 .. 3

ASSUME MailAssumption ==
    /\ NoOne \notin Invoices \cup Conns
    /\ RemindSlots \in Nat /\ BatchSize \in Nat \ {0} /\ MaxRetries \in Nat
    /\ MaxMails \in Nat /\ MaxBooked \in Nat /\ MaxRequests \in Nat

VARIABLES
    invoice,       \* "open" | "paid" | "canceled"
    anonymized,    \* invoices whose customer is anonymised
    waited,        \* invoices whose dunning_days have passed since the last reminder
    booked,        \* invoice_reminders: the levels booked for an invoice, in order
    reached,       \* history: the highest level that ever left for the customer
    nMail, mail,   \* mail_outbox: rows 1..nMail
    worker,        \* mail loops: step, rest of the batch, mail in hand, connection, due list
    clerk,         \* requests: step, invoice, row, level, connection
    requests,      \* requests begun
    leaked         \* session locks a pooled connection still holds, unused

invoiceVars == <<invoice, anonymized, waited>>
ladderVars  == <<booked, reached>>
mailVars    == <<nMail, mail>>
clerkVars   == <<clerk, requests>>
vars == <<invoiceVars, ladderVars, mailVars, worker, clerkVars, leaked>>

\* A claimed mail, as read by the claim: its row, the attempt, and whether the
\* address was still there.
Claims  == [row : MailIds, tries : Nat, real : BOOLEAN]
NoClaim == [row |-> 0, tries |-> 0, real |-> FALSE]
NoMail  == [kind |-> "invoice", inv |-> NoOne, level |-> 0, status |-> "failed",
            attempts |-> 0, anon |-> FALSE, out |-> "no", swept |-> FALSE]
Resting == [pc |-> "idle", batch |-> {}, cur |-> NoClaim, conn |-> NoOne, due |-> {}]
NoRequest == [pc |-> "idle", inv |-> NoOne, row |-> 0, level |-> 0, conn |-> NoOne]

MailRow == [kind : {"invoice", "reminder"}, inv : Invoices \cup {NoOne}, level : 0 .. 3,
            status : {"queued", "sending", "sent", "failed"}, attempts : Nat,
            anon : BOOLEAN, out : {"no", "yes", "late"}, swept : BOOLEAN]
Loop    == [pc : {"idle", "dunning", "batch", "check", "smtp", "sent"},
            batch : SUBSET Claims, cur : Claims \cup {NoClaim},
            conn : Conns \cup {NoOne}, due : SUBSET (Invoices \X Levels)]
Request == [pc : {"idle", "lock", "locked", "guarded", "booking", "compose", "retry"},
            inv : Invoices \cup {NoOne}, row : MailIds \cup {0},
            level : 0 .. 3, conn : Conns \cup {NoOne}]

(* Domains; and a mail waits only while attempts are left: retryOrFail gives   *)
(* up after the last backoff, and a row it returns is claimed again.           *)
Columns ==
    /\ invoice \in [Invoices -> {"open", "paid", "canceled"}]
    /\ anonymized \subseteq Invoices /\ waited \subseteq Invoices
    /\ booked \in [Invoices -> Seq(Levels)]
    /\ reached \in [Invoices -> 0 .. 3]
    /\ nMail \in 0 .. MaxMails
    /\ mail \in [MailIds -> MailRow]
    /\ worker \in [Workers -> Loop]
    /\ clerk \in [Clerks -> Request]
    /\ requests \in 0 .. MaxRequests
    /\ leaked \in [Conns -> SUBSET Invoices]
AttemptsLeft == \A r \in 1 .. nMail :
    mail[r].status = "queued" /\ ~mail[r].anon => mail[r].attempts <= MaxRetries
TypeOK == Columns /\ AttemptsLeft

-----------------------------------------------------------------------------
(* The rows of the queue.                                                    *)

\* uq_mail_outbox_pending_reminder: the reminders under way.
Pending(i) == \E r \in 1 .. nMail :
    mail[r].kind = "reminder" /\ mail[r].inv = i /\ mail[r].status \in {"queued", "sending"}

\* enqueueMail; the unique index rejects a second reminder under way.
Enqueue(kind, i, level) ==
    /\ nMail < MaxMails
    /\ nMail' = nMail + 1
    /\ mail' = [mail EXCEPT ![nMail + 1] =
         [NoMail EXCEPT !.kind = kind, !.inv = i, !.level = level, !.status = "queued"]]

InHand(w) == { e.row : e \in worker[w].batch \cup {worker[w].cur} } \ {0}

\* requeueSoon: the attempt does not count.
PutBackRow(row) == [row EXCEPT !.status = "queued", !.attempts = IF @ = 0 THEN 0 ELSE @ - 1]

\* Mutant: what is not due is put back instead of failed.
RejectedForNow(row) == PutBackRow(row)
\* finishOutbox "failed": invoice cancelled or paid, or reminded by hand.
Rejected(row) == [row EXCEPT !.status = "failed"]

\* Mutant: one attempt too many before giving up.
RetryOnceMore(row, tries) ==
    [row EXCEPT !.status = IF tries > MaxRetries + 1 THEN "failed" ELSE "queued"]
\* retryOrFail: after the last backoff the mail has failed for good.
RetryOrFail(row, tries) ==
    [row EXCEPT !.status = IF tries > MaxRetries THEN "failed" ELSE "queued"]

\* The server took the mail; late: the row was anonymised by then.
GoneOut(row) == [row EXCEPT !.out = IF row.anon \/ @ = "late" THEN "late" ELSE "yes"]

-----------------------------------------------------------------------------
(* The session lock of an invoice's reminders.                               *)

InUse(k) == \/ \E w \in Workers : worker[w].conn = k
            \/ \E c \in Clerks : clerk[c].conn = k
\* Mutant: the loop and the button use different lock keys.
LockedByClerk(i, k) == \/ i \in leaked[k]
                       \/ \E c \in Clerks : clerk[c].conn = k /\ clerk[c].inv = i
\* Connection k holds the lock: in use for the reminder, or left behind.
Locked(i, k) ==
    \/ i \in leaked[k]
    \/ \E c \in Clerks : clerk[c].conn = k /\ clerk[c].inv = i
    \/ \E w \in Workers : worker[w].conn = k /\ mail[worker[w].cur.row].inv = i
\* pg_try_advisory_lock on a connection taken from the pool.
TryLock(i, k) == ~InUse(k) /\ \A o \in Conns \ {k} : ~Locked(i, o)

\* Mutant: delivery does not hold the row of the invoice.
NoRowLock(i) == FALSE
\* FOR NO KEY UPDATE: the delivery of an invoice holds its row until it is booked.
RowLocked(i) == \E w \in Workers :
    /\ worker[w].pc \in {"smtp", "sent"} /\ mail[worker[w].cur.row].kind = "invoice"
    /\ mail[worker[w].cur.row].inv = i

-----------------------------------------------------------------------------
(* The ladder of reminders.                                                  *)

Smaller(a, b) == IF a < b THEN a ELSE b
Larger(a, b)  == IF a > b THEN a ELSE b
NextLevel(i) == Smaller(Len(booked[i]) + 1, 3)
Leaves(i, level) == reached' = [reached EXCEPT ![i] = Larger(@, level)]
Book(i, level) ==
    /\ Len(booked[i]) < MaxBooked
    /\ booked' = [booked EXCEPT ![i] = Append(@, level)]
    /\ waited' = waited \ {i}

\* Mutant: only the invoice is looked at again, not the level.
OpenOnly(i, level) == invoice[i] = "open"
\* reminderStillDue.
StillDue(i, level) == invoice[i] = "open" /\ NextLevel(i) = level

Init ==
    /\ invoice = [i \in Invoices |-> "open"]
    /\ anonymized = {} /\ waited = {}
    /\ booked = [i \in Invoices |-> <<>>] /\ reached = [i \in Invoices |-> 0]
    /\ nMail = 0 /\ mail = [r \in MailIds |-> NoMail]
    /\ worker = [w \in Workers |-> Resting]
    /\ clerk = [c \in Clerks |-> NoRequest] /\ requests = 0
    /\ leaked = [k \in Conns |-> {}]

-----------------------------------------------------------------------------
(* Invoices and customers, seen from the queue.                              *)

\* Receipts and their Storno, and the Storno of the invoice; they all update
\* the row of the invoice.
Pay(i) ==
    /\ invoice[i] = "open" /\ ~RowLocked(i)
    /\ invoice' = [invoice EXCEPT ![i] = "paid"]
    /\ UNCHANGED <<anonymized, waited, ladderVars, mailVars, worker, clerkVars, leaked>>

ReversePayment(i) ==
    /\ invoice[i] = "paid" /\ ~RowLocked(i)
    /\ invoice' = [invoice EXCEPT ![i] = "open"]
    /\ UNCHANGED <<anonymized, waited, ladderVars, mailVars, worker, clerkVars, leaked>>

CancelInvoice(i) ==
    /\ invoice[i] # "canceled" /\ ~RowLocked(i)
    /\ invoice' = [invoice EXCEPT ![i] = "canceled"]
    /\ UNCHANGED <<anonymized, waited, ladderVars, mailVars, worker, clerkVars, leaked>>

DunningDaysPass(i) ==
    /\ i \notin waited
    /\ waited' = waited \cup {i}
    /\ UNCHANGED <<invoice, anonymized, ladderVars, mailVars, worker, clerkVars, leaked>>

\* The recipient and the body of every mail go; what waited is not to be sent.
Anonymize(i) ==
    /\ i \notin anonymized
    /\ anonymized' = anonymized \cup {i}
    /\ mail' = [r \in MailIds |->
         IF r > nMail \/ mail[r].inv # i THEN mail[r]
         ELSE [mail[r] EXCEPT !.anon = TRUE,
                 !.status = IF @ \in {"queued", "sending"} THEN "failed" ELSE @]]
    /\ UNCHANGED <<invoice, waited, ladderVars, nMail, worker, clerkVars, leaked>>

-----------------------------------------------------------------------------
(* Requests.                                                                 *)

Begin(c, req) ==
    /\ clerk[c].pc = "idle" /\ requests < MaxRequests
    /\ clerk' = [clerk EXCEPT ![c] = req]
    /\ requests' = requests + 1
    /\ UNCHANGED <<invoiceVars, ladderVars, mailVars, worker, leaked>>

Answer(c) == clerk' = [clerk EXCEPT ![c] = NoRequest]

\* RemindInvoice: the invoice is read before the lock.
BeginReminder(c, i) ==
    /\ invoice[i] = "open" /\ i \notin anonymized
    /\ Begin(c, [NoRequest EXCEPT !.pc = "lock", !.inv = i])

TakeReminderLock(c, k) ==
    /\ clerk[c].pc = "lock"
    /\ Cardinality({ d \in Clerks : clerk[d].conn # NoOne }) < RemindSlots
    /\ TryLock(clerk[c].inv, k)
    /\ clerk' = [clerk EXCEPT ![c].pc = "locked", ![c].conn = k]
    /\ UNCHANGED <<invoiceVars, ladderVars, mailVars, worker, requests, leaked>>

\* An automatic reminder is under way: 409.  The unlock is deferred only further
\* down, so the connection goes back to the pool with the lock.
RefusePending(c) ==
    /\ clerk[c].pc = "locked" /\ Pending(clerk[c].inv)
    /\ leaked' = [leaked EXCEPT ![clerk[c].conn] = @ \cup {clerk[c].inv}]
    /\ Answer(c)
    /\ UNCHANGED <<invoiceVars, ladderVars, mailVars, worker, requests>>

\* The same early return when the question itself fails.
PendingUnknown(c) ==
    /\ clerk[c].pc = "locked"
    /\ leaked' = [leaked EXCEPT ![clerk[c].conn] = @ \cup {clerk[c].inv}]
    /\ Answer(c)
    /\ UNCHANGED <<invoiceVars, ladderVars, mailVars, worker, requests>>

PassPending(c) ==
    /\ clerk[c].pc = "locked" /\ ~Pending(clerk[c].inv)
    /\ clerk' = [clerk EXCEPT ![c].pc = "guarded"]
    /\ UNCHANGED <<invoiceVars, ladderVars, mailVars, worker, requests, leaked>>

\* Count and send; an error of the mail server may come after the delivery.
SendReminder(c) ==
    /\ clerk[c].pc = "guarded"
    /\ Leaves(clerk[c].inv, NextLevel(clerk[c].inv))
    /\ \/ clerk' = [clerk EXCEPT ![c].pc = "booking", ![c].level = NextLevel(clerk[c].inv)]
       \/ Answer(c)
    /\ UNCHANGED <<invoiceVars, booked, mailVars, worker, requests, leaked>>

BookReminder(c) ==
    /\ clerk[c].pc = "booking"
    /\ Book(clerk[c].inv, clerk[c].level)
    /\ Answer(c)
    /\ UNCHANGED <<invoice, anonymized, reached, mailVars, worker, requests, leaked>>

\* SendInvoiceMail and QueueInvoiceMailAuto: read the invoice, then enqueue it.
BeginInvoiceMail(c, i) ==
    /\ invoice[i] # "canceled" /\ i \notin anonymized
    /\ Begin(c, [NoRequest EXCEPT !.pc = "compose", !.inv = i])

QueueInvoiceMail(c) ==
    /\ clerk[c].pc = "compose"
    /\ Enqueue("invoice", clerk[c].inv, 0)
    /\ Answer(c)
    /\ UNCHANGED <<invoiceVars, ladderVars, worker, requests, leaked>>

\* RetryOutbox: check the failed mail, then requeue it if it still is failed and
\* the index allows it.
BeginRetry(c, r) ==
    /\ r <= nMail /\ mail[r].status = "failed" /\ ~mail[r].anon
    /\ mail[r].kind = "invoice" => invoice[mail[r].inv] # "canceled"
    /\ Begin(c, [NoRequest EXCEPT !.pc = "retry", !.row = r])

RequeueFailed(c) ==
    LET r == clerk[c].row IN
    /\ clerk[c].pc = "retry"
    /\ mail[r].status = "failed" /\ ~(mail[r].kind = "reminder" /\ Pending(mail[r].inv))
    /\ mail' = [mail EXCEPT ![r].status = "queued", ![r].attempts = 0, ![r].swept = FALSE]
    /\ Answer(c)
    /\ UNCHANGED <<invoiceVars, ladderVars, nMail, worker, requests, leaked>>

\* Refused, failed, cancelled by its client or lost with its process; from the
\* deferred unlock on, and with the process, the lock goes too.
GiveUp(c) ==
    /\ clerk[c].pc # "idle"
    /\ Answer(c)
    /\ UNCHANGED <<invoiceVars, ladderVars, mailVars, worker, requests, leaked>>

-----------------------------------------------------------------------------
(* The mail loop.                                                            *)

\* The mail in hand is done with; its connection is unlocked and released.
Proceed(w) == worker' = [worker EXCEPT ![w] =
    [Resting EXCEPT !.pc = IF worker[w].batch = {} THEN "idle" ELSE "batch",
                    !.batch = worker[w].batch]]

\* QueueDueReminders: one query finds what is due ...
ReadDue(w) ==
    LET due == { i \in Invoices : /\ invoice[i] = "open" /\ i \notin anonymized
                                  /\ i \in waited /\ Len(booked[i]) < 3 /\ ~Pending(i) }
    IN /\ worker[w].pc = "idle" /\ due # {}
       /\ worker' = [worker EXCEPT ![w].pc = "dunning",
                                   ![w].due = { <<i, NextLevel(i)>> : i \in due }]
       /\ UNCHANGED <<invoiceVars, ladderVars, mailVars, clerkVars, leaked>>

\* ... and one insert each queues it, unless another run was faster or the
\* invoice cannot be read.
QueueReminder(w, d) ==
    LET rest == worker[w].due \ {d} IN
    /\ worker[w].pc = "dunning" /\ d \in worker[w].due
    /\ \/ ~Pending(d[1]) /\ Enqueue("reminder", d[1], d[2])
       \/ UNCHANGED mailVars
    /\ worker' = [worker EXCEPT ![w].due = rest,
                                ![w].pc = IF rest = {} THEN "idle" ELSE "dunning"]
    /\ UNCHANGED <<invoiceVars, ladderVars, clerkVars, leaked>>

\* A delivery that has been under way for 15 minutes, longer than a run can last,
\* has lost its loop: nobody knows whether the mail left, so it fails.
MarkInterrupted(w, r) ==
    /\ worker[w].pc = "idle" /\ r <= nMail /\ mail[r].status = "sending"
    /\ \A v \in Workers : r \notin InHand(v)
    /\ mail' = [mail EXCEPT ![r].status = "failed", ![r].swept = TRUE]
    /\ UNCHANGED <<invoiceVars, ladderVars, nMail, worker, clerkVars, leaked>>

\* Mutant: the claim does not look at the status.
Unsent == { r \in 1 .. nMail : mail[r].status \in {"queued", "sending"} }
Queued == { r \in 1 .. nMail : mail[r].status = "queued" }

\* UPDATE ... FOR UPDATE SKIP LOCKED of the rows that are due.
Claim(w, rows) ==
    /\ worker[w].pc = "idle"
    /\ rows # {} /\ rows \subseteq Queued /\ Cardinality(rows) <= BatchSize
    /\ mail' = [r \in MailIds |-> IF r \in rows
         THEN [mail[r] EXCEPT !.status = "sending", !.attempts = @ + 1] ELSE mail[r]]
    /\ worker' = [worker EXCEPT ![w].pc = "batch",
                    ![w].batch = { [row |-> r, tries |-> mail[r].attempts + 1, real |-> ~mail[r].anon] : r \in rows }]
    /\ UNCHANGED <<invoiceVars, ladderVars, nMail, clerkVars, leaked>>

\* Take claim e of the batch in hand.
InHands(w, e, pc, k) == worker' = [worker EXCEPT
    ![w].pc = pc, ![w].cur = e, ![w].conn = k, ![w].batch = @ \ {e}]

\* A claim that ends before it is in hand.
Drop(w, e) == worker' = [worker EXCEPT ![w].batch = @ \ {e},
    ![w].pc = IF @ = "batch" /\ worker[w].batch = {e} THEN "idle" ELSE @]

\* The database, the pool or the lock was busy: back into the queue.
PutBack(w, e) ==
    /\ worker[w].pc = "batch" /\ e \in worker[w].batch
    /\ mail' = [mail EXCEPT ![e.row] = PutBackRow(@)]
    /\ Drop(w, e)
    /\ UNCHANGED <<invoiceVars, ladderVars, nMail, clerkVars, leaked>>

\* deliverInvoice: the row lock, and whether the invoice is still valid.
OpenInvoice(w, e) ==
    LET i == mail[e.row].inv IN
    /\ worker[w].pc = "batch" /\ e \in worker[w].batch
    /\ mail[e.row].kind = "invoice" /\ ~RowLocked(i)
    /\ IF invoice[i] = "canceled"
       THEN mail' = [mail EXCEPT ![e.row] = Rejected(@)] /\ Drop(w, e)
       ELSE InHands(w, e, "smtp", NoOne) /\ UNCHANGED mail
    /\ UNCHANGED <<invoiceVars, ladderVars, nMail, clerkVars, leaked>>

\* deliverReminder: the session lock ...
LockReminder(w, e, k) ==
    /\ worker[w].pc = "batch" /\ e \in worker[w].batch /\ mail[e.row].kind = "reminder"
    /\ TryLock(mail[e.row].inv, k)
    /\ InHands(w, e, "check", k)
    /\ UNCHANGED <<invoiceVars, ladderVars, mailVars, clerkVars, leaked>>

\* ... then whether invoice and level are still the ones queued.
CheckDue(w) ==
    LET row == mail[worker[w].cur.row] IN
    /\ worker[w].pc = "check" /\ StillDue(row.inv, row.level)
    /\ worker' = [worker EXCEPT ![w].pc = "smtp"]
    /\ UNCHANGED <<invoiceVars, ladderVars, mailVars, clerkVars, leaked>>

\* Not due any more, or not readable.
RejectReminder(w) ==
    /\ worker[w].pc = "check"
    /\ mail' = [mail EXCEPT ![worker[w].cur.row] = Rejected(@)]
    /\ Proceed(w)
    /\ UNCHANGED <<invoiceVars, ladderVars, nMail, clerkVars, leaked>>

\* The mail server takes the mail; its answer may be lost.
Transmit(w) ==
    LET r == worker[w].cur.row IN
    /\ worker[w].pc = "smtp" /\ worker[w].cur.real
    /\ IF mail[r].kind = "reminder" THEN Leaves(mail[r].inv, mail[r].level) ELSE UNCHANGED reached
    /\ \/ /\ mail' = [mail EXCEPT ![r] = GoneOut(@)]
          /\ worker' = [worker EXCEPT ![w].pc = "sent"]
       \/ /\ mail' = [mail EXCEPT ![r] = RetryOrFail(GoneOut(@), worker[w].cur.tries)]
          /\ Proceed(w)
    /\ UNCHANGED <<invoiceVars, booked, nMail, clerkVars, leaked>>

TransmitFails(w) ==
    /\ worker[w].pc = "smtp"
    /\ mail' = [mail EXCEPT ![worker[w].cur.row] = RetryOrFail(@, worker[w].cur.tries)]
    /\ Proceed(w)
    /\ UNCHANGED <<invoiceVars, ladderVars, nMail, clerkVars, leaked>>

\* markSent: the row and the level of the ladder in one transaction ...
MarkSent(w) ==
    LET r == worker[w].cur.row IN
    /\ worker[w].pc = "sent"
    /\ mail' = [mail EXCEPT ![r].status = "sent"]
    /\ IF mail[r].kind = "reminder" THEN Book(mail[r].inv, mail[r].level)
       ELSE UNCHANGED <<booked, waited>>
    /\ Proceed(w)
    /\ UNCHANGED <<invoice, anonymized, reached, nMail, clerkVars, leaked>>

\* ... and when that fails, the row alone.
MarkSentOnly(w) ==
    /\ worker[w].pc = "sent"
    /\ mail' = [mail EXCEPT ![worker[w].cur.row].status = "sent"]
    /\ Proceed(w)
    /\ UNCHANGED <<invoiceVars, ladderVars, nMail, clerkVars, leaked>>

\* The process dies, the run's time is up, or the outcome cannot be written: the
\* locks go, the rows stay as they are.
Interrupt(w) ==
    /\ worker[w].pc # "idle"
    /\ worker' = [worker EXCEPT ![w] = Resting]
    /\ UNCHANGED <<invoiceVars, ladderVars, mailVars, clerkVars, leaked>>

\* The pool closes a connection after MaxConnLifetime, its locks with it.
RecycleConn(k) ==
    /\ ~InUse(k) /\ leaked[k] # {}
    /\ leaked' = [leaked EXCEPT ![k] = {}]
    /\ UNCHANGED <<invoiceVars, ladderVars, mailVars, worker, clerkVars>>

-----------------------------------------------------------------------------
InvoiceNext == \E i \in Invoices :
    Pay(i) \/ ReversePayment(i) \/ CancelInvoice(i) \/ DunningDaysPass(i) \/ Anonymize(i)

ClerkNext(c) ==
    \/ \E i \in Invoices : BeginReminder(c, i) \/ BeginInvoiceMail(c, i)
    \/ \E k \in Conns : TakeReminderLock(c, k)
    \/ \E r \in MailIds : BeginRetry(c, r)
    \/ RefusePending(c) \/ PendingUnknown(c) \/ PassPending(c) \/ SendReminder(c)
    \/ BookReminder(c) \/ QueueInvoiceMail(c) \/ RequeueFailed(c) \/ GiveUp(c)

Carry(w) == CheckDue(w) \/ RejectReminder(w) \/ Transmit(w) \/ TransmitFails(w)
            \/ MarkSent(w) \/ MarkSentOnly(w)

Deliver(w, e) == PutBack(w, e) \/ OpenInvoice(w, e) \/ \E k \in Conns : LockReminder(w, e, k)

WorkerNext(w) ==
    \/ ReadDue(w) \/ \E d \in worker[w].due : QueueReminder(w, d)
    \/ \E r \in MailIds : MarkInterrupted(w, r)
    \/ \E rows \in SUBSET MailIds : Claim(w, rows)
    \/ \E e \in worker[w].batch : Deliver(w, e)
    \/ Carry(w) \/ Interrupt(w)

Next == InvoiceNext \/ (\E c \in Clerks : ClerkNext(c))
        \/ (\E w \in Workers : WorkerNext(w)) \/ (\E k \in Conns : RecycleConn(k))

Spec == Init /\ [][Next]_vars

(* StartMailQueue runs every 30 seconds: each run sweeps what is stuck, claims  *)
(* what is due and carries each mail on within its time; a busy pool or lock   *)
(* does not stay busy for ever, and every request ends within its deadlines.   *)
Fairness ==
    /\ \A w \in Workers :
         /\ WF_vars(Carry(w))
         /\ WF_vars(\E d \in worker[w].due : QueueReminder(w, d))
    /\ \A c \in Clerks : WF_vars(GiveUp(c))
    /\ \A r \in MailIds :
         /\ SF_vars(\E w \in Workers : MarkInterrupted(w, r))
         /\ SF_vars(\E w \in Workers : \E rows \in SUBSET MailIds : r \in rows /\ Claim(w, rows))
         /\ SF_vars(\E w \in Workers : \E e \in worker[w].batch : e.row = r /\
                       (OpenInvoice(w, e) \/ \E k \in Conns : LockReminder(w, e, k)))
FairSpec == Spec /\ Fairness

-----------------------------------------------------------------------------
(* Properties.                                                               *)

(* Safety.  One reminder of an invoice at a time: whatever the loop, the       *)
(* button, retries and connections left locked do, between the check of the   *)
(* level and the end of its delivery nobody else sends one (comment at         *)
(* outbox.go:20-23).                                                          *)
LoopReminds(w, i) == /\ worker[w].pc \in {"check", "smtp", "sent"}
                     /\ mail[worker[w].cur.row].kind = "reminder"
                     /\ mail[worker[w].cur.row].inv = i
ClickReminds(c, i) == clerk[c].pc \in {"guarded", "booking"} /\ clerk[c].inv = i
ReminderExclusive == \A i \in Invoices :
    /\ \A v, w \in Workers : LoopReminds(v, i) /\ LoopReminds(w, i) => v = w
    /\ \A c, d \in Clerks : ClickReminds(c, i) /\ ClickReminds(d, i) => c = d
    /\ \A w \in Workers, c \in Clerks : ~(LoopReminds(w, i) /\ ClickReminds(c, i))

(* Refinement.  The customer climbs the ladder of reminders step by step: no   *)
(* level leaves before the one below is booked, and none is booked that did    *)
(* not leave, whichever of the loop and the button sends it.                   *)
Ladder == INSTANCE ReminderLadder WITH booked <- booked, reached <- reached
ClimbsTheLadder == Ladder!Spec

(* Safety.  The Storno of an invoice and its delivery exclude each other: while *)
(* the mail is under way, and until its outcome is booked, the invoice is      *)
(* valid (comment at outbox.go:138-140).                                       *)
CanceledNotMailed == \A w \in Workers :
    LET row == mail[worker[w].cur.row] IN
    worker[w].pc \in {"smtp", "sent"} /\ row.kind = "invoice" => invoice[row.inv] # "canceled"

(* Safety.  Several loops share the queue, but a mail is in the hands of one    *)
(* (comment at outbox.go:77), through claims, retries by hand, put-backs and   *)
(* the sweep; the mails of an anonymised customer are left out, which          *)
(* anonymising fails while a loop still has them.                              *)
ClaimedOnce == \A v, w \in Workers : \A r \in InHand(v) \cap InHand(w) :
    v = w \/ mail[r].anon

(* Liveness.  A queued mail does not wait for ever: it is sent or has failed    *)
(* for the operator to see, also when its loop dies, its invoice is paid or    *)
(* cancelled, or its lock was left behind.                                     *)
QueueResolves == \A r \in MailIds :
    r <= nMail /\ mail[r].status \in {"queued", "sending"}
        ~> mail[r].status \in {"sent", "failed"}

-----------------------------------------------------------------------------
(* Statements of comments that the code does not keep.                        *)

(* A connection whose session lock may still stand is thrown away and not      *)
(* given back to the pool (comment at reminders.go:29-38).                     *)
NoLockLeftBehind == \A k \in Conns : leaked[k] = {}

(* An interrupted delivery is not repeated, since a second reminder is worse    *)
(* than a missing one (comment at outbox.go:32-34): the loop does not send the *)
(* same level again after one that was interrupted had left.                   *)
InterruptedNotRepeated == \A r, q \in 1 .. nMail :
    /\ r < q /\ mail[r].kind = "reminder" /\ mail[q].kind = "reminder"
    /\ mail[r].inv = mail[q].inv /\ mail[r].level = mail[q].level
    /\ mail[r].swept /\ mail[r].out = "yes"
    => mail[q].out = "no"

(* A mail that was still waiting when its customer was anonymised, and whose    *)
(* row was failed for it, is not sent any more (comment at persons.go:285-286). *)
AnonymizedNotSent == \A r \in 1 .. nMail : mail[r].out # "late"
=============================================================================
