# Parkrr in TLA+

Parkrr manages the winter storage of vehicles: customers, vehicles in halls,
rent by billing periods, one-off charges, receipts, invoices, reminders, a tax
book, a customer portal, backups and restores. It is one Go process (package
`handlers` over PostgreSQL through a pool of ten connections) with background
loops; several processes may run against one database. This directory holds a
TLA+ model of the parts where interleaving, failure or long histories of legal
calls decide whether the books are right, the TLC configurations that check the
model on small instances, and proofs that hold for every size.

## 1. Inventory

State is in PostgreSQL unless noted; "TX" is one transaction.

| Component (source under `src/internal`) | State | Operations | Interacts through | What is hard, what has to hold |
|---|---|---|---|---|
| Settlement ledger (`handlers/payments.go`, `vehicles.go`, `charges.go`, `invoice_credit.go`, `payment_year_guard.go`) | `payments`, `payment_allocations`, `charges.paid`, `vehicles.paid/paid_through` | CreatePayment, DeletePayment (Storno), ApplyCredit (Guthaben), MarkPaid and SetChargePaid (the sliders), CRUD of charges, ChangeStatus | per-person row lock; the same rows as invoicing and the archive | nine entry points claim and release the same positions: nothing claimed twice, no claim without its receipt, no receipt overspent, flags that mean money |
| Invoicing and Storno (`billing.go`) | `invoices`, `invoice_source`, `invoice_payments` | CreateInvoice, CancelInvoice, PayInvoices | per-person lock, invoice rows | `paid_amount` is a copy kept by four handlers; a Storno has to release positions, money and archived vehicles at once |
| Archive (`vehicle_closure.go`) | `vehicles.archived` | follow-up after a commit, sweep, reopening by a Storno, ReactivateVehicle | its own TX after the caller's | the evidence changes between commit and follow-up; a follow-up may be lost |
| Tax-year lock (`tax.go`, `payment_year_guard.go`) | `tax_year_locks` | LockTaxYear, UnlockTaxYear, guard of every receipt and entry | advisory lock per year | every path that changes money has to ask for every year it touches |
| Mail outbox and reminders (`outbox.go`, `mailflow.go`, `reminders.go`, `server/mailqueue.go`) | `mail_outbox`, `invoice_reminders`; session locks of pooled connections; `remindSlots` in memory | claim, deliver, retry, sweep; RemindInvoice, RetryOutbox, SendInvoiceMail, QueueDueReminders; anonymising | row locks, session advisory lock, batch in memory | crash between delivery and booking, stale batch, lock left on a connection; one reminder at a time, levels in order, everything resolves |
| Lock order of settlement (`financial_source_lock.go` and callers) | row and advisory locks | all of the above | waits-for relation | no cycle |
| Idempotency keys (`payments.go`, `billing.go`) | `payments.idempotency_key` and fingerprint | look-up, booking, replay | unique index, 23505 | a lost answer and its retry book once |
| Bank import (`bank_import.go`) | `bank_transactions` | import, assign, ignore, reverse | receipts by generated keys, try-lock per line | reassignment after a reversal, one receipt per line |
| Deposits (`deposits.go`) | `deposits` | receive, return, withhold, delete | the receipt of a withheld one | never returned twice or beyond what came in |
| Automatic invoice run (`server/autoinvoice.go`) | marker row, a guard in memory per process; no lease | one round per period | the handler of the button, per customer | an aborted round repeats without double billing, and is not written down as done |
| Agreements, recurring costs (`agreements.go`, `recurring.go`, `period_*`) | agreements, marks and receipts of periods | CRUD, sliders, backfill, sweep | ledger positions, invoices, archive | a period is paid by a receipt, a flag, a mark or an invoice, and two readers work out what is open |
| Period arithmetic (`models/`, `pause.go`, `indexation.go`) | pauses, rate changes, index values | prorating, pauses, index steps | ledger amounts, `paid_through` | boundaries of periods, pauses and prices; plans made outside the TX |
| Restore control (`restorectl/`, `cmd/parkrr/`) | job rows in their own schema, leases, gate and secrets in memory | submit, drain, phases, heartbeat, recovery, offline restore | advisory leases, process restarts | nobody serves a database that is being replaced; every job ends |
| Backup and schedule (`backup/`) | archives in a directory and a bucket, status rows, guards in memory | tick, button, dump, verify, promote, prune | run gate, lease per target | due once, never prunes the last good one |
| Sessions and second factor (`auth/`, `handlers/auth.go`) | sessions, TOTP step, backup codes, passkeys, counters | sign-in, verify, enrol, revoke | rows; copies of the account in the request | codes used once, no session outlives what it was proven with |
| Users and roles (`users.go`, `roles.go`) | users | CRUD, resets, bootstrap at start | admin rows locked together | the last administrator stays |
| Hall planner (`stellplatz.go`, `vehicles.go`) | spots, `vehicles.spot_id` | place, remove, delete halls | vehicles, pauses | one vehicle per spot, links that follow status |
| Portal, pickup, handover (`portal*.go`, `pickup.go`, `handover.go`) | tokens, wishes, windows, protocols, photos | create, resolve, upload, delete | persons, advisory locks | limits that are counted before the insert |
| Service tasks, access media, waitlist, calendar | rows per feature | CRUD | charges, persons | mostly record keeping |
| Persons (`persons.go`); `duplicates.go` only lists candidates, nothing merges | persons | CRUD, anonymise, delete | all of the above | anonymising and deleting race with whatever holds a copy |
| Tax book (`tax_book.go`, `tax_year.go`) | expenses, assets, templates, receipts' metadata | book, reverse, upload, report | payments, year locks | a locked year's report stands; the 15-day rule counts everything once |
| Dashboard (`stats.go`) | `overview_revision` sequence, cache and shared calculations in memory | overview by year | triggers on what it reads | a revision that runs ahead of the commit it announces |
| Other reports, search, import, export, audit | queries, files | read mostly | ledger | out of reach of a state model |
| Migrations, HTTP server, web UI | - | - | - | out of reach |

`PROJECT.json` repeats the list with the state of each part and lists, under
`hazards`, what can go wrong at which line.

## 2. Modules

| Module | Contents |
|---|---|
| `Settlement`, `MCSettlement` | the ledger of one customer with invoicing, archive and tax-year lock; prices and rates of the small instances |
| `SettlementProofs` | type correctness; claims on charges exclusive and backed; releases need a Storno, closed years are frozen |
| `SettlementMoneyProofs` | the archive, rent charged once, flags that mean money, what receipts give and invoices were paid |
| `MailQueue`, `MCMailQueue` | outbox, mail loops, clerks, reminder locks, anonymising; symmetry of connections |
| `ReminderLadder` | what the reminders of an invoice promise: the abstract specification of `MailQueue` |
| `MailQueueProofs` | the structure of the queue; attempts left, one loop per mail; one reminder at a time, no Storno under a delivery, the queue implements `ReminderLadder` |
| `BookOnce` | what booking promises: the abstract specification of `Receipts` |
| `Receipts` | idempotency keys, bank lines, deposits |
| `ReceiptsProofs` | bank lines show their receipts; `Receipts` implements `BookOnce`; rises of the index are charged once |
| `Contracts` | agreements, recurring costs, their sliders, receipts and invoices, the archive sweep |
| `Yard` | vehicles, spots, pauses, what is paid and billed by the day |
| `AutoInvoice` | the automatic invoice run over several processes |
| `Indexation` | plans of index rises and the other writers of rate changes |
| `TaxBook` | the tax ledger, its report and the lock of a year |
| `Access` | accounts, factors, sessions, administration |
| `FrontDesk` | portal wishes, pickup slots, handover photos, anonymising |
| `Overview` | the dashboard's cache and its shared calculations |
| `FrontDeskProofs` | limits and erased persons; the marker of the invoice run; codes, sessions, administrators |
| `RecordsProofs` | the tax book and its locked years; the dashboard; billed and paid days of the yard, its spots |
| `RestoreControl` | restore jobs, leases, crashes, recovery |
| `Backups` | schedule, runs, verification, pruning |
| `HouseProofs` | restores that end as they say, one at a time, sound databases; good archives, one run per target; agreements and their receipts |
| `MCOffice` | small instances of `Receipts`, `Access`, `TaxBook`, `FrontDesk`, `Indexation`, `Overview`, `AutoInvoice` and `Yard` |
| `OfficeProofs` | `MCOffice` runs each of its modules as specified; the types of all eight |
| `MCHouse` | small instances of `Contracts`, `RestoreControl` and `Backups`, with their fairness |
| `MCIndexation` | the index of the finding about indexation |

### 2.1 Settlement

**Atomicity.** Every handler of the ledger opens one transaction and takes
`lockInvoicePersonTx` (`billing.go:70`) for the customer before it reads what it
decides on; handlers of one customer therefore do not interleave, and each is
one action. What runs outside that transaction is an action of its own:
`AutoArchive`, `SweepArchive` and their loss. Values a handler reads before the
lock are read again under it; where one is not (`validateCharge`), the hazard is
listed.

**State.** Each variable is a column or a table: `charge`, `vehicleOf`,
`chargePaid` (`charges`), `status` .. `archived` (`vehicles`), `payment`
(`payments`, rows 1..`nPay`), `chargeAlloc` and `rentAlloc`
(`payment_allocations`, whose unique key allows one claim per position),
`invoice` (`invoices`, a Storno document refers to what it cancels),
`chargeBilled` and `rentBilled` (`invoice_source`), `invPay`
(`invoice_payments`). `pending` and `sweep` are the follow-ups a handler still
has to run after its commit.

**Actions.** `MarkPaid`/`MarkOpen`/`MarkAgain` are the three outcomes of the
vehicle slider, `SetChargePaid`/`SetChargeOpen` of a charge's; `CreatePayment`
covers explicit selections and oldest-first, which picks one of the sets an
explicit one may name; `ApplyCredit` walks the items in every order of age
(`rank`) and then the invoices; `DeletePayment`, `CreateInvoice`,
`CancelInvoice`, `PayInvoices`, `ChangeStatus` and the rest carry the handler's
name. Guards are the handlers' refusals; a column that would overflow rejects
the transaction, so the action is disabled.

**Abstractions.** One customer, because the lock is per customer and no rule of
the ledger relates two (the tax-year lock does, and is in the model). Whole
cents of a fixed daily rate: prorating is exact, so a property that fails is not
a rounding matter; the prorating itself is a component of its own. No USt, no
Pauschale, no recurring costs, no price edits, no change of owner. Vehicles are
stored since day 1. `NUMERIC(12,2)` is `0..MaxMoney`, also with a `MaxMoney`
that a single receipt reaches.

### 2.2 MailQueue

**Atomicity.** Nothing spans statements here except two locks, so every
statement is an action, and so is the mail in flight between two statements.
A mail loop (`worker`) is idle, works down a due list (`dunning`) or a batch
(`batch`), and for the mail in hand is in `check`, `smtp` or `sent`. A clerk's
request is at the statement its `pc` names.

**Locks.** `RowLocked` is the invoice row that `deliverInvoice` holds FOR NO KEY
UPDATE; payments and Storni of the invoice wait for it. `TryLock` is
`pg_try_advisory_lock`: it belongs to the session of a pooled connection, which
passes its own lock again. `leaked` are locks that a connection took back to
the pool. `RemindInvoice` leaves one behind on its refusals between lock and
deferred unlock; the pool closes a connection after an hour (`RecycleConn`).

**Failures.** `Interrupt` is a loop that dies, runs out of its five minutes, or
cannot write an outcome: locks fall with the session, rows stay. `Transmit` may
deliver although the loop sees an error; `MarkSentOnly` is the fallback when the
booking fails; `PutBack` a busy pool or lock; `GiveUp` a refused or lost request.
The sweep takes a row only when no loop has it: it waits fifteen minutes, a run
ends after five.

**Abstractions.** Time is when a thing may happen: a row that waits for its
backoff may be claimed at any later moment, `waited` says that the dunning days
have passed. Mail text is one bit: whether the address was still there when the
row was claimed. `reached` and `swept` and `out` are history. Every invoice has
its own customer. Notices of price changes and contract ends take the same path
without a lock and are left out; bulk reminders are a loop over `RemindInvoice`.

### 2.3 Receipts over BookOnce

A request is a record with a program counter. It takes the customer's settlement
lock before it decides and holds it to the end, so the rest of its transaction
is one action; what happens before is an action of its own: the look-up of the
idempotency key (`StartPay`, `CheckKey`), the try-lock of a bank line
(`StartAssign`, `StartReverse`). A request may fail there (`FailRequest`), and the
client may send the same key again at any time, also while the first attempt
runs. `AssignBankTransaction` derives its key from the line and the reversed
receipt of the last assignment; `DeletePayment` claims lines that were linked
while it waited. A withheld deposit books a receipt, whose Storno makes it a
deposit again. `BookOnce` knows only things that ask for money and the receipts
that count for them; `Once` maps keys to things and `BooksOnce` is the refinement.

### 2.4 Contracts

One customer, whose lock makes each handler one action. Outside the lock, and so
steps of their own: the slider of a recurring period reads its row before the
lock (`ReadRecurring`), the backfill at server start (`BackfillRead`,
`BackfillBook`, `BackfillEnd`), the archive sweep (`SweepRead`, `SweepWrite`).
Periods are whole numbers; the running one has accrued half its cost. A period
is paid by a receipt, by the flag of the agreement, by a mark (whole or part),
or billed by an invoice, and `OwesWhatIsBilled` compares the two readers of the
four: the balance (`stats.go`) and the next invoice (`billing.go`). An empty set
of vehicles covers all, also those to come. `Legacy` starts contain marks from
before receipts were booked (migrations 036 and 070).

### 2.5 Yard

Days are numbers, a billing period is two of them. `vehicle`, `pause`, `spotRows`
are the tables; `invoiced` says when and for which days a period was billed;
`bought` is history, the rental days that were paid when the payment was booked,
which `PaidNeverLost` compares with the days `paid_through` gives today.
`ShiftPaid` is `shiftPaidThrough`, `ReturnFromPause`, `CollectFromPause` and
`DeletePause` its users. Placing vehicles takes no lock and is one statement.

### 2.6 AutoInvoice

Each process looks whether a run is due by the later of the marker in the
database and its own guard in memory. No lease keeps two processes apart: the
handler of one customer reads what is open (`PrepareInvoice`) and the unique key of
`invoice_source` decides who bills it (`ClaimInvoice`). A round may be cut off by its time
limit, meet missing master data, fail for a customer, or die with the process.

### 2.7 Indexation

`ApplyIndexation` plans from what it reads outside the transaction that stores
the plan; officers, `DeleteRateChange`, `DuplicateVehicle`, a changed setting and new
index values come in between. Prices are whole and the instances are exact, so
no violation is one of rounding. `agreed` is history: the price and month a
contract was concluded at.

### 2.8 TaxBook

A writer shares the lock of every year it touches, LockTaxYear takes it alone: a
handler is one action. Steps of their own: the receipts an upload counted before
it inserts, and the payments DeletePerson looks for before its transaction. A
year has three days, the ones its rules tell apart: New Year's Day, 1 July and
New Year's Eve. `Report` is what the report of a year shows, by either rule;
`LockedYearStands` says no step changes it while the year stays locked.

### 2.9 Access

A sign-in checks a password, then a code, then inserts the session; each is an
action against the row as it stands then, and an administrator may act in
between. A signed-in request works on the copy the middleware read. An edit that
may cost an administrator locks the admin rows first (`rowLock`) and is two
actions: the count, and the write. Hashes, secrets, codes and passkeys are
numbers and every new one is fresh; codes of the authenticator are a secret with
a time step. Cryptography and the limit by address are left out.

### 2.10 FrontDesk

What counts before it inserts holds an advisory lock: open wishes of a person,
takers of a slot, photos of a protocol. Each statement is a step. Wishes wait for
the office, which may apply them, close them, or meet a customer who was
anonymised or deleted meanwhile.

### 2.11 Overview

The revision of the database advances when a statement runs, before its
transaction commits; the summary is computed by several queries outside of one
snapshot and shared by the requests that miss at once. `Quiet` writers are those
of tables without a trigger (`vehicle_pauses`, `vehicle_rate_changes`:
migration 072 lists the others). `OverviewIsRecent` says that an answer misses only
writes that were in flight when its revision was read, or quiet ones, and is
never older than the time to live and one calculation.

### 2.12 RestoreControl

A replica's main loop is at a point (`at`), from start over serving, draining and
waiting to the phases of a restore. The job rows lie in a schema of their own; a
crash exits the process, whose locks, heartbeat and secrets go with it, and
whose rows have the owner `Gone`. `ClaimRecovery` is the compare-and-set on a row that
nobody has written since it was read as stale. The offline command takes part.

### 2.13 Backups

Every process runs a planner, a clerk may ask for a run, the run gate orders the
runs of a process and an advisory lease those of all. A run goes from dump over
verification and promotion to pruning and the status; each step may fail, be
stopped, or die with the process. A directory or bucket is the sequence of its
archives, oldest first, with a bit for "can be restored".

### 2.14 Composition

`MCOffice` and `MCHouse` put parts into one run that share no state: `part`, chosen
at the start, says which one a behaviour is about, and the others stand still.
The states are the disjoint union of those of the parts, so an invariant of one
part holds in the run iff it holds of that part alone; one direction, that every
behaviour of the run is one of each part, is proved (4.8). A part that is too large
is cut where its variables fall apart (for instance receipts with bank lines, or
with deposits; sessions with administration, or with the second factor of one
account); the cut is a conjunct in the MC module, next to a comment, and the
modules themselves are whole. Where components do interact they are modelled in
one module (ledger, invoices, archive and year lock in `Settlement`; portal and
anonymising in `FrontDesk`; pauses, spots and status in `Yard`). What an agreement
means for a vehicle's rent is not composed with `Settlement` (section 7).

## 3. Runs

Deadlock is not checked: every run explores up to bounds (days, rows, requests)
at which the system rests, and a cancelled invoice with an empty queue is a
proper end.

| Run | Question | Instance |
|---|---|---|
| `MCSettlementCharges` | Do all values stay in their columns, is a charge never settled and billed at once, every claim backed, every flag backed, nothing released without a Storno? | two charges, one vehicle they may be bound to, two receipts, two invoices, one day, a money column that sums reach: every slider, receipt, invoice and Storno in every order |
| `MCSettlementCredit` | Does no receipt give more than it brought, is `paid_amount` right, do closed years stay? | two charges, receipts of two amounts in two tax years, two invoices |
| `MCSettlementRent` | Is no day of rent charged twice, is what is archived closed? | one vehicle, three periods of two days, moving end dates, three invoices |
| `MCMailQueue` | One reminder at a time, no cancelled invoice under way, no mail in two hands, attempts bounded, and does the queue implement `ReminderLadder`? | two loops with batches of two, two clerks with two requests, three connections, locks left behind, two mails; up to four reminders, so that the last level repeats |
| `MCMailLive` | Is every queued mail resolved? | two loops, a clerk with two requests, one retry |
| `MCOffice` | the parts below, each by itself | 18 parts |
| `MCHouse` | the parts below, each by itself, with fairness | 6 parts |
| `MCSettlementLost`, `MCMailLockLeft`, `MCRestoreResumes`, `MCTaxDepreciates`, `MCIndexationForgets` | findings, section 5 | |

| Parts of `MCOffice` | Properties | Instance |
|---|---|---|
| lines, held | `BooksOnce`, `LineShowsReceipt` | two overlapping requests of two actors, one key, one line, two receipts; or two deposits |
| roles, factors | `AdminRemains`, `SessionsAreProven`, `CodeSpentOnce` | two accounts, two requests, one session at a time, three changes of accounts; one time step, so that a code comes twice |
| income, expenses, assets | `CountedInOneYear`, `LockedYearStands` | two years of three days; a payer with a payment; two expenses of which one reverses the other, a template; an asset over two years |
| wishes, slots, gate | `WithinCapacity`, `AnonymizedStaysEmpty` | two customers, two requests, every limit at one |
| rates, tariff, copies | `NoRiseTwice` | an index of three months that rises by exact factors, two officers, one copy |
| summary, shared | `OverviewIsRecent` | two readers and years, one writer that may be quiet; two calculations |
| round | `MarkerIsEarned` | two processes, two customers, three periods, two troubles |
| pauses, spots | `PaidNeverLost`, `InvoicedDaysStand` | three days, two pauses; or one with the hall plan |

| Parts of `MCHouse` | Properties | Instance |
|---|---|---|
| agreements, billing, recurring | `OneAgreementAtATime`, `OwesWhatIsBilled`, `ReceiptKeepsItsPeriod`, `ArchiveHeals` | two agreements on one vehicle; one with an invoice; a recurring cost; two periods |
| restore | `ServesSoundDatabase`, `OutcomeIsTrue`, `RestoreEnds` | two replicas, one job, two crashes or lost answers, the offline command |
| schedule, button | `GoodStandRemains`, `BackupsDueAreTried` | two processes, two periods, retention of one or two, a mishap or a clerk's request |

The bounds are chosen so that each conflict has room: two claimants and a third
party that reverses one of them (two receipts, two invoices of which one may be
a Storno document), two years to get wrong, three periods so that one lies
before, in and after a partial period, two mail loops and two clicks over three
connections so that one lock can be lost while another is taken, limits of one
so that a second request is the one too many, and a first, a rival and a repeat
wherever something may happen once. `MCOffice` and `MCHouse` are kept small enough
to be one run; a part is worth running alone with larger constants
(`part = "..." /\ OfficeSpec`). `OfficeTypeOK` is the type invariant of the office's
modules; those of `Contracts`, `RestoreControl` and `Backups` are stated there,
proved (4.7), and can be added to `MCHouse.cfg`. Each property is broken by a plausible change of the
code (`mutants` in `PROJECT.json`: a dropped guard, a forgotten reset, a wrong
comparison), which shows that the instance reaches the case it is about. Those
variants are the definitions marked "Mutant" in the modules; nothing else uses
them.

**Fairness.** `Settlement` and the office have none: their handlers are clicks, and
the code promises no follow-up. `MailQueue!FairSpec` assumes that a loop carries
on with the mail in hand and with its due list (deadlines of 20, 30 and 35
seconds), that a request ends (weak fairness), and for each row strong fairness
of the sweep and the claim, which open every run, twice a minute, and of taking
it in hand: a lock or pool that is free again and again is got at some time.
Nothing is assumed about deliveries succeeding or loops surviving. In `MCHouse` the
archive sweep runs every interval for as long as the server lives
(`startFlatRateArchival`); a restore's replicas go on with their main loop, answer
their requests, are started again by their container after an exit, and a row
without a heartbeat turns stale (`RestoreFairness`); a backup planner ticks every
minute (`FairBackupSpec`). Crashes are bounded: liveness under crashes without end
is not claimed.

**Switches.** Some cases lie outside what the run checks because the code goes
wrong in them; a constant names each, is FALSE in the `.cfg`, and with TRUE breaks
a property. They are assumptions under which the property holds:

| Constant | The case | TRUE breaks |
|---|---|---|
| `OmitsStatus` (`Access`) | a client leaves out "disabled"; UpdateUser then writes back the status it read before the locks. The bundled UI always sends it | `AdminRemains` (part roles) |
| `RacingErasure` (`TaxBook`) | a payment is booked between DeletePerson's look (`persons.go:397`) and its delete, and cascades | `LockedYearStands` (part income) |
| `CreatedPaid` with TRUE (`Contracts`) | a client creates an agreement as paid; the slider then believes in receipts nobody booked. The bundled UI does not send it | `OwesWhatIsBilled` (part agreements) |
| `OutOfOrder` (`Yard`) | a pause is entered that lies before one already entered: the shift of the later one is not worked out anew | `PaidNeverLost` (part pauses) |
| `BackfillOverlaps` (`Contracts`) | a request changes a period between the backfill's read and its booking | `OwesWhatIsBilled` (part agreements) |
| `LeaseLoss` (`RestoreControl`) | the session of a lease breaks unnoticed while its holder works on | `ServesSoundDatabase` |
| `OfflineBreaks` (`RestoreControl`) | the offline command stops half-way; no job row tells of it | `ServesSoundDatabase` |

Three further bounds are of that kind, and section 5.1 names what lies outside: one
vehicle in `Contracts` (with two, a deleted vehicle widens an agreement), one price
of a recurring cost, one start day in `Yard`. A fourth is the index of `MCOffice`: its
three months rise, and with so few two plans cannot get out of order. The
assumptions of the modules only fix what the code fixes: columns are numbers,
amounts are positive, and an id that a module uses for "nobody" is no id of a row.
What a theorem needs beyond them is a hypothesis in its statement, with a name.

## 4. Proofs

tlapm checks the proofs for all values of the constants that satisfy the named
assumptions of the modules (`SettlementAssumption`, `MailAssumption`, ...), which
TLC evaluates on every run. `IInv` below stands for the inductive invariant of the
proof; each was checked by TLC on a run of its module before it was proved.

### 4.1 The ledger (`Settlement`)

* `SettlementProofs!TypeCorrect` (`TypeOK`): one lemma per group of actions; the rest
  of the ledger's proofs rest on it.
* `NeverSettledAndBilled` (`ClaimExclusive`) and `ClaimsAreBacked`
  (`ChargeClaimBacked`). Neither is inductive: the sliders decide on the flag, the
  invoice on flag and claim, so `IInv` adds that a claim implies the flag and a
  live receipt, that claims point to rows that exist, and that rent claims are
  backed likewise, since a slider's Storno releases rent and charges of one
  receipt together.
* `OnlyStornoReleases` (`ReleasedOnlyByStorno`) and `ClosedYearsStayFrozen`
  (`ClosedYearFrozen`): action properties, action by action, from these.
* `SettlementMoneyProofs!ArchivedIsFinished` (`ArchivedIsClosed`) from `ArchiveInv`: a
  billed period names an invoice that was issued, so a Storno, a receipt's
  reversal and a new charge each reach the vehicles they have to reopen.
* `RentOnlyOnce` (`RentChargedOnce`) from `RentInv`: a line of an invoice bills
  something, and the days of a settlement end where the bills begin.
* `PaidMeansMoney` (`PaidIsBacked`) from `FlagInv`: the flag of a vehicle has its
  claim, the flag of a charge that is bound to no vehicle too, and for every
  receipt of a slider what it claims is still what the slider books.
* `ReceiptsStayWithin` (`NoOverAllocation`) and `PaidAmountIsTrue` (`InvoiceLedger`)
  from `LedgerInv`. Both speak of sums over sets. What is needed of a sum (it
  changes by what one element changes, it is monotonic, a set of equal terms) is
  proved by taking the smallest set for which it fails
  (`FS_StrictSubsetOrderingWellFounded`, `NatLessThanWellFounded`), not by
  induction, which the provers cannot instantiate.

### 4.2 The outbox (`MailQueueProofs`)

* `Structure`: the inductive base of the queue (`Struct`): columns, rows that exist
  and are about an invoice, each row at most once in a batch, a connection in hand
  exactly while a reminder is handled. Rows are only added and keep kind, invoice
  and level (`RowsKept`), which every later proof uses.
* `TypeCorrect` (`TypeOK`, with the attempts left) and `ClaimedByOne` (`ClaimedOnce`).
  The invariant `Outbox` adds `ClaimOf`: a row in hand is "sending" with the attempt
  its claim read, unless its customer was anonymised. So a claim, which takes
  queued rows, and a retry by hand, which takes failed ones, never take a row that
  is in hand.
* `RemindersExclude` (`ReminderExclusive`) from `LockInv`: nobody shares a connection
  in use, and at most one connection holds the lock of an invoice, in use or
  leaked.
* `StornoWaits` (`CanceledNotMailed`): from the row lock, and that only `OpenInvoice`
  brings an invoice under way (`Underway`).
* `OutboxClimbs` (`ClimbsTheLadder`), a refinement: every step of the queue is a step
  of `ReminderLadder` or leaves it alone. `LadderInv` says that a level on its way is
  the next one and no higher level has left; it needs `ReminderExclusive`, since
  whoever else booked in between would raise the level.

### 4.3 Receipts, indexation, sign-ins, the front desk

* `ReceiptsProofs!LinesAndReceiptsAgree` (`LineShowsReceipt`) and `NothingBookedTwice`
  (`BooksOnce`, a refinement of `BookOnce`) from `OnceInv`: receipts with one key are
  one receipt except where the key of a bank line has generations, and a request
  that assigns a line holds the line's lock as it found it.
* `ReceiptsProofs!RisesChargedOnce` (`NoRiseTwice`) under three hypotheses that 5.1 shows
  to be needed: `OnePlan` (one officer plans and applies at a time), `NeverFalls` (the
  index), and for every step `CopiesFollow` (a copy that keeps its price starts no
  earlier than its original). `RisesInv`: the raises of a vehicle are in one order by
  day and by month; a plan's row comes last (`ComesLast`); each price is no more than
  the agreed one risen to the row's month (`Follows`); and the price stored with the
  vehicle is one of some month before its start and before all its raises
  (`StoredAgreed`), which is why a plan that starts from it may raise it. That two
  quotients of the index multiply, cents cut off each time, is `RiseOnRise`; products
  reach the solver only under names.
* `FrontDeskProofs!CodesAreSpentOnce` (`CodeSpentOnce`) and `SessionsStandOnProof`
  (`SessionsAreProven`) from `AccessBase`: what a request in flight remembers was
  true of the account at a number of changes, and everything that would make it
  false has raised that number or replaced the secret it is compared with.
* `SomebodyAdministers` (`AdminRemains`) under `~OmitsStatus`: who is about to cost an
  administrator holds the lock on the admin rows, and another one stands
  (`AdminsHold`).
* `LimitsHold` (`WithinCapacity`): for each limit, the rows plus those
  that the holder of the lock has counted and not yet inserted have room
  (`CapacityInv`). `ForgottenForGood` (`AnonymizedStaysEmpty`): an errand that still
  writes has found its customer as he is now (`DeskBase`).
* `NobodyIsSkipped` (`MarkerIsEarned`): a round under way has come to everybody whom it
  no longer lists (`AutoInvoiceInv`).

### 4.4 Agreements (`HouseProofs`, second part)

* `NoVehicleCoveredTwice` (`OneAgreementAtATime`) under `DeletableVehicles = {}` (5.1
  says why) from `CoverInv`: any two live agreements are apart, also with regard to
  vehicles that are still to come.
* `ReceiptsKeepTheirPeriods` (`ReceiptKeepsItsPeriod`) under `Orderly` (no backfill in
  between, no agreement created as paid) and `OwedIsAsked` (`OwesWhatIsBilled`) under
  `Orderly` and `OnePrice` (5.1). `AgreementOK` relates one agreement's row to its
  receipts and bills: what is settled is locked, a paid agreement has a receipt
  for every period it will ever accrue, a receipt is what the marks say, and a
  billed period is not fully marked. `RecurringOK` says the same of recurring costs.

### 4.5 The house (`HouseProofs`)

* `OutcomesHold` (`OutcomeIsTrue`) under `~LeaseLoss`, for any jobs and replicas, from
  `OutcomeInv`: who owns which row in which phase, who holds the lease, and that
  whoever imports has a row in a late phase.
* `SoundWhileServing` (`ServesSoundDatabase`) under `~LeaseLoss`, `~OfflineBreaks` and one
  job (with two jobs the code does not keep it, section 5), from `SoundInv`: replaced
  sessions are known to a job or to the offline command, and who starts again
  finds the job over.
* `GoodStandLasts` (`GoodStandRemains`) from `BackupInv`: a run knows whether the archive
  it wrote is good, and pruning keeps the newest ones.

### 4.6 Records (`RecordsProofs`)

* `EveryPaymentCounts` (`CountedInOneYear`) and `LockedYearsStand` (`LockedYearStands`,
  under `~RacingErasure`): the second is an action property over everything a
  report reads, with the 15-day rule, reversals, templates and depreciation.
* `DashboardIsRecent` (`OverviewIsRecent`) from `DashInv`: each cached summary and each
  calculation under way covers what its revision promises.
* `InvoicesStand` (`InvoicedDaysStand`) from `YardInv`: every day a bill lists is a day
  of rent now, and lies before `LockedThrough`, the day the handlers ask for.
* `PaidDaysStay` (`PaidNeverLost`) under `~OutOfOrder` and `OneStart` (one start day, 5.1)
  from `PaidInv`: the pauses of a vehicle follow one another and only the last may
  run; the days up to the paid-through day, less those of ended pauses, are at
  least the days bought. What a return credits is counted over sets of days, and
  `shiftPaidThrough` finds the day it looks for because every pause that ended is
  finite.

### 4.7 Types that say more than a domain

Each module's type invariant is a theorem of its own (`TypeCorrect` twice,
`ForgottenForGood` for the desk, the rest below). Where it relates tables it is not
inductive:

* `ReceiptsTypes` from `OnceInv`, `IndexationTypes` from `IndexRows`: a plan in flight has one
  row per vehicle and no month after the calendar's, and a copy takes the raises
  that start after it.
* `AccessTypes`: an account that is gone has neither sessions nor passkeys, and no
  passkey belongs to two accounts.
* `TaxTypes` from `ReversalsNamed`: a reversal names a booked expense of its amount that
  is not a reversal. `OverviewTypes` from `FlightsApart`: one calculation for a revision
  and year, also while requests join and leave it.
* `YardTypes` from `YardFits`: no rental ends before it starts, one vehicle per spot,
  no vehicle on a deleted spot, and `shiftPaidThrough` lands on a day of the calendar
  however long the pauses are that it skips.
* `RestoreTypes` from `OneJobInv`: at most one job is under way, and the exclusive lease
  is never held next to a shared one. It holds for any `LeaseLoss`: the unique index
  over active jobs and the compare-and-set of a claim keep jobs apart where the lease
  does not. (That who replaces the database still has the lease needs `~LeaseLoss`.)
* `BackupTypes` from `RoomInv`: one run per target over all processes; a run that
  has something to check or rename has its file in the directory, so what crashed
  runs leave and what is listed never outgrow it together; the directory lists
  verified archives only.
* `ContractsTypes`, without the hypotheses of 4.4: a part payment locks its agreement
  and stays within the price (`PartsLocked`), and no position names a cancelled
  invoice as its bill. The price bound is not claimed of recurring costs (5.1).

### 4.8 Parts and the runs they are in

`OfficeProofs!OfficeRunsItsParts` and `HouseProofs!HouseRunsItsParts`: a behaviour of the
composed run is a behaviour of each module's own specification, whichever part
moves, though the run cuts some parts' steps. The theorems above therefore
speak of the systems the runs check; `OfficeTypes` (`OfficeTypeOK`) is put together that
way from eight of them. Of `Contracts` the safety part is shown, since
the house owes the sweep only where contracts are what the behaviour is about.

### 4.9 Only model-checked

* Liveness (`QueueResolves`, `ArchiveHeals`, `RestoreEnds`, `BackupsDueAreTried`): fairness
  is a statement about ENABLED, which TLAPS does not handle. Every other property of
  a passing run is stated by a theorem.
* Where a theorem has a hypothesis (`~LeaseLoss`, one job, `Orderly`, `OnePrice`, `OneStart`,
  `OnePlan`, ...), the case outside it is either one TLC shows to fail (5.1, switches in
  section 3) or, for one job, finding `MCRestoreResumes`.

## 5. Findings

Each has a run in which TLC finds the violation.

* `NoChargeLost`: `DeletePayment` (`payments.go:1253`) clears the flag of a released
  charge only where it is bound to no vehicle. A receipt of the vehicle slider
  also settled the bound charges; reversed from the payments page, they keep
  `paid` without money and are never owed or billed again.
* `NoLockLeftBehind`: `RemindInvoice` (`reminders.go:161-170`) returns between the
  session lock and its deferred unlock when an automatic reminder is waiting.
* `ServesSoundDatabase` with two jobs: after a restore `run` (`main.go:329`) migrates
  and opens the handlers without asking for an active job again; if another
  replica broke off a second restore meanwhile, it serves what that one left.
* `DepreciatedWithinBasis`: `annualTaxDepreciation` (`tax_book.go:245`) rounds what it
  returns but not what it adds up: 0.05 over two years is written off as 0.03
  twice.
* `RisesSinceStart`: `ApplyIndexation` (`indexation.go:528`) moves the base month of
  the tariff also for contracts it skipped below the threshold; what the index
  rose for those until then is lost.

### 5.1 Statements of comments that the code does not keep

Defined in the modules, in no run. To see one, put its name under INVARIANT of
the `.cfg` named here.

* `Settlement!ArchivedMeansCovered` (`MCSettlementRent.cfg`): `vehicleArchivePredicate`
  (`vehicle_closure.go:106`) takes any invoice source of a period as its coverage.
  A period settled in part and invoiced for the rest counts as covered after the
  settlement is reversed.
* `MailQueue!InterruptedNotRepeated` (`MCMailQueue.cfg`): a delivery that was
  interrupted after the mail left is failed and unbooked; `QueueDueReminders` then
  queues the same level again.
* `MailQueue!AnonymizedNotSent` (`MCMailQueue.cfg`): the batch is delivered from
  memory after its rows were anonymised.
* `Backups!FailedObjectGoes` (`MCHouse.cfg`, part schedule): an object that failed its
  check stays in the bucket, as the newest, if the bucket does not answer the
  delete.
* `TaxBook!PaymentsAreKept` (`MCOffice.cfg` with `RacingErasure = TRUE`, part income).
* `Access!ResetEndsSessions`: a factor proven before an administrator's reset and
  inserted after a new enrolment makes a session the reset did not end. It takes
  more changes of one account than part factors has: three, without that part's
  restriction of the last one to an enrolment.

These are properties of the runs above that hold on their instances and fail on
larger ones. The proofs brought them up; TLC shows each with the constants given.

* `Contracts!OneAgreementAtATime` with two vehicles, one of them deletable (part
  agreements): a deleted vehicle takes its row of `flat_rate_period_vehicles` along,
  and no rows mean all vehicles (`vehicles.go:762`, migration
  `012_flatrate_periods.sql:21`). An agreement for the deleted vehicle alone covers
  every other one from then on, next to the agreement it already has.
* `Contracts!OwesWhatIsBilled` with `RecurringAmounts = {1, 2}` (part recurring):
  `UpdateRecurringCharge` (`recurring.go:411`) lets the price change while a settled
  period has its receipt. The period stays marked as paid, the balance asks for the
  difference, and no invoice ever bills it. With `RecurringAmounts = {2, 4}` the
  lowered price may also lie below a part payment already booked for a period, so
  `ContractsTypeOK` bounds part payments by the price for agreements only.
* `Indexation!NoRiseTwice` with an index of four months, `CPI` 1, 2, 4, 8, and two
  officers (part rates): a plan made outside the transaction
  (`indexation.go:469`) is inserted as it is (`indexation.go:492`), also after
  another was applied or the latest rise was deleted meanwhile. Rises then lie out
  of order, and the next plan charges one of them again.
* The same with one officer and a copy of a copy (part copies; three vehicles):
  `DuplicateVehicle` (`vehicles.go:1287`) takes any start date. A copy that
  keeps its price is stored with the price of its start, raised already; copied again
  to an earlier day, it has that price and an older base month, and the next plan
  raises it from there a second time.
* The same with one officer and one vehicle where the index falls in between
  (`CPI` 4, 2, 4): an operator who sets the tariff's base to the low month
  (`SetCategoryIndexation`) has the way back charged as a rise.
* `Yard!PaidNeverLost` with `StartDays = {0, 2}`, `PauseDays = {1, 2}` and five days (part
  pauses): `UpdateVehicle` (`vehicles.go:623`) lets the start of an unpaid rental move
  past a pause. A return then moves the paid-through day back for days before the
  start, and deleting the pause takes back more than it gave.

### 5.2 Seen while reading, not in a model

Each is a line where the code does, on a rare path, less than its surroundings
suggest; none is checked here.

* The rent of a vehicle that a Pauschale covers is booked with an allocation of 0
  by its slider (`payments.go:577`); `validateCharge` reads the vehicle's owner
  before the lock (`charges.go:395`); the archive follow-up of a status change is
  only logged when it fails (`vehicles.go:69`).
* `markSent` takes a second connection of the pool while the delivery holds its own
  (`outbox.go:267`); a mail is enqueued after its address was read, without a
  transaction that anonymising would conflict with (`mailflow.go:93`).
* The upload of a tax receipt counts in a statement that may have waited for its
  lock, on the older snapshot (`tax_book.go:953`); a wish of a person may be stored
  after AnonymizePerson has emptied the others.
* Pickup windows that overlap offer a slot as long as one of them has room.

## 6. Not modelled

* **Lock order.** Every handler of a customer starts with the customer's lock, and
  the modules take what follows as one action; the order of the row, advisory
  and tax-year locks behind it, and freedom from deadlock, is open.
* **Proration** of broken periods with USt and rounding to cents; `Yard` and
  `Contracts` have whole periods, `Settlement` a daily rate.
* **Service tasks, access media, the waitlist, the calendar**: record keeping over
  charges and persons.
* **Notices** of price changes and contract ends (the path of the outbox, without a
  lock), bulk reminders (a loop over `RemindInvoice`).
* **Reports other than the dashboard, search, import, export, audit**: queries and
  file formats.
* **Left out for good**: rendering, CSV and PDF, SMTP and S3 traffic, cryptography,
  one-off migrations, the browser code. They keep no state the properties speak
  of, or their correctness is not a matter of interleaving.

## 7. What comes next

1. `SettlementLocks`: the lock sets of the handlers of `Settlement` in their order,
   two customers, no cycle of waits.
2. Agreements composed with `Settlement`: rent that a Pauschale covers, extras of
   the master slider, the move of a position to another person.
3. Proration as a pure operator against a reference definition; service tasks.
