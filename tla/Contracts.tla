----------------------------- MODULE Contracts ------------------------------
(***************************************************************************)
(* What a customer owes by the period: flat-rate agreements (Pauschalen) and *)
(* recurring costs (Nebenkosten), the sliders that mark their periods paid,  *)
(* the receipts those sliders book, the invoices that bill the rest, and the *)
(* vehicles an agreement covers.                                             *)
(*                                                                           *)
(* One customer.  Every handler takes the customer's settlement lock before  *)
(* it reads what it decides on, so its transaction is one action; what is    *)
(* read outside the lock (the slider of a recurring period, the backfill at  *)
(* server start, the archive sweep) is a step of its own.  Periods are whole *)
(* numbers: period k is complete once today > k, and the running period has  *)
(* accrued half its cost.  Whether a period is billed by a month or a year   *)
(* makes no difference here except that a change of it drops the marks.      *)
(***************************************************************************)
EXTENDS Integers, FiniteSets, FiniteSetsExt

CONSTANTS
    Agreements,        \* flat_rate_periods.id
    Recurring,         \* recurring_charges.id
    Vehicles,          \* vehicles of the customer
    LastBilling,       \* bound: periods 0..LastBilling
    Amounts,           \* bound: prices of an agreement
    RecurringAmounts,  \* bound: prices of a recurring cost
    DeletableVehicles, \* vehicles without billing history that are deleted
    ChargedVehicles,   \* vehicles with a bound charge
    CreatedPaid,       \* values a client may send as "paid" of a new agreement
    BackfillOverlaps,          \* whether requests run while the backfill does
    MaxInvoices        \* bound: invoices

Accruals == Agreements \cup Recurring
Periods  == 0 .. LastBilling
Forever  == LastBilling + 1    \* no end date: open-ended
Prices   == Amounts \cup RecurringAmounts \cup {1}
NoMark   == -1
Whole    == 0           \* paid in full; a positive mark is a fixed part payment

ASSUME ContractsAssumption ==
    /\ Agreements \cap Recurring = {} /\ 1 \notin Recurring /\ Amounts # {}
    /\ LastBilling \in Nat /\ MaxInvoices \in Nat
    /\ Amounts \subseteq Nat \ {0} /\ RecurringAmounts \subseteq Nat \ {0}
    /\ DeletableVehicles \subseteq Vehicles /\ ChargedVehicles \subseteq Vehicles
    /\ CreatedPaid \subseteq BOOLEAN /\ BackfillOverlaps \in BOOLEAN

VARIABLES
    today,        \* the running period
    row,          \* agreements and recurring costs
    receipt,      \* payments with settles_kind: amount per accrual and period
    extrasPaid,   \* agreements whose extras have a receipt
    billed,       \* invoice_source of active invoices: per accrual and period
    fleet,        \* the customer's vehicles and one bound charge each
    nInvoice, canceled,
    slider, backfill, sweep   \* what ran ahead of its transaction

moneyVars     == <<receipt, extrasPaid>>
invoiceVars   == <<billed, nInvoice, canceled>>
aheadVars     == <<slider, backfill, sweep>>
contractsVars == <<today, row, moneyVars, invoiceVars, fleet, aheadVars>>

NoRow == [live |-> FALSE, start |-> 0, end |-> Forever, amount |-> 1, vehicles |-> {},
          paid |-> FALSE, locked |-> FALSE, mark |-> [k \in Periods |-> NoMark]]
NoSlider == [at |-> "idle", i |-> 0, k |-> 0, mark |-> NoMark, was |-> NoRow]
NoSweep  == [at |-> "idle", wake |-> {}, archive |-> {}]

-----------------------------------------------------------------------------
(* Period arithmetic.                                                       *)
Elapsed(r)     == { k \in Periods : r.start <= k /\ k <= r.end /\ k <= today }
Complete(r)    == { k \in Elapsed(r) : k < today }
Cost(r, k)     == IF k < today THEN r.amount ELSE r.amount \div 2
Ended(r)       == r.end < today
LowerOf(a, b)  == IF a < b THEN a ELSE b
\* What a period's marks say is paid: all of it, a part up to its cost, nothing.
PaidPart(r, k) == IF r.paid \/ r.mark[k] = Whole THEN Cost(r, k)
                  ELSE IF r.mark[k] = NoMark THEN 0 ELSE LowerOf(r.mark[k], Cost(r, k))
SettledAsOf(r) == \A k \in Elapsed(r) : PaidPart(r, k) = Cost(r, k)

CoversVehicle(r, v) == r.vehicles = {} \/ v \in r.vehicles
Present             == { v \in Vehicles : fleet[v].is \in {"stored", "closed"} }
Covering(v)         == { i \in Agreements : /\ row[i].live /\ CoversVehicle(row[i], v)
                                            /\ fleet[v].start <= row[i].end }
Done(i)             == Ended(row[i]) /\ SettledAsOf(row[i])

\* BillNothing: an invoice is drawn up for what the marks leave open.
OpenOf(r, k) == Cost(r, k) - PaidPart(r, k)
\* Mutant: the balance credits a mark although its receipt already counts.
MutantCredit(i, k) == PaidPart(row[i], k)
\* periodPaidUnlocked: what the balance credits for a mark no receipt stands for.
OffBookCredit(i, k) == IF receipt[i][k] # 0 THEN 0 ELSE PaidPart(row[i], k)
Owed(i, k) == Cost(row[i], k) - OffBookCredit(i, k) - receipt[i][k]

Billed(i)  == \E k \in Periods : billed[i][k] # 0
HasReceipt(i) == i \in extrasPaid \/ \E k \in Periods : receipt[i][k] # 0
NoMarks    == [k \in Periods |-> NoMark]

-----------------------------------------------------------------------------
\* A part payment lies within some price: the cost of a slider may have been lowered since.
Marking == UNION { NoMark .. a : a \in Prices }
TypedRow(r) == /\ r.start \in Periods /\ r.end \in r.start .. Forever
               /\ r.amount \in Prices
               /\ r.vehicles \subseteq Vehicles
               /\ {r.live, r.paid, r.locked} \subseteq BOOLEAN
               /\ \A k \in Periods : r.mark[k] \in Marking
ContractsTypeOK ==
    /\ today \in 1 .. Forever
    /\ \A i \in Accruals : TypedRow(row[i])
    /\ \A i \in Agreements, k \in Periods : row[i].mark[k] <= row[i].amount
    /\ \A i \in Accruals, k \in Periods : receipt[i][k] >= 0 /\ billed[i][k] \in (0 .. nInvoice) \ canceled
    /\ extrasPaid \subseteq Agreements
    /\ nInvoice \in 0 .. MaxInvoices /\ canceled \subseteq 1 .. nInvoice
    /\ \A v \in Vehicles : /\ fleet[v].is \in {"absent", "stored", "closed", "gone"}
                           /\ fleet[v].start \in Periods /\ fleet[v].archived \in BOOLEAN
                           /\ fleet[v].extra \in {"open", "settled"}
                           /\ fleet[v].bill \in (0 .. nInvoice) \ canceled
    /\ slider.at \in {"idle", "ready"} /\ sweep.at \in {"idle", "read"}
    /\ backfill.at \in {"ready", "running", "done"}
    /\ sweep.wake \cup sweep.archive \subseteq Vehicles

\* The database a new version starts with may hold an agreement whose first
\* period was marked paid before receipts were booked (migrations 036 and 070).
Legacy(m) == [NoRow EXCEPT !.live = TRUE, !.amount = CHOOSE a \in Amounts : TRUE,
              !.locked = TRUE, !.mark = [NoMarks EXCEPT ![0] = m]]

ContractsInit ==
    /\ today = 1
    /\ \E first \in {NoRow, Legacy(Whole), Legacy(1)} :
         row = [i \in Accruals |-> IF i = 1 THEN first ELSE NoRow]
    /\ receipt = [i \in Accruals |-> [k \in Periods |-> 0]]
    /\ extrasPaid = {}
    /\ billed = [i \in Accruals |-> [k \in Periods |-> 0]]
    /\ nInvoice = 0 /\ canceled = {}
    /\ \E stored \in SUBSET Vehicles :
         fleet = [v \in Vehicles |-> [is |-> IF v \in stored THEN "stored" ELSE "absent", start |-> 0,
                                      archived |-> FALSE, bill |-> 0,
                                      extra |-> IF v \in ChargedVehicles THEN "open" ELSE "settled"]]
    /\ slider = NoSlider /\ sweep = NoSweep
    /\ backfill = [at |-> "ready", todo |-> {}]

-----------------------------------------------------------------------------
(* Agreements.                                                              *)

\* Mutant: an end date is the first day that is no longer covered.
MutantOverlap(a, b) == a.start < b.end /\ b.start < a.end
\* End dates are inclusive.
OverlapInTime(a, b) == a.start <= b.end /\ b.start <= a.end
Conflict(a, b) == /\ OverlapInTime(a, b)
                  /\ a.vehicles = {} \/ b.vehicles = {} \/ a.vehicles \cap b.vehicles # {}

\* validateAgreementTx: a contract for new vehicles only is not yet person-wide.
ValidAgreement(i, cand, news) ==
    /\ cand.vehicles \subseteq Present
    /\ \A j \in Agreements \ {i} : row[j].live =>
         \/ cand.vehicles = {} /\ news # {} /\ row[j].vehicles # {}
         \/ ~Conflict(cand, row[j])

Retracts(i, end) == \E k \in Periods : billed[i][k] # 0 /\ k > end
Changes(a, b)    == <<a.start, a.end, a.amount, a.vehicles>> # <<b.start, b.end, b.amount, b.vehicles>>

\* The part of the terms an invoice freezes: all but a later end.
Freezes(i, cand, newPeriod) ==
    \/ newPeriod \/ Retracts(i, cand.end)
    \/ <<row[i].start, row[i].amount, row[i].vehicles>> # <<cand.start, cand.amount, cand.vehicles>>

\* saveAgreement: news are vehicles entered along with the contract; newPeriod
\* says that it is billed by another period than before.
SaveAgreement(i, cand, news, newPeriod) ==
    /\ news \subseteq { v \in Vehicles : fleet[v].is = "absent" }
    /\ ValidAgreement(i, cand, news)
    /\ LET all == [cand EXCEPT !.vehicles = @ \cup news] IN
         IF ~row[i].live
         THEN /\ ~newPeriod
              /\ row' = [row EXCEPT ![i] = all]
         ELSE /\ row[i].locked => ~Changes(row[i], all) /\ ~newPeriod
              /\ Billed(i) => ~Freezes(i, all, newPeriod)
              /\ row' = [row EXCEPT ![i] = [all EXCEPT
                   !.paid = row[i].paid, !.locked = row[i].locked,
                   !.mark = IF newPeriod THEN NoMarks ELSE row[i].mark]]
    /\ fleet' = [v \in Vehicles |-> IF v \in news
                   THEN [fleet[v] EXCEPT !.is = "stored", !.start = cand.start] ELSE fleet[v]]
    /\ UNCHANGED <<today, moneyVars, invoiceVars, aheadVars>>

DeleteAgreement(i, withVehicles) ==
    /\ row[i].live /\ ~row[i].locked
    /\ ~Billed(i) /\ ~HasReceipt(i)
    /\ LET only == { v \in row[i].vehicles : \A j \in Agreements \ {i} : v \notin row[j].vehicles }
       IN  fleet' = [v \in Vehicles |-> IF withVehicles /\ v \in only
                       THEN [fleet[v] EXCEPT !.is = "gone", !.archived = FALSE] ELSE fleet[v]]
    /\ row' = [row EXCEPT ![i] = NoRow]
    /\ UNCHANGED <<today, moneyVars, invoiceVars, aheadVars>>

\* The foreign key drops the vehicle from the agreements it is in.
VehicleDeleted(v) ==
    /\ v \in DeletableVehicles \cap Present
    /\ fleet' = [fleet EXCEPT ![v].is = "gone", ![v].archived = FALSE]
    /\ row' = [i \in Accruals |-> [row[i] EXCEPT !.vehicles = @ \ {v}]]
    /\ UNCHANGED <<today, moneyVars, invoiceVars, aheadVars>>

\* settleAgreementExtrasTx: one receipt for the open charges on covered vehicles.
OpenExtras(i) == { v \in Present : /\ CoversVehicle(row[i], v)
                                   /\ row[i].vehicles = {} => fleet[v].start <= row[i].end
                                   /\ fleet[v].extra = "open" /\ fleet[v].bill = 0 }

\* Neither invoices nor receipts: the master slider decides alone.
Untouched(i) == ~Billed(i) /\ ~HasReceipt(i)

\* Mutant: a settled agreement can still be edited.
MutantLock(locked, settles) == locked
\* settlement_locked stays once something was settled.
LockOn(locked, settles) == locked \/ settles

SetAgreementPaid(i, paid) ==
    /\ row[i].live
    /\ Untouched(i)
    /\ paid => Elapsed(row[i]) # {} /\ Elapsed(row[i]) = Complete(row[i])
    /\ row' = [row EXCEPT ![i].paid = paid, ![i].locked = LockOn(@, paid), ![i].mark = NoMarks]
    /\ IF paid
       THEN /\ receipt' = [receipt EXCEPT ![i] = [k \in Periods |->
                 IF k \in Complete(row[i]) THEN row[i].amount ELSE @[k]]]
            /\ fleet' = [v \in Vehicles |-> IF v \in OpenExtras(i)
                           THEN [fleet[v] EXCEPT !.extra = "settled"] ELSE fleet[v]]
            /\ extrasPaid' = IF OpenExtras(i) = {} THEN extrasPaid ELSE extrasPaid \cup {i}
       ELSE UNCHANGED <<moneyVars, fleet>>
    /\ UNCHANGED <<today, invoiceVars, aheadVars>>

\* recordPeriodPaymentTx: an equal receipt is left, another one is history.
BookPeriod(i, k, amount) == /\ receipt[i][k] \in {0, amount}
                            /\ receipt' = [receipt EXCEPT ![i][k] = amount]
\* deletePeriodPaymentTx refuses where there is history.
KeepReceipts(i, k) == receipt[i][k] = 0 /\ UNCHANGED receipt

\* A part is booked at once, a whole period when its cost is final.
BookMark(i, k, m, r) ==
    IF m > 0 THEN BookPeriod(i, k, m)
    ELSE IF m = Whole /\ k \in Complete(r) THEN BookPeriod(i, k, r.amount)
    ELSE KeepReceipts(i, k)

ValidMark(r, k, m) == k \in Elapsed(r) /\ (m > 0 => m <= Cost(r, k))

\* Taking one period back turns the master flag into a mark per period.
SpreadPaid(i) == [k \in Periods |-> IF row[i].paid /\ k \in Elapsed(row[i]) /\ row[i].mark[k] = NoMark
                                    THEN Whole ELSE row[i].mark[k]]

SetAgreementPeriodPaid(i, k, m) ==
    /\ row[i].live /\ ValidMark(row[i], k, m)
    /\ billed[i][k] = 0
    /\ row' = [row EXCEPT ![i] = IF m = NoMark
         THEN [@ EXCEPT !.paid = FALSE, !.mark = [SpreadPaid(i) EXCEPT ![k] = NoMark]]
         ELSE [@ EXCEPT !.locked = LockOn(row[i].locked, TRUE), !.mark[k] = m]]
    /\ BookMark(i, k, m, row[i])
    /\ UNCHANGED <<today, extrasPaid, invoiceVars, fleet, aheadVars>>

-----------------------------------------------------------------------------
(* Recurring costs.                                                         *)

CreateRecurringCharge(i, cand) ==
    /\ ~row[i].live
    /\ row' = [row EXCEPT ![i] = cand]
    /\ UNCHANGED <<today, moneyVars, invoiceVars, fleet, aheadVars>>

UpdateRecurringCharge(i, cand) ==
    /\ row[i].live
    /\ Billed(i) => ~Freezes(i, cand, FALSE)
    /\ row' = [row EXCEPT ![i] = [cand EXCEPT !.mark = row[i].mark]]
    /\ UNCHANGED <<today, moneyVars, invoiceVars, fleet, aheadVars>>

DeleteRecurringCharge(i) ==
    /\ row[i].live /\ ~Billed(i) /\ ~HasReceipt(i)
    /\ row' = [row EXCEPT ![i] = NoRow]
    /\ UNCHANGED <<today, moneyVars, invoiceVars, fleet, aheadVars>>

\* "bezahlt": every complete period no invoice bills gets a mark and a receipt.
SettleRecurring(i) ==
    LET free == { k \in Complete(row[i]) : billed[i][k] = 0 }
        due  == { k \in free : row[i].mark[k] # Whole }
    IN  /\ free # {}
        /\ \A k \in due : receipt[i][k] \in {0, row[i].amount}
        /\ receipt' = [receipt EXCEPT ![i] =
             [k \in Periods |-> IF k \in due THEN row[i].amount ELSE @[k]]]
        /\ row' = [row EXCEPT ![i].mark = [k \in Periods |-> IF k \in due THEN Whole ELSE @[k]]]

SetRecurringChargePaid(i, paid) ==
    /\ row[i].live
    /\ IF paid
       THEN SettleRecurring(i)
       ELSE /\ ~HasReceipt(i)
            /\ row' = [row EXCEPT ![i].mark =
                 [k \in Periods |-> IF billed[i][k] # 0 THEN @[k] ELSE NoMark]]
            /\ UNCHANGED receipt
    /\ UNCHANGED <<today, extrasPaid, invoiceVars, fleet, aheadVars>>

\* The row is read and the request validated before the lock is taken.
ReadRecurring(i, k, m) ==
    /\ slider.at = "idle"
    /\ row[i].live /\ ValidMark(row[i], k, m)
    /\ slider' = [at |-> "ready", i |-> i, k |-> k, mark |-> m,
                  was |-> [row[i] EXCEPT !.mark = NoMarks]]
    /\ UNCHANGED <<today, row, moneyVars, invoiceVars, fleet, backfill, sweep>>

SetRecurringChargePeriodPaid ==
    LET i == slider.i  k == slider.k IN
    /\ slider.at = "ready"
    /\ slider' = NoSlider
    /\ \/ /\ row[i].live /\ billed[i][k] = 0
          /\ row' = [row EXCEPT ![i].mark[k] = slider.mark]
          /\ BookMark(i, k, slider.mark, slider.was)
       \/ UNCHANGED <<row, receipt>>
    /\ UNCHANGED <<today, extrasPaid, invoiceVars, fleet, backfill, sweep>>

-----------------------------------------------------------------------------
(* Invoices.                                                                *)
ToBill == { x \in Accruals \X Periods :
              /\ row[x[1]].live /\ x[2] \in Complete(row[x[1]])
              /\ billed[x[1]][x[2]] = 0 /\ OpenOf(row[x[1]], x[2]) > 0 }
ToBillExtras == { v \in Present : fleet[v].extra = "open" /\ fleet[v].bill = 0 }

CreateInvoice ==
    /\ nInvoice < MaxInvoices
    /\ ToBill # {} \/ ToBillExtras # {}
    /\ nInvoice' = nInvoice + 1
    /\ billed' = [i \in Accruals |-> [k \in Periods |->
                    IF <<i, k>> \in ToBill THEN nInvoice' ELSE billed[i][k]]]
    /\ fleet' = [v \in Vehicles |-> IF v \in ToBillExtras
                   THEN [fleet[v] EXCEPT !.bill = nInvoice'] ELSE fleet[v]]
    /\ UNCHANGED <<today, row, moneyVars, canceled, aheadVars>>

CancelInvoice(n) ==
    /\ n \in 1 .. nInvoice \ canceled
    /\ canceled' = canceled \cup {n}
    /\ billed' = [i \in Accruals |-> [k \in Periods |-> IF billed[i][k] = n THEN 0 ELSE billed[i][k]]]
    /\ fleet' = [v \in Vehicles |-> IF fleet[v].bill = n THEN [fleet[v] EXCEPT !.bill = 0] ELSE fleet[v]]
    /\ UNCHANGED <<today, row, moneyVars, nInvoice, aheadVars>>

-----------------------------------------------------------------------------
(* Server start: receipts for marks from before there were receipts.        *)
BackfillItems == { [i |-> i, k |-> k, amount |-> IF row[i].mark[k] > 0 THEN row[i].mark[k] ELSE row[i].amount] :
                     i \in { j \in Accruals : row[j].live }, k \in Periods }
Backfillable(x) == /\ row[x.i].mark[x.k] # NoMark
                   /\ row[x.i].mark[x.k] > 0 \/ x.k \in Complete(row[x.i])

BackfillRead ==
    /\ backfill.at = "ready"
    /\ backfill' = [at |-> "running", todo |-> { x \in BackfillItems : Backfillable(x) }]
    /\ UNCHANGED <<today, row, moneyVars, invoiceVars, fleet, slider, sweep>>

\* One transaction per mark, under the customer's lock.
Backfilled(x) == IF receipt[x.i][x.k] = 0 THEN x.amount ELSE receipt[x.i][x.k]

BackfillBook(x) ==
    /\ backfill.at = "running" /\ x \in backfill.todo
    /\ receipt' = [receipt EXCEPT ![x.i][x.k] = Backfilled(x)]
    /\ backfill' = [backfill EXCEPT !.todo = @ \ {x}]
    /\ UNCHANGED <<today, row, extrasPaid, invoiceVars, fleet, slider, sweep>>

\* runOnce: the marker is written after the work, so a crash repeats it.
BackfillEnd ==
    /\ backfill.at = "running"
    /\ backfill' = [at |-> IF backfill.todo = {} THEN "done" ELSE "ready", todo |-> {}]
    /\ UNCHANGED <<today, row, moneyVars, invoiceVars, fleet, slider, sweep>>

-----------------------------------------------------------------------------
(* The archive follows the agreements (ArchiveSettledExpiredVehicles).       *)
Finished(v)      == Covering(v) # {} /\ \A i \in Covering(v) : Done(i)
Unfinished(v)    == \E i \in Covering(v) : ~Done(i)
ShouldArchive(v) == v \in Present /\ Finished(v) /\ ~fleet[v].archived
ShouldWake(v)    == v \in Present /\ Unfinished(v) /\ fleet[v].archived /\ fleet[v].is # "closed"

\* Mutant: the sweep archives only.
MutantWakes == {}
Wakes == { v \in Vehicles : ShouldWake(v) }

SweepRead ==
    /\ sweep.at = "idle"
    /\ sweep' = [at |-> "read", wake |-> Wakes, archive |-> { v \in Vehicles : ShouldArchive(v) }]
    /\ UNCHANGED <<today, row, moneyVars, invoiceVars, fleet, slider, backfill>>

\* Two statements on what was read; a failed sweep is repeated by the next one.
SweepWrite ==
    /\ sweep.at = "read"
    /\ fleet' = [v \in Vehicles |-> IF v \in Present
                   THEN [fleet[v] EXCEPT !.archived = (@ /\ v \notin sweep.wake) \/ v \in sweep.archive]
                   ELSE fleet[v]]
    /\ sweep' = NoSweep
    /\ UNCHANGED <<today, row, moneyVars, invoiceVars, slider, backfill>>

CloseVehicle(v) ==
    /\ fleet[v].is = "stored"
    /\ fleet' = [fleet EXCEPT ![v].is = "closed", ![v].archived = TRUE]
    /\ UNCHANGED <<today, row, moneyVars, invoiceVars, aheadVars>>

NextPeriod ==
    /\ today < Forever
    /\ today' = today + 1
    /\ UNCHANGED <<row, moneyVars, invoiceVars, fleet, aheadVars>>

-----------------------------------------------------------------------------
\* agreementRequest.parse and recurringRequest.parse.
ValidTerms(t) == t.start <= t.end
Entered(start, end, amount, covers, paid) ==
    [NoRow EXCEPT !.live = TRUE, !.start = start, !.end = end, !.amount = amount, !.vehicles = covers, !.paid = paid]
Entries(amounts, covers, paid) ==
    { t \in { Entered(s, e, a, c, p) : s \in Periods, e \in 0 .. Forever, a \in amounts, c \in covers, p \in paid } :
      ValidTerms(t) }

Request ==
    \/ \E i \in Agreements, cand \in Entries(Amounts, SUBSET Vehicles, CreatedPaid),
          news \in {{}} \cup { {v} : v \in Vehicles }, newPeriod \in BOOLEAN :
         SaveAgreement(i, cand, news, newPeriod)
    \/ \E i \in Agreements, b \in BOOLEAN : DeleteAgreement(i, b) \/ SetAgreementPaid(i, b)
    \/ \E i \in Agreements, k \in Periods :
         \E m \in NoMark .. row[i].amount : SetAgreementPeriodPaid(i, k, m)
    \/ \E i \in Recurring, cand \in Entries(RecurringAmounts, {{}}, {FALSE}) :
         CreateRecurringCharge(i, cand) \/ UpdateRecurringCharge(i, cand)
    \/ \E i \in Recurring : DeleteRecurringCharge(i) \/ \E b \in BOOLEAN : SetRecurringChargePaid(i, b)
    \/ \E i \in Recurring, k \in Periods : \E m \in NoMark .. row[i].amount : ReadRecurring(i, k, m)
    \/ SetRecurringChargePeriodPaid
    \/ CreateInvoice \/ \E n \in 1 .. MaxInvoices : CancelInvoice(n)
    \/ \E v \in Vehicles : VehicleDeleted(v) \/ CloseVehicle(v)
    \/ NextPeriod

Backfill == BackfillRead \/ (\E x \in backfill.todo : BackfillBook(x)) \/ BackfillEnd

ContractsNext ==
    \/ (backfill.at = "running" => BackfillOverlaps) /\ Request
    \/ Backfill
    \/ SweepRead \/ SweepWrite

(* Fairness: startFlatRateArchival runs the sweep every interval for as long  *)
(* as the server lives (internal/server/server.go).                           *)
ContractsSpec == ContractsInit /\ [][ContractsNext]_contractsVars
                 /\ WF_contractsVars(SweepRead) /\ WF_contractsVars(SweepWrite)

-----------------------------------------------------------------------------
(* Safety.  No vehicle is paid for twice: whatever is created, edited and      *)
(* deleted, two agreements never cover one vehicle at one time                 *)
(* (validateAgreementTx; models.go: an empty set covers all vehicles).         *)
OneAgreementAtATime ==
    \A v \in Present, k \in Periods :
      Cardinality({ i \in Covering(v) : k \in row[i].start .. row[i].end }) <= 1

(* Safety.  The balance and the invoices agree: what a customer owes for a     *)
(* complete period no invoice bills is what the next invoice will bill for it. *)
(* Otherwise it is owed forever and never asked for, or asked for twice        *)
(* (personPeriodPaid, invoiceLines, recordPeriodPaymentTx).                    *)
OwesWhatIsBilled ==
    \A i \in Accruals : row[i].live =>
      \A k \in Complete(row[i]) : billed[i][k] = 0 => Owed(i, k) = OpenOf(row[i], k)

(* Safety.  A receipt of an agreement keeps its subject: the agreement and its *)
(* terms exist as they were, the period is one it accrues, and no invoice asks *)
(* for what is paid (settlement_locked, preservePeriodPaymentHistoryTx).       *)
ReceiptKeepsItsPeriod ==
    \A i \in Agreements, k \in Periods : receipt[i][k] # 0 =>
      /\ row[i].live /\ row[i].locked /\ k \in Elapsed(row[i])
      /\ receipt[i][k] <= row[i].amount
      /\ billed[i][k] # 0 => receipt[i][k] < row[i].amount

(* Liveness.  The archive heals: a vehicle that is archived although an        *)
(* agreement for it runs or is unpaid comes back, one whose agreements are all *)
(* finished leaves the active list - also when the sweep acted on what it read *)
(* before the agreement changed.                                               *)
ArchiveHeals ==
    \A v \in Vehicles : (ShouldArchive(v) \/ ShouldWake(v)) ~> ~(ShouldArchive(v) \/ ShouldWake(v))
=============================================================================
