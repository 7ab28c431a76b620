----------------------------- MODULE Settlement -----------------------------
(***************************************************************************)
(* The settlement ledger of ONE customer of Parkrr: charges, vehicle rent,  *)
(* payments with their allocations, invoices with their sources, credit     *)
(* drawdown, Storno and the automatic archive of finished vehicles.         *)
(*                                                                          *)
(* Every handler below is one PostgreSQL transaction that takes the         *)
(* customer's settlement lock (lockInvoicePersonTx) before it reads, so it  *)
(* is one action here.  The archive follow-ups run in a transaction of      *)
(* their own after the commit, and their errors are only logged: they are   *)
(* actions of their own, and they may be lost.                              *)
(*                                                                          *)
(* Days are business days counted from the start of every vehicle's rental  *)
(* (day 1); billing period k is days (k-1)*PeriodDays+1 .. k*PeriodDays.    *)
(* Money is whole cents of a fixed daily rate, so prorating is exact and no *)
(* invoice carries USt (Kleinunternehmer).                                  *)
(***************************************************************************)
EXTENDS Integers, FiniteSets, FiniteSetsExt

CONSTANTS
    Charges,      \* ids of one-off charges (Zusatzkosten)
    Vehicles,     \* ids of the customer's vehicles (Gefaehrte)
    NoVehicle,    \* vehicle_id IS NULL
    Price,        \* [Charges -> Nat]: quantity * amount of a charge
    DayRate,      \* [Vehicles -> Nat]: rent of a vehicle per day
    PeriodDays,   \* days of a billing period
    YearDays,     \* days of a tax year
    MaxDay,       \* bound: last day explored
    Amounts,      \* bound: amounts of manual receipts explored
    MaxPayments,  \* bound: payments booked
    MaxInvoices,  \* bound: invoices and Storno documents issued
    MaxMoney      \* largest value of a NUMERIC(12,2) column

PayIds  == 1 .. MaxPayments
InvIds  == 1 .. MaxInvoices
Days    == 1 .. MaxDay
Money   == 0 .. MaxMoney
YearOf(d)   == (d - 1) \div YearDays
PeriodOf(d) == (d - 1) \div PeriodDays + 1
Years   == { YearOf(d) : d \in Days }
Periods == { PeriodOf(d) : d \in Days }

ASSUME SettlementAssumption ==
    /\ NoVehicle \notin Vehicles
    /\ Charges \cap Vehicles = {}
    /\ IsFiniteSet(Charges) /\ IsFiniteSet(Vehicles)
    /\ Price \in [Charges -> Nat \ {0}]
    /\ DayRate \in [Vehicles -> Nat \ {0}]
    /\ PeriodDays \in Nat \ {0} /\ YearDays \in Nat \ {0} /\ MaxDay \in Nat \ {0}
    /\ MaxPayments \in Nat /\ MaxInvoices \in Nat /\ MaxMoney \in Nat
    /\ Amounts \subseteq Money \ {0}

VARIABLES
    today,         \* the business day
    closed,        \* tax_year_locks: the closed tax years
    charge,        \* charges: "none" | "live" | "deleted"
    vehicleOf,     \* charges.vehicle_id
    chargePaid,    \* charges.paid
    status,        \* vehicles.status
    endDay,        \* vehicles.end_date, 0 for NULL
    vehPaid,       \* vehicles.paid
    paidThrough,   \* vehicles.paid_through, 0 for NULL
    archived,      \* vehicles.archived
    nPay, payment, \* payments: rows 1..nPay
    chargeAlloc,   \* payment_allocations of kind charge: payment id or 0
    rentAlloc,     \* payment_allocations of kind vehicle: payment, amount, day
    nInv, invoice, \* invoices: rows 1..nInv
    chargeBilled,  \* invoice_source of kind charge: invoice id or 0
    rentBilled,    \* invoice_source of kind vehicle, per period: invoice, line total
    invPay,        \* invoice_payments: amount a payment gave an invoice
    pending, sweep \* archive follow-ups not yet run

chargeVars  == <<charge, vehicleOf, chargePaid>>
vehicleVars == <<status, endDay, vehPaid, paidThrough, archived>>
payVars     == <<nPay, payment, chargeAlloc, rentAlloc>>
invVars     == <<nInv, invoice, chargeBilled, rentBilled>>
clockVars   == <<today, closed>>
followVars  == <<pending, sweep>>
vars == <<clockVars, chargeVars, vehicleVars, payVars, invVars, invPay, followVars>>

NoPayment == [amount |-> 0, auto |-> FALSE, year |-> 0, reversed |-> FALSE]
NoInvoice == [total |-> 0, paid |-> 0, canceled |-> FALSE, cancels |-> 0]
NoAlloc   == [pay |-> 0, amount |-> 0, day |-> 0]
NoLine    == [inv |-> 0, amount |-> 0]

(* Row types and the domain of every column.                                *)
TypeOK ==
    /\ today \in Days
    /\ closed \subseteq Years
    /\ charge \in [Charges -> {"none", "live", "deleted"}]
    /\ vehicleOf \in [Charges -> Vehicles \cup {NoVehicle}]
    /\ chargePaid \in [Charges -> BOOLEAN]
    /\ status \in [Vehicles -> {"stored", "collected", "cancelled"}]
    /\ endDay \in [Vehicles -> Days \cup {0}]
    /\ vehPaid \in [Vehicles -> BOOLEAN]
    /\ paidThrough \in [Vehicles -> Days \cup {0}]
    /\ archived \in [Vehicles -> BOOLEAN]
    /\ nPay \in 0 .. MaxPayments
    /\ payment \in [PayIds -> [amount : Money, auto : BOOLEAN,
                               year : Years \cup {0}, reversed : BOOLEAN]]
    /\ chargeAlloc \in [Charges -> PayIds \cup {0}]
    /\ rentAlloc \in [Vehicles -> [pay : PayIds \cup {0}, amount : Money, day : Days \cup {0}]]
    /\ nInv \in 0 .. MaxInvoices
    /\ invoice \in [InvIds -> [total : (-MaxMoney) .. MaxMoney, paid : Money,
                               canceled : BOOLEAN, cancels : InvIds \cup {0}]]
    /\ chargeBilled \in [Charges -> InvIds \cup {0}]
    /\ rentBilled \in [Vehicles -> [Periods -> [inv : InvIds \cup {0}, amount : Money]]]
    /\ invPay \in [InvIds -> [PayIds -> Nat]]
    /\ pending \subseteq Vehicles
    /\ sweep \in BOOLEAN

-----------------------------------------------------------------------------
(* Rent.                                                                    *)

Smaller(a, b) == IF a < b THEN a ELSE b
Larger(a, b)  == IF a > b THEN a ELSE b

\* Days of the rental up to and including day d (the inclusive end date caps it).
RentedDays(v, d) == IF endDay[v] = 0 THEN d ELSE Smaller(d, endDay[v])
AccruedRent(v)   == DayRate[v] * RentedDays(v, today)

LastDay(k) == k * PeriodDays
PeriodCost(v, k) ==
    DayRate[v] * Larger(0, RentedDays(v, LastDay(k)) - LastDay(k - 1))

\* A period may be billed only once it has fully elapsed: the running period
\* waits for the next cycle, even on its own last day.
Complete(v, k) == RentedDays(v, LastDay(k)) < today

\* The part of period k that the rent settlement through paid_through covers.
SettledPart(v, k) ==
    IF paidThrough[v] <= LastDay(k - 1) THEN 0
    ELSE DayRate[v] * Larger(0, RentedDays(v, Smaller(paidThrough[v], LastDay(k))) - LastDay(k - 1))

-----------------------------------------------------------------------------
(* Open positions.                                                          *)

\* A position bills on a non-canceled invoice: the Storno deletes its sources.
ChargeInvoiced(c)  == chargeBilled[c] # 0
VehicleInvoiced(v) == \E k \in Periods : rentBilled[v][k].inv # 0

\* Charges that neither a flag, an allocation nor an invoice takes.
OpenCharges ==
    { c \in Charges : /\ charge[c] = "live" /\ ~chargePaid[c]
                      /\ chargeAlloc[c] = 0 /\ ~ChargeInvoiced(c) }

\* openOwedItems: what a receipt, the Guthaben or a slider may settle.
OwedCharges  == { c \in OpenCharges : vehicleOf[c] = NoVehicle }
OwedVehicles == { v \in Vehicles : /\ ~vehPaid[v] /\ ~archived[v]
                                   /\ AccruedRent(v) > 0 /\ ~VehicleInvoiced(v) }
OwedItems == OwedCharges \cup OwedVehicles
OwedAmount(it) == IF it \in Charges THEN Price[it] ELSE AccruedRent(it)
Total(items) == MapThenSumSet(OwedAmount, items)

\* Mutant: the slider forgets that an invoice may bill the bound charge.
BoundChargesBilledToo(v) ==
    { c \in Charges : charge[c] = "live" /\ vehicleOf[c] = v /\ ~chargePaid[c] }

\* Open charges bound to a vehicle, which its slider settles with the rent.
BoundCharges(v) ==
    { c \in Charges : /\ charge[c] = "live" /\ vehicleOf[c] = v /\ ~chargePaid[c]
                      /\ ~ChargeInvoiced(c) }

\* The lines CreateInvoice bills: complete periods that are not billed yet, less
\* what a settlement already paid, and every open charge, bound or not.
RentLines ==
    { vk \in Vehicles \X Periods :
        LET v == vk[1]  k == vk[2] IN
        /\ ~archived[v] /\ Complete(v, k) /\ rentBilled[v][k].inv = 0
        /\ PeriodCost(v, k) > SettledPart(v, k) }
RentLineAmount(vk) == PeriodCost(vk[1], vk[2]) - SettledPart(vk[1], vk[2])
LineTotal == MapThenSumSet(RentLineAmount, RentLines) + Total(OpenCharges)

-----------------------------------------------------------------------------
(* Payments.                                                                *)

AllocatedTo(p) ==
    Total({ c \in Charges : chargeAlloc[c] = p })
    + MapThenSumSet(LAMBDA v : rentAlloc[v].amount, { v \in Vehicles : rentAlloc[v].pay = p })
AppliedTo(p) == MapThenSumSet(LAMBDA i : invPay[i][p], InvIds)
\* Mutant: what a receipt gave to invoices counts as unspent.
RemainingBeforeInvoices(p) == payment[p].amount - AllocatedTo(p)

\* The unspent value of a receipt, its share of the Guthaben.
Remaining(p) == payment[p].amount - AllocatedTo(p) - AppliedTo(p)

\* Mutant: one open year among several is enough.
SomeYearOpen(ps) == ps = {} \/ \E p \in ps : payment[p].year \notin closed

\* protectPaymentChangesTx: no payment of a closed tax year may be touched.
YearsOpen(ps) == \A p \in ps : payment[p].year \notin closed

\* Mutant: no upper bound on the booked amount.
InsertAnyPayment(amount, auto, year) ==
    /\ nPay < MaxPayments
    /\ year \notin closed
    /\ nPay' = nPay + 1
    /\ payment' = [payment EXCEPT ![nPay + 1] =
                     [amount |-> amount, auto |-> auto, year |-> year, reversed |-> FALSE]]

\* INSERT INTO payments: the next row; the column rejects an amount outside it.
InsertPayment(amount, auto, year) ==
    /\ nPay < MaxPayments
    /\ amount \in Money \ {0}
    /\ year \notin closed
    /\ nPay' = nPay + 1
    /\ payment' = [payment EXCEPT ![nPay + 1] =
                     [amount |-> amount, auto |-> auto, year |-> year, reversed |-> FALSE]]

\* A settlement books the rent accrued through the day it is made.
RentClaim(p, v) == [pay |-> p, amount |-> AccruedRent(v), day |-> today]

\* The claims payment p holds are deleted when it is reversed.
ReleaseCharges(p) == [c \in Charges |-> IF chargeAlloc[c] = p THEN 0 ELSE chargeAlloc[c]]
\* Mutant: the claim on the rent outlives its receipt.
KeepRent(p) == rentAlloc
ReleaseRent(p) ==
    [v \in Vehicles |-> IF rentAlloc[v].pay = p THEN NoAlloc ELSE rentAlloc[v]]
\* Mutant: the slider's "AND auto" on every reversal.
ReverseAuto(p) == payment' = [payment EXCEPT ![p].reversed = payment[p].auto]
Reverse(p) == payment' = [payment EXCEPT ![p].reversed = TRUE]

-----------------------------------------------------------------------------
(* Archive of finished vehicles.                                            *)

Unpaid(i) == invoice[i].total > invoice[i].paid

\* vehicleArchivePredicate.
ArchivePredicate(v) ==
    \/ status[v] = "cancelled"
    \/ status[v] = "collected" /\ vehPaid[v] /\ paidThrough[v] >= endDay[v]
    \/ /\ status[v] = "collected" /\ endDay[v] < today
       /\ VehicleInvoiced(v)
       /\ \A k \in Periods : rentBilled[v][k].inv # 0 => ~Unpaid(rentBilled[v][k].inv)
       /\ \A k \in Periods : k <= PeriodOf(endDay[v]) =>
             \/ vehPaid[v] /\ paidThrough[v] >= Smaller(endDay[v], LastDay(k))
             \/ rentBilled[v][k].inv # 0

\* Mutant: a Storno leaves the archive alone.
KeepArchived(vs) == archived' = archived

\* reopenUncoveredVehiclesTx, evaluated after the other writes of the step.
ReopenUncovered(vs) ==
    archived' = [v \in Vehicles |->
        archived[v] /\ ~(v \in vs /\ status[v] = "collected" /\ ~ArchivePredicate(v)')]

\* The vehicles behind the invoices a step touches.
BilledVehicles(is) == { v \in Vehicles : \E k \in Periods : rentBilled[v][k].inv \in is }

-----------------------------------------------------------------------------
(* Initial state: a customer whose vehicles are stored since day 1.          *)

Init ==
    /\ today = 1 /\ closed = {}
    /\ charge = [c \in Charges |-> "none"]
    /\ vehicleOf = [c \in Charges |-> NoVehicle]
    /\ chargePaid = [c \in Charges |-> FALSE]
    /\ status = [v \in Vehicles |-> "stored"]
    /\ endDay = [v \in Vehicles |-> 0]
    /\ vehPaid = [v \in Vehicles |-> FALSE]
    /\ paidThrough = [v \in Vehicles |-> 0]
    /\ archived = [v \in Vehicles |-> FALSE]
    /\ nPay = 0 /\ payment = [p \in PayIds |-> NoPayment]
    /\ chargeAlloc = [c \in Charges |-> 0]
    /\ rentAlloc = [v \in Vehicles |-> NoAlloc]
    /\ nInv = 0 /\ invoice = [i \in InvIds |-> NoInvoice]
    /\ chargeBilled = [c \in Charges |-> 0]
    /\ rentBilled = [v \in Vehicles |-> [k \in Periods |-> NoLine]]
    /\ invPay = [i \in InvIds |-> [p \in PayIds |-> 0]]
    /\ pending = {} /\ sweep = FALSE

(* The business day advances; a tax year is closed or opened again.          *)
NextDay ==
    /\ today < MaxDay
    /\ today' = today + 1
    /\ UNCHANGED <<closed, chargeVars, vehicleVars, payVars, invVars, invPay, followVars>>

LockTaxYear(y) ==
    /\ closed' = closed \cup {y}
    /\ UNCHANGED <<today, chargeVars, vehicleVars, payVars, invVars, invPay, followVars>>

UnlockTaxYear(y) ==
    /\ y \in closed
    /\ closed' = closed \ {y}
    /\ UNCHANGED <<today, chargeVars, vehicleVars, payVars, invVars, invPay, followVars>>

-----------------------------------------------------------------------------
(* Charges.                                                                  *)

CreateCharge(c, v) ==
    /\ charge[c] = "none"
    /\ charge' = [charge EXCEPT ![c] = "live"]
    /\ vehicleOf' = [vehicleOf EXCEPT ![c] = v]
    /\ UNCHANGED <<clockVars, chargePaid, vehicleVars, payVars, invVars, invPay, followVars>>

\* Mutant: a claim of a receipt does not lock the charge.
LockedByInvoiceOnly(c) == ChargeInvoiced(c)

\* Money or an invoice on the charge freezes its binding and forbids deleting it.
FinanciallyLocked(c) ==
    \/ ChargeInvoiced(c)
    \/ chargeAlloc[c] # 0 /\ ~payment[chargeAlloc[c]].reversed

\* Only a change of the binding matters here; it resets the flag, which is
\* the charge's own only while it is unbound.
UpdateCharge(c, v) ==
    /\ charge[c] = "live" /\ vehicleOf[c] # v
    /\ ~FinanciallyLocked(c)
    /\ vehicleOf' = [vehicleOf EXCEPT ![c] = v]
    /\ chargePaid' = [chargePaid EXCEPT ![c] = FALSE]
    /\ UNCHANGED <<clockVars, charge, vehicleVars, payVars, invVars, invPay, followVars>>

DeleteCharge(c) ==
    /\ charge[c] = "live"
    /\ ~FinanciallyLocked(c)
    /\ charge' = [charge EXCEPT ![c] = "deleted"]
    /\ vehicleOf' = [vehicleOf EXCEPT ![c] = NoVehicle]
    /\ chargePaid' = [chargePaid EXCEPT ![c] = FALSE]
    /\ UNCHANGED <<clockVars, vehicleVars, payVars, invVars, invPay, followVars>>

\* The flag of an unbound charge; a receipt of its own is booked with it.
SetChargePaid(c) ==
    /\ charge[c] = "live" /\ vehicleOf[c] = NoVehicle /\ ~chargePaid[c]
    /\ ~ChargeInvoiced(c)
    /\ chargePaid' = [chargePaid EXCEPT ![c] = TRUE]
    /\ IF c \in OwedCharges
       THEN /\ InsertPayment(Price[c], TRUE, YearOf(today))
            /\ chargeAlloc' = [chargeAlloc EXCEPT ![c] = nPay + 1]
       ELSE UNCHANGED <<nPay, payment, chargeAlloc>>
    /\ UNCHANGED <<clockVars, charge, vehicleOf, vehicleVars, rentAlloc,
                   invVars, invPay, followVars>>

\* Taking the flag back reverses the slider's receipt, never a manual one.
SetChargeOpen(c) ==
    /\ charge[c] = "live" /\ vehicleOf[c] = NoVehicle /\ chargePaid[c]
    /\ ~ChargeInvoiced(c)
    /\ chargePaid' = [chargePaid EXCEPT ![c] = FALSE]
    /\ LET p == chargeAlloc[c] IN
       IF p = 0 THEN UNCHANGED <<payment, chargeAlloc, rentAlloc>>
       ELSE /\ payment[p].auto /\ YearsOpen({p})
            /\ Reverse(p)
            /\ chargeAlloc' = ReleaseCharges(p)
            /\ rentAlloc' = ReleaseRent(p)
    /\ UNCHANGED <<clockVars, charge, vehicleOf, vehicleVars, nPay,
                   invVars, invPay, followVars>>

-----------------------------------------------------------------------------
(* Vehicles.                                                                 *)

\* The slider: one receipt for the accrued rent and the open bound charges.  A
\* vehicle on an invoice is settled there; an existing claim books nothing.
MarkPaid(v) ==
    /\ ~archived[v] /\ ~vehPaid[v] /\ ~VehicleInvoiced(v)
    /\ vehPaid' = [vehPaid EXCEPT ![v] = TRUE]
    /\ IF rentAlloc[v].pay = 0
       THEN LET claimed == { c \in BoundCharges(v) : chargeAlloc[c] = 0 } IN
            /\ AccruedRent(v) \in Money \ {0}
            /\ InsertPayment(AccruedRent(v) + Total(claimed), TRUE, YearOf(today))
            /\ rentAlloc' = [rentAlloc EXCEPT ![v] = RentClaim(nPay + 1, v)]
            /\ chargeAlloc' =
                 [c \in Charges |-> IF c \in claimed THEN nPay + 1 ELSE chargeAlloc[c]]
            /\ chargePaid' = [c \in Charges |-> chargePaid[c] \/ c \in claimed]
            /\ paidThrough' = [paidThrough EXCEPT ![v] = today]
       ELSE /\ paidThrough' = [paidThrough EXCEPT ![v] = Smaller(today, rentAlloc[v].day)]
            /\ UNCHANGED <<payVars, chargePaid>>
    /\ pending' = pending \cup {v}
    /\ UNCHANGED <<clockVars, charge, vehicleOf, status, endDay, archived, invVars, invPay, sweep>>

\* The slider taken back: the receipt is reversed and the bound charges it had
\* settled are open again.  Money of a manual receipt cannot be toggled away.
MarkOpen(v) ==
    /\ ~archived[v] /\ vehPaid[v]
    /\ vehPaid' = [vehPaid EXCEPT ![v] = FALSE]
    /\ paidThrough' = [paidThrough EXCEPT ![v] = 0]
    /\ LET p == rentAlloc[v].pay IN
       IF p = 0 THEN UNCHANGED <<payment, chargePaid, chargeAlloc, rentAlloc>>
       ELSE /\ payment[p].auto /\ YearsOpen({p})
            /\ chargePaid' = [c \in Charges |->
                 chargePaid[c] /\ ~(vehicleOf[c] = v /\ chargeAlloc[c] = p)]
            /\ Reverse(p)
            /\ chargeAlloc' = ReleaseCharges(p)
            /\ rentAlloc' = ReleaseRent(p)
    /\ pending' = pending \cup {v}
    /\ UNCHANGED <<clockVars, charge, vehicleOf, status, endDay, archived, nPay,
                   invVars, invPay, sweep>>

\* A click that repeats the current state moves no money, but it runs the
\* archive follow-up: it may close a vehicle an earlier follow-up missed.
MarkAgain(v) ==
    /\ ~archived[v]
    /\ paidThrough' = [paidThrough EXCEPT ![v] = IF vehPaid[v] THEN @ ELSE 0]
    /\ pending' = pending \cup {v}
    /\ UNCHANGED <<clockVars, chargeVars, status, endDay, vehPaid, archived,
                   payVars, invVars, invPay, sweep>>

\* guardInvoicedPartialExtension: a billed partial last period keeps its end.
ExtendsBilledPartial(v, newEnd) ==
    /\ endDay[v] # 0 /\ (newEnd = 0 \/ newEnd > endDay[v])
    /\ endDay[v] # LastDay(PeriodOf(endDay[v]))
    /\ rentBilled[v][PeriodOf(endDay[v])].inv # 0

\* Mutant: compares with the start of the billed period.
RetractsBelowInvoicedStart(v, newEnd) ==
    newEnd # 0 /\ \E k \in Periods : rentBilled[v][k].inv # 0 /\ newEnd < LastDay(k - 1)

\* endDateRetractsBelowInvoiced: a billed period stays inside the rental.
RetractsBelowInvoiced(v, newEnd) ==
    newEnd # 0 /\ \E k \in Periods : rentBilled[v][k].inv # 0 /\ newEnd < LastDay(k)

\* A closing status sets the end date (given, kept, or today); "stored" clears it.
ChangeStatus(v, s, newEnd) ==
    /\ ~archived[v]
    /\ (s = "stored") <=> (newEnd = 0)
    /\ ~ExtendsBilledPartial(v, newEnd)
    /\ ~RetractsBelowInvoiced(v, newEnd)
    /\ status' = [status EXCEPT ![v] = s]
    /\ endDay' = [endDay EXCEPT ![v] = newEnd]
    /\ pending' = pending \cup {v}
    /\ UNCHANGED <<clockVars, chargeVars, vehPaid, paidThrough, archived,
                   payVars, invVars, invPay, sweep>>

ReactivateVehicle(v) ==
    /\ archived[v]
    /\ archived' = [archived EXCEPT ![v] = FALSE]
    /\ UNCHANGED <<clockVars, chargeVars, status, endDay, vehPaid, paidThrough,
                   payVars, invVars, invPay, followVars>>

-----------------------------------------------------------------------------
(* Receipts and the Guthaben.                                                *)

\* settleItemTx for every item take maps to a payment (0: it stays open): the
\* claim, the flag, and for rent the day through which it is paid.
SettleItems(take) ==
    /\ \A v \in OwedVehicles : take[v] # 0 => AccruedRent(v) \in Money
    /\ chargeAlloc' = [c \in Charges |->
         IF c \in OwedCharges /\ take[c] # 0 THEN take[c] ELSE chargeAlloc[c]]
    /\ chargePaid' = [c \in Charges |-> chargePaid[c] \/ (c \in OwedCharges /\ take[c] # 0)]
    /\ rentAlloc' = [v \in Vehicles |->
         IF v \in OwedVehicles /\ take[v] # 0 THEN RentClaim(take[v], v) ELSE rentAlloc[v]]
    /\ vehPaid' = [v \in Vehicles |-> vehPaid[v] \/ (v \in OwedVehicles /\ take[v] # 0)]
    /\ paidThrough' = [v \in Vehicles |->
         IF v \in OwedVehicles /\ take[v] # 0 THEN today ELSE paidThrough[v]]
    /\ pending' = pending \cup { v \in OwedVehicles : take[v] # 0 }

\* A receipt and the whole items it settles.  An explicit selection settles any
\* set the amount covers; oldest-first settles one of them; the rest is Guthaben.
CreatePayment(amount, items, year) ==
    /\ items \subseteq OwedItems /\ Total(items) <= amount
    /\ InsertPayment(amount, FALSE, year)
    /\ SettleItems([it \in OwedItems |-> IF it \in items THEN nPay + 1 ELSE 0])
    /\ UNCHANGED <<clockVars, charge, vehicleOf, status, endDay, archived,
                   invVars, invPay, sweep>>

\* Storno of a receipt: its claims and invoice payments go, what only it covered
\* is open again, and vehicles it had helped to archive come back.
DeletePayment(p) ==
    /\ p <= nPay /\ ~payment[p].reversed
    /\ YearsOpen({p})
    /\ Reverse(p)
    /\ chargeAlloc' = ReleaseCharges(p)
    /\ rentAlloc' = ReleaseRent(p)
    /\ invPay' = [i \in InvIds |-> [invPay[i] EXCEPT ![p] = 0]]
    /\ vehPaid' = [v \in Vehicles |-> vehPaid[v] /\ rentAlloc[v].pay # p]
    /\ paidThrough' = [v \in Vehicles |-> IF rentAlloc[v].pay = p THEN 0 ELSE paidThrough[v]]
    /\ chargePaid' = [c \in Charges |->
         chargePaid[c] /\ ~(chargeAlloc[c] = p /\ vehicleOf[c] = NoVehicle)]
    /\ invoice' = [i \in InvIds |->
         [invoice[i] EXCEPT !.paid = Larger(0, invoice[i].paid - invPay[i][p])]]
    /\ UNCHANGED <<clockVars, charge, vehicleOf, status, endDay, nPay, nInv,
                   chargeBilled, rentBilled, followVars>>
    /\ ReopenUncovered({ v \in Vehicles : rentAlloc[v].pay = p }
                       \cup BilledVehicles({ i \in InvIds : invPay[i][p] # 0 }))

LivePayments == { p \in PayIds : p <= nPay /\ ~payment[p].reversed }
Receipts     == MapThenSumSet(LAMBDA p : payment[p].amount, LivePayments)
Accrued      == MapThenSumSet(AccruedRent, Vehicles)
                + Total({ c \in Charges : charge[c] = "live" })
\* Money received that is not tied up in costs already covered.
CreditBudget == Receipts - (Accrued - Total(OwedItems))

OpenInvoices == { i \in InvIds : /\ i <= nInv /\ ~invoice[i].canceled
                                 /\ invoice[i].cancels = 0 /\ Unpaid(i) }
\* Mutant: earlier payments of the invoice are forgotten.
WholeInvoice(i) == IF i \in OpenInvoices THEN invoice[i].total ELSE 0
OpenOf(i) == IF i \in OpenInvoices THEN invoice[i].total - invoice[i].paid ELSE 0

\* Oldest receipt first: by date, then by id.
IsOldest(p, ps) == p \in ps /\ \A q \in ps :
    \/ payment[p].year < payment[q].year
    \/ payment[p].year = payment[q].year /\ p <= q

\* The walk over the open items, oldest first (rank): an item takes the oldest
\* receipt that still holds its whole amount, as long as the budget covers it.
Drawdown(rank, take) ==
    LET unspent == [p \in LivePayments |-> Remaining(p)]
        budget  == CreditBudget
    IN \A it \in OwedItems :
         LET before == { j \in OwedItems : rank[j] < rank[it] /\ take[j] # 0 }
             holding == { p \in LivePayments :
                 unspent[p] - Total({ j \in before : take[j] = p }) >= OwedAmount(it) }
         IN IF budget - Total(before) < OwedAmount(it) \/ holding = {}
            THEN take[it] = 0 ELSE IsOldest(take[it], holding)

\* applyInvoiceCreditTx walks open invoices and receipts in id order and gives as
\* much as both still allow: the overlap of the two running totals.
InvoiceCredit(left, i, p) ==
    LET money(q) == MapThenSumSet(LAMBDA r : left[r], { r \in LivePayments : r <= q })
        debt(j)  == MapThenSumSet(OpenOf, 1 .. j)
    IN IF p \notin LivePayments THEN 0
       ELSE Larger(0, Smaller(debt(i), money(p)) - Larger(debt(i - 1), money(p - 1)))

\* invoice_payments and the paid amount of the invoices move together; the
\* columns reject an amount outside their range.
FundInvoices(share) ==
    /\ \A i \in InvIds : invoice[i].paid + SumFunction(share[i]) \in Money
    /\ \A i \in InvIds, p \in PayIds : share[i][p] \in Money
    /\ invPay' = [i \in InvIds |-> [p \in PayIds |-> invPay[i][p] + share[i][p]]]
    /\ invoice' = [i \in InvIds |-> [invoice[i] EXCEPT !.paid = @ + SumFunction(share[i])]]

\* Guthaben: open items first, then open invoices.  No new receipt is booked.
ApplyCredit(rank, take) ==
    /\ OwedItems \cup OpenInvoices # {} /\ LivePayments # {}
    /\ Drawdown(rank, take)
    /\ LET left == [p \in LivePayments |->
                      Remaining(p) - Total({ it \in OwedItems : take[it] = p })]
           share == [i \in InvIds |-> [p \in PayIds |-> InvoiceCredit(left, i, p)]]
       IN /\ YearsOpen({ p \in LivePayments :
                \/ \E it \in OwedItems : take[it] = p
                \/ \E i \in InvIds : share[i][p] # 0 })
          /\ FundInvoices(share)
    /\ SettleItems(take)
    /\ sweep' = TRUE
    /\ UNCHANGED <<clockVars, charge, vehicleOf, status, endDay, archived, nPay, payment,
                   nInv, chargeBilled, rentBilled>>

-----------------------------------------------------------------------------
(* Invoices.                                                                 *)

\* One invoice bills every open position; its sources lock them.
CreateInvoice ==
    /\ nInv < MaxInvoices
    /\ RentLines # {} \/ OpenCharges # {}
    /\ LineTotal \in Money
    /\ \A vk \in RentLines : RentLineAmount(vk) \in Money
    /\ nInv' = nInv + 1
    /\ invoice' = [invoice EXCEPT ![nInv + 1] = [NoInvoice EXCEPT !.total = LineTotal]]
    /\ chargeBilled' = [c \in Charges |->
         IF c \in OpenCharges THEN nInv + 1 ELSE chargeBilled[c]]
    /\ rentBilled' = [v \in Vehicles |-> [k \in Periods |->
         IF <<v, k>> \in RentLines
         THEN [inv |-> nInv + 1, amount |-> RentLineAmount(<<v, k>>)]
         ELSE rentBilled[v][k]]]
    /\ UNCHANGED <<clockVars, chargeVars, vehicleVars, payVars, invPay, followVars>>

\* Storno: a counter-document with the negated total, the positions released,
\* the money back to Guthaben, the vehicles visible again.
CancelInvoice(i) ==
    /\ i <= nInv /\ nInv < MaxInvoices
    /\ ~invoice[i].canceled /\ invoice[i].cancels = 0
    /\ YearsOpen({ p \in PayIds : invPay[i][p] # 0 })
    /\ nInv' = nInv + 1
    /\ invoice' = [invoice EXCEPT
         ![i].canceled = TRUE, ![i].paid = 0,
         ![nInv + 1] = [NoInvoice EXCEPT !.total = -invoice[i].total, !.cancels = i]]
    /\ chargeBilled' = [c \in Charges |-> IF chargeBilled[c] = i THEN 0 ELSE chargeBilled[c]]
    /\ rentBilled' = [v \in Vehicles |-> [k \in Periods |->
         IF rentBilled[v][k].inv = i THEN NoLine ELSE rentBilled[v][k]]]
    /\ invPay' = [invPay EXCEPT ![i] = [p \in PayIds |-> 0]]
    /\ UNCHANGED <<clockVars, chargeVars, status, endDay, vehPaid, paidThrough,
                   payVars, followVars>>
    /\ ReopenUncovered(BilledVehicles({i}))

\* A receipt and its shares of the open invoices.  Explicit shares give any split
\* within the open amounts and the receipt; oldest-first gives one of them.
PayInvoices(amount, year, give) ==
    /\ \A i \in OpenInvoices : give[i] <= OpenOf(i)
    /\ SumFunction(give) <= amount
    /\ InsertPayment(amount, FALSE, year)
    /\ FundInvoices([i \in InvIds |-> [p \in PayIds |->
         IF p = nPay + 1 /\ i \in OpenInvoices THEN give[i] ELSE 0]])
    /\ sweep' = TRUE
    /\ UNCHANGED <<clockVars, chargeVars, vehicleVars, chargeAlloc, rentAlloc,
                   nInv, chargeBilled, rentBilled, pending>>

-----------------------------------------------------------------------------
(* Archive follow-ups.                                                       *)

AutoArchive(v) ==
    /\ v \in pending
    /\ pending' = pending \ {v}
    /\ archived' = [archived EXCEPT ![v] = @ \/ ArchivePredicate(v)]
    /\ UNCHANGED <<clockVars, chargeVars, status, endDay, vehPaid, paidThrough,
                   payVars, invVars, invPay, sweep>>

\* archiveInvoiceSettledCollected.
SweepArchive ==
    /\ sweep
    /\ sweep' = FALSE
    /\ archived' = [v \in Vehicles |->
         archived[v] \/ (status[v] = "collected" /\ ArchivePredicate(v))]
    /\ UNCHANGED <<clockVars, chargeVars, status, endDay, vehPaid, paidThrough,
                   payVars, invVars, invPay, pending>>

\* A crash between the commit and the follow-ups, or an error in them, which is
\* only logged: nothing retries them.
LoseFollowUps ==
    /\ pending # {} \/ sweep
    /\ pending' = {} /\ sweep' = FALSE
    /\ UNCHANGED <<clockVars, chargeVars, vehicleVars, payVars, invVars, invPay>>

-----------------------------------------------------------------------------
ClockNext == NextDay \/ \E y \in Years : LockTaxYear(y) \/ UnlockTaxYear(y)

ChargeNext == \E c \in Charges :
    \/ \E v \in Vehicles \cup {NoVehicle} : CreateCharge(c, v) \/ UpdateCharge(c, v)
    \/ DeleteCharge(c) \/ SetChargePaid(c) \/ SetChargeOpen(c)

VehicleNext == \E v \in Vehicles :
    \/ MarkPaid(v) \/ MarkOpen(v) \/ MarkAgain(v) \/ ReactivateVehicle(v)
    \/ \E s \in {"stored", "collected", "cancelled"}, d \in Days \cup {0} : ChangeStatus(v, s, d)

PaymentNext ==
    \/ \E amount \in Amounts, year \in Years :
         \/ \E items \in SUBSET OwedItems : CreatePayment(amount, items, year)
         \/ \E give \in [OpenInvoices -> Amounts \cup {0}] : PayInvoices(amount, year, give)
    \/ \E p \in PayIds : DeletePayment(p)
    \/ \E rank \in Injection(OwedItems, 1 .. Cardinality(OwedItems)),
          take \in [OwedItems -> PayIds \cup {0}] : ApplyCredit(rank, take)

InvoiceNext == CreateInvoice \/ \E i \in InvIds : CancelInvoice(i)

FollowNext == SweepArchive \/ LoseFollowUps \/ \E v \in Vehicles : AutoArchive(v)

Next == ClockNext \/ ChargeNext \/ VehicleNext \/ PaymentNext \/ InvoiceNext \/ FollowNext

Spec == Init /\ [][Next]_vars

-----------------------------------------------------------------------------
(* Properties.                                                               *)

\* A receipt never gives more than it brought in: the positions and the invoices
\* it settles together stay within its amount, whatever sliders, receipts,
\* Guthaben drawdowns and Storni were interleaved (payments are immutable).
NoOverAllocation ==
    \A p \in LivePayments : AllocatedTo(p) + AppliedTo(p) <= payment[p].amount

\* invoices.paid_amount is a stored copy of SUM(invoice_payments): every handler
\* has to move both; it never exceeds the total, and a Storno leaves nothing.
InvoiceLedger ==
    \A i \in InvIds :
        /\ invoice[i].paid = SumFunction(invPay[i])
        /\ invoice[i].paid > 0 => /\ invoice[i].paid <= invoice[i].total
                                  /\ ~invoice[i].canceled /\ invoice[i].cancels = 0

\* A charge is settled by a receipt or billed by an invoice, never both: the
\* customer would pay it twice (the sliders, receipts, drawdown and CreateInvoice
\* each look at the other side's claim).
ClaimExclusive == \A c \in Charges : chargeAlloc[c] = 0 \/ chargeBilled[c] = 0

\* A claim on a charge is backed: the charge still exists and reads paid, the
\* receipt is not reversed; a billed charge exists and its invoice is active.
ChargeClaimBacked ==
    \A c \in Charges :
        /\ chargeAlloc[c] # 0 => /\ charge[c] = "live" /\ chargePaid[c]
                                 /\ chargeAlloc[c] \in LivePayments
        /\ chargeBilled[c] # 0 => /\ charge[c] = "live"
                                  /\ chargeBilled[c] <= nInv
                                  /\ ~invoice[chargeBilled[c]].canceled

\* The paid flag of a vehicle, and of a charge that stands alone, means money: it
\* is set exactly while a receipt that is not reversed holds the position.
PaidIsBacked ==
    /\ \A v \in Vehicles : vehPaid[v] <=> rentAlloc[v].pay \in LivePayments
    /\ \A c \in Charges : vehicleOf[c] = NoVehicle =>
         (chargePaid[c] <=> chargeAlloc[c] \in LivePayments)

\* No day of rent is charged twice: what invoices bill of a period and what the
\* settlement through paid_through covers of it stay within its cost, also after
\* end dates moved, settlements were reversed and invoices cancelled.
RentChargedOnce ==
    \A v \in Vehicles, k \in Periods :
        rentBilled[v][k].inv # 0 => rentBilled[v][k].amount + SettledPart(v, k) <= PeriodCost(v, k)

\* An archived vehicle is finished: whatever had closed it (paid through its end,
\* or paid invoices for every period) still holds, because every Storno brings
\* the vehicles it uncovers back, the ones behind the invoices it touches too.
ArchivedIsClosed == \A v \in Vehicles : archived[v] => ArchivePredicate(v)

ReleaseStep ==
    /\ \A c \in Charges : chargeAlloc[c] # 0 /\ chargeAlloc'[c] # chargeAlloc[c]
                          => payment'[chargeAlloc[c]].reversed
    /\ \A v \in Vehicles : rentAlloc[v].pay # 0 /\ rentAlloc'[v] # rentAlloc[v]
                           => payment'[rentAlloc[v].pay].reversed
    /\ \A i \in InvIds, p \in PayIds : invPay'[i][p] < invPay[i][p]
                           => payment'[p].reversed \/ invoice'[i].canceled

\* Money leaves a position only by a Storno: a step that drops a claim or an
\* invoice payment reverses the receipt or cancels the invoice (payments and
\* invoices are retained records, BAO 131).
ReleasedOnlyByStorno == [][ReleaseStep]_vars

FrozenStep ==
    \A p \in PayIds : p <= nPay /\ payment[p].year \in closed =>
        /\ payment'[p] = payment[p]
        /\ \A c \in Charges : (chargeAlloc[c] = p) <=> (chargeAlloc'[c] = p)
        /\ \A v \in Vehicles : (rentAlloc[v].pay = p) <=> (rentAlloc'[v].pay = p)
        /\ \A i \in InvIds : invPay'[i][p] = invPay[i][p]

\* A closed tax year is frozen: a receipt of that year neither changes nor gives
\* or takes back money, by whichever path (slider, receipt, Guthaben, Storno).
ClosedYearFrozen == [][FrozenStep]_vars

\* payments.go:1087 (DeletePayment): "for each of its allocations, if no OTHER
\* payment still covers that item, its paid toggle is cleared".  So a charge
\* that reads paid has money on it; one without money is open and billable.
NoChargeLost ==
    \A c \in Charges : charge[c] = "live" /\ chargePaid[c] => chargeAlloc[c] # 0

\* vehicle_closure.go:86 (vehicleArchivePredicate): "Invoice settlement alone is
\* insufficient: every rental period must be covered".  So no day of rent of an
\* archived collected vehicle is left uncharged.
ArchivedMeansCovered ==
    \A v \in Vehicles : archived[v] /\ status[v] = "collected" =>
        \A k \in Periods : k <= PeriodOf(endDay[v]) =>
            rentBilled[v][k].amount + SettledPart(v, k) >= PeriodCost(v, k)
=============================================================================
