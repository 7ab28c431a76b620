-------------------------------- MODULE Yard --------------------------------
(***************************************************************************)
(* The stored vehicles themselves: their status and dates, the spot each      *)
(* stands on, and the pauses (Ruhezeiten) in which a vehicle is away for a     *)
(* while and pays no rent.                                                     *)
(*                                                                           *)
(* Days are numbers and a billing period is PeriodDays of them.  A vehicle is  *)
(* paid through a day (vehicles.paid_through), or never was.  Each handler      *)
(* holds the settlement lock of the customer and the row of the vehicle, so     *)
(* its transaction is one action; placing vehicles on the hall plan takes no    *)
(* lock and is one statement.                                                  *)
(***************************************************************************)
EXTENDS Integers, FiniteSets, FiniteSetsExt

CONSTANTS
    YardVehicles,   \* vehicles.id
    PauseIds,       \* vehicle_pauses.id
    Spots,          \* spots.id
    LastYardDay,    \* bound: days 0..LastYardDay
    StartDays,      \* bound: days a rental starts
    EndDays,        \* bound: days a rental is entered to end
    PauseDays,      \* bound: days entered as begin or planned return
    OutOfOrder      \* whether a pause may be entered before an earlier entered one

Days       == 0 .. LastYardDay
PeriodDays == 2
Endless    == 2 * (LastYardDay + 1)   \* stands for 9999-12-31: an open pause, no end date
Never      == -1                  \* paid_through IS NULL
Ahead      == 0 .. Endless + LastYardDay + 1  \* days a payment may reach
NoSpot     == "none"

ASSUME YardAssumption ==
    /\ LastYardDay \in Nat
    /\ StartDays \cup EndDays \cup PauseDays \subseteq Days
    /\ NoSpot \notin Spots /\ "none" \notin YardVehicles /\ OutOfOrder \in BOOLEAN

VARIABLES
    yardDay,    \* today
    vehicle,    \* vehicles
    pause,      \* vehicle_pauses
    spotRows,   \* spots that exist
    invoiced,   \* per vehicle and period: when it was billed, and for which days
    bought      \* history: rental days paid for when the payment was booked

yardVars == <<yardDay, vehicle, pause, spotRows, invoiced, bought>>

PeriodOf(d)  == d \div PeriodDays
PeriodSet    == { PeriodOf(d) : d \in Days }
LastOf(p)    == PeriodDays * (p + 1) - 1
NoVehicle    == [status |-> "none", archived |-> FALSE, start |-> 0, end |-> Endless, paid |-> Never, spot |-> NoSpot]
NoPause      == [of |-> "none", from |-> 0, until |-> Endless, ended |-> FALSE, spot |-> NoSpot, paidBefore |-> Never]
NotBilled    == [on |-> Never, days |-> {}]

-----------------------------------------------------------------------------
Exists(v)     == vehicle[v].status # "none"
Known         == { v \in YardVehicles : Exists(v) }
PausesOf(v)   == { i \in PauseIds : pause[i].of = v }
\* A running pause suspends the rent until somebody enters the return.
BillingEnd(p) == IF p.ended THEN p.until ELSE Endless
PausedBy(p, d) == p.from <= d /\ d <= BillingEnd(p)
PausedAt(v, d) == \E i \in PausesOf(v) : PausedBy(pause[i], d)

\* Days of rent from the start through a day.
RentDays(v, through) ==
    { d \in vehicle[v].start .. through :
        (vehicle[v].end = Endless \/ d <= vehicle[v].end) /\ ~PausedAt(v, d) }
PaidDays(v)  == IF vehicle[v].paid = Never THEN 0 ELSE Cardinality(RentDays(v, vehicle[v].paid))

BilledPeriods(v)    == { p \in PeriodSet : invoiced[v][p] # NotBilled }
\* Mutant: only days before the last billed period are locked.
MutantLocked(v) == IF BilledPeriods(v) = {} THEN Never ELSE PeriodDays * Max(BilledPeriods(v)) - 1
\* pauseLockedThrough: the last day an invoice has billed.
LockedThrough(v) == IF BilledPeriods(v) = {} THEN Never ELSE LastOf(Max(BilledPeriods(v)))
\* endDateRetractsBelowInvoiced.
RetractsEnd(v, end) == end # Endless /\ end < LockedThrough(v)
\* guardInvoicedPartialExtension: a billed last period is not made longer.
ExtendsPartial(v, end) ==
    LET old == vehicle[v].end IN
    /\ old # Endless /\ end > old
    /\ old # LastOf(PeriodOf(old)) /\ PeriodOf(old) \in BilledPeriods(v)
FinanciallyLocked(v) == BilledPeriods(v) # {} \/ vehicle[v].paid # Never
Closing      == {"collected", "cancelled"}
Standing(s)  == { v \in YardVehicles : vehicle[v].spot = s }

\* shiftPaidThrough: prepaid days of rest move the paid-through day back by as
\* many days of rent, at most to the end of the rental.
ShiftPaid(paid, from, until, end, rest) ==
    LET through == IF until < paid THEN until ELSE paid
        days    == through - from + 1
        after   == { d \in Ahead : d > paid /\ Cardinality((paid + 1 .. d) \ rest) = days }
        target  == Min(after)
    IN  IF through < from THEN paid ELSE IF end # Endless /\ target > end THEN end ELSE target

-----------------------------------------------------------------------------
YardTypeOK ==
    /\ yardDay \in Days /\ spotRows \subseteq Spots
    /\ \A v \in YardVehicles :
         /\ vehicle[v].status \in {"none", "reserved", "stored"} \cup Closing
         /\ vehicle[v].start \in Days /\ vehicle[v].end \in vehicle[v].start .. Endless
         /\ vehicle[v].paid \in Ahead \cup {Never}
         /\ vehicle[v].spot \in spotRows \cup {NoSpot}
         /\ vehicle[v].archived => Exists(v)
    /\ \A s \in Spots : Cardinality(Standing(s)) <= 1
    /\ \A i \in PauseIds : pause[i].of # "none" =>
         /\ Exists(pause[i].of) /\ pause[i].spot \in spotRows \cup {NoSpot}
         /\ pause[i].ended => pause[i].until \in pause[i].from .. LastYardDay
    /\ \A v \in YardVehicles, p \in PeriodSet : invoiced[v][p].days \subseteq Days

YardInit ==
    /\ yardDay = 0
    /\ vehicle = [v \in YardVehicles |-> NoVehicle]
    /\ pause = [i \in PauseIds |-> NoPause]
    /\ spotRows = Spots
    /\ invoiced = [v \in YardVehicles |-> [p \in PeriodSet |-> NotBilled]]
    /\ bought = [v \in YardVehicles |-> 0]

\* A payment, or another end of the rental, decides anew which days are paid.
BuysNow(v) == bought' = [bought EXCEPT ![v] = PaidDays(v)']

-----------------------------------------------------------------------------
(* Vehicles.                                                                *)
InsertVehicle(v, status, start, end) ==
    /\ ~Exists(v) /\ start <= end
    /\ vehicle' = [vehicle EXCEPT ![v] = [NoVehicle EXCEPT !.status = status, !.start = start, !.end = end]]
    /\ UNCHANGED <<yardDay, pause, spotRows, invoiced, bought>>

UpdateVehicle(v, status, start, end) ==
    /\ Exists(v) /\ ~vehicle[v].archived /\ start <= end
    /\ ~ExtendsPartial(v, end)
    /\ start # vehicle[v].start => ~FinanciallyLocked(v)
    /\ ~RetractsEnd(v, end)
    /\ vehicle' = [vehicle EXCEPT ![v] =
         [@ EXCEPT !.status = status, !.start = start, !.end = end,
                   !.spot = IF status \in Closing THEN NoSpot ELSE vehicle[v].spot]]
    /\ UNCHANGED <<yardDay, pause, spotRows, invoiced>>
    /\ BuysNow(v)

\* The last day: the date given, else the one already set, else today.
ClosingDay(v, status, date) ==
    LET planned == IF vehicle[v].end # Endless THEN vehicle[v].end ELSE yardDay IN
    IF date # Never THEN date
    ELSE IF status = "cancelled" /\ planned < vehicle[v].start THEN vehicle[v].start
    ELSE planned

CloseOn(v, status, end) ==
    /\ ~vehicle[v].archived
    /\ ~ExtendsPartial(v, end)
    /\ end >= vehicle[v].start /\ ~RetractsEnd(v, end)
    /\ vehicle' = [vehicle EXCEPT ![v] = [@ EXCEPT !.status = status, !.end = end, !.spot = NoSpot]]

ChangeVehicleStatus(v, status, date) ==
    /\ Exists(v)
    /\ IF status \in Closing
       THEN CloseOn(v, status, ClosingDay(v, status, date))
       ELSE /\ ~vehicle[v].archived /\ ~ExtendsPartial(v, Endless)
            /\ vehicle' = [vehicle EXCEPT ![v] = [@ EXCEPT !.status = status, !.end = Endless]]
    /\ UNCHANGED <<yardDay, pause, spotRows, invoiced>>
    /\ BuysNow(v)

MarkPaid(v, on) ==
    /\ Exists(v) /\ ~vehicle[v].archived
    /\ on /\ vehicle[v].paid = Never => BilledPeriods(v) = {}
    /\ vehicle' = [vehicle EXCEPT ![v].paid = IF ~on THEN Never ELSE IF @ = Never THEN yardDay ELSE @]
    /\ UNCHANGED <<yardDay, pause, spotRows, invoiced>>
    /\ IF on /\ vehicle[v].paid # Never THEN UNCHANGED bought ELSE BuysNow(v)

DeleteVehicle(v) ==
    /\ Exists(v) /\ ~FinanciallyLocked(v)
    /\ vehicle' = [vehicle EXCEPT ![v] = NoVehicle]
    /\ pause' = [i \in PauseIds |-> IF pause[i].of = v THEN NoPause ELSE pause[i]]
    /\ bought' = [bought EXCEPT ![v] = 0]
    /\ UNCHANGED <<yardDay, spotRows, invoiced>>

\* After the commit, in a transaction of its own; an invoice archives too, which
\* is module Settlement's part of vehicleArchivePredicate.
AutoArchive(v) ==
    /\ \/ vehicle[v].status = "cancelled"
       \/ vehicle[v].status = "collected" /\ vehicle[v].paid >= vehicle[v].end
    /\ vehicle' = [vehicle EXCEPT ![v].archived = TRUE]
    /\ UNCHANGED <<yardDay, pause, spotRows, invoiced, bought>>

ReactivateVehicle(v) ==
    /\ vehicle[v].archived
    /\ vehicle' = [vehicle EXCEPT ![v].archived = FALSE]
    /\ UNCHANGED <<yardDay, pause, spotRows, invoiced, bought>>

-----------------------------------------------------------------------------
(* Spots of the hall plan.                                                  *)
CreateSpot(s) == /\ s \notin spotRows
                 /\ spotRows' = spotRows \cup {s}
                 /\ UNCHANGED <<yardDay, vehicle, pause, invoiced, bought>>

\* A unique index, not the handler, keeps two vehicles off one spot.
AssignSpotVehicle(s, v) ==
    /\ s \in spotRows /\ Exists(v) /\ Standing(s) \subseteq {v}
    /\ vehicle' = [vehicle EXCEPT ![v].spot = s]
    /\ UNCHANGED <<yardDay, pause, spotRows, invoiced, bought>>

\* Mutant: a spot goes and the vehicle on it keeps its number.
MutantWithout(gone) == vehicle
Without(gone) == [v \in YardVehicles |-> IF vehicle[v].spot \in gone THEN [vehicle[v] EXCEPT !.spot = NoSpot] ELSE vehicle[v]]

UnassignSpotVehicle(s) ==
    /\ Standing(s) # {}
    /\ vehicle' = Without({s})
    /\ UNCHANGED <<yardDay, pause, spotRows, invoiced, bought>>

\* A spot, or a hall or garage with all its spots (ON DELETE CASCADE): the
\* vehicles there and the pauses that remember a spot let go of it.
DeleteSpots(gone) ==
    /\ gone \subseteq spotRows
    /\ spotRows' = spotRows \ gone
    /\ vehicle' = Without(gone)
    /\ pause' = [i \in PauseIds |-> IF pause[i].spot \in gone THEN [pause[i] EXCEPT !.spot = NoSpot] ELSE pause[i]]
    /\ UNCHANGED <<yardDay, invoiced, bought>>

\* A spot given up for a pause is taken again if nobody else stands there.
Relinked(i) ==
    LET s == pause[i].spot  v == pause[i].of IN
    IF s # NoSpot /\ vehicle[v].spot = NoSpot /\ Standing(s) = {} THEN s ELSE vehicle[v].spot

-----------------------------------------------------------------------------
(* Pauses.                                                                  *)
Overlaps(v, from, until) ==
    \E i \in PausesOf(v) : pause[i].from <= until /\ BillingEnd(pause[i]) >= from

StartPause(v, i, from, until, hold) ==
    /\ pause[i] = NoPause
    /\ from <= until
    /\ vehicle[v].status = "stored" /\ ~vehicle[v].archived
    /\ vehicle[v].start <= from /\ from <= vehicle[v].end
    /\ ~hold => from <= yardDay
    /\ from > LockedThrough(v)
    /\ ~Overlaps(v, from, until)
    /\ pause' = [pause EXCEPT ![i] = [NoPause EXCEPT !.of = v, !.from = from, !.until = until,
                                      !.spot = IF hold THEN NoSpot ELSE vehicle[v].spot]]
    /\ vehicle' = IF hold THEN vehicle ELSE [vehicle EXCEPT ![v].spot = NoSpot]
    /\ UNCHANGED <<yardDay, spotRows, invoiced, bought>>

Running(i) == pause[i].of # "none" /\ ~pause[i].ended

ExtendPause(i, until) ==
    /\ Running(i) /\ until >= pause[i].from
    /\ pause' = [pause EXCEPT ![i].until = until]
    /\ UNCHANGED <<yardDay, vehicle, spotRows, invoiced, bought>>

\* The day of the return is rented again; the pause ends the day before.
PaidAfterReturn(i, on) ==
    LET v == pause[i].of
        others == PausesOf(v) \ {i}
        rest   == (pause[i].from .. on - 1) \cup { d \in Ahead : \E j \in others : PausedBy(pause[j], d) }
    IN  IF vehicle[v].paid = Never THEN Never
        ELSE ShiftPaid(vehicle[v].paid, pause[i].from, on - 1, vehicle[v].end, rest)

ReturnFromPause(i, on) ==
    LET v == pause[i].of IN
    /\ Running(i) /\ on >= pause[i].from
    /\ on - 1 >= LockedThrough(v)
    /\ PaidAfterReturn(i, on) <= Endless   \* bound
    /\ IF on = pause[i].from
       THEN /\ pause' = [pause EXCEPT ![i] = NoPause]
            /\ vehicle' = [vehicle EXCEPT ![v].spot = Relinked(i)]
       ELSE /\ pause' = [pause EXCEPT ![i] = [@ EXCEPT !.until = on - 1, !.ended = TRUE,
                                                       !.paidBefore = vehicle[v].paid]]
            /\ vehicle' = [vehicle EXCEPT ![v] = [@ EXCEPT !.paid = PaidAfterReturn(i, on), !.spot = Relinked(i)]]
    /\ UNCHANGED <<yardDay, spotRows, invoiced, bought>>

\* "Doch abgeholt": collected on the first day of the pause, which is dropped.
CollectFromPause(i) == \E v \in YardVehicles :
    /\ v = pause[i].of
    /\ Running(i) /\ pause[i].from > LockedThrough(v)
    /\ CloseOn(v, "collected", pause[i].from)
    /\ pause' = [pause EXCEPT ![i] = NoPause]
    /\ UNCHANGED <<yardDay, spotRows, invoiced>>
    /\ BuysNow(v)

\* What the return made of the paid-through day, worked out again.
ShiftedBefore(i) ==
    LET v == pause[i].of  rest == { d \in Ahead : PausedAt(v, d) }
    IN  ShiftPaid(pause[i].paidBefore, pause[i].from, pause[i].until, vehicle[v].end, rest)

\* Mutant: a shift is undone although a payment has been booked since.
MutantUndo(i) == pause[i].ended /\ pause[i].paidBefore # Never
\* A shift can be undone only as long as nothing has moved the day since.
CanUndo(i) == ShiftedBefore(i) # pause[i].paidBefore => vehicle[pause[i].of].paid = ShiftedBefore(i)

DeletePause(i) ==
    LET v == pause[i].of
        remembered == pause[i].ended /\ pause[i].paidBefore # Never
    IN
    /\ pause[i].of # "none" /\ pause[i].from > LockedThrough(v)
    /\ remembered => CanUndo(i)
    /\ vehicle' = [vehicle EXCEPT ![v] =
         [@ EXCEPT !.paid = IF remembered /\ ShiftedBefore(i) # pause[i].paidBefore THEN pause[i].paidBefore
                            ELSE vehicle[v].paid,
                   !.spot = Relinked(i)]]
    /\ pause' = [pause EXCEPT ![i] = NoPause]
    /\ UNCHANGED <<yardDay, spotRows, invoiced, bought>>

-----------------------------------------------------------------------------
(* Invoices: every period that is over and not billed, for the days of rent     *)
(* that are not paid.  A period that costs nothing is no line of an invoice.     *)
Billable(v, p) ==
    { d \in RentDays(v, LastOf(p)) : PeriodOf(d) = p /\ d > vehicle[v].paid }
Over(v, p) == LastOf(p) < yardDay \/ vehicle[v].end < yardDay
ToInvoice(v) == { p \in PeriodSet : p \notin BilledPeriods(v) /\ Over(v, p) /\ Billable(v, p) # {} }

InvoiceVehicle(v) ==
    /\ Exists(v) /\ ToInvoice(v) # {}
    /\ invoiced' = [invoiced EXCEPT ![v] = [p \in PeriodSet |->
         IF p \in ToInvoice(v) THEN [on |-> yardDay, days |-> Billable(v, p)] ELSE @[p]]]
    /\ UNCHANGED <<yardDay, vehicle, pause, spotRows, bought>>

CancelVehicleInvoice(v, on) ==
    /\ \E p \in BilledPeriods(v) : invoiced[v][p].on = on
    /\ invoiced' = [invoiced EXCEPT ![v] = [p \in PeriodSet |-> IF @[p].on = on THEN NotBilled ELSE @[p]]]
    /\ UNCHANGED <<yardDay, vehicle, pause, spotRows, bought>>

NextDay == /\ yardDay < LastYardDay
           /\ yardDay' = yardDay + 1
           /\ UNCHANGED <<vehicle, pause, spotRows, invoiced, bought>>

-----------------------------------------------------------------------------
VehicleStep ==
    \E v \in YardVehicles :
      \/ \E s \in StartDays, e \in EndDays \cup {Endless} :
           \/ \E st \in {"reserved", "stored"} : InsertVehicle(v, st, s, e)
           \/ \E st \in {"reserved", "stored"} \cup Closing : UpdateVehicle(v, st, s, e)
      \/ \E st \in {"reserved", "stored"} \cup Closing, d \in EndDays \cup {Never} : ChangeVehicleStatus(v, st, d)
      \/ \E b \in BOOLEAN : MarkPaid(v, b)
      \/ DeleteVehicle(v) \/ AutoArchive(v) \/ ReactivateVehicle(v)
      \/ InvoiceVehicle(v) \/ \E d \in Days : CancelVehicleInvoice(v, d)

SpotStep ==
    \E s \in Spots : \/ CreateSpot(s) \/ UnassignSpotVehicle(s)
                     \/ \E v \in YardVehicles : AssignSpotVehicle(s, v)

PauseStep ==
    \E i \in PauseIds :
      \/ \E v \in YardVehicles, f \in PauseDays, u \in PauseDays \cup {Endless}, b \in BOOLEAN :
           /\ OutOfOrder \/ \A j \in PausesOf(v) : pause[j].from < f
           /\ StartPause(v, i, f, u, b)
      \/ \E u \in PauseDays \cup {Endless} : ExtendPause(i, u)
      \/ \E on \in Days : ReturnFromPause(i, on)
      \/ CollectFromPause(i) \/ DeletePause(i)

SpotsGo == \E gone \in SUBSET Spots \ {{}} : DeleteSpots(gone)

YardNext == VehicleStep \/ SpotsGo \/ SpotStep \/ PauseStep \/ NextDay
YardSpec == YardInit /\ [][YardNext]_yardVars

-----------------------------------------------------------------------------
Resting(v) == \E i \in PausesOf(v) : Running(i)

(* Safety.  A pause never costs the customer a day that is paid for: when the   *)
(* vehicle is back and its rental goes on, at least as many days of rent are     *)
(* paid as the payment bought (shiftPaidThrough, ReturnFromPause, DeletePause).  *)
PaidNeverLost ==
    \A v \in Known : Resting(v) \/ vehicle[v].end # Endless \/ PaidDays(v) >= bought[v]

(* Safety.  An issued invoice stays right: no pause, return, correction or new   *)
(* date changes which days of a billed period are rent (pauseLockedThrough,      *)
(* endDateRetractsBelowInvoiced, guardInvoicedPartialExtension).                 *)
InvoicedDaysStand ==
    \A v \in Known : \A p \in BilledPeriods(v) :
      invoiced[v][p].days \subseteq { d \in RentDays(v, LastOf(p)) : PeriodOf(d) = p }
=============================================================================
