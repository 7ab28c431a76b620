----------------------------- MODULE Indexation -----------------------------
(***************************************************************************)
(* Prices bound to the consumer price index (indexation.go): the operator    *)
(* enters index values, a tariff has a base month and a threshold, and        *)
(* ApplyIndexation plans new rates from the state it reads OUTSIDE of the     *)
(* transaction that stores them.  Next to it the other writers of              *)
(* vehicle_rate_changes: DeleteRateChange and DuplicateVehicle.               *)
(* Periods of the calendar and months of the index are counted alike.          *)
(***************************************************************************)
EXTENDS Integers, FiniteSets, FiniteSetsExt

CONSTANTS
    Lots,          \* vehicles.id
    FirstLots,     \* those of Lots that are there from the start
    Officers,      \* requests of ApplyIndexation in flight
    CPI,           \* the published index, CPI[m] for month m
    Thresholds,    \* values of categories.index_threshold, in per cent
    FirstPrice,    \* the price agreed first
    LotYear,       \* months of a yearly billing period
    MaxSettings    \* bound: uses of SetCategoryIndexation

CPIMonths == DOMAIN CPI
LastMonth == Max(CPIMonths)
NoMonth   == -1
ASSUME IndexationAssumption ==
    /\ LastMonth \in Nat /\ CPIMonths = 0 .. LastMonth
    /\ \A m \in CPIMonths : CPI[m] \in Nat \ {0}
    /\ FirstLots \subseteq Lots /\ Thresholds \subseteq Nat
    /\ {FirstPrice, LotYear} \subseteq Nat \ {0} /\ MaxSettings \in Nat

VARIABLES
    cpiKnown,   \* months with a row in cpi_values
    tariff,     \* categories: base month, threshold, price; uses of the setting
    lot,        \* vehicles: a function on the ids that exist
    raises,     \* vehicle_rate_changes
    calendar,   \* the running period
    plans       \* ApplyIndexation in flight: its plan, or NoPlan

indexVars == <<cpiKnown, tariff, lot, raises, calendar, plans>>

NoPlan == [month |-> NoMonth, price |-> 0, rows |-> {}]
Raises == [lot : Lots, from : Nat, rate : Nat, month : CPIMonths]

IndexationTypeOK ==
    /\ cpiKnown \subseteq CPIMonths
    /\ tariff \in [base : CPIMonths \cup {NoMonth}, threshold : Thresholds, price : Nat, set : 0 .. MaxSettings]
    /\ DOMAIN lot \subseteq Lots
    /\ \A v \in DOMAIN lot : lot[v] \in [start : CPIMonths, rate : Nat,
                                         yearly : BOOLEAN, passed : BOOLEAN, agreed : [rate : Nat, month : CPIMonths]]
    /\ raises \subseteq Raises
    /\ \A x, y \in raises : x.lot = y.lot /\ x.from = y.from => x = y
    /\ calendar \in CPIMonths
    /\ plans \in [Officers -> [month : CPIMonths \cup {NoMonth}, price : Nat, rows : SUBSET Raises]]

\* agreed (history): the price and the month it was agreed in.
FirstLot(start, yearly) ==
    [start |-> start, rate |-> FirstPrice, yearly |-> yearly, passed |-> FALSE,
     agreed |-> [rate |-> FirstPrice, month |-> start]]

IndexationInit ==
    /\ cpiKnown = {0}
    /\ tariff \in [base : {0}, threshold : Thresholds, price : {FirstPrice}, set : {0}]
    /\ \E start \in [FirstLots -> CPIMonths], yearly \in [FirstLots -> BOOLEAN] :
         lot = [v \in FirstLots |-> FirstLot(start[v], yearly[v])]
    /\ raises = {}
    /\ calendar = 0
    /\ plans = [o \in Officers |-> NoPlan]

-----------------------------------------------------------------------------
\* The plan.

LotRaises(v)   == { x \in raises : x.lot = v }
Latest(xs)     == CHOOSE x \in xs : \A y \in xs : y.from <= x.from
\* RateAt: the change in force on the day, else the stored rate.
RateAt(v, day) ==
    LET past == { x \in LotRaises(v) : x.from <= day }
    IN  IF past = {} THEN lot[v].rate ELSE Latest(past).rate

NextPeriodStart(v) == IF lot[v].yearly THEN LotYear * (calendar \div LotYear + 1) ELSE calendar + 1

Larger(a, b) == IF a < b THEN b ELSE a
\* Mutant: the start of the contract is forgotten.
MutantBaseMonth(v) ==
    IF LotRaises(v) = {} THEN tariff.base ELSE Latest(LotRaises(v)).month
\* "Basis: die letzte Anpassung; sonst der Basismonat des Tarifs, bei einem
\* später geschlossenen Vertrag aber dessen Beginn."
BaseMonth(v) ==
    IF LotRaises(v) = {} THEN Larger(tariff.base, lot[v].start) ELSE Latest(LotRaises(v)).month

ReachesThreshold(month, base) == 100 * (CPI[month] - CPI[base]) >= tariff.threshold * CPI[base]
\* The price of the new month; round2 is abstracted to whole cents, downwards.
Indexed(price, month, base) == (price * CPI[month]) \div CPI[base]

RowFor(v, month) ==
    LET from == NextPeriodStart(v)
    IN  [lot |-> v, from |-> from, rate |-> Indexed(RateAt(v, from - 1), month, BaseMonth(v)), month |-> month]
Raised(v, month) ==
    /\ ~lot[v].passed
    /\ lot[v].start < NextPeriodStart(v)
    /\ BaseMonth(v) \in cpiKnown
    /\ BaseMonth(v) < month
    /\ ReachesThreshold(month, BaseMonth(v))
    /\ RowFor(v, month).rate # RateAt(v, NextPeriodStart(v) - 1)

TariffDue(month) ==
    /\ tariff.base \in cpiKnown \ {month}
    /\ \/ ReachesThreshold(month, tariff.base)
       \/ 100 * (CPI[tariff.base] - CPI[month]) >= tariff.threshold * CPI[tariff.base]

PlanIndexation(o, month) ==
    /\ plans[o] = NoPlan
    /\ month \in cpiKnown
    /\ TariffDue(month)
    /\ plans' = [plans EXCEPT ![o] =
         [month |-> month, price |-> Indexed(tariff.price, month, tariff.base),
          rows |-> { RowFor(v, month) : v \in { u \in DOMAIN lot : Raised(u, month) } }]]
    /\ UNCHANGED <<cpiKnown, tariff, lot, raises, calendar>>

\* The transaction: ON CONFLICT (vehicle_id, effective_from) DO NOTHING.
Inserted(rows) == { x \in rows : \A y \in LotRaises(x.lot) : y.from # x.from }
ApplyIndexation(o) ==
    /\ plans[o] # NoPlan
    /\ raises' = raises \cup Inserted(plans[o].rows)
    /\ tariff' = [tariff EXCEPT !.base = plans[o].month, !.price = plans[o].price]
    /\ plans'  = [plans EXCEPT ![o] = NoPlan]
    /\ UNCHANGED <<cpiKnown, lot, calendar>>

AbortIndexation(o) ==
    /\ plans[o] # NoPlan
    /\ plans' = [plans EXCEPT ![o] = NoPlan]
    /\ UNCHANGED <<cpiKnown, tariff, lot, raises, calendar>>

-----------------------------------------------------------------------------
\* The other requests.

\* The operator enters what is published: months up to the running one.
SaveCPI(month) ==
    /\ month <= calendar /\ month \notin cpiKnown
    /\ cpiKnown' = cpiKnown \cup {month}
    /\ UNCHANGED <<tariff, lot, raises, calendar, plans>>

DeleteCPI(month) ==
    /\ month \in cpiKnown
    /\ cpiKnown' = cpiKnown \ {month}
    /\ UNCHANGED <<tariff, lot, raises, calendar, plans>>

SetCategoryIndexation(base, threshold) ==
    /\ tariff.set < MaxSettings
    /\ <<base, threshold>> # <<tariff.base, tariff.threshold>>
    /\ tariff' = [tariff EXCEPT !.base = base, !.threshold = threshold, !.set = @ + 1]
    /\ UNCHANGED <<cpiKnown, lot, raises, calendar, plans>>

\* Only while it is not in force: a period that began bills it.
DeleteRateChange(x) ==
    /\ x \in raises
    /\ calendar < x.from
    /\ raises' = raises \ {x}
    /\ UNCHANGED <<cpiKnown, tariff, lot, calendar, plans>>

\* The copy keeps the price in force at its start and the changes planned after
\* it, or takes the tariff of today.
DuplicateVehicle(v, copy, start, current) ==
    /\ v \in DOMAIN lot /\ copy \in Lots \ DOMAIN lot
    /\ LET rate   == IF current THEN tariff.price ELSE RateAt(v, start)
           agreed == IF current THEN [rate |-> rate, month |-> start] ELSE [lot[v].agreed EXCEPT !.month = Min({@, start})]
       IN  lot' = [u \in DOMAIN lot \cup {copy} |->
                     IF u = copy THEN [lot[v] EXCEPT !.start = start, !.rate = rate, !.passed = FALSE, !.agreed = agreed]
                     ELSE lot[u]]
    /\ raises' = raises \cup IF current THEN {} ELSE { [x EXCEPT !.lot = copy] : x \in { y \in LotRaises(v) : start < y.from } }
    /\ UNCHANGED <<cpiKnown, tariff, calendar, plans>>

\* An agreement begins or stops to cover the vehicle (FlatRateCovered), or it
\* leaves and comes back: the plan passes over it meanwhile.  Other handlers do this.
PassOver(v) ==
    /\ lot' = [lot EXCEPT ![v].passed = ~@]
    /\ UNCHANGED <<cpiKnown, tariff, raises, calendar, plans>>

NextPeriod ==
    /\ calendar < LastMonth
    /\ calendar' = calendar + 1
    /\ UNCHANGED <<cpiKnown, tariff, lot, raises, plans>>

IndexationNext ==
    \/ \E o \in Officers : (\E m \in CPIMonths : PlanIndexation(o, m)) \/ ApplyIndexation(o) \/ AbortIndexation(o)
    \/ \E m \in CPIMonths : SaveCPI(m) \/ DeleteCPI(m)
    \/ \E base \in CPIMonths \cup {NoMonth}, t \in Thresholds : SetCategoryIndexation(base, t)
    \/ \E x \in raises : DeleteRateChange(x)
    \/ \E v \in DOMAIN lot, copy \in Lots, start \in CPIMonths, current \in BOOLEAN :
         DuplicateVehicle(v, copy, start, current)
    \/ \E v \in DOMAIN lot : PassOver(v)
    \/ NextPeriod

IndexationSpec == IndexationInit /\ [][IndexationNext]_indexVars

-----------------------------------------------------------------------------
\* Whatever the order of plans, their transactions, retractions and copies, no
\* customer pays more than the index has risen since the price was agreed: no
\* rise is charged twice and none from before the contract
\* (indexation.go indexationPlan, ApplyIndexation; vehicles.go DuplicateVehicle).
NoRiseTwice ==
    \A x \in raises : x.rate * CPI[lot[x.lot].agreed.month] <= lot[x.lot].agreed.rate * CPI[x.month]

\* "bei einem später geschlossenen Vertrag aber dessen Beginn — der Preis wurde
\* dann zum damaligen Index vereinbart" (indexationPlan): the first adjustment
\* of a contract gives it the whole rise since its start.
RisesSinceStart ==
    \A v \in DOMAIN lot : \A x \in LotRaises(v) :
        (\A y \in LotRaises(v) : x.from <= y.from)
            => x.rate >= Indexed(lot[v].agreed.rate, x.month, lot[v].agreed.month)
=============================================================================
