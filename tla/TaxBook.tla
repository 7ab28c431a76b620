------------------------------- MODULE TaxBook -------------------------------
(***************************************************************************)
(* The tax ledger (internal/handlers/tax_book.go, tax_year.go,             *)
(* payment_year_guard.go): income by receipt date and by the 15-day rule,  *)
(* expenses, assets, and the lock of a year.  A writer takes the advisory  *)
(* lock of every year it touches in shared mode and keeps it to its        *)
(* commit, LockTaxYear and UnlockTaxYear take it exclusively: a handler's  *)
(* transaction is one action.  What a handler reads before that            *)
(* transaction or its locks is a step of its own: the receipts counted for *)
(* an upload and the payments DeletePerson looks for.                      *)
(* A year has three days, the ones its rules tell apart: New Year's Day    *)
(* (1 to 15 January), 1 July, and New Year's Eve (17 to 31 December).      *)
(***************************************************************************)
EXTENDS Naturals, FiniteSets, FiniteSetsExt

CONSTANTS
    LastTaxYear,    \* maxTaxYear; years are numbered from 1
    Payers,         \* persons
    Properties,     \* tax_properties
    IncomeIds, ExpenseIds, AssetIds, Templates,  \* rows that can be written
    TaxAmounts, Bases, Lives,  \* amounts and bases in cents, useful lives in years
    ReceiptLimit,   \* receipts of an expense, 20 in the code
    MaxUploads,     \* uploads on their way
    EntryDays,      \* days entered for expenses and templates
    RacingErasure   \* a payment may arrive while a person is being deleted

ASSUME TaxAssumption ==
    /\ LastTaxYear \in Nat \ {0} /\ Properties # {} /\ Properties \subseteq Nat
    /\ TaxAmounts \subseteq Nat \ {0} /\ Bases \subseteq Nat \ {0}
    /\ Lives \subseteq Nat \ {0} /\ ReceiptLimit \in Nat /\ MaxUploads \in Nat
    /\ EntryDays \subseteq 1 .. 3 * LastTaxYear /\ RacingErasure \in BOOLEAN

VARIABLES
    taxDay,      \* CURRENT_DATE
    closedYears, \* tax_year_locks
    income,      \* payments with their payment_tax_metadata
    expense,     \* tax_expenses with the number of their receipts
    template,    \* tax_recurring_expenses
    asset,       \* tax_assets
    payers,      \* persons that exist
    erasing,     \* persons in whom DeletePerson found no payment
    uploads      \* uploads that counted the receipts of their expense

ledgerVars == <<income, expense, template, asset>>
taxVars    == <<taxDay, closedYears, ledgerVars, payers, erasing, uploads>>

TaxYears   == 1 .. LastTaxYear
TaxDays    == 1 .. 3 * LastTaxYear
TaxYear(d) == (d + 2) \div 3
FirstDay(y) == 3 * y - 2
LastDay(y)  == 3 * y
NewYear(d) == d = FirstDay(TaxYear(d))
YearEnd(d) == d = LastDay(TaxYear(d))

NoRow    == [id |-> 0]
NoPeriod == [part |-> "none", year |-> 0]
\* What a periodic receipt settles: a December, a January or a whole year.
SettledPeriods == {NoPeriod} \cup [part : {"dec", "jan", "all"}, year : TaxYears]
DefaultProperty == Min(Properties)

Income   == { i \in IncomeIds : income[i] # NoRow }
Live     == { i \in Income : ~income[i].reversed }
Expenses == { e \in ExpenseIds : expense[e] # NoRow }
Assets   == { a \in AssetIds : asset[a] # NoRow }

----------------------------------------------------------------------------
(* The report of a year *)

Effective(p) == IF p.received = 0 THEN p.paid ELSE p.received

\* The 15-day rule moves a periodic receipt into the year it belongs to.
TaxRuleYear(d, settled) ==
    LET y == TaxYear(d) IN
    IF NewYear(d) /\ settled.part = "dec" /\ settled.year = y - 1 THEN y - 1
    ELSE IF YearEnd(d) /\ settled.part \in {"jan", "all"} /\ settled.year = y + 1 THEN y + 1
    ELSE y

RuleYear(p) == TaxRuleYear(Effective(p), p.settled)

\* Mutant: only the calendar year is loaded.
MutantWindow(y) == FirstDay(y) .. LastDay(y)

\* Payments the report of year y loads: from 17 December to 15 January.
Window(y) == LastDay(y - 1) .. FirstDay(y + 1)
Loaded(y) == { i \in Live : Effective(income[i]) \in Window(y) }
ByDate(y) == { i \in Loaded(y) : TaxYear(Effective(income[i])) = y }
ByRule(y) == { i \in Loaded(y) : RuleYear(income[i]) = y }

\* Straight-line depreciation is counted in the 2L-th part of a cent, L the
\* useful life: a full year takes 2 * basis of them, a half year one basis.
Within(a, y)  == y >= TaxYear(a.from) /\ (a.to # 0 => y <= TaxYear(a.to))
ActiveFrom(a, y)  == IF y = TaxYear(a.from) THEN a.from ELSE FirstDay(y)
ActiveUntil(a, y) == IF a.to # 0 /\ y = TaxYear(a.to) THEN a.to ELSE LastDay(y)
HalfYear(a, y) == a.half /\ ~(NewYear(ActiveFrom(a, y)) /\ YearEnd(ActiveUntil(a, y)))
Whole(a)       == 2 * a.life * a.basis
Capped(a, amount, used) == IF amount > Whole(a) - used THEN Whole(a) - used ELSE amount
YearShare(a, y, used) ==
    IF used + a.life >= Whole(a) THEN 0   \* less than half a cent is left
    ELSE Capped(a, IF HalfYear(a, y) THEN a.basis ELSE 2 * a.basis, used)
UsedThrough(a) ==
    LET used[y \in 0 .. LastTaxYear] ==
            IF y = 0 THEN 0
            ELSE IF ~Within(a, y) THEN used[y - 1]
            ELSE used[y - 1] + YearShare(a, y, used[y - 1])
    IN used
RoundCent(a, amount) == (amount + a.life) \div (2 * a.life)
AnnualTaxDepreciation(a, y) ==
    IF Within(a, y) THEN RoundCent(a, YearShare(a, y, UsedThrough(a)[y - 1])) ELSE 0
Depreciated(a) == MapThenSumSet(LAMBDA y : AnnualTaxDepreciation(a, y), TaxYears)

Stornos(y)    == { i \in Income \ Live : TaxYear(Effective(income[i])) = y }

\* The rows a report adds up, per property: income by either rule and taken
\* back, expenses with their receipts, and what the year takes off each asset.
ExpensesOf(y) == { e \in Expenses : TaxYear(expense[e].paid) = y }
Takes(a, y)   == AnnualTaxDepreciation(asset[a], y)
Report(y) == [ q \in Properties |->
    [ byDate   |-> { income[i] : i \in { j \in ByDate(y) : income[j].property = q } },
      byRule   |-> { income[i] : i \in { j \in ByRule(y) : income[j].property = q } },
      storno   |-> { income[i] : i \in { j \in Stornos(y) : income[j].property = q } },
      expenses |-> { expense[e] : e \in { f \in ExpensesOf(y) : expense[f].property = q } },
      afa      |-> { <<a, Takes(a, y)>> : a \in { b \in Assets :
                                  asset[b].property = q /\ Takes(b, y) # 0 } } ] ]

----------------------------------------------------------------------------
(* The lock of a year *)

YearsFree(years) == years \cap closedYears = {}

LockTaxYear(y) ==
    /\ closedYears' = closedYears \cup {y}
    /\ UNCHANGED <<taxDay, ledgerVars, payers, erasing, uploads>>

UnlockTaxYear(y) ==
    /\ y \in closedYears
    /\ closedYears' = closedYears \ {y}
    /\ UNCHANGED <<taxDay, ledgerVars, payers, erasing, uploads>>

NextTaxDay ==
    /\ taxDay < 3 * LastTaxYear
    /\ taxDay' = taxDay + 1
    /\ UNCHANGED <<closedYears, ledgerVars, payers, erasing, uploads>>

----------------------------------------------------------------------------
(* Income *)

NewIncome(i, p, auto, day, settled, amount) ==
    /\ income[i] = NoRow /\ p \in payers
    /\ income' = [income EXCEPT ![i] =
          [id |-> i, payer |-> p, auto |-> auto, paid |-> day, received |-> 0,
           settled |-> settled, property |-> DefaultProperty, amount |-> amount,
           reversed |-> FALSE]]
    /\ UNCHANGED <<taxDay, closedYears, expense, template, asset, payers, erasing, uploads>>

\* CreatePayment and an invoice payment, with the date the office enters.
ReceivePayment(i, p, day, amount) ==
    /\ YearsFree({TaxYear(day)})
    /\ NewIncome(i, p, FALSE, day, NoPeriod, amount)

\* A slider books today, for a period or (NoPeriod) for rent and charges.
SettleBySlider(i, p, settled, amount) ==
    /\ YearsFree({TaxYear(taxDay), TaxRuleYear(taxDay, settled)})
    /\ NewIncome(i, p, TRUE, taxDay, settled, amount)

\* Mutant: the year the 15-day rule moves a payment to is forgotten.
MutantYears(p) == {TaxYear(p.paid), TaxYear(Effective(p))}

\* The years in which a payment counts, or counted when it was booked.
YearsOfIncome(p) == {TaxYear(p.paid), TaxYear(Effective(p)), RuleYear(p)}

ReverseIncome(i) ==
    /\ i \in Live /\ YearsFree(YearsOfIncome(income[i]))
    /\ income' = [income EXCEPT ![i].reversed = TRUE]
    /\ UNCHANGED <<taxDay, closedYears, expense, template, asset, payers, erasing, uploads>>

UpdatePaymentTaxMetadata(i, received, q) ==
    LET p == income[i]
        new == [p EXCEPT !.received = received, !.property = q]
    IN
    /\ i \in Income
    /\ p.auto \/ received \in {0, p.paid}
    /\ YearsFree(YearsOfIncome(p) \cup YearsOfIncome(new))
    /\ income' = [income EXCEPT ![i] = new]
    /\ UNCHANGED <<taxDay, closedYears, expense, template, asset, payers, erasing, uploads>>

----------------------------------------------------------------------------
(* Expenses *)

InsertExpense(e, row) ==
    /\ expense[e] = NoRow
    /\ expense' = [expense EXCEPT ![e] = row]
    /\ UNCHANGED <<taxDay, closedYears, income, template, asset, payers, erasing, uploads>>

\* A repeated request finds its key, before or inside the transaction, and is
\* answered with the first expense: it changes nothing.
CreateTaxExpense(e, q, day, amount) ==
    /\ YearsFree({TaxYear(day)})
    /\ InsertExpense(e, [id |-> e, property |-> q, paid |-> day, amount |-> amount,
                         reverses |-> 0, template |-> "none", receipts |-> 0])

Reversals(e) == { f \in Expenses : expense[f].reverses = e }

ReverseTaxExpense(e, f) ==
    /\ e \in Expenses /\ expense[e].reverses = 0 /\ Reversals(e) = {}
    /\ YearsFree({TaxYear(expense[e].paid)})
    /\ InsertExpense(f, [expense[e] EXCEPT !.id = f, !.reverses = e,
                                           !.template = "none", !.receipts = 0])

\* The upload counts the receipts in the statement that locks the expense: a
\* wait for that lock leaves the count as it was.
CountReceipts(e) ==
    /\ e \in Expenses /\ Cardinality(uploads) < MaxUploads
    /\ \E slot \in 1 .. MaxUploads :
          /\ \A u \in uploads : u.slot # slot
          /\ uploads' = uploads \cup {[slot |-> slot, expense |-> e, seen |-> expense[e].receipts]}
    /\ UNCHANGED <<taxDay, closedYears, ledgerVars, payers, erasing>>

UploadTaxReceipt(u) ==
    /\ u.seen < ReceiptLimit /\ YearsFree({TaxYear(expense[u.expense].paid)})
    /\ expense' = [expense EXCEPT ![u.expense].receipts = @ + 1]
    /\ uploads' = uploads \ {u}
    /\ UNCHANGED <<taxDay, closedYears, income, template, asset, payers, erasing>>

RefuseUpload(u) ==
    /\ ~(u.seen < ReceiptLimit /\ YearsFree({TaxYear(expense[u.expense].paid)}))
    /\ uploads' = uploads \ {u}
    /\ UNCHANGED <<taxDay, closedYears, ledgerVars, payers, erasing>>

CreateTaxRecurring(t, q, from, to, amount) ==
    /\ template[t] = NoRow /\ (to = 0 \/ to >= from)
    /\ template' = [template EXCEPT ![t] =
          [id |-> 1, property |-> q, from |-> from, to |-> to, amount |-> amount, active |-> TRUE]]
    /\ UNCHANGED <<taxDay, closedYears, income, expense, asset, payers, erasing, uploads>>

UpdateTaxRecurring(t) ==
    /\ template[t] # NoRow
    /\ template' = [template EXCEPT ![t].active = ~@]
    /\ UNCHANGED <<taxDay, closedYears, income, expense, asset, payers, erasing, uploads>>

BookTaxRecurring(t, e, day) ==
    /\ YearsFree({TaxYear(day)})
    /\ template[t] # NoRow /\ template[t].active
    /\ day >= template[t].from /\ (template[t].to # 0 => day <= template[t].to)
    /\ \A f \in Expenses : ~(expense[f].template = t /\ expense[f].paid = day)
    /\ InsertExpense(e, [id |-> e, property |-> template[t].property, paid |-> day,
                         amount |-> template[t].amount, reverses |-> 0,
                         template |-> t, receipts |-> 0])

----------------------------------------------------------------------------
(* Assets, and persons that leave *)

\* An asset touches every year from its first to its disposal, or to the last.
AssetYears(from, to) == TaxYear(from) .. (IF to = 0 THEN LastTaxYear ELSE TaxYear(to))

CreateTaxAsset(a, q, from, to, basis, life, half) ==
    /\ asset[a] = NoRow /\ (to = 0 \/ to >= from)
    /\ YearsFree(AssetYears(from, to))
    /\ asset' = [asset EXCEPT ![a] =
          [id |-> a, property |-> q, from |-> from, to |-> to, basis |-> basis,
           life |-> life, half |-> half]]
    /\ UNCHANGED <<taxDay, closedYears, income, expense, template, payers, erasing, uploads>>

PaymentsOf(p) == { i \in Income : income[i].payer = p }

\* DeletePerson looks for payments before its transaction ...
LookForPayments(p) ==
    /\ p \in payers \ erasing /\ PaymentsOf(p) = {}
    /\ erasing' = erasing \cup {p}
    /\ UNCHANGED <<taxDay, closedYears, ledgerVars, payers, uploads>>

\* ... and deletes: the rows of the sliders cascade, a receipt entered by
\* hand is protected by its trigger and makes the deletion fail.
DeletePerson(p) ==
    /\ p \in erasing
    /\ RacingErasure \/ PaymentsOf(p) = {}
    /\ \A i \in PaymentsOf(p) : income[i].auto
    /\ income' = [i \in IncomeIds |-> IF i \in PaymentsOf(p) THEN NoRow ELSE income[i]]
    /\ payers' = payers \ {p}
    /\ erasing' = erasing \ {p}
    /\ UNCHANGED <<taxDay, closedYears, expense, template, asset, uploads>>

KeepPerson(p) ==
    /\ p \in erasing /\ \E i \in PaymentsOf(p) : ~income[i].auto
    /\ erasing' = erasing \ {p}
    /\ UNCHANGED <<taxDay, closedYears, ledgerVars, payers, uploads>>

----------------------------------------------------------------------------
TaxInit ==
    /\ taxDay = 1 /\ closedYears = {}
    /\ income = [i \in IncomeIds |-> NoRow]
    /\ expense = [e \in ExpenseIds |-> NoRow]
    /\ template = [t \in Templates |-> NoRow]
    /\ asset = [a \in AssetIds |-> NoRow]
    /\ payers = Payers /\ erasing = {} /\ uploads = {}

IncomeNext ==
    \/ \E i \in IncomeIds, p \in Payers, amount \in TaxAmounts :
         \/ \E day \in TaxDays : ReceivePayment(i, p, day, amount)
         \/ \E settled \in SettledPeriods : SettleBySlider(i, p, settled, amount)
    \/ \E i \in IncomeIds :
         \/ ReverseIncome(i)
         \/ \E received \in {0} \cup TaxDays, q \in Properties :
               UpdatePaymentTaxMetadata(i, received, q)
    \/ \E p \in Payers : LookForPayments(p) \/ DeletePerson(p) \/ KeepPerson(p)

ExpenseNext ==
    \/ \E e \in ExpenseIds, day \in EntryDays :
         \/ \E q \in Properties, amount \in TaxAmounts : CreateTaxExpense(e, q, day, amount)
         \/ \E t \in Templates : BookTaxRecurring(t, e, day)
    \/ \E e, f \in ExpenseIds : ReverseTaxExpense(e, f)
    \/ \E e \in ExpenseIds : CountReceipts(e)
    \/ \E u \in uploads : UploadTaxReceipt(u) \/ RefuseUpload(u)
    \/ \E t \in Templates :
         \/ UpdateTaxRecurring(t)
         \/ \E q \in Properties, from \in EntryDays, to \in {0} \cup EntryDays, amount \in TaxAmounts :
               CreateTaxRecurring(t, q, from, to, amount)

AssetNext ==
    \E a \in AssetIds, q \in Properties, from \in TaxDays, to \in {0} \cup TaxDays,
       basis \in Bases, life \in Lives, half \in BOOLEAN :
          CreateTaxAsset(a, q, from, to, basis, life, half)

YearNext == NextTaxDay \/ \E y \in TaxYears : LockTaxYear(y) \/ UnlockTaxYear(y)

TaxNext == IncomeNext \/ ExpenseNext \/ AssetNext \/ YearNext

TaxSpec == TaxInit /\ [][TaxNext]_taxVars

----------------------------------------------------------------------------
\* Every row has its shape; a reversal names a booked expense of the same
\* amount, and an asset is disposed after it was put into service.
TaxTypeOK ==
    /\ taxDay \in TaxDays /\ closedYears \subseteq TaxYears
    /\ erasing \subseteq payers /\ payers \subseteq Payers
    /\ \A i \in Income :
         /\ income[i].paid \in TaxDays /\ income[i].received \in {0} \cup TaxDays
         /\ income[i].settled \in SettledPeriods /\ income[i].property \in Properties
         /\ income[i].payer \in payers
    /\ \A e \in Expenses :
         /\ expense[e].reverses # 0 =>
              /\ expense[e].reverses \in Expenses /\ expense[expense[e].reverses].reverses = 0
              /\ expense[expense[e].reverses].amount = expense[e].amount
         /\ expense[e].template \in Templates \cup {"none"}
    /\ \A u \in uploads : u.expense \in Expenses /\ u.seen <= expense[u.expense].receipts

\* A payment counts in exactly one year by the 15-day rule: the window from 17
\* December to 15 January never misses one, and no two years claim one
\* (buildTaxYearReport).
CountedInOneYear ==
    \A i \in Live : RuleYear(income[i]) \in TaxYears =>
        { y \in TaxYears : i \in ByRule(y) } = {RuleYear(income[i])}

\* What a year's report shows does not change while the year stays locked,
\* by either rule for income, in its expenses, depreciation and receipts
\* (LockTaxYear, "prevents further ledger changes for one tax year").
LockedYearStands ==
    [][\A y \in closedYears \cap closedYears' : Report(y)' = Report(y)]_taxVars

\* What annualTaxDepreciation says of itself: the final year is capped "so
\* rounding or the half-year rule can never exceed the original basis".
DepreciatedWithinBasis == \A a \in Assets : Depreciated(asset[a]) <= asset[a].basis

\* What DeletePerson says of itself: a person with a booked payment would have
\* it "silently wiped on delete - block that".
PaymentsAreKept == [][\A i \in Income : income'[i] # NoRow]_taxVars
==============================================================================
