--------------------------- MODULE RecordsProofs ----------------------------
(***************************************************************************)
(* Machine-checked theorems about TaxBook, for every set of rows, years and *)
(* properties; about Overview, for every set of readers and writers and     *)
(* every time limit; and about Yard, for every set of vehicles, pauses,     *)
(* spots and days (that paid days are never lost: for one start day).       *)
(***************************************************************************)
EXTENDS TaxBook, Overview, Yard, Integers, FiniteSetTheorems, WellFoundedInduction, TLAPS

-----------------------------------------------------------------------------
(* The tax book.                                                            *)

\* Rows that were written.
IncomeRow ==
    [id : IncomeIds, payer : Payers, auto : BOOLEAN, paid : TaxDays, received : {0} \cup TaxDays,
     settled : SettledPeriods, property : Properties, amount : TaxAmounts, reversed : BOOLEAN]
ExpenseRow ==
    [id : ExpenseIds, property : Properties, paid : TaxDays, amount : TaxAmounts,
     reverses : ExpenseIds \cup {0}, template : Templates \cup {"none"}, receipts : Nat]
TemplateRow ==
    [id : {1}, property : Properties, from : TaxDays, to : {0} \cup TaxDays, amount : TaxAmounts, active : BOOLEAN]
AssetRow ==
    [id : AssetIds, property : Properties, from : TaxDays, to : {0} \cup TaxDays, basis : Bases,
     life : Lives, half : BOOLEAN]

\* The tables: a row is as it was written, or there is none.
BookRows ==
    /\ taxDay \in TaxDays /\ closedYears \subseteq TaxYears
    /\ income \in [IncomeIds -> IncomeRow \cup {NoRow}]
    /\ expense \in [ExpenseIds -> ExpenseRow \cup {NoRow}]
    /\ template \in [Templates -> TemplateRow \cup {NoRow}]
    /\ asset \in [AssetIds -> AssetRow \cup {NoRow}]
    /\ payers \subseteq Payers /\ erasing \subseteq payers
    /\ \A i \in Income : income[i].payer \in payers
    /\ uploads \subseteq [slot : 1 .. MaxUploads, expense : ExpenseIds, seen : Nat]
    /\ \A u \in uploads : u.expense \in Expenses /\ u.seen <= expense[u.expense].receipts

\* A row is no missing row.
LEMMA RowsExist == /\ NoRow \notin IncomeRow /\ NoRow \notin ExpenseRow
                   /\ NoRow \notin TemplateRow /\ NoRow \notin AssetRow
BY DEF NoRow, IncomeRow, ExpenseRow, TemplateRow, AssetRow

\* The calendar: a day is in its year, and the years are those of the days.
LEMMA Calendar ==
    \A d \in TaxDays : /\ TaxYear(d) \in TaxYears
                       /\ FirstDay(TaxYear(d)) <= d /\ d <= LastDay(TaxYear(d))
BY TaxAssumption DEF TaxAssumption, TaxDays, TaxYears, TaxYear, FirstDay, LastDay

\* A payment is a payment, and its day is one of the calendar.
LEMMA IncomeFacts ==
    ASSUME NEW p \in IncomeRow
    PROVE  /\ Effective(p) \in TaxDays /\ p.paid \in TaxDays /\ p.settled \in SettledPeriods
           /\ p.reversed \in BOOLEAN
BY DEF IncomeRow, Effective

\* The rule leaves a payment in its year or moves it over the nearest New Year.
LEMMA RuleMoves ==
    ASSUME NEW d \in TaxDays, NEW s \in SettledPeriods
    PROVE  \/ TaxRuleYear(d, s) = TaxYear(d)
           \/ TaxRuleYear(d, s) = TaxYear(d) - 1 /\ NewYear(d)
           \/ TaxRuleYear(d, s) = TaxYear(d) + 1 /\ YearEnd(d)
BY DEF TaxRuleYear

\* The report of the year a payment counts in loads it.
LEMMA RuleYearLoads ==
    ASSUME NEW p \in IncomeRow
    PROVE  Effective(p) \in Window(RuleYear(p))
<1>. DEFINE d == Effective(p)
            y == TaxYear(d)
            r == RuleYear(p)
<1>1. d \in TaxDays /\ p.settled \in SettledPeriods
  BY IncomeFacts
<1>2. \/ r = y \/ (r = y - 1 /\ NewYear(d)) \/ (r = y + 1 /\ YearEnd(d))
  BY <1>1, RuleMoves DEF RuleYear
<1>3. y \in TaxYears /\ 3 * y - 2 <= d /\ d <= 3 * y
  BY <1>1, Calendar DEF FirstDay, LastDay
<1>4. d \in Int /\ y \in Int
  BY <1>1, <1>3, TaxAssumption DEF TaxDays, TaxYears, TaxAssumption
<1>5. NewYear(d) <=> d = 3 * y - 2
  BY DEF NewYear, FirstDay
<1>6. YearEnd(d) <=> d = 3 * y
  BY DEF YearEnd, LastDay
<1>. HIDE DEF d, y, r
<1>7. 3 * (r - 1) <= d /\ d <= 3 * (r + 1) - 2
  BY <1>2, <1>3, <1>4, <1>5, <1>6
<1>8. d \in Window(r)
  BY <1>7, <1>4 DEF Window, LastDay, FirstDay
<1>. QED BY <1>8 DEF d, r

\* Whatever moves it, a payment counts in the year of its rule and in no other.
LEMMA CountedOnce == BookRows => CountedInOneYear
<1>. SUFFICES ASSUME BookRows, NEW i \in Live, RuleYear(income[i]) \in TaxYears
              PROVE  { y \in TaxYears : i \in ByRule(y) } = {RuleYear(income[i])}
  BY DEF CountedInOneYear
<1>1. income[i] \in IncomeRow
  BY DEF BookRows, Live, Income
<1>2. Effective(income[i]) \in Window(RuleYear(income[i]))
  BY <1>1, RuleYearLoads
<1>3. i \in ByRule(RuleYear(income[i]))
  BY <1>2 DEF ByRule, Loaded
<1>. QED BY <1>3 DEF ByRule

-----------------------------------------------------------------------------
\* A set of natural numbers has a least one.
LEMMA LeastOf == ASSUME NEW B \in SUBSET Nat, B # {} PROVE \E n \in B : \A m \in B : n <= m
<1>1. IsWellFoundedOn(OpToRel(<, Nat), Nat)
  BY NatLessThanWellFounded
<1>2. PICK n \in B : \A m \in B : ~(<<m, n>> \in OpToRel(<, Nat))
  BY <1>1, WFMin
<1>3. \A m \in B : ~(m < n)
  BY <1>2 DEF OpToRel
<1>. QED BY <1>3

\* Payments go to a property that exists.
LEMMA MinOfProperties == DefaultProperty \in Properties
<1>1. PICK m \in Properties : \A q \in Properties : m <= q
  <2>1. Properties \in SUBSET Nat /\ Properties # {}
    BY TaxAssumption DEF TaxAssumption
  <2>. QED BY <2>1, LeastOf
<1>. QED BY <1>1 DEF DefaultProperty, Min

\* A booked payment.
LEMMA IncomeBooked ==
    ASSUME BookRows, NEW i \in IncomeIds, NEW p \in payers, NEW auto \in BOOLEAN, NEW day \in TaxDays,
           NEW settled \in SettledPeriods, NEW amount \in TaxAmounts, NewIncome(i, p, auto, day, settled, amount)
    PROVE  BookRows'
<1>. DEFINE new == [id |-> i, payer |-> p, auto |-> auto, paid |-> day, received |-> 0,
                    settled |-> settled, property |-> DefaultProperty, amount |-> amount, reversed |-> FALSE]
<1>1. DefaultProperty \in Properties
  BY MinOfProperties
<1>2. new \in IncomeRow
  BY <1>1 DEF IncomeRow, BookRows
<1>3. income' = [income EXCEPT ![i] = new] /\ UNCHANGED <<taxDay, closedYears, expense, template, asset, payers, erasing, uploads>>
  BY DEF NewIncome
<1>4. income' \in [IncomeIds -> IncomeRow \cup {NoRow}]
  BY <1>2, <1>3 DEF BookRows
<1>5. new.payer = p
  OBVIOUS
<1>. HIDE DEF new
<1>6. \A j \in Income' : income'[j].payer \in payers'
  BY <1>3, <1>5 DEF BookRows, Income
<1>. QED BY <1>3, <1>4, <1>6 DEF BookRows, Expenses

\* Payments that change, and stay their payer's.
LEMMA IncomeChanged ==
    ASSUME BookRows, NEW i \in Income, NEW new \in IncomeRow, new.payer = income[i].payer,
           income' = [income EXCEPT ![i] = new],
           UNCHANGED <<taxDay, closedYears, expense, template, asset, payers, erasing, uploads>>
    PROVE  BookRows'
<1>1. i \in IncomeIds /\ income' \in [IncomeIds -> IncomeRow \cup {NoRow}]
  BY DEF BookRows, Income
<1>2. \A j \in Income' : income'[j].payer \in payers'
  BY <1>1 DEF BookRows, Income
<1>. QED BY <1>1, <1>2 DEF BookRows, Expenses

\* Every step on the income.
LEMMA IncomeStep == BookRows /\ IncomeNext => BookRows'
<1>. SUFFICES ASSUME BookRows, IncomeNext PROVE BookRows'
  OBVIOUS
<1>1. ASSUME NEW i \in IncomeIds, NEW p \in Payers, NEW amount \in TaxAmounts, NEW day \in TaxDays,
             ReceivePayment(i, p, day, amount)
      PROVE  BookRows'
  BY <1>1, IncomeBooked DEF ReceivePayment, NewIncome, SettledPeriods
<1>2. ASSUME NEW i \in IncomeIds, NEW p \in Payers, NEW amount \in TaxAmounts, NEW settled \in SettledPeriods,
             SettleBySlider(i, p, settled, amount)
      PROVE  BookRows'
  <2>1. p \in payers /\ taxDay \in TaxDays /\ NewIncome(i, p, TRUE, taxDay, settled, amount)
    BY <1>2 DEF SettleBySlider, NewIncome, BookRows
  <2>. QED BY <2>1, IncomeBooked
<1>3. ASSUME NEW i \in IncomeIds, ReverseIncome(i) PROVE BookRows'
  <2>1. i \in Income /\ income[i] \in IncomeRow
    BY <1>3 DEF ReverseIncome, Live, Income, BookRows
  <2>2. [income[i] EXCEPT !.reversed = TRUE] \in IncomeRow /\ [income[i] EXCEPT !.reversed = TRUE].payer = income[i].payer
    BY <2>1 DEF IncomeRow
  <2>3. income' = [income EXCEPT ![i] = [income[i] EXCEPT !.reversed = TRUE]]
    BY <1>3 DEF ReverseIncome
  <2>. QED BY <1>3, <2>1, <2>2, <2>3, IncomeChanged DEF ReverseIncome
<1>4. ASSUME NEW i \in IncomeIds, NEW received \in {0} \cup TaxDays, NEW q \in Properties,
             UpdatePaymentTaxMetadata(i, received, q)
      PROVE  BookRows'
  <2>1. i \in Income /\ income[i] \in IncomeRow
    BY <1>4 DEF UpdatePaymentTaxMetadata, Income, BookRows
  <2>2. /\ [income[i] EXCEPT !.received = received, !.property = q] \in IncomeRow
        /\ [income[i] EXCEPT !.received = received, !.property = q].payer = income[i].payer
    BY <2>1 DEF IncomeRow
  <2>. QED BY <1>4, <2>1, <2>2, IncomeChanged DEF UpdatePaymentTaxMetadata
<1>5. ASSUME NEW p \in Payers, LookForPayments(p) \/ KeepPerson(p) PROVE BookRows'
  BY <1>5 DEF LookForPayments, KeepPerson, BookRows, ledgerVars, Income, Expenses
<1>6. ASSUME NEW p \in Payers, DeletePerson(p) PROVE BookRows'
  <2>1. /\ income' = [i \in IncomeIds |-> IF i \in PaymentsOf(p) THEN NoRow ELSE income[i]]
        /\ payers' = payers \ {p} /\ erasing' = erasing \ {p}
        /\ UNCHANGED <<taxDay, closedYears, expense, template, asset, uploads>>
    BY <1>6 DEF DeletePerson
  <2>2. income' \in [IncomeIds -> IncomeRow \cup {NoRow}]
    BY <2>1 DEF BookRows
  <2>3. \A j \in Income' : income'[j].payer \in payers'
    BY <2>1 DEF BookRows, Income, PaymentsOf
  <2>. QED BY <2>1, <2>2, <2>3 DEF BookRows, Expenses
<1>. QED BY <1>1, <1>2, <1>3, <1>4, <1>5, <1>6 DEF IncomeNext

\* A new expense is one more row.
LEMMA ExpenseInserted ==
    ASSUME BookRows, NEW e \in ExpenseIds, NEW new \in ExpenseRow, InsertExpense(e, new)
    PROVE  BookRows'
<1>1. expense' = [expense EXCEPT ![e] = new]
      /\ UNCHANGED <<taxDay, closedYears, income, template, asset, payers, erasing, uploads>> /\ expense[e] = NoRow
  BY DEF InsertExpense
<1>2. expense' \in [ExpenseIds -> ExpenseRow \cup {NoRow}]
  BY <1>1 DEF BookRows
<1>3. \A u \in uploads : u.expense \in Expenses' /\ u.seen <= expense'[u.expense].receipts
  BY <1>1 DEF BookRows, Expenses
<1>. QED BY <1>1, <1>2, <1>3 DEF BookRows, Income

\* Every step on the expenses.
LEMMA ExpenseStep == BookRows /\ ExpenseNext => BookRows'
<1>. SUFFICES ASSUME BookRows, ExpenseNext PROVE BookRows'
  OBVIOUS
<1>0. EntryDays \subseteq TaxDays
  BY TaxAssumption DEF TaxAssumption, TaxDays
<1>1. ASSUME NEW e \in ExpenseIds, NEW day \in EntryDays, NEW q \in Properties, NEW amount \in TaxAmounts,
             CreateTaxExpense(e, q, day, amount)
      PROVE  BookRows'
  <2>. DEFINE new == [id |-> e, property |-> q, paid |-> day, amount |-> amount, reverses |-> 0,
                      template |-> "none", receipts |-> 0]
  <2>1. new \in ExpenseRow
    BY <1>0 DEF ExpenseRow
  <2>. QED BY <1>1, <2>1, ExpenseInserted DEF CreateTaxExpense
<1>2. ASSUME NEW e \in ExpenseIds, NEW day \in EntryDays, NEW t \in Templates, BookTaxRecurring(t, e, day)
      PROVE  BookRows'
  <2>1. template[t] \in TemplateRow
    BY <1>2 DEF BookTaxRecurring, BookRows
  <2>. DEFINE new == [id |-> e, property |-> template[t].property, paid |-> day, amount |-> template[t].amount,
                      reverses |-> 0, template |-> t, receipts |-> 0]
  <2>2. new \in ExpenseRow
    BY <1>0, <2>1 DEF ExpenseRow, TemplateRow
  <2>. QED BY <1>2, <2>2, ExpenseInserted DEF BookTaxRecurring
<1>3. ASSUME NEW e \in ExpenseIds, NEW f \in ExpenseIds, ReverseTaxExpense(e, f) PROVE BookRows'
  <2>1. expense[e] \in ExpenseRow
    BY <1>3 DEF ReverseTaxExpense, Expenses, BookRows
  <2>2. [expense[e] EXCEPT !.id = f, !.reverses = e, !.template = "none", !.receipts = 0] \in ExpenseRow
    BY <2>1 DEF ExpenseRow
  <2>. QED BY <1>3, <2>2, ExpenseInserted DEF ReverseTaxExpense
<1>4. ASSUME NEW e \in ExpenseIds, CountReceipts(e) PROVE BookRows'
  <2>1. expense[e] \in ExpenseRow /\ e \in Expenses
    BY <1>4 DEF CountReceipts, Expenses, BookRows
  <2>2. expense[e].receipts \in Nat
    BY <2>1 DEF ExpenseRow
  <2>3. PICK n \in 1 .. MaxUploads : uploads' = uploads \cup {[slot |-> n, expense |-> e, seen |-> expense[e].receipts]}
    BY <1>4 DEF CountReceipts
  <2>4. UNCHANGED <<taxDay, closedYears, income, expense, template, asset, payers, erasing>>
    BY <1>4 DEF CountReceipts, ledgerVars
  <2>5. uploads' \subseteq [slot : 1 .. MaxUploads, expense : ExpenseIds, seen : Nat]
    BY <2>2, <2>3 DEF BookRows
  <2>6. \A u \in uploads' : u.expense \in Expenses /\ u.seen <= expense[u.expense].receipts
    BY <2>1, <2>2, <2>3 DEF BookRows
  <2>. QED BY <2>4, <2>5, <2>6 DEF BookRows, Income, Expenses
<1>5. ASSUME NEW u \in uploads, UploadTaxReceipt(u) PROVE BookRows'
  <2>1. u.expense \in Expenses /\ u.expense \in ExpenseIds /\ expense[u.expense] \in ExpenseRow
    BY DEF BookRows, Expenses
  <2>. DEFINE new == [expense[u.expense] EXCEPT !.receipts = expense[u.expense].receipts + 1]
  <2>2. new \in ExpenseRow /\ new.receipts = expense[u.expense].receipts + 1 /\ expense[u.expense].receipts \in Nat
    BY <2>1 DEF ExpenseRow
  <2>3. expense' = [expense EXCEPT ![u.expense] = new] /\ uploads' \subseteq uploads
        /\ UNCHANGED <<taxDay, closedYears, income, template, asset, payers, erasing>>
    BY <1>5 DEF UploadTaxReceipt
  <2>. HIDE DEF new
  <2>4. expense' \in [ExpenseIds -> ExpenseRow \cup {NoRow}]
    BY <2>1, <2>2, <2>3 DEF BookRows
  <2>5. ASSUME NEW w \in uploads' PROVE w.expense \in Expenses' /\ w.seen <= expense'[w.expense].receipts
    <3>1. w \in uploads /\ w.expense \in Expenses /\ w.seen <= expense[w.expense].receipts /\ w.seen \in Nat /\ w.expense \in ExpenseIds
      BY <2>3 DEF BookRows
    <3>2. CASE w.expense = u.expense
      BY <2>1, <2>2, <2>3, <3>1, <3>2, RowsExist DEF BookRows, Expenses
    <3>3. CASE w.expense # u.expense
      BY <2>1, <2>3, <3>1, <3>3 DEF BookRows, Expenses
    <3>. QED BY <3>2, <3>3
  <2>. QED BY <2>3, <2>4, <2>5 DEF BookRows, Income
<1>6. ASSUME NEW u \in uploads, RefuseUpload(u) PROVE BookRows'
  BY <1>6 DEF RefuseUpload, BookRows, ledgerVars, Income, Expenses
<1>7. ASSUME NEW t \in Templates, UpdateTaxRecurring(t) PROVE BookRows'
  <2>1. template[t] \in TemplateRow
    BY <1>7 DEF UpdateTaxRecurring, BookRows
  <2>2. [template[t] EXCEPT !.active = ~template[t].active] \in TemplateRow
    BY <2>1 DEF TemplateRow
  <2>3. template' = [template EXCEPT ![t] = [template[t] EXCEPT !.active = ~template[t].active]]
    BY <1>7 DEF UpdateTaxRecurring
  <2>. QED BY <1>7, <2>2, <2>3 DEF UpdateTaxRecurring, BookRows, Income, Expenses
<1>8. ASSUME NEW t \in Templates, NEW q \in Properties, NEW from \in EntryDays, NEW to \in {0} \cup EntryDays,
             NEW amount \in TaxAmounts, CreateTaxRecurring(t, q, from, to, amount)
      PROVE  BookRows'
  <2>1. [id |-> 1, property |-> q, from |-> from, to |-> to, amount |-> amount, active |-> TRUE] \in TemplateRow
    BY <1>0 DEF TemplateRow
  <2>. QED BY <1>8, <2>1 DEF CreateTaxRecurring, BookRows, Income, Expenses
<1>. QED BY <1>1, <1>2, <1>3, <1>4, <1>5, <1>6, <1>7, <1>8 DEF ExpenseNext

\* The tables keep their rows in every step.
LEMMA BookRowsStep == BookRows /\ [TaxNext]_taxVars => BookRows'
<1>. SUFFICES ASSUME BookRows, [TaxNext]_taxVars PROVE BookRows'
  OBVIOUS
<1>1. ASSUME NEW a \in AssetIds, NEW q \in Properties, NEW from \in TaxDays, NEW to \in {0} \cup TaxDays,
             NEW basis \in Bases, NEW life \in Lives, NEW half \in BOOLEAN, CreateTaxAsset(a, q, from, to, basis, life, half)
      PROVE  BookRows'
  <2>1. [id |-> a, property |-> q, from |-> from, to |-> to, basis |-> basis, life |-> life, half |-> half] \in AssetRow
    BY DEF AssetRow
  <2>. QED BY <1>1, <2>1 DEF CreateTaxAsset, BookRows, Income, Expenses
<1>2. CASE YearNext
  <2>1. taxDay' \in TaxDays /\ closedYears' \subseteq TaxYears
    BY <1>2, TaxAssumption DEF YearNext, NextTaxDay, LockTaxYear, UnlockTaxYear, BookRows, TaxDays, TaxAssumption
  <2>2. UNCHANGED <<income, expense, template, asset, payers, erasing, uploads>>
    BY <1>2 DEF YearNext, NextTaxDay, LockTaxYear, UnlockTaxYear, ledgerVars
  <2>. QED BY <2>1, <2>2 DEF BookRows, Income, Expenses
<1>3. CASE UNCHANGED taxVars
  BY <1>3 DEF taxVars, ledgerVars, BookRows, Income, Expenses
<1>. QED BY <1>1, <1>2, <1>3, IncomeStep, ExpenseStep DEF TaxNext, AssetNext

\* The empty book.
LEMMA BookStarts == TaxInit => BookRows
<1>1. 1 \in TaxDays
  BY TaxAssumption DEF TaxAssumption, TaxDays
<1>. QED BY <1>1 DEF TaxInit, BookRows, Income, Expenses

\* The rows keep their form.
LEMMA BookHolds == TaxSpec => []BookRows
BY BookStarts, BookRowsStep, PTL DEF TaxSpec

\* A payment counts in exactly one year by the 15-day rule, and its report loads it.
THEOREM EveryPaymentCounts == TaxSpec => []CountedInOneYear
BY BookHolds, CountedOnce, PTL

\* A reversal names a booked expense of the same amount that is none itself.
Names(rows, e) == rows[e].reverses # 0 =>
    /\ rows[e].reverses \in ExpenseIds /\ rows[rows[e].reverses] # NoRow
    /\ rows[rows[e].reverses].reverses = 0 /\ rows[rows[e].reverses].amount = rows[e].amount
ReversalsNamed == \A e \in Expenses : Names(expense, e)

\* An expense that is inserted leaves the others alone.
LEMMA ReversalInserted ==
    ASSUME BookRows, ReversalsNamed, NEW f \in ExpenseIds, NEW new \in ExpenseRow, InsertExpense(f, new),
           new.reverses # 0 => /\ new.reverses \in Expenses /\ expense[new.reverses].reverses = 0
                               /\ expense[new.reverses].amount = new.amount
    PROVE  ReversalsNamed'
<1>1. expense[f] = NoRow /\ expense' = [expense EXCEPT ![f] = new] /\ expense \in [ExpenseIds -> ExpenseRow \cup {NoRow}]
  BY DEF InsertExpense, BookRows
<1>2. \A e \in Expenses : e \in ExpenseIds /\ e # f /\ expense'[e] = expense[e] /\ expense[e] # NoRow
  BY <1>1 DEF Expenses
<1>3. expense'[f] = new /\ \A e \in Expenses' : e \in Expenses \/ e = f
  BY <1>1 DEF Expenses
<1>4. ASSUME NEW e \in Expenses PROVE Names(expense', e)
  <2>1. Names(expense, e)
    BY DEF ReversalsNamed
  <2>2. CASE expense[e].reverses = 0
    BY <1>2, <2>2 DEF Names
  <2>3. CASE expense[e].reverses # 0
    <3>1. expense[e].reverses \in Expenses
      BY <2>1, <2>3 DEF Names, Expenses
    <3>. QED BY <1>2, <2>1, <2>3, <3>1 DEF Names
  <2>. QED BY <2>2, <2>3
<1>5. Names(expense', f)
  BY <1>2, <1>3 DEF Names
<1>. QED BY <1>3, <1>4, <1>5 DEF ReversalsNamed

\* So does every step.
LEMMA ReversalsStay ==
    ASSUME BookRows, ReversalsNamed, [TaxNext]_taxVars
    PROVE  ReversalsNamed'
<1>0. ASSUME UNCHANGED expense PROVE ReversalsNamed'
  BY <1>0 DEF ReversalsNamed, Names, Expenses
<1>1. ASSUME NEW e \in ExpenseIds, NEW day \in EntryDays, NEW q \in Properties, NEW amount \in TaxAmounts,
             CreateTaxExpense(e, q, day, amount)
      PROVE  ReversalsNamed'
  <2>. DEFINE new == [id |-> e, property |-> q, paid |-> day, amount |-> amount, reverses |-> 0,
                      template |-> "none", receipts |-> 0]
  <2>1. new \in ExpenseRow
    BY TaxAssumption DEF TaxAssumption, TaxDays, ExpenseRow
  <2>. QED BY <1>1, <2>1, ReversalInserted DEF CreateTaxExpense
<1>2. ASSUME NEW e \in ExpenseIds, NEW day \in EntryDays, NEW t \in Templates, BookTaxRecurring(t, e, day)
      PROVE  ReversalsNamed'
  <2>1. template[t] \in TemplateRow
    BY <1>2 DEF BookTaxRecurring, BookRows
  <2>. DEFINE new == [id |-> e, property |-> template[t].property, paid |-> day, amount |-> template[t].amount,
                      reverses |-> 0, template |-> t, receipts |-> 0]
  <2>2. new \in ExpenseRow
    BY <2>1, TaxAssumption DEF TaxAssumption, TaxDays, ExpenseRow, TemplateRow
  <2>. QED BY <1>2, <2>2, ReversalInserted DEF BookTaxRecurring
<1>3. ASSUME NEW e \in ExpenseIds, NEW f \in ExpenseIds, ReverseTaxExpense(e, f) PROVE ReversalsNamed'
  <2>1. expense[e] \in ExpenseRow /\ e \in Expenses /\ expense[e].reverses = 0
    BY <1>3 DEF ReverseTaxExpense, Expenses, BookRows
  <2>. DEFINE new == [expense[e] EXCEPT !.id = f, !.reverses = e, !.template = "none", !.receipts = 0]
  <2>2. new \in ExpenseRow /\ new.reverses = e /\ new.amount = expense[e].amount
    BY <2>1 DEF ExpenseRow
  <2>3. InsertExpense(f, new)
    BY <1>3 DEF ReverseTaxExpense
  <2>. HIDE DEF new
  <2>. QED BY <2>1, <2>2, <2>3, ReversalInserted
<1>4. ASSUME NEW u \in uploads, UploadTaxReceipt(u) PROVE ReversalsNamed'
  <2>1. u.expense \in ExpenseIds /\ expense[u.expense] \in ExpenseRow
    BY DEF BookRows, Expenses
  <2>. DEFINE new == [expense[u.expense] EXCEPT !.receipts = expense[u.expense].receipts + 1]
  <2>2. new \in ExpenseRow /\ new.reverses = expense[u.expense].reverses /\ new.amount = expense[u.expense].amount
    <3>1. expense[u.expense].receipts + 1 \in Nat
      BY <2>1 DEF ExpenseRow
    <3>. QED BY <2>1, <3>1 DEF ExpenseRow
  <2>3. expense' = [expense EXCEPT ![u.expense] = new] /\ expense \in [ExpenseIds -> ExpenseRow \cup {NoRow}]
    BY <1>4 DEF UploadTaxReceipt, BookRows
  <2>. HIDE DEF new
  <2>4. \A e \in ExpenseIds : /\ expense'[e] = NoRow <=> expense[e] = NoRow
                              /\ expense'[e].reverses = expense[e].reverses /\ expense'[e].amount = expense[e].amount
    BY <2>1, <2>2, <2>3, RowsExist
  <2>5. Expenses' = Expenses
    BY <2>4 DEF Expenses
  <2>6. ASSUME NEW e \in Expenses PROVE Names(expense', e)
    <3>1. Names(expense, e) /\ e \in ExpenseIds
      BY DEF ReversalsNamed, Expenses
    <3>. QED BY <2>4, <3>1 DEF Names
  <2>. QED BY <2>5, <2>6 DEF ReversalsNamed
<1>5. CASE IncomeNext \/ AssetNext \/ YearNext \/ UNCHANGED taxVars
  BY <1>0, <1>5 DEF IncomeNext, ReceivePayment, SettleBySlider, NewIncome, ReverseIncome, UpdatePaymentTaxMetadata,
      LookForPayments, DeletePerson, KeepPerson, AssetNext, CreateTaxAsset, YearNext, NextTaxDay, LockTaxYear, UnlockTaxYear,
      taxVars, ledgerVars
<1>6. CASE ExpenseNext
  BY <1>0, <1>1, <1>2, <1>3, <1>4, <1>6 DEF ExpenseNext, CountReceipts, RefuseUpload, UpdateTaxRecurring, CreateTaxRecurring,
      ledgerVars
<1>. QED BY <1>5, <1>6 DEF TaxNext

\* Every row of the tax book has its form, the payers of the payments exist, and a reversal names a
\* booked expense of its amount that is not a reversal itself (ReverseTaxExpense).
THEOREM TaxTypes == TaxSpec => []TaxTypeOK
<1>1. TaxInit => ReversalsNamed
  BY DEF TaxInit, ReversalsNamed, Expenses
<1>2. BookRows /\ ReversalsNamed => TaxTypeOK
  <2>. SUFFICES ASSUME BookRows, ReversalsNamed PROVE TaxTypeOK
    OBVIOUS
  <2>1. ASSUME NEW i \in Income
        PROVE  /\ income[i].paid \in TaxDays /\ income[i].received \in {0} \cup TaxDays
               /\ income[i].settled \in SettledPeriods /\ income[i].property \in Properties
               /\ income[i].payer \in payers
    <3>1. income[i] \in IncomeRow /\ income[i].payer \in payers
      BY DEF BookRows, Income
    <3>. QED BY <3>1 DEF IncomeRow
  <2>2. ASSUME NEW e \in Expenses
        PROVE  /\ expense[e].reverses # 0 =>
                    /\ expense[e].reverses \in Expenses /\ expense[expense[e].reverses].reverses = 0
                    /\ expense[expense[e].reverses].amount = expense[e].amount
               /\ expense[e].template \in Templates \cup {"none"}
    <3>1. expense[e] \in ExpenseRow /\ Names(expense, e)
      BY DEF BookRows, Expenses, ReversalsNamed
    <3>. QED BY <3>1 DEF ExpenseRow, Names, Expenses
  <2>. QED BY <2>1, <2>2 DEF TaxTypeOK, BookRows
<1>. QED BY <1>1, <1>2, BookStarts, BookRowsStep, ReversalsStay, PTL DEF TaxSpec

-----------------------------------------------------------------------------
\* A payment shows in the report of a year, by its date, by the rule or as taken back.
Shows(p, y) ==
    /\ p # NoRow
    /\ TaxYear(Effective(p)) = y \/ (~p.reversed /\ RuleYear(p) = y)

\* The parts of a report.
ByDateOf(y, q)   == { income[i] : i \in { j \in ByDate(y) : income[j].property = q } }
ByRuleOf(y, q)   == { income[i] : i \in { j \in ByRule(y) : income[j].property = q } }
StornoOf(y, q)   == { income[i] : i \in { j \in Stornos(y) : income[j].property = q } }
ExpenseOf(y, q)  == { expense[e] : e \in { f \in ExpensesOf(y) : expense[f].property = q } }
DepreciationOf(y, q) == { <<a, Takes(a, y)>> : a \in { b \in Assets : asset[b].property = q /\ Takes(b, y) # 0 } }

\* A report stays when every part of it stays.
LEMMA ReportParts ==
    ASSUME NEW y,
           \A q \in Properties : /\ ByDateOf(y, q)' = ByDateOf(y, q) /\ ByRuleOf(y, q)' = ByRuleOf(y, q)
                                 /\ StornoOf(y, q)' = StornoOf(y, q) /\ ExpenseOf(y, q)' = ExpenseOf(y, q)
                                 /\ DepreciationOf(y, q)' = DepreciationOf(y, q)
    PROVE  Report(y)' = Report(y)
<1>1. Report(y) = [ q \in Properties |-> [ byDate |-> ByDateOf(y, q), byRule |-> ByRuleOf(y, q), storno |-> StornoOf(y, q),
                                           expenses |-> ExpenseOf(y, q), afa |-> DepreciationOf(y, q) ] ]
  BY DEF Report, ByDateOf, ByRuleOf, StornoOf, ExpenseOf, DepreciationOf
<1>2. Report(y)' = [ q \in Properties |-> [ byDate |-> ByDateOf(y, q)', byRule |-> ByRuleOf(y, q)', storno |-> StornoOf(y, q)',
                                           expenses |-> ExpenseOf(y, q)', afa |-> DepreciationOf(y, q)' ] ]
  BY DEF Report, ByDateOf, ByRuleOf, StornoOf, ExpenseOf, DepreciationOf
<1>. QED BY <1>1, <1>2

\* Income that changes out of sight leaves the report as it is.
LEMMA IncomeStands ==
    ASSUME NEW y, \A i \in IncomeIds : income'[i] = income[i] \/ (~Shows(income[i], y) /\ ~Shows(income'[i], y)),
           UNCHANGED <<expense, asset>>
    PROVE  Report(y)' = Report(y)
<1>1. ByDate(y)' = ByDate(y)
  BY DEF ByDate, Loaded, Live, Income, Shows
<1>2. ByRule(y)' = ByRule(y)
  BY DEF ByRule, Loaded, Live, Income, Shows
<1>3. Stornos(y)' = Stornos(y)
  BY DEF Stornos, Live, Income, Shows
<1>4. \A i \in ByDate(y) \cup ByRule(y) \cup Stornos(y) : income'[i] = income[i]
  BY DEF ByDate, ByRule, Stornos, Loaded, Live, Income, Shows
<1>5. ExpensesOf(y)' = ExpensesOf(y) /\ Assets' = Assets /\ \A a \in Assets : Takes(a, y)' = Takes(a, y)
  BY DEF ExpensesOf, Expenses, Assets, Takes
<1>6. ASSUME NEW q \in Properties
      PROVE  /\ ByDateOf(y, q)' = ByDateOf(y, q) /\ ByRuleOf(y, q)' = ByRuleOf(y, q) /\ StornoOf(y, q)' = StornoOf(y, q)
             /\ ExpenseOf(y, q)' = ExpenseOf(y, q) /\ DepreciationOf(y, q)' = DepreciationOf(y, q)
  <2>1. ByDateOf(y, q)' = ByDateOf(y, q)
    BY <1>1, <1>4 DEF ByDateOf
  <2>2. ByRuleOf(y, q)' = ByRuleOf(y, q)
    BY <1>2, <1>4 DEF ByRuleOf
  <2>3. StornoOf(y, q)' = StornoOf(y, q)
    BY <1>3, <1>4 DEF StornoOf
  <2>4. ExpenseOf(y, q)' = ExpenseOf(y, q)
    BY <1>5 DEF ExpenseOf
  <2>5. DepreciationOf(y, q)' = DepreciationOf(y, q)
    BY <1>5 DEF DepreciationOf
  <2>. QED BY <2>1, <2>2, <2>3, <2>4, <2>5
<1>. QED BY <1>6, ReportParts

\* Expenses that change in other years leave the report as it is.
LEMMA ExpensesStand ==
    ASSUME NEW y, \A e \in ExpenseIds : expense'[e] = expense[e] \/
                    /\ expense[e] = NoRow \/ TaxYear(expense[e].paid) # y
                    /\ expense'[e] = NoRow \/ TaxYear(expense'[e].paid) # y,
           UNCHANGED <<income, asset>>
    PROVE  Report(y)' = Report(y)
<1>1. ExpensesOf(y)' = ExpensesOf(y) /\ \A e \in ExpensesOf(y) : expense'[e] = expense[e]
  BY DEF ExpensesOf, Expenses
<1>2. ByDate(y)' = ByDate(y) /\ ByRule(y)' = ByRule(y) /\ Stornos(y)' = Stornos(y)
  BY DEF ByDate, ByRule, Stornos, Loaded, Live, Income
<1>5. Assets' = Assets /\ \A a \in Assets : Takes(a, y)' = Takes(a, y)
  BY DEF Assets, Takes
<1>6. ASSUME NEW q \in Properties
      PROVE  /\ ByDateOf(y, q)' = ByDateOf(y, q) /\ ByRuleOf(y, q)' = ByRuleOf(y, q) /\ StornoOf(y, q)' = StornoOf(y, q)
             /\ ExpenseOf(y, q)' = ExpenseOf(y, q) /\ DepreciationOf(y, q)' = DepreciationOf(y, q)
  <2>1. ByDateOf(y, q)' = ByDateOf(y, q) /\ ByRuleOf(y, q)' = ByRuleOf(y, q) /\ StornoOf(y, q)' = StornoOf(y, q)
    BY <1>2 DEF ByDateOf, ByRuleOf, StornoOf
  <2>2. ExpenseOf(y, q)' = ExpenseOf(y, q)
    BY <1>1 DEF ExpenseOf
  <2>3. DepreciationOf(y, q)' = DepreciationOf(y, q)
    BY <1>5 DEF DepreciationOf
  <2>. QED BY <2>1, <2>2, <2>3
<1>. QED BY <1>6, ReportParts

\* The years of a payment keep it out of sight of every other year.
LEMMA OutOfSight ==
    ASSUME NEW p, NEW y, y \notin YearsOfIncome(p)
    PROVE  ~Shows(p, y)
BY DEF YearsOfIncome, Shows

\* The report of a locked year under the steps on income.
LEMMA LockedIncome ==
    ASSUME BookRows, ~RacingErasure, NEW y \in closedYears, IncomeNext
    PROVE  Report(y)' = Report(y)
<1>0. ~Shows(NoRow, y)
  BY DEF Shows
<1>1. ASSUME NEW i \in IncomeIds, NEW p, NEW auto, NEW day, NEW settled, NEW amount,
             NewIncome(i, p, auto, day, settled, amount), TaxYear(day) # y, TaxRuleYear(day, settled) # y
      PROVE  Report(y)' = Report(y)
  <2>. DEFINE new == [id |-> i, payer |-> p, auto |-> auto, paid |-> day, received |-> 0,
                      settled |-> settled, property |-> DefaultProperty, amount |-> amount, reversed |-> FALSE]
  <2>1. income' = [income EXCEPT ![i] = new] /\ income[i] = NoRow /\ UNCHANGED <<expense, asset>>
    BY <1>1 DEF NewIncome
  <2>2. Effective(new) = day /\ RuleYear(new) = TaxRuleYear(day, settled)
    BY DEF Effective, RuleYear
  <2>3. ~Shows(new, y)
    BY <1>1, <2>2 DEF Shows
  <2>. HIDE DEF new
  <2>4. \A j \in IncomeIds : income'[j] = income[j] \/ (~Shows(income[j], y) /\ ~Shows(income'[j], y))
    BY <1>0, <2>1, <2>3 DEF BookRows
  <2>. QED BY <2>1, <2>4, IncomeStands
<1>2. ASSUME NEW i \in IncomeIds, NEW p \in Payers, NEW amount \in TaxAmounts, NEW day \in TaxDays,
             ReceivePayment(i, p, day, amount)
      PROVE  Report(y)' = Report(y)
  <2>1. TaxYear(day) # y /\ TaxRuleYear(day, NoPeriod) = TaxYear(day)
    BY <1>2 DEF ReceivePayment, YearsFree, TaxRuleYear, NoPeriod
  <2>. QED BY <1>1, <1>2, <2>1 DEF ReceivePayment
<1>3. ASSUME NEW i \in IncomeIds, NEW p \in Payers, NEW amount \in TaxAmounts, NEW settled \in SettledPeriods,
             SettleBySlider(i, p, settled, amount)
      PROVE  Report(y)' = Report(y)
  BY <1>1, <1>3 DEF SettleBySlider, YearsFree
<1>4. ASSUME NEW i \in Income, NEW new, income' = [income EXCEPT ![i] = new], UNCHANGED <<expense, asset>>,
             YearsFree(YearsOfIncome(income[i])), ~Shows(new, y)
      PROVE  Report(y)' = Report(y)
  <2>1. ~Shows(income[i], y)
    BY <1>4, OutOfSight DEF YearsFree
  <2>2. \A j \in IncomeIds : income'[j] = income[j] \/ (~Shows(income[j], y) /\ ~Shows(income'[j], y))
    BY <1>4, <2>1 DEF BookRows, Income
  <2>. QED BY <1>4, <2>2, IncomeStands
<1>5. ASSUME NEW i \in IncomeIds, ReverseIncome(i) PROVE Report(y)' = Report(y)
  <2>1. i \in Income /\ income[i] \in IncomeRow
    BY <1>5 DEF ReverseIncome, Live, Income, BookRows
  <2>. DEFINE new == [income[i] EXCEPT !.reversed = TRUE]
  <2>2. Effective(new) = Effective(income[i]) /\ new.reversed = TRUE
    BY <2>1 DEF Effective, IncomeRow
  <2>3. TaxYear(Effective(income[i])) # y
    BY <1>5 DEF ReverseIncome, YearsFree, YearsOfIncome
  <2>4. ~Shows(new, y)
    BY <2>2, <2>3 DEF Shows
  <2>. HIDE DEF new
  <2>5. income' = [income EXCEPT ![i] = new] /\ UNCHANGED <<expense, asset>> /\ YearsFree(YearsOfIncome(income[i]))
    BY <1>5 DEF ReverseIncome, new
  <2>. QED BY <1>4, <2>1, <2>4, <2>5
<1>6. ASSUME NEW i \in IncomeIds, NEW received \in {0} \cup TaxDays, NEW q \in Properties,
             UpdatePaymentTaxMetadata(i, received, q)
      PROVE  Report(y)' = Report(y)
  <2>. DEFINE new == [income[i] EXCEPT !.received = received, !.property = q]
  <2>1. /\ i \in Income /\ income' = [income EXCEPT ![i] = new] /\ UNCHANGED <<expense, asset>>
        /\ YearsFree(YearsOfIncome(income[i]) \cup YearsOfIncome(new))
    BY <1>6 DEF UpdatePaymentTaxMetadata
  <2>. HIDE DEF new
  <2>2. YearsFree(YearsOfIncome(income[i])) /\ y \notin YearsOfIncome(new)
    BY <2>1 DEF YearsFree
  <2>. QED BY <1>4, <2>1, <2>2, OutOfSight
<1>7. ASSUME NEW p \in Payers, LookForPayments(p) \/ KeepPerson(p) PROVE Report(y)' = Report(y)
  BY <1>7, IncomeStands DEF LookForPayments, KeepPerson, ledgerVars
<1>8. ASSUME NEW p \in Payers, DeletePerson(p) PROVE Report(y)' = Report(y)
  <2>1. PaymentsOf(p) = {}
    BY <1>8 DEF DeletePerson
  <2>2. \A i \in IncomeIds : income'[i] = income[i]
    BY <1>8, <2>1 DEF DeletePerson
  <2>. QED BY <1>8, <2>2, IncomeStands DEF DeletePerson
<1>. QED BY <1>2, <1>3, <1>5, <1>6, <1>7, <1>8 DEF IncomeNext

\* The report of a locked year under the steps on expenses.
LEMMA LockedExpenses ==
    ASSUME BookRows, NEW y \in closedYears, ExpenseNext
    PROVE  Report(y)' = Report(y)
<1>1. ASSUME NEW e \in ExpenseIds, NEW new, InsertExpense(e, new), TaxYear(new.paid) # y
      PROVE  Report(y)' = Report(y)
  BY <1>1, ExpensesStand DEF InsertExpense, BookRows
<1>2. ASSUME NEW e \in ExpenseIds, NEW day \in EntryDays, NEW q \in Properties, NEW amount \in TaxAmounts,
             CreateTaxExpense(e, q, day, amount)
      PROVE  Report(y)' = Report(y)
  <2>. DEFINE new == [id |-> e, property |-> q, paid |-> day, amount |-> amount, reverses |-> 0,
                      template |-> "none", receipts |-> 0]
  <2>1. new.paid = day /\ TaxYear(day) # y /\ InsertExpense(e, new)
    BY <1>2 DEF CreateTaxExpense, YearsFree
  <2>. HIDE DEF new
  <2>. QED BY <1>1, <2>1
<1>3. ASSUME NEW e \in ExpenseIds, NEW day \in EntryDays, NEW t \in Templates, BookTaxRecurring(t, e, day)
      PROVE  Report(y)' = Report(y)
  <2>. DEFINE new == [id |-> e, property |-> template[t].property, paid |-> day, amount |-> template[t].amount,
                      reverses |-> 0, template |-> t, receipts |-> 0]
  <2>1. new.paid = day /\ TaxYear(day) # y /\ InsertExpense(e, new)
    BY <1>3 DEF BookTaxRecurring, YearsFree
  <2>. HIDE DEF new
  <2>. QED BY <1>1, <2>1
<1>4. ASSUME NEW e \in ExpenseIds, NEW f \in ExpenseIds, ReverseTaxExpense(e, f) PROVE Report(y)' = Report(y)
  <2>1. expense[e] \in ExpenseRow
    BY <1>4 DEF ReverseTaxExpense, Expenses, BookRows
  <2>. DEFINE new == [expense[e] EXCEPT !.id = f, !.reverses = e, !.template = "none", !.receipts = 0]
  <2>2. new.paid = expense[e].paid
    BY <2>1 DEF ExpenseRow
  <2>3. TaxYear(expense[e].paid) # y /\ InsertExpense(f, new)
    BY <1>4 DEF ReverseTaxExpense, YearsFree
  <2>. HIDE DEF new
  <2>. QED BY <1>1, <2>2, <2>3
<1>5. ASSUME NEW u \in uploads, UploadTaxReceipt(u) PROVE Report(y)' = Report(y)
  <2>1. u.expense \in ExpenseIds /\ expense[u.expense] \in ExpenseRow
    BY DEF BookRows, Expenses
  <2>. DEFINE new == [expense[u.expense] EXCEPT !.receipts = expense[u.expense].receipts + 1]
  <2>2. new.paid = expense[u.expense].paid /\ TaxYear(expense[u.expense].paid) # y
    BY <1>5, <2>1 DEF ExpenseRow, UploadTaxReceipt, YearsFree
  <2>3. expense' = [expense EXCEPT ![u.expense] = new] /\ UNCHANGED <<income, asset>>
    BY <1>5 DEF UploadTaxReceipt
  <2>. HIDE DEF new
  <2>4. \A e \in ExpenseIds : e # u.expense => expense'[e] = expense[e]
    BY <2>3 DEF BookRows
  <2>5. expense'[u.expense] = new
    BY <2>1, <2>3 DEF BookRows
  <2>. QED BY <2>2, <2>3, <2>4, <2>5, ExpensesStand
<1>6. ASSUME \/ \E u \in uploads : RefuseUpload(u)
             \/ \E e \in ExpenseIds : CountReceipts(e)
             \/ \E t \in Templates : \/ UpdateTaxRecurring(t)
                                     \/ \E q \in Properties, from \in EntryDays, to \in {0} \cup EntryDays, amount \in TaxAmounts :
                                           CreateTaxRecurring(t, q, from, to, amount)
      PROVE  Report(y)' = Report(y)
  <2>1. UNCHANGED <<income, expense, asset>>
    BY <1>6 DEF RefuseUpload, CountReceipts, UpdateTaxRecurring, CreateTaxRecurring, ledgerVars
  <2>. QED BY <2>1, IncomeStands
<1>. QED BY <1>2, <1>3, <1>4, <1>5, <1>6 DEF ExpenseNext

\* A new asset depreciates in no locked year.
LEMMA LockedAssets ==
    ASSUME BookRows, NEW y \in closedYears, AssetNext
    PROVE  Report(y)' = Report(y)
<1>. PICK a \in AssetIds, q \in Properties, from \in TaxDays, to \in {0} \cup TaxDays,
          basis \in Bases, life \in Lives, half \in BOOLEAN : CreateTaxAsset(a, q, from, to, basis, life, half)
  BY DEF AssetNext
<1>. DEFINE new == [id |-> a, property |-> q, from |-> from, to |-> to, basis |-> basis, life |-> life, half |-> half]
<1>1. /\ asset[a] = NoRow /\ asset' = [asset EXCEPT ![a] = new] /\ UNCHANGED <<income, expense>>
      /\ YearsFree(AssetYears(from, to))
  BY DEF CreateTaxAsset
<1>2. y \in TaxYears /\ y \in Int
  BY TaxAssumption DEF BookRows, TaxYears, TaxAssumption
<1>3. TaxYear(from) \in Int /\ (to # 0 => TaxYear(to) \in Int)
  BY Calendar, TaxAssumption DEF TaxYears, TaxAssumption
<1>4. y \notin AssetYears(from, to)
  BY <1>1 DEF YearsFree
<1>5. ~Within(new, y)
  BY <1>2, <1>3, <1>4, TaxAssumption DEF AssetYears, Within, TaxYears, TaxAssumption
<1>6. AnnualTaxDepreciation(new, y) = 0
  BY <1>5 DEF AnnualTaxDepreciation
<1>. HIDE DEF new
<1>7. asset'[a] = new /\ \A b \in AssetIds : b # a => asset'[b] = asset[b]
  BY <1>1 DEF BookRows
<1>8. \A b \in AssetIds : b # a => Takes(b, y)' = Takes(b, y)
  BY <1>7 DEF Takes
<1>9. Takes(a, y)' = 0
  BY <1>6, <1>7 DEF Takes
<1>10. ByDate(y)' = ByDate(y) /\ ByRule(y)' = ByRule(y) /\ Stornos(y)' = Stornos(y) /\ ExpensesOf(y)' = ExpensesOf(y)
  BY <1>1 DEF ByDate, ByRule, Stornos, Loaded, Live, Income, ExpensesOf, Expenses
<1>11. ASSUME NEW p \in Properties
      PROVE  /\ ByDateOf(y, p)' = ByDateOf(y, p) /\ ByRuleOf(y, p)' = ByRuleOf(y, p) /\ StornoOf(y, p)' = StornoOf(y, p)
             /\ ExpenseOf(y, p)' = ExpenseOf(y, p) /\ DepreciationOf(y, p)' = DepreciationOf(y, p)
  <2>1. ByDateOf(y, p)' = ByDateOf(y, p) /\ ByRuleOf(y, p)' = ByRuleOf(y, p) /\ StornoOf(y, p)' = StornoOf(y, p)
    BY <1>1, <1>10 DEF ByDateOf, ByRuleOf, StornoOf
  <2>2. ExpenseOf(y, p)' = ExpenseOf(y, p)
    BY <1>1, <1>10 DEF ExpenseOf
  <2>. DEFINE S == { b \in Assets : asset[b].property = p /\ Takes(b, y) # 0 }
  <2>3. S' = S
    BY <1>1, <1>7, <1>8, <1>9 DEF Assets
  <2>4. \A b \in S : Takes(b, y)' = Takes(b, y)
    BY <1>1, <1>8 DEF Assets
  <2>5. DepreciationOf(y, p) = { <<b, Takes(b, y)>> : b \in S }
    BY DEF DepreciationOf
  <2>6. DepreciationOf(y, p)' = { <<b, Takes(b, y)'>> : b \in S' }
    BY DEF DepreciationOf
  <2>. HIDE DEF S
  <2>7. DepreciationOf(y, p)' = DepreciationOf(y, p)
    BY <2>3, <2>4, <2>5, <2>6
  <2>. QED BY <2>1, <2>2, <2>7
<1>. QED BY <1>11, ReportParts

\* What the report of a year shows does not change while the year stays locked, by either rule
\* for income, in its expenses, depreciation and receipts (LockTaxYear and its writers), where no
\* payment is booked while a person is being deleted.
THEOREM LockedYearsStand == ~RacingErasure => (TaxSpec => LockedYearStands)
<1>. SUFFICES ASSUME ~RacingErasure PROVE TaxSpec => LockedYearStands
  OBVIOUS
<1>1. BookRows /\ [TaxNext]_taxVars => [\A y \in closedYears \cap closedYears' : Report(y)' = Report(y)]_taxVars
  <2>. SUFFICES ASSUME BookRows, TaxNext, NEW y \in closedYears PROVE Report(y)' = Report(y)
    OBVIOUS
  <2>1. CASE YearNext
    BY <2>1, IncomeStands DEF YearNext, NextTaxDay, LockTaxYear, UnlockTaxYear, ledgerVars
  <2>. QED BY <2>1, LockedIncome, LockedExpenses, LockedAssets DEF TaxNext
<1>. QED BY <1>1, BookHolds, PTL DEF TaxSpec, LockedYearStands

-----------------------------------------------------------------------------
(* The dashboard.                                                           *)

\* The requests, the calculations and the rows of the cache.
AskRow     == [at : {"out", "asked", "years", "waits", "answered"}, revision : Nat, year : DashYears \cup {0}, askedAt : Nat,
               known : SUBSET Ledgers, open : SUBSET Ledgers, years : YearsMeta, seen : SUBSET Ledgers]
FlightRow  == [revision : Nat, year : DashYears, started : Nat, years : YearsMeta, open : SUBSET Ledgers,
               reads : 0 .. 2, seen : SUBSET Ledgers]
SummaryRow == [filled : BOOLEAN, seen : SUBSET Ledgers, open : SUBSET Ledgers, storedAt : Nat, years : YearsMeta]

DashTypes ==
    /\ revision \in Nat \ {0} /\ tick \in Nat
    /\ ledger \in [Ledgers -> [at : {"idle", "written", "committed"}, on : Nat, quiet : BOOLEAN]]
    /\ cache.revision \in Nat /\ cache.rows \in [DashYears -> SummaryRow]
    /\ reader \in [Readers -> AskRow]
    /\ flights \subseteq FlightRow

\* What shows these writes, and has those in flight, may answer for a revision: nothing else was
\* known to a request of that revision, and nothing else happens while it stays.
Answers(seen, open, rev) ==
    /\ \A r \in Readers : reader[r].revision = rev => reader[r].known \subseteq seen \cup open \cup Quiet
    /\ rev = revision => \A w \in Ledgers : ledger[w].at # "idle" => w \in seen \cup open \cup Quiet

\* The writes in flight that the sequence tells of are those in flight when a revision was read.
Covers(open, rev) == rev = revision => Written \subseteq open \cup Quiet

\* What is not shown was committed later.
ShowsFrom(seen, t) == \A w \in Committed : w \in seen \/ t <= ledger[w].on

YearsOK(years, rev) == Answers(years.seen, years.open, rev) /\ ShowsFrom(years.seen, years.loadedAt)

ReaderOK(r) ==
    /\ reader[r].known \subseteq Committed /\ reader[r].askedAt <= tick /\ reader[r].revision <= revision
    /\ reader[r].at \in {"asked", "years"} => Covers(reader[r].open, reader[r].revision)
    /\ reader[r].at = "years" => /\ YearsOK(reader[r].years, reader[r].revision)
                                 /\ reader[r].years.loadedAt <= tick /\ tick < reader[r].years.loadedAt + CacheTTL
    /\ reader[r].at = "answered" => Excused(reader[r], r) /\ Excused(reader[r].years, r)

FlightOK(f) ==
    /\ f.revision <= revision
    /\ Covers(f.open, f.revision)
    /\ Answers(f.seen, f.open, f.revision) /\ ShowsFrom(f.seen, f.started)
    /\ f.started <= tick /\ tick <= f.started + CalcTimeout
    /\ YearsOK(f.years, f.revision)
    /\ f.years.loadedAt <= f.started /\ f.started < f.years.loadedAt + CacheTTL

SummaryOK(row, rev) ==
    row.filled =>
      /\ rev <= revision
      /\ Answers(row.seen, row.open, rev) /\ ShowsFrom(row.seen, row.storedAt - CalcTimeout)
      /\ row.storedAt <= tick
      /\ YearsOK(row.years, rev) /\ row.years.loadedAt <= tick

DashInv ==
    /\ DashTypes
    /\ \A w \in Committed : ledger[w].on <= tick
    /\ \A r \in Readers : ReaderOK(r)
    /\ \A f \in flights : FlightOK(f)
    /\ \A y \in DashYears : SummaryOK(cache.rows[y], cache.revision)

-----------------------------------------------------------------------------
\* How the books move: writes only come, and what the sequence tells of comes with a new revision.
LedgerMoves ==
    /\ Quiet' = Quiet /\ Committed \subseteq Committed' /\ \A w \in Committed : ledger'[w].on = ledger[w].on
    /\ \A w \in Committed' \ Committed : ledger'[w].on = tick
    /\ revision <= revision' /\ tick <= tick'
    /\ revision' = revision => \A w \in Ledgers \ Quiet : /\ ledger'[w].at # "idle" => ledger[w].at # "idle"
                                                          /\ ledger'[w].at = "written" => ledger[w].at = "written"

\* How the requests move: what one knows stays, or it asks anew.
AsksMove ==
    \A r \in Readers :
      \/ reader'[r].revision = reader[r].revision /\ reader'[r].known = reader[r].known
      \/ reader'[r].known = {}
      \/ reader'[r].revision = revision /\ reader'[r].known = Committed

\* The books that stand still move as they may.
LEMMA LedgerRests == ASSUME DashTypes, UNCHANGED <<ledger, revision>>, tick <= tick' PROVE LedgerMoves
BY DEF LedgerMoves, Quiet, Committed, DashTypes

\* What answers for a revision goes on answering for it.
LEMMA AnswersKept ==
    ASSUME DashTypes, DashTypes', LedgerMoves, AsksMove, NEW seen, NEW open, NEW rev \in Nat, rev <= revision, Answers(seen, open, rev)
    PROVE  Answers(seen, open, rev)'
<1>1. ASSUME NEW r \in Readers, reader'[r].revision = rev PROVE reader'[r].known \subseteq seen \cup open \cup Quiet'
  <2>1. CASE reader'[r].revision = reader[r].revision /\ reader'[r].known = reader[r].known
    BY <1>1, <2>1 DEF Answers, LedgerMoves
  <2>2. CASE reader'[r].revision = revision /\ reader'[r].known = Committed
    BY <1>1, <2>2 DEF Answers, LedgerMoves, Committed
  <2>. QED BY <2>1, <2>2 DEF AsksMove
<1>2. ASSUME rev = revision', NEW w \in Ledgers, ledger'[w].at # "idle" PROVE w \in seen \cup open \cup Quiet'
  <2>1. revision' = revision
    BY <1>2 DEF LedgerMoves, DashTypes
  <2>. QED BY <1>2, <2>1 DEF Answers, LedgerMoves
<1>. QED BY <1>1, <1>2 DEF Answers

\* The writes in flight stay the ones that were in flight.
LEMMA CoversKept ==
    ASSUME DashTypes, DashTypes', LedgerMoves, NEW open, NEW rev \in Nat, rev <= revision, Covers(open, rev)
    PROVE  Covers(open, rev)'
<1>1. ASSUME rev = revision' PROVE Written' \subseteq open \cup Quiet'
  <2>1. revision' = revision
    BY <1>1 DEF LedgerMoves, DashTypes
  <2>. QED BY <1>1, <2>1 DEF Covers, LedgerMoves, Written
<1>. QED BY <1>1 DEF Covers

\* What is committed later is committed after the tick.
LEMMA ShowsKept ==
    ASSUME DashTypes, LedgerMoves, NEW seen, NEW t \in Int, t <= tick, ShowsFrom(seen, t)
    PROVE  ShowsFrom(seen, t)'
BY DEF ShowsFrom, LedgerMoves, Committed, DashTypes

\* The years stay right.
LEMMA YearsKept ==
    ASSUME DashTypes, DashTypes', LedgerMoves, AsksMove, NEW years \in YearsMeta, NEW rev \in Nat, rev <= revision,
           years.loadedAt <= tick, YearsOK(years, rev)
    PROVE  YearsOK(years, rev)'
<1>1. years.loadedAt \in Int
  BY DEF YearsMeta
<1>. QED BY <1>1, AnswersKept, ShowsKept DEF YearsOK

\* A calculation that goes on.
LEMMA FlightKept ==
    ASSUME DashTypes, DashTypes', LedgerMoves, AsksMove, NEW f \in FlightRow, FlightOK(f), tick' <= f.started + CalcTimeout
    PROVE  FlightOK(f)'
<1>1. f.revision \in Nat /\ f.started \in Nat /\ f.years \in YearsMeta /\ f.years.loadedAt \in Nat
  BY DEF FlightRow, YearsMeta
<1>2. f.revision <= revision /\ f.revision <= revision' /\ f.started <= tick /\ f.started <= tick' /\ f.years.loadedAt <= tick
  BY <1>1 DEF FlightOK, LedgerMoves, DashTypes
<1>3. Covers(f.open, f.revision)'
  BY <1>1, <1>2, CoversKept DEF FlightOK
<1>4. Answers(f.seen, f.open, f.revision)'
  BY <1>1, <1>2, AnswersKept DEF FlightOK
<1>5. ShowsFrom(f.seen, f.started)'
  BY <1>1, <1>2, ShowsKept DEF FlightOK
<1>6. YearsOK(f.years, f.revision)'
  BY <1>1, <1>2, YearsKept DEF FlightOK
<1>. QED BY <1>2, <1>3, <1>4, <1>5, <1>6 DEF FlightOK

\* A row of the cache that stays.
LEMMA SummaryKept ==
    ASSUME DashTypes, DashTypes', LedgerMoves, AsksMove, NEW row \in SummaryRow, NEW rev \in Nat, SummaryOK(row, rev)
    PROVE  SummaryOK(row, rev)'
<1>. SUFFICES ASSUME row.filled PROVE SummaryOK(row, rev)'
  BY DEF SummaryOK
<1>1. row.storedAt \in Nat /\ row.years \in YearsMeta /\ row.years.loadedAt \in Nat /\ CalcTimeout \in Nat
  BY OverviewAssumption DEF SummaryRow, YearsMeta, OverviewAssumption
<1>2. rev <= revision /\ rev <= revision' /\ row.storedAt <= tick /\ row.storedAt <= tick' /\ row.years.loadedAt <= tick
      /\ row.years.loadedAt <= tick' /\ row.storedAt - CalcTimeout \in Int /\ row.storedAt - CalcTimeout <= tick
  BY <1>1 DEF SummaryOK, LedgerMoves, DashTypes
<1>3. Answers(row.seen, row.open, rev)'
  BY <1>1, <1>2, AnswersKept DEF SummaryOK
<1>4. ASSUME NEW t \in Int, t = row.storedAt - CalcTimeout PROVE ShowsFrom(row.seen, row.storedAt - CalcTimeout)'
  <2>1. t <= tick /\ ShowsFrom(row.seen, t)
    BY <1>2, <1>4 DEF SummaryOK
  <2>2. ShowsFrom(row.seen, t)'
    BY <2>1, ShowsKept
  <2>. QED BY <1>4, <2>2 DEF ShowsFrom
<1>6. YearsOK(row.years, rev)'
  BY <1>1, <1>2, YearsKept DEF SummaryOK
<1>. QED BY <1>2, <1>3, <1>4, <1>6 DEF SummaryOK

\* A request that stays as it is; between the years and the lookup no time passes.
LEMMA ReaderKept ==
    ASSUME DashTypes, DashTypes', LedgerMoves, AsksMove, NEW r \in Readers, ReaderOK(r), reader'[r] = reader[r],
           reader[r].at = "years" => tick' = tick
    PROVE  ReaderOK(r)'
<1>1. /\ reader[r].revision \in Nat /\ reader[r].askedAt \in Nat /\ reader[r].years \in YearsMeta
      /\ reader[r].years.loadedAt \in Nat /\ reader[r].known \subseteq Ledgers
  BY DEF DashTypes, AskRow, YearsMeta
<1>2. reader'[r].known \subseteq Committed' /\ reader'[r].askedAt <= tick' /\ reader'[r].revision <= revision'
  BY <1>1 DEF ReaderOK, LedgerMoves, DashTypes
<1>3. PICK q : q = reader[r]
  OBVIOUS
<1>4. ASSUME reader[r].at \in {"asked", "years"} PROVE Covers(q.open, q.revision)'
  BY <1>1, <1>3, <1>4, CoversKept DEF ReaderOK
<1>5. ASSUME reader[r].at = "years" PROVE YearsOK(q.years, q.revision)'
  BY <1>1, <1>3, <1>5, YearsKept DEF ReaderOK
<1>6. ASSUME reader[r].at = "answered" PROVE Excused(q, r)' /\ Excused(q.years, r)'
  BY <1>3, <1>6 DEF ReaderOK, Excused, Missed, LedgerMoves
<1>. QED BY <1>2, <1>3, <1>4, <1>5, <1>6 DEF ReaderOK, Covers, YearsOK, Answers, ShowsFrom, Excused, Missed

-----------------------------------------------------------------------------
\* The types in every step.
LEMMA AskParts ==
    /\ NoAsk \in AskRow /\ NoAsk.at = "out" /\ NoAsk.known = {} /\ NoAsk.revision = 0 /\ NoAsk.askedAt = 0
    /\ NoSummary \in SummaryRow /\ ~NoSummary.filled
BY DEF NoAsk, AskRow, NoYears, YearsMeta, NoSummary, SummaryRow

\* One request turns into another.
LEMMA AskTyped ==
    ASSUME DashTypes, NEW r \in Readers, NEW new \in AskRow, reader' = [reader EXCEPT ![r] = new]
    PROVE  /\ reader' \in [Readers -> AskRow] /\ reader'[r] = new
           /\ \A q \in Readers : q # r => reader'[q] = reader[q]
BY DEF DashTypes

\* What moves not at all stays right while the books move as they do.
LEMMA StepsKept ==
    ASSUME DashInv, DashTypes', LedgerMoves, AsksMove,
           \A q \in Readers : ReaderOK(q)' \/ (reader'[q] = reader[q] /\ (reader[q].at = "years" => tick' = tick)),
           \A f \in flights' : FlightOK(f)' \/ (f \in flights /\ tick' <= f.started + CalcTimeout),
           \A y \in DashYears : \/ SummaryOK(cache.rows[y], cache.revision)'
                                \/ cache'.rows[y] = cache.rows[y] /\ cache'.revision = cache.revision
    PROVE  DashInv'
<1>1. DashTypes
  BY DEF DashInv
<1>2. \A q \in Readers : ReaderOK(q)'
  BY <1>1, ReaderKept DEF DashInv
<1>3. \A f \in flights' : FlightOK(f)'
  <2>. SUFFICES ASSUME NEW f \in flights, tick' <= f.started + CalcTimeout PROVE FlightOK(f)'
    OBVIOUS
  <2>1. f \in FlightRow /\ FlightOK(f)
    BY DEF DashInv, DashTypes
  <2>. QED BY <1>1, <2>1, FlightKept
<1>4. ASSUME NEW y \in DashYears PROVE SummaryOK(cache.rows[y], cache.revision)'
  <2>. SUFFICES ASSUME cache'.rows[y] = cache.rows[y], cache'.revision = cache.revision
                PROVE  SummaryOK(cache.rows[y], cache.revision)'
    OBVIOUS
  <2>1. cache.rows[y] \in SummaryRow /\ cache.revision \in Nat /\ SummaryOK(cache.rows[y], cache.revision)
    BY DEF DashInv, DashTypes
  <2>2. PICK row, rev : row = cache.rows[y] /\ rev = cache.revision
    OBVIOUS
  <2>3. SummaryOK(row, rev)'
    BY <1>1, <2>1, <2>2, SummaryKept
  <2>. QED BY <2>2, <2>3 DEF SummaryOK, YearsOK, Answers, ShowsFrom
<1>5. ASSUME NEW w \in Committed' PROVE ledger'[w].on <= tick'
  <2>1. tick \in Nat /\ tick' \in Nat /\ ledger'[w].on \in Nat /\ tick <= tick'
    BY <1>1 DEF DashTypes, Committed, LedgerMoves
  <2>2. ledger'[w].on <= tick
    BY <2>1 DEF DashInv, LedgerMoves
  <2>. QED BY <2>1, <2>2
<1>. QED BY <1>2, <1>3, <1>4, <1>5 DEF DashInv

\* A step of one request alone, between the books and the calculations.
LEMMA AskSteps ==
    ASSUME DashInv, NEW r \in Readers, NEW new \in AskRow, reader' = [reader EXCEPT ![r] = new],
           \/ new.revision = reader[r].revision /\ new.known = reader[r].known
           \/ new.known = {}
           \/ new.revision = revision /\ new.known = Committed,
           UNCHANGED <<revision, ledger, cache, tick>>,
           DashTypes', ReaderOK(r)', \A f \in flights' : f \in flights \/ FlightOK(f)'
    PROVE  DashInv'
<1>1. DashTypes /\ reader'[r] = new /\ \A q \in Readers : q # r => reader'[q] = reader[q]
  BY AskTyped DEF DashInv
<1>2. LedgerMoves
  <2>1. tick <= tick'
    BY DEF DashInv, DashTypes
  <2>. QED BY <2>1, LedgerRests DEF DashInv
<1>3. AsksMove
  BY <1>1 DEF AsksMove
<1>4. \A f \in flights' : FlightOK(f)' \/ (f \in flights /\ tick' <= f.started + CalcTimeout)
  BY DEF DashInv, FlightOK
<1>5. /\ \A q \in Readers : ReaderOK(q)' \/ (reader'[q] = reader[q] /\ (reader[q].at = "years" => tick' = tick))
      /\ \A y \in DashYears : cache'.rows[y] = cache.rows[y] /\ cache'.revision = cache.revision
  BY <1>1
<1>. QED BY <1>2, <1>3, <1>4, <1>5, StepsKept

\* A request reads the revision: what is committed by then it knows.
LEMMA AskStarts == ASSUME DashInv, NEW r \in Readers, OverviewRevision(r) PROVE DashInv'
<1>. DEFINE new == [NoAsk EXCEPT !.at = "asked", !.revision = revision, !.askedAt = tick, !.known = Committed, !.open = Written]
<1>1. DashTypes /\ Committed \subseteq Ledgers /\ Written \subseteq Ledgers
  BY DEF DashInv, Committed, Written
<1>2. /\ new \in AskRow /\ new.revision = revision /\ new.known = Committed /\ new.at = "asked" /\ new.open = Written
      /\ new.askedAt = tick
  BY <1>1, AskParts DEF AskRow, NoAsk, DashTypes
<1>3. reader' = [reader EXCEPT ![r] = new] /\ UNCHANGED <<revision, ledger, cache, flights, tick>>
  BY DEF OverviewRevision
<1>. HIDE DEF new
<1>4. DashTypes' /\ reader'[r] = new
  BY <1>1, <1>2, <1>3, AskTyped DEF DashTypes
<1>5. ReaderOK(r)'
  BY <1>1, <1>2, <1>3, <1>4 DEF ReaderOK, Covers, Committed, Written, DashTypes
<1>. QED BY <1>2, <1>3, <1>4, <1>5, AskSteps

\* A row of the cache in force brings its years along, and they are not old.
LEMMA YearsArrive == ASSUME DashInv, NEW r \in Readers, CachedOverviewYears(r) PROVE DashInv'
<1>1. /\ DashTypes /\ reader[r].at = "asked" /\ UNCHANGED <<revision, ledger, cache, flights, tick>>
      /\ Committed \subseteq Ledgers /\ reader[r] \in AskRow /\ reader[r].revision \in Nat
  BY DEF DashInv, DashTypes, Committed, CachedOverviewYears, AskRow
<1>2. ASSUME NEW m \in YearsMeta, reader' = [reader EXCEPT ![r].at = "years", ![r].years = m],
             YearsOK(m, reader[r].revision), m.loadedAt <= tick, tick < m.loadedAt + CacheTTL
      PROVE  DashInv'
  <2>. DEFINE new == [reader[r] EXCEPT !.at = "years", !.years = m]
  <2>1. /\ new \in AskRow /\ new.at = "years" /\ new.years = m /\ new.known = reader[r].known
        /\ new.revision = reader[r].revision /\ new.open = reader[r].open /\ new.askedAt = reader[r].askedAt
    BY <1>1, <1>2 DEF AskRow
  <2>2. reader' = [reader EXCEPT ![r] = new]
    BY <1>1, <1>2 DEF DashTypes
  <2>. HIDE DEF new
  <2>3. DashTypes' /\ reader'[r] = new /\ \A q \in Readers : q # r => reader'[q] = reader[q]
    BY <1>1, <2>1, <2>2, AskTyped DEF DashTypes
  <2>4. LedgerMoves
    <3>1. tick <= tick'
      BY <1>1 DEF DashTypes
    <3>. QED BY <1>1, <3>1, LedgerRests
  <2>5. AsksMove
    BY <2>1, <2>3 DEF AsksMove
  <2>6. YearsOK(m, reader[r].revision)'
    <3>1. PICK rev \in Nat : rev = reader[r].revision
      BY <1>1
    <3>2. reader'[r].revision = rev /\ rev <= revision
      BY <2>1, <2>3, <3>1 DEF DashInv, ReaderOK
    <3>3. YearsOK(m, rev)'
      BY <1>1, <1>2, <2>3, <2>4, <2>5, <3>1, <3>2, YearsKept
    <3>. QED BY <3>1, <3>2, <3>3 DEF YearsOK, Answers, ShowsFrom
  <2>7. ReaderOK(r)
    BY DEF DashInv
  <2>8. reader'[r].known \subseteq Committed' /\ reader'[r].askedAt <= tick' /\ reader'[r].revision <= revision'
    BY <1>1, <2>1, <2>3, <2>7 DEF ReaderOK, Committed
  <2>9. Covers(reader[r].open, reader[r].revision)'
    BY <1>1, <2>1, <2>3, <2>7 DEF ReaderOK, Covers, Written, Quiet
  <2>10. ReaderOK(r)'
    BY <1>1, <1>2, <2>1, <2>3, <2>6, <2>8, <2>9 DEF ReaderOK, Covers, YearsOK, Answers, ShowsFrom
  <2>. QED BY <1>1, <2>1, <2>2, <2>3, <2>10, AskSteps
<1>3. ASSUME NEW y \in DashYears, RowValid(y, reader[r].revision),
             reader' = [reader EXCEPT ![r].at = "years", ![r].years = cache.rows[y].years]
      PROVE  DashInv'
  <2>1. cache.rows[y].years \in YearsMeta /\ cache.rows[y].years.loadedAt \in Nat
    BY <1>1 DEF DashTypes, SummaryRow, YearsMeta
  <2>2. SummaryOK(cache.rows[y], cache.revision) /\ cache.rows[y].filled /\ cache.revision = reader[r].revision
    BY <1>3 DEF DashInv, RowValid
  <2>3. tick < cache.rows[y].years.loadedAt + CacheTTL
    BY <1>1, <1>3, <2>1, OverviewAssumption DEF RowValid, FreshAt, DashTypes, OverviewAssumption
  <2>. QED BY <1>2, <1>3, <2>1, <2>2, <2>3 DEF SummaryOK
<1>4. ASSUME reader' = [reader EXCEPT ![r].at = "years", ![r].years = LoadDashboardYears(r)]
      PROVE  DashInv'
  <2>. DEFINE m == LoadDashboardYears(r)
  <2>1. m \in YearsMeta /\ m.seen = Committed /\ m.open = reader[r].open /\ m.loadedAt = tick
    BY <1>1 DEF LoadDashboardYears, YearsMeta, AskRow, DashTypes
  <2>. HIDE DEF m
  <2>2. Covers(reader[r].open, reader[r].revision) /\ \A q \in Readers : reader[q].known \subseteq Committed
    BY <1>1 DEF DashInv, ReaderOK
  <2>3. Answers(Committed, reader[r].open, reader[r].revision)
    BY <1>1, <2>2 DEF Answers, Covers, Committed, Written, DashTypes
  <2>4. YearsOK(m, reader[r].revision)
    BY <2>1, <2>3 DEF YearsOK, ShowsFrom
  <2>5. tick < tick + CacheTTL /\ tick <= tick
    BY <1>1, OverviewAssumption DEF DashTypes, OverviewAssumption
  <2>. QED BY <1>2, <1>4, <2>1, <2>4, <2>5 DEF m
<1>. QED BY <1>3, <1>4 DEF CachedOverviewYears

\* Who is answered was answered with what came in time.
LEMMA InTime ==
    ASSUME DashTypes, NEW r \in Readers, NEW part, NEW t \in Int, reader[r].known \subseteq Committed,
           reader[r].known \subseteq part.seen \cup part.open \cup Quiet, ShowsFrom(part.seen, t),
           reader[r].askedAt < t + CacheTTL + CalcTimeout
    PROVE  Excused(part, r)
<1>. SUFFICES ASSUME NEW w \in Missed(part, r)
              PROVE  w \in part.open \cup Quiet /\ reader[r].askedAt < ledger[w].on + CacheTTL + CalcTimeout
  BY DEF Excused
<1>1. w \in reader[r].known /\ w \notin part.seen /\ w \in Committed
  BY DEF Missed
<1>2. t <= ledger[w].on /\ ledger[w].on \in Nat /\ reader[r].askedAt \in Nat
  BY <1>1 DEF ShowsFrom, DashTypes, Committed, AskRow
<1>3. CacheTTL \in Nat /\ CalcTimeout \in Nat
  BY OverviewAssumption DEF OverviewAssumption
<1>. QED BY <1>1, <1>2, <1>3

\* An answer out of the cache.
LEMMA CacheServes == ASSUME DashInv, NEW r \in Readers, NEW y \in DashYears, ServeCached(r, y) PROVE DashInv'
<1>a. PICK row : row = cache.rows[y]
  OBVIOUS
<1>b. PICK new : new = [reader[r] EXCEPT !.at = "answered", !.seen = row.seen, !.open = row.open, !.years = row.years]
  OBVIOUS
<1>1. /\ DashTypes /\ reader[r].at = "years" /\ UNCHANGED <<revision, ledger, cache, flights, tick>>
      /\ reader[r] \in AskRow /\ row \in SummaryRow /\ row.filled /\ cache.revision = reader[r].revision
  BY <1>a DEF DashInv, DashTypes, ServeCached, RowValid
<1>2. reader' = [reader EXCEPT ![r] = new]
  BY <1>1, <1>a, <1>b DEF ServeCached, Answer, DashTypes
<1>3. /\ new \in AskRow /\ new.at = "answered" /\ new.seen = row.seen /\ new.open = row.open /\ new.years = row.years
      /\ new.known = reader[r].known /\ new.askedAt = reader[r].askedAt /\ new.revision = reader[r].revision
  BY <1>1, <1>b DEF AskRow, SummaryRow
<1>4. tick - row.storedAt < CacheTTL /\ tick - row.years.loadedAt < CacheTTL
  BY <1>a DEF ServeCached, RowValid, FreshAt
<1>5. DashTypes' /\ reader'[r] = new
  BY <1>1, <1>2, <1>3, AskTyped DEF DashTypes
<1>6. ReaderOK(r) /\ SummaryOK(row, reader[r].revision)
  BY <1>1, <1>a DEF DashInv
<1>7. row.storedAt \in Nat /\ row.years.loadedAt \in Nat /\ CacheTTL \in Nat /\ CalcTimeout \in Nat /\ tick \in Nat /\ reader[r].askedAt \in Nat
  BY <1>1, OverviewAssumption DEF SummaryRow, YearsMeta, OverviewAssumption, DashTypes, AskRow
<1>8. reader[r].askedAt <= tick /\ reader[r].known \subseteq Committed
  BY <1>6 DEF ReaderOK
<1>9. Excused(row, r)
  <2>1. reader[r].askedAt < row.storedAt - CalcTimeout + CacheTTL + CalcTimeout /\ row.storedAt - CalcTimeout \in Int
    BY <1>4, <1>7, <1>8
  <2>2. ShowsFrom(row.seen, row.storedAt - CalcTimeout) /\ reader[r].known \subseteq row.seen \cup row.open \cup Quiet
    BY <1>1, <1>6 DEF SummaryOK, Answers
  <2>3. PICK t \in Int : t = row.storedAt - CalcTimeout
    BY <2>1
  <2>. QED BY <1>1, <1>8, <2>1, <2>2, <2>3, InTime
<1>10. Excused(row.years, r)
  <2>1. reader[r].askedAt < row.years.loadedAt + CacheTTL + CalcTimeout /\ row.years.loadedAt \in Int
    BY <1>4, <1>7, <1>8
  <2>2. ShowsFrom(row.years.seen, row.years.loadedAt) /\ reader[r].known \subseteq row.years.seen \cup row.years.open \cup Quiet
    BY <1>1, <1>6 DEF SummaryOK, Answers, YearsOK
  <2>. QED BY <1>1, <1>8, <2>1, <2>2, InTime
<1>11. Excused(new, r)' /\ Excused(new.years, r)'
  BY <1>1, <1>3, <1>5, <1>9, <1>10 DEF Excused, Missed, Quiet
<1>12. ReaderOK(r)'
  BY <1>1, <1>3, <1>5, <1>6, <1>11 DEF ReaderOK, Excused, Missed, Committed
<1>. QED BY <1>1, <1>2, <1>3, <1>5, <1>12, AskSteps

\* A request joins the calculation of its revision or starts it, with the years it has.
LEMMA FlightStarts == ASSUME DashInv, NEW r \in Readers, NEW y \in DashYears, JoinFlight(r, y) PROVE DashInv'
<1>a. PICK new : new = [reader[r] EXCEPT !.at = "waits", !.year = y]
  OBVIOUS
<1>b. PICK f : f = [revision |-> reader[r].revision, year |-> y, started |-> tick,
                  years |-> reader[r].years, open |-> reader[r].open, reads |-> 0, seen |-> Ledgers]
  OBVIOUS
<1>1. /\ DashTypes /\ reader[r].at = "years" /\ UNCHANGED <<revision, ledger, cache, tick>> /\ reader[r] \in AskRow
      /\ reader[r].revision \in Nat
  BY DEF DashInv, DashTypes, JoinFlight, AskRow
<1>2. reader' = [reader EXCEPT ![r] = new] /\ (flights' = flights \/ flights' = flights \cup {f})
  BY <1>1, <1>a, <1>b DEF JoinFlight, DashTypes
<1>3. /\ new \in AskRow /\ new.at = "waits" /\ new.known = reader[r].known /\ new.askedAt = reader[r].askedAt
      /\ new.revision = reader[r].revision
  BY <1>1, <1>a DEF AskRow
<1>4. /\ f \in FlightRow /\ f.revision = reader[r].revision /\ f.started = tick /\ f.years = reader[r].years
      /\ f.open = reader[r].open /\ f.seen = Ledgers
  BY <1>1, <1>b DEF FlightRow, AskRow, DashTypes
<1>5. DashTypes' /\ reader'[r] = new /\ \A q \in Readers : q # r => reader'[q] = reader[q]
  BY <1>1, <1>2, <1>3, <1>4, AskTyped DEF DashTypes
<1>6. ReaderOK(r)
  BY DEF DashInv
<1>7. ReaderOK(r)'
  BY <1>1, <1>3, <1>5, <1>6 DEF ReaderOK, Committed
<1>8. FlightOK(f)
  <2>1. Answers(Ledgers, f.open, f.revision) /\ ShowsFrom(Ledgers, f.started)
    BY <1>1 DEF Answers, ShowsFrom, Committed, DashTypes, AskRow
  <2>2. tick \in Nat /\ CalcTimeout \in Nat
    BY <1>1, OverviewAssumption DEF DashTypes, OverviewAssumption
  <2>. QED BY <1>1, <1>4, <1>6, <2>1, <2>2 DEF FlightOK, ReaderOK
<1>9. FlightOK(f)'
  <2>1. LedgerMoves
    <3>1. tick <= tick'
      BY <1>1 DEF DashTypes
    <3>. QED BY <1>1, <3>1, LedgerRests
  <2>2. AsksMove
    BY <1>3, <1>5 DEF AsksMove
  <2>3. tick' <= f.started + CalcTimeout
    BY <1>1, <1>8 DEF FlightOK
  <2>. QED BY <1>1, <1>4, <1>5, <1>8, <2>1, <2>2, <2>3, FlightKept
<1>. QED BY <1>1, <1>2, <1>3, <1>5, <1>7, <1>9, AskSteps

\* A query of a calculation reads what is committed by then.
LEMMA FlightReads == ASSUME DashInv, NEW f \in flights, OverviewUncached(f) PROVE DashInv'
<1>a. PICK g : g = [f EXCEPT !.reads = @ + 1, !.seen = @ \cap Committed]
  OBVIOUS
<1>1. /\ DashTypes /\ f \in FlightRow /\ FlightOK(f) /\ f.reads < 2 /\ flights' = (flights \ {f}) \cup {g}
      /\ UNCHANGED <<revision, ledger, cache, reader, tick>>
  BY <1>a DEF DashInv, DashTypes, OverviewUncached
<1>2. /\ g \in FlightRow /\ g.revision = f.revision /\ g.started = f.started /\ g.years = f.years /\ g.open = f.open
      /\ g.seen = f.seen \cap Committed
  <2>1. f.reads + 1 \in 0 .. 2 /\ f.seen \cap Committed \in SUBSET Ledgers
    BY <1>1 DEF FlightRow
  <2>. QED BY <1>1, <1>a, <2>1 DEF FlightRow
<1>3. DashTypes'
  BY <1>1, <1>2 DEF DashTypes
<1>4. Answers(g.seen, g.open, g.revision)
  <2>1. \A r \in Readers : reader[r].known \subseteq Committed
    BY DEF DashInv, ReaderOK
  <2>. QED BY <1>1, <1>2, <2>1 DEF FlightOK, Answers, Covers, Committed, Written, DashTypes
<1>5. ShowsFrom(g.seen, g.started)
  BY <1>1, <1>2 DEF FlightOK, ShowsFrom
<1>6. FlightOK(g)
  BY <1>1, <1>2, <1>4, <1>5 DEF FlightOK
<1>7. LedgerMoves /\ AsksMove
  <2>1. tick <= tick'
    BY <1>1 DEF DashTypes
  <2>. QED BY <1>1, <2>1, LedgerRests DEF AsksMove
<1>8. \A h \in flights : tick' <= h.started + CalcTimeout
  BY <1>1 DEF DashInv, FlightOK
<1>9. FlightOK(g)'
  BY <1>1, <1>2, <1>3, <1>6, <1>7, FlightKept DEF FlightOK
<1>10. \A h \in flights' : FlightOK(h)' \/ (h \in flights /\ tick' <= h.started + CalcTimeout)
  BY <1>1, <1>8, <1>9
<1>11. /\ \A q \in Readers : reader'[q] = reader[q] /\ (reader[q].at = "years" => tick' = tick)
       /\ \A y \in DashYears : cache'.rows[y] = cache.rows[y] /\ cache'.revision = cache.revision
  BY <1>1
<1>. QED BY <1>3, <1>7, <1>10, <1>11, StepsKept

\* What a calculation brings answers every request that waits for it, in time.
LEMMA FlightAnswers ==
    ASSUME DashInv, NEW f \in flights, NEW r \in Readers, reader[r].revision = f.revision
    PROVE  Excused(f, r) /\ Excused(f.years, r)
<1>1. DashTypes /\ f \in FlightRow /\ FlightOK(f) /\ ReaderOK(r) /\ f.years \in YearsMeta
  BY DEF DashInv, DashTypes, FlightRow
<1>2. /\ f.started \in Nat /\ f.years.loadedAt \in Nat /\ CacheTTL \in Nat \ {0} /\ CalcTimeout \in Nat /\ tick \in Nat
      /\ reader[r].askedAt \in Nat
  BY <1>1, OverviewAssumption DEF FlightRow, YearsMeta, OverviewAssumption, DashTypes, AskRow
<1>3. reader[r].askedAt <= tick /\ reader[r].known \subseteq Committed
  BY <1>1 DEF ReaderOK
<1>4. /\ f.started <= tick /\ tick <= f.started + CalcTimeout /\ f.started < f.years.loadedAt + CacheTTL
      /\ ShowsFrom(f.seen, f.started) /\ ShowsFrom(f.years.seen, f.years.loadedAt)
      /\ Answers(f.seen, f.open, f.revision) /\ Answers(f.years.seen, f.years.open, f.revision)
  BY <1>1 DEF FlightOK, YearsOK
<1>5. reader[r].askedAt < f.started + CacheTTL + CalcTimeout /\ reader[r].askedAt < f.years.loadedAt + CacheTTL + CalcTimeout
  BY <1>2, <1>3, <1>4
<1>6. /\ reader[r].known \subseteq f.seen \cup f.open \cup Quiet
      /\ reader[r].known \subseteq f.years.seen \cup f.years.open \cup Quiet
  BY <1>4 DEF Answers
<1>. QED BY <1>1, <1>2, <1>3, <1>4, <1>5, <1>6, InTime

\* What a calculation of the revision in force leaves in the cache.
LEMMA FlightStores ==
    ASSUME DashInv, NEW f \in flights, NEW y \in DashYears
    PROVE  /\ StoreOverview(f).revision \in Nat /\ StoreOverview(f).rows \in [DashYears -> SummaryRow]
           /\ SummaryOK(StoreOverview(f).rows[y], StoreOverview(f).revision)
<1>1. DashTypes /\ f \in FlightRow /\ FlightOK(f) /\ SummaryOK(cache.rows[y], cache.revision)
  BY DEF DashInv, DashTypes
<1>2. CASE revision # f.revision
  BY <1>1, <1>2 DEF StoreOverview, DashTypes
<1>3. CASE revision = f.revision
  <2>1. StoreOverview(f).revision \in Nat /\ StoreOverview(f).revision = f.revision
    BY <1>1, <1>3 DEF StoreOverview, FlightRow
  <2>2. Filled(f.year, f) \in SummaryRow
    BY <1>1 DEF Filled, SummaryRow, FlightRow, DashTypes
  <2>3. StoreOverview(f).rows \in [DashYears -> SummaryRow]
    BY <1>1, <1>3, <2>2, AskParts DEF StoreOverview, DashTypes
  <2>4. SummaryOK(Filled(f.year, f), f.revision)
    <3>1. PICK row : row = Filled(f.year, f)
      OBVIOUS
    <3>2. row.seen = f.seen /\ row.open = f.open /\ row.storedAt = tick /\ row.years = f.years
      BY <3>1 DEF Filled
    <3>3. /\ f.started \in Nat /\ tick \in Nat /\ CalcTimeout \in Nat /\ f.years.loadedAt \in Nat
          /\ \A w \in Committed : ledger[w].on \in Nat
      BY <1>1, OverviewAssumption DEF FlightRow, YearsMeta, DashTypes, OverviewAssumption, Committed
    <3>4. f.started <= tick /\ tick - CalcTimeout <= f.started /\ f.years.loadedAt <= tick
      BY <1>1, <3>3 DEF FlightOK
    <3>5. ShowsFrom(row.seen, row.storedAt - CalcTimeout)
      BY <1>1, <3>2, <3>3, <3>4 DEF ShowsFrom, FlightOK
    <3>6. row.storedAt <= tick
      BY <3>2, <3>3
    <3>. QED BY <1>1, <3>1, <3>2, <3>4, <3>5, <3>6 DEF SummaryOK, FlightOK
  <2>5. CASE y = f.year
    <3>1. StoreOverview(f).rows[y] = Filled(f.year, f)
      BY <1>3, <2>5 DEF StoreOverview, Filled
    <3>. QED BY <2>1, <2>3, <2>4, <3>1
  <2>6. CASE y # f.year /\ cache.revision # f.revision
    <3>1. StoreOverview(f).rows[y] = NoSummary
      BY <1>3, <2>6 DEF StoreOverview
    <3>. QED BY <2>1, <2>3, <3>1, AskParts DEF SummaryOK
  <2>7. CASE y # f.year /\ cache.revision = f.revision
    <3>1. StoreOverview(f).rows[y] = cache.rows[y]
      BY <1>3, <2>7 DEF StoreOverview
    <3>. QED BY <1>1, <2>1, <2>3, <2>7, <3>1
  <2>. QED BY <2>5, <2>6, <2>7
<1>. QED BY <1>2, <1>3

\* A calculation ends: whoever waits for it is answered, and the cache holds its result.
LEMMA FlightEnds == ASSUME DashInv, NEW f \in flights, FinishFlight(f) PROVE DashInv'
<1>1. /\ DashTypes /\ f \in FlightRow /\ flights' \subseteq flights /\ UNCHANGED <<revision, ledger, tick>>
      /\ cache' = StoreOverview(f)
  BY DEF DashInv, DashTypes, FinishFlight
<1>2. ASSUME NEW r \in Readers
      PROVE  /\ reader'[r] \in AskRow /\ reader'[r].revision = reader[r].revision /\ reader'[r].known = reader[r].known
             /\ ReaderOK(r)' \/ reader'[r] = reader[r]
  <2>1. CASE r \in Waiting(f)
    <3>1. reader'[r] = [reader[r] EXCEPT !.at = "answered", !.seen = f.seen, !.open = f.open, !.years = f.years]
      BY <1>1, <2>1 DEF FinishFlight, Answer, Filled, DashTypes
    <3>2. PICK new : new = reader'[r]
      OBVIOUS
    <3>3. /\ new \in AskRow /\ new.at = "answered" /\ new.seen = f.seen /\ new.open = f.open /\ new.years = f.years
          /\ new.known = reader[r].known /\ new.askedAt = reader[r].askedAt /\ new.revision = reader[r].revision
      <4>1. reader[r] \in AskRow /\ f.seen \in SUBSET Ledgers /\ f.open \in SUBSET Ledgers /\ f.years \in YearsMeta
        BY <1>1 DEF DashTypes, FlightRow
      <4>. QED BY <3>1, <3>2, <4>1 DEF AskRow
    <3>4. Excused(f, r) /\ Excused(f.years, r)
      BY <2>1, FlightAnswers DEF Waiting
    <3>5. Excused(new, r)' /\ Excused(new.years, r)'
      BY <1>1, <3>2, <3>3, <3>4 DEF Excused, Missed, Quiet
    <3>6. ReaderOK(r)
      BY DEF DashInv
    <3>7. ReaderOK(r)'
      BY <1>1, <3>2, <3>3, <3>5, <3>6 DEF ReaderOK, Excused, Missed, Committed
    <3>. QED BY <3>2, <3>3, <3>7
  <2>2. CASE r \notin Waiting(f)
    <3>1. reader'[r] = reader[r]
      BY <2>2 DEF FinishFlight
    <3>. QED BY <1>1, <3>1 DEF DashTypes
  <2>. QED BY <2>1, <2>2
<1>3. reader' \in [Readers -> AskRow]
  BY <1>2 DEF FinishFlight
<1>4. cache'.revision \in Nat /\ cache'.rows \in [DashYears -> SummaryRow]
  BY <1>1, FlightStores DEF StoreOverview, DashTypes, FlightRow
<1>5. DashTypes'
  BY <1>1, <1>3, <1>4 DEF DashTypes
<1>6. LedgerMoves /\ AsksMove
  <2>1. tick <= tick'
    BY <1>1 DEF DashTypes
  <2>. QED BY <1>1, <1>2, <2>1, LedgerRests DEF AsksMove
<1>7. \A h \in flights' : h \in flights /\ tick' <= h.started + CalcTimeout
  BY <1>1 DEF DashInv, FlightOK
<1>8. ASSUME NEW y \in DashYears PROVE SummaryOK(cache.rows[y], cache.revision)'
  <2>1. PICK row, rev : row = StoreOverview(f).rows[y] /\ rev = StoreOverview(f).revision
    OBVIOUS
  <2>2. SummaryOK(row, rev) /\ rev \in Nat /\ row \in SummaryRow
    BY <2>1, FlightStores
  <2>3. SummaryOK(row, rev)'
    BY <1>1, <1>5, <1>6, <2>2, SummaryKept
  <2>. QED BY <1>1, <2>1, <2>3 DEF SummaryOK, YearsOK, Answers, ShowsFrom
<1>9. \A q \in Readers : ReaderOK(q)' \/ (reader'[q] = reader[q] /\ (reader[q].at = "years" => tick' = tick))
  BY <1>1, <1>2
<1>. QED BY <1>5, <1>6, <1>7, <1>8, <1>9, StepsKept

\* A calculation fails, or a client leaves: the request is gone.
LEMMA AskGone ==
    ASSUME DashInv, DashTypes', NEW r \in Readers, reader'[r] = NoAsk, UNCHANGED <<revision, tick>>
    PROVE  ReaderOK(r)'
BY AskParts DEF ReaderOK, DashInv, DashTypes

\* Those who wait for a calculation that fails are sent away.
LEMMA FlightFails == ASSUME DashInv, NEW f \in flights, FailFlight(f) PROVE DashInv'
<1>1. DashTypes /\ flights' \subseteq flights /\ UNCHANGED <<revision, ledger, cache, tick>>
  BY DEF DashInv, FailFlight
<1>2. \A r \in Readers : reader'[r] = NoAsk \/ reader'[r] = reader[r]
  BY DEF FailFlight
<1>3. DashTypes'
  <2>1. reader' \in [Readers -> AskRow]
    BY <1>1, AskParts DEF FailFlight, DashTypes
  <2>. QED BY <1>1, <2>1 DEF DashTypes
<1>4. LedgerMoves /\ AsksMove
  <2>1. tick <= tick'
    BY <1>1 DEF DashTypes
  <2>. QED BY <1>1, <1>2, <2>1, AskParts, LedgerRests DEF AsksMove
<1>5. \A h \in flights' : h \in flights /\ tick' <= h.started + CalcTimeout
  BY <1>1 DEF DashInv, FlightOK
<1>6. \A q \in Readers : ReaderOK(q)' \/ (reader'[q] = reader[q] /\ (reader[q].at = "years" => tick' = tick))
  BY <1>1, <1>2, <1>3, AskGone
<1>7. \A y \in DashYears : cache'.rows[y] = cache.rows[y] /\ cache'.revision = cache.revision
  BY <1>1
<1>. QED BY <1>3, <1>4, <1>5, <1>6, <1>7, StepsKept

\* A client leaves; the calculation goes on.
LEMMA AskLeaves == ASSUME DashInv, NEW r \in Readers, LeaveOverview(r) PROVE DashInv'
<1>1. DashTypes /\ reader' = [reader EXCEPT ![r] = NoAsk] /\ UNCHANGED <<revision, ledger, cache, flights, tick>>
  BY DEF DashInv, LeaveOverview
<1>2. DashTypes' /\ reader'[r] = NoAsk
  BY <1>1, AskTyped, AskParts DEF DashTypes
<1>3. ReaderOK(r)'
  BY <1>1, <1>2, AskGone
<1>. QED BY <1>1, <1>2, <1>3, AskParts, AskSteps

\* Time passes: no calculation outlives its limit, and no request stands between the years and the lookup.
LEMMA TimePasses == ASSUME DashInv, Elapse PROVE DashInv'
<1>1. /\ DashTypes /\ UNCHANGED <<revision, ledger, cache, reader, flights>> /\ tick' = tick + 1 /\ tick \in Nat
      /\ \A r \in Readers : reader[r].at # "years"
  BY DEF DashInv, DashTypes, Elapse
<1>2. DashTypes' /\ tick <= tick'
  BY <1>1 DEF DashTypes
<1>3. LedgerMoves /\ AsksMove
  BY <1>1, <1>2, LedgerRests DEF AsksMove
<1>4. ASSUME NEW f \in flights PROVE tick' <= f.started + CalcTimeout
  <2>1. f.started \in Nat /\ CalcTimeout \in Nat /\ tick - f.started < CalcTimeout
    BY <1>1, OverviewAssumption DEF DashTypes, FlightRow, OverviewAssumption, Elapse
  <2>. QED BY <1>1, <2>1
<1>5. /\ \A q \in Readers : reader'[q] = reader[q] /\ (reader[q].at = "years" => tick' = tick)
      /\ \A y \in DashYears : cache'.rows[y] = cache.rows[y] /\ cache'.revision = cache.revision
      /\ \A f \in flights' : f \in flights
  BY <1>1
<1>. QED BY <1>2, <1>3, <1>4, <1>5, StepsKept

\* A writer begins, commits or gives up.
LEMMA BooksMove ==
    ASSUME DashInv, NEW w \in Ledgers, WriteLedger(w) \/ CommitLedger(w) \/ RollbackLedger(w)
    PROVE  DashInv'
<1>1. DashTypes /\ UNCHANGED <<cache, reader, flights, tick>>
  BY DEF DashInv, WriteLedger, CommitLedger, RollbackLedger
<1>2. DashTypes' /\ LedgerMoves
  <2>1. CASE WriteLedger(w)
    <3>1. /\ ledger[w].at = "idle" /\ ledger' = [ledger EXCEPT ![w].at = "written"]
          /\ revision' = IF ledger[w].quiet THEN revision ELSE revision + 1
      BY <2>1 DEF WriteLedger
    <3>2. DashTypes'
      BY <1>1, <3>1 DEF DashTypes
    <3>3. /\ \A v \in Ledgers : ledger'[v].quiet = ledger[v].quiet /\ ledger'[v].on = ledger[v].on
          /\ \A v \in Ledgers : v # w => ledger'[v] = ledger[v]
          /\ ledger'[w].at = "written"
      BY <1>1, <3>1 DEF DashTypes
    <3>4. revision <= revision' /\ tick <= tick' /\ (revision' = revision => w \in Quiet)
      BY <1>1, <3>1 DEF DashTypes, Quiet
    <3>. QED BY <1>1, <3>1, <3>2, <3>3, <3>4 DEF LedgerMoves, Quiet, Committed
  <2>2. CASE CommitLedger(w)
    <3>1. /\ ledger[w].at = "written" /\ ledger' = [ledger EXCEPT ![w].at = "committed", ![w].on = tick] /\ revision' = revision
      BY <2>2 DEF CommitLedger
    <3>2. DashTypes'
      BY <1>1, <3>1 DEF DashTypes
    <3>3. /\ \A v \in Ledgers : ledger'[v].quiet = ledger[v].quiet
          /\ \A v \in Ledgers : v # w => ledger'[v] = ledger[v]
          /\ ledger'[w].at = "committed" /\ ledger'[w].on = tick
      BY <1>1, <3>1 DEF DashTypes
    <3>4. revision <= revision' /\ tick <= tick'
      BY <1>1, <3>1 DEF DashTypes
    <3>. QED BY <1>1, <3>1, <3>2, <3>3, <3>4 DEF LedgerMoves, Quiet, Committed
  <2>3. CASE RollbackLedger(w)
    <3>1. ledger[w].at = "written" /\ ledger' = [ledger EXCEPT ![w].at = "idle"] /\ revision' = revision
      BY <2>3 DEF RollbackLedger
    <3>2. DashTypes'
      BY <1>1, <3>1 DEF DashTypes
    <3>3. /\ \A v \in Ledgers : ledger'[v].quiet = ledger[v].quiet
          /\ \A v \in Ledgers : v # w => ledger'[v] = ledger[v]
          /\ ledger'[w].at = "idle"
      BY <1>1, <3>1 DEF DashTypes
    <3>4. revision <= revision' /\ tick <= tick'
      BY <1>1, <3>1 DEF DashTypes
    <3>. QED BY <1>1, <3>1, <3>2, <3>3, <3>4 DEF LedgerMoves, Quiet, Committed
  <2>. QED BY <2>1, <2>2, <2>3
<1>3. AsksMove
  BY <1>1 DEF AsksMove
<1>4. \A h \in flights' : h \in flights /\ tick' <= h.started + CalcTimeout
  BY <1>1 DEF DashInv, FlightOK
<1>5. /\ \A q \in Readers : reader'[q] = reader[q] /\ (reader[q].at = "years" => tick' = tick)
      /\ \A y \in DashYears : cache'.rows[y] = cache.rows[y] /\ cache'.revision = cache.revision
  BY <1>1
<1>. QED BY <1>2, <1>3, <1>4, <1>5, StepsKept

-----------------------------------------------------------------------------
LEMMA DashStarts == OverviewInit => DashInv
<1>. SUFFICES ASSUME OverviewInit PROVE DashInv
  OBVIOUS
<1>1. /\ revision = 1 /\ tick = 0 /\ flights = {} /\ cache = [revision |-> 0, rows |-> [y \in DashYears |-> NoSummary]]
      /\ reader = [r \in Readers |-> NoAsk] /\ ledger \in [Ledgers -> [at : {"idle"}, on : {0}, quiet : BOOLEAN]]
  BY DEF OverviewInit
<1>2. DashTypes
  BY <1>1, AskParts DEF DashTypes
<1>3. Committed = {}
  BY <1>1 DEF Committed
<1>4. \A r \in Readers : ReaderOK(r)
  BY <1>1, AskParts DEF ReaderOK
<1>5. \A y \in DashYears : SummaryOK(cache.rows[y], cache.revision)
  BY <1>1, AskParts DEF SummaryOK
<1>. QED BY <1>1, <1>2, <1>3, <1>4, <1>5 DEF DashInv

\* Every step of the dashboard.
LEMMA DashSteps == DashInv /\ [OverviewNext]_overviewVars => DashInv'
<1>. SUFFICES ASSUME DashInv, [OverviewNext]_overviewVars PROVE DashInv'
  OBVIOUS
<1>1. CASE UNCHANGED overviewVars
  <2>1. DashTypes /\ UNCHANGED <<revision, ledger, cache, reader, flights, tick>>
    BY <1>1 DEF DashInv, overviewVars
  <2>2. DashTypes' /\ tick <= tick'
    BY <2>1 DEF DashTypes
  <2>3. LedgerMoves /\ AsksMove
    BY <2>1, <2>2, LedgerRests DEF AsksMove
  <2>4. \A h \in flights' : h \in flights /\ tick' <= h.started + CalcTimeout
    BY <2>1 DEF DashInv, FlightOK
  <2>5. /\ \A q \in Readers : reader'[q] = reader[q] /\ (reader[q].at = "years" => tick' = tick)
        /\ \A y \in DashYears : cache'.rows[y] = cache.rows[y] /\ cache'.revision = cache.revision
    BY <2>1
  <2>. QED BY <2>2, <2>3, <2>4, <2>5, StepsKept
<1>2. ASSUME NEW w \in Ledgers, WriteLedger(w) \/ CommitLedger(w) \/ RollbackLedger(w) PROVE DashInv'
  BY <1>2, BooksMove
<1>3. ASSUME NEW r \in Readers, OverviewRevision(r) \/ CachedOverviewYears(r) \/ LeaveOverview(r) PROVE DashInv'
  BY <1>3, AskStarts, YearsArrive, AskLeaves
<1>4. ASSUME NEW r \in Readers, NEW y \in DashYears, ServeCached(r, y) \/ JoinFlight(r, y) PROVE DashInv'
  BY <1>4, CacheServes, FlightStarts
<1>5. ASSUME NEW f \in flights, OverviewUncached(f) \/ FinishFlight(f) \/ FailFlight(f) PROVE DashInv'
  BY <1>5, FlightReads, FlightEnds, FlightFails
<1>. QED BY <1>1, <1>2, <1>3, <1>4, <1>5, TimePasses DEF OverviewNext

\* What an answer of the dashboard misses of the writes its request could know of was in flight
\* when the revision was read, or no trigger tells of it; and an answer is never older than the
\* time to live and one calculation (stats.go Overview, cachedOverview, freshAt).
THEOREM DashboardIsRecent == OverviewSpec => []OverviewIsRecent
<1>1. DashInv => OverviewIsRecent
  BY DEF DashInv, ReaderOK, OverviewIsRecent
<1>. QED BY <1>1, DashStarts, DashSteps, PTL DEF OverviewSpec

\* One calculation at a time for a revision and a year, a cache that is a record of both, and time
\* within its bound.
FlightsApart == \A f, g \in flights : f.revision = g.revision /\ f.year = g.year => f = g
CacheInTime  == cache = [revision |-> cache.revision, rows |-> cache.rows] /\ tick \in 0 .. LastTick

\* A request joins the calculation there is, or starts the only one.
LEMMA FlightsStayApart ==
    ASSUME DashTypes, FlightsApart, [OverviewNext]_overviewVars
    PROVE  FlightsApart'
<1>0. ASSUME flights' \subseteq flights PROVE FlightsApart'
  BY <1>0 DEF FlightsApart
<1>1. ASSUME NEW r \in Readers, NEW y \in DashYears, JoinFlight(r, y) PROVE FlightsApart'
  <2>1. CASE SameFlight(r, y) # {}
    BY <1>0, <1>1, <2>1 DEF JoinFlight
  <2>2. CASE SameFlight(r, y) = {}
    <3>1. PICK g : g.revision = reader[r].revision /\ g.year = y /\ flights' = flights \cup {g}
      BY <1>1, <2>2 DEF JoinFlight
    <3>2. \A f \in flights : ~(f.revision = g.revision /\ f.year = g.year)
      BY <2>2, <3>1 DEF SameFlight
    <3>. QED BY <3>1, <3>2 DEF FlightsApart
  <2>. QED BY <2>1, <2>2
<1>2. ASSUME NEW f \in flights, OverviewUncached(f) PROVE FlightsApart'
  <2>1. PICK g : g = [f EXCEPT !.reads = @ + 1, !.seen = @ \cap Committed] /\ flights' = (flights \ {f}) \cup {g}
    BY <1>2 DEF OverviewUncached
  <2>2. f \in FlightRow
    BY DEF DashTypes
  <2>3. g.revision = f.revision /\ g.year = f.year
    BY <2>1, <2>2 DEF FlightRow
  <2>4. flights' = (flights \ {f}) \cup {g}
    BY <2>1
  <2>5. \A p, q \in flights' : p.revision = q.revision /\ p.year = q.year => p = q
    BY <2>3, <2>4 DEF FlightsApart
  <2>. QED BY <2>5 DEF FlightsApart
<1>3. ASSUME NEW f \in flights, FinishFlight(f) \/ FailFlight(f) PROVE FlightsApart'
  BY <1>0, <1>3 DEF FinishFlight, FailFlight
<1>4. ASSUME UNCHANGED flights PROVE FlightsApart'
  BY <1>0, <1>4
<1>. QED BY <1>1, <1>2, <1>3, <1>4 DEF OverviewNext, overviewVars, WriteLedger, CommitLedger, RollbackLedger, OverviewRevision,
         CachedOverviewYears, LeaveOverview, ServeCached, Elapse

\* The cache is replaced as a whole, and time is counted up to its bound.
LEMMA CacheStays ==
    ASSUME CacheInTime, [OverviewNext]_overviewVars
    PROVE  CacheInTime'
<1>1. cache' = cache \/ \E f \in flights : cache' = StoreOverview(f)
  BY DEF OverviewNext, overviewVars, WriteLedger, CommitLedger, RollbackLedger, OverviewRevision, CachedOverviewYears,
         LeaveOverview, ServeCached, Elapse, JoinFlight, OverviewUncached, FinishFlight, FailFlight
<1>2. tick' = tick \/ (tick < LastTick /\ tick' = tick + 1)
  BY DEF OverviewNext, overviewVars, WriteLedger, CommitLedger, RollbackLedger, OverviewRevision, CachedOverviewYears,
         LeaveOverview, ServeCached, Elapse, JoinFlight, OverviewUncached, FinishFlight, FailFlight
<1>3. LastTick \in Nat
  BY OverviewAssumption DEF OverviewAssumption
<1>4. cache' = [revision |-> cache'.revision, rows |-> cache'.rows]
  BY <1>1 DEF CacheInTime, StoreOverview
<1>. QED BY <1>2, <1>3, <1>4 DEF CacheInTime

\* Every request, calculation and row of the dashboard keeps its domain, and no two calculations run
\* for one revision and year (overviewGroup).
THEOREM OverviewTypes == OverviewSpec => []OverviewTypeOK
<1>1. OverviewInit => FlightsApart /\ CacheInTime
  <2>1. LastTick \in Nat
    BY OverviewAssumption DEF OverviewAssumption
  <2>. QED BY <2>1 DEF OverviewInit, FlightsApart, CacheInTime
<1>2. DashInv /\ FlightsApart /\ CacheInTime => OverviewTypeOK
  <2>. SUFFICES ASSUME DashTypes, FlightsApart, CacheInTime PROVE OverviewTypeOK
    BY DEF DashInv
  <2>1. cache \in [revision : Nat, rows : [DashYears -> SummaryRow]]
    BY DEF DashTypes, CacheInTime
  <2>2. \A r \in Readers : reader[r].at \in {"out", "asked", "years", "waits", "answered"}
    BY DEF DashTypes, AskRow
  <2>3. /\ revision \in Nat
        /\ ledger \in [Ledgers -> [at : {"idle", "written", "committed"}, on : Nat, quiet : BOOLEAN]]
        /\ flights \subseteq FlightRow
    BY DEF DashTypes
  <2>. QED BY <2>1, <2>2, <2>3 DEF OverviewTypeOK, FlightsApart, CacheInTime, SummaryRow, FlightRow
<1>3. DashInv => DashTypes
  BY DEF DashInv
<1>. QED BY <1>1, <1>2, <1>3, DashStarts, DashSteps, FlightsStayApart, CacheStays, PTL DEF OverviewSpec

-----------------------------------------------------------------------------
(* The yard.                                                                *)

\* The fields of the rows that a bill looks at, and who has a bill.
VehicleRow(x) ==
    /\ x = [status |-> x.status, archived |-> x.archived, start |-> x.start, end |-> x.end, paid |-> x.paid, spot |-> x.spot]
    /\ x.start \in Days /\ x.end \in Nat
PauseRow(x) ==
    /\ x = [of |-> x.of, from |-> x.from, until |-> x.until, ended |-> x.ended, spot |-> x.spot, paidBefore |-> x.paidBefore]
    /\ x.of \in YardVehicles \cup {"none"} /\ x.from \in Days /\ x.until \in Nat /\ x.until <= Endless /\ x.ended \in BOOLEAN
YardRows ==
    /\ yardDay \in Days
    /\ DOMAIN vehicle = YardVehicles /\ vehicle = [v \in YardVehicles |-> vehicle[v]]
    /\ DOMAIN pause = PauseIds /\ pause = [i \in PauseIds |-> pause[i]]
    /\ \A v \in YardVehicles : VehicleRow(vehicle[v])
    /\ \A i \in PauseIds : PauseRow(pause[i]) /\ (pause[i].of = "none" \/ pause[i].of \in Known)
    /\ invoiced \in [YardVehicles -> [PeriodSet -> [on : Int, days : SUBSET Int]]]
    /\ \A v \in YardVehicles \ Known : BilledPeriods(v) = {}

\* Lock and rent of one vehicle at once.
RentDay(v, d) == vehicle[v].start <= d /\ (vehicle[v].end = Endless \/ d <= vehicle[v].end) /\ ~PausedAt(v, d)
YardInv == YardRows /\ \A v \in Known : \A p \in BilledPeriods(v) : \A d \in invoiced[v][p].days : PeriodOf(d) = p /\ RentDay(v, d)

\* Days, periods and the stand-in for no end.
LEMMA PeriodFacts ==
    /\ PeriodSet \subseteq Nat /\ \A p \in PeriodSet : p <= LastYardDay
    /\ \A d \in Int : PeriodOf(d) \in Nat => d <= LastOf(PeriodOf(d))
    /\ Endless \in Nat /\ Days \subseteq Nat /\ LastYardDay \in Nat /\ \A d \in Days : d < Endless
BY YardAssumption DEF PeriodSet, PeriodOf, PeriodDays, LastOf, Days, Endless, YardAssumption

\* The last billed period is the largest of them.
LEMMA BilledBelow ==
    ASSUME YardRows, NEW v \in YardVehicles, NEW p \in BilledPeriods(v)
    PROVE  LockedThrough(v) \in Int /\ LastOf(p) <= LockedThrough(v)
<1>. DEFINE B == BilledPeriods(v)
            U == { n \in Nat : \A q \in B : q <= n }
<1>1. B \subseteq PeriodSet /\ B \subseteq Nat /\ p \in B
  BY PeriodFacts DEF BilledPeriods
<1>2. LastYardDay \in U
  BY <1>1, PeriodFacts
<1>3. PICK n \in U : \A m \in U : n <= m
  BY <1>2, LeastOf
<1>4. n \in B
  <2>1. CASE n = 0
    BY <1>1, <1>3, <2>1
  <2>2. CASE n # 0 /\ n \notin B
    <3>1. n - 1 \in Nat /\ \A q \in B : q <= n - 1
      BY <1>1, <1>3, <2>2
    <3>2. n - 1 \in U
      BY <3>1
    <3>. QED BY <1>3, <3>2
  <2>. QED BY <2>1, <2>2
<1>5. \A q \in B : n >= q
  BY <1>1, <1>3
<1>. HIDE DEF B, U
<1>6. Max(B) \in B /\ Max(B) >= p
  BY <1>1, <1>4, <1>5 DEF Max
<1>7. PICK m \in Nat : m = Max(B)
  BY <1>1, <1>6
<1>8. LockedThrough(v) = LastOf(m)
  BY <1>1, <1>7 DEF LockedThrough, B
<1>9. p \in Nat /\ p <= m
  BY <1>1, <1>6, <1>7
<1>. QED BY <1>8, <1>9 DEF LastOf, PeriodDays

\* Bills that stay, of rent that stays as far as it is billed.
LEMMA RentStays ==
    ASSUME YardInv, YardRows', invoiced' = invoiced,
           \A v \in Known : BilledPeriods(v) # {} =>
             \A d \in Int : d <= LockedThrough(v) /\ RentDay(v, d) => RentDay(v, d)'
    PROVE  YardInv'
<1>. SUFFICES ASSUME NEW v \in YardVehicles, NEW p \in BilledPeriods(v), NEW d \in invoiced[v][p].days
              PROVE  PeriodOf(d) = p /\ RentDay(v, d)'
  BY DEF YardInv, BilledPeriods, Known
<1>1. v \in Known /\ YardRows
  BY DEF YardInv, YardRows
<1>2. PeriodOf(d) = p /\ RentDay(v, d) /\ p \in PeriodSet /\ d \in Int
  BY <1>1 DEF YardInv, BilledPeriods, YardRows
<1>3. d <= LastOf(p) /\ LastOf(p) \in Int
  BY <1>2, PeriodFacts DEF LastOf, PeriodDays
<1>4. d <= LockedThrough(v)
  BY <1>1, <1>2, <1>3, BilledBelow
<1>. QED BY <1>1, <1>2, <1>4

\* The rent of a vehicle whose start stays, whose end does not come before the billed days,
\* and that is not away for longer.
LEMMA RentMoves ==
    ASSUME YardRows, YardRows', NEW v \in Known, BilledPeriods(v) # {},
           vehicle'[v].start = vehicle[v].start,
           vehicle'[v].end = vehicle[v].end \/ ~RetractsEnd(v, vehicle'[v].end),
           \A d \in Int : d <= LockedThrough(v) /\ PausedAt(v, d)' => PausedAt(v, d)
    PROVE  \A d \in Int : d <= LockedThrough(v) /\ RentDay(v, d) => RentDay(v, d)'
<1>. SUFFICES ASSUME NEW d \in Int, d <= LockedThrough(v), RentDay(v, d) PROVE RentDay(v, d)'
  OBVIOUS
<1>1. LockedThrough(v) \in Int /\ v \in YardVehicles
  BY BilledBelow DEF Known
<1>2. vehicle'[v].end \in Nat /\ Endless \in Nat
  BY <1>1, PeriodFacts DEF YardRows, VehicleRow
<1>3. vehicle'[v].end = Endless \/ d <= vehicle'[v].end
  BY <1>1, <1>2 DEF RentDay, RetractsEnd
<1>. QED BY <1>3 DEF RentDay

\* One vehicle's row, and one pause's row.
LEMMA VehicleSet ==
    ASSUME YardRows, NEW v \in YardVehicles, NEW new, VehicleRow(new), vehicle' = [vehicle EXCEPT ![v] = new]
    PROVE  /\ vehicle'[v] = new /\ \A u \in YardVehicles : u # v => vehicle'[u] = vehicle[u]
           /\ DOMAIN vehicle' = YardVehicles /\ vehicle' = [u \in YardVehicles |-> vehicle'[u]]
           /\ \A u \in YardVehicles : VehicleRow(vehicle'[u])
BY DEF YardRows

\* One row of the pauses.
LEMMA PauseSet ==
    ASSUME YardRows, NEW i \in PauseIds, NEW new, PauseRow(new), pause' = [pause EXCEPT ![i] = new]
    PROVE  /\ pause'[i] = new /\ \A j \in PauseIds : j # i => pause'[j] = pause[j]
           /\ DOMAIN pause' = PauseIds /\ pause' = [j \in PauseIds |-> pause'[j]]
           /\ \A j \in PauseIds : PauseRow(pause'[j])
BY DEF YardRows

\* The missing rows are rows.
LEMMA MissingRows ==
    /\ NoVehicle.status = "none" /\ VehicleRow(NoVehicle)
    /\ PauseRow(NoPause) /\ NoPause.of = "none" /\ NoPause.from \in Days
BY PeriodFacts, YardAssumption DEF NoVehicle, VehicleRow, NoPause, PauseRow, Days, YardAssumption

\* The fields that a change of a vehicle leaves.
Alike(x, y) == VehicleRow(y) /\ y.start = x.start /\ y.end = x.end /\ y.status = x.status
LEMMA ArchivedAlike == ASSUME NEW x, VehicleRow(x), NEW a, NEW y, y = [x EXCEPT !.archived = a] PROVE Alike(x, y)
<1>1. y = [status |-> x.status, archived |-> a, start |-> x.start, end |-> x.end, paid |-> x.paid, spot |-> x.spot]
  BY DEF VehicleRow
<1>. QED BY <1>1 DEF VehicleRow, Alike
LEMMA SpotAlike == ASSUME NEW x, VehicleRow(x), NEW s, NEW y, y = [x EXCEPT !.spot = s] PROVE Alike(x, y)
<1>1. y = [status |-> x.status, archived |-> x.archived, start |-> x.start, end |-> x.end, paid |-> x.paid, spot |-> s]
  BY DEF VehicleRow
<1>. QED BY <1>1 DEF VehicleRow, Alike
LEMMA PaidAlike == ASSUME NEW x, VehicleRow(x), NEW p, NEW y, y = [x EXCEPT !.paid = p] PROVE Alike(x, y)
<1>1. y = [status |-> x.status, archived |-> x.archived, start |-> x.start, end |-> x.end, paid |-> p, spot |-> x.spot]
  BY DEF VehicleRow
<1>. QED BY <1>1 DEF VehicleRow, Alike
LEMMA BothAlike == ASSUME NEW x, VehicleRow(x), NEW p, NEW s, NEW y, y = [x EXCEPT !.paid = p, !.spot = s] PROVE Alike(x, y)
<1>1. y = [status |-> x.status, archived |-> x.archived, start |-> x.start, end |-> x.end, paid |-> p, spot |-> s]
  BY DEF VehicleRow
<1>. QED BY <1>1 DEF VehicleRow, Alike

\* A pause goes or does not grow.
Shrinks(x, y) == y.of = "none" \/ (y.of = x.of /\ y.from = x.from /\ BillingEnd(y) <= BillingEnd(x))
LEMMA PausesShrink ==
    ASSUME YardRows, \A i \in PauseIds : PauseRow(pause'[i]) /\ Shrinks(pause[i], pause'[i]), NEW v \in YardVehicles, NEW d \in Int,
           PausedAt(v, d)'
    PROVE  PausedAt(v, d)
<1>1. PICK i \in PauseIds : pause'[i].of = v /\ PausedBy(pause'[i], d)
  BY DEF PausedAt, PausesOf, PausedBy, BillingEnd
<1>2. v # "none"
  BY YardAssumption DEF YardAssumption
<1>3. pause[i].of = v /\ pause'[i].from = pause[i].from /\ BillingEnd(pause'[i]) <= BillingEnd(pause[i])
  BY <1>1, <1>2 DEF Shrinks
<1>4. BillingEnd(pause'[i]) \in Nat /\ BillingEnd(pause[i]) \in Nat /\ pause[i].from \in Nat
  BY PeriodFacts DEF YardRows, PauseRow, BillingEnd
<1>5. PausedBy(pause[i], d)
  BY <1>1, <1>3, <1>4 DEF PausedBy
<1>. QED BY <1>3, <1>5 DEF PausedAt, PausesOf

VehicleTable == DOMAIN vehicle = YardVehicles /\ vehicle = [v \in YardVehicles |-> vehicle[v]] /\ \A v \in YardVehicles : VehicleRow(vehicle[v])
PauseTable   == DOMAIN pause = PauseIds /\ pause = [i \in PauseIds |-> pause[i]] /\ \A i \in PauseIds : PauseRow(pause[i])

\* What does not change is alike.
LEMMA SameAlike == ASSUME NEW x, VehicleRow(x) PROVE Alike(x, x)
BY DEF Alike
LEMMA SameShrinks == ASSUME NEW x, PauseRow(x) PROVE Shrinks(x, x)
<1>1. BillingEnd(x) \in Nat
  BY PeriodFacts DEF PauseRow, BillingEnd
<1>. QED BY <1>1 DEF Shrinks

\* The vehicle of a pause is there as long as the pause is.
LEMMA OwnersStay ==
    ASSUME YardRows, Known \subseteq Known', \A i \in PauseIds : Shrinks(pause[i], pause'[i])
    PROVE  \A i \in PauseIds : pause'[i].of = "none" \/ pause'[i].of \in Known'
BY DEF YardRows, Shrinks

\* A step that changes no bill, no date of a vehicle, and no pause except that one goes or ends.
LEMMA QuietSteps ==
    ASSUME YardInv, yardDay' \in Days, invoiced' = invoiced, VehicleTable', PauseTable',
           \A v \in YardVehicles : Alike(vehicle[v], vehicle'[v]), \A i \in PauseIds : Shrinks(pause[i], pause'[i])
    PROVE  YardInv'
<1>1. YardRows
  BY DEF YardInv
<1>2. Known' = Known
  BY DEF Known, Exists, Alike
<1>3. YardRows'
  BY <1>1, <1>2, OwnersStay DEF YardRows, VehicleTable, PauseTable, BilledPeriods
<1>4. ASSUME NEW v \in Known, BilledPeriods(v) # {}
      PROVE  \A d \in Int : d <= LockedThrough(v) /\ RentDay(v, d) => RentDay(v, d)'
  <2>1. v \in YardVehicles /\ Alike(vehicle[v], vehicle'[v])
    BY DEF Known
  <2>2. \A d \in Int : PausedAt(v, d)' => PausedAt(v, d)
    BY <1>1, <2>1, PausesShrink DEF PauseTable
  <2>. QED BY <1>1, <1>3, <1>4, <2>1, <2>2, RentMoves DEF Alike
<1>. QED BY <1>1, <1>3, <1>4, RentStays

\* The rows, table by table.
LEMMA Tables == YardRows => VehicleTable /\ PauseTable /\ yardDay \in Days
BY DEF YardRows, VehicleTable, PauseTable

\* One vehicle changes alike.
LEMMA OneAlike ==
    ASSUME YardInv, NEW v \in YardVehicles, NEW new, Alike(vehicle[v], new), vehicle' = [vehicle EXCEPT ![v] = new]
    PROVE  VehicleTable' /\ \A u \in YardVehicles : Alike(vehicle[u], vehicle'[u])
<1>1. YardRows /\ VehicleRow(new) /\ \A u \in YardVehicles : VehicleRow(vehicle[u])
  BY DEF YardInv, YardRows, Alike
<1>2. \A u \in YardVehicles : u # v => Alike(vehicle[u], vehicle'[u])
  BY <1>1, VehicleSet, SameAlike
<1>. QED BY <1>1, <1>2, VehicleSet DEF VehicleTable

\* One pause goes or ends.
LEMMA OneShrinks ==
    ASSUME YardInv, NEW i \in PauseIds, NEW new, PauseRow(new), Shrinks(pause[i], new), pause' = [pause EXCEPT ![i] = new]
    PROVE  PauseTable' /\ \A j \in PauseIds : Shrinks(pause[j], pause'[j])
<1>1. YardRows /\ \A j \in PauseIds : PauseRow(pause[j])
  BY DEF YardInv, YardRows
<1>2. \A j \in PauseIds : j # i => Shrinks(pause[j], pause'[j])
  BY <1>1, PauseSet, SameShrinks
<1>. QED BY <1>1, <1>2, PauseSet DEF PauseTable

\* A table that stands still.
LEMMA NothingElse ==
    ASSUME YardInv
    PROVE  /\ UNCHANGED vehicle => VehicleTable' /\ \A v \in YardVehicles : Alike(vehicle[v], vehicle'[v])
           /\ UNCHANGED pause => PauseTable' /\ \A i \in PauseIds : Shrinks(pause[i], pause'[i])
           /\ UNCHANGED yardDay => yardDay' \in Days
<1>1. VehicleTable /\ PauseTable /\ yardDay \in Days
  BY Tables DEF YardInv
<1>2. \A v \in YardVehicles : Alike(vehicle[v], vehicle[v])
  BY <1>1, SameAlike DEF VehicleTable
<1>3. \A i \in PauseIds : Shrinks(pause[i], pause[i])
  BY <1>1, SameShrinks DEF PauseTable
<1>. QED BY <1>1, <1>2, <1>3 DEF VehicleTable, PauseTable

-----------------------------------------------------------------------------
\* Payment, archive, spots, the next day.
LEMMA PaymentStep == ASSUME YardInv, NEW v \in YardVehicles, NEW on \in BOOLEAN, MarkPaid(v, on) PROVE YardInv'
<1>1. PICK paid : vehicle' = [vehicle EXCEPT ![v].paid = paid]
  BY DEF MarkPaid
<1>2. PICK new : new = [vehicle[v] EXCEPT !.paid = paid]
  OBVIOUS
<1>3. vehicle' = [vehicle EXCEPT ![v] = new] /\ VehicleRow(vehicle[v])
  BY <1>1, <1>2 DEF YardInv, YardRows
<1>4. Alike(vehicle[v], new)
  BY <1>2, <1>3, PaidAlike
<1>5. UNCHANGED <<yardDay, pause, invoiced>>
  BY DEF MarkPaid
<1>. QED BY <1>3, <1>4, <1>5, OneAlike, NothingElse, QuietSteps

\* Into the archive and back.
LEMMA ArchiveStep == ASSUME YardInv, NEW v \in YardVehicles, AutoArchive(v) \/ ReactivateVehicle(v) PROVE YardInv'
<1>1. PICK a : vehicle' = [vehicle EXCEPT ![v].archived = a]
  BY DEF AutoArchive, ReactivateVehicle
<1>2. PICK new : new = [vehicle[v] EXCEPT !.archived = a]
  OBVIOUS
<1>3. vehicle' = [vehicle EXCEPT ![v] = new] /\ VehicleRow(vehicle[v])
  BY <1>1, <1>2 DEF YardInv, YardRows
<1>4. Alike(vehicle[v], new)
  BY <1>2, <1>3, ArchivedAlike
<1>5. UNCHANGED <<yardDay, pause, invoiced>>
  BY DEF AutoArchive, ReactivateVehicle
<1>. QED BY <1>3, <1>4, <1>5, OneAlike, NothingElse, QuietSteps

\* A vehicle is put on a spot.
LEMMA AssignStep == ASSUME YardInv, NEW s, NEW v \in YardVehicles, AssignSpotVehicle(s, v) PROVE YardInv'
<1>1. PICK new : new = [vehicle[v] EXCEPT !.spot = s]
  OBVIOUS
<1>2. vehicle' = [vehicle EXCEPT ![v] = new] /\ VehicleRow(vehicle[v])
  BY <1>1 DEF YardInv, YardRows, AssignSpotVehicle
<1>3. Alike(vehicle[v], new)
  BY <1>1, <1>2, SpotAlike
<1>4. UNCHANGED <<yardDay, pause, invoiced>>
  BY DEF AssignSpotVehicle
<1>. QED BY <1>2, <1>3, <1>4, OneAlike, NothingElse, QuietSteps

\* Vehicles that lose their spot.
LEMMA WithoutAlike ==
    ASSUME YardInv, NEW gone, vehicle' = Without(gone)
    PROVE  VehicleTable' /\ \A v \in YardVehicles : Alike(vehicle[v], vehicle'[v])
<1>1. \A v \in YardVehicles : VehicleRow(vehicle[v])
  BY DEF YardInv, YardRows
<1>2. ASSUME NEW v \in YardVehicles PROVE Alike(vehicle[v], vehicle'[v])
  <2>1. vehicle'[v] = [vehicle[v] EXCEPT !.spot = NoSpot] \/ vehicle'[v] = vehicle[v]
    BY DEF Without
  <2>. QED BY <1>1, <2>1, SpotAlike, SameAlike
<1>. QED BY <1>2 DEF VehicleTable, Without, Alike

\* Spots are deleted.
LEMMA SpotsGoStep == ASSUME YardInv, NEW gone, DeleteSpots(gone) PROVE YardInv'
<1>1. \A i \in PauseIds : PauseRow(pause[i])
  BY DEF YardInv, YardRows
<1>2. ASSUME NEW i \in PauseIds PROVE PauseRow(pause'[i]) /\ Shrinks(pause[i], pause'[i])
  <2>1. CASE pause'[i] = pause[i]
    BY <1>1, <2>1, SameShrinks
  <2>2. CASE pause'[i] = [pause[i] EXCEPT !.spot = NoSpot]
    <3>a. PICK new : new = pause'[i]
      OBVIOUS
    <3>1. new = [of |-> pause[i].of, from |-> pause[i].from, until |-> pause[i].until, ended |-> pause[i].ended,
                       spot |-> NoSpot, paidBefore |-> pause[i].paidBefore]
      BY <1>1, <2>2, <3>a DEF PauseRow
    <3>2. PauseRow(new) /\ BillingEnd(new) = BillingEnd(pause[i]) /\ BillingEnd(pause[i]) \in Nat
      BY <1>1, <3>1, PeriodFacts DEF PauseRow, BillingEnd
    <3>. QED BY <3>a, <3>1, <3>2 DEF Shrinks
  <2>. QED BY <2>1, <2>2 DEF DeleteSpots
<1>3. PauseTable'
  BY <1>2 DEF DeleteSpots, PauseTable
<1>. QED BY <1>2, <1>3, WithoutAlike, NothingElse, QuietSteps DEF DeleteSpots

-----------------------------------------------------------------------------
\* A vehicle gets new dates or a new status; its bills stand.
LEMMA DatesStep ==
    ASSUME YardInv, NEW v \in Known, NEW new, VehicleRow(new), new.status # "none", vehicle' = [vehicle EXCEPT ![v] = new],
           BilledPeriods(v) # {} => new.start = vehicle[v].start /\ ~RetractsEnd(v, new.end),
           yardDay' \in Days, invoiced' = invoiced, PauseTable', \A i \in PauseIds : Shrinks(pause[i], pause'[i])
    PROVE  YardInv'
<1>1. YardRows /\ v \in YardVehicles
  BY DEF YardInv, Known
<1>2. vehicle'[v] = new /\ VehicleTable' /\ \A u \in YardVehicles : u # v => vehicle'[u] = vehicle[u]
  BY <1>1, VehicleSet DEF VehicleTable
<1>3. Known' = Known
  BY <1>2 DEF Known, Exists
<1>4. YardRows'
  BY <1>1, <1>2, <1>3, OwnersStay DEF YardRows, VehicleTable, PauseTable, BilledPeriods
<1>5. ASSUME NEW u \in Known, BilledPeriods(u) # {}
      PROVE  \A d \in Int : d <= LockedThrough(u) /\ RentDay(u, d) => RentDay(u, d)'
  <2>1. u \in YardVehicles
    BY DEF Known
  <2>2. \A d \in Int : PausedAt(u, d)' => PausedAt(u, d)
    BY <1>1, <2>1, PausesShrink DEF PauseTable
  <2>3. vehicle'[u].start = vehicle[u].start /\ (vehicle'[u].end = vehicle[u].end \/ ~RetractsEnd(u, vehicle'[u].end))
    BY <1>2, <1>5, <2>1
  <2>. QED BY <1>1, <1>4, <1>5, <2>1, <2>2, <2>3, RentMoves
<1>. QED BY <1>1, <1>4, <1>5, RentStays

\* The days and states that are entered are days and states of the yard.
LEMMA Entries == /\ StartDays \subseteq Days /\ EndDays \subseteq Days /\ PauseDays \subseteq Days
                 /\ EndDays \cup {Endless} \subseteq Nat /\ \A d \in Days : d <= Endless
<1>1. StartDays \subseteq Days /\ EndDays \subseteq Days /\ PauseDays \subseteq Days
  BY YardAssumption DEF YardAssumption
<1>. QED BY <1>1, PeriodFacts

\* The form of the vehicle: a billed vehicle keeps its start and its billed days.
LEMMA UpdateStep ==
    ASSUME YardInv, NEW v \in YardVehicles, NEW status \in {"reserved", "stored"} \cup Closing, NEW start \in StartDays,
           NEW end \in EndDays \cup {Endless}, UpdateVehicle(v, status, start, end)
    PROVE  YardInv'
<1>1. PICK spot : vehicle' = [vehicle EXCEPT ![v] = [@ EXCEPT !.status = status, !.start = start, !.end = end, !.spot = spot]]
  BY DEF UpdateVehicle
<1>2. PICK new : new = [vehicle[v] EXCEPT !.status = status, !.start = start, !.end = end, !.spot = spot]
  OBVIOUS
<1>3. v \in Known /\ VehicleRow(vehicle[v]) /\ vehicle' = [vehicle EXCEPT ![v] = new]
  BY <1>1, <1>2 DEF YardInv, YardRows, UpdateVehicle, Known
<1>4. new = [status |-> status, archived |-> vehicle[v].archived, start |-> start, end |-> end, paid |-> vehicle[v].paid,
             spot |-> spot]
  BY <1>2, <1>3 DEF VehicleRow
<1>5. VehicleRow(new) /\ new.status # "none" /\ new.start = start /\ new.end = end
  BY <1>4, Entries DEF VehicleRow, Closing
<1>6. BilledPeriods(v) # {} => new.start = vehicle[v].start /\ ~RetractsEnd(v, new.end)
  BY <1>5 DEF UpdateVehicle, FinanciallyLocked
<1>7. UNCHANGED <<yardDay, pause, invoiced>>
  BY DEF UpdateVehicle
<1>. QED BY <1>3, <1>5, <1>6, <1>7, NothingElse, DatesStep

\* A rental ends: not before the billed days.
LEMMA CloseSteps ==
    ASSUME YardInv, NEW v \in Known, NEW status \in Closing, NEW end \in Nat, CloseOn(v, status, end),
           yardDay' \in Days, invoiced' = invoiced, PauseTable', \A i \in PauseIds : Shrinks(pause[i], pause'[i])
    PROVE  YardInv'
<1>1. PICK new : new = [vehicle[v] EXCEPT !.status = status, !.end = end, !.spot = NoSpot]
  OBVIOUS
<1>2. VehicleRow(vehicle[v]) /\ vehicle' = [vehicle EXCEPT ![v] = new] /\ ~RetractsEnd(v, end)
  BY <1>1 DEF YardInv, YardRows, CloseOn, Known
<1>3. new = [status |-> status, archived |-> vehicle[v].archived, start |-> vehicle[v].start, end |-> end,
             paid |-> vehicle[v].paid, spot |-> NoSpot]
  BY <1>1, <1>2 DEF VehicleRow
<1>4. VehicleRow(new) /\ new.status # "none" /\ new.start = vehicle[v].start /\ new.end = end
  BY <1>2, <1>3 DEF VehicleRow, Closing
<1>. QED BY <1>2, <1>4, DatesStep

\* A new status: the end is the day given, the planned one, today, or none.
LEMMA StatusStep ==
    ASSUME YardInv, NEW v \in YardVehicles, NEW status \in {"reserved", "stored"} \cup Closing, NEW date \in EndDays \cup {Never},
           ChangeVehicleStatus(v, status, date)
    PROVE  YardInv'
<1>1. v \in Known /\ UNCHANGED <<yardDay, pause, invoiced>> /\ VehicleRow(vehicle[v]) /\ yardDay \in Days
  BY DEF ChangeVehicleStatus, Known, YardInv, YardRows
<1>2. CASE status \in Closing
  <2>1. ClosingDay(v, status, date) \in Nat
    BY <1>1, Entries, PeriodFacts DEF ClosingDay, VehicleRow
  <2>2. CloseOn(v, status, ClosingDay(v, status, date))
    BY <1>2 DEF ChangeVehicleStatus
  <2>3. PICK end \in Nat : end = ClosingDay(v, status, date)
    BY <2>1
  <2>. QED BY <1>1, <1>2, <2>2, <2>3, NothingElse, CloseSteps
<1>3. CASE status \notin Closing
  <2>1. PICK new : new = [vehicle[v] EXCEPT !.status = status, !.end = Endless]
    OBVIOUS
  <2>2. vehicle' = [vehicle EXCEPT ![v] = new]
    BY <1>1, <1>3, <2>1 DEF ChangeVehicleStatus, YardInv, YardRows
  <2>3. new = [status |-> status, archived |-> vehicle[v].archived, start |-> vehicle[v].start, end |-> Endless,
               paid |-> vehicle[v].paid, spot |-> vehicle[v].spot]
    BY <1>1, <2>1 DEF VehicleRow
  <2>4. VehicleRow(new) /\ new.status # "none" /\ new.start = vehicle[v].start /\ ~RetractsEnd(v, new.end)
    BY <1>1, <1>3, <2>3, PeriodFacts DEF VehicleRow, RetractsEnd
  <2>. QED BY <1>1, <2>2, <2>4, NothingElse, DatesStep
<1>. QED BY <1>2, <1>3

\* A vehicle comes, or goes without a bill.
LEMMA InsertStep ==
    ASSUME YardInv, NEW v \in YardVehicles, NEW status \in {"reserved", "stored"}, NEW start \in StartDays,
           NEW end \in EndDays \cup {Endless}, InsertVehicle(v, status, start, end)
    PROVE  YardInv'
<1>1. PICK new : new = [NoVehicle EXCEPT !.status = status, !.start = start, !.end = end]
  OBVIOUS
<1>2. vehicle' = [vehicle EXCEPT ![v] = new] /\ v \notin Known /\ UNCHANGED <<yardDay, pause, invoiced>> /\ YardRows
  BY <1>1 DEF InsertVehicle, Known, YardInv
<1>3. new = [status |-> status, archived |-> FALSE, start |-> start, end |-> end, paid |-> Never, spot |-> NoSpot]
  BY <1>1 DEF NoVehicle
<1>4. VehicleRow(new)
  BY <1>3, Entries DEF VehicleRow
<1>5. /\ vehicle'[v] = new /\ VehicleTable' /\ \A u \in YardVehicles : u # v => vehicle'[u] = vehicle[u]
      /\ BilledPeriods(v) = {}
  BY <1>2, <1>4, VehicleSet DEF VehicleTable, YardRows
<1>6. YardRows'
  <2>1. Known \subseteq Known' /\ Known' = Known \cup {v}
    BY <1>2, <1>4, <1>3, <1>5 DEF Known, Exists
  <2>2. /\ pause' = pause /\ DOMAIN pause = PauseIds /\ pause = [i \in PauseIds |-> pause[i]]
        /\ \A i \in PauseIds : PauseRow(pause[i]) /\ (pause[i].of = "none" \/ pause[i].of \in Known)
    BY <1>2 DEF YardRows
  <2>. QED BY <1>2, <1>5, <2>1, <2>2 DEF YardRows, VehicleTable, BilledPeriods
<1>7. ASSUME NEW u \in Known PROVE \A d \in Int : RentDay(u, d) => RentDay(u, d)'
  BY <1>2, <1>5 DEF RentDay, PausedAt, PausesOf, Known
<1>. QED BY <1>2, <1>6, <1>7, RentStays

\* A vehicle without bills goes, with its pauses.
LEMMA DeleteStep == ASSUME YardInv, NEW v \in YardVehicles, DeleteVehicle(v) PROVE YardInv'
<1>1. /\ vehicle' = [vehicle EXCEPT ![v] = NoVehicle] /\ BilledPeriods(v) = {} /\ UNCHANGED <<yardDay, invoiced>> /\ YardRows
      /\ pause' = [i \in PauseIds |-> IF pause[i].of = v THEN NoPause ELSE pause[i]]
  BY DEF DeleteVehicle, FinanciallyLocked, YardInv
<1>2. vehicle'[v] = NoVehicle /\ VehicleTable' /\ \A u \in YardVehicles : u # v => vehicle'[u] = vehicle[u]
  BY <1>1, MissingRows, VehicleSet DEF VehicleTable
<1>3. \A i \in PauseIds : PauseRow(pause'[i]) /\ Shrinks(pause[i], pause'[i])
  BY <1>1, MissingRows, SameShrinks DEF YardRows, Shrinks
<1>4. YardRows'
  <2>1. Known' = Known \ {v}
    BY <1>2, MissingRows DEF Known, Exists
  <2>2. \A i \in PauseIds : pause'[i].of = "none" \/ pause'[i].of \in Known'
    BY <1>1, <2>1, MissingRows DEF YardRows
  <2>3. DOMAIN pause' = PauseIds /\ pause' = [i \in PauseIds |-> pause'[i]]
    BY <1>1
  <2>. QED BY <1>1, <1>2, <1>3, <2>1, <2>2, <2>3 DEF YardRows, VehicleTable, BilledPeriods
<1>5. ASSUME NEW u \in Known, BilledPeriods(u) # {}
      PROVE  \A d \in Int : d <= LockedThrough(u) /\ RentDay(u, d) => RentDay(u, d)'
  <2>1. u \in YardVehicles /\ u # v
    BY <1>1, <1>5 DEF Known
  <2>2. \A d \in Int : PausedAt(u, d)' => PausedAt(u, d)
    BY <1>1, <1>3, <2>1, PausesShrink
  <2>. QED BY <1>1, <1>2, <1>4, <1>5, <2>1, <2>2, RentMoves
<1>. QED BY <1>1, <1>4, <1>5, RentStays

-----------------------------------------------------------------------------
\* Pauses.
LEMMA StartStep ==
    ASSUME YardInv, NEW v \in YardVehicles, NEW i \in PauseIds, NEW from \in PauseDays, NEW until \in PauseDays \cup {Endless},
           NEW hold \in BOOLEAN, StartPause(v, i, from, until, hold)
    PROVE  YardInv'
<1>1. PICK spot : pause' = [pause EXCEPT ![i] = [NoPause EXCEPT !.of = v, !.from = from, !.until = until, !.spot = spot]]
  BY DEF StartPause
<1>2. PICK new : new = [NoPause EXCEPT !.of = v, !.from = from, !.until = until, !.spot = spot]
  OBVIOUS
<1>3. new = [of |-> v, from |-> from, until |-> until, ended |-> FALSE, spot |-> spot, paidBefore |-> Never]
  BY <1>2 DEF NoPause
<1>4. from \in Days /\ until \in Nat /\ until <= Endless /\ Days \subseteq Nat
  BY Entries, PeriodFacts
<1>5. PauseRow(new) /\ new.of = v /\ new.from = from
  BY <1>3, <1>4 DEF PauseRow
<1>6. /\ YardRows /\ pause' = [pause EXCEPT ![i] = new] /\ from > LockedThrough(v) /\ UNCHANGED <<yardDay, invoiced>>
      /\ vehicle[v].status = "stored"
  BY <1>1, <1>2 DEF YardInv, StartPause
<1>7. PauseTable' /\ pause'[i] = new /\ \A j \in PauseIds : j # i => pause'[j] = pause[j]
  BY <1>5, <1>6, PauseSet DEF PauseTable
<1>8. VehicleTable' /\ \A u \in YardVehicles : Alike(vehicle[u], vehicle'[u])
  <2>1. CASE hold
    BY <2>1, NothingElse DEF StartPause
  <2>2. CASE ~hold
    <3>1. PICK row : row = [vehicle[v] EXCEPT !.spot = NoSpot]
      OBVIOUS
    <3>2. vehicle' = [vehicle EXCEPT ![v] = row] /\ VehicleRow(vehicle[v])
      BY <1>6, <2>2, <3>1 DEF StartPause, YardRows
    <3>. QED BY <3>1, <3>2, SpotAlike, OneAlike
  <2>. QED BY <2>1, <2>2
<1>9. YardRows'
  <2>1. Known' = Known
    BY <1>8 DEF Known, Exists, Alike
  <2>2. v \in Known
    BY <1>6 DEF Known, Exists
  <2>3. \A j \in PauseIds : pause'[j].of = "none" \/ pause'[j].of \in Known'
    BY <1>5, <1>6, <1>7, <2>1, <2>2 DEF YardRows
  <2>. QED BY <1>6, <1>7, <1>8, <2>1, <2>3 DEF YardRows, VehicleTable, PauseTable, BilledPeriods
<1>10. ASSUME NEW u \in Known, BilledPeriods(u) # {}
       PROVE  \A d \in Int : d <= LockedThrough(u) /\ RentDay(u, d) => RentDay(u, d)'
  <2>1. u \in YardVehicles /\ LockedThrough(u) \in Int
    BY <1>6, <1>10, BilledBelow DEF Known
  <2>2. ASSUME NEW d \in Int, d <= LockedThrough(u), PausedAt(u, d)' PROVE PausedAt(u, d)
    <3>1. PICK j \in PauseIds : pause'[j].of = u /\ PausedBy(pause'[j], d)
      BY <2>2 DEF PausedAt, PausesOf, PausedBy, BillingEnd
    <3>2. j # i
      <4>. SUFFICES ASSUME j = i PROVE FALSE
        OBVIOUS
      <4>1. u = v /\ from <= d
        BY <1>5, <1>7, <3>1 DEF PausedBy
      <4>. QED BY <1>4, <1>6, <2>1, <2>2, <4>1
    <3>. QED BY <1>7, <3>1, <3>2 DEF PausedAt, PausesOf
  <2>. QED BY <1>6, <1>8, <1>9, <1>10, <2>1, <2>2, RentMoves DEF Alike
<1>. QED BY <1>6, <1>9, <1>10, RentStays

\* The planned return moves: the rent stays suspended as it is.
LEMMA ExtendStep ==
    ASSUME YardInv, NEW i \in PauseIds, NEW until \in PauseDays \cup {Endless}, ExtendPause(i, until)
    PROVE  YardInv'
<1>1. PICK new : new = [pause[i] EXCEPT !.until = until]
  OBVIOUS
<1>2. /\ YardRows /\ PauseRow(pause[i]) /\ pause' = [pause EXCEPT ![i] = new] /\ ~pause[i].ended
      /\ UNCHANGED <<yardDay, vehicle, invoiced>>
  BY <1>1 DEF YardInv, YardRows, ExtendPause, Running
<1>3. new = [of |-> pause[i].of, from |-> pause[i].from, until |-> until, ended |-> pause[i].ended, spot |-> pause[i].spot,
             paidBefore |-> pause[i].paidBefore]
  BY <1>1, <1>2 DEF PauseRow
<1>4. until \in Nat /\ until <= Endless /\ Endless \in Nat
  BY Entries, PeriodFacts
<1>5. PauseRow(new) /\ Shrinks(pause[i], new)
  BY <1>2, <1>3, <1>4 DEF PauseRow, Shrinks, BillingEnd
<1>. QED BY <1>2, <1>5, OneShrinks, NothingElse, QuietSteps

\* The vehicle is back: the pause ends before the day of the return, or is dropped.
LEMMA ReturnStep == ASSUME YardInv, NEW i \in PauseIds, NEW on \in Days, ReturnFromPause(i, on) PROVE YardInv'
<1>1. /\ YardRows /\ PauseRow(pause[i]) /\ Running(i) /\ on >= pause[i].from /\ UNCHANGED <<yardDay, invoiced>>
      /\ pause[i].of \in YardVehicles /\ VehicleRow(vehicle[pause[i].of])
  BY DEF YardInv, YardRows, PauseRow, Running, ReturnFromPause
<1>2. PICK v \in YardVehicles : v = pause[i].of
  BY <1>1
<1>3. CASE on = pause[i].from
  <2>1. pause' = [pause EXCEPT ![i] = NoPause] /\ vehicle' = [vehicle EXCEPT ![v].spot = Relinked(i)]
    BY <1>2, <1>3 DEF ReturnFromPause
  <2>2. PICK new : new = [vehicle[v] EXCEPT !.spot = Relinked(i)]
    OBVIOUS
  <2>3. vehicle' = [vehicle EXCEPT ![v] = new] /\ Alike(vehicle[v], new)
    BY <1>1, <1>2, <2>1, <2>2, SpotAlike DEF YardRows
  <2>4. Shrinks(pause[i], NoPause) /\ PauseRow(NoPause)
    BY MissingRows DEF Shrinks
  <2>. QED BY <1>1, <2>1, <2>3, <2>4, OneAlike, OneShrinks, NothingElse, QuietSteps
<1>4. CASE on # pause[i].from
  <2>1. PICK new : new = [pause[i] EXCEPT !.until = on - 1, !.ended = TRUE, !.paidBefore = vehicle[v].paid]
    OBVIOUS
  <2>2. PICK row : row = [vehicle[v] EXCEPT !.paid = PaidAfterReturn(i, on), !.spot = Relinked(i)]
    OBVIOUS
  <2>3. pause' = [pause EXCEPT ![i] = new] /\ vehicle' = [vehicle EXCEPT ![v] = row]
    BY <1>1, <1>2, <1>4, <2>1, <2>2 DEF ReturnFromPause, YardRows
  <2>4. Alike(vehicle[v], row)
    BY <1>1, <1>2, <2>2, BothAlike
  <2>5. new = [of |-> pause[i].of, from |-> pause[i].from, until |-> on - 1, ended |-> TRUE, spot |-> pause[i].spot,
               paidBefore |-> vehicle[v].paid]
    BY <1>1, <2>1 DEF PauseRow
  <2>6. on - 1 \in Nat /\ on - 1 <= Endless /\ Endless \in Nat
    <3>1. on \in Nat /\ pause[i].from \in Nat /\ on < Endless /\ Endless \in Nat
      BY <1>1, PeriodFacts DEF PauseRow
    <3>. QED BY <1>1, <1>4, <3>1
  <2>7. PauseRow(new) /\ Shrinks(pause[i], new)
    BY <1>1, <2>5, <2>6 DEF PauseRow, Shrinks, BillingEnd, Running
  <2>. QED BY <1>1, <2>3, <2>4, <2>7, OneAlike, OneShrinks, NothingElse, QuietSteps
<1>. QED BY <1>3, <1>4

\* The vehicle is collected out of the pause.
LEMMA CollectStep == ASSUME YardInv, NEW i \in PauseIds, CollectFromPause(i) PROVE YardInv'
<1>1. PICK v \in YardVehicles : /\ v = pause[i].of /\ CloseOn(v, "collected", pause[i].from)
                                /\ pause' = [pause EXCEPT ![i] = NoPause] /\ UNCHANGED <<yardDay, invoiced>>
  BY DEF CollectFromPause
<1>2. PauseRow(pause[i]) /\ Shrinks(pause[i], NoPause) /\ PauseRow(NoPause)
  BY MissingRows DEF Shrinks, YardInv, YardRows
<1>3. PauseTable' /\ \A j \in PauseIds : Shrinks(pause[j], pause'[j])
  BY <1>1, <1>2, OneShrinks
<1>4. PICK end \in Nat : end = pause[i].from
  BY <1>2, PeriodFacts DEF PauseRow
<1>5. v \in Known
  <2>1. v # "none"
    BY YardAssumption DEF YardAssumption
  <2>. QED BY <1>1, <2>1 DEF YardInv, YardRows
<1>6. CloseOn(v, "collected", end) /\ "collected" \in Closing
  BY <1>1, <1>4 DEF Closing
<1>7. yardDay' \in Days /\ invoiced' = invoiced
  BY <1>1 DEF YardInv, YardRows
<1>. QED BY <1>3, <1>5, <1>6, <1>7, CloseSteps

\* A pause is deleted.
LEMMA DropStep == ASSUME YardInv, NEW i \in PauseIds, DeletePause(i) PROVE YardInv'
<1>1. /\ YardRows /\ pause[i].of \in YardVehicles /\ VehicleRow(vehicle[pause[i].of]) /\ UNCHANGED <<yardDay, invoiced>>
      /\ pause' = [pause EXCEPT ![i] = NoPause]
  BY DEF YardInv, YardRows, PauseRow, DeletePause
<1>2. PICK v \in YardVehicles : v = pause[i].of
  BY <1>1
<1>3. PICK paid, spot : vehicle' = [vehicle EXCEPT ![v] = [@ EXCEPT !.paid = paid, !.spot = spot]]
  BY <1>2 DEF DeletePause
<1>4. PICK new : new = [vehicle[v] EXCEPT !.paid = paid, !.spot = spot]
  OBVIOUS
<1>5. vehicle' = [vehicle EXCEPT ![v] = new] /\ Alike(vehicle[v], new)
  BY <1>1, <1>2, <1>3, <1>4, BothAlike DEF YardRows
<1>6. Shrinks(pause[i], NoPause) /\ PauseRow(NoPause)
  BY MissingRows DEF Shrinks
<1>. QED BY <1>1, <1>5, <1>6, OneAlike, OneShrinks, NothingElse, QuietSteps

-----------------------------------------------------------------------------
\* A bill is issued for days of rent, or taken back whole.
LEMMA BillStep == ASSUME YardInv, NEW v \in YardVehicles, InvoiceVehicle(v) PROVE YardInv'
<1>1. /\ YardRows /\ v \in Known /\ UNCHANGED <<yardDay, vehicle, pause>>
      /\ invoiced' = [invoiced EXCEPT ![v] = [p \in PeriodSet |->
           IF p \in ToInvoice(v) THEN [on |-> yardDay, days |-> Billable(v, p)] ELSE @[p]]]
  BY DEF YardInv, InvoiceVehicle, Known
<1>2. \A p \in PeriodSet : Billable(v, p) \subseteq Int /\ yardDay \in Int
  BY <1>1, PeriodFacts DEF Billable, RentDays, YardRows
<1>3. /\ invoiced' \in [YardVehicles -> [PeriodSet -> [on : Int, days : SUBSET Int]]]
      /\ \A u \in YardVehicles : u # v => invoiced'[u] = invoiced[u]
      /\ \A p \in PeriodSet : \/ invoiced'[v][p] = invoiced[v][p]
                              \/ invoiced'[v][p].days = Billable(v, p)
  BY <1>1, <1>2 DEF YardRows
<1>4. YardRows'
  <2>1. Known' = Known
    BY <1>1 DEF Known, Exists
  <2>2. \A u \in YardVehicles \ Known : BilledPeriods(u)' = {}
    BY <1>1, <1>3 DEF YardRows, BilledPeriods
  <2>. QED BY <1>1, <1>3, <2>1, <2>2 DEF YardRows
<1>5. ASSUME NEW u \in Known, NEW p \in BilledPeriods(u)', NEW d \in invoiced'[u][p].days
      PROVE  PeriodOf(d) = p /\ RentDay(u, d)
  <2>1. p \in PeriodSet /\ u \in YardVehicles
    BY DEF BilledPeriods, Known
  <2>2. CASE invoiced'[u][p] = invoiced[u][p]
    BY <1>5, <2>1, <2>2 DEF YardInv, BilledPeriods
  <2>3. CASE u = v /\ invoiced'[v][p].days = Billable(v, p)
    BY <1>5, <2>1, <2>3, <1>1 DEF Billable, RentDays, RentDay, YardRows, VehicleRow
  <2>. QED BY <1>3, <2>1, <2>2, <2>3
<1>. QED BY <1>1, <1>4, <1>5 DEF YardInv, RentDay, PausedAt, PausesOf, Known, Exists

\* A bill is cancelled: its periods are open again.
LEMMA CancelStep == ASSUME YardInv, NEW v \in YardVehicles, NEW on, CancelVehicleInvoice(v, on) PROVE YardInv'
<1>1. /\ YardRows /\ UNCHANGED <<yardDay, vehicle, pause>>
      /\ invoiced' = [invoiced EXCEPT ![v] = [p \in PeriodSet |-> IF @[p].on = on THEN NotBilled ELSE @[p]]]
  BY DEF YardInv, CancelVehicleInvoice
<1>2. NotBilled \in [on : Int, days : SUBSET Int]
  BY DEF NotBilled, Never
<1>3. /\ invoiced' \in [YardVehicles -> [PeriodSet -> [on : Int, days : SUBSET Int]]]
      /\ \A u \in YardVehicles : \A p \in PeriodSet : invoiced'[u][p] = invoiced[u][p] \/ invoiced'[u][p] = NotBilled
  BY <1>1, <1>2 DEF YardRows
<1>4. YardRows'
  <2>1. Known' = Known
    BY <1>1 DEF Known, Exists
  <2>2. \A u \in YardVehicles \ Known : BilledPeriods(u)' = {}
    BY <1>1, <1>3 DEF YardRows, BilledPeriods
  <2>. QED BY <1>1, <1>3, <2>1, <2>2 DEF YardRows
<1>5. ASSUME NEW u \in Known, NEW p \in BilledPeriods(u)'
      PROVE  p \in BilledPeriods(u) /\ invoiced'[u][p] = invoiced[u][p]
  BY <1>3 DEF BilledPeriods, Known
<1>. QED BY <1>1, <1>4, <1>5 DEF YardInv, RentDay, PausedAt, PausesOf, Known, Exists

\* The empty yard.
LEMMA YardStarts == YardInit => YardInv
<1>. SUFFICES ASSUME YardInit PROVE YardInv
  OBVIOUS
<1>1. YardRows
  BY MissingRows, PeriodFacts DEF YardInit, YardRows, BilledPeriods, NotBilled, Never, Days
<1>2. Known = {}
  BY MissingRows DEF YardInit, Known, Exists
<1>. QED BY <1>1, <1>2 DEF YardInv

\* Every step of the yard.
LEMMA YardSteps == YardInv /\ [YardNext]_yardVars => YardInv'
<1>. SUFFICES ASSUME YardInv, [YardNext]_yardVars PROVE YardInv'
  OBVIOUS
<1>1. CASE VehicleStep
  BY <1>1, InsertStep, UpdateStep, StatusStep, PaymentStep, DeleteStep, ArchiveStep, BillStep, CancelStep DEF VehicleStep
<1>2. CASE SpotsGo
  BY <1>2, SpotsGoStep DEF SpotsGo
<1>3. CASE SpotStep
  <2>1. ASSUME NEW s \in Spots, CreateSpot(s) PROVE YardInv'
    BY <2>1, NothingElse, QuietSteps DEF CreateSpot
  <2>2. ASSUME NEW s \in Spots, UnassignSpotVehicle(s) PROVE YardInv'
    BY <2>2, WithoutAlike, NothingElse, QuietSteps DEF UnassignSpotVehicle
  <2>. QED BY <1>3, <2>1, <2>2, AssignStep DEF SpotStep
<1>4. CASE PauseStep
  BY <1>4, StartStep, ExtendStep, ReturnStep, CollectStep, DropStep DEF PauseStep
<1>5. CASE NextDay
  <2>1. yardDay' \in Days
    BY <1>5, PeriodFacts DEF NextDay, YardInv, YardRows, Days
  <2>. QED BY <1>5, <2>1, NothingElse, QuietSteps DEF NextDay
<1>6. CASE UNCHANGED yardVars
  BY <1>6, NothingElse, QuietSteps DEF yardVars
<1>. QED BY <1>1, <1>2, <1>3, <1>4, <1>5, <1>6 DEF YardNext

\* An issued invoice stays right: no pause, return, correction or new date changes which days of a
\* billed period are rent (pauseLockedThrough, endDateRetractsBelowInvoiced, guardInvoicedPartialExtension).
THEOREM InvoicesStand == YardSpec => []InvoicedDaysStand
<1>1. YardInv => InvoicedDaysStand
  <2>. SUFFICES ASSUME YardInv, NEW v \in Known, NEW p \in BilledPeriods(v), NEW d \in invoiced[v][p].days
                PROVE  d \in RentDays(v, LastOf(p)) /\ PeriodOf(d) = p
    BY DEF InvoicedDaysStand
  <2>1. PeriodOf(d) = p /\ RentDay(v, d) /\ p \in PeriodSet /\ d \in Int /\ VehicleRow(vehicle[v])
    BY DEF YardInv, YardRows, BilledPeriods, Known
  <2>2. d <= LastOf(p)
    BY <2>1, PeriodFacts
  <2>3. vehicle[v].start \in Int /\ LastOf(p) \in Int
    <3>1. p \in Nat /\ vehicle[v].start \in Nat
      BY <2>1, PeriodFacts DEF VehicleRow
    <3>. QED BY <3>1 DEF LastOf, PeriodDays
  <2>. QED BY <2>1, <2>2, <2>3 DEF RentDays, RentDay
<1>. QED BY <1>1, YardStarts, YardSteps, PTL DEF YardSpec

-----------------------------------------------------------------------------
(* The yard: what a payment bought.                                         *)

\* A set with two parts that have nothing in common, and a set that two others cover.
LEMMA TwoParts ==
    ASSUME NEW C, IsFiniteSet(C), NEW X \in SUBSET C, NEW Y \in SUBSET C, X \cap Y = {}
    PROVE  Cardinality(X) + Cardinality(Y) <= Cardinality(C)
<1>1. /\ IsFiniteSet(X) /\ IsFiniteSet(Y) /\ Cardinality({}) = 0
      /\ Cardinality(X) \in Nat /\ Cardinality(Y) \in Nat /\ Cardinality(C) \in Nat
  BY FS_Subset, FS_EmptySet, FS_CardinalityType
<1>2. Cardinality(X \cup Y) = Cardinality(X) + Cardinality(Y)
  <2>1. Cardinality(X \cup Y) = Cardinality(X) + Cardinality(Y) - Cardinality(X \cap Y)
    BY <1>1, FS_Union
  <2>2. Cardinality(X \cap Y) = 0
    BY <1>1
  <2>. QED BY <1>1, <2>1, <2>2
<1>3. Cardinality(X \cup Y) <= Cardinality(C)
  BY FS_Subset
<1>. QED BY <1>1, <1>2, <1>3
LEMMA TwoCovers ==
    ASSUME NEW X, IsFiniteSet(X), NEW Y, IsFiniteSet(Y), NEW A \in SUBSET (X \cup Y)
    PROVE  Cardinality(A) <= Cardinality(X) + Cardinality(Y)
<1>1. /\ IsFiniteSet(X \cup Y) /\ IsFiniteSet(X \cap Y)
      /\ Cardinality(X \cup Y) = Cardinality(X) + Cardinality(Y) - Cardinality(X \cap Y)
  BY FS_Union, FS_Subset
<1>2. /\ IsFiniteSet(A) /\ Cardinality(A) <= Cardinality(X \cup Y)
      /\ Cardinality(X \cap Y) \in Nat /\ Cardinality(X) \in Nat /\ Cardinality(Y) \in Nat /\ Cardinality(A) \in Nat
  BY <1>1, FS_Subset, FS_CardinalityType
<1>. QED BY <1>1, <1>2

\* Days of an interval, with and without others.
LEMMA DaySets ==
    ASSUME NEW a \in Int, NEW b \in Int, NEW A \in SUBSET (a .. b)
    PROVE  IsFiniteSet(A) /\ Cardinality(A) \in Nat
<1>1. IsFiniteSet(a .. b)
  BY FS_Interval
<1>2. IsFiniteSet(A)
  BY <1>1, FS_Subset
<1>. QED BY <1>2, FS_CardinalityType

\* The days ahead of a paid day, as far as they are days of rent.
AheadOf(paid, d, rest) == (paid + 1 .. d) \ rest
LEMMA OneDayMore ==
    ASSUME NEW paid \in Int, NEW d \in Int, d > paid, NEW rest
    PROVE  /\ Cardinality(AheadOf(paid, d, rest)) \in Nat /\ Cardinality(AheadOf(paid, d - 1, rest)) \in Nat
           /\ Cardinality(AheadOf(paid, d, rest)) <= Cardinality(AheadOf(paid, d - 1, rest)) + 1
           /\ d \in rest => Cardinality(AheadOf(paid, d, rest)) = Cardinality(AheadOf(paid, d - 1, rest))
<1>1. d - 1 \in Int /\ paid + 1 \in Int
  OBVIOUS
<1>2. AheadOf(paid, d, rest) \subseteq paid + 1 .. d /\ AheadOf(paid, d - 1, rest) \subseteq paid + 1 .. d - 1
  BY DEF AheadOf
<1>3. PICK X : X = AheadOf(paid, d - 1, rest)
  OBVIOUS
<1>4. PICK Y : Y = AheadOf(paid, d, rest)
  OBVIOUS
<1>5. IsFiniteSet(X) /\ IsFiniteSet(Y) /\ Cardinality(X) \in Nat /\ Cardinality(Y) \in Nat
  BY <1>1, <1>2, <1>3, <1>4, DaySets
<1>6. \A e \in Int : e \in paid + 1 .. d <=> e \in paid + 1 .. d - 1 \/ e = d
  OBVIOUS
<1>7. Y = X \/ Y = X \cup {d}
  BY <1>3, <1>4, <1>6 DEF AheadOf
<1>8. d \in rest => Y = X
  BY <1>3, <1>4, <1>6 DEF AheadOf
<1>9. Cardinality(X \cup {d}) <= Cardinality(X) + 1
  BY <1>5, FS_AddElement
<1>. QED BY <1>3, <1>4, <1>5, <1>7, <1>8, <1>9

\* Where shiftPaidThrough finds its day: as many days of rent ahead as the pause had days paid
\* for.  Pauses end with Endless, so there is always such a day.
LEMMA ShiftDay ==
    ASSUME NEW paid \in -1 .. Endless, NEW days \in 1 .. LastYardDay + 1, NEW rest,
           \A d \in rest : d \in Nat /\ d <= Endless,
           NEW after, after = { d \in Ahead : d > paid /\ Cardinality(AheadOf(paid, d, rest)) = days }
    PROVE  /\ Min(after) \in Nat /\ Min(after) > paid /\ Min(after) \notin rest
           /\ Cardinality(AheadOf(paid, Min(after), rest)) = days
<1>. DEFINE M == Endless + LastYardDay + 1
            Got(d) == Cardinality(AheadOf(paid, d, rest))
            U == { d \in Nat : d > paid /\ Got(d) >= days }
<1>1. /\ LastYardDay \in Nat /\ Endless \in Nat /\ paid \in Int /\ days \in Nat /\ days >= 1 /\ M \in Nat /\ M > paid
      /\ days <= LastYardDay + 1 /\ paid <= Endless
  BY PeriodFacts
<1>2. Got(M) >= days
  <2>1. Endless + 1 .. M \subseteq AheadOf(paid, M, rest)
    BY <1>1 DEF AheadOf
  <2>2. AheadOf(paid, M, rest) \subseteq paid + 1 .. M
    BY DEF AheadOf
  <2>3. PICK X : X = AheadOf(paid, M, rest)
    OBVIOUS
  <2>4. IsFiniteSet(X) /\ Cardinality(X) \in Nat
    <3>1. paid + 1 \in Int /\ M \in Int /\ X \in SUBSET (paid + 1 .. M)
      BY <1>1, <2>2, <2>3
    <3>. HIDE DEF M
    <3>. QED BY <3>1, DaySets
  <2>5. Cardinality(Endless + 1 .. M) <= Cardinality(X)
    BY <2>1, <2>3, <2>4, FS_Subset
  <2>6. Cardinality(Endless + 1 .. M) = LastYardDay + 1
    <3>1. Endless + 1 \in Int /\ M \in Int
      BY <1>1
    <3>2. Cardinality(Endless + 1 .. M) = IF Endless + 1 > M THEN 0 ELSE M - (Endless + 1) + 1
      BY <3>1, FS_Interval
    <3>. QED BY <1>1, <3>2
  <2>. QED BY <1>1, <2>3, <2>4, <2>5, <2>6
<1>3. M \in U /\ U \subseteq Nat
  BY <1>1, <1>2
<1>4. PICK t \in U : \A m \in U : t <= m
  BY <1>3, LeastOf
<1>5. t \in Nat /\ t > paid /\ Got(t) >= days /\ t <= M
  BY <1>3, <1>4
<1>6. t - 1 \in Int /\ t - 1 >= paid /\ Got(t - 1) < days
  <2>1. t - 1 \in Int /\ t - 1 >= paid /\ Got(t - 1) \in Nat
    BY <1>1, <1>5, OneDayMore
  <2>2. CASE t - 1 = paid
    <3>1. AheadOf(paid, t - 1, rest) = {}
      BY <1>1, <2>2 DEF AheadOf
    <3>2. Got(t - 1) = 0
      BY <3>1, FS_EmptySet
    <3>. QED BY <1>1, <2>1, <3>2
  <2>3. CASE t - 1 > paid
    <3>1. t - 1 \in Nat
      BY <1>1, <1>5, <2>3
    <3>2. t - 1 \notin U
      BY <1>4, <1>5, <3>1
    <3>. QED BY <1>1, <2>1, <2>3, <3>1, <3>2
  <2>4. t - 1 = paid \/ t - 1 > paid
    BY <1>1, <2>1
  <2>5. Got(t - 1) < days
    BY <2>2, <2>3, <2>4
  <2>. QED BY <2>1, <2>5
<1>7. Got(t) = days /\ t \notin rest
  <2>1. /\ Got(t) \in Nat /\ Got(t - 1) \in Nat /\ Got(t) <= Got(t - 1) + 1
        /\ t \in rest => Got(t) = Got(t - 1)
    BY <1>1, <1>5, OneDayMore
  <2>. QED BY <1>1, <1>5, <1>6, <2>1
<1>8. t \in after /\ \A d \in after : d \in U
  <2>1. t \in Ahead
    BY <1>1, <1>5 DEF Ahead
  <2>2. \A d \in Ahead : d \in Nat
    BY <1>1 DEF Ahead
  <2>. QED BY <1>1, <1>5, <1>7, <2>1, <2>2
<1>9. \A d \in after : t <= d /\ d \in Nat
  BY <1>4, <1>8
<1>10. Min(after) = t
  <2>1. Min(after) \in after /\ Min(after) <= t
    BY <1>8, <1>9 DEF Min
  <2>. QED BY <1>5, <1>9, <2>1
<1>. QED BY <1>5, <1>7, <1>10

\* The new paid-through day: none if nothing of the pause was paid for, else the day found, or the
\* end of the rental if that comes first.
LEMMA Shifted ==
    ASSUME NEW paid \in -1 .. Endless, NEW from \in Nat, NEW until \in Int, until <= LastYardDay,
           NEW end \in Nat, NEW rest, \A d \in rest : d \in Nat /\ d <= Endless,
           NEW through, through = IF until < paid THEN until ELSE paid
    PROVE  /\ through < from => ShiftPaid(paid, from, until, end, rest) = paid
           /\ through >= from =>
                \E day \in Nat : /\ day > paid /\ day \notin rest
                                 /\ Cardinality(AheadOf(paid, day, rest)) = through - from + 1
                                 /\ ShiftPaid(paid, from, until, end, rest) = IF end # Endless /\ day > end THEN end ELSE day
<1>0. paid \in Int /\ through \in Int /\ LastYardDay \in Nat
  BY PeriodFacts
<1>1. CASE through < from
  BY <1>0, <1>1 DEF ShiftPaid
<1>2. CASE through >= from
  <2>1. PICK days : days = through - from + 1
    OBVIOUS
  <2>2. days \in 1 .. LastYardDay + 1
    BY <1>0, <1>2, <2>1
  <2>3. PICK after : after = { d \in Ahead : d > paid /\ Cardinality(AheadOf(paid, d, rest)) = days }
    OBVIOUS
  <2>4. PICK day : day = Min(after)
    OBVIOUS
  <2>5. day \in Nat /\ day > paid /\ day \notin rest /\ Cardinality(AheadOf(paid, day, rest)) = days
    BY <2>2, <2>3, <2>4, ShiftDay
  <2>6. ~(through < from)
    BY <1>0, <1>2
  <2>7. ShiftPaid(paid, from, until, end, rest) = IF end # Endless /\ day > end THEN end ELSE day
    BY <2>1, <2>3, <2>4, <2>6 DEF ShiftPaid, AheadOf
  <2>. QED BY <2>1, <2>5, <2>6, <2>7
<1>. QED BY <1>0, <1>1, <1>2

-----------------------------------------------------------------------------
\* The days of a return that lie before it, and the days through the paid one that no return lies
\* after: what the customer has, whether the vehicle is away now or not.
OnPause(v, d) == \E i \in PausesOf(v) : pause[i].ended /\ PausedBy(pause[i], d)
Credit(v)  == { d \in vehicle[v].start .. vehicle[v].paid : ~OnPause(v, d) }

\* A pause that is over has an end; one pause follows another, and only the last may be running.
PauseFits(x) ==
    /\ x.paidBefore \in -1 .. Endless
    /\ x.ended => x.from <= x.until /\ x.until <= LastYardDay
OneByOne == \A i, j \in PauseIds :
    i # j /\ pause[i].of # "none" /\ pause[j].of = pause[i].of =>
      \/ pause[i].from < pause[j].from /\ pause[i].ended /\ pause[i].until < pause[j].from
      \/ pause[j].from < pause[i].from /\ pause[j].ended /\ pause[j].until < pause[i].from
PausesFit ==
    /\ \A i \in PauseIds : /\ PauseFits(pause[i])
                           /\ pause[i].of # "none" => vehicle[pause[i].of].start <= pause[i].from
    /\ OneByOne
PaidRows ==
    /\ bought \in [YardVehicles -> Nat]
    /\ \A v \in YardVehicles :
         /\ vehicle[v].paid \in -1 .. Endless /\ vehicle[v].end <= Endless
         /\ v \in Known => vehicle[v].start \in StartDays
         /\ v \notin Known => bought[v] = 0
Bought(v) == vehicle[v].end = Endless => Cardinality(Credit(v)) >= bought[v]
PaidInv == PaidRows /\ PausesFit /\ \A v \in Known : Bought(v)

\* Rentals start on one day.
OneStart == \A a, b \in StartDays : a = b

\* Credits are finite, and what was bought now is credit.
LEMMA CreditFinite ==
    ASSUME YardRows, PaidRows, NEW v \in YardVehicles
    PROVE  IsFiniteSet(Credit(v)) /\ Cardinality(Credit(v)) \in Nat /\ Credit(v) \subseteq Int
<1>1. vehicle[v].start \in Int /\ vehicle[v].paid \in Int
  BY PeriodFacts DEF YardRows, VehicleRow, PaidRows
<1>2. PICK a \in Int, b \in Int : a = vehicle[v].start /\ b = vehicle[v].paid
  BY <1>1
<1>3. PICK C : C = Credit(v)
  OBVIOUS
<1>4. C \in SUBSET (a .. b)
  BY <1>2, <1>3 DEF Credit
<1>5. IsFiniteSet(C) /\ Cardinality(C) \in Nat
  BY <1>2, <1>4, DaySets
<1>. QED BY <1>2, <1>3, <1>4, <1>5
LEMMA PaidIsCredit ==
    ASSUME YardRows, PaidRows, NEW v \in YardVehicles, vehicle[v].end = Endless
    PROVE  PaidDays(v) \in Nat /\ PaidDays(v) <= Cardinality(Credit(v))
<1>1. IsFiniteSet(Credit(v)) /\ Cardinality(Credit(v)) \in Nat
  BY CreditFinite
<1>2. CASE vehicle[v].paid = Never
  BY <1>1, <1>2 DEF PaidDays
<1>3. CASE vehicle[v].paid # Never
  <2>1. PICK R : R = RentDays(v, vehicle[v].paid)
    OBVIOUS
  <2>2. PICK C : C = Credit(v)
    OBVIOUS
  <2>3. R \in SUBSET C
    BY <2>1, <2>2 DEF RentDays, Credit, OnPause, PausedAt
  <2>4. IsFiniteSet(R) /\ Cardinality(R) <= Cardinality(C)
    BY <1>1, <2>2, <2>3, FS_Subset
  <2>. QED BY <1>1, <1>3, <2>1, <2>2, <2>4, FS_CardinalityType DEF PaidDays
<1>. QED BY <1>2, <1>3

\* The same, one step later.
LEMMA CreditFiniteNext ==
    ASSUME YardRows', PaidRows', NEW v \in YardVehicles
    PROVE  IsFiniteSet(Credit(v)') /\ Cardinality(Credit(v))' \in Nat /\ Credit(v)' \subseteq Int
<1>1. vehicle'[v].start \in Int /\ vehicle'[v].paid \in Int
  BY PeriodFacts DEF YardRows, VehicleRow, PaidRows
<1>2. PICK a \in Int, b \in Int : a = vehicle'[v].start /\ b = vehicle'[v].paid
  BY <1>1
<1>3. PICK C : C = Credit(v)'
  OBVIOUS
<1>4. C \in SUBSET (a .. b)
  BY <1>2, <1>3 DEF Credit
<1>5. IsFiniteSet(C) /\ Cardinality(C) \in Nat
  BY <1>2, <1>4, DaySets
<1>. QED BY <1>2, <1>3, <1>4, <1>5
LEMMA PaidIsCreditNext ==
    ASSUME YardRows', PaidRows', NEW v \in YardVehicles, vehicle'[v].end = Endless
    PROVE  PaidDays(v)' \in Nat /\ PaidDays(v)' <= Cardinality(Credit(v))'
<1>1. IsFiniteSet(Credit(v)') /\ Cardinality(Credit(v))' \in Nat
  BY CreditFiniteNext
<1>2. CASE vehicle'[v].paid = Never
  BY <1>1, <1>2 DEF PaidDays
<1>3. CASE vehicle'[v].paid # Never
  <2>1. PICK R : R = RentDays(v, vehicle[v].paid)'
    OBVIOUS
  <2>2. PICK C : C = Credit(v)'
    OBVIOUS
  <2>3. R \in SUBSET C
    BY <2>1, <2>2 DEF RentDays, Credit, OnPause, PausedAt
  <2>4. IsFiniteSet(R) /\ Cardinality(R) <= Cardinality(C)
    BY <1>1, <2>2, <2>3, FS_Subset
  <2>5. PaidDays(v)' = Cardinality(R)
    BY <1>3, <2>1 DEF PaidDays
  <2>6. Cardinality(R) \in Nat
    BY <2>4, FS_CardinalityType
  <2>. QED BY <1>1, <2>2, <2>4, <2>5, <2>6
<1>. QED BY <1>2, <1>3

\* Pauses of which one goes, or a running one gets another planned return.
Calm(x, y) == \/ y = NoPause
              \/ /\ y.of = x.of /\ y.from = x.from /\ y.ended = x.ended /\ y.paidBefore = x.paidBefore
                 /\ x.ended => y.until = x.until
LEMMA CalmFits == ASSUME NEW x, NEW y, PauseFits(x), Calm(x, y) PROVE PauseFits(y)
<1>1. PauseFits(NoPause)
  BY PeriodFacts DEF PauseFits, NoPause, Never
<1>2. CASE y = NoPause
  BY <1>1, <1>2
<1>3. CASE y # NoPause
  BY <1>3 DEF Calm, PauseFits
<1>. QED BY <1>2, <1>3

\* Rentals keep their start, so pauses stay behind it.
LEMMA StartsStay ==
    ASSUME OneStart, YardRows, PaidRows, NEW v \in Known, vehicle'[v].start \in StartDays
    PROVE  vehicle'[v].start = vehicle[v].start
BY DEF OneStart, PaidRows, Known

\* Calm pauses still follow one another.
LEMMA CalmPauses ==
    ASSUME YardRows, YardRows', PaidRows, PaidRows', PausesFit, OneStart, \A i \in PauseIds : Calm(pause[i], pause'[i]),
           Known \cap { pause'[i].of : i \in PauseIds } \subseteq Known'
    PROVE  PausesFit'
<1>1. ASSUME NEW i \in PauseIds, pause'[i].of # "none"
      PROVE  /\ pause'[i].of = pause[i].of /\ pause'[i].from = pause[i].from /\ pause'[i].ended = pause[i].ended
             /\ pause[i].ended => pause'[i].until = pause[i].until
  BY <1>1 DEF Calm, NoPause
<1>2. \A i \in PauseIds : PauseFits(pause'[i])
  BY CalmFits DEF PausesFit
<1>3. ASSUME NEW i \in PauseIds, pause'[i].of # "none" PROVE vehicle'[pause'[i].of].start <= pause'[i].from
  <2>1. pause'[i].of = pause[i].of /\ pause'[i].from = pause[i].from
    BY <1>1, <1>3
  <2>2. PICK v \in Known : v = pause[i].of
    BY <1>3, <2>1 DEF YardRows
  <2>3. v \in Known' /\ v \in YardVehicles
    BY <2>1, <2>2 DEF Known
  <2>4. vehicle'[v].start = vehicle[v].start
    <3>1. vehicle'[v].start \in StartDays
      BY <2>3 DEF PaidRows
    <3>. QED BY <3>1, <2>2, StartsStay
  <2>. QED BY <1>3, <2>1, <2>2, <2>4 DEF PausesFit
<1>4. OneByOne'
  <2>. SUFFICES ASSUME NEW i \in PauseIds, NEW j \in PauseIds, i # j, pause'[i].of # "none", pause'[j].of = pause'[i].of
                PROVE  \/ pause'[i].from < pause'[j].from /\ pause'[i].ended /\ pause'[i].until < pause'[j].from
                       \/ pause'[j].from < pause'[i].from /\ pause'[j].ended /\ pause'[j].until < pause'[i].from
    BY DEF OneByOne
  <2>1. /\ pause'[i].of = pause[i].of /\ pause'[i].from = pause[i].from /\ pause'[i].ended = pause[i].ended
        /\ pause[i].ended => pause'[i].until = pause[i].until
    BY <1>1
  <2>2. /\ pause'[j].of = pause[j].of /\ pause'[j].from = pause[j].from /\ pause'[j].ended = pause[j].ended
        /\ pause[j].ended => pause'[j].until = pause[j].until
    BY <1>1
  <2>. QED BY <2>1, <2>2 DEF PausesFit, OneByOne
<1>. QED BY <1>2, <1>3, <1>4 DEF PausesFit

\* Credit of a vehicle whose dates and payment stay.
LEMMA CreditKept ==
    ASSUME YardRows, PaidRows, YardRows', PaidRows', NEW v \in YardVehicles, Bought(v),
           vehicle'[v].start = vehicle[v].start, vehicle'[v].paid = vehicle[v].paid, vehicle'[v].end = vehicle[v].end,
           bought'[v] = bought[v], \A d \in Credit(v) : OnPause(v, d)' => OnPause(v, d)
    PROVE  Bought(v)'
<1>. SUFFICES ASSUME vehicle[v].end = Endless PROVE Cardinality(Credit(v)') >= bought[v]
  BY DEF Bought
<1>1. Credit(v) \subseteq Credit(v)'
  BY DEF Credit
<1>2. PICK C : C = Credit(v)
  OBVIOUS
<1>3. PICK D : D = Credit(v)'
  OBVIOUS
<1>4. IsFiniteSet(D) /\ Cardinality(D) \in Nat /\ Cardinality(C) \in Nat
  BY <1>2, <1>3, CreditFinite, CreditFiniteNext
<1>5. Cardinality(C) <= Cardinality(D)
  BY <1>1, <1>2, <1>3, <1>4, FS_Subset
<1>6. Cardinality(C) >= bought[v] /\ bought[v] \in Nat
  BY <1>2 DEF Bought, PaidRows
<1>. QED BY <1>3, <1>4, <1>5, <1>6
LEMMA CreditBought ==
    ASSUME YardRows', PaidRows', NEW v \in YardVehicles, bought'[v] = PaidDays(v)'
    PROVE  Bought(v)'
<1>. SUFFICES ASSUME vehicle'[v].end = Endless PROVE Cardinality(Credit(v))' >= bought'[v]
  BY DEF Bought
<1>1. PaidDays(v)' \in Nat /\ PaidDays(v)' <= Cardinality(Credit(v))' /\ Cardinality(Credit(v))' \in Nat
  BY PaidIsCreditNext, CreditFiniteNext
<1>. QED BY <1>1

\* Days away of calm pauses.
LEMMA CalmAway ==
    ASSUME \A i \in PauseIds : Calm(pause[i], pause'[i]), NEW v \in YardVehicles, NEW d, OnPause(v, d)'
    PROVE  OnPause(v, d)
<1>1. PICK i \in PauseIds : pause'[i].of = v /\ pause'[i].ended /\ PausedBy(pause'[i], d)
  BY DEF OnPause, PausesOf, PausedBy, BillingEnd
<1>2. pause'[i] # NoPause
  BY <1>1 DEF NoPause
<1>3. pause[i].of = v /\ pause[i].ended /\ PausedBy(pause[i], d)
  BY <1>1, <1>2 DEF Calm, PausedBy, BillingEnd
<1>. QED BY <1>3 DEF OnPause, PausesOf

\* A step that leaves each vehicle as it is, or decides anew what is bought, or lets it go.
Keeps(v) == /\ vehicle'[v].start = vehicle[v].start /\ vehicle'[v].paid = vehicle[v].paid
            /\ vehicle'[v].end = vehicle[v].end /\ bought'[v] = bought[v]
LEMMA CalmStep ==
    ASSUME YardInv, YardInv', PaidInv, PaidRows', OneStart, \A i \in PauseIds : Calm(pause[i], pause'[i]),
           \A v \in Known' : (v \in Known /\ Keeps(v)) \/ bought'[v] = PaidDays(v)' \/ Bought(v)'
    PROVE  PaidInv'
<1>1. YardRows /\ YardRows' /\ PaidRows /\ PausesFit
  BY DEF YardInv, PaidInv
<1>2. Known \cap { pause'[i].of : i \in PauseIds } \subseteq Known'
  <2>. SUFFICES ASSUME NEW i \in PauseIds, pause'[i].of \in Known PROVE pause'[i].of \in Known'
    OBVIOUS
  <2>1. pause'[i].of # "none"
    BY YardAssumption DEF YardAssumption, Known
  <2>. QED BY <1>1, <2>1 DEF YardRows
<1>3. PausesFit'
  BY <1>1, <1>2, CalmPauses
<1>4. ASSUME NEW v \in Known' PROVE Bought(v)'
  <2>1. v \in YardVehicles
    BY DEF Known
  <2>2. CASE v \in Known /\ Keeps(v)
    BY <1>1, <2>1, <2>2, CreditKept, CalmAway DEF PaidInv, Keeps
  <2>3. CASE bought'[v] = PaidDays(v)'
    BY <1>1, <2>1, <2>3, CreditBought
  <2>. QED BY <2>2, <2>3
<1>. QED BY <1>3, <1>4 DEF PaidInv

\* Vehicles that keep dates and payment, pauses that go or get another planned return.
LEMMA QuietPaid ==
    ASSUME YardInv, YardInv', PaidInv, OneStart, bought' = bought,
           \A i \in PauseIds : Calm(pause[i], pause'[i]),
           \A v \in YardVehicles : Alike(vehicle[v], vehicle'[v]) /\ vehicle'[v].paid = vehicle[v].paid
    PROVE  PaidInv'
<1>1. Known' = Known
  BY DEF Known, Exists, Alike
<1>2. PaidRows'
  BY <1>1 DEF PaidInv, PaidRows, Alike
<1>3. \A v \in Known : Keeps(v)
  BY DEF Keeps, Alike, Known
<1>. QED BY <1>1, <1>2, <1>3, CalmStep

\* Pauses that stand still are calm.
LEMMA StillCalm == UNCHANGED pause => \A i \in PauseIds : Calm(pause[i], pause'[i])
BY DEF Calm

\* The days paid for are a number.
LEMMA PaidDaysNext == ASSUME YardRows', NEW v \in YardVehicles, vehicle'[v].paid \in Int PROVE PaidDays(v)' \in Nat
<1>1. PICK a \in Int, b \in Int : a = vehicle'[v].start /\ b = vehicle'[v].paid
  BY PeriodFacts DEF YardRows, VehicleRow
<1>2. PICK R : R = RentDays(v, vehicle[v].paid)'
  OBVIOUS
<1>3. R \in SUBSET (a .. b)
  BY <1>1, <1>2 DEF RentDays
<1>4. Cardinality(R) \in Nat
  BY <1>1, <1>3, DaySets
<1>. QED BY <1>2, <1>4 DEF PaidDays

\* One vehicle gets a new row, and what is bought is worked out anew.
LEMMA OneBuys ==
    ASSUME YardInv, YardInv', PaidInv, OneStart, NEW v \in YardVehicles, NEW new, vehicle' = [vehicle EXCEPT ![v] = new],
           new.status # "none", new.paid \in -1 .. Endless, new.end <= Endless, new.start \in StartDays,
           BuysNow(v), \A i \in PauseIds : Calm(pause[i], pause'[i])
    PROVE  PaidInv'
<1>1. YardRows /\ YardRows' /\ PaidRows
  BY DEF YardInv, PaidInv
<1>2. vehicle'[v] = new /\ \A u \in YardVehicles : u # v => vehicle'[u] = vehicle[u]
  BY <1>1 DEF YardRows
<1>3. PaidDays(v)' \in Nat
  BY <1>1, <1>2, PaidDaysNext
<1>4. /\ bought' \in [YardVehicles -> Nat] /\ bought'[v] = PaidDays(v)'
      /\ \A u \in YardVehicles : u # v => bought'[u] = bought[u]
  BY <1>1, <1>3 DEF BuysNow, PaidRows
<1>5. v \in Known' /\ \A u \in YardVehicles : u # v => (u \in Known <=> u \in Known')
  BY <1>2 DEF Known, Exists
<1>6. PaidRows'
  BY <1>1, <1>2, <1>4, <1>5 DEF PaidRows
<1>7. \A u \in Known' : u # v => u \in Known /\ Keeps(u)
  BY <1>2, <1>4, <1>5 DEF Keeps, Known
<1>. QED BY <1>4, <1>6, <1>7, CalmStep

\* Archive, spots, bills and the next day leave what is paid.
LEMMA ArchivePaid ==
    ASSUME YardInv, YardInv', PaidInv, OneStart, NEW v \in YardVehicles, AutoArchive(v) \/ ReactivateVehicle(v)
    PROVE  PaidInv'
<1>1. PICK a : vehicle' = [vehicle EXCEPT ![v].archived = a]
  BY DEF AutoArchive, ReactivateVehicle
<1>2. UNCHANGED <<pause, bought>>
  BY DEF AutoArchive, ReactivateVehicle
<1>3. \A u \in YardVehicles : VehicleRow(vehicle[u]) /\ (vehicle'[u] = vehicle[u] \/ vehicle'[u] = [vehicle[u] EXCEPT !.archived = a])
  BY <1>1 DEF YardInv, YardRows
<1>4. ASSUME NEW u \in YardVehicles PROVE Alike(vehicle[u], vehicle'[u]) /\ vehicle'[u].paid = vehicle[u].paid
  <2>1. PICK x : x = vehicle[u]
    OBVIOUS
  <2>2. PICK y : y = vehicle'[u]
    OBVIOUS
  <2>3. VehicleRow(x) /\ (y = x \/ y = [x EXCEPT !.archived = a])
    BY <1>3, <2>1, <2>2
  <2>4. Alike(x, y)
    BY <2>3, ArchivedAlike, SameAlike
  <2>5. y.paid = x.paid
    BY <2>3 DEF VehicleRow
  <2>. QED BY <2>1, <2>2, <2>4, <2>5
<1>. QED BY <1>2, <1>4, StillCalm, QuietPaid
LEMMA SpotPaid ==
    ASSUME YardInv, YardInv', PaidInv, OneStart, NEW spot, bought' = bought, \A i \in PauseIds : Calm(pause[i], pause'[i]),
           \A u \in YardVehicles : vehicle'[u] = vehicle[u] \/ vehicle'[u] = [vehicle[u] EXCEPT !.spot = spot]
    PROVE  PaidInv'
<1>3. \A u \in YardVehicles : VehicleRow(vehicle[u])
  BY DEF YardInv, YardRows
<1>4. ASSUME NEW u \in YardVehicles PROVE Alike(vehicle[u], vehicle'[u]) /\ vehicle'[u].paid = vehicle[u].paid
  <2>1. PICK x : x = vehicle[u]
    OBVIOUS
  <2>2. PICK y : y = vehicle'[u]
    OBVIOUS
  <2>3. VehicleRow(x) /\ (y = x \/ y = [x EXCEPT !.spot = spot])
    BY <1>3, <2>1, <2>2
  <2>4. Alike(x, y)
    BY <2>3, SpotAlike, SameAlike
  <2>5. y.paid = x.paid
    BY <2>3 DEF VehicleRow
  <2>. QED BY <2>1, <2>2, <2>4, <2>5
<1>. QED BY <1>4, QuietPaid
LEMMA SpotsPaid ==
    ASSUME YardInv, YardInv', PaidInv, OneStart,
           SpotsGo \/ SpotStep \/ NextDay
    PROVE  PaidInv'
<1>1. ASSUME NEW gone, vehicle' = Without(gone)
      PROVE  \A u \in YardVehicles : vehicle'[u] = vehicle[u] \/ vehicle'[u] = [vehicle[u] EXCEPT !.spot = NoSpot]
  BY <1>1 DEF Without
<1>2. CASE SpotsGo
  <2>1. PICK gone : DeleteSpots(gone)
    BY <1>2 DEF SpotsGo
  <2>2. ASSUME NEW i \in PauseIds PROVE Calm(pause[i], pause'[i])
    <3>1. PauseRow(pause[i])
      BY DEF YardInv, YardRows
    <3>2. pause'[i] = pause[i] \/ pause'[i] = [pause[i] EXCEPT !.spot = NoSpot]
      BY <2>1 DEF DeleteSpots
    <3>. QED BY <3>1, <3>2 DEF Calm, PauseRow
  <2>3. vehicle' = Without(gone) /\ bought' = bought
    BY <2>1 DEF DeleteSpots
  <2>. QED BY <1>1, <2>2, <2>3, SpotPaid
<1>3. ASSUME NEW s \in Spots, CreateSpot(s) PROVE PaidInv'
  BY <1>3, StillCalm, SpotPaid DEF CreateSpot
<1>4. ASSUME NEW s \in Spots, UnassignSpotVehicle(s) PROVE PaidInv'
  BY <1>1, <1>4, StillCalm, SpotPaid DEF UnassignSpotVehicle
<1>5. ASSUME NEW s \in Spots, NEW v \in YardVehicles, AssignSpotVehicle(s, v) PROVE PaidInv'
  <2>1. \A u \in YardVehicles : vehicle'[u] = vehicle[u] \/ vehicle'[u] = [vehicle[u] EXCEPT !.spot = s]
    BY <1>5 DEF AssignSpotVehicle, YardInv, YardRows
  <2>2. UNCHANGED <<pause, bought>>
    BY <1>5 DEF AssignSpotVehicle
  <2>. QED BY <2>1, <2>2, StillCalm, SpotPaid
<1>6. CASE NextDay
  BY <1>6, StillCalm, SpotPaid DEF NextDay
<1>. QED BY <1>2, <1>3, <1>4, <1>5, <1>6 DEF SpotStep

\* Bills.
LEMMA BillPaid ==
    ASSUME YardInv, YardInv', PaidInv, OneStart, NEW v \in YardVehicles, NEW d, InvoiceVehicle(v) \/ CancelVehicleInvoice(v, d)
    PROVE  PaidInv'
BY StillCalm, SpotPaid DEF InvoiceVehicle, CancelVehicleInvoice
LEMMA StutterPaid == ASSUME YardInv, YardInv', PaidInv, OneStart, UNCHANGED yardVars PROVE PaidInv'
BY StillCalm, SpotPaid DEF yardVars

\* A vehicle comes with nothing paid, and goes with its pauses.
LEMMA InsertPaid ==
    ASSUME YardInv, YardInv', PaidInv, OneStart, NEW v \in YardVehicles, NEW status \in {"reserved", "stored"}, NEW start \in StartDays,
           NEW end \in EndDays \cup {Endless}, InsertVehicle(v, status, start, end)
    PROVE  PaidInv'
<1>1. PICK new : new = [NoVehicle EXCEPT !.status = status, !.start = start, !.end = end]
  OBVIOUS
<1>2. vehicle' = [vehicle EXCEPT ![v] = new] /\ v \notin Known /\ UNCHANGED <<pause, bought>> /\ YardRows /\ PaidRows
  BY <1>1 DEF InsertVehicle, Known, YardInv, PaidInv
<1>3. new = [status |-> status, archived |-> FALSE, start |-> start, end |-> end, paid |-> Never, spot |-> NoSpot]
  BY <1>1 DEF NoVehicle
<1>4. new.status # "none" /\ new.paid \in -1 .. Endless /\ new.end <= Endless /\ new.start \in StartDays /\ new.paid = Never
  <2>1. \A e \in EndDays \cup {Endless} : e <= Endless
    BY Entries, PeriodFacts
  <2>. QED BY <1>3, <2>1, PeriodFacts DEF Never
<1>5. vehicle'[v] = new /\ \A u \in YardVehicles : u # v => vehicle'[u] = vehicle[u]
  BY <1>2 DEF YardRows
<1>6. bought'[v] = PaidDays(v)'
  BY <1>2, <1>4, <1>5 DEF PaidDays, PaidRows
<1>7. bought' = [bought EXCEPT ![v] = PaidDays(v)']
  BY <1>2, <1>6 DEF PaidRows
<1>. QED BY <1>2, <1>4, <1>7, StillCalm, OneBuys DEF BuysNow
LEMMA DeletePaid == ASSUME YardInv, YardInv', PaidInv, OneStart, NEW v \in YardVehicles, DeleteVehicle(v) PROVE PaidInv'
<1>1. /\ vehicle' = [vehicle EXCEPT ![v] = NoVehicle] /\ YardRows /\ PaidRows
      /\ pause' = [i \in PauseIds |-> IF pause[i].of = v THEN NoPause ELSE pause[i]]
      /\ bought' = [bought EXCEPT ![v] = 0]
  BY DEF DeleteVehicle, YardInv, PaidInv
<1>2. vehicle'[v] = NoVehicle /\ \A u \in YardVehicles : u # v => vehicle'[u] = vehicle[u] /\ bought'[u] = bought[u]
  BY <1>1 DEF YardRows, PaidRows
<1>3. v \notin Known' /\ \A u \in YardVehicles : u # v => (u \in Known <=> u \in Known')
  BY <1>2, MissingRows DEF Known, Exists
<1>4. NoVehicle.paid \in -1 .. Endless /\ NoVehicle.end <= Endless
  BY PeriodFacts DEF NoVehicle, Never
<1>5. bought' \in [YardVehicles -> Nat] /\ bought'[v] = 0
  BY <1>1 DEF PaidRows
<1>6. PaidRows'
  BY <1>1, <1>2, <1>3, <1>4, <1>5 DEF PaidRows
<1>7. \A i \in PauseIds : Calm(pause[i], pause'[i])
  BY <1>1 DEF Calm
<1>8. \A u \in Known' : u \in Known /\ Keeps(u)
  BY <1>2, <1>3 DEF Keeps, Known
<1>. QED BY <1>6, <1>7, <1>8, CalmStep

\* New dates, a new status, the slider.
LEMMA UpdatePaid ==
    ASSUME YardInv, YardInv', PaidInv, OneStart, NEW v \in YardVehicles, NEW status \in {"reserved", "stored"} \cup Closing,
           NEW start \in StartDays, NEW end \in EndDays \cup {Endless}, UpdateVehicle(v, status, start, end)
    PROVE  PaidInv'
<1>1. PICK spot : vehicle' = [vehicle EXCEPT ![v] = [@ EXCEPT !.status = status, !.start = start, !.end = end, !.spot = spot]]
  BY DEF UpdateVehicle
<1>2. PICK new : new = [vehicle[v] EXCEPT !.status = status, !.start = start, !.end = end, !.spot = spot]
  OBVIOUS
<1>3. /\ VehicleRow(vehicle[v]) /\ vehicle' = [vehicle EXCEPT ![v] = new] /\ vehicle[v].paid \in -1 .. Endless
      /\ BuysNow(v) /\ UNCHANGED pause
  BY <1>1, <1>2 DEF YardInv, YardRows, UpdateVehicle, PaidInv, PaidRows
<1>4. new = [status |-> status, archived |-> vehicle[v].archived, start |-> start, end |-> end, paid |-> vehicle[v].paid,
             spot |-> spot]
  BY <1>2, <1>3 DEF VehicleRow
<1>5. new.status # "none" /\ new.paid \in -1 .. Endless /\ new.end <= Endless /\ new.start \in StartDays
  <2>1. \A e \in EndDays \cup {Endless} : e <= Endless
    BY Entries, PeriodFacts
  <2>. QED BY <1>3, <1>4, <2>1 DEF Closing
<1>. QED BY <1>3, <1>5, StillCalm, OneBuys
LEMMA ClosePaid ==
    ASSUME YardInv, YardInv', PaidInv, OneStart, NEW v \in Known, NEW status \in Closing, NEW end \in Days, CloseOn(v, status, end),
           BuysNow(v), \A i \in PauseIds : Calm(pause[i], pause'[i])
    PROVE  PaidInv'
<1>1. PICK new : new = [vehicle[v] EXCEPT !.status = status, !.end = end, !.spot = NoSpot]
  OBVIOUS
<1>2. /\ v \in YardVehicles /\ VehicleRow(vehicle[v]) /\ vehicle' = [vehicle EXCEPT ![v] = new]
      /\ vehicle[v].paid \in -1 .. Endless /\ vehicle[v].start \in StartDays
  BY <1>1 DEF YardInv, YardRows, CloseOn, Known, PaidInv, PaidRows
<1>3. new = [status |-> status, archived |-> vehicle[v].archived, start |-> vehicle[v].start, end |-> end,
             paid |-> vehicle[v].paid, spot |-> NoSpot]
  BY <1>1, <1>2 DEF VehicleRow
<1>4. new.status # "none" /\ new.paid \in -1 .. Endless /\ new.end <= Endless /\ new.start \in StartDays
  BY <1>2, <1>3, Entries DEF Closing
<1>. QED BY <1>2, <1>4, OneBuys
LEMMA StatusPaid ==
    ASSUME YardInv, YardInv', PaidInv, OneStart, NEW v \in YardVehicles, NEW status \in {"reserved", "stored"} \cup Closing,
           NEW date \in EndDays \cup {Never}, ChangeVehicleStatus(v, status, date)
    PROVE  PaidInv'
<1>1. /\ v \in Known /\ UNCHANGED pause /\ VehicleRow(vehicle[v]) /\ yardDay \in Days /\ BuysNow(v)
      /\ vehicle[v].end <= Endless /\ vehicle[v].paid \in -1 .. Endless /\ vehicle[v].start \in StartDays
  BY DEF ChangeVehicleStatus, Known, YardInv, YardRows, PaidInv, PaidRows
<1>2. CASE status \in Closing
  <2>1. PICK end : end = ClosingDay(v, status, date)
    OBVIOUS
  <2>2. CloseOn(v, status, end)
    BY <1>2, <2>1 DEF ChangeVehicleStatus
  <2>3. PICK new : new = [vehicle[v] EXCEPT !.status = status, !.end = end, !.spot = NoSpot]
    OBVIOUS
  <2>4. vehicle' = [vehicle EXCEPT ![v] = new]
    BY <1>1, <2>2, <2>3 DEF CloseOn, YardInv, YardRows, Known
  <2>5. new = [status |-> status, archived |-> vehicle[v].archived, start |-> vehicle[v].start, end |-> end,
               paid |-> vehicle[v].paid, spot |-> NoSpot]
    BY <1>1, <2>3 DEF VehicleRow
  <2>6. end <= Endless
    BY <1>1, <2>1, Entries, PeriodFacts DEF ClosingDay, VehicleRow
  <2>7. new.status # "none" /\ new.paid \in -1 .. Endless /\ new.end <= Endless /\ new.start \in StartDays
    BY <1>1, <1>2, <2>5, <2>6 DEF Closing
  <2>. QED BY <1>1, <2>4, <2>7, StillCalm, OneBuys
<1>3. CASE status \notin Closing
  <2>1. PICK new : new = [vehicle[v] EXCEPT !.status = status, !.end = Endless]
    OBVIOUS
  <2>2. vehicle' = [vehicle EXCEPT ![v] = new]
    BY <1>1, <1>3, <2>1 DEF ChangeVehicleStatus, YardInv, YardRows
  <2>3. new = [status |-> status, archived |-> vehicle[v].archived, start |-> vehicle[v].start, end |-> Endless,
               paid |-> vehicle[v].paid, spot |-> vehicle[v].spot]
    BY <1>1, <2>1 DEF VehicleRow
  <2>4. new.status # "none" /\ new.paid \in -1 .. Endless /\ new.end <= Endless /\ new.start \in StartDays
    BY <1>1, <1>3, <2>3, PeriodFacts
  <2>. QED BY <1>1, <2>2, <2>4, StillCalm, OneBuys
<1>. QED BY <1>2, <1>3
LEMMA SliderPaid == ASSUME YardInv, YardInv', PaidInv, OneStart, NEW v \in YardVehicles, NEW on \in BOOLEAN, MarkPaid(v, on) PROVE PaidInv'
<1>1. PICK paid : paid = IF ~on THEN Never ELSE IF vehicle[v].paid = Never THEN yardDay ELSE vehicle[v].paid
  OBVIOUS
<1>2. PICK new : new = [vehicle[v] EXCEPT !.paid = paid]
  OBVIOUS
<1>3. /\ vehicle' = [vehicle EXCEPT ![v] = new] /\ VehicleRow(vehicle[v]) /\ UNCHANGED pause /\ v \in Known
      /\ vehicle[v].paid \in -1 .. Endless /\ vehicle[v].end <= Endless /\ vehicle[v].start \in StartDays /\ yardDay \in Days
  BY <1>1, <1>2 DEF MarkPaid, YardInv, YardRows, PaidInv, PaidRows, Known
<1>4. new = [status |-> vehicle[v].status, archived |-> vehicle[v].archived, start |-> vehicle[v].start, end |-> vehicle[v].end,
             paid |-> paid, spot |-> vehicle[v].spot]
  BY <1>2, <1>3 DEF VehicleRow
<1>5. paid \in -1 .. Endless
  BY <1>1, <1>3, Entries, PeriodFacts DEF Never
<1>6. new.status # "none" /\ new.paid \in -1 .. Endless /\ new.end <= Endless /\ new.start \in StartDays
  BY <1>3, <1>4, <1>5 DEF Known, Exists
<1>7. CASE on /\ vehicle[v].paid # Never
  <2>1. new = vehicle[v]
    BY <1>1, <1>3, <1>4, <1>7 DEF VehicleRow
  <2>2. vehicle' = vehicle /\ bought' = bought
    BY <1>3, <1>7, <2>1 DEF MarkPaid, YardInv, YardRows
  <2>. QED BY <1>3, <2>2, StillCalm, SpotPaid
<1>8. CASE ~(on /\ vehicle[v].paid # Never)
  <2>1. BuysNow(v)
    BY <1>8 DEF MarkPaid
  <2>. QED BY <1>3, <1>6, <2>1, StillCalm, OneBuys
<1>. QED BY <1>7, <1>8

\* A pause that begins is the last one of its vehicle; those before it are over.
LEMMA StartPaid ==
    ASSUME YardInv, YardInv', PaidInv, OneStart, NEW v \in YardVehicles, NEW i \in PauseIds, NEW from \in PauseDays,
           NEW until \in PauseDays \cup {Endless}, NEW hold \in BOOLEAN, StartPause(v, i, from, until, hold),
           \A j \in PausesOf(v) : pause[j].from < from
    PROVE  PaidInv'
<1>1. PICK spot : pause' = [pause EXCEPT ![i] = [NoPause EXCEPT !.of = v, !.from = from, !.until = until, !.spot = spot]]
  BY DEF StartPause
<1>2. PICK new : new = [NoPause EXCEPT !.of = v, !.from = from, !.until = until, !.spot = spot]
  OBVIOUS
<1>3. new = [of |-> v, from |-> from, until |-> until, ended |-> FALSE, spot |-> spot, paidBefore |-> Never]
  BY <1>2 DEF NoPause
<1>4. YardRows /\ YardRows' /\ PaidRows /\ PausesFit /\ bought' = bought
  BY DEF YardInv, PaidInv, StartPause
<1>5. pause'[i] = new /\ pause[i].of = "none" /\ \A j \in PauseIds : j # i => pause'[j] = pause[j]
  BY <1>1, <1>2, <1>4, MissingRows DEF YardRows, StartPause
<1>6. ASSUME NEW u \in YardVehicles PROVE Alike(vehicle[u], vehicle'[u]) /\ vehicle'[u].paid = vehicle[u].paid
  <2>1. PICK x : x = vehicle[u]
    OBVIOUS
  <2>2. PICK y : y = vehicle'[u]
    OBVIOUS
  <2>3. VehicleRow(x) /\ (y = x \/ y = [x EXCEPT !.spot = NoSpot])
    BY <1>4, <2>1, <2>2 DEF StartPause, YardRows
  <2>4. Alike(x, y)
    BY <2>3, SpotAlike, SameAlike
  <2>5. y.paid = x.paid
    BY <2>3 DEF VehicleRow
  <2>. QED BY <2>1, <2>2, <2>4, <2>5
<1>7. Known' = Known
  BY <1>6 DEF Known, Exists, Alike
<1>8. PaidRows'
  BY <1>4, <1>6, <1>7 DEF PaidRows, Alike
<1>9. PausesFit'
  <2>0. v # "none" /\ vehicle[v].start <= from /\ from <= until
    BY YardAssumption DEF YardAssumption, StartPause
  <2>1. \A j \in PauseIds : PauseFits(pause'[j])
    <3>1. PauseFits(new)
      BY <1>3, PeriodFacts DEF PauseFits, Never
    <3>. QED BY <1>4, <1>5, <3>1 DEF PausesFit
  <2>2. \A j \in PauseIds : pause'[j].of # "none" => vehicle'[pause'[j].of].start <= pause'[j].from
    <3>1. vehicle'[v].start = vehicle[v].start
      BY <1>6 DEF Alike
    <3>2. ASSUME NEW j \in PauseIds, j # i, pause[j].of # "none" PROVE vehicle'[pause[j].of].start <= pause[j].from
      <4>1. pause[j].of \in YardVehicles
        BY <1>4, <3>2 DEF YardRows, Known
      <4>. QED BY <1>4, <1>6, <3>2, <4>1 DEF PausesFit, Alike
    <3>. QED BY <1>3, <1>5, <2>0, <3>1, <3>2
  <2>3. ASSUME NEW j \in PauseIds, j # i, pause[j].of = v PROVE pause[j].from < from /\ pause[j].ended /\ pause[j].until < from
    <3>1. j \in PausesOf(v) /\ pause[j].from < from
      BY <2>3 DEF PausesOf
    <3>2. ~(pause[j].from <= until /\ BillingEnd(pause[j]) >= from)
      BY <3>1 DEF StartPause, Overlaps
    <3>3. pause[j].from \in Int /\ pause[j].until \in Int /\ pause[j].ended \in BOOLEAN /\ from \in Int /\ until \in Int /\ from <= Endless
          /\ Endless \in Int
      BY <1>4, Entries, PeriodFacts DEF YardRows, PauseRow
    <3>4. BillingEnd(pause[j]) \in Int /\ BillingEnd(pause[j]) < from
      BY <2>0, <3>1, <3>2, <3>3 DEF BillingEnd
    <3>. QED BY <3>1, <3>3, <3>4 DEF BillingEnd
  <2>4. OneByOne'
    <3>. SUFFICES ASSUME NEW j \in PauseIds, NEW k \in PauseIds, j # k, pause'[j].of # "none", pause'[k].of = pause'[j].of
                  PROVE  \/ pause'[j].from < pause'[k].from /\ pause'[j].ended /\ pause'[j].until < pause'[k].from
                         \/ pause'[k].from < pause'[j].from /\ pause'[k].ended /\ pause'[k].until < pause'[j].from
      BY DEF OneByOne
    <3>1. CASE j = i
      BY <1>3, <1>5, <2>3, <3>1
    <3>2. CASE k = i
      BY <1>3, <1>5, <2>3, <3>2
    <3>3. CASE j # i /\ k # i
      BY <1>4, <1>5, <3>3 DEF PausesFit, OneByOne
    <3>. QED BY <3>1, <3>2, <3>3
  <2>. QED BY <2>1, <2>2, <2>4 DEF PausesFit
<1>10. ASSUME NEW u \in Known' PROVE Bought(u)'
  <2>1. u \in YardVehicles /\ Bought(u)
    BY <1>7 DEF PaidInv, Known
  <2>2. \A d : OnPause(u, d)' => OnPause(u, d)
    BY <1>3, <1>5 DEF OnPause, PausesOf, PausedBy, BillingEnd
  <2>. QED BY <1>4, <1>6, <1>8, <2>1, <2>2, CreditKept DEF Alike
<1>. QED BY <1>8, <1>9, <1>10 DEF PaidInv

\* Another planned return; collected out of the pause.
LEMMA ExtendPaid ==
    ASSUME YardInv, YardInv', PaidInv, OneStart, NEW i \in PauseIds, NEW until, ExtendPause(i, until)
    PROVE  PaidInv'
<1>1. \A j \in PauseIds : PauseRow(pause[j])
  BY DEF YardInv, YardRows
<1>2. PICK x : x = pause[i]
  OBVIOUS
<1>3. PICK new : new = [x EXCEPT !.until = until]
  OBVIOUS
<1>4. PauseRow(x) /\ ~x.ended /\ pause'[i] = new /\ \A j \in PauseIds : j # i => pause'[j] = pause[j]
  BY <1>1, <1>2, <1>3 DEF ExtendPause, Running, YardInv, YardRows
<1>5. Calm(x, new)
  BY <1>3, <1>4 DEF Calm, PauseRow
<1>6. \A j \in PauseIds : Calm(pause[j], pause'[j])
  BY <1>2, <1>4, <1>5 DEF Calm
<1>. QED BY <1>6, SpotPaid DEF ExtendPause
LEMMA CollectPaid ==
    ASSUME YardInv, YardInv', PaidInv, OneStart, NEW i \in PauseIds, CollectFromPause(i)
    PROVE  PaidInv'
<1>1. PICK v \in YardVehicles : /\ v = pause[i].of /\ CloseOn(v, "collected", pause[i].from)
                                /\ pause' = [pause EXCEPT ![i] = NoPause] /\ BuysNow(v)
  BY DEF CollectFromPause
<1>2. v \in Known
  <2>1. v # "none"
    BY YardAssumption DEF YardAssumption
  <2>. QED BY <1>1, <2>1 DEF YardInv, YardRows
<1>3. PICK end \in Days : end = pause[i].from
  BY DEF YardInv, YardRows, PauseRow
<1>4. CloseOn(v, "collected", end) /\ "collected" \in Closing
  BY <1>1, <1>3 DEF Closing
<1>5. \A j \in PauseIds : Calm(pause[j], pause'[j])
  BY <1>1 DEF Calm, YardInv, YardRows
<1>. QED BY <1>1, <1>2, <1>4, <1>5, ClosePaid

\* Days before a pause, from it, and ahead of what was paid: what a return makes of a credit.
LEMMA ReturnCount ==
    ASSUME NEW C, IsFiniteSet(C), NEW D, IsFiniteSet(D), NEW from \in Int, NEW through \in Int, from <= through,
           NEW Y, IsFiniteSet(Y), Y \in SUBSET D, C \ (from .. through) \in SUBSET D, C \cap Y = {},
           Cardinality(Y) = through - from + 1
    PROVE  Cardinality(C) <= Cardinality(D)
<1>1. PICK X : X = C \ (from .. through)
  OBVIOUS
<1>2. PICK F : F = from .. through
  OBVIOUS
<1>3. IsFiniteSet(X)
  BY <1>1, FS_Subset
<1>4. IsFiniteSet(F) /\ Cardinality(F) = through - from + 1
  BY <1>2, FS_Interval
<1>5. X \in SUBSET D /\ X \cap Y = {} /\ C \in SUBSET (X \cup F)
  BY <1>1, <1>2
<1>6. Cardinality(X) + Cardinality(Y) <= Cardinality(D)
  BY <1>5, TwoParts
<1>7. Cardinality(C) <= Cardinality(X) + Cardinality(F)
  BY <1>3, <1>4, <1>5, TwoCovers
<1>8. Cardinality(X) \in Nat /\ Cardinality(C) \in Nat /\ Cardinality(D) \in Nat /\ Cardinality(F) = Cardinality(Y)
      /\ Cardinality(Y) \in Nat
  BY <1>3, <1>4, FS_CardinalityType
<1>. QED BY <1>6, <1>7, <1>8
LEMMA DropCount ==
    ASSUME NEW A, NEW B, IsFiniteSet(B), NEW X, X \in SUBSET B, NEW Y, IsFiniteSet(Y), A \in SUBSET (X \cup Y),
           NEW from \in Int, NEW through \in Int, from <= through, from .. through \in SUBSET B,
           X \cap (from .. through) = {}, Cardinality(Y) = through - from + 1
    PROVE  Cardinality(A) <= Cardinality(B)
<1>1. PICK F : F = from .. through
  OBVIOUS
<1>2. IsFiniteSet(F) /\ Cardinality(F) = through - from + 1
  BY <1>1, FS_Interval
<1>3. IsFiniteSet(X)
  BY FS_Subset
<1>4. IsFiniteSet(X \cup Y)
  BY <1>3, FS_Union
<1>5. IsFiniteSet(A)
  BY <1>4, FS_Subset
<1>6. Cardinality(A) <= Cardinality(X) + Cardinality(Y)
  BY <1>3, TwoCovers
<1>7. Cardinality(X) + Cardinality(F) <= Cardinality(B)
  BY <1>1, TwoParts
<1>8. Cardinality(X) \in Nat /\ Cardinality(A) \in Nat /\ Cardinality(B) \in Nat /\ Cardinality(F) = Cardinality(Y)
      /\ Cardinality(Y) \in Nat
  BY <1>2, <1>3, <1>5, FS_CardinalityType
<1>. QED BY <1>6, <1>7, <1>8

\* The vehicle is back: as many days of rent ahead are paid as days of the pause were.
LEMMA ReturnPaid ==
    ASSUME YardInv, YardInv', PaidInv, OneStart, NEW i \in PauseIds, NEW on \in Days, ReturnFromPause(i, on)
    PROVE  PaidInv'
<1>1. /\ YardRows /\ YardRows' /\ PaidRows /\ PausesFit /\ Running(i) /\ on >= pause[i].from /\ bought' = bought
      /\ PauseRow(pause[i]) /\ PauseFits(pause[i])
  BY DEF YardInv, PaidInv, PausesFit, YardRows, ReturnFromPause
<1>2. PICK v \in Known : v = pause[i].of
  BY <1>1 DEF YardRows, Running
<1>3. v \in YardVehicles /\ VehicleRow(vehicle[v]) /\ Bought(v) /\ vehicle[v].start <= pause[i].from
  BY <1>1, <1>2 DEF YardRows, Known, PaidInv, PausesFit, Running
<1>4. CASE on = pause[i].from
  <2>1. pause' = [pause EXCEPT ![i] = NoPause] /\ vehicle' = [vehicle EXCEPT ![v].spot = Relinked(i)]
    BY <1>2, <1>4 DEF ReturnFromPause
  <2>2. \A j \in PauseIds : Calm(pause[j], pause'[j])
    BY <1>1, <2>1 DEF Calm, YardRows
  <2>3. \A u \in YardVehicles : vehicle'[u] = vehicle[u] \/ vehicle'[u] = [vehicle[u] EXCEPT !.spot = Relinked(i)]
    BY <1>1, <1>3, <2>1 DEF YardRows
  <2>. QED BY <1>1, <2>2, <2>3, SpotPaid
<1>5. CASE on # pause[i].from
  <2>1. PICK from, until : from = pause[i].from /\ until = on - 1
    OBVIOUS
  <2>2. /\ from \in Nat /\ until \in Int /\ until <= LastYardDay /\ from <= until /\ LastYardDay \in Nat /\ Endless \in Nat
        /\ LastYardDay < Endless /\ on \in Nat
    BY <1>1, <1>5, <2>1, PeriodFacts DEF PauseRow, Days, Endless
  <2>3. PICK paid : paid = PaidAfterReturn(i, on)
    OBVIOUS
  <2>4. PICK new : new = [pause[i] EXCEPT !.until = on - 1, !.ended = TRUE, !.paidBefore = vehicle[v].paid]
    OBVIOUS
  <2>5. PICK row : row = [vehicle[v] EXCEPT !.paid = paid, !.spot = Relinked(i)]
    OBVIOUS
  <2>6. pause' = [pause EXCEPT ![i] = new] /\ vehicle' = [vehicle EXCEPT ![v] = row] /\ paid <= Endless
    BY <1>1, <1>2, <1>5, <2>3, <2>4, <2>5 DEF ReturnFromPause, YardRows
  <2>7. /\ new = [of |-> v, from |-> from, until |-> until, ended |-> TRUE, spot |-> pause[i].spot,
                   paidBefore |-> vehicle[v].paid]
        /\ row = [status |-> vehicle[v].status, archived |-> vehicle[v].archived, start |-> vehicle[v].start,
                  end |-> vehicle[v].end, paid |-> paid, spot |-> Relinked(i)]
    BY <1>1, <1>2, <1>3, <2>1, <2>4, <2>5 DEF PauseRow, VehicleRow
  <2>8. /\ pause'[i] = new /\ \A j \in PauseIds : j # i => pause'[j] = pause[j]
        /\ vehicle'[v] = row /\ \A u \in YardVehicles : u # v => vehicle'[u] = vehicle[u]
    BY <1>1, <1>3, <2>6 DEF YardRows
  <2>9. PICK rest : rest = (from .. until) \cup { d \in Ahead : \E j \in PausesOf(v) \ {i} : PausedBy(pause[j], d) }
    OBVIOUS
  <2>10. PICK old \in -1 .. Endless : old = vehicle[v].paid
    BY <1>1, <1>3 DEF PaidRows
  <2>11. PICK through \in Int : through = IF until < old THEN until ELSE old
    BY <2>2, <2>10
  <2>12. paid = IF old = Never THEN Never ELSE ShiftPaid(old, from, until, vehicle[v].end, rest)
    BY <1>2, <2>1, <2>3, <2>9, <2>10 DEF PaidAfterReturn
  <2>13. \A d \in rest : d \in Nat /\ d <= Endless
    <3>1. \A d \in from .. until : d \in Nat /\ d <= Endless
      BY <2>2
    <3>2. ASSUME NEW d \in Ahead, NEW j \in PausesOf(v) \ {i}, PausedBy(pause[j], d) PROVE d \in Nat /\ d <= Endless
      <4>1. PauseRow(pause[j])
        BY <1>1 DEF YardRows, PausesOf
      <4>2. d <= BillingEnd(pause[j]) /\ BillingEnd(pause[j]) \in Nat /\ BillingEnd(pause[j]) <= Endless /\ d \in Nat
        BY <2>2, <3>2, <4>1 DEF PausedBy, BillingEnd, PauseRow, Ahead
      <4>. QED BY <2>2, <4>2
    <3>. QED BY <2>9, <3>1, <3>2
  <2>14. /\ through < from => ShiftPaid(old, from, until, vehicle[v].end, rest) = old
         /\ through >= from =>
              \E day \in Nat : /\ day > old /\ day \notin rest
                               /\ Cardinality(AheadOf(old, day, rest)) = through - from + 1
                               /\ ShiftPaid(old, from, until, vehicle[v].end, rest)
                                    = IF vehicle[v].end # Endless /\ day > vehicle[v].end THEN vehicle[v].end ELSE day
    <3>1. PICK end \in Nat : end = vehicle[v].end
      BY <1>3 DEF VehicleRow
    <3>2. until \in Int /\ from \in Nat /\ until <= LastYardDay
      BY <2>2
    <3>3. /\ through < from => ShiftPaid(old, from, until, end, rest) = old
          /\ through >= from =>
               \E day \in Nat : /\ day > old /\ day \notin rest
                                /\ Cardinality(AheadOf(old, day, rest)) = through - from + 1
                                /\ ShiftPaid(old, from, until, end, rest) = IF end # Endless /\ day > end THEN end ELSE day
      BY <2>10, <2>11, <2>13, <3>2, Shifted
    <3>. QED BY <3>1, <3>3
  <2>15. paid \in -1 .. Endless
    <3>1. CASE old = Never \/ through < from
      BY <2>10, <2>12, <2>14, <3>1
    <3>2. CASE old # Never /\ through >= from
      <4>1. paid \in Nat
        BY <1>3, <2>12, <2>14, <3>2 DEF VehicleRow
      <4>. QED BY <2>2, <2>6, <4>1
    <3>. QED BY <2>2, <2>11, <3>1, <3>2
  <2>16. Known' = Known
    BY <1>2, <1>3, <2>7, <2>8 DEF Known, Exists
  <2>17. PaidRows'
    BY <1>1, <1>3, <2>7, <2>8, <2>15, <2>16 DEF PaidRows
  <2>18. PausesFit'
    <3>1. PauseFits(new)
      BY <2>2, <2>7, <2>10 DEF PauseFits
    <3>2. \A j \in PauseIds : PauseFits(pause'[j])
      BY <1>1, <2>8, <3>1 DEF PausesFit
    <3>3. \A j \in PauseIds : pause'[j].of = pause[j].of /\ pause'[j].from = pause[j].from
      BY <1>2, <2>1, <2>7, <2>8
    <3>4. \A j \in PauseIds : pause'[j].of # "none" => vehicle'[pause'[j].of].start <= pause'[j].from
      <4>1. \A u \in YardVehicles : vehicle'[u].start = vehicle[u].start
        BY <2>7, <2>8
      <4>2. \A j \in PauseIds : pause[j].of # "none" => pause[j].of \in YardVehicles
        BY <1>1 DEF YardRows, Known
      <4>. QED BY <1>1, <3>3, <4>1, <4>2 DEF PausesFit
    <3>5. OneByOne'
      <4>. SUFFICES ASSUME NEW j \in PauseIds, NEW k \in PauseIds, j # k, pause'[j].of # "none", pause'[k].of = pause'[j].of
                    PROVE  \/ pause'[j].from < pause'[k].from /\ pause'[j].ended /\ pause'[j].until < pause'[k].from
                           \/ pause'[k].from < pause'[j].from /\ pause'[k].ended /\ pause'[k].until < pause'[j].from
        BY DEF OneByOne
      <4>1. \/ pause[j].from < pause[k].from /\ pause[j].ended /\ pause[j].until < pause[k].from
            \/ pause[k].from < pause[j].from /\ pause[k].ended /\ pause[k].until < pause[j].from
        BY <1>1, <3>3 DEF PausesFit, OneByOne
      <4>2. ~pause[i].ended
        BY <1>1 DEF Running
      <4>. QED BY <2>8, <3>3, <4>1, <4>2
    <3>. QED BY <3>2, <3>4, <3>5 DEF PausesFit
  <2>19. ASSUME NEW u \in YardVehicles, NEW d \in Int, OnPause(u, d)' PROVE OnPause(u, d) \/ (u = v /\ d \in from .. until)
    <3>1. PICK j \in PauseIds : pause'[j].of = u /\ pause'[j].ended /\ PausedBy(pause'[j], d)
      BY <2>19 DEF OnPause, PausesOf, PausedBy, BillingEnd
    <3>2. CASE j = i
      BY <2>2, <2>7, <2>8, <3>1, <3>2 DEF PausedBy, BillingEnd
    <3>3. CASE j # i
      BY <2>8, <3>1, <3>3 DEF OnPause, PausesOf
    <3>. QED BY <3>2, <3>3
  <2>20. ASSUME NEW u \in Known', u # v PROVE Bought(u)'
    <3>1. u \in YardVehicles /\ Bought(u) /\ vehicle'[u] = vehicle[u] /\ bought'[u] = bought[u]
      BY <1>1, <2>8, <2>16, <2>20 DEF PaidInv, Known
    <3>2. Credit(u) \subseteq Int
      BY <1>1, <3>1, CreditFinite
    <3>. QED BY <1>1, <2>17, <2>19, <2>20, <3>1, <3>2, CreditKept
  <2>21. Bought(v)'
    <3>0. Credit(v) \subseteq Int /\ IsFiniteSet(Credit(v)) /\ vehicle[v].start \in Nat
      BY <1>1, <1>3, CreditFinite, PeriodFacts DEF VehicleRow
    <3>1. CASE old = Never
      <4>1. paid = old
        BY <2>12, <3>1
      <4>2. Credit(v) = {}
        BY <2>10, <3>0, <3>1 DEF Credit, Never
      <4>3. vehicle'[v].start = vehicle[v].start /\ vehicle'[v].paid = vehicle[v].paid /\ vehicle'[v].end = vehicle[v].end
        BY <2>7, <2>8, <2>10, <4>1
      <4>. QED BY <1>1, <1>3, <2>17, <4>2, <4>3, CreditKept
    <3>2. CASE old # Never /\ through < from
      <4>1. paid = old
        BY <2>12, <2>14, <3>2
      <4>2. old < from
        BY <2>2, <2>11, <3>2
      <4>3. \A d \in Credit(v) : OnPause(v, d)' => OnPause(v, d)
        <5>. SUFFICES ASSUME NEW d \in Credit(v), OnPause(v, d)' PROVE OnPause(v, d)
          OBVIOUS
        <5>1. d \in Int /\ d <= old
          BY <2>10, <3>0 DEF Credit
        <5>2. d \notin from .. until
          BY <2>2, <4>2, <5>1
        <5>. QED BY <1>3, <2>19, <5>1, <5>2
      <4>4. vehicle'[v].start = vehicle[v].start /\ vehicle'[v].paid = vehicle[v].paid /\ vehicle'[v].end = vehicle[v].end
        BY <2>7, <2>8, <2>10, <4>1
      <4>. QED BY <1>1, <1>3, <2>17, <4>3, <4>4, CreditKept
    <3>3. CASE old # Never /\ through >= from
      <4>. SUFFICES ASSUME vehicle[v].end = Endless PROVE Cardinality(Credit(v)') >= bought[v]
        BY <1>1, <2>7, <2>8 DEF Bought
      <4>1. /\ paid \in Nat /\ paid > old /\ paid <= Endless /\ old \in Nat
            /\ Cardinality(AheadOf(old, paid, rest)) = through - from + 1
        BY <2>2, <2>6, <2>10, <2>12, <2>14, <3>3 DEF Never
      <4>2. PICK C : C = Credit(v)
        OBVIOUS
      <4>3. PICK D : D = Credit(v)'
        OBVIOUS
      <4>4. PICK Y : Y = AheadOf(old, paid, rest)
        OBVIOUS
      <4>5. /\ \A d : d \in C <=> d \in vehicle[v].start .. old /\ ~OnPause(v, d)
            /\ \A d : d \in D <=> d \in vehicle[v].start .. paid /\ ~OnPause(v, d)'
            /\ \A d : d \in Y <=> d \in old + 1 .. paid /\ d \notin rest
        BY <2>7, <2>8, <2>10, <4>2, <4>3, <4>4 DEF Credit, AheadOf
      <4>6. C \ (from .. through) \in SUBSET D
        <5>. SUFFICES ASSUME NEW d \in C, d \notin from .. through PROVE d \in D
          OBVIOUS
        <5>1. d \in Int /\ d <= old /\ d >= vehicle[v].start /\ ~OnPause(v, d)
          BY <3>0, <4>1, <4>5
        <5>2. d \notin from .. until
          BY <2>2, <2>11, <5>1
        <5>3. ~OnPause(v, d)'
          BY <1>3, <2>19, <5>1, <5>2
        <5>4. d \in vehicle[v].start .. paid
          BY <3>0, <4>1, <5>1
        <5>. QED BY <4>5, <5>3, <5>4
      <4>7. Y \in SUBSET D
        <5>. SUFFICES ASSUME NEW d \in Y PROVE d \in D
          OBVIOUS
        <5>1. d \in Int /\ d > old /\ d <= paid /\ d \notin rest /\ d \notin from .. until
          BY <2>9, <4>1, <4>5
        <5>2. d \in vehicle[v].start .. paid
          BY <1>3, <2>1, <2>2, <2>11, <3>0, <3>3, <4>1, <5>1
        <5>3. ~OnPause(v, d)
          <6>. SUFFICES ASSUME NEW j \in PausesOf(v), pause[j].ended, PausedBy(pause[j], d) PROVE FALSE
            BY DEF OnPause
          <6>1. j # i
            BY <1>1 DEF Running
          <6>2. d \in Ahead
            BY <2>2, <4>1, <5>1 DEF Ahead
          <6>. QED BY <2>9, <5>1, <6>1, <6>2
        <5>4. ~OnPause(v, d)'
          BY <1>3, <2>19, <5>1, <5>3
        <5>. QED BY <4>5, <5>2, <5>4
      <4>8. C \cap Y = {}
        BY <3>0, <4>1, <4>5
      <4>9. IsFiniteSet(C) /\ IsFiniteSet(D) /\ IsFiniteSet(Y) /\ Cardinality(D) \in Nat /\ Cardinality(C) \in Nat
        <5>1. IsFiniteSet(D) /\ Cardinality(D) \in Nat
          BY <1>1, <1>3, <2>17, <4>3, CreditFiniteNext
        <5>2. IsFiniteSet(C) /\ Cardinality(C) \in Nat
          BY <1>1, <1>3, <4>2, CreditFinite
        <5>3. IsFiniteSet(Y)
          BY <4>7, <5>1, FS_Subset
        <5>. QED BY <5>1, <5>2, <5>3
      <4>10. Cardinality(C) <= Cardinality(D)
        <5>1. from \in Int /\ through \in Int /\ from <= through /\ Cardinality(Y) = through - from + 1
          BY <2>2, <2>11, <3>3, <4>1, <4>4
        <5>. QED BY <4>6, <4>7, <4>8, <4>9, <5>1, ReturnCount
      <4>11. Cardinality(C) >= bought[v] /\ bought[v] \in Nat
        BY <1>1, <1>3, <4>2 DEF Bought, PaidRows
      <4>. QED BY <4>3, <4>9, <4>10, <4>11
    <3>. QED BY <2>2, <2>11, <3>1, <3>2, <3>3
  <2>. QED BY <2>16, <2>17, <2>18, <2>20, <2>21 DEF PaidInv
<1>. QED BY <1>4, <1>5

\* A pause is deleted: what its return gave is taken back, and its days count as rent again.
LEMMA DropPaid ==
    ASSUME YardInv, YardInv', PaidInv, OneStart, NEW i \in PauseIds, DeletePause(i)
    PROVE  PaidInv'
<1>1. /\ YardRows /\ YardRows' /\ PaidRows /\ PausesFit /\ bought' = bought /\ PauseRow(pause[i]) /\ PauseFits(pause[i])
      /\ pause' = [pause EXCEPT ![i] = NoPause] /\ pause[i].of # "none"
  BY DEF YardInv, PaidInv, PausesFit, YardRows, DeletePause
<1>2. PICK v \in Known : v = pause[i].of
  BY <1>1 DEF YardRows
<1>3. /\ v \in YardVehicles /\ VehicleRow(vehicle[v]) /\ Bought(v) /\ vehicle[v].start <= pause[i].from
      /\ vehicle[v].paid \in -1 .. Endless /\ vehicle[v].end <= Endless /\ vehicle[v].start \in StartDays
  BY <1>1, <1>2 DEF YardRows, Known, PaidInv, PaidRows, PausesFit
<1>4. PICK remembered \in BOOLEAN : remembered = (pause[i].ended /\ pause[i].paidBefore # Never)
  OBVIOUS
<1>5. PICK old \in -1 .. Endless : old = pause[i].paidBefore
  BY <1>1 DEF PauseFits
<1>6. PICK paid : paid = IF remembered /\ ShiftedBefore(i) # old THEN old ELSE vehicle[v].paid
  OBVIOUS
<1>7. PICK row : row = [vehicle[v] EXCEPT !.paid = paid, !.spot = Relinked(i)]
  OBVIOUS
<1>8. vehicle' = [vehicle EXCEPT ![v] = row]
  <2>1. PICK back : back = IF (pause[i].ended /\ pause[i].paidBefore # Never) /\ ShiftedBefore(i) # pause[i].paidBefore
                           THEN pause[i].paidBefore ELSE vehicle[v].paid
    OBVIOUS
  <2>2. back = paid
    BY <1>4, <1>5, <1>6, <2>1
  <2>3. vehicle' = [vehicle EXCEPT ![v] = [vehicle[v] EXCEPT !.paid = back, !.spot = Relinked(i)]]
    BY <1>1, <1>2, <1>3, <2>1 DEF DeletePause, YardRows
  <2>. QED BY <1>7, <2>2, <2>3
<1>9. row = [status |-> vehicle[v].status, archived |-> vehicle[v].archived, start |-> vehicle[v].start,
             end |-> vehicle[v].end, paid |-> paid, spot |-> Relinked(i)]
  BY <1>3, <1>7 DEF VehicleRow
<1>10. /\ pause'[i] = NoPause /\ \A j \in PauseIds : j # i => pause'[j] = pause[j]
       /\ vehicle'[v] = row /\ \A u \in YardVehicles : u # v => vehicle'[u] = vehicle[u]
  BY <1>1, <1>3, <1>8 DEF YardRows
<1>11. \A j \in PauseIds : Calm(pause[j], pause'[j])
  BY <1>10 DEF Calm
<1>12. Known' = Known
  BY <1>2, <1>9, <1>10 DEF Known, Exists
<1>13. PaidRows'
  <2>1. paid \in -1 .. Endless
    BY <1>3, <1>5, <1>6
  <2>. QED BY <1>1, <1>3, <1>9, <1>10, <1>12, <2>1 DEF PaidRows
<1>14. \A u \in Known' : u # v => u \in Known /\ Keeps(u)
  BY <1>1, <1>10, <1>12 DEF Keeps, Known
<1>15. CASE paid = vehicle[v].paid
  <2>1. Keeps(v)
    BY <1>1, <1>9, <1>10, <1>15 DEF Keeps
  <2>. QED BY <1>11, <1>12, <1>13, <1>14, <2>1, CalmStep
<1>16. CASE paid # vehicle[v].paid
  <2>1. /\ remembered /\ paid = old /\ ShiftedBefore(i) # old /\ pause[i].ended /\ old # Never
        /\ vehicle[v].paid = ShiftedBefore(i)
    BY <1>2, <1>4, <1>5, <1>6, <1>16 DEF DeletePause, CanUndo
  <2>2. PICK from, until : from = pause[i].from /\ until = pause[i].until
    OBVIOUS
  <2>3. /\ from \in Nat /\ until \in Nat /\ from <= until /\ until <= LastYardDay /\ Endless \in Nat
    BY <1>1, <2>1, <2>2, PeriodFacts DEF PauseRow, PauseFits
  <2>4. PICK rest : rest = { d \in Ahead : PausedAt(v, d) }
    OBVIOUS
  <2>5. PICK through \in Int : through = IF until < old THEN until ELSE old
    BY <1>5, <2>3
  <2>6. ShiftedBefore(i) = ShiftPaid(old, from, until, vehicle[v].end, rest)
    BY <1>2, <1>5, <2>2, <2>4 DEF ShiftedBefore
  <2>7. \A d \in rest : d \in Nat /\ d <= Endless
    <3>. SUFFICES ASSUME NEW d \in Ahead, NEW j \in PausesOf(v), PausedBy(pause[j], d) PROVE d \in Nat /\ d <= Endless
      BY <2>4 DEF PausedAt
    <3>1. PauseRow(pause[j])
      BY <1>1 DEF YardRows, PausesOf
    <3>2. d <= BillingEnd(pause[j]) /\ BillingEnd(pause[j]) \in Nat /\ BillingEnd(pause[j]) <= Endless /\ d \in Nat
      BY <2>3, <3>1 DEF PausedBy, BillingEnd, PauseRow, Ahead
    <3>. QED BY <2>3, <3>2
  <2>8. /\ through < from => ShiftPaid(old, from, until, vehicle[v].end, rest) = old
        /\ through >= from =>
             \E day \in Nat : /\ day > old /\ day \notin rest
                              /\ Cardinality(AheadOf(old, day, rest)) = through - from + 1
                              /\ ShiftPaid(old, from, until, vehicle[v].end, rest)
                                   = IF vehicle[v].end # Endless /\ day > vehicle[v].end THEN vehicle[v].end ELSE day
    <3>1. PICK end \in Nat : end = vehicle[v].end
      BY <1>3 DEF VehicleRow
    <3>2. until \in Int /\ from \in Nat /\ until <= LastYardDay
      BY <2>3
    <3>3. /\ through < from => ShiftPaid(old, from, until, end, rest) = old
          /\ through >= from =>
               \E day \in Nat : /\ day > old /\ day \notin rest
                                /\ Cardinality(AheadOf(old, day, rest)) = through - from + 1
                                /\ ShiftPaid(old, from, until, end, rest) = IF end # Endless /\ day > end THEN end ELSE day
      BY <1>5, <2>5, <2>7, <3>2, Shifted
    <3>. QED BY <3>1, <3>3
  <2>9. Bought(v)'
    <3>. SUFFICES ASSUME vehicle[v].end = Endless PROVE Cardinality(Credit(v)') >= bought[v]
      BY <1>1, <1>9, <1>10 DEF Bought
    <3>1. through >= from
      BY <2>1, <2>3, <2>5, <2>6, <2>8
    <3>2. PICK day \in Nat : /\ day > old /\ day \notin rest /\ day = vehicle[v].paid /\ day <= Endless
                             /\ Cardinality(AheadOf(old, day, rest)) = through - from + 1
      BY <1>3, <2>1, <2>6, <2>8, <3>1
    <3>3. old \in Nat /\ vehicle[v].start \in Nat
      <4>1. old \in Nat
        BY <1>5, <2>1, <2>3 DEF Never
      <4>. QED BY <1>3, <4>1, PeriodFacts DEF VehicleRow
    <3>4. PICK A : A = Credit(v)
      OBVIOUS
    <3>5. PICK B : B = Credit(v)'
      OBVIOUS
    <3>6. PICK Y : Y = AheadOf(old, day, rest)
      OBVIOUS
    <3>7. PICK X : X = A \cap (vehicle[v].start .. old)
      OBVIOUS
    <3>8. /\ \A d : d \in A <=> d \in vehicle[v].start .. day /\ ~OnPause(v, d)
          /\ \A d : d \in B <=> d \in vehicle[v].start .. old /\ ~OnPause(v, d)'
          /\ \A d : d \in Y <=> d \in old + 1 .. day /\ d \notin rest
      BY <1>9, <1>10, <2>1, <3>2, <3>4, <3>5, <3>6 DEF Credit, AheadOf
    <3>9. A \in SUBSET (X \cup Y)
      <4>. SUFFICES ASSUME NEW d \in A, d \notin X PROVE d \in Y
        OBVIOUS
      <4>1. d \in Int /\ vehicle[v].start <= d /\ d <= day /\ ~OnPause(v, d) /\ d > old
        BY <3>3, <3>7, <3>8
      <4>2. d \notin rest
        <5>. SUFFICES ASSUME NEW j \in PausesOf(v), PausedBy(pause[j], d) PROVE FALSE
          BY <2>4 DEF PausedAt
        <5>1. ~pause[j].ended
          BY <4>1 DEF OnPause
        <5>2. PauseRow(pause[j])
          BY <1>1 DEF YardRows, PausesOf
        <5>3. pause[j].from <= day /\ day <= BillingEnd(pause[j])
          <6>1. pause[j].from \in Nat /\ pause[j].from <= d
            BY <5>2, PeriodFacts DEF PauseRow, PausedBy
          <6>. QED BY <3>2, <4>1, <5>1, <6>1 DEF BillingEnd
        <5>4. day \in Ahead
          BY <2>3, <3>2, PeriodFacts DEF Ahead
        <5>5. day \in rest
          BY <2>4, <5>3, <5>4 DEF PausedAt, PausedBy
        <5>. QED BY <3>2, <5>5
      <4>. QED BY <3>3, <3>8, <4>1, <4>2
    <3>10. X \in SUBSET B
      <4>1. \A d : OnPause(v, d)' => OnPause(v, d)
        BY <1>3, <1>11, CalmAway
      <4>. QED BY <3>7, <3>8, <4>1
    <3>11. from .. through \in SUBSET B
      <4>. SUFFICES ASSUME NEW d \in from .. through PROVE d \in B
        OBVIOUS
      <4>1. d \in Int /\ from <= d /\ d <= old /\ d <= until /\ vehicle[v].start <= d
        BY <1>3, <2>2, <2>3, <2>5, <3>3
      <4>2. ~OnPause(v, d)'
        <5>. SUFFICES ASSUME OnPause(v, d)' PROVE FALSE
          OBVIOUS
        <5>1. PICK j \in PauseIds : pause'[j].of = v /\ pause'[j].ended /\ PausedBy(pause'[j], d)
          BY DEF OnPause, PausesOf, PausedBy, BillingEnd
        <5>2. j # i /\ pause'[j] = pause[j]
          BY <1>10, <5>1 DEF NoPause
        <5>3. pause[j].of = v /\ pause[j].from <= d /\ d <= pause[j].until
          BY <5>1, <5>2 DEF PausedBy, BillingEnd
        <5>4. \/ pause[j].from < from /\ pause[j].until < from
              \/ from < pause[j].from /\ until < pause[j].from
          BY <1>1, <1>2, <2>2, <5>2, <5>3 DEF PausesFit, OneByOne
        <5>5. pause[j].from \in Nat /\ pause[j].until \in Nat
          BY <1>1, PeriodFacts DEF YardRows, PauseRow
        <5>. QED BY <2>3, <4>1, <5>3, <5>4, <5>5
      <4>. QED BY <3>3, <3>8, <4>1, <4>2
    <3>12. X \cap (from .. through) = {}
      <4>. SUFFICES ASSUME NEW d \in X, d \in from .. through PROVE FALSE
        OBVIOUS
      <4>1. from <= d /\ d <= until
        BY <1>5, <2>3, <2>5
      <4>2. OnPause(v, d)
        BY <1>2, <2>1, <2>2, <4>1 DEF OnPause, PausesOf, PausedBy, BillingEnd
      <4>. QED BY <3>7, <3>8, <4>2
    <3>13. IsFiniteSet(B) /\ Cardinality(B) \in Nat /\ IsFiniteSet(Y)
      <4>1. IsFiniteSet(B) /\ Cardinality(B) \in Nat
        BY <1>1, <1>3, <1>13, <3>5, CreditFiniteNext
      <4>2. IsFiniteSet(Y)
        <5>1. old + 1 \in Int /\ day \in Int /\ Y \in SUBSET (old + 1 .. day)
          BY <3>2, <3>3, <3>8
        <5>. QED BY <5>1, DaySets
      <4>. QED BY <4>1, <4>2
    <3>14. Cardinality(A) <= Cardinality(B)
      <4>1. from \in Int /\ through \in Int /\ from <= through /\ Cardinality(Y) = through - from + 1
        BY <2>3, <3>1, <3>2, <3>6
      <4>. QED BY <3>9, <3>10, <3>11, <3>12, <3>13, <4>1, DropCount
    <3>15. Cardinality(A) >= bought[v] /\ bought[v] \in Nat /\ Cardinality(A) \in Nat
      <4>1. Cardinality(A) \in Nat
        BY <1>1, <1>3, <3>4, CreditFinite
      <4>. QED BY <1>1, <1>3, <3>4, <4>1 DEF Bought, PaidRows
    <3>. QED BY <3>5, <3>13, <3>14, <3>15
  <2>. QED BY <1>11, <1>12, <1>13, <1>14, <2>9, CalmStep
<1>. QED BY <1>15, <1>16

-----------------------------------------------------------------------------
\* Every step, and the empty yard.
LEMMA PaidSteps == ASSUME OneStart, ~OutOfOrder, YardInv, YardInv', PaidInv, [YardNext]_yardVars PROVE PaidInv'
<1>1. CASE VehicleStep
  BY <1>1, InsertPaid, UpdatePaid, StatusPaid, SliderPaid, DeletePaid, ArchivePaid, BillPaid DEF VehicleStep
<1>2. CASE SpotsGo \/ SpotStep \/ NextDay
  BY <1>2, SpotsPaid
<1>3. CASE PauseStep
  BY <1>3, StartPaid, ExtendPaid, ReturnPaid, CollectPaid, DropPaid DEF PauseStep
<1>4. CASE UNCHANGED yardVars
  BY <1>4, StutterPaid
<1>. QED BY <1>1, <1>2, <1>3, <1>4 DEF YardNext
LEMMA PaidStarts == YardInit => PaidInv
<1>. SUFFICES ASSUME YardInit PROVE PaidInv
  OBVIOUS
<1>1. Known = {}
  BY MissingRows DEF YardInit, Known, Exists
<1>2. PaidRows
  BY <1>1, PeriodFacts DEF YardInit, PaidRows, NoVehicle, Never
<1>3. PausesFit
  BY PeriodFacts DEF YardInit, PausesFit, PauseFits, OneByOne, NoPause, Never
<1>. QED BY <1>1, <1>2, <1>3 DEF PaidInv

\* A pause never costs a day that is paid for: when the vehicle is back and its rental goes on, at
\* least as many days of rent are paid as the payment bought (shiftPaidThrough, ReturnFromPause,
\* DeletePause), where pauses are entered in their order and rentals keep their start.
THEOREM PaidDaysStay == OneStart /\ ~OutOfOrder => (YardSpec => []PaidNeverLost)
<1>. SUFFICES ASSUME OneStart, ~OutOfOrder PROVE YardSpec => []PaidNeverLost
  OBVIOUS
<1>1. YardInv /\ PaidInv => PaidNeverLost
  <2>. SUFFICES ASSUME YardInv, PaidInv, NEW v \in Known, ~Resting(v), vehicle[v].end = Endless PROVE PaidDays(v) >= bought[v]
    BY DEF PaidNeverLost
  <2>1. v \in YardVehicles /\ YardRows /\ PaidRows /\ Bought(v)
    BY DEF YardInv, PaidInv, Known
  <2>2. \A d : PausedAt(v, d) => OnPause(v, d)
    <3>1. v # "none"
      BY <2>1, YardAssumption DEF YardAssumption
    <3>. QED BY <3>1 DEF PausedAt, OnPause, Resting, Running, PausesOf
  <2>3. CASE vehicle[v].paid = Never
    <3>1. Credit(v) = {}
      <4>1. vehicle[v].start \in Nat
        BY <2>1, PeriodFacts DEF YardRows, VehicleRow
      <4>. QED BY <2>3, <4>1 DEF Credit, Never
    <3>2. bought[v] = 0
      <4>1. Cardinality(Credit(v)) = 0
        BY <3>1, FS_EmptySet
      <4>. QED BY <2>1, <4>1 DEF Bought, PaidRows
    <3>. QED BY <2>3, <3>2 DEF PaidDays
  <2>4. CASE vehicle[v].paid # Never
    <3>1. PICK R : R = RentDays(v, vehicle[v].paid)
      OBVIOUS
    <3>2. PICK C : C = Credit(v)
      OBVIOUS
    <3>3. C \in SUBSET R
      BY <2>2, <3>1, <3>2 DEF Credit, RentDays
    <3>4. R \in SUBSET C
      BY <3>1, <3>2 DEF Credit, RentDays, OnPause, PausedAt
    <3>5. R = C
      BY <3>3, <3>4
    <3>. QED BY <2>1, <2>4, <3>1, <3>2, <3>5 DEF Bought, PaidDays
  <2>. QED BY <2>3, <2>4
<1>2. YardInv /\ PaidInv /\ [YardNext]_yardVars => YardInv' /\ PaidInv'
  BY YardSteps, PaidSteps
<1>. QED BY <1>1, <1>2, YardStarts, PaidStarts, PTL DEF YardSpec

-----------------------------------------------------------------------------
(* The yard: its rows.                                                      *)

\* What the table of the vehicles, of the pauses and of the bills keep: a vehicle stands on a spot
\* that exists, alone, and ends no sooner than it starts; a pause remembers such a spot.
VehicleFits(x, rows) ==
    /\ x.status \in {"none", "reserved", "stored"} \cup Closing
    /\ x.start <= x.end /\ x.end <= Endless /\ x.paid \in -1 .. Endless
    /\ x.spot \in rows \cup {NoSpot}
    /\ x.archived => x.status # "none"
PauseStands(x, rows) == PauseFits(x) /\ x.spot \in rows \cup {NoSpot}
OneEach == \A u, v \in YardVehicles : vehicle[u].spot = vehicle[v].spot /\ vehicle[u].spot # NoSpot => u = v
VehiclesFit == spotRows \subseteq Spots /\ (\A v \in YardVehicles : VehicleFits(vehicle[v], spotRows)) /\ OneEach
PausesStand == \A i \in PauseIds : PauseStands(pause[i], spotRows)
BilledDaysFit == \A v \in YardVehicles, p \in PeriodSet : invoiced[v][p].days \subseteq Days
YardFits == VehiclesFit /\ PausesStand /\ BilledDaysFit

\* A vehicle alone on its spot, one whose row changes, and a pause whose row changes.
LEMMA OwnSpot ==
    ASSUME VehiclesFit, NEW v \in YardVehicles
    PROVE  vehicle[v].spot = NoSpot \/ \A u \in YardVehicles : u # v => vehicle[u].spot # vehicle[v].spot
BY DEF VehiclesFit, OneEach
LEMMA VehicleEntered ==
    ASSUME YardRows, VehiclesFit, NEW v \in YardVehicles, NEW new, VehicleRow(new), VehicleFits(new, spotRows),
           new.spot = NoSpot \/ \A u \in YardVehicles : u # v => vehicle[u].spot # new.spot,
           vehicle' = [vehicle EXCEPT ![v] = new], UNCHANGED spotRows
    PROVE  VehiclesFit'
<1>1. vehicle'[v] = new /\ \A u \in YardVehicles : u # v => vehicle'[u] = vehicle[u]
  BY VehicleSet
<1>2. \A u \in YardVehicles : VehicleFits(vehicle'[u], spotRows')
  BY <1>1 DEF VehiclesFit
<1>3. OneEach'
  BY <1>1 DEF VehiclesFit, OneEach
<1>. QED BY <1>2, <1>3 DEF VehiclesFit
LEMMA PauseEntered ==
    ASSUME YardRows, PausesStand, NEW i \in PauseIds, NEW new, PauseRow(new), PauseStands(new, spotRows),
           pause' = [pause EXCEPT ![i] = new], UNCHANGED spotRows
    PROVE  PausesStand'
<1>1. pause'[i] = new /\ \A j \in PauseIds : j # i => pause'[j] = pause[j]
  BY PauseSet
<1>. QED BY <1>1 DEF PausesStand
LEMMA EmptyRowsFit == \A rows : VehicleFits(NoVehicle, rows) /\ PauseStands(NoPause, rows)
BY PeriodFacts DEF VehicleFits, PauseStands, PauseFits, NoVehicle, NoPause, Never

\* What a return or a deleted pause does with the spot.
LEMMA RelinkFits ==
    ASSUME YardInv, YardFits, NEW i \in PauseIds, NEW v \in YardVehicles, v = pause[i].of
    PROVE  /\ Relinked(i) \in spotRows \cup {NoSpot}
           /\ Relinked(i) = NoSpot \/ \A u \in YardVehicles : u # v => vehicle[u].spot # Relinked(i)
<1>1. pause[i].spot \in spotRows \cup {NoSpot} /\ vehicle[v].spot \in spotRows \cup {NoSpot}
  BY DEF YardFits, PausesStand, PauseStands, VehiclesFit, VehicleFits
<1>2. CASE Relinked(i) = pause[i].spot /\ Standing(pause[i].spot) = {}
  BY <1>1, <1>2 DEF Standing
<1>3. CASE Relinked(i) = vehicle[v].spot
  BY <1>1, <1>3, OwnSpot DEF YardFits
<1>. QED BY <1>2, <1>3 DEF Relinked

-----------------------------------------------------------------------------
LEMMA InsertFits ==
    ASSUME YardInv, YardFits, NEW v \in YardVehicles, NEW status \in {"reserved", "stored"}, NEW start \in StartDays,
           NEW end \in EndDays \cup {Endless}, InsertVehicle(v, status, start, end)
    PROVE  YardFits'
<1>1. PICK new : new = [NoVehicle EXCEPT !.status = status, !.start = start, !.end = end]
  OBVIOUS
<1>2. new = [status |-> status, archived |-> FALSE, start |-> start, end |-> end, paid |-> Never, spot |-> NoSpot]
  BY <1>1 DEF NoVehicle
<1>3. vehicle' = [vehicle EXCEPT ![v] = new] /\ UNCHANGED <<pause, spotRows, invoiced>> /\ start <= end /\ YardRows
  BY <1>1 DEF InsertVehicle, YardInv
<1>4. VehicleRow(new) /\ VehicleFits(new, spotRows) /\ new.spot = NoSpot
  BY <1>2, <1>3, Entries, PeriodFacts DEF VehicleRow, VehicleFits, Never
<1>. QED BY <1>3, <1>4, VehicleEntered DEF YardFits, PausesStand, BilledDaysFit

LEMMA UpdateFits ==
    ASSUME YardInv, YardFits, NEW v \in YardVehicles, NEW status \in {"reserved", "stored"} \cup Closing, NEW start \in StartDays,
           NEW end \in EndDays \cup {Endless}, UpdateVehicle(v, status, start, end)
    PROVE  YardFits'
<1>1. PICK s \in {NoSpot, vehicle[v].spot} :
           vehicle' = [vehicle EXCEPT ![v] = [@ EXCEPT !.status = status, !.start = start, !.end = end, !.spot = s]]
  BY DEF UpdateVehicle
<1>2. PICK new : new = [vehicle[v] EXCEPT !.status = status, !.start = start, !.end = end, !.spot = s]
  OBVIOUS
<1>3. /\ vehicle' = [vehicle EXCEPT ![v] = new] /\ VehicleRow(vehicle[v]) /\ VehicleFits(vehicle[v], spotRows)
      /\ UNCHANGED <<pause, spotRows, invoiced>> /\ start <= end /\ YardRows
  BY <1>1, <1>2 DEF UpdateVehicle, YardInv, YardRows, YardFits, VehiclesFit
<1>4. start \in Days /\ end \in Nat /\ end <= Endless /\ s \in spotRows \cup {NoSpot}
  BY <1>3, Entries, PeriodFacts DEF VehicleFits
<1>5. new = [status |-> status, archived |-> vehicle[v].archived, start |-> start, end |-> end, paid |-> vehicle[v].paid,
             spot |-> s]
  BY <1>2, <1>3 DEF VehicleRow
<1>6. status \in {"reserved", "stored", "collected", "cancelled"}
  BY DEF Closing
<1>7. VehicleRow(new) /\ VehicleFits(new, spotRows) /\ new.spot = s
  BY <1>3, <1>4, <1>5, <1>6 DEF VehicleRow, VehicleFits, Closing
<1>8. s = NoSpot \/ \A u \in YardVehicles : u # v => vehicle[u].spot # s
  BY OwnSpot DEF YardFits
<1>. QED BY <1>3, <1>7, <1>8, VehicleEntered DEF YardFits, PausesStand, BilledDaysFit

LEMMA CloseFits ==
    ASSUME YardInv, YardFits, NEW v \in YardVehicles, NEW status \in Closing, NEW end \in Nat, end <= Endless,
           CloseOn(v, status, end), UNCHANGED spotRows
    PROVE  VehiclesFit'
<1>1. PICK new : new = [vehicle[v] EXCEPT !.status = status, !.end = end, !.spot = NoSpot]
  OBVIOUS
<1>2. /\ vehicle' = [vehicle EXCEPT ![v] = new] /\ VehicleRow(vehicle[v]) /\ VehicleFits(vehicle[v], spotRows)
      /\ end >= vehicle[v].start /\ YardRows
  BY <1>1 DEF CloseOn, YardInv, YardRows, YardFits, VehiclesFit
<1>3. new = [status |-> status, archived |-> vehicle[v].archived, start |-> vehicle[v].start, end |-> end,
             paid |-> vehicle[v].paid, spot |-> NoSpot]
  BY <1>1, <1>2 DEF VehicleRow
<1>4. vehicle[v].start \in Nat
  BY <1>2, PeriodFacts DEF VehicleRow
<1>5. VehicleRow(new) /\ VehicleFits(new, spotRows) /\ new.spot = NoSpot
  BY <1>2, <1>3, <1>4 DEF VehicleRow, VehicleFits, Closing
<1>. QED BY <1>2, <1>5, VehicleEntered DEF YardFits

LEMMA StatusFits ==
    ASSUME YardInv, YardFits, NEW v \in YardVehicles, NEW status \in {"reserved", "stored"} \cup Closing,
           NEW date \in EndDays \cup {Never}, ChangeVehicleStatus(v, status, date)
    PROVE  YardFits'
<1>1. /\ YardRows /\ VehicleRow(vehicle[v]) /\ VehicleFits(vehicle[v], spotRows) /\ UNCHANGED <<pause, spotRows, invoiced>>
      /\ yardDay \in Days
  BY DEF ChangeVehicleStatus, YardInv, YardRows, YardFits, VehiclesFit
<1>2. CASE status \in Closing
  <2>1. ClosingDay(v, status, date) \in Nat /\ ClosingDay(v, status, date) <= Endless
    BY <1>1, Entries, PeriodFacts DEF ClosingDay, VehicleRow, VehicleFits
  <2>2. PICK end \in Nat : end = ClosingDay(v, status, date) /\ end <= Endless
    BY <2>1
  <2>3. CloseOn(v, status, end)
    BY <1>2, <2>2 DEF ChangeVehicleStatus
  <2>. QED BY <1>1, <1>2, <2>2, <2>3, CloseFits DEF YardFits, PausesStand, BilledDaysFit
<1>3. CASE status \notin Closing
  <2>1. PICK new : new = [vehicle[v] EXCEPT !.status = status, !.end = Endless]
    OBVIOUS
  <2>2. vehicle' = [vehicle EXCEPT ![v] = new]
    BY <1>1, <1>3, <2>1 DEF ChangeVehicleStatus, YardRows
  <2>3. new = [status |-> status, archived |-> vehicle[v].archived, start |-> vehicle[v].start, end |-> Endless,
               paid |-> vehicle[v].paid, spot |-> vehicle[v].spot]
    BY <1>1, <2>1 DEF VehicleRow
  <2>4. VehicleRow(new) /\ VehicleFits(new, spotRows) /\ new.spot = vehicle[v].spot
    <3>1. status # "none" /\ status \in {"none", "reserved", "stored"} \cup Closing
      BY DEF Closing
    <3>2. vehicle[v].start <= Endless /\ Endless \in Nat /\ Endless <= Endless
      <4>1. vehicle[v].start \in Days
        BY <1>1 DEF VehicleRow
      <4>2. vehicle[v].start <= Endless
        BY <4>1, Entries
      <4>. QED BY <4>2, PeriodFacts
    <3>. QED BY <1>1, <2>3, <3>1, <3>2 DEF VehicleRow, VehicleFits
  <2>5. vehicle[v].spot = NoSpot \/ \A u \in YardVehicles : u # v => vehicle[u].spot # vehicle[v].spot
    BY OwnSpot DEF YardFits
  <2>. QED BY <1>1, <2>2, <2>4, <2>5, VehicleEntered DEF YardFits, PausesStand, BilledDaysFit
<1>. QED BY <1>2, <1>3

LEMMA PaymentFits == ASSUME YardInv, YardFits, NEW v \in YardVehicles, NEW on \in BOOLEAN, MarkPaid(v, on) PROVE YardFits'
<1>1. PICK paid \in {Never, yardDay, vehicle[v].paid} : vehicle' = [vehicle EXCEPT ![v].paid = paid]
  BY DEF MarkPaid, YardInv, YardRows
<1>2. PICK new : new = [vehicle[v] EXCEPT !.paid = paid]
  OBVIOUS
<1>3. /\ YardRows /\ vehicle' = [vehicle EXCEPT ![v] = new] /\ VehicleRow(vehicle[v]) /\ VehicleFits(vehicle[v], spotRows)
      /\ UNCHANGED <<pause, spotRows, invoiced>> /\ yardDay \in Days
  BY <1>1, <1>2 DEF MarkPaid, YardInv, YardRows, YardFits, VehiclesFit
<1>4. paid \in -1 .. Endless
  BY <1>3, PeriodFacts DEF VehicleFits, Never
<1>5. new = [status |-> vehicle[v].status, archived |-> vehicle[v].archived, start |-> vehicle[v].start,
             end |-> vehicle[v].end, paid |-> paid, spot |-> vehicle[v].spot]
  BY <1>2, <1>3 DEF VehicleRow
<1>6. VehicleRow(new) /\ VehicleFits(new, spotRows) /\ new.spot = vehicle[v].spot
  BY <1>3, <1>4, <1>5 DEF VehicleRow, VehicleFits
<1>7. vehicle[v].spot = NoSpot \/ \A u \in YardVehicles : u # v => vehicle[u].spot # vehicle[v].spot
  BY OwnSpot DEF YardFits
<1>. QED BY <1>3, <1>6, <1>7, VehicleEntered DEF YardFits, PausesStand, BilledDaysFit

LEMMA DeleteFits == ASSUME YardInv, YardFits, NEW v \in YardVehicles, DeleteVehicle(v) PROVE YardFits'
<1>1. /\ YardRows /\ vehicle' = [vehicle EXCEPT ![v] = NoVehicle] /\ UNCHANGED <<spotRows, invoiced>>
      /\ pause' = [i \in PauseIds |-> IF pause[i].of = v THEN NoPause ELSE pause[i]]
  BY DEF DeleteVehicle, YardInv
<1>2. VehicleRow(NoVehicle) /\ VehicleFits(NoVehicle, spotRows) /\ NoVehicle.spot = NoSpot
  BY MissingRows, EmptyRowsFit DEF NoVehicle
<1>3. VehiclesFit'
  BY <1>1, <1>2, VehicleEntered DEF YardFits
<1>4. PausesStand'
  BY <1>1, EmptyRowsFit DEF YardFits, PausesStand
<1>. QED BY <1>1, <1>3, <1>4 DEF YardFits, BilledDaysFit

LEMMA ArchiveFits == ASSUME YardInv, YardFits, NEW v \in YardVehicles, AutoArchive(v) \/ ReactivateVehicle(v) PROVE YardFits'
<1>1. PICK a : /\ vehicle' = [vehicle EXCEPT ![v].archived = a] /\ UNCHANGED <<pause, spotRows, invoiced>>
               /\ a => vehicle[v].status # "none"
  BY DEF AutoArchive, ReactivateVehicle
<1>2. PICK new : new = [vehicle[v] EXCEPT !.archived = a]
  OBVIOUS
<1>3. YardRows /\ vehicle' = [vehicle EXCEPT ![v] = new] /\ VehicleRow(vehicle[v]) /\ VehicleFits(vehicle[v], spotRows)
  BY <1>1, <1>2 DEF YardInv, YardRows, YardFits, VehiclesFit
<1>4. new = [status |-> vehicle[v].status, archived |-> a, start |-> vehicle[v].start, end |-> vehicle[v].end,
             paid |-> vehicle[v].paid, spot |-> vehicle[v].spot]
  BY <1>2, <1>3 DEF VehicleRow
<1>5. VehicleRow(new) /\ VehicleFits(new, spotRows) /\ new.spot = vehicle[v].spot
  BY <1>1, <1>3, <1>4 DEF VehicleRow, VehicleFits
<1>6. vehicle[v].spot = NoSpot \/ \A u \in YardVehicles : u # v => vehicle[u].spot # vehicle[v].spot
  BY OwnSpot DEF YardFits
<1>. QED BY <1>1, <1>3, <1>5, <1>6, VehicleEntered DEF YardFits, PausesStand, BilledDaysFit

-----------------------------------------------------------------------------
LEMMA SpotMade == ASSUME YardInv, YardFits, NEW s \in Spots, CreateSpot(s) PROVE YardFits'
<1>1. spotRows' = spotRows \cup {s} /\ UNCHANGED <<vehicle, pause, invoiced>>
  BY DEF CreateSpot
<1>2. \A x : VehicleFits(x, spotRows) => VehicleFits(x, spotRows')
  BY <1>1 DEF VehicleFits
<1>3. \A x : PauseStands(x, spotRows) => PauseStands(x, spotRows')
  BY <1>1 DEF PauseStands
<1>. QED BY <1>1, <1>2, <1>3 DEF YardFits, VehiclesFit, OneEach, PausesStand, BilledDaysFit

LEMMA AssignFits ==
    ASSUME YardInv, YardFits, NEW s \in Spots, NEW v \in YardVehicles, AssignSpotVehicle(s, v) PROVE YardFits'
<1>1. /\ YardRows /\ s \in spotRows /\ vehicle' = [vehicle EXCEPT ![v].spot = s] /\ UNCHANGED <<pause, spotRows, invoiced>>
      /\ VehicleRow(vehicle[v]) /\ VehicleFits(vehicle[v], spotRows)
      /\ \A u \in YardVehicles : u # v => vehicle[u].spot # s
  BY DEF AssignSpotVehicle, Standing, YardInv, YardRows, YardFits, VehiclesFit
<1>2. PICK new : new = [vehicle[v] EXCEPT !.spot = s]
  OBVIOUS
<1>3. vehicle' = [vehicle EXCEPT ![v] = new]
  BY <1>1, <1>2 DEF YardRows
<1>4. new = [status |-> vehicle[v].status, archived |-> vehicle[v].archived, start |-> vehicle[v].start,
             end |-> vehicle[v].end, paid |-> vehicle[v].paid, spot |-> s]
  BY <1>1, <1>2 DEF VehicleRow
<1>5. VehicleRow(new) /\ VehicleFits(new, spotRows) /\ new.spot = s
  BY <1>1, <1>4 DEF VehicleRow, VehicleFits
<1>. QED BY <1>1, <1>3, <1>5, VehicleEntered DEF YardFits, PausesStand, BilledDaysFit

\* Vehicles lose a spot, and with it may go the spot.
LEMMA WithoutFits ==
    ASSUME YardInv, VehiclesFit, NEW gone, vehicle' = Without(gone), spotRows' \in {spotRows, spotRows \ gone}
    PROVE  VehiclesFit'
<1>1. ASSUME NEW v \in YardVehicles
      PROVE  /\ VehicleFits(vehicle'[v], spotRows')
             /\ vehicle'[v].spot = NoSpot \/ vehicle'[v].spot = vehicle[v].spot
  <2>1. VehicleRow(vehicle[v]) /\ VehicleFits(vehicle[v], spotRows)
    BY DEF YardInv, YardRows, VehiclesFit
  <2>2. CASE vehicle[v].spot \in gone
    <3>1. PICK new : new = [vehicle[v] EXCEPT !.spot = NoSpot]
      OBVIOUS
    <3>2. new = [status |-> vehicle[v].status, archived |-> vehicle[v].archived, start |-> vehicle[v].start,
                 end |-> vehicle[v].end, paid |-> vehicle[v].paid, spot |-> NoSpot]
      BY <2>1, <3>1 DEF VehicleRow
    <3>3. VehicleFits(new, spotRows') /\ new.spot = NoSpot
      BY <2>1, <3>2 DEF VehicleFits
    <3>4. vehicle'[v] = new
      BY <2>2, <3>1 DEF Without
    <3>. QED BY <3>3, <3>4
  <2>3. CASE vehicle[v].spot \notin gone
    <3>1. vehicle'[v] = vehicle[v]
      BY <2>3 DEF Without
    <3>2. vehicle[v].spot \in spotRows' \cup {NoSpot}
      BY <2>1, <2>3 DEF VehicleFits
    <3>. QED BY <2>1, <3>1, <3>2 DEF VehicleFits
  <2>. QED BY <2>2, <2>3
<1>2. OneEach'
  BY <1>1 DEF VehiclesFit, OneEach
<1>. QED BY <1>1, <1>2 DEF VehiclesFit

LEMMA SpotsGoFits == ASSUME YardInv, YardFits, NEW gone, DeleteSpots(gone) PROVE YardFits'
<1>1. /\ spotRows' = spotRows \ gone /\ vehicle' = Without(gone) /\ UNCHANGED invoiced
      /\ pause' = [i \in PauseIds |-> IF pause[i].spot \in gone THEN [pause[i] EXCEPT !.spot = NoSpot] ELSE pause[i]]
  BY DEF DeleteSpots
<1>2. VehiclesFit'
  BY <1>1, WithoutFits DEF YardFits
<1>3. ASSUME NEW i \in PauseIds PROVE PauseStands(pause'[i], spotRows')
  <2>1. PauseRow(pause[i]) /\ PauseStands(pause[i], spotRows)
    BY DEF YardInv, YardRows, YardFits, PausesStand
  <2>2. CASE pause[i].spot \in gone
    <3>1. PICK new : new = [pause[i] EXCEPT !.spot = NoSpot]
      OBVIOUS
    <3>2. new = [of |-> pause[i].of, from |-> pause[i].from, until |-> pause[i].until, ended |-> pause[i].ended,
                 spot |-> NoSpot, paidBefore |-> pause[i].paidBefore]
      BY <2>1, <3>1 DEF PauseRow
    <3>3. PauseStands(new, spotRows')
      BY <2>1, <3>2 DEF PauseStands, PauseFits
    <3>. QED BY <1>1, <2>2, <3>1, <3>3
  <2>3. CASE pause[i].spot \notin gone
    BY <1>1, <2>1, <2>3 DEF PauseStands
  <2>. QED BY <2>2, <2>3
<1>. QED BY <1>1, <1>2, <1>3 DEF YardFits, PausesStand, BilledDaysFit

-----------------------------------------------------------------------------
LEMMA StartFits ==
    ASSUME YardInv, YardFits, NEW v \in YardVehicles, NEW i \in PauseIds, NEW from \in PauseDays,
           NEW until \in PauseDays \cup {Endless}, NEW hold \in BOOLEAN, StartPause(v, i, from, until, hold)
    PROVE  YardFits'
<1>1. PICK s \in {NoSpot, vehicle[v].spot} :
           pause' = [pause EXCEPT ![i] = [NoPause EXCEPT !.of = v, !.from = from, !.until = until, !.spot = s]]
  BY DEF StartPause
<1>2. PICK new : new = [NoPause EXCEPT !.of = v, !.from = from, !.until = until, !.spot = s]
  OBVIOUS
<1>3. new = [of |-> v, from |-> from, until |-> until, ended |-> FALSE, spot |-> s, paidBefore |-> Never]
  BY <1>2 DEF NoPause
<1>4. /\ YardRows /\ VehicleRow(vehicle[v]) /\ VehicleFits(vehicle[v], spotRows) /\ UNCHANGED <<spotRows, invoiced>>
      /\ pause' = [pause EXCEPT ![i] = new]
  BY <1>1, <1>2 DEF YardInv, YardRows, YardFits, VehiclesFit, StartPause
<1>5. PauseRow(new)
  BY <1>3, Entries, PeriodFacts DEF PauseRow
<1>6. PauseStands(new, spotRows)
  BY <1>3, <1>4, PeriodFacts DEF PauseStands, PauseFits, Never, VehicleFits
<1>7. PausesStand'
  BY <1>4, <1>5, <1>6, PauseEntered DEF YardFits
<1>8. VehiclesFit'
  <2>1. CASE hold
    BY <2>1 DEF StartPause, YardFits, VehiclesFit, OneEach
  <2>2. CASE ~hold
    <3>1. PICK row : row = [vehicle[v] EXCEPT !.spot = NoSpot]
      OBVIOUS
    <3>2. vehicle' = [vehicle EXCEPT ![v] = row]
      BY <1>4, <2>2, <3>1 DEF StartPause, YardRows
    <3>3. row = [status |-> vehicle[v].status, archived |-> vehicle[v].archived, start |-> vehicle[v].start,
                 end |-> vehicle[v].end, paid |-> vehicle[v].paid, spot |-> NoSpot]
      BY <1>4, <3>1 DEF VehicleRow
    <3>4. VehicleRow(row) /\ VehicleFits(row, spotRows) /\ row.spot = NoSpot
      BY <1>4, <3>3 DEF VehicleRow, VehicleFits
    <3>. QED BY <1>4, <3>2, <3>4, VehicleEntered DEF YardFits
  <2>. QED BY <2>1, <2>2
<1>. QED BY <1>4, <1>7, <1>8 DEF YardFits, BilledDaysFit

LEMMA ExtendFits ==
    ASSUME YardInv, YardFits, NEW i \in PauseIds, NEW until \in PauseDays \cup {Endless}, ExtendPause(i, until)
    PROVE  YardFits'
<1>1. PICK new : new = [pause[i] EXCEPT !.until = until]
  OBVIOUS
<1>2. /\ YardRows /\ PauseRow(pause[i]) /\ PauseStands(pause[i], spotRows) /\ pause' = [pause EXCEPT ![i] = new]
      /\ ~pause[i].ended /\ UNCHANGED <<vehicle, spotRows, invoiced>>
  BY <1>1 DEF YardInv, YardRows, YardFits, PausesStand, ExtendPause, Running
<1>3. new = [of |-> pause[i].of, from |-> pause[i].from, until |-> until, ended |-> pause[i].ended, spot |-> pause[i].spot,
             paidBefore |-> pause[i].paidBefore]
  BY <1>1, <1>2 DEF PauseRow
<1>4. PauseRow(new)
  BY <1>2, <1>3, Entries, PeriodFacts DEF PauseRow
<1>5. PauseStands(new, spotRows)
  BY <1>2, <1>3 DEF PauseStands, PauseFits
<1>. QED BY <1>2, <1>4, <1>5, PauseEntered DEF YardFits, VehiclesFit, OneEach, BilledDaysFit

\* The day a payment reaches after the return is a day.
LEMMA ReturnPays ==
    ASSUME YardInv, YardFits, NEW i \in PauseIds, NEW v \in YardVehicles, v = pause[i].of, NEW on \in Days,
           PaidAfterReturn(i, on) <= Endless
    PROVE  PaidAfterReturn(i, on) \in -1 .. Endless
<1>1. /\ VehicleRow(vehicle[v]) /\ VehicleFits(vehicle[v], spotRows) /\ PauseRow(pause[i])
      /\ \A j \in PauseIds : PauseRow(pause[j])
  BY DEF YardInv, YardRows, YardFits, VehiclesFit
<1>2. PICK paid \in -1 .. Endless, end \in Nat, from \in Nat, until \in Int, through \in Int :
        /\ paid = vehicle[v].paid /\ end = vehicle[v].end /\ from = pause[i].from /\ until = on - 1
        /\ through = IF until < paid THEN until ELSE paid
  <2>1. vehicle[v].paid \in -1 .. Endless /\ vehicle[v].end \in Nat
    BY <1>1 DEF VehicleRow, VehicleFits
  <2>2. pause[i].from \in Nat /\ on \in Nat
    BY <1>1, PeriodFacts DEF PauseRow
  <2>3. on - 1 \in Int
    BY <2>2
  <2>4. \A a, b \in Int : (IF a < b THEN a ELSE b) \in Int
    OBVIOUS
  <2>. QED BY <2>1, <2>2, <2>3, <2>4
<1>3. CASE paid = Never
  BY <1>2, <1>3, PeriodFacts DEF PaidAfterReturn, Never
<1>4. CASE paid # Never
  <2>1. PICK rest : rest = (from .. until) \cup { d \in Ahead : \E j \in PausesOf(v) \ {i} : PausedBy(pause[j], d) }
    OBVIOUS
  <2>2. PaidAfterReturn(i, on) = ShiftPaid(paid, from, until, end, rest)
    BY <1>2, <1>4, <2>1 DEF PaidAfterReturn
  <2>3. until <= LastYardDay /\ LastYardDay < Endless /\ Endless \in Nat /\ LastYardDay \in Nat
    BY <1>2, PeriodFacts DEF Days, Endless
  <2>4. \A d \in rest : d \in Nat /\ d <= Endless
    <3>1. \A d \in from .. until : d \in Nat /\ d <= Endless
      BY <1>2, <2>3
    <3>2. ASSUME NEW d \in Ahead, NEW j \in PausesOf(v), PausedBy(pause[j], d) PROVE d \in Nat /\ d <= Endless
      <4>0. PauseRow(pause[j])
        BY <1>1 DEF PausesOf
      <4>1. BillingEnd(pause[j]) \in Nat /\ BillingEnd(pause[j]) <= Endless
        BY <2>3, <4>0 DEF BillingEnd, PauseRow
      <4>2. d \in Nat
        BY <2>3 DEF Ahead
      <4>. QED BY <2>3, <3>2, <4>1, <4>2 DEF PausedBy
    <3>. QED BY <2>1, <3>1, <3>2
  <2>5. /\ through < from => ShiftPaid(paid, from, until, end, rest) = paid
        /\ through >= from =>
             \E day \in Nat : /\ day > paid /\ day \notin rest
                              /\ Cardinality(AheadOf(paid, day, rest)) = through - from + 1
                              /\ ShiftPaid(paid, from, until, end, rest) = IF end # Endless /\ day > end THEN end ELSE day
    <3>1. until \in Int /\ from \in Nat /\ until <= LastYardDay /\ through = IF until < paid THEN until ELSE paid
      BY <1>2, <2>3
    <3>. QED BY <2>4, <3>1, Shifted
  <2>6. ShiftPaid(paid, from, until, end, rest) \in Int /\ ShiftPaid(paid, from, until, end, rest) >= -1
    <3>1. through \in Int /\ paid \in Int /\ paid >= -1
      BY <1>2
    <3>2. CASE through < from
      BY <2>5, <3>1, <3>2
    <3>3. CASE through >= from
      <4>1. PICK day \in Nat : ShiftPaid(paid, from, until, end, rest) = IF end # Endless /\ day > end THEN end ELSE day
        BY <2>5, <3>3
      <4>. QED BY <1>2, <4>1
    <3>. QED BY <1>2, <3>1, <3>2, <3>3
  <2>7. PICK n \in Int : n = PaidAfterReturn(i, on) /\ n >= -1
    BY <2>2, <2>6
  <2>. QED BY <2>3, <2>7
<1>. QED BY <1>3, <1>4

LEMMA ReturnFits == ASSUME YardInv, YardFits, NEW i \in PauseIds, NEW on \in Days, ReturnFromPause(i, on) PROVE YardFits'
<1>1. /\ YardRows /\ PauseRow(pause[i]) /\ PauseStands(pause[i], spotRows) /\ Running(i) /\ on >= pause[i].from
      /\ UNCHANGED <<spotRows, invoiced>> /\ pause[i].of \in YardVehicles /\ PaidAfterReturn(i, on) <= Endless
  BY DEF YardInv, YardRows, YardFits, PausesStand, PauseRow, Running, ReturnFromPause
<1>2. PICK v \in YardVehicles : v = pause[i].of
  BY <1>1
<1>3. /\ VehicleRow(vehicle[v]) /\ VehicleFits(vehicle[v], spotRows) /\ vehicle[v].paid \in -1 .. Endless
      /\ Relinked(i) \in spotRows \cup {NoSpot}
      /\ Relinked(i) = NoSpot \/ \A u \in YardVehicles : u # v => vehicle[u].spot # Relinked(i)
  BY <1>1, <1>2, RelinkFits DEF YardRows, YardFits, VehiclesFit, VehicleFits
<1>4. CASE on = pause[i].from
  <2>1. pause' = [pause EXCEPT ![i] = NoPause] /\ vehicle' = [vehicle EXCEPT ![v].spot = Relinked(i)]
    BY <1>2, <1>4 DEF ReturnFromPause
  <2>2. PICK new : new = [vehicle[v] EXCEPT !.spot = Relinked(i)]
    OBVIOUS
  <2>3. /\ vehicle' = [vehicle EXCEPT ![v] = new]
        /\ new = [status |-> vehicle[v].status, archived |-> vehicle[v].archived, start |-> vehicle[v].start,
                  end |-> vehicle[v].end, paid |-> vehicle[v].paid, spot |-> Relinked(i)]
    BY <1>1, <1>3, <2>1, <2>2 DEF YardRows, VehicleRow
  <2>4. VehicleRow(new) /\ VehicleFits(new, spotRows) /\ new.spot = Relinked(i)
    BY <1>3, <2>3 DEF VehicleRow, VehicleFits
  <2>5. VehiclesFit'
    BY <1>1, <1>3, <2>3, <2>4, VehicleEntered DEF YardFits
  <2>6. PausesStand'
    BY <1>1, <2>1, MissingRows, EmptyRowsFit, PauseEntered DEF YardFits
  <2>. QED BY <1>1, <2>5, <2>6 DEF YardFits, BilledDaysFit
<1>5. CASE on # pause[i].from
  <2>1. PICK new : new = [pause[i] EXCEPT !.until = on - 1, !.ended = TRUE, !.paidBefore = vehicle[v].paid]
    OBVIOUS
  <2>2. PICK row : row = [vehicle[v] EXCEPT !.paid = PaidAfterReturn(i, on), !.spot = Relinked(i)]
    OBVIOUS
  <2>3. pause' = [pause EXCEPT ![i] = new] /\ vehicle' = [vehicle EXCEPT ![v] = row]
    BY <1>1, <1>2, <1>5, <2>1, <2>2 DEF ReturnFromPause, YardRows
  <2>4. PaidAfterReturn(i, on) \in -1 .. Endless
    BY <1>1, <1>2, ReturnPays
  <2>5. VehicleRow(row) /\ VehicleFits(row, spotRows) /\ row.spot = Relinked(i)
    <3>1. row = [status |-> vehicle[v].status, archived |-> vehicle[v].archived, start |-> vehicle[v].start,
                 end |-> vehicle[v].end, paid |-> PaidAfterReturn(i, on), spot |-> Relinked(i)]
      BY <1>3, <2>2 DEF VehicleRow
    <3>. QED BY <1>3, <2>4, <3>1 DEF VehicleRow, VehicleFits
  <2>6. new = [of |-> pause[i].of, from |-> pause[i].from, until |-> on - 1, ended |-> TRUE, spot |-> pause[i].spot,
               paidBefore |-> vehicle[v].paid]
    BY <1>1, <2>1 DEF PauseRow
  <2>7. on - 1 \in Nat /\ on - 1 <= LastYardDay /\ on - 1 >= pause[i].from /\ LastYardDay < Endless /\ Endless \in Nat
    <3>1. on \in Nat /\ pause[i].from \in Nat /\ on <= LastYardDay /\ LastYardDay \in Nat
      BY <1>1, PeriodFacts DEF PauseRow, Days
    <3>. QED BY <1>1, <1>5, <3>1 DEF Endless
  <2>8. PauseRow(new)
    <3>1. on - 1 <= Endless
      BY <2>7, PeriodFacts
    <3>. QED BY <1>1, <2>6, <2>7, <3>1 DEF PauseRow
  <2>9. PauseStands(new, spotRows)
    BY <1>1, <1>3, <2>6, <2>7 DEF PauseStands, PauseFits
  <2>. QED BY <1>1, <1>3, <2>3, <2>5, <2>8, <2>9, VehicleEntered, PauseEntered DEF YardFits, BilledDaysFit
<1>. QED BY <1>4, <1>5

LEMMA CollectFits == ASSUME YardInv, YardFits, NEW i \in PauseIds, CollectFromPause(i) PROVE YardFits'
<1>1. PICK v \in YardVehicles : /\ v = pause[i].of /\ CloseOn(v, "collected", pause[i].from)
                                /\ pause' = [pause EXCEPT ![i] = NoPause] /\ UNCHANGED <<spotRows, invoiced>>
  BY DEF CollectFromPause
<1>2. YardRows /\ PauseRow(pause[i])
  BY DEF YardInv, YardRows
<1>3. PICK end \in Nat : end = pause[i].from /\ end <= Endless
  <2>1. pause[i].from \in Days /\ pause[i].from \in Nat
    BY <1>2, PeriodFacts DEF PauseRow
  <2>2. pause[i].from <= Endless
    BY <2>1, Entries
  <2>. QED BY <2>1, <2>2
<1>4. VehiclesFit'
  BY <1>1, <1>3, CloseFits DEF Closing
<1>5. PausesStand'
  BY <1>1, <1>2, MissingRows, EmptyRowsFit, PauseEntered DEF YardFits
<1>. QED BY <1>1, <1>4, <1>5 DEF YardFits, BilledDaysFit

LEMMA DropFits == ASSUME YardInv, YardFits, NEW i \in PauseIds, DeletePause(i) PROVE YardFits'
<1>1. /\ YardRows /\ pause[i].of \in YardVehicles /\ PauseStands(pause[i], spotRows) /\ UNCHANGED <<spotRows, invoiced>>
      /\ pause' = [pause EXCEPT ![i] = NoPause]
  BY DEF YardInv, YardRows, PauseRow, YardFits, PausesStand, DeletePause
<1>2. PICK v \in YardVehicles : v = pause[i].of
  BY <1>1
<1>3. /\ VehicleRow(vehicle[v]) /\ VehicleFits(vehicle[v], spotRows)
      /\ Relinked(i) \in spotRows \cup {NoSpot}
      /\ Relinked(i) = NoSpot \/ \A u \in YardVehicles : u # v => vehicle[u].spot # Relinked(i)
  BY <1>1, <1>2, RelinkFits DEF YardRows, YardFits, VehiclesFit
<1>4. PICK paid \in {pause[i].paidBefore, vehicle[v].paid} :
           vehicle' = [vehicle EXCEPT ![v] = [@ EXCEPT !.paid = paid, !.spot = Relinked(i)]]
  BY <1>2 DEF DeletePause
<1>5. paid \in -1 .. Endless
  BY <1>1, <1>3, <1>4 DEF PauseStands, PauseFits, VehicleFits
<1>6. PICK new : new = [vehicle[v] EXCEPT !.paid = paid, !.spot = Relinked(i)]
  OBVIOUS
<1>7. VehicleRow(new) /\ VehicleFits(new, spotRows) /\ new.spot = Relinked(i)
  <2>1. new = [status |-> vehicle[v].status, archived |-> vehicle[v].archived, start |-> vehicle[v].start,
               end |-> vehicle[v].end, paid |-> paid, spot |-> Relinked(i)]
    BY <1>3, <1>6 DEF VehicleRow
  <2>. QED BY <1>3, <1>5, <2>1 DEF VehicleRow, VehicleFits
<1>8. VehiclesFit'
  <2>1. YardRows /\ VehiclesFit /\ UNCHANGED spotRows
    BY <1>1 DEF YardFits
  <2>2. vehicle' = [vehicle EXCEPT ![v] = new]
    BY <1>4, <1>6
  <2>3. new.spot = NoSpot \/ \A u \in YardVehicles : u # v => vehicle[u].spot # new.spot
    BY <1>3, <1>7
  <2>4. VehicleRow(new) /\ VehicleFits(new, spotRows)
    BY <1>7
  <2>. QED BY <2>1, <2>2, <2>3, <2>4, VehicleEntered
<1>9. PausesStand'
  BY <1>1, MissingRows, EmptyRowsFit, PauseEntered DEF YardFits
<1>. QED BY <1>1, <1>8, <1>9 DEF YardFits, BilledDaysFit

-----------------------------------------------------------------------------
\* Billed are days that are over, so days of the calendar.
LEMMA BillFits == ASSUME YardInv, YardFits, NEW v \in YardVehicles, InvoiceVehicle(v) PROVE YardFits'
<1>1. /\ YardRows /\ VehicleRow(vehicle[v]) /\ yardDay \in Days /\ UNCHANGED <<vehicle, pause, spotRows>>
      /\ invoiced' = [invoiced EXCEPT ![v] = [p \in PeriodSet |->
           IF p \in ToInvoice(v) THEN [on |-> yardDay, days |-> Billable(v, p)] ELSE @[p]]]
  BY DEF YardInv, YardRows, InvoiceVehicle
<1>2. ASSUME NEW p \in ToInvoice(v), NEW d \in Billable(v, p) PROVE d \in Days
  <2>1. p \in PeriodSet /\ Over(v, p) /\ d \in RentDays(v, LastOf(p))
    BY DEF ToInvoice, Billable
  <2>2. PICK start \in Nat, end \in Nat, last \in Int, today \in Nat :
          start = vehicle[v].start /\ end = vehicle[v].end /\ last = LastOf(p) /\ today = yardDay
    <3>1. vehicle[v].start \in Nat /\ vehicle[v].end \in Nat /\ yardDay \in Nat /\ p \in Nat
      BY <1>1, <2>1, PeriodFacts DEF VehicleRow
    <3>2. LastOf(p) \in Int
      BY <3>1 DEF LastOf, PeriodDays
    <3>. QED BY <3>1, <3>2
  <2>3. d \in start .. last /\ (end = Endless \/ d <= end) /\ (last < today \/ end < today)
    BY <2>1, <2>2 DEF RentDays, Over
  <2>4. today <= LastYardDay /\ today < Endless /\ Endless \in Nat /\ LastYardDay \in Nat
    BY <1>1, <2>2, PeriodFacts DEF Days
  <2>5. d \in Int /\ d >= 0 /\ d <= LastYardDay
    BY <2>2, <2>3, <2>4
  <2>. QED BY <2>4, <2>5 DEF Days
<1>3. ASSUME NEW u \in YardVehicles, NEW p \in PeriodSet PROVE invoiced'[u][p].days \subseteq Days
  <2>1. \/ invoiced'[u][p] = invoiced[u][p]
        \/ u = v /\ p \in ToInvoice(v) /\ invoiced'[u][p] = [on |-> yardDay, days |-> Billable(v, p)]
    BY <1>1 DEF YardRows
  <2>. QED BY <1>2, <2>1 DEF YardFits, BilledDaysFit
<1>. QED BY <1>1, <1>3 DEF YardFits, VehiclesFit, OneEach, PausesStand, BilledDaysFit

LEMMA CancelFits == ASSUME YardInv, YardFits, NEW v \in YardVehicles, NEW on, CancelVehicleInvoice(v, on) PROVE YardFits'
<1>1. /\ YardRows /\ UNCHANGED <<vehicle, pause, spotRows>>
      /\ invoiced' = [invoiced EXCEPT ![v] = [p \in PeriodSet |-> IF @[p].on = on THEN NotBilled ELSE @[p]]]
  BY DEF YardInv, CancelVehicleInvoice
<1>2. \A u \in YardVehicles : \A p \in PeriodSet : invoiced'[u][p] = invoiced[u][p] \/ invoiced'[u][p] = NotBilled
  BY <1>1 DEF YardRows
<1>3. BilledDaysFit'
  BY <1>2 DEF YardFits, BilledDaysFit, NotBilled
<1>. QED BY <1>1, <1>3 DEF YardFits, VehiclesFit, OneEach, PausesStand

LEMMA StillFits == ASSUME YardFits, UNCHANGED <<vehicle, pause, spotRows, invoiced>> PROVE YardFits'
BY DEF YardFits, VehiclesFit, OneEach, PausesStand, BilledDaysFit

LEMMA YardFitsStep == ASSUME YardInv, YardFits, [YardNext]_yardVars PROVE YardFits'
<1>1. CASE VehicleStep
  BY <1>1, InsertFits, UpdateFits, StatusFits, PaymentFits, DeleteFits, ArchiveFits, BillFits, CancelFits DEF VehicleStep
<1>2. CASE SpotsGo
  BY <1>2, SpotsGoFits DEF SpotsGo
<1>3. CASE SpotStep
  <2>1. ASSUME NEW s \in Spots, UnassignSpotVehicle(s) PROVE YardFits'
    BY <2>1, WithoutFits DEF UnassignSpotVehicle, YardFits, PausesStand, BilledDaysFit
  <2>. QED BY <1>3, <2>1, SpotMade, AssignFits DEF SpotStep
<1>4. CASE PauseStep
  BY <1>4, StartFits, ExtendFits, ReturnFits, CollectFits, DropFits DEF PauseStep
<1>5. CASE NextDay \/ UNCHANGED yardVars
  BY <1>5, StillFits DEF NextDay, yardVars
<1>. QED BY <1>1, <1>2, <1>3, <1>4, <1>5 DEF YardNext

\* At most one vehicle on a spot, counted.
LEMMA OneStanding == ASSUME OneEach, NEW s \in Spots PROVE Cardinality(Standing(s)) <= 1
<1>1. s # NoSpot
  BY YardAssumption DEF YardAssumption
<1>2. CASE Standing(s) = {}
  BY <1>2, FS_EmptySet
<1>3. CASE Standing(s) # {}
  <2>1. PICK v : v \in Standing(s)
    BY <1>3
  <2>2. Standing(s) = {v}
    BY <1>1, <2>1 DEF Standing, OneEach
  <2>. QED BY <2>2, FS_Singleton
<1>. QED BY <1>2, <1>3

\* The rows of the yard: no vehicle ends before it starts, no two stand on one spot, none stands on a
\* spot that is gone (AssignSpotVehicle, DeleteSpots, Relinked), and a payment reaches a day of the calendar.
THEOREM YardTypes == YardSpec => []YardTypeOK
<1>1. YardInit => YardInv /\ YardFits
  <2>. SUFFICES ASSUME YardInit PROVE YardFits
    BY YardStarts
  <2>1. VehiclesFit
    BY EmptyRowsFit DEF YardInit, VehiclesFit, OneEach, NoVehicle
  <2>. QED BY <2>1, EmptyRowsFit DEF YardInit, YardFits, PausesStand, BilledDaysFit, NotBilled
<1>2. YardInv /\ YardFits /\ [YardNext]_yardVars => (YardInv /\ YardFits)'
  BY YardSteps, YardFitsStep
<1>3. YardInv /\ YardFits => YardTypeOK
  <2>. SUFFICES ASSUME YardInv, YardFits PROVE YardTypeOK
    OBVIOUS
  <2>1. ASSUME NEW v \in YardVehicles
        PROVE  /\ vehicle[v].status \in {"none", "reserved", "stored"} \cup Closing
               /\ vehicle[v].start \in Days /\ vehicle[v].end \in vehicle[v].start .. Endless
               /\ vehicle[v].paid \in Ahead \cup {Never}
               /\ vehicle[v].spot \in spotRows \cup {NoSpot}
               /\ vehicle[v].archived => Exists(v)
    <3>1. VehicleRow(vehicle[v]) /\ VehicleFits(vehicle[v], spotRows)
      BY DEF YardInv, YardRows, YardFits, VehiclesFit
    <3>2. vehicle[v].start \in Nat /\ vehicle[v].end \in Nat /\ Endless \in Nat /\ LastYardDay \in Nat
      BY <3>1, PeriodFacts DEF VehicleRow
    <3>3. vehicle[v].paid \in Ahead \cup {Never}
      <4>1. PICK n \in -1 .. Endless : n = vehicle[v].paid
        BY <3>1 DEF VehicleFits
      <4>. QED BY <3>2, <4>1 DEF Ahead, Never
    <3>4. vehicle[v].end \in vehicle[v].start .. Endless
      BY <3>1, <3>2 DEF VehicleFits
    <3>. QED BY <3>1, <3>3, <3>4 DEF VehicleRow, VehicleFits, Exists
  <2>2. ASSUME NEW i \in PauseIds, pause[i].of # "none"
        PROVE  /\ Exists(pause[i].of) /\ pause[i].spot \in spotRows \cup {NoSpot}
               /\ pause[i].ended => pause[i].until \in pause[i].from .. LastYardDay
    <3>1. PauseRow(pause[i]) /\ pause[i].of \in Known /\ PauseStands(pause[i], spotRows)
      BY <2>2 DEF YardInv, YardRows, YardFits, PausesStand
    <3>2. pause[i].from \in Nat /\ pause[i].until \in Nat /\ LastYardDay \in Nat
      BY <3>1, PeriodFacts DEF PauseRow
    <3>. QED BY <3>1, <3>2 DEF PauseStands, PauseFits, Known
  <2>3. \A s \in Spots : Cardinality(Standing(s)) <= 1
    BY OneStanding DEF YardFits, VehiclesFit
  <2>4. yardDay \in Days /\ spotRows \subseteq Spots /\ \A v \in YardVehicles, p \in PeriodSet : invoiced[v][p].days \subseteq Days
    BY DEF YardInv, YardRows, YardFits, VehiclesFit, BilledDaysFit
  <2>. QED BY <2>1, <2>2, <2>3, <2>4 DEF YardTypeOK
<1>. QED BY <1>1, <1>2, <1>3, PTL DEF YardSpec
=============================================================================
