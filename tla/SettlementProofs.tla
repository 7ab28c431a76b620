-------------------------- MODULE SettlementProofs --------------------------
(***************************************************************************)
(* Machine-checked theorems about Settlement, for every set of charges and *)
(* vehicles, every price, rate, calendar and bound: types, claims on       *)
(* money, and what a step may do to money that is spent.                   *)
(***************************************************************************)
EXTENDS Settlement, TLAPS

USE DEF chargeVars, vehicleVars, payVars, invVars, clockVars, followVars

-----------------------------------------------------------------------------
LEMMA InitType == Init => TypeOK
<1> SUFFICES ASSUME Init PROVE TypeOK
    OBVIOUS
<1>1. 1 \in Days
  BY SettlementAssumption DEF SettlementAssumption, Days
<1>2. 0 \in Money /\ 0 \in (-MaxMoney) .. MaxMoney /\ 0 \in 0 .. MaxPayments /\ 0 \in 0 .. MaxInvoices
  BY SettlementAssumption DEF SettlementAssumption, Money
<1>3. QED
  BY <1>1, <1>2 DEF Init, TypeOK, NoPayment, NoInvoice, NoAlloc, NoLine

LEMMA ClockType == TypeOK /\ ClockNext => TypeOK'
<1> SUFFICES ASSUME TypeOK, ClockNext PROVE TypeOK'
    OBVIOUS
<1>1. CASE NextDay
  <2>1. today' \in Days
    BY <1>1, SettlementAssumption DEF NextDay, TypeOK, Days, SettlementAssumption
  <2>2. QED
    BY <1>1, <2>1 DEF NextDay, TypeOK
<1>2. ASSUME NEW y \in Years, LockTaxYear(y) \/ UnlockTaxYear(y) PROVE TypeOK'
  BY <1>2 DEF LockTaxYear, UnlockTaxYear, TypeOK
<1>3. QED
  BY <1>1, <1>2 DEF ClockNext

-----------------------------------------------------------------------------
(* Building blocks: the row a receipt inserts, the claims a Storno drops.    *)

LEMMA ZeroMoney == 0 \in Money
BY SettlementAssumption DEF SettlementAssumption, Money

LEMMA YearOfDay == ASSUME NEW d \in Days PROVE YearOf(d) \in Years
BY DEF Years

LEMMA InsertType ==
  ASSUME TypeOK, NEW amount, NEW auto \in BOOLEAN, NEW year \in Years,
         InsertPayment(amount, auto, year)
  PROVE  /\ nPay' \in 0 .. MaxPayments
         /\ nPay + 1 \in PayIds
         /\ payment' \in [PayIds -> [amount : Money, auto : BOOLEAN,
                                     year : Years \cup {0}, reversed : BOOLEAN]]
<1>1. nPay' \in 0 .. MaxPayments /\ nPay + 1 \in PayIds
  BY SettlementAssumption DEF InsertPayment, TypeOK, PayIds, SettlementAssumption
<1>2. QED
  BY <1>1 DEF InsertPayment, TypeOK

LEMMA ReleaseType ==
  ASSUME TypeOK, NEW p
  PROVE  /\ ReleaseCharges(p) \in [Charges -> PayIds \cup {0}]
         /\ ReleaseRent(p) \in [Vehicles -> [pay : PayIds \cup {0}, amount : Money, day : Days \cup {0}]]
<1>1. NoAlloc \in [pay : PayIds \cup {0}, amount : Money, day : Days \cup {0}]
  BY ZeroMoney DEF NoAlloc
<1>2. ReleaseCharges(p) \in [Charges -> PayIds \cup {0}]
  BY DEF TypeOK, ReleaseCharges
<1>3. ReleaseRent(p) \in [Vehicles -> [pay : PayIds \cup {0}, amount : Money, day : Days \cup {0}]]
  BY <1>1 DEF TypeOK, ReleaseRent
<1>4. QED
  BY <1>2, <1>3

LEMMA ReverseType ==
  ASSUME TypeOK, NEW p \in PayIds, Reverse(p)
  PROVE  payment' \in [PayIds -> [amount : Money, auto : BOOLEAN,
                                  year : Years \cup {0}, reversed : BOOLEAN]]
<1> DEFINE Row == [amount : Money, auto : BOOLEAN, year : Years \cup {0}, reversed : BOOLEAN]
<1>1. payment \in [PayIds -> Row]
  BY DEF TypeOK
<1>2. [payment[p] EXCEPT !.reversed = TRUE] \in Row
  <2>1. payment[p] \in Row
    BY <1>1
  <2>2. QED
    BY <2>1
<1>3. payment' = [payment EXCEPT ![p] = [payment[p] EXCEPT !.reversed = TRUE]]
  BY DEF Reverse
<1> HIDE DEF Row
<1>4. payment' \in [PayIds -> Row]
  BY <1>1, <1>2, <1>3
<1>5. QED
  BY <1>4 DEF Row

LEMMA SettleType ==
  ASSUME TypeOK, NEW take \in [OwedItems -> PayIds \cup {0}], SettleItems(take)
  PROVE  /\ chargeAlloc' \in [Charges -> PayIds \cup {0}]
         /\ chargePaid' \in [Charges -> BOOLEAN]
         /\ rentAlloc' \in [Vehicles -> [pay : PayIds \cup {0}, amount : Money, day : Days \cup {0}]]
         /\ vehPaid' \in [Vehicles -> BOOLEAN]
         /\ paidThrough' \in [Vehicles -> Days \cup {0}]
         /\ pending' \subseteq Vehicles
<1>1. OwedCharges \subseteq OwedItems /\ OwedVehicles \subseteq OwedItems
  BY DEF OwedItems
<1>2. OwedVehicles \subseteq Vehicles
  BY DEF OwedVehicles
<1>3. chargeAlloc' \in [Charges -> PayIds \cup {0}] /\ chargePaid' \in [Charges -> BOOLEAN]
  BY <1>1 DEF TypeOK, SettleItems
<1>4. ASSUME NEW v \in Vehicles, v \in OwedVehicles, take[v] # 0
      PROVE  RentClaim(take[v], v) \in [pay : PayIds \cup {0}, amount : Money, day : Days \cup {0}]
  BY <1>1, <1>4 DEF TypeOK, SettleItems, RentClaim
<1>5. rentAlloc' \in [Vehicles -> [pay : PayIds \cup {0}, amount : Money, day : Days \cup {0}]]
  BY <1>4 DEF TypeOK, SettleItems
<1>6. vehPaid' \in [Vehicles -> BOOLEAN] /\ paidThrough' \in [Vehicles -> Days \cup {0}]
  BY DEF TypeOK, SettleItems
<1>7. pending' \subseteq Vehicles
  BY <1>2 DEF TypeOK, SettleItems
<1>8. QED
  BY <1>3, <1>5, <1>6, <1>7

LEMMA FundType ==
  ASSUME TypeOK, NEW share, FundInvoices(share)
  PROVE  /\ invPay' \in [InvIds -> [PayIds -> Nat]]
         /\ invoice' \in [InvIds -> [total : (-MaxMoney) .. MaxMoney, paid : Money,
                                     canceled : BOOLEAN, cancels : InvIds \cup {0}]]
<1>1. ASSUME NEW i \in InvIds, NEW p \in PayIds PROVE invPay[i][p] + share[i][p] \in Nat
  BY SettlementAssumption DEF TypeOK, FundInvoices, Money, SettlementAssumption
<1>2. invPay' \in [InvIds -> [PayIds -> Nat]]
  BY <1>1 DEF FundInvoices
<1>3. ASSUME NEW i \in InvIds
      PROVE  [invoice[i] EXCEPT !.paid = @ + SumFunction(share[i])]
               \in [total : (-MaxMoney) .. MaxMoney, paid : Money,
                    canceled : BOOLEAN, cancels : InvIds \cup {0}]
  <2>1. invoice[i].paid + SumFunction(share[i]) \in Money
    BY DEF FundInvoices
  <2>2. invoice[i] \in [total : (-MaxMoney) .. MaxMoney, paid : Money,
                        canceled : BOOLEAN, cancels : InvIds \cup {0}]
    BY DEF TypeOK
  <2>3. QED
    BY <2>1, <2>2
<1>4. QED
  BY <1>2, <1>3 DEF FundInvoices

LEMMA ReopenType ==
  ASSUME TypeOK, NEW vs, ReopenUncovered(vs)
  PROVE  archived' \in [Vehicles -> BOOLEAN]
BY DEF TypeOK, ReopenUncovered

-----------------------------------------------------------------------------
(* Type correctness, one lemma per group of actions.                         *)

LEMMA ChargeType == TypeOK /\ ChargeNext => TypeOK'
<1> SUFFICES ASSUME TypeOK, NEW c \in Charges,
                    \/ \E v \in Vehicles \cup {NoVehicle} : CreateCharge(c, v) \/ UpdateCharge(c, v)
                    \/ DeleteCharge(c) \/ SetChargePaid(c) \/ SetChargeOpen(c)
             PROVE  TypeOK'
    BY DEF ChargeNext
<1>1. ASSUME NEW v \in Vehicles \cup {NoVehicle}, CreateCharge(c, v) PROVE TypeOK'
  BY <1>1 DEF CreateCharge, TypeOK
<1>2. ASSUME NEW v \in Vehicles \cup {NoVehicle}, UpdateCharge(c, v) PROVE TypeOK'
  BY <1>2 DEF UpdateCharge, TypeOK
<1>3. CASE DeleteCharge(c)
  BY <1>3 DEF DeleteCharge, TypeOK
<1>4. CASE SetChargePaid(c)
  <2>1. YearOf(today) \in Years
    BY YearOfDay DEF TypeOK
  <2>2. CASE c \in OwedCharges
    <3>1. InsertPayment(Price[c], TRUE, YearOf(today)) /\ chargeAlloc' = [chargeAlloc EXCEPT ![c] = nPay + 1]
      BY <1>4, <2>2 DEF SetChargePaid
    <3>2. /\ nPay' \in 0 .. MaxPayments /\ nPay + 1 \in PayIds
          /\ payment' \in [PayIds -> [amount : Money, auto : BOOLEAN,
                                      year : Years \cup {0}, reversed : BOOLEAN]]
      BY <2>1, <3>1, InsertType
    <3>3. QED
      BY <1>4, <3>1, <3>2 DEF SetChargePaid, TypeOK
  <2>3. CASE c \notin OwedCharges
    BY <1>4, <2>3 DEF SetChargePaid, TypeOK
  <2>4. QED
    BY <2>2, <2>3
<1>5. CASE SetChargeOpen(c)
  <2>1. CASE chargeAlloc[c] = 0
    BY <1>5, <2>1 DEF SetChargeOpen, TypeOK
  <2>2. CASE chargeAlloc[c] # 0
    <3>1. chargeAlloc[c] \in PayIds
      BY <2>2 DEF TypeOK
    <3>2. /\ Reverse(chargeAlloc[c])
          /\ chargeAlloc' = ReleaseCharges(chargeAlloc[c])
          /\ rentAlloc' = ReleaseRent(chargeAlloc[c])
      BY <1>5, <2>2 DEF SetChargeOpen
    <3>3. QED
      BY <1>5, <3>1, <3>2, ReleaseType, ReverseType DEF SetChargeOpen, TypeOK
  <2>3. QED
    BY <2>1, <2>2
<1>6. QED
  BY <1>1, <1>2, <1>3, <1>4, <1>5

LEMMA VehicleType == TypeOK /\ VehicleNext => TypeOK'
<1> SUFFICES ASSUME TypeOK, NEW v \in Vehicles,
                    \/ MarkPaid(v) \/ MarkOpen(v) \/ MarkAgain(v) \/ ReactivateVehicle(v)
                    \/ \E s \in {"stored", "collected", "cancelled"}, d \in Days \cup {0} :
                         ChangeStatus(v, s, d)
             PROVE  TypeOK'
    BY DEF VehicleNext
<1>1. CASE MarkPaid(v)
  <2> DEFINE claimed == { c \in BoundCharges(v) : chargeAlloc[c] = 0 }
  <2>1. CASE rentAlloc[v].pay = 0
    <3>1. /\ AccruedRent(v) \in Money
          /\ InsertPayment(AccruedRent(v) + Total(claimed), TRUE, YearOf(today))
          /\ rentAlloc' = [rentAlloc EXCEPT ![v] = RentClaim(nPay + 1, v)]
          /\ chargeAlloc' = [c \in Charges |-> IF c \in claimed THEN nPay + 1 ELSE chargeAlloc[c]]
          /\ chargePaid' = [c \in Charges |-> chargePaid[c] \/ c \in claimed]
          /\ paidThrough' = [paidThrough EXCEPT ![v] = today]
      BY <1>1, <2>1 DEF MarkPaid
    <3>2. /\ nPay' \in 0 .. MaxPayments /\ nPay + 1 \in PayIds
          /\ payment' \in [PayIds -> [amount : Money, auto : BOOLEAN,
                                      year : Years \cup {0}, reversed : BOOLEAN]]
      <4>1. YearOf(today) \in Years
        BY YearOfDay DEF TypeOK
      <4>2. QED
        BY <3>1, <4>1, InsertType
    <3>3. RentClaim(nPay + 1, v) \in [pay : PayIds \cup {0}, amount : Money, day : Days \cup {0}]
      BY <3>1, <3>2 DEF RentClaim, TypeOK
    <3>4. chargeAlloc' \in [Charges -> PayIds \cup {0}]
      BY <3>1, <3>2 DEF TypeOK
    <3>5. chargePaid' \in [Charges -> BOOLEAN]
      BY <3>1 DEF TypeOK
    <3> HIDE DEF claimed
    <3>6. QED
      BY <1>1, <3>1, <3>2, <3>3, <3>4, <3>5 DEF MarkPaid, TypeOK
  <2>2. CASE rentAlloc[v].pay # 0
    <3>1. Smaller(today, rentAlloc[v].day) \in Days \cup {0}
      BY DEF Smaller, TypeOK
    <3>2. /\ paidThrough' = [paidThrough EXCEPT ![v] = Smaller(today, rentAlloc[v].day)]
          /\ UNCHANGED <<payVars, chargePaid>>
      BY <1>1, <2>2 DEF MarkPaid
    <3>3. QED
      BY <1>1, <3>1, <3>2 DEF MarkPaid, TypeOK
  <2>3. QED
    BY <2>1, <2>2
<1>2. CASE MarkOpen(v)
  <2>1. CASE rentAlloc[v].pay = 0
    BY <1>2, <2>1 DEF MarkOpen, TypeOK
  <2>2. CASE rentAlloc[v].pay # 0
    <3>1. rentAlloc[v].pay \in PayIds
      BY <2>2 DEF TypeOK
    <3>2. /\ chargePaid' = [c \in Charges |->
               chargePaid[c] /\ ~(vehicleOf[c] = v /\ chargeAlloc[c] = rentAlloc[v].pay)]
          /\ Reverse(rentAlloc[v].pay)
          /\ chargeAlloc' = ReleaseCharges(rentAlloc[v].pay)
          /\ rentAlloc' = ReleaseRent(rentAlloc[v].pay)
      BY <1>2, <2>2 DEF MarkOpen
    <3>3. chargePaid' \in [Charges -> BOOLEAN]
      BY <3>2 DEF TypeOK
    <3>4. QED
      BY <1>2, <3>1, <3>2, <3>3, ReleaseType, ReverseType DEF MarkOpen, TypeOK
  <2>3. QED
    BY <2>1, <2>2
<1>3. CASE MarkAgain(v)
  BY <1>3 DEF MarkAgain, TypeOK
<1>4. CASE ReactivateVehicle(v)
  BY <1>4 DEF ReactivateVehicle, TypeOK
<1>5. ASSUME NEW s \in {"stored", "collected", "cancelled"}, NEW d \in Days \cup {0},
             ChangeStatus(v, s, d)
      PROVE  TypeOK'
  BY <1>5 DEF ChangeStatus, TypeOK
<1>6. QED
  BY <1>1, <1>2, <1>3, <1>4, <1>5

LEMMA PaymentType == TypeOK /\ PaymentNext => TypeOK'
<1> SUFFICES ASSUME TypeOK, PaymentNext PROVE TypeOK'
    OBVIOUS
<1>1. ASSUME NEW amount \in Amounts, NEW year \in Years, NEW items \in SUBSET OwedItems,
             CreatePayment(amount, items, year)
      PROVE  TypeOK'
  <2> DEFINE take == [it \in OwedItems |-> IF it \in items THEN nPay + 1 ELSE 0]
  <2>1. InsertPayment(amount, FALSE, year) /\ SettleItems(take)
    BY <1>1 DEF CreatePayment
  <2>2. /\ nPay' \in 0 .. MaxPayments /\ nPay + 1 \in PayIds
        /\ payment' \in [PayIds -> [amount : Money, auto : BOOLEAN,
                                    year : Years \cup {0}, reversed : BOOLEAN]]
    BY <2>1, InsertType
  <2>3. take \in [OwedItems -> PayIds \cup {0}]
    BY <2>2
  <2> HIDE DEF take
  <2>4. /\ chargeAlloc' \in [Charges -> PayIds \cup {0}]
        /\ chargePaid' \in [Charges -> BOOLEAN]
        /\ rentAlloc' \in [Vehicles -> [pay : PayIds \cup {0}, amount : Money, day : Days \cup {0}]]
        /\ vehPaid' \in [Vehicles -> BOOLEAN]
        /\ paidThrough' \in [Vehicles -> Days \cup {0}]
        /\ pending' \subseteq Vehicles
    BY <2>1, <2>3, SettleType
  <2>5. QED
    BY <1>1, <2>2, <2>4 DEF CreatePayment, TypeOK
<1>2. ASSUME NEW amount \in Amounts, NEW year \in Years,
             NEW give \in [OpenInvoices -> Amounts \cup {0}], PayInvoices(amount, year, give)
      PROVE  TypeOK'
  <2> DEFINE share == [i \in InvIds |-> [p \in PayIds |->
                         IF p = nPay + 1 /\ i \in OpenInvoices THEN give[i] ELSE 0]]
  <2>1. InsertPayment(amount, FALSE, year) /\ FundInvoices(share)
    BY <1>2 DEF PayInvoices
  <2> HIDE DEF share
  <2>2. /\ nPay' \in 0 .. MaxPayments
        /\ payment' \in [PayIds -> [amount : Money, auto : BOOLEAN,
                                    year : Years \cup {0}, reversed : BOOLEAN]]
    BY <2>1, InsertType
  <2>3. /\ invPay' \in [InvIds -> [PayIds -> Nat]]
        /\ invoice' \in [InvIds -> [total : (-MaxMoney) .. MaxMoney, paid : Money,
                                    canceled : BOOLEAN, cancels : InvIds \cup {0}]]
    BY <2>1, FundType
  <2>4. QED
    BY <1>2, <2>2, <2>3 DEF PayInvoices, TypeOK
<1>3. ASSUME NEW p \in PayIds, DeletePayment(p) PROVE TypeOK'
  <2>1. /\ Reverse(p)
        /\ chargeAlloc' = ReleaseCharges(p)
        /\ rentAlloc' = ReleaseRent(p)
    BY <1>3 DEF DeletePayment
  <2>2. /\ payment' \in [PayIds -> [amount : Money, auto : BOOLEAN,
                                    year : Years \cup {0}, reversed : BOOLEAN]]
        /\ chargeAlloc' \in [Charges -> PayIds \cup {0}]
        /\ rentAlloc' \in [Vehicles -> [pay : PayIds \cup {0}, amount : Money, day : Days \cup {0}]]
    BY <2>1, ReverseType, ReleaseType
  <2>3. /\ chargePaid' \in [Charges -> BOOLEAN]
        /\ vehPaid' \in [Vehicles -> BOOLEAN]
        /\ paidThrough' \in [Vehicles -> Days \cup {0}]
    BY <1>3 DEF DeletePayment, TypeOK
  <2>4. invPay' \in [InvIds -> [PayIds -> Nat]]
    <3>1. ASSUME NEW i \in InvIds PROVE [invPay[i] EXCEPT ![p] = 0] \in [PayIds -> Nat]
      BY DEF TypeOK
    <3>2. QED
      BY <1>3, <3>1 DEF DeletePayment
  <2>5. invoice' \in [InvIds -> [total : (-MaxMoney) .. MaxMoney, paid : Money,
                                canceled : BOOLEAN, cancels : InvIds \cup {0}]]
    <3> DEFINE Row == [total : (-MaxMoney) .. MaxMoney, paid : Money,
                       canceled : BOOLEAN, cancels : InvIds \cup {0}]
    <3>1. ASSUME NEW i \in InvIds
          PROVE  [invoice[i] EXCEPT !.paid = Larger(0, invoice[i].paid - invPay[i][p])] \in Row
      <4>1. invoice[i] \in Row /\ invPay[i][p] \in Nat
        BY DEF TypeOK
      <4>2. Larger(0, invoice[i].paid - invPay[i][p]) \in Money
        BY <4>1, SettlementAssumption DEF Larger, Money, SettlementAssumption
      <4>3. QED
        BY <4>1, <4>2
    <3>2. invoice' = [i \in InvIds |->
            [invoice[i] EXCEPT !.paid = Larger(0, invoice[i].paid - invPay[i][p])]]
      BY <1>3 DEF DeletePayment
    <3> HIDE DEF Row
    <3>3. invoice' \in [InvIds -> Row]
      BY <3>1, <3>2
    <3>4. QED
      BY <3>3 DEF Row
  <2>6. archived' \in [Vehicles -> BOOLEAN]
    BY <1>3, ReopenType DEF DeletePayment
  <2>7. QED
    BY <1>3, <2>2, <2>3, <2>4, <2>5, <2>6 DEF DeletePayment, TypeOK
<1>4. ASSUME NEW rank, NEW take \in [OwedItems -> PayIds \cup {0}], ApplyCredit(rank, take)
      PROVE  TypeOK'
  <2>1. SettleItems(take) /\ \E share : FundInvoices(share)
    BY <1>4 DEF ApplyCredit
  <2>2. PICK share : FundInvoices(share)
    BY <2>1
  <2>3. /\ invPay' \in [InvIds -> [PayIds -> Nat]]
        /\ invoice' \in [InvIds -> [total : (-MaxMoney) .. MaxMoney, paid : Money,
                                    canceled : BOOLEAN, cancels : InvIds \cup {0}]]
    BY <2>2, FundType
  <2>4. /\ chargeAlloc' \in [Charges -> PayIds \cup {0}]
        /\ chargePaid' \in [Charges -> BOOLEAN]
        /\ rentAlloc' \in [Vehicles -> [pay : PayIds \cup {0}, amount : Money, day : Days \cup {0}]]
        /\ vehPaid' \in [Vehicles -> BOOLEAN]
        /\ paidThrough' \in [Vehicles -> Days \cup {0}]
        /\ pending' \subseteq Vehicles
    BY <2>1, SettleType
  <2>5. QED
    BY <1>4, <2>3, <2>4 DEF ApplyCredit, TypeOK
<1>5. QED
  BY <1>1, <1>2, <1>3, <1>4 DEF PaymentNext

LEMMA InvoiceType == TypeOK /\ InvoiceNext => TypeOK'
<1> SUFFICES ASSUME TypeOK, InvoiceNext PROVE TypeOK'
    OBVIOUS
<1> DEFINE Row == [total : (-MaxMoney) .. MaxMoney, paid : Money,
                   canceled : BOOLEAN, cancels : InvIds \cup {0}]
           Line == [inv : InvIds \cup {0}, amount : Money]
<1>1. CASE CreateInvoice
  <2>1. nInv + 1 \in InvIds /\ nInv' \in 0 .. MaxInvoices
    BY <1>1, SettlementAssumption DEF CreateInvoice, TypeOK, InvIds, SettlementAssumption
  <2>2. [NoInvoice EXCEPT !.total = LineTotal] \in Row
    <3>1. LineTotal \in Money
      BY <1>1 DEF CreateInvoice
    <3>2. LineTotal \in (-MaxMoney) .. MaxMoney
      BY <3>1, SettlementAssumption DEF Money, SettlementAssumption
    <3> HIDE DEF LineTotal
    <3>3. QED
      BY <3>2, ZeroMoney DEF NoInvoice
  <2>3. invoice' \in [InvIds -> Row]
    BY <1>1, <2>1, <2>2 DEF CreateInvoice, TypeOK
  <2>4. chargeBilled' \in [Charges -> InvIds \cup {0}]
    BY <1>1, <2>1 DEF CreateInvoice, TypeOK
  <2>5. ASSUME NEW v \in Vehicles, NEW k \in Periods
        PROVE  IF <<v, k>> \in RentLines
               THEN [inv |-> nInv + 1, amount |-> RentLineAmount(<<v, k>>)] \in Line
               ELSE rentBilled[v][k] \in Line
    <3>1. CASE <<v, k>> \in RentLines
      <4>1. RentLineAmount(<<v, k>>) \in Money
        BY <1>1, <3>1 DEF CreateInvoice
      <4>2. QED
        BY <2>1, <3>1, <4>1
    <3>2. CASE <<v, k>> \notin RentLines
      BY <3>2 DEF TypeOK
    <3>3. QED
      BY <3>1, <3>2
  <2>6. rentBilled' \in [Vehicles -> [Periods -> Line]]
    BY <1>1, <2>5 DEF CreateInvoice
  <2>7. QED
    BY <1>1, <2>1, <2>3, <2>4, <2>6 DEF CreateInvoice, TypeOK
<1>2. ASSUME NEW i \in InvIds, CancelInvoice(i) PROVE TypeOK'
  <2>1. nInv + 1 \in InvIds /\ nInv' \in 0 .. MaxInvoices
    BY <1>2, SettlementAssumption DEF CancelInvoice, TypeOK, InvIds, SettlementAssumption
  <2>2. ASSUME NEW r \in Row PROVE [r EXCEPT !.canceled = TRUE, !.paid = 0] \in Row
    BY ZeroMoney
  <2>3. [NoInvoice EXCEPT !.total = -invoice[i].total, !.cancels = i] \in Row
    <3>1. -invoice[i].total \in (-MaxMoney) .. MaxMoney
      BY SettlementAssumption DEF TypeOK, SettlementAssumption
    <3>2. QED
      BY <3>1, ZeroMoney DEF NoInvoice
  <2>4. invoice' \in [InvIds -> Row]
    <3>1. invoice \in [InvIds -> Row] /\ invoice[i] \in Row
      BY DEF TypeOK
    <3> DEFINE cancelled == [invoice[i] EXCEPT !.canceled = TRUE, !.paid = 0]
               counter == [NoInvoice EXCEPT !.total = -invoice[i].total, !.cancels = i]
    <3>2. cancelled \in Row /\ counter \in Row
      BY <2>2, <2>3, <3>1
    <3>3. invoice' = [invoice EXCEPT ![i] = cancelled, ![nInv + 1] = counter]
      BY <1>2, <3>1 DEF CancelInvoice
    <3> HIDE DEF cancelled, counter, Row
    <3>4. QED
      BY <2>1, <3>1, <3>2, <3>3
  <2>5. chargeBilled' \in [Charges -> InvIds \cup {0}]
    BY <1>2 DEF CancelInvoice, TypeOK
  <2>6. rentBilled' \in [Vehicles -> [Periods -> Line]]
    <3>1. NoLine \in Line
      BY ZeroMoney DEF NoLine
    <3>2. rentBilled \in [Vehicles -> [Periods -> Line]]
      BY DEF TypeOK
    <3> HIDE DEF Line
    <3>3. QED
      BY <1>2, <3>1, <3>2 DEF CancelInvoice
  <2>7. invPay' \in [InvIds -> [PayIds -> Nat]]
    BY <1>2 DEF CancelInvoice, TypeOK
  <2>8. archived' \in [Vehicles -> BOOLEAN]
    BY <1>2, ReopenType DEF CancelInvoice
  <2>9. QED
    BY <1>2, <2>1, <2>4, <2>5, <2>6, <2>7, <2>8 DEF CancelInvoice, TypeOK
<1>3. QED
  BY <1>1, <1>2 DEF InvoiceNext

LEMMA FollowType == TypeOK /\ FollowNext => TypeOK'
<1> SUFFICES ASSUME TypeOK, FollowNext PROVE TypeOK'
    OBVIOUS
<1>1. ASSUME NEW v \in Vehicles, AutoArchive(v) PROVE TypeOK'
  <2>1. archived' \in [Vehicles -> BOOLEAN]
    BY <1>1 DEF AutoArchive, TypeOK
  <2>2. QED
    BY <1>1, <2>1 DEF AutoArchive, TypeOK
<1>2. CASE SweepArchive
  BY <1>2 DEF SweepArchive, TypeOK
<1>3. CASE LoseFollowUps
  BY <1>3 DEF LoseFollowUps, TypeOK
<1>4. QED
  BY <1>1, <1>2, <1>3 DEF FollowNext

LEMMA StepType == TypeOK /\ [Next]_vars => TypeOK'
<1>1. TypeOK /\ UNCHANGED vars => TypeOK'
  BY DEF TypeOK, vars
<1>2. QED
  BY <1>1, ClockType, ChargeType, VehicleType, PaymentType, InvoiceType, FollowType DEF Next

\* Every column keeps its domain, for every step of the program: the guards of
\* the handlers and the column types keep amounts, days and references in range.
THEOREM TypeCorrect == Spec => []TypeOK
BY InitType, StepType, PTL DEF Spec

-----------------------------------------------------------------------------
(* The claims on money: which steps may take, move or drop the claim of a   *)
(* receipt on a position.  Proved for every set of charges and vehicles,    *)
(* every price, rate, calendar and bound.                                   *)
(*                                                                          *)
(* None of ClaimExclusive and ChargeClaimBacked is inductive alone, and     *)
(* that a claim on rent never moves needs the flag of the vehicle:          *)
(* RentClaimBacked is the strengthening.                                    *)

\* The receipt that holds a vehicle's rent is not reversed, and its flag is set.
RentClaimBacked ==
    \A v \in Vehicles :
        rentAlloc[v].pay # 0 => vehPaid[v] /\ rentAlloc[v].pay \in LivePayments

IInv == TypeOK /\ ClaimExclusive /\ ChargeClaimBacked /\ RentClaimBacked
ClaimInv == ClaimExclusive /\ ChargeClaimBacked /\ RentClaimBacked

-----------------------------------------------------------------------------
(* What the building blocks do to the set of receipts in force.              *)

LEMMA InsertLive ==
  ASSUME TypeOK, NEW amount, NEW auto, NEW year, InsertPayment(amount, auto, year)
  PROVE  /\ LivePayments \subseteq LivePayments'
         /\ nPay + 1 \in LivePayments'
         /\ nPay + 1 \notin LivePayments /\ nPay + 1 # 0
<1>1. nPay + 1 \in PayIds /\ nPay \in Nat
  BY SettlementAssumption DEF InsertPayment, TypeOK, PayIds, SettlementAssumption
<1>2. QED
  BY <1>1 DEF InsertPayment, TypeOK, LivePayments, PayIds

LEMMA ReverseLive ==
  ASSUME TypeOK, NEW p \in PayIds, Reverse(p), nPay' = nPay
  PROVE  LivePayments' = LivePayments \ {p}
<1>1. ASSUME NEW q \in PayIds
      PROVE  payment'[q].reversed <=> (q = p \/ payment[q].reversed)
  BY DEF TypeOK, Reverse
<1>2. QED
  BY <1>1 DEF LivePayments

-----------------------------------------------------------------------------
LEMMA InitClaims == Init => ClaimInv
BY DEF Init, ClaimInv, ClaimExclusive, ChargeClaimBacked, RentClaimBacked, NoAlloc

LEMMA ClockClaims == IInv /\ ClockNext => ClaimInv'
BY DEF IInv, ClaimInv, ClockNext, NextDay, LockTaxYear, UnlockTaxYear, ClaimExclusive,
       ChargeClaimBacked, RentClaimBacked, LivePayments

LEMMA ChargeClaims == IInv /\ ChargeNext => ClaimInv'
<1> SUFFICES ASSUME IInv, NEW c \in Charges,
                    \/ \E v \in Vehicles \cup {NoVehicle} : CreateCharge(c, v) \/ UpdateCharge(c, v)
                    \/ DeleteCharge(c) \/ SetChargePaid(c) \/ SetChargeOpen(c)
             PROVE  ClaimInv'
    BY DEF ChargeNext
<1> USE DEF IInv, ClaimInv, ClaimExclusive, ChargeClaimBacked, RentClaimBacked
<1>1. ASSUME NEW v \in Vehicles \cup {NoVehicle}, CreateCharge(c, v) PROVE ClaimInv'
  BY <1>1 DEF CreateCharge, TypeOK, LivePayments
<1>2. ASSUME NEW v \in Vehicles \cup {NoVehicle}, UpdateCharge(c, v) PROVE ClaimInv'
  BY <1>2 DEF UpdateCharge, FinanciallyLocked, TypeOK, LivePayments
<1>3. CASE DeleteCharge(c)
  BY <1>3 DEF DeleteCharge, FinanciallyLocked, ChargeInvoiced, TypeOK, LivePayments
<1>4. CASE SetChargePaid(c)
  <2>1. CASE c \in OwedCharges
    <3>1. InsertPayment(Price[c], TRUE, YearOf(today)) /\ chargeAlloc' = [chargeAlloc EXCEPT ![c] = nPay + 1]
      BY <1>4, <2>1 DEF SetChargePaid
    <3>2. LivePayments \subseteq LivePayments' /\ nPay + 1 \in LivePayments'
      BY <3>1, InsertLive
    <3>3. QED
      BY <1>4, <3>1, <3>2 DEF SetChargePaid, ChargeInvoiced, TypeOK
  <2>2. CASE c \notin OwedCharges
    BY <1>4, <2>2 DEF SetChargePaid, TypeOK, LivePayments
  <2>3. QED
    BY <2>1, <2>2
<1>5. CASE SetChargeOpen(c)
  <2>1. CASE chargeAlloc[c] = 0
    BY <1>5, <2>1 DEF SetChargeOpen, TypeOK, LivePayments
  <2>2. CASE chargeAlloc[c] # 0
    <3>1. chargeAlloc[c] \in PayIds
      BY <2>2 DEF TypeOK
    <3>2. /\ Reverse(chargeAlloc[c])
          /\ chargeAlloc' = ReleaseCharges(chargeAlloc[c])
          /\ rentAlloc' = ReleaseRent(chargeAlloc[c])
          /\ nPay' = nPay
      BY <1>5, <2>2 DEF SetChargeOpen
    <3>3. LivePayments' = LivePayments \ {chargeAlloc[c]}
      BY <3>1, <3>2, ReverseLive
    <3>4. QED
      BY <1>5, <3>2, <3>3 DEF SetChargeOpen, ReleaseCharges, ReleaseRent, NoAlloc, TypeOK
  <2>3. QED
    BY <2>1, <2>2
<1>6. QED
  BY <1>1, <1>2, <1>3, <1>4, <1>5

LEMMA VehicleClaims == IInv /\ VehicleNext => ClaimInv'
<1> SUFFICES ASSUME IInv, NEW v \in Vehicles,
                    \/ MarkPaid(v) \/ MarkOpen(v) \/ MarkAgain(v) \/ ReactivateVehicle(v)
                    \/ \E s \in {"stored", "collected", "cancelled"}, d \in Days \cup {0} :
                         ChangeStatus(v, s, d)
             PROVE  ClaimInv'
    BY DEF VehicleNext
<1> USE DEF IInv, ClaimInv, ClaimExclusive, ChargeClaimBacked, RentClaimBacked
<1>1. CASE MarkPaid(v)
  <2> DEFINE claimed == { c \in BoundCharges(v) : chargeAlloc[c] = 0 }
  <2>1. rentAlloc[v].pay = 0
    BY <1>1 DEF MarkPaid
  <2>2. /\ InsertPayment(AccruedRent(v) + Total(claimed), TRUE, YearOf(today))
        /\ rentAlloc' = [rentAlloc EXCEPT ![v] = RentClaim(nPay + 1, v)]
        /\ chargeAlloc' = [c \in Charges |-> IF c \in claimed THEN nPay + 1 ELSE chargeAlloc[c]]
        /\ chargePaid' = [c \in Charges |-> chargePaid[c] \/ c \in claimed]
    BY <1>1, <2>1 DEF MarkPaid
  <2>3. LivePayments \subseteq LivePayments' /\ nPay + 1 \in LivePayments'
    BY <2>2, InsertLive
  <2>4. \A c \in claimed : charge[c] = "live" /\ chargeBilled[c] = 0 /\ c \in Charges
    BY DEF BoundCharges, ChargeInvoiced
  <2> HIDE DEF claimed
  <2>5. QED
    BY <1>1, <2>2, <2>3, <2>4 DEF MarkPaid, RentClaim, TypeOK
<1>2. CASE MarkOpen(v)
  <2>1. CASE rentAlloc[v].pay = 0
    BY <1>2, <2>1 DEF MarkOpen, TypeOK, LivePayments
  <2>2. CASE rentAlloc[v].pay # 0
    <3> DEFINE p == rentAlloc[v].pay
    <3>1. p \in PayIds
      BY <2>2 DEF TypeOK
    <3>2. /\ chargePaid' = [c \in Charges |->
               chargePaid[c] /\ ~(vehicleOf[c] = v /\ chargeAlloc[c] = p)]
          /\ Reverse(p) /\ nPay' = nPay
          /\ chargeAlloc' = ReleaseCharges(p)
          /\ rentAlloc' = ReleaseRent(p)
      BY <1>2, <2>2 DEF MarkOpen
    <3>3. LivePayments' = LivePayments \ {p}
      BY <3>1, <3>2, ReverseLive
    <3>4. QED
      BY <1>2, <3>2, <3>3 DEF MarkOpen, ReleaseCharges, ReleaseRent, NoAlloc, TypeOK
  <2>3. QED
    BY <2>1, <2>2
<1>3. CASE MarkAgain(v)
  BY <1>3 DEF MarkAgain, TypeOK, LivePayments
<1>4. CASE ReactivateVehicle(v)
  BY <1>4 DEF ReactivateVehicle, TypeOK, LivePayments
<1>5. ASSUME NEW s \in {"stored", "collected", "cancelled"}, NEW d \in Days \cup {0},
             ChangeStatus(v, s, d)
      PROVE  ClaimInv'
  BY <1>5 DEF ChangeStatus, TypeOK, LivePayments
<1>6. QED
  BY <1>1, <1>2, <1>3, <1>4, <1>5

\* Receipts that settle items give claims on open positions only.
LEMMA SettleClaims ==
  ASSUME IInv, NEW take \in [OwedItems -> PayIds \cup {0}], SettleItems(take),
         LivePayments \subseteq LivePayments',
         \A it \in OwedItems : take[it] # 0 => take[it] \in LivePayments',
         charge' = charge, chargeBilled' = chargeBilled, nInv' = nInv,
         \A i \in InvIds : invoice'[i].canceled = invoice[i].canceled
  PROVE  ClaimInv'
<1>1. OwedCharges \subseteq OwedItems /\ OwedVehicles \subseteq OwedItems
  BY DEF OwedItems
<1>2. \A c \in OwedCharges : /\ c \in Charges /\ charge[c] = "live"
                             /\ chargeAlloc[c] = 0 /\ chargeBilled[c] = 0
  BY DEF OwedCharges, OpenCharges, ChargeInvoiced
<1>3. ClaimExclusive'
  BY <1>1, <1>2 DEF IInv, SettleItems, ClaimExclusive, TypeOK
<1>4. ChargeClaimBacked'
  BY <1>1, <1>2 DEF IInv, SettleItems, ChargeClaimBacked, TypeOK
<1>5. RentClaimBacked'
  BY <1>1 DEF IInv, SettleItems, RentClaimBacked, RentClaim, TypeOK
<1>6. QED
  BY <1>3, <1>4, <1>5 DEF ClaimInv

LEMMA FundKeepsCanceled ==
  ASSUME TypeOK, NEW share, FundInvoices(share)
  PROVE  \A i \in InvIds : invoice'[i].canceled = invoice[i].canceled
BY DEF TypeOK, FundInvoices

\* The walk only spends receipts in force.
LEMMA DrawdownLive ==
  ASSUME NEW rank, NEW take, Drawdown(rank, take), NEW it \in OwedItems, take[it] # 0
  PROVE  take[it] \in LivePayments
BY DEF Drawdown, IsOldest

LEMMA PaymentClaims == IInv /\ PaymentNext => ClaimInv'
<1> SUFFICES ASSUME IInv, PaymentNext PROVE ClaimInv'
    OBVIOUS
<1> USE DEF IInv
<1>1. ASSUME NEW amount \in Amounts, NEW year \in Years, NEW items \in SUBSET OwedItems,
             CreatePayment(amount, items, year)
      PROVE  ClaimInv'
  <2> DEFINE take == [it \in OwedItems |-> IF it \in items THEN nPay + 1 ELSE 0]
  <2>1. InsertPayment(amount, FALSE, year) /\ SettleItems(take)
    BY <1>1 DEF CreatePayment
  <2>2. /\ LivePayments \subseteq LivePayments'
        /\ nPay + 1 \in LivePayments' /\ nPay + 1 \in PayIds
    BY <2>1, InsertLive DEF LivePayments
  <2>3. /\ take \in [OwedItems -> PayIds \cup {0}]
        /\ \A it \in OwedItems : take[it] # 0 => take[it] \in LivePayments'
    BY <2>2
  <2>4. /\ charge' = charge /\ chargeBilled' = chargeBilled /\ nInv' = nInv
        /\ \A i \in InvIds : invoice'[i].canceled = invoice[i].canceled
    BY <1>1 DEF CreatePayment
  <2> HIDE DEF take
  <2>5. QED
    BY <2>1, <2>2, <2>3, <2>4, SettleClaims
<1>2. ASSUME NEW amount \in Amounts, NEW year \in Years,
             NEW give \in [OpenInvoices -> Amounts \cup {0}], PayInvoices(amount, year, give)
      PROVE  ClaimInv'
  <2>1. InsertPayment(amount, FALSE, year) /\ \E share : FundInvoices(share)
    BY <1>2 DEF PayInvoices
  <2>2. LivePayments \subseteq LivePayments'
    BY <2>1, InsertLive
  <2>3. \A i \in InvIds : invoice'[i].canceled = invoice[i].canceled
    BY <2>1, FundKeepsCanceled
  <2>4. UNCHANGED <<chargeVars, vehicleVars, chargeAlloc, rentAlloc, nInv, chargeBilled>>
    BY <1>2 DEF PayInvoices
  <2>5. QED
    BY <2>2, <2>3, <2>4 DEF ClaimInv, ClaimExclusive, ChargeClaimBacked, RentClaimBacked, TypeOK
<1>3. ASSUME NEW p \in PayIds, DeletePayment(p) PROVE ClaimInv'
  <2>1. /\ Reverse(p) /\ nPay' = nPay
        /\ chargeAlloc' = ReleaseCharges(p)
        /\ rentAlloc' = ReleaseRent(p)
        /\ vehPaid' = [v \in Vehicles |-> vehPaid[v] /\ rentAlloc[v].pay # p]
        /\ chargePaid' = [c \in Charges |->
             chargePaid[c] /\ ~(chargeAlloc[c] = p /\ vehicleOf[c] = NoVehicle)]
    BY <1>3 DEF DeletePayment
  <2>2. /\ charge' = charge /\ chargeBilled' = chargeBilled /\ nInv' = nInv
        /\ \A i \in InvIds : invoice'[i].canceled = invoice[i].canceled
    BY <1>3 DEF DeletePayment, TypeOK
  <2>3. LivePayments' = LivePayments \ {p}
    BY <2>1, ReverseLive
  <2>4. QED
    BY <2>1, <2>2, <2>3 DEF ClaimInv, ClaimExclusive, ChargeClaimBacked, RentClaimBacked,
                            ReleaseCharges, ReleaseRent, NoAlloc, TypeOK
<1>4. ASSUME NEW rank, NEW take \in [OwedItems -> PayIds \cup {0}], ApplyCredit(rank, take)
      PROVE  ClaimInv'
  <2>1. Drawdown(rank, take) /\ SettleItems(take) /\ \E share : FundInvoices(share)
    BY <1>4 DEF ApplyCredit
  <2>2. \A i \in InvIds : invoice'[i].canceled = invoice[i].canceled
    BY <2>1, FundKeepsCanceled
  <2>3. /\ charge' = charge /\ chargeBilled' = chargeBilled /\ nInv' = nInv
        /\ LivePayments' = LivePayments
    BY <1>4 DEF ApplyCredit, LivePayments
  <2>4. \A it \in OwedItems : take[it] # 0 => take[it] \in LivePayments'
    BY <2>1, <2>3, DrawdownLive
  <2>5. QED
    BY <2>1, <2>2, <2>3, <2>4, SettleClaims
<1>5. QED
  BY <1>1, <1>2, <1>3, <1>4 DEF PaymentNext

LEMMA InvoiceClaims == IInv /\ InvoiceNext => ClaimInv'
<1> SUFFICES ASSUME IInv, InvoiceNext PROVE ClaimInv'
    OBVIOUS
<1> USE DEF IInv
<1>0. \A c \in Charges : chargeBilled[c] \in InvIds \cup {0}
  BY DEF TypeOK
<1>1. CASE CreateInvoice
  <2>1. /\ nInv \in Nat /\ nInv' = nInv + 1 /\ nInv + 1 \in InvIds
        /\ UNCHANGED <<chargeVars, vehicleVars, payVars>>
    BY <1>1, SettlementAssumption DEF CreateInvoice, TypeOK, InvIds, SettlementAssumption
  <2>2. /\ invoice'[nInv + 1].canceled = FALSE
        /\ \A i \in InvIds : i # nInv + 1 => invoice'[i] = invoice[i]
    BY <1>1, <2>1 DEF CreateInvoice, NoInvoice, TypeOK
  <2>3. \A c \in Charges : chargeBilled'[c] = IF c \in OpenCharges THEN nInv + 1 ELSE chargeBilled[c]
    BY <1>1 DEF CreateInvoice
  <2>4. \A c \in OpenCharges : charge[c] = "live" /\ chargeAlloc[c] = 0
    BY DEF OpenCharges
  <2>5. ClaimExclusive'
    BY <2>1, <2>3, <2>4 DEF ClaimExclusive
  <2>6. ChargeClaimBacked'
    <3>1. ASSUME NEW c \in Charges, chargeAlloc[c] # 0
          PROVE  charge[c] = "live" /\ chargePaid[c] /\ chargeAlloc[c] \in LivePayments
      BY <3>1 DEF ChargeClaimBacked
    <3>2. ASSUME NEW c \in Charges, chargeBilled'[c] # 0
          PROVE  charge[c] = "live" /\ chargeBilled'[c] <= nInv + 1 /\ ~invoice'[chargeBilled'[c]].canceled
      <4>1. CASE c \in OpenCharges
        <5>1. chargeBilled'[c] = nInv + 1 /\ charge[c] = "live"
          BY <2>3, <2>4, <4>1
        <5>2. nInv + 1 <= nInv + 1
          BY <2>1
        <5>3. QED
          BY <2>2, <5>1, <5>2
      <4>2. CASE c \notin OpenCharges
        <5>1. /\ chargeBilled'[c] = chargeBilled[c] /\ chargeBilled[c] # 0
              /\ chargeBilled[c] \in InvIds /\ chargeBilled[c] \in Int
          BY <1>0, <2>3, <3>2, <4>2 DEF InvIds
        <5>2. /\ charge[c] = "live" /\ chargeBilled[c] <= nInv
              /\ ~invoice[chargeBilled[c]].canceled
          BY <5>1 DEF ChargeClaimBacked
        <5>3. chargeBilled[c] # nInv + 1 /\ chargeBilled[c] <= nInv + 1
          BY <2>1, <5>1, <5>2
        <5>4. QED
          BY <2>2, <5>1, <5>2, <5>3
      <4>3. QED
        BY <4>1, <4>2
    <3>3. QED
      BY <2>1, <3>1, <3>2 DEF ChargeClaimBacked, LivePayments
  <2>7. RentClaimBacked'
    BY <2>1 DEF RentClaimBacked, LivePayments
  <2>8. QED
    BY <2>5, <2>6, <2>7 DEF ClaimInv
<1>2. ASSUME NEW i \in InvIds, CancelInvoice(i) PROVE ClaimInv'
  <2>1. /\ nInv \in Nat /\ nInv' = nInv + 1 /\ nInv + 1 \in InvIds /\ i <= nInv
        /\ UNCHANGED <<chargeVars, vehPaid, payVars>>
    BY <1>2, SettlementAssumption DEF CancelInvoice, TypeOK, InvIds, SettlementAssumption
  <2>2. \A j \in InvIds : j # i /\ j # nInv + 1 => invoice'[j] = invoice[j]
    BY <1>2 DEF CancelInvoice, TypeOK
  <2>3. \A c \in Charges : chargeBilled'[c] = IF chargeBilled[c] = i THEN 0 ELSE chargeBilled[c]
    BY <1>2 DEF CancelInvoice
  <2>4. ClaimExclusive'
    BY <2>1, <2>3 DEF ClaimExclusive
  <2>5. ChargeClaimBacked'
    <3>1. ASSUME NEW c \in Charges, chargeAlloc[c] # 0
          PROVE  charge[c] = "live" /\ chargePaid[c] /\ chargeAlloc[c] \in LivePayments
      BY <3>1 DEF ChargeClaimBacked
    <3>2. ASSUME NEW c \in Charges, chargeBilled'[c] # 0
          PROVE  charge[c] = "live" /\ chargeBilled'[c] <= nInv + 1 /\ ~invoice'[chargeBilled'[c]].canceled
      <4>1. /\ chargeBilled'[c] = chargeBilled[c] /\ chargeBilled[c] # i
            /\ chargeBilled[c] \in InvIds /\ chargeBilled[c] \in Int
        BY <1>0, <2>3, <3>2 DEF InvIds
      <4>2. /\ charge[c] = "live" /\ chargeBilled[c] <= nInv
            /\ ~invoice[chargeBilled[c]].canceled
        BY <4>1, <3>2 DEF ChargeClaimBacked
      <4>3. QED
        BY <2>1, <2>2, <4>1, <4>2
    <3>3. QED
      BY <2>1, <3>1, <3>2 DEF ChargeClaimBacked, LivePayments
  <2>6. RentClaimBacked'
    BY <2>1 DEF RentClaimBacked, LivePayments
  <2>7. QED
    BY <2>4, <2>5, <2>6 DEF ClaimInv
<1>3. QED
  BY <1>1, <1>2 DEF InvoiceNext

LEMMA FollowClaims == IInv /\ FollowNext => ClaimInv'
BY DEF IInv, ClaimInv, FollowNext, AutoArchive, SweepArchive, LoseFollowUps, ClaimExclusive,
       ChargeClaimBacked, RentClaimBacked, LivePayments

LEMMA Inductive == Spec => []IInv
<1>1. Init => IInv
  BY InitType, InitClaims DEF IInv, ClaimInv
<1>2. IInv /\ [Next]_vars => IInv'
  <2>1. IInv /\ Next => ClaimInv'
    BY ClockClaims, ChargeClaims, VehicleClaims, PaymentClaims, InvoiceClaims, FollowClaims DEF Next
  <2>2. IInv /\ UNCHANGED vars => ClaimInv'
    BY DEF vars, IInv, ClaimInv, ClaimExclusive, ChargeClaimBacked, RentClaimBacked, LivePayments
  <2>3. IInv /\ [Next]_vars => TypeOK'
    BY StepType DEF IInv
  <2>4. QED
    BY <2>1, <2>2, <2>3 DEF IInv, ClaimInv
<1>3. QED
  BY <1>1, <1>2, PTL DEF Spec

\* No charge is settled by a receipt and billed by an invoice: the customer
\* never pays it twice.
THEOREM NeverSettledAndBilled == Spec => []ClaimExclusive
<1>1. IInv => ClaimExclusive
  BY DEF IInv
<1>2. QED
  BY <1>1, Inductive, PTL

\* Every claim on a charge is backed: by a receipt in force and a flag, or by an
\* active invoice.
THEOREM ClaimsAreBacked == Spec => []ChargeClaimBacked
<1>1. IInv => ChargeClaimBacked
  BY DEF IInv
<1>2. QED
  BY <1>1, Inductive, PTL

-----------------------------------------------------------------------------
(* What a step may do to money that is already spent: it is given back only *)
(* by a Storno, and never when the receipt belongs to a closed tax year.    *)
(* Both are action properties; they rest on the inductive invariant of      *)
(* the claims, for a claim on rent is free to move exactly      *)
(* while the vehicle's flag is off.                                         *)

MoneyStep == ReleaseStep /\ FrozenStep

\* A receipt no step may touch.
Frozen(p) == p \in 1 .. nPay /\ payment[p].year \in closed

-----------------------------------------------------------------------------
LEMMA Untouched ==
  ASSUME TypeOK, UNCHANGED <<payment, chargeAlloc, rentAlloc, invPay>>
  PROVE  MoneyStep
<1>1. \A i \in InvIds, p \in PayIds : invPay[i][p] \in Nat
  BY DEF TypeOK
<1>2. \A i \in InvIds, p \in PayIds : ~(invPay'[i][p] < invPay[i][p])
  BY <1>1
<1>3. ReleaseStep
  BY <1>2 DEF ReleaseStep
<1>4. FrozenStep
  BY DEF FrozenStep
<1>5. QED
  BY <1>3, <1>4 DEF MoneyStep

LEMMA InsertKeeps ==
  ASSUME TypeOK, NEW amount, NEW auto, NEW year, InsertPayment(amount, auto, year)
  PROVE  /\ \A p \in PayIds : p <= nPay => payment'[p] = payment[p]
         /\ \A p \in PayIds : p <= nPay => p # nPay + 1
<1>1. nPay \in Nat
  BY SettlementAssumption DEF TypeOK, SettlementAssumption
<1>2. QED
  BY <1>1 DEF InsertPayment, TypeOK, PayIds

\* New claims on positions nothing held leave spent money where it is.
LEMMA NewClaims ==
  ASSUME IInv,
         \A p \in PayIds : p <= nPay => payment'[p] = payment[p],
         \A c \in Charges : chargeAlloc'[c] # chargeAlloc[c] =>
            chargeAlloc[c] = 0 /\ ~Frozen(chargeAlloc'[c]),
         \A v \in Vehicles : rentAlloc'[v] # rentAlloc[v] =>
            rentAlloc[v].pay = 0 /\ ~Frozen(rentAlloc'[v].pay),
         \A i \in InvIds, p \in PayIds :
            /\ ~(invPay'[i][p] < invPay[i][p])
            /\ Frozen(p) => invPay'[i][p] = invPay[i][p]
  PROVE  MoneyStep
<1>1. ReleaseStep
  BY DEF ReleaseStep
<1>2. FrozenStep
  <2>1. nPay \in Nat /\ PayIds \subseteq Nat \ {0}
    BY SettlementAssumption DEF IInv, TypeOK, PayIds, SettlementAssumption
  <2>2. ASSUME NEW p \in PayIds, p <= nPay, payment[p].year \in closed
        PROVE  Frozen(p) /\ p # 0
    BY <2>1, <2>2 DEF Frozen
  <2>3. QED
    BY <2>2 DEF FrozenStep
<1>3. QED
  BY <1>1, <1>2 DEF MoneyStep

\* A Storno of one receipt of an open year gives back what that receipt held.
LEMMA ReversalMoves ==
  ASSUME TypeOK, NEW p \in PayIds, Reverse(p), YearsOpen({p}),
         chargeAlloc' = ReleaseCharges(p), rentAlloc' = ReleaseRent(p),
         \A i \in InvIds, q \in PayIds : q # p => invPay'[i][q] = invPay[i][q]
  PROVE  MoneyStep
<1>1. /\ payment'[p].reversed = TRUE
      /\ \A q \in PayIds : q # p => payment'[q] = payment[q]
  BY DEF Reverse, TypeOK
<1>2. \A i \in InvIds, q \in PayIds : invPay[i][q] \in Nat
  BY DEF TypeOK
<1>3. \A i \in InvIds, q \in PayIds : invPay'[i][q] < invPay[i][q] => q = p
  BY <1>2
<1>4. \A c \in Charges : chargeAlloc'[c] # chargeAlloc[c] => chargeAlloc[c] = p
  BY DEF ReleaseCharges
<1>5. \A v \in Vehicles : rentAlloc'[v] # rentAlloc[v] => rentAlloc[v].pay = p
  BY DEF ReleaseRent
<1>6. ReleaseStep
  BY <1>1, <1>3, <1>4, <1>5 DEF ReleaseStep
<1>7. FrozenStep
  <2> SUFFICES ASSUME NEW q \in PayIds, q <= nPay, payment[q].year \in closed
               PROVE  /\ payment'[q] = payment[q]
                      /\ \A c \in Charges : (chargeAlloc[c] = q) <=> (chargeAlloc'[c] = q)
                      /\ \A v \in Vehicles : (rentAlloc[v].pay = q) <=> (rentAlloc'[v].pay = q)
                      /\ \A i \in InvIds : invPay'[i][q] = invPay[i][q]
      BY DEF FrozenStep
  <2>1. q # p /\ q # 0
    BY DEF YearsOpen, PayIds
  <2>2. \A c \in Charges : (chargeAlloc[c] = q) <=> (chargeAlloc'[c] = q)
    BY <2>1 DEF ReleaseCharges
  <2>3. \A v \in Vehicles : (rentAlloc[v].pay = q) <=> (rentAlloc'[v].pay = q)
    BY <2>1 DEF ReleaseRent, NoAlloc
  <2>4. QED
    BY <1>1, <2>1, <2>2, <2>3
<1>8. QED
  BY <1>6, <1>7 DEF MoneyStep

-----------------------------------------------------------------------------
LEMMA ChargeMoney == IInv /\ ChargeNext => MoneyStep
<1> SUFFICES ASSUME IInv, NEW c \in Charges,
                    \/ \E v \in Vehicles \cup {NoVehicle} : CreateCharge(c, v) \/ UpdateCharge(c, v)
                    \/ DeleteCharge(c) \/ SetChargePaid(c) \/ SetChargeOpen(c)
             PROVE  MoneyStep
    BY DEF ChargeNext
<1>0. TypeOK /\ \A i \in InvIds, p \in PayIds : ~(invPay[i][p] < invPay[i][p])
  BY DEF IInv, TypeOK
<1>1. ASSUME NEW v \in Vehicles \cup {NoVehicle}, CreateCharge(c, v) \/ UpdateCharge(c, v)
      PROVE  MoneyStep
  BY <1>0, <1>1, Untouched DEF CreateCharge, UpdateCharge
<1>2. CASE DeleteCharge(c)
  BY <1>0, <1>2, Untouched DEF DeleteCharge
<1>3. CASE SetChargePaid(c)
  <2>1. CASE c \in OwedCharges
    <3>1. /\ InsertPayment(Price[c], TRUE, YearOf(today))
          /\ chargeAlloc' = [chargeAlloc EXCEPT ![c] = nPay + 1]
          /\ rentAlloc' = rentAlloc /\ invPay' = invPay
      BY <1>3, <2>1 DEF SetChargePaid
    <3>2. chargeAlloc[c] = 0
      BY <2>1 DEF OwedCharges, OpenCharges
    <3>3. ~Frozen(nPay + 1)
      BY <1>0, SettlementAssumption DEF Frozen, TypeOK, SettlementAssumption
    <3>4. \A d \in Charges : chargeAlloc'[d] = IF d = c THEN nPay + 1 ELSE chargeAlloc[d]
      BY <1>0, <3>1 DEF TypeOK
    <3>5. QED
      BY <1>0, <3>1, <3>2, <3>3, <3>4, InsertKeeps, NewClaims
  <2>2. CASE c \notin OwedCharges
    BY <1>0, <1>3, <2>2, Untouched DEF SetChargePaid
  <2>3. QED
    BY <2>1, <2>2
<1>4. CASE SetChargeOpen(c)
  <2>1. CASE chargeAlloc[c] = 0
    BY <1>0, <1>4, <2>1, Untouched DEF SetChargeOpen
  <2>2. CASE chargeAlloc[c] # 0
    <3>1. chargeAlloc[c] \in PayIds
      BY <1>0, <2>2 DEF TypeOK
    <3>2. /\ Reverse(chargeAlloc[c]) /\ YearsOpen({chargeAlloc[c]})
          /\ chargeAlloc' = ReleaseCharges(chargeAlloc[c])
          /\ rentAlloc' = ReleaseRent(chargeAlloc[c])
          /\ invPay' = invPay
      BY <1>4, <2>2 DEF SetChargeOpen
    <3>3. QED
      BY <1>0, <3>1, <3>2, ReversalMoves
  <2>3. QED
    BY <2>1, <2>2
<1>5. QED
  BY <1>1, <1>2, <1>3, <1>4

LEMMA VehicleMoney == IInv /\ VehicleNext => MoneyStep
<1> SUFFICES ASSUME IInv, NEW v \in Vehicles,
                    \/ MarkPaid(v) \/ MarkOpen(v) \/ MarkAgain(v) \/ ReactivateVehicle(v)
                    \/ \E s \in {"stored", "collected", "cancelled"}, d \in Days \cup {0} :
                         ChangeStatus(v, s, d)
             PROVE  MoneyStep
    BY DEF VehicleNext
<1>0. TypeOK /\ \A i \in InvIds, p \in PayIds : ~(invPay[i][p] < invPay[i][p])
  BY DEF IInv, TypeOK
<1>1. CASE MarkPaid(v)
  <2> DEFINE claimed == { c \in BoundCharges(v) : chargeAlloc[c] = 0 }
  <2>1. rentAlloc[v].pay = 0
    BY <1>1 DEF MarkPaid, IInv, RentClaimBacked
  <2>2. /\ InsertPayment(AccruedRent(v) + Total(claimed), TRUE, YearOf(today))
        /\ rentAlloc' = [rentAlloc EXCEPT ![v] = RentClaim(nPay + 1, v)]
        /\ chargeAlloc' = [c \in Charges |-> IF c \in claimed THEN nPay + 1 ELSE chargeAlloc[c]]
        /\ invPay' = invPay
    BY <1>1, <2>1 DEF MarkPaid
  <2>3. ~Frozen(nPay + 1)
    BY <1>0, SettlementAssumption DEF Frozen, TypeOK, SettlementAssumption
  <2>4. \A c \in Charges : chargeAlloc'[c] # chargeAlloc[c] => chargeAlloc[c] = 0 /\ chargeAlloc'[c] = nPay + 1
    BY <2>2
  <2>5. \A w \in Vehicles : rentAlloc'[w] # rentAlloc[w] => rentAlloc[w].pay = 0 /\ rentAlloc'[w].pay = nPay + 1
    BY <1>0, <2>1, <2>2 DEF RentClaim, TypeOK
  <2> HIDE DEF claimed
  <2>6. QED
    BY <1>0, <2>2, <2>3, <2>4, <2>5, InsertKeeps, NewClaims
<1>2. CASE MarkOpen(v)
  <2>1. CASE rentAlloc[v].pay = 0
    BY <1>0, <1>2, <2>1, Untouched DEF MarkOpen
  <2>2. CASE rentAlloc[v].pay # 0
    <3>1. rentAlloc[v].pay \in PayIds
      BY <1>0, <2>2 DEF TypeOK
    <3>2. /\ Reverse(rentAlloc[v].pay) /\ YearsOpen({rentAlloc[v].pay})
          /\ chargeAlloc' = ReleaseCharges(rentAlloc[v].pay)
          /\ rentAlloc' = ReleaseRent(rentAlloc[v].pay)
          /\ invPay' = invPay
      BY <1>2, <2>2 DEF MarkOpen
    <3>3. QED
      BY <1>0, <3>1, <3>2, ReversalMoves
  <2>3. QED
    BY <2>1, <2>2
<1>3. CASE MarkAgain(v) \/ ReactivateVehicle(v)
  BY <1>0, <1>3, Untouched DEF MarkAgain, ReactivateVehicle
<1>4. ASSUME NEW s \in {"stored", "collected", "cancelled"}, NEW d \in Days \cup {0},
             ChangeStatus(v, s, d)
      PROVE  MoneyStep
  BY <1>0, <1>4, Untouched DEF ChangeStatus
<1>5. QED
  BY <1>1, <1>2, <1>3, <1>4

\* Settling items takes positions nothing held; a vehicle that owes has no claim.
LEMMA SettleTakesFree ==
  ASSUME IInv, NEW take, SettleItems(take), \A it \in OwedItems : ~Frozen(take[it])
  PROVE  /\ \A c \in Charges : chargeAlloc'[c] # chargeAlloc[c] =>
                chargeAlloc[c] = 0 /\ ~Frozen(chargeAlloc'[c])
         /\ \A v \in Vehicles : rentAlloc'[v] # rentAlloc[v] =>
                rentAlloc[v].pay = 0 /\ ~Frozen(rentAlloc'[v].pay)
<1>1. \A c \in OwedCharges : c \in OwedItems /\ chargeAlloc[c] = 0
  BY DEF OwedItems, OwedCharges, OpenCharges
<1>2. \A v \in OwedVehicles : v \in OwedItems /\ v \in Vehicles /\ ~vehPaid[v]
  BY DEF OwedItems, OwedVehicles
<1>3. \A v \in OwedVehicles : rentAlloc[v].pay = 0
  BY <1>2 DEF IInv, RentClaimBacked
<1>4. QED
  BY <1>1, <1>2, <1>3 DEF SettleItems, RentClaim

\* Invoices only gain, and only from the receipts that have a share.
LEMMA FundGives ==
  ASSUME TypeOK, NEW share, FundInvoices(share), NEW i \in InvIds, NEW p \in PayIds
  PROVE  /\ ~(invPay'[i][p] < invPay[i][p])
         /\ share[i][p] = 0 => invPay'[i][p] = invPay[i][p]
<1>1. share[i][p] \in Nat /\ invPay[i][p] \in Nat
  BY SettlementAssumption DEF FundInvoices, TypeOK, Money, SettlementAssumption
<1>2. invPay'[i][p] = invPay[i][p] + share[i][p]
  BY DEF FundInvoices
<1>3. QED
  BY <1>1, <1>2

LEMMA PaymentMoney == IInv /\ PaymentNext => MoneyStep
<1> SUFFICES ASSUME IInv, PaymentNext PROVE MoneyStep
    OBVIOUS
<1>0. TypeOK /\ \A i \in InvIds, p \in PayIds : ~(invPay[i][p] < invPay[i][p])
  BY DEF IInv, TypeOK
<1>1. ASSUME NEW amount \in Amounts, NEW year \in Years, NEW items \in SUBSET OwedItems,
             CreatePayment(amount, items, year)
      PROVE  MoneyStep
  <2> DEFINE take == [it \in OwedItems |-> IF it \in items THEN nPay + 1 ELSE 0]
  <2>1. InsertPayment(amount, FALSE, year) /\ SettleItems(take) /\ invPay' = invPay
    BY <1>1 DEF CreatePayment
  <2>2. ~Frozen(nPay + 1)
    BY <1>0, SettlementAssumption DEF Frozen, TypeOK, SettlementAssumption
  <2>3. \A c \in Charges : chargeAlloc'[c] # chargeAlloc[c] =>
            chargeAlloc[c] = 0 /\ chargeAlloc'[c] = nPay + 1
    BY <2>1 DEF SettleItems, OwedItems, OwedCharges, OpenCharges
  <2>4. \A v \in Vehicles : rentAlloc'[v] # rentAlloc[v] =>
            rentAlloc[v].pay = 0 /\ rentAlloc'[v].pay = nPay + 1
    BY <2>1 DEF SettleItems, OwedItems, OwedVehicles, RentClaim, IInv, RentClaimBacked
  <2> HIDE DEF take
  <2>5. QED
    BY <1>0, <2>1, <2>2, <2>3, <2>4, InsertKeeps, NewClaims
<1>2. ASSUME NEW amount \in Amounts, NEW year \in Years,
             NEW give \in [OpenInvoices -> Amounts \cup {0}], PayInvoices(amount, year, give)
      PROVE  MoneyStep
  <2> DEFINE share == [i \in InvIds |-> [p \in PayIds |->
                         IF p = nPay + 1 /\ i \in OpenInvoices THEN give[i] ELSE 0]]
  <2>1. /\ InsertPayment(amount, FALSE, year) /\ FundInvoices(share)
        /\ chargeAlloc' = chargeAlloc /\ rentAlloc' = rentAlloc
    BY <1>2 DEF PayInvoices
  <2>2. \A p \in PayIds : p <= nPay => payment'[p] = payment[p] /\ p # nPay + 1
    BY <1>0, <2>1, InsertKeeps
  <2>3. \A i \in InvIds, p \in PayIds : Frozen(p) => share[i][p] = 0
    BY <2>2 DEF Frozen
  <2> HIDE DEF share
  <2>4. \A i \in InvIds, p \in PayIds :
            /\ ~(invPay'[i][p] < invPay[i][p])
            /\ Frozen(p) => invPay'[i][p] = invPay[i][p]
    BY <1>0, <2>1, <2>3, FundGives
  <2>5. QED
    BY <2>1, <2>2, <2>4, NewClaims
<1>3. ASSUME NEW p \in PayIds, DeletePayment(p) PROVE MoneyStep
  <2>1. /\ Reverse(p) /\ YearsOpen({p})
        /\ chargeAlloc' = ReleaseCharges(p) /\ rentAlloc' = ReleaseRent(p)
        /\ invPay' = [i \in InvIds |-> [invPay[i] EXCEPT ![p] = 0]]
    BY <1>3 DEF DeletePayment
  <2>2. \A i \in InvIds, q \in PayIds : q # p => invPay'[i][q] = invPay[i][q]
    BY <1>0, <2>1 DEF TypeOK
  <2>3. QED
    BY <1>0, <2>1, <2>2, ReversalMoves
<1>4. ASSUME NEW rank, NEW take \in [OwedItems -> PayIds \cup {0}], ApplyCredit(rank, take)
      PROVE  MoneyStep
  <2> DEFINE left == [p \in LivePayments |->
                        Remaining(p) - Total({ it \in OwedItems : take[it] = p })]
             share == [i \in InvIds |-> [p \in PayIds |-> InvoiceCredit(left, i, p)]]
  <2>1. /\ Drawdown(rank, take) /\ FundInvoices(share) /\ SettleItems(take)
        /\ payment' = payment
        /\ YearsOpen({ p \in LivePayments :
              \/ \E it \in OwedItems : take[it] = p
              \/ \E i \in InvIds : share[i][p] # 0 })
    BY <1>4 DEF ApplyCredit
  <2>2. \A i \in InvIds, p \in PayIds : p \notin LivePayments => share[i][p] = 0
    BY DEF InvoiceCredit
  <2> HIDE DEF left, share
  <2>3. \A i \in InvIds, p \in PayIds : Frozen(p) => share[i][p] = 0
    BY <2>1, <2>2 DEF Frozen, YearsOpen
  <2>4. \A it \in OwedItems : ~Frozen(take[it])
    <3>1. ASSUME NEW it \in OwedItems, Frozen(take[it]) PROVE FALSE
      <4>1. CASE take[it] = 0
        BY <3>1, <4>1 DEF Frozen
      <4>2. CASE take[it] # 0
        <5>1. take[it] \in LivePayments
          BY <2>1, <4>2, DrawdownLive
        <5>2. QED
          BY <2>1, <3>1, <5>1 DEF Frozen, YearsOpen
      <4>3. QED
        BY <4>1, <4>2
    <3>2. QED
      BY <3>1
  <2>5. QED
    BY <1>0, <2>1, <2>3, <2>4, FundGives, SettleTakesFree, NewClaims
<1>5. QED
  BY <1>1, <1>2, <1>3, <1>4 DEF PaymentNext

LEMMA InvoiceMoney == IInv /\ InvoiceNext => MoneyStep
<1> SUFFICES ASSUME IInv, InvoiceNext PROVE MoneyStep
    OBVIOUS
<1>0. TypeOK
  BY DEF IInv
<1>1. CASE CreateInvoice
  BY <1>0, <1>1, Untouched DEF CreateInvoice
<1>2. ASSUME NEW i \in InvIds, CancelInvoice(i) PROVE MoneyStep
  <2>1. /\ invPay' = [invPay EXCEPT ![i] = [p \in PayIds |-> 0]]
        /\ YearsOpen({ p \in PayIds : invPay[i][p] # 0 })
        /\ UNCHANGED <<payment, chargeAlloc, rentAlloc>>
    BY <1>2 DEF CancelInvoice
  <2>2. invoice'[i].canceled = TRUE
    <3>1. nInv \in Nat /\ i <= nInv /\ i \in Nat
      BY <1>0, <1>2 DEF TypeOK, CancelInvoice, InvIds
    <3>2. i # nInv + 1
      BY <3>1
    <3>3. QED
      BY <1>0, <1>2, <3>2 DEF CancelInvoice, TypeOK
  <2>3. \A j \in InvIds, p \in PayIds : j # i => ~(invPay'[j][p] < invPay[j][p])
    BY <1>0, <2>1 DEF TypeOK
  <2>4. ReleaseStep
    BY <2>1, <2>2, <2>3 DEF ReleaseStep
  <2>5. FrozenStep
    <3>1. \A j \in InvIds, p \in PayIds : payment[p].year \in closed => invPay'[j][p] = invPay[j][p]
      BY <1>0, <2>1 DEF TypeOK, YearsOpen
    <3>2. QED
      BY <2>1, <3>1 DEF FrozenStep
  <2>6. QED
    BY <2>4, <2>5 DEF MoneyStep
<1>3. QED
  BY <1>1, <1>2 DEF InvoiceNext

LEMMA EveryStep == IInv /\ [Next]_vars => MoneyStep
<1>0. IInv => TypeOK
  BY DEF IInv
<1>1. IInv /\ ClockNext => MoneyStep
  BY <1>0, Untouched DEF ClockNext, NextDay, LockTaxYear, UnlockTaxYear
<1>2. IInv /\ FollowNext => MoneyStep
  BY <1>0, Untouched DEF FollowNext, AutoArchive, SweepArchive, LoseFollowUps
<1>3. IInv /\ UNCHANGED vars => MoneyStep
  BY <1>0, Untouched DEF vars
<1>4. QED
  BY <1>1, <1>2, <1>3, ChargeMoney, VehicleMoney, PaymentMoney, InvoiceMoney DEF Next

\* Money leaves a position or an invoice only by reversing the receipt or by
\* cancelling the invoice, whatever handler runs.
THEOREM OnlyStornoReleases == Spec => ReleasedOnlyByStorno
<1>1. IInv /\ [Next]_vars => [ReleaseStep]_vars
  BY EveryStep DEF MoneyStep
<1>2. QED
  BY <1>1, Inductive, PTL DEF Spec, ReleasedOnlyByStorno

\* No handler touches a receipt of a closed tax year, nor what it settles.
THEOREM ClosedYearsStayFrozen == Spec => ClosedYearFrozen
<1>1. IInv /\ [Next]_vars => [FrozenStep]_vars
  BY EveryStep DEF MoneyStep
<1>2. QED
  BY <1>1, Inductive, PTL DEF Spec, ClosedYearFrozen

=============================================================================
