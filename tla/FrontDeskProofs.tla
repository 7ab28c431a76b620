-------------------------- MODULE FrontDeskProofs ---------------------------
(***************************************************************************)
(* Machine-checked theorems about FrontDesk, for every set of persons, visitors, *)
(* wishes and protocols and all limits, about AutoInvoice, for every set of   *)
(* customers and planners, and about Access, for every set of accounts, tokens *)
(* and visits.                                                             *)
(***************************************************************************)
EXTENDS FrontDesk, AutoInvoice, Access, FiniteSetTheorems, WellFoundedInduction, TLAPS

\* A non-empty set of naturals has a least element.
LEMMA LeastNatural ==
    ASSUME NEW S, S \subseteq Nat, S # {}
    PROVE  \E m \in S : \A k \in S : m <= k
<1>1. IsWellFoundedOn(OpToRel(<, Nat), Nat)
  BY NatLessThanWellFounded
<1>2. PICK m \in S : \A k \in S : ~(<<k, m>> \in OpToRel(<, Nat))
  BY <1>1, WFMin
<1>3. \A k \in S : ~(k < m)
  BY <1>2 DEF OpToRel
<1>. QED BY <1>3

\* So Min chooses it.
LEMMA MinOfNaturals ==
    ASSUME NEW S, S \subseteq Nat, S # {}
    PROVE  Min(S) \in S /\ \A k \in S : Min(S) <= k
BY LeastNatural DEF Min

\* The greater of two.
LEMMA MaxOfTwo ==
    ASSUME NEW a \in Nat, NEW b \in Nat
    PROVE  Max({a, b}) \in {a, b} /\ Max({a, b}) >= a /\ Max({a, b}) >= b
<1>1. \E x \in {a, b} : \A y \in {a, b} : x >= y
  <2>1. CASE a >= b BY <2>1
  <2>2. CASE ~(a >= b) BY <2>2
  <2>. QED BY <2>1, <2>2
<1>. QED BY <1>1 DEF Max
-----------------------------------------------------------------------------
(* The automatic invoice run.                                                *)

RoundType == [on : BOOLEAN, at : Nat, left : SUBSET Customers, items : SUBSET (Customers \X Nat)]

AutoInvoiceTypeOK ==
    /\ term \in Nat /\ marker \in Nat
    /\ guard \in [Planners -> Nat]
    /\ round \in [Planners -> RoundType]
    /\ reached \in [Customers -> Nat]

\* A round has come to everybody it has left behind, and to the one whose items
\* it has read.
RoundsCome ==
    \A h \in Planners : round[h].on =>
       /\ \A c \in Customers \ round[h].left : reached[c] >= round[h].at
       /\ Busy(h) /\ round[h].items # {} => reached[Current(h)] >= round[h].at

AutoInvoiceInv == AutoInvoiceTypeOK /\ RoundsCome /\ MarkerIsEarned

\* The customer a run is at is one of those left.
LEMMA CurrentIsLeft ==
    ASSUME AutoInvoiceTypeOK, NEW h \in Planners, Busy(h)
    PROVE  Current(h) \in round[h].left /\ Current(h) \in Customers
<1>1. round[h].left \subseteq Customers /\ round[h].left # {}
  BY DEF AutoInvoiceTypeOK, RoundType, Busy
<1>2. round[h].left \subseteq Nat
  BY <1>1, AutoInvoiceAssumption
<1>. QED BY <1>1, <1>2, MinOfNaturals DEF Current


\* The inductive invariant holds at the start.
LEMMA AutoInvoiceStart == AutoInvoiceInit => AutoInvoiceInv
BY DEF AutoInvoiceInit, AutoInvoiceInv, AutoInvoiceTypeOK, RoundsCome, RoundType, MarkerIsEarned, NoRound

\* Steps of a round that leave the customers' history alone and only shorten rounds.
LEMMA CustomerStep ==
    ASSUME AutoInvoiceInv, NEW h \in Planners, PrepareInvoice(h)
    PROVE  AutoInvoiceInv'
<1>. DEFINE c == Current(h)
<1>1. c \in round[h].left /\ c \in Customers /\ round[h].on
  BY CurrentIsLeft DEF AutoInvoiceInv, PrepareInvoice, Busy
<1>2. reached' = [reached EXCEPT ![c] = Max({@, round[h].at})]
  BY DEF PrepareInvoice
<1>3. \A d \in Customers : reached'[d] \in Nat /\ reached'[d] >= reached[d]
  BY <1>1, <1>2, MaxOfTwo DEF AutoInvoiceInv, AutoInvoiceTypeOK, RoundType
<1>4. reached'[c] >= round[h].at
  BY <1>1, <1>2, MaxOfTwo DEF AutoInvoiceInv, AutoInvoiceTypeOK, RoundType
<1>5. Open(c) \subseteq Customers \X Nat
  BY <1>1 DEF Open, Item, AutoInvoiceInv, AutoInvoiceTypeOK
<1>6. AutoInvoiceTypeOK'
  <2>1. reached' \in [Customers -> Nat]
    BY <1>2, <1>3 DEF AutoInvoiceInv, AutoInvoiceTypeOK
  <2>2. round' \in [Planners -> RoundType]
    <3>1. CASE Open(c) = {}
      BY <3>1 DEF PrepareInvoice, EndsAt, AutoInvoiceInv, AutoInvoiceTypeOK, RoundType
    <3>2. CASE Open(c) # {} /\ sellerOK
      <4>1. round' = [round EXCEPT ![h] = [round[h] EXCEPT !.items = Open(c)]]
        BY <3>2 DEF PrepareInvoice
      <4>2. Open(c) \in SUBSET (Customers \X Nat)
        BY <1>5
      <4>3. round[h] \in RoundType
        BY DEF AutoInvoiceInv, AutoInvoiceTypeOK
      <4>4. [round[h] EXCEPT !.items = Open(c)] \in RoundType
        BY <4>2, <4>3 DEF RoundType
      <4>. QED BY <4>1, <4>4 DEF AutoInvoiceInv, AutoInvoiceTypeOK
    <3>3. CASE Open(c) # {} /\ ~sellerOK
      <4>1. round' = [round EXCEPT ![h] = NoRound]
        BY <3>3 DEF PrepareInvoice
      <4>2. NoRound \in RoundType
        BY DEF RoundType, NoRound
      <4>. QED BY <4>1, <4>2 DEF AutoInvoiceInv, AutoInvoiceTypeOK
    <3>. QED BY <3>1, <3>2, <3>3
  <2>. QED BY <2>1, <2>2 DEF PrepareInvoice, AutoInvoiceInv, AutoInvoiceTypeOK
<1>7. MarkerIsEarned'
  BY <1>3 DEF PrepareInvoice, MarkerIsEarned, AutoInvoiceInv, AutoInvoiceTypeOK
<1>8. ASSUME NEW g \in Planners, round'[g].on
      PROVE  /\ \A d \in Customers \ round'[g].left : reached'[d] >= round'[g].at
             /\ Busy(g)' /\ round'[g].items # {} => reached'[Current(g)'] >= round'[g].at
  <2>1. CASE g # h
    <3>1. round'[g] = round[g]
      BY <2>1 DEF PrepareInvoice, EndsAt, AutoInvoiceInv, AutoInvoiceTypeOK
    <3>2. Busy(g)' = Busy(g) /\ Current(g)' = Current(g)
      BY <3>1 DEF Busy, Current
    <3>. QED BY <1>3, <1>8, <3>1, <3>2, CurrentIsLeft DEF RoundsCome, AutoInvoiceInv, AutoInvoiceTypeOK, RoundType
  <2>2. CASE g = h /\ Open(c) = {}
    <3>1. round'[h] = [round[h] EXCEPT !.left = round[h].left \ {c}, !.items = {}]
      BY <2>2 DEF PrepareInvoice, EndsAt, AutoInvoiceInv, AutoInvoiceTypeOK, RoundType
    <3>. QED BY <1>1, <1>3, <1>4, <2>2, <3>1 DEF RoundsCome, AutoInvoiceInv, AutoInvoiceTypeOK, RoundType
  <2>3. CASE g = h /\ Open(c) # {}
    <3>1. round'[h] = [round[h] EXCEPT !.items = Open(c)]
      BY <1>8, <2>3 DEF PrepareInvoice, AutoInvoiceInv, AutoInvoiceTypeOK, RoundType, NoRound
    <3>2. Current(h)' = c
      BY <3>1 DEF Current, AutoInvoiceInv, AutoInvoiceTypeOK, RoundType
    <3>. QED BY <1>1, <1>3, <1>4, <2>3, <3>1, <3>2 DEF RoundsCome, AutoInvoiceInv, AutoInvoiceTypeOK, RoundType
  <2>. QED BY <2>1, <2>2, <2>3
<1>. QED BY <1>6, <1>7, <1>8 DEF RoundsCome, AutoInvoiceInv

\* A round that leaves its customer behind, whatever became of the invoice.
LEMMA LeavesCustomer ==
    ASSUME AutoInvoiceInv, NEW h \in Planners, Busy(h), round[h].items # {},
           EndsAt(h, round[h].left \ {Current(h)}), UNCHANGED <<term, marker, guard, reached>>
    PROVE  AutoInvoiceInv'
<1>1. Current(h) \in Customers /\ round[h].on /\ reached[Current(h)] >= round[h].at
  BY CurrentIsLeft DEF AutoInvoiceInv, RoundsCome, Busy
<1>2. round' = [round EXCEPT ![h] = [round[h] EXCEPT !.left = round[h].left \ {Current(h)}, !.items = {}]]
  BY DEF EndsAt, AutoInvoiceInv, AutoInvoiceTypeOK, RoundType
<1>3. AutoInvoiceTypeOK'
  BY <1>2 DEF AutoInvoiceInv, AutoInvoiceTypeOK, RoundType
<1>4. \A g \in Planners \ {h} : round'[g] = round[g] /\ Busy(g)' = Busy(g) /\ Current(g)' = Current(g)
  BY <1>2 DEF AutoInvoiceInv, AutoInvoiceTypeOK, Busy, Current
<1>5. RoundsCome'
  BY <1>1, <1>2, <1>4 DEF RoundsCome, AutoInvoiceInv, AutoInvoiceTypeOK, RoundType
<1>. QED BY <1>3, <1>5 DEF AutoInvoiceInv, MarkerIsEarned

\* A round that is over, done or not, leaves the rest as it is.
LEMMA RoundOver ==
    ASSUME AutoInvoiceInv, NEW h \in Planners, round' = [round EXCEPT ![h] = NoRound],
           UNCHANGED reached
    PROVE  RoundsCome' /\ round' \in [Planners -> RoundType]
<1>1. \A g \in Planners \ {h} : round'[g] = round[g] /\ Busy(g)' = Busy(g) /\ Current(g)' = Current(g)
  BY DEF AutoInvoiceInv, AutoInvoiceTypeOK, Busy, Current
<1>2. ~round'[h].on
  BY DEF AutoInvoiceInv, AutoInvoiceTypeOK, NoRound
<1>3. RoundsCome'
  BY <1>1, <1>2 DEF RoundsCome, AutoInvoiceInv
<1>4. round' \in [Planners -> RoundType]
  BY DEF AutoInvoiceInv, AutoInvoiceTypeOK, RoundType, NoRound
<1>. QED BY <1>3, <1>4

\* The inductive invariant is kept by every step.
LEMMA AutoInvoiceStep == AutoInvoiceInv /\ [AutoInvoiceNext]_autoVars => AutoInvoiceInv'
<1>. SUFFICES ASSUME AutoInvoiceInv, [AutoInvoiceNext]_autoVars
              PROVE  AutoInvoiceInv'
  OBVIOUS
<1>1. ASSUME UNCHANGED round, UNCHANGED reached, UNCHANGED marker, term' \in Nat, guard' \in [Planners -> Nat]
      PROVE  AutoInvoiceInv'
  BY <1>1 DEF AutoInvoiceInv, AutoInvoiceTypeOK, RoundsCome, MarkerIsEarned, Busy, Current
<1>2. ASSUME NEW h \in Planners, FirstStart(h) PROVE AutoInvoiceInv'
  BY <1>1, <1>2 DEF FirstStart, AutoInvoiceInv, AutoInvoiceTypeOK
<1>3. ASSUME NEW h \in Planners, BeginRound(h) PROVE AutoInvoiceInv'
  <2>1. \A g \in Planners \ {h} : round'[g] = round[g] /\ Busy(g)' = Busy(g) /\ Current(g)' = Current(g)
    BY <1>3 DEF BeginRound, AutoInvoiceInv, AutoInvoiceTypeOK, Busy, Current
  <2>2. round'[h].left = Customers /\ round'[h].items = {}
    BY <1>3 DEF BeginRound, AutoInvoiceInv, AutoInvoiceTypeOK
  <2>3. RoundsCome'
    BY <1>3, <2>1, <2>2 DEF BeginRound, RoundsCome, AutoInvoiceInv
  <2>4. AutoInvoiceTypeOK'
    BY <1>3 DEF BeginRound, AutoInvoiceInv, AutoInvoiceTypeOK, RoundType
  <2>. QED BY <1>3, <2>3, <2>4 DEF BeginRound, AutoInvoiceInv, MarkerIsEarned
<1>4. ASSUME NEW h \in Planners, PrepareInvoice(h) PROVE AutoInvoiceInv'
  BY <1>4, CustomerStep
<1>5. ASSUME NEW h \in Planners, ClaimInvoice(h) PROVE AutoInvoiceInv'
  BY <1>5, LeavesCustomer DEF ClaimInvoice
<1>6. ASSUME NEW h \in Planners, SkipCustomer(h) PROVE AutoInvoiceInv'
  BY <1>6, LeavesCustomer DEF SkipCustomer
<1>7. ASSUME NEW h \in Planners, CutRound(h) PROVE AutoInvoiceInv'
  BY <1>7, RoundOver DEF CutRound, AtTimeLimit, AutoInvoiceInv, AutoInvoiceTypeOK, MarkerIsEarned
<1>8. ASSUME NEW h \in Planners, EndRound(h) PROVE AutoInvoiceInv'
  <2>1. RoundsCome' /\ round' \in [Planners -> RoundType]
    BY <1>8, RoundOver DEF EndRound
  <2>2. \A c \in Customers : reached[c] >= round[h].at
    BY <1>8 DEF EndRound, AutoInvoiceInv, RoundsCome
  <2>3. round[h].at \in Nat
    BY DEF AutoInvoiceInv, AutoInvoiceTypeOK, RoundType
  <2>. QED BY <1>8, <2>1, <2>2, <2>3 DEF EndRound, AutoInvoiceInv, AutoInvoiceTypeOK, MarkerIsEarned
<1>9. ASSUME NEW h \in Planners, Restart(h) PROVE AutoInvoiceInv'
  BY <1>9, RoundOver DEF Restart, AutoInvoiceInv, AutoInvoiceTypeOK, MarkerIsEarned
<1>10. ASSUME NEW c \in Customers, PressButton(c) PROVE AutoInvoiceInv'
  BY <1>1, <1>10 DEF PressButton, AutoInvoiceInv, AutoInvoiceTypeOK
<1>11. CASE CompleteSeller \/ NextTerm \/ UNCHANGED autoVars
  BY <1>1, <1>11 DEF CompleteSeller, NextTerm, autoVars, AutoInvoiceInv, AutoInvoiceTypeOK
<1>. QED BY <1>2, <1>3, <1>4, <1>5, <1>6, <1>7, <1>8, <1>9, <1>10, <1>11 DEF AutoInvoiceNext

(* Whatever process runs, dies or is cut off, the marker names a period in which    *)
(* some run came to every customer: nobody waits a period too long                  *)
(* (StartAutoInvoice, runAutoInvoice).                                              *)
THEOREM NobodyIsSkipped == AutoInvoiceSpec => []MarkerIsEarned
<1>1. AutoInvoiceInv => MarkerIsEarned
  BY DEF AutoInvoiceInv
<1>. QED BY <1>1, AutoInvoiceStart, AutoInvoiceStep, PTL DEF AutoInvoiceSpec

-----------------------------------------------------------------------------
\* A non-empty finite set of naturals has a greatest element.
LEMMA MaxOfFinite ==
    ASSUME NEW S, S \subseteq Nat, S # {}, IsFiniteSet(S)
    PROVE  Max(S) \in S /\ \A k \in S : Max(S) >= k
<1>. DEFINE HasMax(U) == \E m \in U : \A k \in U : m >= k
            T == { U \in SUBSET S : U # {} /\ ~HasMax(U) }
<1>1. T = {}
  <2>. SUFFICES ASSUME T # {} PROVE FALSE
    OBVIOUS
  <2>1. FiniteSubsetsOf(S) = SUBSET S
    BY FS_FiniteSubsetsOfFinite
  <2>2. T \subseteq FiniteSubsetsOf(S)
    BY <2>1
  <2>3. IsWellFoundedOn(StrictSubsetOrdering(S), FiniteSubsetsOf(S))
    BY FS_StrictSubsetOrderingWellFounded
  <2>. HIDE DEF T
  <2>4. PICK U \in T : \A V \in T : ~ (<<V, U>> \in StrictSubsetOrdering(S))
    BY <2>2, <2>3, WFMin
  <2>. USE DEF T
  <2>5. PICK x \in U : TRUE
    BY <2>4
  <2>. DEFINE V == U \ {x}
  <2>6. V \notin T
    BY <2>4, <2>5 DEF StrictSubsetOrdering
  <2>7. CASE V = {}
    BY <2>4, <2>5, <2>7
  <2>8. CASE V # {}
    <3>1. PICK m \in V : \A k \in V : m >= k
      BY <2>4, <2>6, <2>8
    <3>2. CASE m >= x
      BY <2>4, <3>1, <3>2
    <3>3. CASE ~(m >= x)
      <4>1. \A k \in U : x >= k
        BY <2>4, <2>5, <3>1, <3>3
      <4>. QED BY <4>1, <2>4, <2>5
    <3>. QED BY <3>2, <3>3
  <2>. QED BY <2>7, <2>8
<1>. QED BY <1>1 DEF Max

\* Fewer elements, smaller cardinality.
LEMMA Fewer ==
    ASSUME NEW A, NEW B, IsFiniteSet(A), B \subseteq A
    PROVE  /\ IsFiniteSet(B) /\ Cardinality(A) \in Nat /\ Cardinality(B) \in Nat
           /\ Cardinality(B) <= Cardinality(A)
BY FS_Subset, FS_CardinalityType

\* At most one more element.
LEMMA OneMore ==
    ASSUME NEW A, NEW x, IsFiniteSet(A), NEW B, B \subseteq A \cup {x}
    PROVE  /\ IsFiniteSet(B) /\ Cardinality(A) \in Nat /\ Cardinality(B) \in Nat
           /\ Cardinality(B) <= Cardinality(A) + 1
<1>1. IsFiniteSet(A \cup {x}) /\ Cardinality(A \cup {x}) <= Cardinality(A) + 1 /\ Cardinality(A) \in Nat
  BY FS_AddElement, FS_CardinalityType
<1>. QED BY <1>1, Fewer

-----------------------------------------------------------------------------
(* The front desk: types, and that nothing comes back to an anonymised person. *)

\* Capacities are natural numbers.
LEMMA RoomIsNatural == FrontDeskTypeOK => \A s : RoomOf(s) \in Nat
<1>. SUFFICES ASSUME FrontDeskTypeOK, NEW s
              PROVE  RoomOf(s) \in Nat
  OBVIOUS
<1>. DEFINE ws == { x \in windows : x.slot = s }
            cs == { w.capacity : w \in ws }
            f  == [w \in ws |-> w.capacity]
<1>1. IsFiniteSet(ws)
  BY Fewer, FrontDeskAssumption DEF FrontDeskTypeOK
<1>2. f \in Surjection(ws, cs)
  BY DEF Surjection
<1>3. IsFiniteSet(cs)
  BY <1>1, <1>2, FS_Surjection
<1>4. cs \subseteq Nat
  BY FrontDeskAssumption DEF FrontDeskTypeOK
<1>5. cs # {} => Max(cs) \in Nat
  BY <1>3, <1>4, MaxOfFinite
<1>. QED BY <1>5 DEF RoomOf

\* The empty rows are rows.
LEMMA DeskNulls == NoWish \in WishType /\ NoVisit \in ErrandType /\ NoProtocol \in ProtocolType
BY DEF NoWish, NoVisit, NoProtocol, WishType, ErrandType, ProtocolType, WishKinds

\* Whoever is on the way has a person, and an upload a protocol.
ErrandsKnown ==
    /\ \A v \in Visitors : errand[v].at # "out" => errand[v].of \in Guests
    /\ \A u \in Uploaders : upload[u].at # "out" => upload[u].to \in ProtocolIds

DeskBase == FrontDeskTypeOK /\ ErrandsKnown /\ AnonymizedStaysEmpty

\* The inductive invariant holds at the start.
LEMMA DeskBaseStart == FrontDeskInit => DeskBase
<1>. SUFFICES ASSUME FrontDeskInit PROVE DeskBase
  OBVIOUS
<1>1. FrontDeskTypeOK
  <2>. USE DeskNulls DEF FrontDeskInit
  <2>1. upload \in [Uploaders -> [at : {"out", "shared", "counted"}, to : ProtocolIds \cup {0}]]
    BY DEF NoUpload
  <2>2. wish \in [WishIds -> WishType] /\ errand \in [Visitors -> ErrandType] /\ protocol \in [ProtocolIds -> ProtocolType]
    OBVIOUS
  <2>. QED BY <2>1, <2>2 DEF FrontDeskTypeOK, FrontDeskInit
<1>. QED BY <1>1 DEF FrontDeskInit, DeskBase, ErrandsKnown, AnonymizedStaysEmpty, NoVisit, NoUpload

\* It is kept by what the staff does to persons.
LEMMA PersonBase == DeskBase /\ PersonNext => DeskBase'
<1>. SUFFICES ASSUME DeskBase, NEW g \in Guests,
                     UpdatePerson(g) \/ CreatePortalLink(g) \/ LinkEnds(g) \/ AnonymizePerson(g) \/ ErasePerson(g)
              PROVE  DeskBase'
  BY DEF PersonNext
<1>. USE DeskNulls DEF DeskBase, FrontDeskTypeOK, ErrandsKnown, AnonymizedStaysEmpty
<1>1. CASE UpdatePerson(g)
  BY <1>1 DEF UpdatePerson
<1>2. CASE CreatePortalLink(g) \/ LinkEnds(g)
  BY <1>2 DEF CreatePortalLink, LinkEnds
<1>3. CASE AnonymizePerson(g)
  <2>1. wish' \in [WishIds -> WishType]
    <3>1. \A w \in WishIds : [wish[w] EXCEPT !.filled = FALSE] \in WishType
      BY DEF WishType
    <3>. QED BY <1>3, <3>1 DEF AnonymizePerson
  <2>2. protocol' \in [ProtocolIds -> ProtocolType]
    BY <1>3 DEF AnonymizePerson, ProtocolType
  <2>. QED BY <1>3, <2>1, <2>2 DEF AnonymizePerson
<1>4. CASE ErasePerson(g)
  BY <1>4 DEF ErasePerson
<1>. QED BY <1>1, <1>2, <1>3, <1>4

\* It is kept by what visitors of the portal do.
LEMMA PortalBase == DeskBase /\ PortalNext => DeskBase'
<1>. SUFFICES ASSUME DeskBase, PortalNext
              PROVE  DeskBase'
  OBVIOUS
<1>. USE DeskNulls DEF DeskBase, FrontDeskTypeOK, ErrandsKnown, AnonymizedStaysEmpty, gateVars
<1>1. ASSUME NEW v \in Visitors, NEW g \in Guests, NEW k \in WishKinds, NEW s \in PickupSlots \cup {NoSlot},
             KnockAtPortal(v, g, k, s)
      PROVE  DeskBase'
  <2>1. errand' \in [Visitors -> ErrandType]
    BY <1>1 DEF KnockAtPortal, ErrandType
  <2>. QED BY <1>1, <2>1 DEF KnockAtPortal
<1>2. ASSUME NEW v \in Visitors, Leaves(v), UNCHANGED <<guest, link, wish, windows, gateVars>>
      PROVE  DeskBase'
  BY <1>2 DEF Leaves, NoVisit
<1>3. ASSUME NEW v \in Visitors, CountOpenWishes(v) PROVE DeskBase'
  <2>1. CASE Leaves(v) BY <1>2, <1>3, <2>1 DEF CountOpenWishes
  <2>2. CASE errand' = [errand EXCEPT ![v].at = "counted"]
    <3>1. errand' \in [Visitors -> ErrandType]
      BY <2>2 DEF ErrandType
    <3>. QED BY <1>3, <2>2, <3>1 DEF CountOpenWishes, ErrandType
  <2>. QED BY <1>3, <2>1, <2>2 DEF CountOpenWishes
<1>4. ASSUME NEW v \in Visitors, SlotStillFree(v) PROVE DeskBase'
  <2>1. CASE errand' = [errand EXCEPT ![v] = NoVisit]
    BY <1>2, <1>4, <2>1 DEF SlotStillFree, Leaves
  <2>2. CASE errand' = [errand EXCEPT ![v].at = "slot", ![v].room = RoomOf(errand[v].slot)]
    <3>1. PICK n \in Nat : n = RoomOf(errand[v].slot)
      BY RoomIsNatural
    <3>a. PICK new : new = [errand[v] EXCEPT !.at = "slot", !.room = n]
      OBVIOUS
    <3>b. errand[v] \in ErrandType /\ new \in ErrandType
      BY <3>a DEF ErrandType
    <3>c. errand' = [errand EXCEPT ![v] = new]
      BY <2>2, <3>1, <3>a
    <3>2. errand' \in [Visitors -> ErrandType]
      BY <3>b, <3>c
    <3>. QED BY <1>4, <2>2, <3>2 DEF SlotStillFree, ErrandType
  <2>. QED BY <1>4, <2>1, <2>2 DEF SlotStillFree
<1>5. ASSUME NEW v \in Visitors, StoreWish(v) PROVE DeskBase'
  <2>1. errand[v] \in ErrandType
    OBVIOUS
  <2>2. [status |-> "offen", of |-> errand[v].of, kind |-> errand[v].kind, slot |-> errand[v].slot,
         filled |-> TRUE, room |-> errand[v].room] \in WishType
    BY <2>1 DEF ErrandType, WishType
  <2>3. wish' \in [WishIds -> WishType]
    BY <1>5, <2>2 DEF StoreWish, FreeWishes
  <2>. QED BY <1>5, <2>3 DEF StoreWish, Leaves, NoVisit
<1>6. ASSUME NEW w \in WishIds, ApplyWish(w) PROVE DeskBase'
  <2>1. wish' \in [WishIds -> WishType]
    <3>1. [wish[w] EXCEPT !.status = "erledigt"] \in WishType
      BY DEF WishType
    <3>. QED BY <1>6, <3>1 DEF ApplyWish
  <2>2. CASE ~wish[w].filled
    BY <1>6, <2>1, <2>2 DEF ApplyWish
  <2>3. CASE wish[w].filled
    <3>1. guest' = [guest EXCEPT ![wish[w].of].contact = "changed"]
      BY <1>6, <2>3 DEF ApplyWish
    <3>2. guest[wish[w].of].status # "anonymized"
      BY <1>6 DEF ApplyWish, MayApply
    <3>3. guest' \in [Guests -> [status : {"active", "anonymized", "gone"}, contact : {"given", "changed", "none"}]]
      <4>1. CASE wish[w].of \in Guests
        <5>1. [guest[wish[w].of] EXCEPT !.contact = "changed"]
                \in [status : {"active", "anonymized", "gone"}, contact : {"given", "changed", "none"}]
          BY <4>1
        <5>. QED BY <3>1, <4>1, <5>1
      <4>2. CASE wish[w].of \notin Guests
        BY <3>1, <4>2
      <4>. QED BY <4>1, <4>2
    <3>4. \A g \in Guests : guest'[g].status = "anonymized" => guest'[g].contact = "none"
      BY <3>1, <3>2
    <3>. QED BY <1>6, <2>1, <3>3, <3>4 DEF ApplyWish
  <2>. QED BY <2>2, <2>3
<1>7. ASSUME NEW w \in WishIds, NEW s \in {"erledigt", "abgelehnt"}, CloseWish(w, s) PROVE DeskBase'
  <2>1. wish' \in [WishIds -> WishType]
    <3>1. [wish[w] EXCEPT !.status = s] \in WishType
      BY DEF WishType
    <3>. QED BY <1>7, <3>1 DEF CloseWish
  <2>. QED BY <1>7, <2>1 DEF CloseWish
<1>8. ASSUME NEW v \in Visitors, AbortVisit(v) PROVE DeskBase'
  BY <1>2, <1>8 DEF AbortVisit
<1>9. ASSUME NEW ws \in SUBSET PickupWindows, SavePickupWindows(ws) PROVE DeskBase'
  BY <1>9 DEF SavePickupWindows
<1>. QED BY <1>1, <1>3, <1>4, <1>5, <1>6, <1>7, <1>8, <1>9 DEF PortalNext

\* It is kept by handovers and their photos.
LEMMA GateBase == DeskBase /\ GateNext => DeskBase'
<1>. SUFFICES ASSUME DeskBase, GateNext
              PROVE  DeskBase'
  OBVIOUS
<1>. USE DeskNulls DEF DeskBase, FrontDeskTypeOK, ErrandsKnown, AnonymizedStaysEmpty, portalVars
<1>1. ASSUME NEW g \in Guests, NEW b \in BOOLEAN, CreateHandover(g, b) PROVE DeskBase'
  <2>1. protocol' \in [ProtocolIds -> ProtocolType]
    BY <1>1 DEF CreateHandover, ProtocolType
  <2>. QED BY <1>1, <2>1 DEF CreateHandover
<1>2. ASSUME NEW h \in ProtocolIds, PhotosClose(h) PROVE DeskBase'
  <2>1. protocol' \in [ProtocolIds -> ProtocolType]
    BY <1>2 DEF PhotosClose, ProtocolType
  <2>. QED BY <1>2, <2>1 DEF PhotosClose
<1>3. ASSUME NEW h \in ProtocolIds, DeleteHandover(h) PROVE DeskBase'
  <2>1. [NoProtocol EXCEPT !.status = "deleted"] \in ProtocolType
    BY DEF NoProtocol, ProtocolType
  <2>2. protocol' \in [ProtocolIds -> ProtocolType]
    BY <1>3, <2>1 DEF DeleteHandover
  <2>. QED BY <1>3, <2>2 DEF DeleteHandover
<1>4. ASSUME NEW h \in ProtocolIds, NEW u \in Uploaders, ShareProtocol(u, h) PROVE DeskBase'
  BY <1>4 DEF ShareProtocol
<1>5. ASSUME NEW u \in Uploaders, CountPhotos(u) \/ AbortUpload(u) PROVE DeskBase'
  BY <1>5 DEF CountPhotos, AbortUpload, NoUpload
<1>6. ASSUME NEW u \in Uploaders, StorePhoto(u) PROVE DeskBase'
  <2>1. protocol' \in [ProtocolIds -> ProtocolType]
    <3>1. upload[u].to \in ProtocolIds
      BY <1>6 DEF StorePhoto
    <3>2. [protocol[upload[u].to] EXCEPT !.photos = @ + 1] \in ProtocolType
      BY <3>1 DEF ProtocolType
    <3>. QED BY <1>6, <3>1, <3>2 DEF StorePhoto
  <2>. QED BY <1>6, <2>1 DEF StorePhoto, NoUpload
<1>. QED BY <1>1, <1>2, <1>3, <1>4, <1>5, <1>6 DEF GateNext

\* It is kept by every step.
LEMMA DeskBaseStep == DeskBase /\ [FrontDeskNext]_deskVars => DeskBase'
<1>1. DeskBase /\ UNCHANGED deskVars => DeskBase'
  BY DEF deskVars, DeskBase, FrontDeskTypeOK, ErrandsKnown, AnonymizedStaysEmpty
<1>. QED BY <1>1, PersonBase, PortalBase, GateBase DEF FrontDeskNext

(* Nothing a customer handed in before, and no edit, brings contact data back to a   *)
(* person who was anonymised (ResolvePortalRequest, UpdatePerson, AnonymizePerson).  *)
THEOREM ForgottenForGood == FrontDeskSpec => [](FrontDeskTypeOK /\ AnonymizedStaysEmpty)
<1>1. DeskBase => FrontDeskTypeOK /\ AnonymizedStaysEmpty
  BY DEF DeskBase
<1>. QED BY <1>1, DeskBaseStart, DeskBaseStep, PTL DEF FrontDeskSpec
-----------------------------------------------------------------------------
(* Limits that are counted first and used up later.                          *)

Waits(v) == errand[v].at \in {"counted", "slot"}

\* Whoever has counted the open wishes of a person has room for one more, and
\* nobody else has counted them.
WishesHaveRoom ==
    /\ \A g \in Guests : Cardinality(OpenWishes(g)) <= MaxOpenWishes
    /\ \A v \in Visitors : Waits(v) => Cardinality(OpenWishes(errand[v].of)) < MaxOpenWishes
    /\ \A v, x \in Visitors : v # x /\ Waits(v) /\ Waits(x) => errand[v].of # errand[x].of

\* The same for the takers of a slot.  Of any set of them one found room for all:
\* the last to come.
SlotsHaveRoom ==
    /\ \A s \in PickupSlots : \A S \in SUBSET Holders(s) : S # {} => \E w \in S : Cardinality(S) <= wish[w].room
    /\ \A v \in Visitors : errand[v].at = "slot" => /\ errand[v].slot \in PickupSlots
                                                    /\ Cardinality(Holders(errand[v].slot)) < errand[v].room
    /\ \A v, x \in Visitors : v # x /\ errand[v].at = "slot" /\ errand[x].at = "slot" => errand[v].slot # errand[x].slot

PhotosHaveRoom ==
    /\ \A h \in ProtocolIds : protocol[h].photos <= MaxPhotos
    /\ \A u \in Uploaders : upload[u].at = "counted" => protocol[upload[u].to].photos < MaxPhotos
    /\ \A u, x \in Uploaders : u # x /\ upload[u].at = "counted" /\ upload[x].at = "counted" => upload[u].to # upload[x].to

CapacityInv == WishesHaveRoom /\ SlotsHaveRoom /\ PhotosHaveRoom

\* What is counted is finite.
LEMMA WishesFinite ==
    /\ \A g : IsFiniteSet(OpenWishes(g)) /\ Cardinality(OpenWishes(g)) \in Nat
    /\ \A s : IsFiniteSet(Holders(s)) /\ Cardinality(Holders(s)) \in Nat
<1>1. \A g : OpenWishes(g) \subseteq WishIds
  BY DEF OpenWishes
<1>2. \A s : Holders(s) \subseteq WishIds
  BY DEF Holders
<1>. QED BY <1>1, <1>2, FrontDeskAssumption, Fewer

\* The same after a step.
LEMMA WishesFiniteNext ==
    /\ \A g : IsFiniteSet(OpenWishes(g)') /\ Cardinality(OpenWishes(g)') \in Nat
    /\ \A s : IsFiniteSet(Holders(s)') /\ Cardinality(Holders(s)') \in Nat
<1>1. \A g : OpenWishes(g)' \subseteq WishIds
  BY DEF OpenWishes
<1>2. \A s : Holders(s)' \subseteq WishIds
  BY DEF Holders
<1>. QED BY <1>1, <1>2, FrontDeskAssumption, Fewer

\* The limits hold at the start.
LEMMA CapacityStart == FrontDeskInit => CapacityInv
<1>. SUFFICES ASSUME FrontDeskInit PROVE CapacityInv
  OBVIOUS
<1>1. \A g : OpenWishes(g) = {}
  BY DEF FrontDeskInit, OpenWishes, NoWish
<1>2. \A s : Holders(s) = {}
  BY DEF FrontDeskInit, Holders, NoWish
<1>3. WishesHaveRoom
  <2>1. \A g : Cardinality(OpenWishes(g)) = 0
    BY <1>1, FS_EmptySet
  <2>2. \A v \in Visitors : ~Waits(v)
    BY DEF FrontDeskInit, Waits, NoVisit
  <2>. QED BY <2>1, <2>2, FrontDeskAssumption DEF WishesHaveRoom
<1>4. SlotsHaveRoom
  BY <1>2 DEF FrontDeskInit, SlotsHaveRoom, NoVisit
<1>5. PhotosHaveRoom
  BY FrontDeskAssumption DEF FrontDeskInit, PhotosHaveRoom, NoProtocol, NoUpload
<1>. QED BY <1>3, <1>4, <1>5 DEF CapacityInv

\* Wishes that are closed, emptied or dropped, and visitors that leave or arrive.
WishesShrink == /\ \A g : OpenWishes(g)' \subseteq OpenWishes(g)
                /\ \A s : Holders(s)' \subseteq Holders(s)
                /\ \A s : \A w \in Holders(s)' : wish'[w].room = wish[w].room

\* Steps that add no wish leave room where there was room.
LEMMA FewerWishes ==
    ASSUME FrontDeskTypeOK, WishesHaveRoom, SlotsHaveRoom, WishesShrink,
           \A v \in Visitors : errand'[v] = errand[v] \/ errand'[v].at \in {"out", "door"}
    PROVE  WishesHaveRoom' /\ SlotsHaveRoom'
<1>1. \A g : Cardinality(OpenWishes(g)') <= Cardinality(OpenWishes(g))
  BY WishesFinite, Fewer DEF WishesShrink
<1>2. \A s : Cardinality(Holders(s)') <= Cardinality(Holders(s))
  BY WishesFinite, Fewer DEF WishesShrink
<1>3. WishesHaveRoom'
  <2>1. \A g \in Guests : Cardinality(OpenWishes(g)') <= MaxOpenWishes
    BY <1>1, WishesFinite, WishesFiniteNext, FrontDeskAssumption DEF WishesHaveRoom
  <2>2. \A v \in Visitors : Waits(v)' => Waits(v) /\ errand'[v] = errand[v]
    BY DEF Waits
  <2>3. \A v \in Visitors : Waits(v)' => Cardinality(OpenWishes(errand[v].of))' < MaxOpenWishes
    BY <1>1, <2>2, WishesFinite, WishesFiniteNext, FrontDeskAssumption DEF WishesHaveRoom
  <2>. QED BY <2>1, <2>2, <2>3 DEF WishesHaveRoom
<1>4. SlotsHaveRoom'
  <2>1. \A v \in Visitors : errand'[v].at = "slot" => errand'[v] = errand[v]
    OBVIOUS
  <2>2. ASSUME NEW s \in PickupSlots, NEW S \in SUBSET (Holders(s)'), S # {}
        PROVE  \E w \in S : Cardinality(S) <= wish'[w].room
    <3>1. S \in SUBSET Holders(s)
      BY <2>2 DEF WishesShrink
    <3>2. PICK w \in S : Cardinality(S) <= wish[w].room
      BY <2>2, <3>1 DEF SlotsHaveRoom
    <3>. QED BY <3>2, <2>2 DEF WishesShrink
  <2>3. ASSUME NEW v \in Visitors, errand'[v].at = "slot"
        PROVE  /\ errand'[v].slot \in PickupSlots
               /\ Cardinality(Holders(errand[v].slot))' < errand'[v].room
    <3>1. Cardinality(Holders(errand[v].slot)) < errand[v].room /\ errand[v].slot \in PickupSlots
      BY <2>1, <2>3 DEF SlotsHaveRoom
    <3>2. errand[v].room \in Nat
      BY DEF FrontDeskTypeOK, ErrandType
    <3>3. ASSUME NEW s, s = errand[v].slot
          PROVE  Cardinality(Holders(s)') < errand[v].room
      BY <1>2, <3>1, <3>2, <3>3, WishesFinite, WishesFiniteNext
    <3>. QED BY <2>1, <2>3, <3>1, <3>3
  <2>. QED BY <2>1, <2>2, <2>3 DEF SlotsHaveRoom
<1>. QED BY <1>3, <1>4
\* Counting: room was seen, and the lock kept everybody else from seeing it.
LEMMA CountsWishes ==
    ASSUME DeskBase, WishesHaveRoom, SlotsHaveRoom, NEW v \in Visitors, CountOpenWishes(v)
    PROVE  WishesHaveRoom' /\ SlotsHaveRoom'
<1>1. CASE Leaves(v)
  <2>1. WishesShrink
    BY <1>1 DEF CountOpenWishes, WishesShrink, OpenWishes, Holders
  <2>2. \A x \in Visitors : errand'[x] = errand[x] \/ errand'[x].at \in {"out", "door"}
    BY <1>1 DEF Leaves, NoVisit, DeskBase, FrontDeskTypeOK
  <2>. QED BY <2>1, <2>2, FewerWishes DEF DeskBase
<1>2. CASE /\ errand' = [errand EXCEPT ![v].at = "counted"]
           /\ ~(Cardinality(OpenWishes(errand[v].of)) >= MaxOpenWishes)
  <2>1. wish' = wish /\ errand[v].at = "door" /\ PersonLockFree(v) /\ errand \in [Visitors -> ErrandType]
    BY <1>2 DEF CountOpenWishes, DeskBase, FrontDeskTypeOK
  <2>2. \A x \in Visitors : /\ errand'[x].of = errand[x].of /\ errand'[x].slot = errand[x].slot /\ errand'[x].room = errand[x].room
                            /\ errand'[x].at = IF x = v THEN "counted" ELSE errand[x].at
    BY <1>2, <2>1 DEF ErrandType
  <2>3. (\A g : OpenWishes(g)' = OpenWishes(g)) /\ (\A s : Holders(s)' = Holders(s))
    BY <2>1 DEF OpenWishes, Holders
  <2>4. Cardinality(OpenWishes(errand[v].of)) < MaxOpenWishes
    BY <1>2, WishesFinite, FrontDeskAssumption
  <2>5. \A x \in Visitors : Waits(x)' <=> x = v \/ Waits(x)
    BY <2>2 DEF Waits
  <2>6. ASSUME NEW x \in Visitors, Waits(x)', NEW g, g = errand'[x].of
        PROVE  Cardinality(OpenWishes(g)') < MaxOpenWishes
    BY <2>2, <2>3, <2>4, <2>5, <2>6 DEF WishesHaveRoom
  <2>7. \A x, y \in Visitors : x # y /\ Waits(x)' /\ Waits(y)' => errand'[x].of # errand'[y].of
    BY <2>1, <2>2, <2>5 DEF WishesHaveRoom, PersonLockFree, Waits
  <2>8. WishesHaveRoom'
    BY <2>3, <2>6, <2>7 DEF WishesHaveRoom
  <2>9. ASSUME NEW x \in Visitors, errand'[x].at = "slot"
        PROVE  x # v /\ errand[x].at = "slot" /\ errand'[x].slot \in PickupSlots
    BY <2>2, <2>9 DEF SlotsHaveRoom
  <2>10. ASSUME NEW x \in Visitors, errand'[x].at = "slot", NEW s, s = errand'[x].slot
         PROVE  Cardinality(Holders(s)') < errand'[x].room
    BY <2>2, <2>3, <2>9, <2>10 DEF SlotsHaveRoom
  <2>11. \A s \in PickupSlots : \A S \in SUBSET (Holders(s)') : S # {} => \E w \in S : Cardinality(S) <= wish'[w].room
    BY <2>1, <2>3 DEF SlotsHaveRoom
  <2>12. SlotsHaveRoom'
    BY <2>2, <2>9, <2>10, <2>11 DEF SlotsHaveRoom
  <2>. QED BY <2>8, <2>12
<1>. QED BY <1>1, <1>2 DEF CountOpenWishes

\* A visitor finds the slot free and takes its lock.
LEMMA CountsSlot ==
    ASSUME DeskBase, WishesHaveRoom, SlotsHaveRoom, NEW v \in Visitors, SlotStillFree(v)
    PROVE  WishesHaveRoom' /\ SlotsHaveRoom'
<1>. DEFINE sl == errand[v].slot
<1>0. wish' = wish /\ errand[v].at = "counted" /\ sl # NoSlot /\ SlotLockFree(v) /\ errand \in [Visitors -> ErrandType]
  BY DEF SlotStillFree, DeskBase, FrontDeskTypeOK
<1>1. CASE errand' = [errand EXCEPT ![v] = NoVisit]
  <2>1. WishesShrink
    BY <1>0 DEF WishesShrink, OpenWishes, Holders
  <2>2. \A x \in Visitors : errand'[x] = errand[x] \/ errand'[x].at \in {"out", "door"}
    BY <1>0, <1>1 DEF NoVisit
  <2>. QED BY <2>1, <2>2, FewerWishes DEF DeskBase
<1>2. CASE /\ errand' = [errand EXCEPT ![v].at = "slot", ![v].room = RoomOf(sl)]
           /\ Cardinality(Holders(sl)) < RoomOf(sl)
  <2>1. RoomOf(sl) \in Nat
    BY RoomIsNatural DEF DeskBase
  <2>2. \A x \in Visitors : /\ errand'[x].of = errand[x].of /\ errand'[x].slot = errand[x].slot
                            /\ errand'[x].room = IF x = v THEN RoomOf(sl) ELSE errand[x].room
                            /\ errand'[x].at = IF x = v THEN "slot" ELSE errand[x].at
    BY <1>0, <1>2 DEF ErrandType
  <2>3. (\A g : OpenWishes(g)' = OpenWishes(g)) /\ (\A s : Holders(s)' = Holders(s))
    BY <1>0 DEF OpenWishes, Holders
  <2>4. \A x \in Visitors : Waits(x)' <=> Waits(x)
    BY <1>0, <2>2 DEF Waits
  <2>5. ASSUME NEW x \in Visitors, Waits(x)', NEW g, g = errand'[x].of
        PROVE  Cardinality(OpenWishes(g)') < MaxOpenWishes
    BY <2>2, <2>3, <2>4, <2>5 DEF WishesHaveRoom
  <2>6. WishesHaveRoom'
    BY <2>2, <2>3, <2>4, <2>5 DEF WishesHaveRoom
  <2>7. sl \in PickupSlots
    BY <1>0 DEF ErrandType
  <2>8. ASSUME NEW x \in Visitors, errand'[x].at = "slot", NEW s, s = errand'[x].slot
        PROVE  s \in PickupSlots /\ Cardinality(Holders(s)') < errand'[x].room
    <3>1. CASE x = v
      BY <1>2, <2>2, <2>3, <2>7, <2>8, <3>1
    <3>2. CASE x # v
      BY <2>2, <2>3, <2>8, <3>2 DEF SlotsHaveRoom
    <3>. QED BY <3>1, <3>2
  <2>9. \A x, y \in Visitors : x # y /\ errand'[x].at = "slot" /\ errand'[y].at = "slot" => errand'[x].slot # errand'[y].slot
    BY <1>0, <2>2 DEF SlotsHaveRoom, SlotLockFree
  <2>10. \A s \in PickupSlots : \A S \in SUBSET (Holders(s)') : S # {} => \E w \in S : Cardinality(S) <= wish'[w].room
    BY <1>0, <2>3 DEF SlotsHaveRoom
  <2>11. SlotsHaveRoom'
    BY <2>8, <2>9, <2>10 DEF SlotsHaveRoom
  <2>. QED BY <2>6, <2>11
<1>. QED BY <1>1, <1>2 DEF SlotStillFree

\* Storing: the new wish takes the room that was counted.
LEMMA StoresWish ==
    ASSUME DeskBase, WishesHaveRoom, SlotsHaveRoom, NEW v \in Visitors, StoreWish(v)
    PROVE  WishesHaveRoom' /\ SlotsHaveRoom'
<1>. DEFINE e == errand[v]
<1>0. errand \in [Visitors -> ErrandType] /\ e \in ErrandType /\ wish \in [WishIds -> WishType]
  BY DEF DeskBase, FrontDeskTypeOK
<1>1. \A x \in Visitors : errand'[x] = IF x = v THEN NoVisit ELSE errand[x]
  BY <1>0 DEF StoreWish, Leaves
<1>2. \A x \in Visitors : errand'[x] = errand[x] \/ errand'[x].at \in {"out", "door"}
  BY <1>1 DEF NoVisit
<1>3. CASE UNCHANGED wish
  <2>1. WishesShrink
    BY <1>3 DEF WishesShrink, OpenWishes, Holders
  <2>. QED BY <2>1, <1>2, FewerWishes DEF DeskBase
<1>4. ASSUME NEW w \in FreeWishes,
             wish' = [wish EXCEPT ![w] = [status |-> "offen", of |-> e.of, kind |-> e.kind,
                                          slot |-> e.slot, filled |-> TRUE, room |-> e.room]]
      PROVE  WishesHaveRoom' /\ SlotsHaveRoom'
  <2>1. w \in WishIds /\ wish[w].status = "none"
    BY DEF FreeWishes
  <2>2. /\ \A x \in WishIds \ {w} : wish'[x] = wish[x]
        /\ wish'[w].of = e.of /\ wish'[w].slot = e.slot /\ wish'[w].room = e.room
    BY <1>0, <1>4, <2>1
  <2>3. Waits(v) /\ e.of \in Guests
    BY DEF StoreWish, Waits, DeskBase, ErrandsKnown
  <2>4. ASSUME NEW g
        PROVE  /\ OpenWishes(g)' \subseteq OpenWishes(g) \cup {w}
               /\ g # e.of => OpenWishes(g)' = OpenWishes(g)
    BY <2>1, <2>2 DEF OpenWishes
  <2>5. ASSUME NEW g \in Guests PROVE Cardinality(OpenWishes(g)') <= MaxOpenWishes
    <3>1. CASE g # e.of
      BY <2>4, <3>1 DEF WishesHaveRoom
    <3>2. CASE g = e.of
      <4>1. Cardinality(OpenWishes(g)) < MaxOpenWishes
        BY <2>3, <3>2 DEF WishesHaveRoom
      <4>2. Cardinality(OpenWishes(g)') <= Cardinality(OpenWishes(g)) + 1
        BY <2>4, WishesFinite, OneMore
      <4>. QED BY <4>1, <4>2, WishesFinite, WishesFiniteNext, FrontDeskAssumption
    <3>. QED BY <3>1, <3>2
  <2>6. \A x \in Visitors : Waits(x)' => x # v /\ Waits(x) /\ errand'[x] = errand[x]
    BY <1>1 DEF Waits, NoVisit
  <2>7. ASSUME NEW x \in Visitors, Waits(x)', NEW g, g = errand'[x].of
        PROVE  Cardinality(OpenWishes(g)') < MaxOpenWishes
    <3>1. g # e.of
      BY <2>3, <2>6, <2>7 DEF WishesHaveRoom
    <3>2. OpenWishes(g)' = OpenWishes(g)
      BY <2>4, <3>1
    <3>. QED BY <2>6, <2>7, <3>2 DEF WishesHaveRoom
  <2>8. WishesHaveRoom'
    BY <2>5, <2>6, <2>7 DEF WishesHaveRoom
  <2>9. ASSUME NEW s \in PickupSlots
        PROVE  /\ Holders(s)' \subseteq Holders(s) \cup {w}
               /\ s # e.slot => Holders(s)' = Holders(s)
    BY <2>1, <2>2 DEF Holders
  <2>10. e.slot \in PickupSlots => e.at = "slot"
    BY FrontDeskAssumption DEF StoreWish, PickupSlots
  <2>11. ASSUME NEW s \in PickupSlots, NEW S \in SUBSET (Holders(s)'), S # {}
         PROVE  \E x \in S : Cardinality(S) <= wish'[x].room
    <3>1. CASE w \notin S
      <4>1. S \in SUBSET Holders(s) /\ S \subseteq WishIds
        BY <2>9, <3>1 DEF Holders
      <4>2. PICK x \in S : Cardinality(S) <= wish[x].room
        BY <2>11, <4>1 DEF SlotsHaveRoom
      <4>. QED BY <2>2, <3>1, <4>1, <4>2
    <3>2. CASE w \in S /\ s # e.slot
      BY <2>1, <2>9, <3>2 DEF Holders
    <3>3. CASE w \in S /\ s = e.slot
      <4>1. Cardinality(Holders(s)) < e.room
        BY <2>10, <3>3 DEF SlotsHaveRoom
      <4>2. Cardinality(S) <= Cardinality(Holders(s)) + 1 /\ Cardinality(S) \in Nat
        BY <2>9, WishesFinite, OneMore
      <4>3. e.room \in Nat
        BY <1>0 DEF ErrandType
      <4>. QED BY <2>2, <3>3, <4>1, <4>2, <4>3, WishesFinite
    <3>. QED BY <3>1, <3>2, <3>3
  <2>12. ASSUME NEW x \in Visitors, errand'[x].at = "slot", NEW s, s = errand'[x].slot
         PROVE  s \in PickupSlots /\ Cardinality(Holders(s)') < errand'[x].room
    <3>1. x # v /\ errand'[x] = errand[x]
      BY <1>1, <2>12 DEF NoVisit
    <3>2. s \in PickupSlots /\ Cardinality(Holders(s)) < errand[x].room
      BY <2>12, <3>1 DEF SlotsHaveRoom
    <3>3. s # e.slot
      BY <2>10, <2>12, <3>1, <3>2 DEF SlotsHaveRoom
    <3>. QED BY <2>9, <3>1, <3>2, <3>3
  <2>13. SlotsHaveRoom'
    BY <1>1, <2>11, <2>12 DEF SlotsHaveRoom, NoVisit
  <2>. QED BY <2>8, <2>13
<1>. QED BY <1>3, <1>4 DEF StoreWish

-----------------------------------------------------------------------------
\* Every step of the portal but the count of a slot and the insert.
LEMMA OtherWishSteps ==
    ASSUME DeskBase, WishesHaveRoom, SlotsHaveRoom,
           \/ PersonNext
           \/ GateNext
           \/ \E v \in Visitors, g \in Guests, k \in WishKinds, s \in PickupSlots \cup {NoSlot} : KnockAtPortal(v, g, k, s)
           \/ \E v \in Visitors : AbortVisit(v)
           \/ \E w \in WishIds : ApplyWish(w) \/ \E s \in {"erledigt", "abgelehnt"} : CloseWish(w, s)
           \/ \E ws \in SUBSET PickupWindows : SavePickupWindows(ws)
           \/ UNCHANGED deskVars
    PROVE  WishesHaveRoom' /\ SlotsHaveRoom'
<1>0. errand \in [Visitors -> ErrandType] /\ wish \in [WishIds -> WishType]
  BY DEF DeskBase, FrontDeskTypeOK
<1>1. ASSUME UNCHANGED wish PROVE WishesShrink
  BY <1>1 DEF WishesShrink, OpenWishes, Holders
<1>2. ASSUME NEW g \in Guests, UpdatePerson(g) \/ CreatePortalLink(g) \/ LinkEnds(g) PROVE WishesShrink /\ UNCHANGED errand
  BY <1>1, <1>2 DEF UpdatePerson, CreatePortalLink, LinkEnds
<1>3. ASSUME NEW g \in Guests, AnonymizePerson(g) PROVE WishesShrink /\ UNCHANGED errand
  <2>1. \A w \in WishIds : /\ wish'[w].status = wish[w].status /\ wish'[w].of = wish[w].of /\ wish'[w].kind = wish[w].kind
                           /\ wish'[w].slot = wish[w].slot /\ wish'[w].room = wish[w].room
                           /\ wish'[w].filled => wish[w].filled
    BY <1>0, <1>3 DEF AnonymizePerson, WishType
  <2>. QED BY <1>3, <2>1 DEF AnonymizePerson, WishesShrink, OpenWishes, Holders
<1>4. ASSUME NEW g \in Guests, ErasePerson(g) PROVE WishesShrink /\ UNCHANGED errand
  <2>1. \A w \in WishIds : wish'[w] = wish[w] \/ wish'[w].status = "none"
    BY <1>0, <1>4 DEF ErasePerson, NoWish
  <2>. QED BY <1>4, <2>1 DEF ErasePerson, WishesShrink, OpenWishes, Holders
<1>5. ASSUME NEW w \in WishIds, NEW s \in {"erledigt", "abgelehnt"}, wish[w].status = "offen",
             wish' = [wish EXCEPT ![w].status = s], UNCHANGED errand
      PROVE  WishesShrink /\ UNCHANGED errand
  <2>1. \A x \in WishIds : /\ wish'[x].of = wish[x].of /\ wish'[x].kind = wish[x].kind /\ wish'[x].filled = wish[x].filled
                           /\ wish'[x].slot = wish[x].slot /\ wish'[x].room = wish[x].room
                           /\ wish'[x].status = IF x = w THEN s ELSE wish[x].status
    BY <1>0, <1>5 DEF WishType
  <2>. QED BY <1>5, <2>1 DEF WishesShrink, OpenWishes, Holders
<1>6. ASSUME NEW w \in WishIds, ApplyWish(w) \/ \E s \in {"erledigt", "abgelehnt"} : CloseWish(w, s)
      PROVE  WishesShrink /\ UNCHANGED errand
  BY <1>5, <1>6 DEF ApplyWish, CloseWish
<1>7. ASSUME NEW ws \in SUBSET PickupWindows, SavePickupWindows(ws) PROVE WishesShrink /\ UNCHANGED errand
  BY <1>1, <1>7 DEF SavePickupWindows
<1>8. ASSUME GateNext \/ UNCHANGED deskVars PROVE WishesShrink /\ UNCHANGED errand
  BY <1>1, <1>8 DEF GateNext, CreateHandover, PhotosClose, DeleteHandover, ShareProtocol, CountPhotos, StorePhoto,
                    AbortUpload, portalVars, deskVars
<1>9. ASSUME NEW v \in Visitors, AbortVisit(v) \/ (\E g \in Guests, k \in WishKinds, s \in PickupSlots \cup {NoSlot} : KnockAtPortal(v, g, k, s))
      PROVE  WishesShrink /\ \A x \in Visitors : errand'[x] = errand[x] \/ errand'[x].at \in {"out", "door"}
  <2>1. WishesShrink
    BY <1>1, <1>9 DEF AbortVisit, KnockAtPortal
  <2>2. errand'[v].at \in {"out", "door"} /\ \A x \in Visitors \ {v} : errand'[x] = errand[x]
    BY <1>0, <1>9 DEF AbortVisit, KnockAtPortal, Leaves, NoVisit
  <2>. QED BY <2>1, <2>2
<1>10. WishesShrink /\ \A x \in Visitors : errand'[x] = errand[x] \/ errand'[x].at \in {"out", "door"}
  BY <1>2, <1>3, <1>4, <1>6, <1>7, <1>8, <1>9 DEF PersonNext
<1>. QED BY <1>10, FewerWishes DEF DeskBase

\* Photos: whoever has counted them adds one at most, and is alone.
LEMMA PhotoSteps ==
    ASSUME DeskBase, PhotosHaveRoom, [FrontDeskNext]_deskVars
    PROVE  PhotosHaveRoom'
<1>0. /\ protocol \in [ProtocolIds -> ProtocolType] /\ upload \in [Uploaders -> [at : {"out", "shared", "counted"}, to : ProtocolIds \cup {0}]]
      /\ \A u \in Uploaders : upload[u].at # "out" => upload[u].to \in ProtocolIds
      /\ \A h \in ProtocolIds : protocol[h].photos \in Nat
      /\ MaxPhotos \in Nat
  BY FrontDeskAssumption DEF DeskBase, FrontDeskTypeOK, ErrandsKnown, ProtocolType
<1>1. ASSUME \A h \in ProtocolIds : protocol'[h].photos = protocol[h].photos \/ protocol'[h].photos = 0,
             \A u \in Uploaders : upload'[u] = upload[u] \/ upload'[u].at \in {"out", "shared"}
      PROVE  PhotosHaveRoom'
  <2>1. \A h \in ProtocolIds : protocol'[h].photos <= protocol[h].photos /\ protocol'[h].photos \in Nat
    BY <1>0, <1>1
  <2>2. \A h \in ProtocolIds : protocol'[h].photos <= MaxPhotos
    BY <1>0, <2>1 DEF PhotosHaveRoom
  <2>3. ASSUME NEW u \in Uploaders, upload'[u].at = "counted"
        PROVE  protocol'[upload'[u].to].photos < MaxPhotos
    <3>1. upload'[u] = upload[u] /\ upload[u].to \in ProtocolIds
      BY <1>0, <1>1, <2>3
    <3>2. protocol[upload[u].to].photos < MaxPhotos
      BY <2>3, <3>1 DEF PhotosHaveRoom
    <3>. QED BY <1>0, <2>1, <3>1, <3>2
  <2>4. \A u, x \in Uploaders : u # x /\ upload'[u].at = "counted" /\ upload'[x].at = "counted" => upload'[u].to # upload'[x].to
    BY <1>1 DEF PhotosHaveRoom
  <2>. QED BY <2>2, <2>3, <2>4 DEF PhotosHaveRoom
<1>2. CASE PersonNext \/ PortalNext \/ UNCHANGED deskVars
  <2>1. upload' = upload
    BY <1>2 DEF PersonNext, PortalNext, deskVars, gateVars, UpdatePerson, CreatePortalLink, LinkEnds, AnonymizePerson, ErasePerson,
                KnockAtPortal, CountOpenWishes, SlotStillFree, StoreWish, AbortVisit, ApplyWish, CloseWish, SavePickupWindows
  <2>2. \A h \in ProtocolIds : protocol'[h].photos = protocol[h].photos
    <3>1. ASSUME NEW g \in Guests, AnonymizePerson(g)
          PROVE  \A h \in ProtocolIds : protocol'[h].photos = protocol[h].photos
      BY <1>0, <3>1 DEF AnonymizePerson, ProtocolType
    <3>2. CASE protocol' = protocol
      BY <3>2
    <3>. QED BY <1>2, <3>1, <3>2 DEF PersonNext, PortalNext, deskVars, gateVars, UpdatePerson, CreatePortalLink, LinkEnds, ErasePerson,
                KnockAtPortal, CountOpenWishes, SlotStillFree, StoreWish, AbortVisit, ApplyWish, CloseWish, SavePickupWindows
  <2>. QED BY <1>1, <2>1, <2>2
<1>3. ASSUME NEW g \in Guests, NEW b \in BOOLEAN, CreateHandover(g, b) PROVE PhotosHaveRoom'
  BY <1>0, <1>1, <1>3 DEF CreateHandover
<1>4. ASSUME NEW h \in ProtocolIds, PhotosClose(h) \/ DeleteHandover(h) PROVE PhotosHaveRoom'
  <2>1. \A x \in ProtocolIds : protocol'[x].photos = protocol[x].photos \/ protocol'[x].photos = 0
    BY <1>0, <1>4 DEF PhotosClose, DeleteHandover, NoProtocol, ProtocolType
  <2>. QED BY <1>1, <1>4, <2>1 DEF PhotosClose, DeleteHandover
<1>5. ASSUME NEW h \in ProtocolIds, NEW u \in Uploaders, ShareProtocol(u, h) PROVE PhotosHaveRoom'
  <2>1. upload'[u].at = "shared" /\ \A x \in Uploaders \ {u} : upload'[x] = upload[x]
    BY <1>0, <1>5 DEF ShareProtocol
  <2>. QED BY <1>1, <1>5, <2>1 DEF ShareProtocol
<1>6. ASSUME NEW u \in Uploaders, upload' = [upload EXCEPT ![u] = NoUpload], UNCHANGED protocol PROVE PhotosHaveRoom'
  <2>1. upload'[u].at = "out" /\ \A x \in Uploaders \ {u} : upload'[x] = upload[x]
    BY <1>0, <1>6 DEF NoUpload
  <2>. QED BY <1>1, <1>6, <2>1
<1>7. ASSUME NEW u \in Uploaders, CountPhotos(u) PROVE PhotosHaveRoom'
  <2>1. CASE upload' = [upload EXCEPT ![u] = NoUpload]
    BY <1>6, <1>7, <2>1 DEF CountPhotos
  <2>2. CASE /\ upload' = [upload EXCEPT ![u].at = "counted"]
             /\ ~(protocol[upload[u].to].photos >= MaxPhotos)
    <3>1. /\ \A x \in Uploaders : upload'[x].to = upload[x].to /\ upload'[x].at = IF x = u THEN "counted" ELSE upload[x].at
          /\ protocol' = protocol
      BY <1>0, <1>7, <2>2 DEF CountPhotos
    <3>2. upload[u].to \in ProtocolIds /\ protocol[upload[u].to].photos < MaxPhotos
      BY <1>0, <1>7, <2>2 DEF CountPhotos
    <3>3. \A x \in Uploaders : upload'[x].at = "counted" => protocol[upload[x].to].photos < MaxPhotos
      BY <3>1, <3>2 DEF PhotosHaveRoom
    <3>4. \A x, y \in Uploaders : x # y /\ upload'[x].at = "counted" /\ upload'[y].at = "counted" => upload[x].to # upload[y].to
      BY <1>7, <3>1 DEF CountPhotos, PhotoLockFree, PhotosHaveRoom
    <3>. QED BY <3>1, <3>3, <3>4 DEF PhotosHaveRoom
  <2>. QED BY <1>7, <2>1, <2>2 DEF CountPhotos
<1>8. ASSUME NEW u \in Uploaders, StorePhoto(u) PROVE PhotosHaveRoom'
  <2>. DEFINE p == upload[u].to
  <2>1. p \in ProtocolIds /\ protocol[p].photos < MaxPhotos
    BY <1>0, <1>8 DEF StorePhoto, PhotosHaveRoom
  <2>2. \A h \in ProtocolIds : protocol'[h].photos = IF h = p THEN protocol[h].photos + 1 ELSE protocol[h].photos
    BY <1>0, <1>8 DEF StorePhoto, ProtocolType
  <2>3. \A x \in Uploaders : upload'[x].at = "counted" => x # u /\ upload'[x] = upload[x]
    BY <1>0, <1>8 DEF StorePhoto, NoUpload
  <2>4. \A h \in ProtocolIds : protocol'[h].photos <= MaxPhotos
    BY <1>0, <2>1, <2>2 DEF PhotosHaveRoom
  <2>5. ASSUME NEW x \in Uploaders, upload'[x].at = "counted"
        PROVE  protocol'[upload'[x].to].photos < MaxPhotos
    <3>1. x # u /\ upload'[x] = upload[x] /\ upload[x].to # p /\ upload[x].to \in ProtocolIds
      BY <1>0, <1>8, <2>3, <2>5 DEF StorePhoto, PhotosHaveRoom
    <3>. QED BY <2>2, <2>5, <3>1 DEF PhotosHaveRoom
  <2>6. \A x, y \in Uploaders : x # y /\ upload'[x].at = "counted" /\ upload'[y].at = "counted" => upload'[x].to # upload'[y].to
    BY <2>3 DEF PhotosHaveRoom
  <2>. QED BY <2>4, <2>5, <2>6 DEF PhotosHaveRoom
<1>9. ASSUME NEW u \in Uploaders, AbortUpload(u) PROVE PhotosHaveRoom'
  BY <1>6, <1>9 DEF AbortUpload
<1>. QED BY <1>2, <1>3, <1>4, <1>5, <1>7, <1>8, <1>9 DEF FrontDeskNext, GateNext

\* The room is kept by every step.
LEMMA CapacityStep == DeskBase /\ CapacityInv /\ [FrontDeskNext]_deskVars => CapacityInv'
<1>. SUFFICES ASSUME DeskBase, CapacityInv, [FrontDeskNext]_deskVars
              PROVE  CapacityInv'
  OBVIOUS
<1>1. PhotosHaveRoom'
  BY PhotoSteps DEF CapacityInv
<1>2. WishesHaveRoom' /\ SlotsHaveRoom'
  <2>1. WishesHaveRoom /\ SlotsHaveRoom
    BY DEF CapacityInv
  <2>2. ASSUME NEW v \in Visitors, CountOpenWishes(v) \/ SlotStillFree(v) \/ StoreWish(v)
        PROVE  WishesHaveRoom' /\ SlotsHaveRoom'
    BY <2>1, <2>2, CountsWishes, CountsSlot, StoresWish
  <2>3. CASE PersonNext \/ GateNext \/ UNCHANGED deskVars
    BY <2>1, <2>3, OtherWishSteps
  <2>4. CASE PortalNext
    BY <2>1, <2>2, <2>4, OtherWishSteps DEF PortalNext
  <2>. QED BY <2>3, <2>4 DEF FrontDeskNext
<1>. QED BY <1>1, <1>2 DEF CapacityInv

\* Who has room keeps to the limit.
LEMMA CapacityHolds == DeskBase /\ CapacityInv => WithinCapacity
<1>. SUFFICES ASSUME DeskBase, CapacityInv
              PROVE  WithinCapacity
  OBVIOUS
<1>1. ASSUME NEW s \in PickupSlots, Holders(s) # {}
      PROVE  Cardinality(Holders(s)) <= Max({ wish[w].room : w \in Holders(s) })
  <2>. DEFINE hs == Holders(s)
              rs == { wish[w].room : w \in hs }
              f  == [w \in hs |-> wish[w].room]
  <2>1. IsFiniteSet(hs) /\ Cardinality(hs) \in Nat
    BY WishesFinite
  <2>2. f \in Surjection(hs, rs)
    BY DEF Surjection
  <2>3. IsFiniteSet(rs)
    BY <2>1, <2>2, FS_Surjection
  <2>4. rs \subseteq Nat /\ rs # {}
    <3>1. \A w \in WishIds : wish[w].room \in Nat
      BY DEF DeskBase, FrontDeskTypeOK, WishType
    <3>2. hs \subseteq WishIds
      BY DEF Holders
    <3>3. rs \subseteq Nat
      BY <3>1, <3>2
    <3>4. PICK x \in hs : TRUE
      BY <1>1
    <3>5. wish[x].room \in rs
      OBVIOUS
    <3>. QED BY <3>3, <3>5
  <2>5. PICK w \in hs : Cardinality(hs) <= wish[w].room
    BY <1>1 DEF CapacityInv, SlotsHaveRoom
  <2>6. Max(rs) \in rs /\ \A k \in rs : Max(rs) >= k
    BY <2>3, <2>4, MaxOfFinite
  <2>7. wish[w].room \in rs
    OBVIOUS
  <2>8. wish[w].room \in Nat /\ Max(rs) \in Nat
    BY <2>4, <2>6, <2>7
  <2>9. wish[w].room <= Max(rs)
    BY <2>6, <2>7, <2>8
  <2>10. ASSUME NEW c, c = Cardinality(hs), NEW m, m = Max(rs) PROVE c <= m
    BY <2>1, <2>5, <2>8, <2>9, <2>10
  <2>. QED BY <2>10
<1>. QED BY <1>1 DEF WithinCapacity, CapacityInv, WishesHaveRoom, PhotosHaveRoom

(* The limits on open wishes, pickups of a slot and photos of a protocol hold, though each is       *)
(* counted in one statement and used up in a later one: the advisory locks keep requests that count *)
(* the same thing apart (PortalCreateRequest, pickupSlotTaken, UploadHandoverPhoto).                *)
THEOREM LimitsHold == FrontDeskSpec => []WithinCapacity
<1>1. FrontDeskInit => DeskBase /\ CapacityInv
  BY DeskBaseStart, CapacityStart
<1>2. DeskBase /\ CapacityInv /\ [FrontDeskNext]_deskVars => (DeskBase /\ CapacityInv)'
  BY DeskBaseStep, CapacityStep
<1>. QED BY <1>1, <1>2, CapacityHolds, PTL DEF FrontDeskSpec

-----------------------------------------------------------------------------
(* Access: a code is spent once, a session stands on what it was proven with, *)
(* and an administrator remains.                                           *)
(*                                                                         *)
(* Most of a step is told by how it may move a row of users (RowMoves), from one *)
(* number of changes to the next; what requests, sessions and spent codes rest *)
(* on is then a matter of rows alone (VisitOK, SessionOK, SpentOK).        *)

AccountRow == [exists : BOOLEAN, admin : BOOLEAN, disabled : BOOLEAN, pw : Nat, secret : Nat, pending : Nat,
               step : Nat, failures : Nat, locked : BOOLEAN, backup : SUBSET Nat, keys : SUBSET Nat, resets : Nat]

\* A row of users whose numbers were all given out by n.
KnownRow(r, n) ==
    /\ r \in AccountRow
    /\ r.pw <= n /\ r.secret <= n /\ r.pending <= n /\ \A k \in r.keys \cup r.backup : k <= n
    /\ 0 \notin r.keys
    /\ r.secret # 0 => r.pending = 0
    /\ r.exists \/ r.keys = {}

\* What a step from n to m may do to a row: what is new is fresh, a secret comes from
\* the pending one, its steps only rise, and a reset takes secret and passkeys along.
RowMoves(a, b, n, m) ==
    /\ b.secret \in {a.secret, 0, a.pending}
    /\ b.pending \in {a.pending, 0} \/ n < b.pending
    /\ b.secret = a.secret /\ b.secret # 0 => a.step <= b.step
    /\ \A k \in b.keys \ a.keys : n < k
    /\ \A k \in b.backup \ a.backup : n < k
    /\ b.resets = a.resets \/ (b.secret = 0 /\ b.keys = {})

AccountsKnown ==
    /\ account \in [Accounts -> AccountRow]
    /\ \A u \in Accounts : KnownRow(account[u], changes)
    /\ changes \in Nat

SignInVisit   == [at : {"factor", "code", "passed", "proven"}, user : Accounts, pw : Nat, secret : Nat, resets : Nat]
AssertedVisit == [at : {"asserted"}, user : Accounts, key : Nat, resets : Nat]
InsideVisit   == [at : {"in"}, user : Accounts, token : Tokens, verified : BOOLEAN, admin : BOOLEAN, secret : Nat, resets : Nat]
VerifiedVisit == [at : {"password", "disable", "codes"}, user : Accounts, pw : Nat, verified : BOOLEAN, resets : Nat]
EditVisit     == [at : {"edit"}, user : Accounts, to : Edits, wasOff : BOOLEAN]
VisitRow      == {Away} \cup SignInVisit \cup AssertedVisit \cup InsideVisit \cup VerifiedVisit \cup EditVisit

LiveSession == [user : Accounts, alive : {TRUE}, pw : Nat, verified : BOOLEAN, since : Nat, from : {"login", "change"}]
SessionRow  == {NoSession} \cup LiveSession

RequestsTyped == /\ visit \in [Visits -> VisitRow]
                 /\ session \in [Tokens -> SessionRow]

\* The kind of a request is told by where it is.
LEMMA VisitKinds ==
    ASSUME NEW r \in VisitRow
    PROVE  /\ r.at \in {"factor", "code", "passed", "proven"} => r \in SignInVisit
           /\ r.at = "asserted" => r \in AssertedVisit
           /\ r.at = "in" => r \in InsideVisit
           /\ r.at \in {"password", "disable", "codes"} => r \in VerifiedVisit
           /\ r.at = "edit" => r \in EditVisit
           /\ r.at # "away" => r.user \in Accounts
BY DEF VisitRow, SignInVisit, AssertedVisit, InsideVisit, VerifiedVisit, EditVisit, Away

\* A session row is empty or alive.
LEMMA SessionKinds ==
    ASSUME NEW r \in SessionRow
    PROVE  /\ r.alive => r \in LiveSession
           /\ r \in LiveSession => /\ r.alive /\ r.user \in Accounts /\ r.pw \in Nat /\ r.verified \in BOOLEAN
                                  /\ r.since \in Nat /\ r.from \in {"login", "change"}
<1>1. CASE r = NoSession
  <2>1. ~r.alive
    BY <1>1 DEF NoSession
  <2>2. r \notin LiveSession
    BY <2>1 DEF LiveSession
  <2>. QED BY <2>1, <2>2
<1>2. CASE r \in LiveSession
  BY <1>2 DEF LiveSession
<1>. QED BY <1>1, <1>2 DEF SessionRow

\* A step that writes one row, and writes it as rows may move.
LEMMA OneRow ==
    ASSUME AccountsKnown, NEW u \in Accounts, NEW row, Set(u, row), changes' \in {changes, changes + 1},
           KnownRow(row, changes'), RowMoves(account[u], row, changes, changes')
    PROVE  /\ AccountsKnown' /\ changes <= changes'
           /\ \A w \in Accounts : RowMoves(account[w], account'[w], changes, changes')
           /\ \A w, x \in Accounts : w # x => account'[w] = account[w] \/ account'[x] = account[x]
<1>1. account' \in [Accounts -> AccountRow] /\ changes' \in Nat /\ changes \in Nat /\ changes <= changes'
  BY DEF AccountsKnown, Set, KnownRow
<1>2. \A w \in Accounts : account'[w] = IF w = u THEN row ELSE account[w]
  BY DEF AccountsKnown, Set
<1>3. \A w \in Accounts : KnownRow(account[w], changes')
  <2>1. ASSUME NEW w \in Accounts PROVE KnownRow(account[w], changes')
    <3>1. KnownRow(account[w], changes) /\ account[w] \in AccountRow
      BY DEF AccountsKnown
    <3>2. account[w].pw \in Nat /\ account[w].secret \in Nat /\ account[w].pending \in Nat /\ account[w].keys \cup account[w].backup \subseteq Nat
      BY <3>1 DEF AccountRow
    <3>. QED BY <1>1, <3>1, <3>2 DEF KnownRow
  <2>. QED BY <2>1
<1>4. ASSUME NEW w \in Accounts PROVE RowMoves(account[w], account[w], changes, changes')
  BY DEF RowMoves, AccountsKnown, AccountRow
<1>5. \A w \in Accounts : KnownRow(account'[w], changes')
  BY <1>2, <1>3
<1>6. AccountsKnown'
  BY <1>1, <1>5 DEF AccountsKnown, KnownRow
<1>. QED BY <1>1, <1>2, <1>4, <1>6

\* A step that writes no row of users.
LEMMA SameRowsKept ==
    ASSUME AccountsKnown, UNCHANGED account, changes' \in {changes, changes + 1}
    PROVE  /\ AccountsKnown' /\ changes <= changes'
           /\ \A w \in Accounts : RowMoves(account[w], account'[w], changes, changes')
           /\ \A w, x \in Accounts : w # x => account'[w] = account[w] \/ account'[x] = account[x]
<1>1. changes' \in Nat /\ changes \in Nat /\ changes <= changes'
  BY DEF AccountsKnown
<1>2. ASSUME NEW w \in Accounts PROVE KnownRow(account'[w], changes')
  <2>1. KnownRow(account[w], changes) /\ account[w] \in AccountRow
    BY DEF AccountsKnown
  <2>2. account[w].pw \in Nat /\ account[w].secret \in Nat /\ account[w].pending \in Nat /\ account[w].keys \cup account[w].backup \subseteq Nat
    BY <2>1 DEF AccountRow
  <2>. QED BY <1>1, <2>1, <2>2 DEF KnownRow
<1>3. AccountsKnown'
  BY <1>1, <1>2 DEF AccountsKnown, KnownRow
<1>. QED BY <1>1, <1>3 DEF RowMoves, AccountsKnown, AccountRow

AccountsMove == /\ AccountsKnown' /\ changes <= changes'
                /\ \A w \in Accounts : RowMoves(account[w], account'[w], changes, changes')
                /\ \A w, x \in Accounts : w # x => account'[w] = account[w] \/ account'[x] = account[x]

\* What is known of one row.
LEMMA RowFacts ==
    ASSUME AccountsKnown, NEW u \in Accounts
    PROVE  /\ account[u] \in AccountRow /\ KnownRow(account[u], changes) /\ changes \in Nat
           /\ account[u].secret \in Nat /\ account[u].pending \in Nat /\ account[u].step \in Nat
           /\ account[u].failures \in Nat /\ account[u].pw \in Nat /\ account[u].resets \in Nat
           /\ account[u].keys \subseteq Nat /\ account[u].backup \subseteq Nat
BY DEF AccountsKnown, AccountRow

\* Counting failures and locking change nothing a session or a code rests on.
LEMMA FailuresCounted ==
    ASSUME NEW r \in AccountRow, NEW f \in Nat, NEW l \in BOOLEAN, NEW n \in Nat, KnownRow(r, n)
    PROVE  LET row == [r EXCEPT !.failures = f, !.locked = l] IN KnownRow(row, n) /\ RowMoves(r, row, n, n)
<1>. DEFINE row == [r EXCEPT !.failures = f, !.locked = l]
<1>1. row \in AccountRow
  BY DEF AccountRow
<1>2. /\ row.secret = r.secret /\ row.pending = r.pending /\ row.step = r.step /\ row.keys = r.keys
      /\ row.backup = r.backup /\ row.resets = r.resets /\ row.exists = r.exists /\ row.pw = r.pw /\ r.step \in Nat
  BY DEF AccountRow
<1>. HIDE DEF row
<1>3. KnownRow(row, n) /\ RowMoves(r, row, n, n)
  BY <1>1, <1>2 DEF KnownRow, RowMoves
<1>. QED BY <1>3 DEF row

\* Signing in moves rows as rows may move.
LEMMA SignInMoves ==
    ASSUME AccountsKnown, RequestsTyped, AccessAssumption, SignInNext
    PROVE  AccountsMove
<1>. USE DEF AccountRow, KnownRow, RowMoves
<1>0. ASSUME UNCHANGED <<account, changes>> PROVE AccountsMove
  BY <1>0, SameRowsKept DEF AccountsMove
<1>1. ASSUME NEW v \in Visits, ReserveSecondFactorAttempt(v) PROVE AccountsMove
  <2>1. CASE UNCHANGED account
    BY <1>0, <1>1, <2>1 DEF ReserveSecondFactorAttempt, SameRest
  <2>2. CASE account' # account
    <3>. DEFINE u == visit[v].user
                n == account[u].failures + 1
                row == [account[u] EXCEPT !.failures = n, !.locked = n >= FreeFailures]
    <3>1. u \in Accounts
      BY <1>1, VisitKinds DEF ReserveSecondFactorAttempt, RequestsTyped
    <3>2. Set(u, row) /\ changes' = changes
      BY <1>1, <2>2 DEF ReserveSecondFactorAttempt, SameRest
    <3>3. KnownRow(row, changes) /\ RowMoves(account[u], row, changes, changes)
      <4>1. n \in Nat /\ (n >= FreeFailures) \in BOOLEAN
        BY <3>1, RowFacts
      <4>. HIDE DEF u, n, KnownRow, RowMoves, AccountRow
      <4>. QED BY <3>1, <4>1, RowFacts, FailuresCounted
    <3>. HIDE DEF row, u, KnownRow, RowMoves, AccountRow
    <3>. QED BY <3>1, <3>2, <3>3, OneRow DEF AccountsMove
  <2>. QED BY <2>1, <2>2
<1>2. ASSUME NEW v \in Visits, NEW s \in TimeSteps, SpendCode(v, s) PROVE AccountsMove
  <2>. DEFINE u == visit[v].user
              row == [account[u] EXCEPT !.step = s]
  <2>1. u \in Accounts
    BY <1>2, VisitKinds DEF SpendCode, RequestsTyped
  <2>2. Set(u, row) /\ changes' = changes /\ account[u].step < s /\ s \in Nat
    BY <1>2 DEF SpendCode, SameRest, UnusedStep, AccessAssumption
  <2>3. KnownRow(row, changes) /\ RowMoves(account[u], row, changes, changes)
    BY <2>1, <2>2, RowFacts
  <2>. HIDE DEF row, u, KnownRow, RowMoves, AccountRow
  <2>. QED BY <2>1, <2>2, <2>3, OneRow DEF AccountsMove
<1>3. ASSUME NEW v \in Visits, NEW c \in 1..changes, ConsumeBackupCode(v, c) PROVE AccountsMove
  <2>. DEFINE u == visit[v].user
              row == [account[u] EXCEPT !.backup = @ \ {c}]
  <2>1. u \in Accounts
    BY <1>3, VisitKinds DEF ConsumeBackupCode, RequestsTyped
  <2>2. Set(u, row) /\ changes' = changes
    BY <1>3 DEF ConsumeBackupCode, SameRest
  <2>3. KnownRow(row, changes) /\ RowMoves(account[u], row, changes, changes)
    BY <2>1, <2>2, RowFacts
  <2>. HIDE DEF row, u, KnownRow, RowMoves, AccountRow
  <2>. QED BY <2>1, <2>2, <2>3, OneRow DEF AccountsMove
<1>4. ASSUME NEW v \in Visits, ReleaseSecondFactorAttempt(v) PROVE AccountsMove
  <2>. DEFINE u == visit[v].user
              row == [account[u] EXCEPT !.failures = IF @ > 0 THEN @ - 1 ELSE 0]
  <2>1. u \in Accounts
    BY <1>4, VisitKinds DEF ReleaseSecondFactorAttempt, RequestsTyped
  <2>2. Set(u, row) /\ changes' = changes
    BY <1>4 DEF ReleaseSecondFactorAttempt, SameRest
  <2>3. KnownRow(row, changes) /\ RowMoves(account[u], row, changes, changes)
    BY <2>1, <2>2, RowFacts
  <2>. HIDE DEF row, u, KnownRow, RowMoves, AccountRow
  <2>. QED BY <2>1, <2>2, <2>3, OneRow DEF AccountsMove
<1>5. ASSUME NEW v \in Visits, ResetSecondFactorFailures(v) PROVE AccountsMove
  <2>1. CASE UNCHANGED account
    BY <1>0, <1>5, <2>1 DEF ResetSecondFactorFailures, SameRest
  <2>2. CASE account' # account
    <3>. DEFINE u == visit[v].user
                row == [account[u] EXCEPT !.failures = 0, !.locked = FALSE]
    <3>1. u \in Accounts
      BY <1>5, VisitKinds DEF ResetSecondFactorFailures, RequestsTyped
    <3>2. Set(u, row) /\ changes' = changes
      BY <1>5, <2>2 DEF ResetSecondFactorFailures, SameRest
    <3>3. KnownRow(row, changes) /\ RowMoves(account[u], row, changes, changes)
      <4>. HIDE DEF u, KnownRow, RowMoves, AccountRow
      <4>. QED BY <3>1, RowFacts, FailuresCounted
    <3>. HIDE DEF row, u, KnownRow, RowMoves, AccountRow
    <3>. QED BY <3>1, <3>2, <3>3, OneRow DEF AccountsMove
  <2>. QED BY <2>1, <2>2
<1>6. ASSUME NEW v \in Visits, NEW u \in Accounts, NEW k \in 1..changes, SuspendPasskey(v, u, k) PROVE AccountsMove
  <2>. DEFINE row == [account[u] EXCEPT !.keys = @ \ {k}]
  <2>1. Set(u, row) /\ changes' = changes
    BY <1>6 DEF SuspendPasskey
  <2>2. KnownRow(row, changes) /\ RowMoves(account[u], row, changes, changes)
    BY <2>1, RowFacts
  <2>. HIDE DEF row, KnownRow, RowMoves, AccountRow
  <2>. QED BY <2>1, <2>2, OneRow DEF AccountsMove
<1>7. ASSUME NEW v \in Visits,
             \/ \E u \in Accounts : Authenticate(v, u) \/ \E k \in 1..changes : FinishLogin(v, u, k)
             \/ PasskeyLoginBegin \/ PasskeyRefused \/ CreatePasskeySession(v) \/ RefuseCode(v) \/ CreatePasswordSession(v)
      PROVE  AccountsMove
  BY <1>0, <1>7 DEF Authenticate, FinishLogin, PasskeyLoginBegin, PasskeyRefused, CreatePasskeySession, RefuseCode,
                    CreatePasswordSession, SameRows, SameRest
<1>. HIDE DEF AccountRow, KnownRow, RowMoves
<1>. QED BY <1>1, <1>2, <1>3, <1>4, <1>5, <1>6, <1>7 DEF SignInNext, Login

\* Switching the second factor off.
LEMMA FactorsFallAway ==
    ASSUME NEW r \in AccountRow, NEW n \in Nat, KnownRow(r, n)
    PROVE  KnownRow(FactorsOff(r), n) /\ RowMoves(r, FactorsOff(r), n, n)
BY DEF KnownRow, RowMoves, FactorsOff, AccountRow

\* A row without factors.
LEMMA BareRow ==
    ASSUME NEW r \in AccountRow, NEW row \in AccountRow, NEW n \in Nat, NEW m \in Nat,
           row.pw <= m, row.secret = 0, row.pending = 0, row.keys = {}, row.backup = {}
    PROVE  KnownRow(row, m) /\ RowMoves(r, row, n, m)
BY DEF KnownRow, RowMoves, AccountRow

\* An account that is created, or created anew.
LEMMA NewRow ==
    ASSUME NEW r \in AccountRow, NEW b \in BOOLEAN, NEW e \in BOOLEAN, NEW h \in Nat, NEW k \in Nat, NEW n \in Nat, NEW m \in Nat, h <= m
    PROVE  /\ KnownRow(NewAccount(b, h), m) /\ RowMoves(r, NewAccount(b, h), n, m)
           /\ LET row == [NewAccount(b, h) EXCEPT !.resets = k] IN KnownRow(row, m) /\ RowMoves(r, row, n, m)
           /\ LET row == [NewAccount(b, h) EXCEPT !.exists = e, !.resets = k] IN KnownRow(row, m) /\ RowMoves(r, row, n, m)
<1>. DEFINE row == NewAccount(b, h)
            kept == [row EXCEPT !.resets = k]
            gone == [row EXCEPT !.exists = e, !.resets = k]
<1>1. row \in AccountRow /\ row.pw = h /\ row.secret = 0 /\ row.pending = 0 /\ row.keys = {} /\ row.backup = {}
  BY DEF NewAccount, AccountRow
<1>. HIDE DEF row
<1>2. kept \in AccountRow /\ kept.pw = h /\ kept.secret = 0 /\ kept.pending = 0 /\ kept.keys = {} /\ kept.backup = {}
  BY <1>1 DEF AccountRow
<1>3. gone \in AccountRow /\ gone.pw = h /\ gone.secret = 0 /\ gone.pending = 0 /\ gone.keys = {} /\ gone.backup = {}
  BY <1>1 DEF AccountRow
<1>. HIDE DEF kept, gone
<1>4. /\ KnownRow(row, m) /\ RowMoves(r, row, n, m)
      /\ KnownRow(kept, m) /\ RowMoves(r, kept, n, m)
      /\ KnownRow(gone, m) /\ RowMoves(r, gone, n, m)
  BY <1>1, <1>2, <1>3, BareRow
<1>. QED BY <1>4 DEF row, kept, gone

\* An enrolment that is confirmed: the pending secret becomes the one in force.
LEMMA EnrolmentEnds ==
    ASSUME NEW r \in AccountRow, NEW n \in Nat, NEW s \in Nat, NEW l \in BOOLEAN, KnownRow(r, n), r.secret = 0, r.exists, r.pending # 0
    PROVE  LET row == [r EXCEPT !.secret = r.pending, !.pending = 0, !.step = s, !.failures = 0, !.locked = l, !.backup = {n + 1}]
           IN KnownRow(row, n + 1) /\ RowMoves(r, row, n, n + 1)
<1>. DEFINE row == [r EXCEPT !.secret = r.pending, !.pending = 0, !.step = s, !.failures = 0, !.locked = l, !.backup = {n + 1}]
<1>0. r.pending \in Nat /\ {n + 1} \in SUBSET Nat /\ r.keys \subseteq Nat
  BY DEF AccountRow
<1>1. row \in AccountRow
  BY <1>0 DEF AccountRow
<1>2. /\ row.pw = r.pw /\ r.pw \in Nat /\ row.secret = r.pending /\ row.pending = 0 /\ row.keys = r.keys
      /\ row.backup = {n + 1} /\ row.resets = r.resets /\ row.exists = r.exists
  BY DEF AccountRow
<1>. HIDE DEF row
<1>3. KnownRow(row, n + 1) /\ RowMoves(r, row, n, n + 1)
  BY <1>0, <1>1, <1>2 DEF KnownRow, RowMoves
<1>. QED BY <1>3 DEF row

\* A user's own changes move rows as rows may move.
LEMMA OwnMoves ==
    ASSUME AccountsKnown, RequestsTyped, AccessAssumption, OwnNext
    PROVE  AccountsMove
<1>. USE DEF AccountRow, KnownRow, RowMoves
<1>0. ASSUME UNCHANGED <<account, changes>> PROVE AccountsMove
  BY <1>0, SameRowsKept DEF AccountsMove
<1>1. ASSUME NEW v \in Visits, ChangePassword(v) PROVE AccountsMove
  <2>1. CASE UNCHANGED <<account, changes>>
    BY <1>0, <2>1
  <2>2. CASE ~UNCHANGED <<account, changes>>
    <3>. DEFINE u == visit[v].user
                row == [account[u] EXCEPT !.pw = Fresh]
    <3>1. u \in Accounts
      BY <1>1, VisitKinds DEF ChangePassword, RequestsTyped
    <3>2. Set(u, row) /\ changes' = changes + 1
      BY <1>1, <2>2 DEF ChangePassword, Changed, Fresh
    <3>3. KnownRow(row, changes + 1) /\ RowMoves(account[u], row, changes, changes + 1)
      BY <3>1, RowFacts DEF Fresh
    <3>. HIDE DEF row, u, KnownRow, RowMoves, AccountRow
    <3>. QED BY <3>1, <3>2, <3>3, OneRow DEF AccountsMove
  <2>. QED BY <2>1, <2>2
<1>2. ASSUME NEW v \in Visits, TOTPDisable(v) PROVE AccountsMove
  <2>. DEFINE u == visit[v].user
              row == FactorsOff(account[u])
  <2>1. u \in Accounts
    BY <1>2, VisitKinds DEF TOTPDisable, RequestsTyped
  <2>2. Set(u, row) /\ changes' = changes
    BY <1>2 DEF TOTPDisable, SameRest
  <2>. HIDE DEF u, KnownRow, RowMoves, AccountRow
  <2>3. KnownRow(row, changes) /\ RowMoves(account[u], row, changes, changes)
    BY <2>1, RowFacts, FactorsFallAway
  <2>. QED BY <2>1, <2>2, <2>3, OneRow DEF AccountsMove
<1>3. ASSUME NEW v \in Visits, TOTPRegenerateBackup(v) PROVE AccountsMove
  <2>. DEFINE u == visit[v].user
              row == [account[u] EXCEPT !.backup = FreshCodes]
  <2>1. u \in Accounts
    BY <1>3, VisitKinds DEF TOTPRegenerateBackup, RequestsTyped
  <2>2. Set(u, row) /\ changes' = changes + 1
    BY <1>3 DEF TOTPRegenerateBackup, Changed, Fresh
  <2>3. KnownRow(row, changes + 1) /\ RowMoves(account[u], row, changes, changes + 1)
    BY <2>1, RowFacts DEF Fresh, FreshCodes
  <2>. HIDE DEF row, u, KnownRow, RowMoves, AccountRow
  <2>. QED BY <2>1, <2>2, <2>3, OneRow DEF AccountsMove
<1>4. ASSUME NEW v \in Visits, TOTPSetup(v) PROVE AccountsMove
  <2>. DEFINE u == visit[v].user
              row == [account[u] EXCEPT !.pending = Fresh]
  <2>1. u \in Accounts
    BY <1>4, VisitKinds DEF TOTPSetup, RequestsTyped
  <2>2. Set(u, row) /\ changes' = changes + 1 /\ account[u].secret = 0
    BY <1>4 DEF TOTPSetup, Changed, Fresh
  <2>3. KnownRow(row, changes + 1) /\ RowMoves(account[u], row, changes, changes + 1)
    BY <2>1, <2>2, RowFacts DEF Fresh
  <2>. HIDE DEF row, u, KnownRow, RowMoves, AccountRow
  <2>. QED BY <2>1, <2>2, <2>3, OneRow DEF AccountsMove
<1>5. ASSUME NEW v \in Visits, NEW s \in TimeSteps, TOTPEnable(v, s) PROVE AccountsMove
  <2>. DEFINE u == visit[v].user
              row == [account[u] EXCEPT !.secret = account[u].pending, !.pending = 0, !.step = s,
                                        !.failures = 0, !.locked = FALSE, !.backup = {changes + 1}]
  <2>1. u \in Accounts
    BY <1>5, VisitKinds DEF TOTPEnable, RequestsTyped
  <2>2. Set(u, row) /\ changes' = changes + 1 /\ account[u].secret = 0 /\ account[u].exists /\ s \in Nat /\ account[u].pending # 0
    BY <1>5 DEF TOTPEnable, Changed, Fresh, FreshCodes, AccessAssumption
  <2>. HIDE DEF u, KnownRow, RowMoves, AccountRow
  <2>3. KnownRow(row, changes + 1) /\ RowMoves(account[u], row, changes, changes + 1)
    BY <2>1, <2>2, RowFacts, EnrolmentEnds
  <2>. HIDE DEF row
  <2>. QED BY <2>1, <2>2, <2>3, OneRow DEF AccountsMove
<1>6. ASSUME NEW v \in Visits, PasskeyRegisterFinish(v) PROVE AccountsMove
  <2>. DEFINE u == visit[v].user
              row == [account[u] EXCEPT !.keys = @ \cup {Fresh}]
  <2>1. u \in Accounts
    BY <1>6, VisitKinds DEF PasskeyRegisterFinish, RequestsTyped
  <2>2. Set(u, row) /\ changes' = changes + 1 /\ account[u].exists
    BY <1>6 DEF PasskeyRegisterFinish, Changed, Fresh
  <2>3. KnownRow(row, changes + 1) /\ RowMoves(account[u], row, changes, changes + 1)
    BY <2>1, <2>2, RowFacts DEF Fresh
  <2>. HIDE DEF row, u, KnownRow, RowMoves, AccountRow
  <2>. QED BY <2>1, <2>2, <2>3, OneRow DEF AccountsMove
<1>7. ASSUME NEW v \in Visits, NEW k \in 1..changes, DeletePasskey(v, k) PROVE AccountsMove
  <2>. DEFINE u == visit[v].user
              row == [account[u] EXCEPT !.keys = @ \ {k}]
  <2>1. u \in Accounts
    BY <1>7, VisitKinds DEF DeletePasskey, RequestsTyped
  <2>2. Set(u, row) /\ changes' = changes
    BY <1>7 DEF DeletePasskey, SameRest
  <2>3. KnownRow(row, changes) /\ RowMoves(account[u], row, changes, changes)
    BY <2>1, RowFacts
  <2>. HIDE DEF row, u, KnownRow, RowMoves, AccountRow
  <2>. QED BY <2>1, <2>2, <2>3, OneRow DEF AccountsMove
<1>8. ASSUME NEW v \in Visits,
             \/ \E t \in Tokens, e \in BOOLEAN : RequireAuth(v, t, e)
             \/ \E t \in Tokens : RevokeSession(v, t)
             \/ RevokeOtherSessions(v) \/ PasskeyRegisterBegin(v)
             \/ \E p \in {"password", "disable", "codes"} : AuthenticateUserID(v, p)
      PROVE  AccountsMove
  BY <1>0, <1>8 DEF RequireAuth, RevokeSession, RevokeOtherSessions, PasskeyRegisterBegin, AuthenticateUserID, SameRows, SameRest
<1>. HIDE DEF AccountRow, KnownRow, RowMoves
<1>. QED BY <1>1, <1>2, <1>3, <1>4, <1>5, <1>6, <1>7, <1>8 DEF OwnNext

\* An administrator writes roles and password; factors stay.
LEMMA RoleWritten ==
    ASSUME NEW r \in AccountRow, NEW a \in BOOLEAN, NEW d \in BOOLEAN, NEW h \in Nat, NEW n \in Nat, NEW m \in Nat, n <= m, h <= m, KnownRow(r, n)
    PROVE  LET row == [r EXCEPT !.admin = a, !.disabled = d, !.pw = h] IN KnownRow(row, m) /\ RowMoves(r, row, n, m)
<1>. DEFINE row == [r EXCEPT !.admin = a, !.disabled = d, !.pw = h]
<1>1. row \in AccountRow
  BY DEF AccountRow
<1>2. /\ row.pw = h /\ row.secret = r.secret /\ row.pending = r.pending /\ row.step = r.step /\ row.keys = r.keys
      /\ row.backup = r.backup /\ row.resets = r.resets /\ row.exists = r.exists
      /\ r.step \in Nat /\ r.secret \in Nat /\ r.pending \in Nat /\ r.keys \cup r.backup \subseteq Nat
  BY DEF AccountRow
<1>. HIDE DEF row
<1>3. KnownRow(row, m) /\ RowMoves(r, row, n, m)
  BY <1>1, <1>2 DEF KnownRow, RowMoves
<1>. QED BY <1>3 DEF row

\* What administrators and the clean-up do moves rows as rows may move.
LEMMA OtherMoves ==
    ASSUME AccountsKnown, RequestsTyped, AccessAssumption, AccessNext, ~SignInNext, ~OwnNext
    PROVE  AccountsMove
<1>0. ASSUME UNCHANGED <<account, changes>> PROVE AccountsMove
  BY <1>0, SameRowsKept DEF AccountsMove
<1>r. ASSUME NEW u \in Accounts, NEW a \in BOOLEAN, NEW d \in BOOLEAN, NEW h \in Nat,
             Set(u, [account[u] EXCEPT !.admin = a, !.disabled = d, !.pw = h]), changes' = changes + 1, h <= changes + 1
      PROVE  AccountsMove
  <2>. DEFINE row == [account[u] EXCEPT !.admin = a, !.disabled = d, !.pw = h]
  <2>1. account[u] \in AccountRow /\ KnownRow(account[u], changes) /\ h <= changes + 1 /\ changes \in Nat /\ changes + 1 \in Nat /\ changes <= changes + 1
    BY <1>r, RowFacts
  <2>2. KnownRow(row, changes + 1) /\ RowMoves(account[u], row, changes, changes + 1)
    BY <2>1, RoleWritten
  <2>. HIDE DEF row
  <2>3. Set(u, row)
    BY <1>r DEF row
  <2>. QED BY <1>r, <2>2, <2>3, OneRow DEF AccountsMove
<1>1. ASSUME NEW v \in Visits, UpdateUser(v) PROVE AccountsMove
  <2>1. CASE UNCHANGED <<account, changes>>
    BY <1>0, <2>1
  <2>2. CASE ~UNCHANGED <<account, changes>>
    <3>. DEFINE u == visit[v].user
                edit == visit[v].to
                off == IF edit.off = "keep" THEN visit[v].wasOff ELSE edit.off = "yes"
                hash == IF edit.reset THEN Fresh ELSE account[u].pw
    <3>0. visit[v] \in EditVisit
      BY <1>1, VisitKinds DEF UpdateUser, RequestsTyped
    <3>1. u \in Accounts /\ edit.admin \in BOOLEAN /\ off \in BOOLEAN
      BY <3>0 DEF EditVisit, Edits
    <3>2. Set(u, [account[u] EXCEPT !.admin = edit.admin, !.disabled = off, !.pw = hash]) /\ changes' = changes + 1
      BY <1>1, <2>2 DEF UpdateUser, Changed, Fresh, Set
    <3>3. hash \in Nat /\ hash <= changes + 1
      BY <3>1, RowFacts DEF Fresh, KnownRow
    <3>. HIDE DEF u, edit, off, hash
    <3>. QED BY <1>r, <3>1, <3>2, <3>3
  <2>. QED BY <2>1, <2>2
<1>3. ASSUME NEW v \in Visits, NEW u \in Accounts, NEW a \in BOOLEAN, CreateUser(v, u, a) PROVE AccountsMove
  <2>1. Fresh \in Nat /\ Fresh <= Fresh /\ changes' = Fresh /\ changes \in Nat /\ Fresh = changes + 1 /\ Set(u, NewAccount(a, Fresh))
    BY <1>3 DEF Fresh, AccountsKnown, CreateUser, Changed
  <2>2. KnownRow(NewAccount(a, Fresh), Fresh) /\ RowMoves(account[u], NewAccount(a, Fresh), changes, Fresh)
    BY <2>1, RowFacts, NewRow
  <2>. QED BY <2>1, <2>2, OneRow DEF AccountsMove
<1>4. ASSUME NEW v \in Visits, NEW u \in Accounts, DeleteUser(v, u) PROVE AccountsMove
  <2>. DEFINE row == [NewAccount(FALSE, 0) EXCEPT !.exists = FALSE, !.resets = account[u].resets]
  <2>1. Set(u, row) /\ changes' = changes
    BY <1>4 DEF DeleteUser
  <2>2. KnownRow(row, changes) /\ RowMoves(account[u], row, changes, changes)
    <3>1. /\ account[u] \in AccountRow /\ account[u].resets \in Nat /\ changes \in Nat /\ 0 \in Nat /\ 0 <= changes
          /\ FALSE \in BOOLEAN
      BY RowFacts
    <3>. QED BY <3>1, NewRow
  <2>. HIDE DEF row
  <2>. QED BY <2>1, <2>2, OneRow DEF AccountsMove
<1>5. ASSUME NEW v \in Visits, NEW u \in Accounts, ResetUserTOTP(v, u) PROVE AccountsMove
  <2>. DEFINE row == [FactorsOff(account[u]) EXCEPT !.keys = {}, !.resets = @ + 1]
  <2>1. Set(u, row) /\ changes' = changes + 1
    BY <1>5 DEF ResetUserTOTP, Changed, Fresh
  <2>2. /\ row \in AccountRow /\ row.pw <= changes + 1 /\ row.secret = 0 /\ row.pending = 0 /\ row.keys = {} /\ row.backup = {}
        /\ changes \in Nat /\ changes + 1 \in Nat /\ account[u] \in AccountRow
    <3>. DEFINE f == FactorsOff(account[u])
    <3>1. /\ f \in AccountRow /\ f.pw \in Nat /\ f.pw <= changes /\ f.secret = 0 /\ f.pending = 0 /\ f.backup = {}
          /\ changes \in Nat /\ account[u] \in AccountRow
      <4>1. f.secret = 0 /\ f.pending = 0 /\ f.backup = {}
        BY RowFacts DEF FactorsOff, AccountRow
      <4>. QED BY <4>1, RowFacts, FactorsFallAway DEF KnownRow, AccountRow
    <3>2. row = [f EXCEPT !.keys = {}, !.resets = @ + 1]
      OBVIOUS
    <3>. HIDE DEF f
    <3>3. row.pw = f.pw /\ row.secret = f.secret /\ row.pending = f.pending /\ row.backup = f.backup /\ row.keys = {}
      BY <3>1, <3>2 DEF AccountRow
    <3>4. [f EXCEPT !.keys = {}, !.resets = @ + 1] \in AccountRow
      <4>1. ASSUME NEW ks \in SUBSET Nat, NEW k \in Nat
            PROVE  [f EXCEPT !.keys = ks, !.resets = k] \in AccountRow
        BY <3>1 DEF AccountRow
      <4>2. f.resets + 1 \in Nat /\ {} \in SUBSET Nat
        BY <3>1 DEF AccountRow
      <4>. QED BY <4>1, <4>2
    <3>. HIDE DEF row
    <3>. QED BY <3>1, <3>2, <3>3, <3>4
  <2>. HIDE DEF row
  <2>3. KnownRow(row, changes + 1) /\ RowMoves(account[u], row, changes, changes + 1)
    BY <2>2, BareRow
  <2>. QED BY <2>1, <2>3, OneRow DEF AccountsMove
<1>6. ASSUME NEW f \in BOOLEAN, BootstrapAdmin(f) PROVE AccountsMove
  <2>0. Operator \in Accounts /\ Fresh \in Nat /\ Fresh <= changes + 1 /\ changes' = changes + 1
    BY <1>6 DEF AccessAssumption, BootstrapAdmin, Changed, Fresh, AccountsKnown
  <2>. DEFINE u == Operator
  <2>1. CASE Set(u, [account[u] EXCEPT !.admin = TRUE, !.disabled = FALSE, !.pw = Fresh])
    BY <1>r, <2>0, <2>1
  <2>2. CASE Set(u, [account[u] EXCEPT !.admin = TRUE])
    <3>1. account[u].disabled \in BOOLEAN /\ account[u].pw \in Nat /\ account[u].pw <= changes + 1
      BY <2>0, RowFacts DEF AccountRow, KnownRow
    <3>2. [account[u] EXCEPT !.admin = TRUE] = [account[u] EXCEPT !.admin = TRUE, !.disabled = account[u].disabled, !.pw = account[u].pw]
      BY <2>0, RowFacts DEF AccountRow
    <3>. QED BY <1>r, <2>0, <2>2, <3>1, <3>2
  <2>3. CASE Set(u, [NewAccount(TRUE, Fresh) EXCEPT !.resets = account[u].resets])
    <3>. DEFINE row == [NewAccount(TRUE, Fresh) EXCEPT !.resets = account[u].resets]
    <3>0. /\ account[u] \in AccountRow /\ account[u].resets \in Nat /\ changes \in Nat /\ changes + 1 \in Nat
          /\ TRUE \in BOOLEAN
      BY <2>0, RowFacts
    <3>1. KnownRow(row, changes + 1) /\ RowMoves(account[u], row, changes, changes + 1)
      BY <2>0, <3>0, NewRow
    <3>. HIDE DEF row
    <3>2. Set(u, row)
      BY <2>3 DEF row
    <3>. QED BY <2>0, <3>1, <3>2, OneRow DEF AccountsMove
  <2>. QED BY <1>6, <2>1, <2>2, <2>3 DEF BootstrapAdmin
<1>7. ASSUME NEW u \in Accounts, LockExpires(u) PROVE AccountsMove
  <2>. DEFINE row == [account[u] EXCEPT !.locked = FALSE]
  <2>1. row = [account[u] EXCEPT !.failures = account[u].failures, !.locked = FALSE]
    BY RowFacts DEF AccountRow
  <2>2. KnownRow(row, changes) /\ RowMoves(account[u], row, changes, changes)
    BY <2>1, RowFacts, FailuresCounted
  <2>. QED BY <1>7, <2>2, OneRow DEF AccountsMove, LockExpires, SameRest
<1>8. ASSUME \/ \E t \in Tokens : CleanupExpired(t) \/ Logout(t)
             \/ \E v \in Visits, u \in Accounts, e \in Edits : EditUser(v, u, e)
      PROVE  AccountsMove
  BY <1>0, <1>8 DEF CleanupExpired, Logout, EditUser, SameRows, SameRest
<1>. QED BY <1>1, <1>3, <1>4, <1>5, <1>6, <1>7, <1>8 DEF AccessNext, AdminNext

\* Every step moves rows as rows may move.
LEMMA RowsMove ==
    ASSUME AccountsKnown, RequestsTyped, [AccessNext]_accessVars
    PROVE  AccountsMove
<1>1. CASE UNCHANGED accessVars
  BY <1>1, SameRowsKept DEF accessVars, AccountsMove
<1>. QED BY <1>1, SignInMoves, OwnMoves, OtherMoves, AccessAssumption

-----------------------------------------------------------------------------
\* What a request has read stays true of the row as long as the row still says so.
VisitOK(r, rows, n) ==
    /\ r \in VisitRow
    /\ r.at \in {"factor", "code", "passed"} => r.secret # 0
    /\ r.at \in {"factor", "code", "passed", "proven"} /\ r.secret # 0 =>
          /\ r.secret <= n /\ rows[r.user].pending # r.secret
          /\ rows[r.user].secret = r.secret => r.resets = rows[r.user].resets
    /\ r.at = "asserted" =>
          /\ r.key <= n
          /\ r.key \in rows[r.user].keys => r.resets = rows[r.user].resets

VisitsHold == \A v \in Visits : VisitOK(visit[v], account, changes)

\* A request that stands still keeps what it read true.
LEMMA VisitKept ==
    ASSUME AccountsKnown, AccountsMove, NEW r, VisitOK(r, account, changes)
    PROVE  VisitOK(r, account', changes')
<1>. DEFINE u == r.user
<1>0. r \in VisitRow /\ changes \in Nat /\ changes' \in Nat
  BY DEF VisitOK, AccountsKnown, AccountsMove
<1>1. CASE r.at \in {"factor", "code", "passed", "proven"} /\ r.secret # 0
  <2>1. u \in Accounts /\ r.secret \in Nat /\ r \in SignInVisit
    BY <1>0, <1>1, VisitKinds DEF SignInVisit
  <2>2. RowMoves(account[u], account'[u], changes, changes')
    BY <2>1 DEF AccountsMove
  <2>3. r.secret <= changes /\ account[u].pending # r.secret /\ (account[u].secret = r.secret => r.resets = account[u].resets)
    BY <1>1 DEF VisitOK
  <2>4. account'[u].pending \in Nat /\ KnownRow(account[u], changes) /\ KnownRow(account'[u], changes')
    BY <2>1 DEF AccountsMove, AccountsKnown, AccountRow
  <2>5. account'[u].pending # r.secret
    BY <1>0, <1>1, <2>1, <2>2, <2>3, <2>4 DEF RowMoves
  <2>6. account'[u].secret = r.secret => r.resets = account'[u].resets
    BY <1>1, <2>1, <2>2, <2>3 DEF RowMoves
  <2>7. changes <= changes'
    BY <1>0, <2>4 DEF AccountsMove
  <2>. QED BY <1>0, <1>1, <2>1, <2>3, <2>5, <2>6, <2>7 DEF VisitOK
<1>2. CASE r.at = "asserted"
  <2>1. u \in Accounts /\ r.key \in Nat
    BY <1>0, <1>2, VisitKinds DEF AssertedVisit
  <2>2. RowMoves(account[u], account'[u], changes, changes')
    BY <2>1 DEF AccountsMove
  <2>3. r.key \in account'[u].keys => r.key \in account[u].keys
    BY <1>0, <1>2, <2>1, <2>2 DEF RowMoves, VisitOK
  <2>4. r.key <= changes'
    BY <1>0, <1>2, <2>1 DEF VisitOK, AccountsMove
  <2>5. r.key \in account'[u].keys => r.resets = account'[u].resets
    BY <1>2, <2>1, <2>2, <2>3 DEF VisitOK, RowMoves
  <2>. QED BY <1>0, <1>2, <2>4, <2>5 DEF VisitOK
<1>3. CASE ~(r.at \in {"factor", "code", "passed", "proven"} /\ r.secret # 0) /\ r.at # "asserted"
  BY <1>3 DEF VisitOK
<1>. QED BY <1>1, <1>2, <1>3

\* A sign-in that goes on to its next step.
LEMMA StepOn ==
    ASSUME NEW r, NEW rows, NEW n, VisitOK(r, rows, n), r.at \in {"factor", "code", "passed"}, NEW s \in {"code", "passed", "proven"}
    PROVE  VisitOK([r EXCEPT !.at = s], rows, n)
<1>1. r \in SignInVisit
  BY VisitKinds DEF VisitOK
<1>. DEFINE q == [r EXCEPT !.at = s]
<1>2. q \in SignInVisit /\ q.at = s /\ q.user = r.user /\ q.secret = r.secret /\ q.resets = r.resets
  BY <1>1 DEF SignInVisit
<1>3. q \in VisitRow
  BY <1>2 DEF VisitRow
<1>. HIDE DEF q
<1>4. VisitOK(q, rows, n)
  BY <1>2, <1>3 DEF VisitOK
<1>. QED BY <1>4 DEF q

\* Every step keeps what the requests read.
LEMMA VisitsStep ==
    ASSUME AccountsKnown, RequestsTyped, VisitsHold, [AccessNext]_accessVars
    PROVE  VisitsHold' /\ visit' \in [Visits -> VisitRow]
<1>0. AccountsMove /\ visit \in [Visits -> VisitRow] /\ \A v \in Visits : VisitOK(visit[v], account', changes')
  BY RowsMove, VisitKept DEF RequestsTyped, VisitsHold
<1>. DEFINE Goal == \A v \in Visits : VisitOK(visit'[v], account', changes')
<1>a. ASSUME NEW v \in Visits, NEW r, Turns(v, r), VisitOK(r, account', changes')
      PROVE  Goal /\ visit' \in [Visits -> VisitRow]
  <2>1. \A w \in Visits : visit'[w] = IF w = v THEN r ELSE visit[w]
    BY <1>0, <1>a DEF Turns
  <2>2. r \in VisitRow
    BY <1>a DEF VisitOK
  <2>3. visit' \in [Visits -> VisitRow]
    BY <1>0, <1>a, <2>2 DEF Turns
  <2>. QED BY <1>0, <1>a, <2>1, <2>3
<1>b. VisitOK(Away, account', changes')
  BY DEF VisitOK, Away, VisitRow
<1>c. ASSUME NEW v \in Visits, Leave(v) PROVE Goal /\ visit' \in [Visits -> VisitRow]
  BY <1>a, <1>b, <1>c DEF Leave, Turns
<1>d. ASSUME UNCHANGED visit PROVE Goal /\ visit' \in [Visits -> VisitRow]
  BY <1>0, <1>d
<1>e. ASSUME NEW v \in Visits, NEW s \in {"code", "passed", "proven"}, visit[v].at \in {"factor", "code", "passed"},
             Turns(v, [visit[v] EXCEPT !.at = s])
      PROVE  Goal /\ visit' \in [Visits -> VisitRow]
  BY <1>0, <1>a, <1>e, StepOn
<1>. SUFFICES Goal /\ visit' \in [Visits -> VisitRow]
  BY DEF VisitsHold
<1>1. CASE SignInNext
  <2>1. ASSUME NEW v \in Visits, NEW u \in Accounts, Authenticate(v, u) PROVE Goal /\ visit' \in [Visits -> VisitRow]
    <3>. DEFINE r == [at |-> IF account[u].secret = 0 THEN "proven" ELSE "factor", user |-> u,
                      pw |-> account[u].pw, secret |-> account[u].secret, resets |-> account[u].resets]
    <3>1. Turns(v, r) /\ account' = account /\ changes' = changes
      BY <2>1 DEF Authenticate, SameRows, SameRest
    <3>2. r \in SignInVisit
      BY RowFacts DEF SignInVisit
    <3>3. r \in VisitRow
      BY <3>2 DEF VisitRow
    <3>4. VisitOK(r, account, changes)
      BY <3>3, RowFacts DEF VisitOK, KnownRow
    <3>. HIDE DEF r
    <3>. QED BY <1>a, <3>1, <3>4
  <2>2. ASSUME NEW v \in Visits, NEW u \in Accounts, NEW k \in 1..changes, FinishLogin(v, u, k)
        PROVE  Goal /\ visit' \in [Visits -> VisitRow]
    <3>. DEFINE r == [at |-> "asserted", user |-> u, key |-> k, resets |-> account[u].resets]
    <3>1. Turns(v, r) /\ account' = account /\ changes' = changes
      BY <2>2 DEF FinishLogin, SameRows
    <3>2. changes \in Nat
      BY RowFacts
    <3>3. r \in AssertedVisit
      BY <3>2, RowFacts DEF AssertedVisit
    <3>4. r \in VisitRow
      BY <3>3 DEF VisitRow
    <3>5. VisitOK(r, account, changes)
      BY <3>2, <3>4 DEF VisitOK
    <3>. HIDE DEF r
    <3>. QED BY <1>a, <3>1, <3>5
  <2>3. ASSUME NEW v \in Visits, Login(v) \/ CreatePasskeySession(v) PROVE Goal /\ visit' \in [Visits -> VisitRow]
    <3>1. CASE Leave(v)
      BY <1>c, <3>1
    <3>2. CASE ~Leave(v)
      <4>1. CASE ReserveSecondFactorAttempt(v)
        BY <1>e, <3>2, <4>1 DEF ReserveSecondFactorAttempt
      <4>2. CASE \E s \in TimeSteps : SpendCode(v, s)
        BY <1>e, <4>2 DEF SpendCode
      <4>3. CASE \E c \in 1..changes : ConsumeBackupCode(v, c)
        BY <1>e, <4>3 DEF ConsumeBackupCode
      <4>4. CASE ResetSecondFactorFailures(v)
        BY <1>e, <3>2, <4>4 DEF ResetSecondFactorFailures
      <4>5. ~RefuseCode(v) /\ ~ReleaseSecondFactorAttempt(v) /\ ~CreatePasswordSession(v) /\ ~CreatePasskeySession(v)
        BY <3>2 DEF RefuseCode, ReleaseSecondFactorAttempt, CreatePasswordSession, CreatePasskeySession
      <4>. QED BY <2>3, <4>1, <4>2, <4>3, <4>4, <4>5 DEF Login
    <3>. QED BY <3>1, <3>2
  <2>4. ASSUME PasskeyLoginBegin \/ PasskeyRefused \/ \E v \in Visits, u \in Accounts, k \in 1..changes : SuspendPasskey(v, u, k)
        PROVE  Goal /\ visit' \in [Visits -> VisitRow]
    BY <1>d, <2>4 DEF PasskeyLoginBegin, PasskeyRefused, SuspendPasskey
  <2>. QED BY <1>1, <2>1, <2>2, <2>3, <2>4 DEF SignInNext
<1>2. CASE OwnNext
  <2>1. ASSUME NEW v \in Visits, NEW t \in Tokens, NEW e \in BOOLEAN, RequireAuth(v, t, e)
        PROVE  Goal /\ visit' \in [Visits -> VisitRow]
    <3>. DEFINE u == session[t].user
                adm == account[u].admin /\ ~(Require2FA /\ e)
                r == [at |-> "in", user |-> u, token |-> t, verified |-> session[t].verified,
                      admin |-> adm, secret |-> account[u].secret, resets |-> account[u].resets]
    <3>1. Turns(v, r)
      BY <2>1 DEF RequireAuth
    <3>2. session[t] \in SessionRow /\ session[t].alive
      BY <2>1 DEF RequestsTyped, RequireAuth, Signed
    <3>3. u \in Accounts /\ session[t].verified \in BOOLEAN
      BY <3>2, SessionKinds
    <3>4. adm \in BOOLEAN
      OBVIOUS
    <3>5. ASSUME NEW a, a = adm PROVE [at |-> "in", user |-> u, token |-> t, verified |-> session[t].verified,
                      admin |-> a, secret |-> account[u].secret, resets |-> account[u].resets] \in InsideVisit
      <4>1. a \in BOOLEAN
        BY <3>4, <3>5
      <4>2. account[u].secret \in Nat /\ account[u].resets \in Nat
        BY <3>3, RowFacts
      <4>. HIDE DEF u, adm
      <4>. QED BY <3>3, <4>1, <4>2 DEF InsideVisit
    <3>6. r \in VisitRow /\ r.at = "in"
      BY <3>5 DEF VisitRow
    <3>7. VisitOK(r, account', changes')
      BY <3>6 DEF VisitOK
    <3>. HIDE DEF r
    <3>. QED BY <1>a, <3>1, <3>7
  <2>2. ASSUME NEW v \in Visits, NEW p \in {"password", "disable", "codes"}, AuthenticateUserID(v, p)
        PROVE  Goal /\ visit' \in [Visits -> VisitRow]
    <3>. DEFINE u == visit[v].user
                r == [at |-> p, user |-> u, pw |-> account[u].pw, verified |-> visit[v].verified, resets |-> visit[v].resets]
    <3>1. Turns(v, r)
      BY <2>2 DEF AuthenticateUserID
    <3>2. visit[v] \in InsideVisit
      BY <1>0, <2>2, VisitKinds DEF AuthenticateUserID
    <3>3. r \in VerifiedVisit
      BY <3>2, RowFacts DEF InsideVisit, VerifiedVisit
    <3>4. r \in VisitRow /\ r.at = p
      BY <3>3 DEF VisitRow
    <3>5. VisitOK(r, account', changes')
      BY <3>4 DEF VisitOK
    <3>. HIDE DEF r
    <3>. QED BY <1>a, <3>1, <3>5
  <2>3. ASSUME NEW v \in Visits,
               \/ \E t \in Tokens : RevokeSession(v, t)
               \/ RevokeOtherSessions(v) \/ ChangePassword(v) \/ TOTPDisable(v) \/ TOTPRegenerateBackup(v) \/ TOTPSetup(v)
               \/ \E s \in TimeSteps : TOTPEnable(v, s)
               \/ PasskeyRegisterBegin(v) \/ PasskeyRegisterFinish(v)
               \/ \E k \in 1..changes : DeletePasskey(v, k)
        PROVE  Goal /\ visit' \in [Visits -> VisitRow]
    BY <1>c, <2>3 DEF RevokeSession, RevokeOtherSessions, ChangePassword, TOTPDisable, TOTPRegenerateBackup, TOTPSetup,
                      TOTPEnable, PasskeyRegisterBegin, PasskeyRegisterFinish, DeletePasskey
  <2>. QED BY <1>2, <2>1, <2>2, <2>3 DEF OwnNext
<1>3. CASE AdminNext
  <2>1. ASSUME NEW v \in Visits, NEW u \in Accounts, NEW e \in Edits, EditUser(v, u, e)
        PROVE  Goal /\ visit' \in [Visits -> VisitRow]
    <3>. DEFINE r == [at |-> "edit", user |-> u, to |-> e, wasOff |-> account[u].disabled]
    <3>1. Turns(v, r)
      BY <2>1 DEF EditUser
    <3>2. account[u].disabled \in BOOLEAN
      BY RowFacts DEF AccountRow
    <3>3. r \in EditVisit
      BY <3>2 DEF EditVisit
    <3>4. r \in VisitRow /\ r.at = "edit"
      BY <3>3 DEF VisitRow
    <3>5. VisitOK(r, account', changes')
      BY <3>4 DEF VisitOK
    <3>. HIDE DEF r
    <3>. QED BY <1>a, <3>1, <3>5
  <2>2. ASSUME NEW v \in Visits,
               UpdateUser(v) \/ \E u \in Accounts : DeleteUser(v, u) \/ ResetUserTOTP(v, u) \/ \E a \in BOOLEAN : CreateUser(v, u, a)
        PROVE  Goal /\ visit' \in [Visits -> VisitRow]
    BY <1>c, <2>2 DEF UpdateUser, DeleteUser, ResetUserTOTP, CreateUser
  <2>. QED BY <1>3, <2>1, <2>2 DEF AdminNext
<1>4. CASE \/ \E u \in Accounts : LockExpires(u)
           \/ \E t \in Tokens : CleanupExpired(t) \/ Logout(t)
           \/ UNCHANGED accessVars
  BY <1>d, <1>4 DEF LockExpires, CleanupExpired, Logout, accessVars
<1>5. CASE \E f \in BOOLEAN : BootstrapAdmin(f)
  <2>1. visit' = [v \in Visits |-> Away]
    BY <1>5 DEF BootstrapAdmin
  <2>2. Away \in VisitRow
    BY DEF VisitRow
  <2>. QED BY <1>b, <2>1, <2>2
<1>. QED BY <1>1, <1>2, <1>3, <1>4, <1>5 DEF AccessNext

-----------------------------------------------------------------------------
SessionOK(s, rows) ==
    /\ s \in SessionRow
    /\ s.alive => /\ rows[s.user].exists
                  /\ s.pw \in {0, rows[s.user].pw}
                  /\ s.verified /\ s.from = "login" => s.since = rows[s.user].resets

SessionsHold == session \in [Tokens -> SessionRow] /\ \A t \in Tokens : SessionOK(session[t], account)

\* No session ends.
LEMMA EndsNone == session \in [Tokens -> SessionRow] => session = Ended({})
BY DEF Ended

\* Sessions that go on keep what they rest on, or they are among those that end.
LEMMA Ends ==
    ASSUME AccountsKnown, SessionsHold, NEW gone,
           NEW u \in Accounts, NEW row, Set(u, row),
           \/ row.exists = account[u].exists /\ row.pw = account[u].pw /\ row.resets = account[u].resets
           \/ SessionsOf(u) \subseteq gone
           \/ ~account[u].exists
    PROVE  Ended(gone) \in [Tokens -> SessionRow] /\ \A t \in Tokens : SessionOK(Ended(gone)[t], account')
<1>1. NoSession \in SessionRow /\ SessionOK(NoSession, account')
  BY DEF SessionRow, SessionOK, NoSession
<1>2. \A t \in Tokens : Ended(gone)[t] = IF t \in gone THEN NoSession ELSE session[t]
  BY DEF Ended
<1>3. Ended(gone) \in [Tokens -> SessionRow]
  BY <1>1 DEF Ended, SessionsHold
<1>4. ASSUME NEW t \in Tokens PROVE SessionOK(Ended(gone)[t], account')
  <2>1. CASE t \in gone
    BY <1>1, <1>2, <2>1
  <2>2. CASE t \notin gone
    <3>. DEFINE s == session[t]
    <3>1. SessionOK(s, account) /\ Ended(gone)[t] = s
      BY <1>2, <2>2 DEF SessionsHold
    <3>2. CASE ~s.alive
      BY <3>1, <3>2 DEF SessionOK
    <3>3. CASE s.alive
      <4>1. s.user \in Accounts /\ account[s.user].exists
        BY <3>1, <3>3, SessionKinds DEF SessionOK
      <4>2. s.user = u => t \in SessionsOf(u)
        BY <3>3 DEF SessionsOf, Signed
      <4>3. account' = [account EXCEPT ![u] = row] /\ account \in [Accounts -> AccountRow]
        BY DEF Set, AccountsKnown
      <4>4. /\ account'[s.user].exists = account[s.user].exists
            /\ account'[s.user].pw = account[s.user].pw
            /\ account'[s.user].resets = account[s.user].resets
        BY <2>2, <4>1, <4>2, <4>3
      <4>. QED BY <3>1, <4>4 DEF SessionOK
    <3>. QED BY <3>2, <3>3
  <2>. QED BY <2>1, <2>2
<1>. QED BY <1>3, <1>4

\* Sessions end while the rows stay.
LEMMA EndsSame ==
    ASSUME SessionsHold, NEW gone, UNCHANGED account
    PROVE  Ended(gone) \in [Tokens -> SessionRow] /\ \A t \in Tokens : SessionOK(Ended(gone)[t], account')
<1>1. NoSession \in SessionRow /\ SessionOK(NoSession, account')
  BY DEF SessionRow, SessionOK, NoSession
<1>. QED BY <1>1 DEF Ended, SessionsHold

\* A session is opened on what the row says now.
LEMMA Opens ==
    ASSUME NEW kept \in [Tokens -> SessionRow], \A t \in Tokens : SessionOK(kept[t], account'),
           NEW how \in {"login", "change"}, NEW u \in Accounts, NEW hash \in Nat, NEW proven \in BOOLEAN, NEW resets \in Nat,
           Opened(kept, how, u, hash, proven, resets),
           account'[u].exists, hash \in {0, account'[u].pw},
           proven /\ how = "login" => resets = account'[u].resets
    PROVE  SessionsHold'
<1>. DEFINE s == [user |-> u, alive |-> TRUE, pw |-> hash, verified |-> proven, since |-> resets, from |-> how]
<1>1. PICK t \in Tokens : session' = [kept EXCEPT ![t] = s]
  BY DEF Opened
<1>2. s \in LiveSession
  BY DEF LiveSession
<1>3. s \in SessionRow
  BY <1>2 DEF SessionRow
<1>4. s.user = u /\ s.pw = hash /\ s.verified = proven /\ s.since = resets /\ s.from = how
  OBVIOUS
<1>. HIDE DEF s
<1>5. SessionOK(s, account')
  BY <1>3, <1>4 DEF SessionOK
<1>. QED BY <1>1, <1>3, <1>5 DEF SessionsHold

\* Every step keeps the sessions proven.
LEMMA SessionsStep ==
    ASSUME AccountsKnown, RequestsTyped, VisitsHold, SessionsHold, [AccessNext]_accessVars
    PROVE  SessionsHold'
<1>0. session \in [Tokens -> SessionRow] /\ session = Ended({}) /\ account \in [Accounts -> AccountRow]
  BY EndsNone DEF SessionsHold, AccountsKnown
<1>a. ASSUME NEW gone, UNCHANGED account, session' = Ended(gone) PROVE SessionsHold'
  BY <1>a, EndsSame DEF SessionsHold
<1>b. ASSUME NEW gone, NEW u \in Accounts, NEW row, Set(u, row), session' = Ended(gone),
             \/ row.exists = account[u].exists /\ row.pw = account[u].pw /\ row.resets = account[u].resets
             \/ SessionsOf(u) \subseteq gone
             \/ ~account[u].exists
      PROVE  SessionsHold'
  BY <1>b, Ends DEF SessionsHold
<1>c. ASSUME UNCHANGED <<account, session>> PROVE SessionsHold'
  BY <1>0, <1>a, <1>c
<1>k. ASSUME NEW u \in Accounts, NEW row, Set(u, row), UNCHANGED session,
             row.exists = account[u].exists /\ row.pw = account[u].pw /\ row.resets = account[u].resets
      PROVE  SessionsHold'
  BY <1>0, <1>b, <1>k
<1>u. \A v \in Visits : visit[v].at # "away" => visit[v].user \in Accounts
  BY VisitKinds DEF RequestsTyped
<1>1. CASE SignInNext
  <2>1. ASSUME NEW v \in Visits,
               \/ ReserveSecondFactorAttempt(v) \/ (\E s \in TimeSteps : SpendCode(v, s))
               \/ (\E c \in 1..changes : ConsumeBackupCode(v, c)) \/ ReleaseSecondFactorAttempt(v)
               \/ ResetSecondFactorFailures(v)
               \/ \E u \in Accounts, k \in 1..changes : SuspendPasskey(v, u, k)
        PROVE  SessionsHold'
    <3>1. UNCHANGED session
      BY <2>1 DEF ReserveSecondFactorAttempt, SpendCode, ConsumeBackupCode, ReleaseSecondFactorAttempt,
                  ResetSecondFactorFailures, SuspendPasskey
    <3>2. CASE UNCHANGED account
      BY <1>c, <3>1, <3>2
    <3>3. CASE account' # account
      <4>1. PICK u \in Accounts : \E row :
               /\ Set(u, row)
               /\ row.exists = account[u].exists /\ row.pw = account[u].pw /\ row.resets = account[u].resets
        <5>. USE RowFacts DEF AccountRow
        <5>1. CASE ReserveSecondFactorAttempt(v) \/ ResetSecondFactorFailures(v)
          <6>1. visit[v].user \in Accounts
            BY <1>u, <5>1 DEF ReserveSecondFactorAttempt, ResetSecondFactorFailures
          <6>2. PICK f, l : Set(visit[v].user, [account[visit[v].user] EXCEPT !.failures = f, !.locked = l])
            BY <3>3, <5>1 DEF ReserveSecondFactorAttempt, ResetSecondFactorFailures
          <6>. DEFINE row == [account[visit[v].user] EXCEPT !.failures = f, !.locked = l]
          <6>3. /\ row.exists = account[visit[v].user].exists /\ row.pw = account[visit[v].user].pw
                /\ row.resets = account[visit[v].user].resets
            BY <6>1
          <6>4. Set(visit[v].user, row)
            BY <6>2
          <6>. HIDE DEF row
          <6>. QED BY <6>1, <6>3, <6>4
        <5>2. CASE ReleaseSecondFactorAttempt(v)
          BY <1>u, <5>2 DEF ReleaseSecondFactorAttempt
        <5>3. CASE \E s \in TimeSteps : SpendCode(v, s)
          BY <1>u, <5>3 DEF SpendCode
        <5>4. CASE \E c \in 1..changes : ConsumeBackupCode(v, c)
          BY <1>u, <5>4 DEF ConsumeBackupCode
        <5>5. CASE \E u \in Accounts, k \in 1..changes : SuspendPasskey(v, u, k)
          BY <5>5 DEF SuspendPasskey
        <5>. QED BY <2>1, <5>1, <5>2, <5>3, <5>4, <5>5
      <4>. QED BY <1>k, <3>1, <4>1
    <3>. QED BY <3>2, <3>3
  <2>2. ASSUME NEW v \in Visits, CreatePasswordSession(v) PROVE SessionsHold'
    <3>. DEFINE u == visit[v].user
                p == visit[v].secret # 0
    <3>0. UNCHANGED account
      BY <2>2 DEF CreatePasswordSession, SameRows
    <3>1. CASE UNCHANGED session
      BY <1>c, <3>0, <3>1
    <3>2. CASE ~UNCHANGED session
      <4>1. Opened(session, "login", u, visit[v].pw, p, visit[v].resets) /\ SamePassword(v) /\ (p => SameSecret(v)) /\ visit[v].at = "proven"
        BY <2>2, <3>2 DEF CreatePasswordSession
      <4>2. visit[v] \in SignInVisit
        BY <4>1, VisitKinds DEF RequestsTyped
      <4>3. u \in Accounts /\ visit[v].pw \in Nat /\ visit[v].resets \in Nat
        BY <4>2 DEF SignInVisit
      <4>4. p => visit[v].resets = account[u].resets
        BY <4>1 DEF VisitsHold, VisitOK, SameSecret
      <4>5. account'[u].exists /\ visit[v].pw \in {0, account'[u].pw}
        BY <3>0, <4>1 DEF SamePassword
      <4>6. \A t \in Tokens : SessionOK(session[t], account')
        BY <3>0 DEF SessionsHold
      <4>7. ASSUME NEW b \in BOOLEAN, b = p PROVE SessionsHold'
        <5>. HIDE DEF p, u
        <5>1. Opened(session, "login", u, visit[v].pw, b, visit[v].resets)
          BY <4>1, <4>7
        <5>. QED BY <1>0, <3>0, <4>3, <4>4, <4>5, <4>6, <4>7, <5>1, Opens
      <4>. QED BY <4>7
    <3>. QED BY <3>1, <3>2
  <2>3. ASSUME NEW v \in Visits, CreatePasskeySession(v) PROVE SessionsHold'
    <3>. DEFINE u == visit[v].user
    <3>0. UNCHANGED account
      BY <2>3 DEF CreatePasskeySession, SameRows
    <3>1. CASE UNCHANGED session
      BY <1>c, <3>0, <3>1
    <3>2. CASE ~UNCHANGED session
      <4>1. Opened(session, "login", u, 0, TRUE, visit[v].resets) /\ visit[v].key \in account[u].keys /\ visit[v].at = "asserted"
        BY <2>3, <3>2 DEF CreatePasskeySession
      <4>2. visit[v] \in AssertedVisit
        BY <4>1, VisitKinds DEF RequestsTyped
      <4>3. u \in Accounts /\ visit[v].resets \in Nat
        BY <4>2 DEF AssertedVisit
      <4>4. visit[v].resets = account[u].resets
        BY <4>1 DEF VisitsHold, VisitOK
      <4>5. account'[u].exists
        BY <3>0, <4>1, <4>3, RowFacts DEF KnownRow
      <4>6. \A t \in Tokens : SessionOK(session[t], account')
        BY <3>0 DEF SessionsHold
      <4>. HIDE DEF u
      <4>7. TRUE \in BOOLEAN /\ 0 \in Nat /\ "login" \in {"login", "change"}
        OBVIOUS
      <4>. QED BY <1>0, <3>0, <4>1, <4>3, <4>4, <4>5, <4>6, <4>7, Opens
    <3>. QED BY <3>1, <3>2
  <2>4. ASSUME NEW v \in Visits,
               \/ \E u \in Accounts : Authenticate(v, u) \/ \E k \in 1..changes : FinishLogin(v, u, k)
               \/ PasskeyLoginBegin \/ PasskeyRefused \/ RefuseCode(v)
        PROVE  SessionsHold'
    BY <1>c, <2>4 DEF Authenticate, FinishLogin, PasskeyLoginBegin, PasskeyRefused, RefuseCode, SameRows
  <2>. QED BY <1>1, <2>1, <2>2, <2>3, <2>4 DEF SignInNext, Login
<1>2. CASE OwnNext
  <2>1. ASSUME NEW v \in Visits, ChangePassword(v) PROVE SessionsHold'
    <3>1. CASE UNCHANGED <<account, session>>
      BY <1>c, <3>1
    <3>2. CASE ~UNCHANGED <<account, session>>
      <4>. DEFINE u == visit[v].user
                  row == [account[u] EXCEPT !.pw = Fresh]
                  kept == Ended(SessionsOf(u))
      <4>1. /\ visit[v].at = "password" /\ account[u].exists /\ Set(u, row)
            /\ Opened(kept, "change", u, Fresh, visit[v].verified, visit[v].resets)
        BY <2>1, <3>2 DEF ChangePassword, SamePassword, Rotated, SignedOut
      <4>2. visit[v] \in VerifiedVisit
        BY <4>1, VisitKinds DEF RequestsTyped
      <4>3. u \in Accounts /\ visit[v].verified \in BOOLEAN /\ visit[v].resets \in Nat
        BY <4>2 DEF VerifiedVisit
      <4>4. kept \in [Tokens -> SessionRow] /\ \A t \in Tokens : SessionOK(kept[t], account')
        BY <4>1, <4>3, Ends
      <4>5. Fresh \in Nat
        BY DEF Fresh, AccountsKnown
      <4>6. account'[u].exists /\ account'[u].pw = Fresh
        BY <1>0, <4>1, <4>3, <4>5, RowFacts DEF Set, AccountRow
      <4>. HIDE DEF u, kept, row
      <4>7. "change" \in {"login", "change"} /\ Fresh \in {0, account'[u].pw}
        BY <4>6
      <4>. QED BY <4>1, <4>3, <4>4, <4>5, <4>6, <4>7, Opens
    <3>. QED BY <3>1, <3>2
  <2>2. ASSUME NEW v \in Visits,
               \/ TOTPDisable(v) \/ TOTPRegenerateBackup(v) \/ TOTPSetup(v)
               \/ (\E s \in TimeSteps : TOTPEnable(v, s))
               \/ PasskeyRegisterFinish(v) \/ \E k \in 1..changes : DeletePasskey(v, k)
        PROVE  SessionsHold'
    <3>1. UNCHANGED session
      BY <2>2 DEF TOTPDisable, TOTPRegenerateBackup, TOTPSetup, TOTPEnable, PasskeyRegisterFinish, DeletePasskey
    <3>2. PICK u \in Accounts : \E row :
             /\ Set(u, row)
             /\ row.exists = account[u].exists /\ row.pw = account[u].pw /\ row.resets = account[u].resets
      <4>. USE <1>u, RowFacts DEF AccountRow
      <4>1. CASE TOTPDisable(v)
        <5>. DEFINE u == visit[v].user
                    row == FactorsOff(account[u])
        <5>1. u \in Accounts /\ Set(u, row)
          BY <4>1 DEF TOTPDisable
        <5>2. row.exists = account[u].exists /\ row.pw = account[u].pw /\ row.resets = account[u].resets
          BY <5>1 DEF FactorsOff
        <5>. HIDE DEF u, row
        <5>. QED BY <5>1, <5>2
      <4>2. CASE TOTPRegenerateBackup(v)
        BY <4>2 DEF TOTPRegenerateBackup
      <4>3. CASE TOTPSetup(v)
        BY <4>3 DEF TOTPSetup
      <4>4. CASE \E s \in TimeSteps : TOTPEnable(v, s)
        <5>. PICK s \in TimeSteps : TOTPEnable(v, s)
          BY <4>4
        <5>. DEFINE u == visit[v].user
                    row == [account[u] EXCEPT !.secret = account[u].pending, !.pending = 0, !.step = s,
                                              !.failures = 0, !.locked = FALSE, !.backup = FreshCodes]
        <5>1. u \in Accounts /\ Set(u, row)
          BY DEF TOTPEnable
        <5>2. row.exists = account[u].exists /\ row.pw = account[u].pw /\ row.resets = account[u].resets
          BY <5>1
        <5>. HIDE DEF u, row
        <5>. QED BY <5>1, <5>2
      <4>5. CASE PasskeyRegisterFinish(v)
        BY <4>5 DEF PasskeyRegisterFinish
      <4>6. CASE \E k \in 1..changes : DeletePasskey(v, k)
        BY <4>6 DEF DeletePasskey
      <4>. QED BY <2>2, <4>1, <4>2, <4>3, <4>4, <4>5, <4>6
    <3>. QED BY <1>k, <3>1, <3>2
  <2>3. ASSUME NEW v \in Visits,
               \/ \E t \in Tokens, e \in BOOLEAN : RequireAuth(v, t, e)
               \/ \E p \in {"password", "disable", "codes"} : AuthenticateUserID(v, p)
               \/ PasskeyRegisterBegin(v)
        PROVE  SessionsHold'
    BY <1>c, <2>3 DEF RequireAuth, AuthenticateUserID, PasskeyRegisterBegin, SameRows
  <2>4. ASSUME NEW v \in Visits, (\E t \in Tokens : RevokeSession(v, t)) \/ RevokeOtherSessions(v) PROVE SessionsHold'
    BY <1>a, <2>4 DEF RevokeSession, RevokeOtherSessions, SameRows
  <2>. QED BY <1>2, <2>1, <2>2, <2>3, <2>4 DEF OwnNext
<1>3. CASE AdminNext
  <2>1. ASSUME NEW v \in Visits, UpdateUser(v) PROVE SessionsHold'
    <3>1. CASE UNCHANGED <<account, session>>
      BY <1>c, <3>1
    <3>2. CASE ~UNCHANGED <<account, session>>
      <4>. DEFINE u == visit[v].user
                  edit == visit[v].to
                  off == IF edit.off = "keep" THEN visit[v].wasOff ELSE edit.off = "yes"
                  row == [account[u] EXCEPT !.admin = edit.admin, !.disabled = off,
                                            !.pw = IF edit.reset THEN Fresh ELSE @]
      <4>1. u \in Accounts
        BY <1>u, <2>1 DEF UpdateUser
      <4>2. Set(u, row) /\ session' = IF edit.reset \/ (off /\ ~visit[v].wasOff) THEN SignedOut(u) ELSE session
        BY <2>1, <3>2 DEF UpdateUser
      <4>3. row.exists = account[u].exists /\ row.resets = account[u].resets /\ (~edit.reset => row.pw = account[u].pw)
        BY <4>1, RowFacts DEF AccountRow
      <4>. HIDE DEF row, u, edit, off
      <4>4. CASE session' = SignedOut(u)
        BY <1>b, <4>1, <4>2, <4>4 DEF SignedOut
      <4>5. CASE session' # SignedOut(u)
        BY <1>k, <4>1, <4>2, <4>3, <4>5
      <4>. QED BY <4>4, <4>5
    <3>. QED BY <3>1, <3>2
  <2>2. ASSUME NEW v \in Visits, NEW u \in Accounts, NEW a \in BOOLEAN, CreateUser(v, u, a) PROVE SessionsHold'
    BY <1>0, <1>b, <2>2 DEF CreateUser
  <2>3. ASSUME NEW v \in Visits, NEW u \in Accounts, DeleteUser(v, u) \/ ResetUserTOTP(v, u) PROVE SessionsHold'
    BY <1>b, <2>3 DEF DeleteUser, ResetUserTOTP, SignedOut
  <2>4. ASSUME NEW v \in Visits, NEW u \in Accounts, NEW e \in Edits, EditUser(v, u, e) PROVE SessionsHold'
    BY <1>c, <2>4 DEF EditUser, SameRows
  <2>. QED BY <1>3, <2>1, <2>2, <2>3, <2>4 DEF AdminNext
<1>4. ASSUME NEW u \in Accounts, LockExpires(u) PROVE SessionsHold'
  BY <1>k, <1>4, RowFacts DEF LockExpires, AccountRow
<1>5. ASSUME NEW t \in Tokens, CleanupExpired(t) \/ Logout(t) PROVE SessionsHold'
  BY <1>a, <1>5 DEF CleanupExpired, Logout, SameRows
<1>6. ASSUME NEW f \in BOOLEAN, BootstrapAdmin(f) PROVE SessionsHold'
  <2>. DEFINE u == Operator
  <2>0. u \in Accounts
    BY AccessAssumption
  <2>1. CASE session' = SignedOut(u)
    BY <1>0, <1>b, <1>6, <2>0, <2>1 DEF BootstrapAdmin, SignedOut
  <2>2. CASE UNCHANGED session /\ ~account[u].exists
    BY <1>0, <1>b, <1>6, <2>0, <2>2 DEF BootstrapAdmin
  <2>3. CASE UNCHANGED session /\ Set(u, [account[u] EXCEPT !.admin = TRUE])
    BY <1>k, <2>0, <2>3, RowFacts DEF AccountRow
  <2>. QED BY <1>6, <2>1, <2>2, <2>3 DEF BootstrapAdmin
<1>7. CASE UNCHANGED accessVars
  BY <1>c, <1>7 DEF accessVars
<1>. QED BY <1>1, <1>2, <1>3, <1>4, <1>5, <1>6, <1>7 DEF AccessNext

-----------------------------------------------------------------------------
TotpCode(u, x, s) == <<"totp", u, x, s>>
BackupCode(u, c)  == <<"backup", u, c, 0>>

\* Of a code that was accepted: the secret is in force with at least its step, or
\* never will be again; the recovery code is gone.
SpentOK(S, rows, n) ==
    /\ \A e \in S : e[2] = 1
    /\ \A u \in Accounts : \A x, s : <<TotpCode(u, x, s), 1>> \in S =>
          /\ x \in Nat \ {0} /\ x <= n /\ s \in Nat /\ rows[u].pending # x
          /\ rows[u].secret = x => s <= rows[u].step
    /\ \A u \in Accounts : \A c : <<BackupCode(u, c), 1>> \in S => c \in Nat /\ c <= n /\ c \notin rows[u].backup

SpentHolds == SpentOK(spent, account, changes)

\* What was accepted stays unrepeatable, as long as nothing is accepted.
LEMMA SpentKept ==
    ASSUME AccountsKnown, AccountsMove, SpentHolds
    PROVE  SpentOK(spent, account', changes')
<1>1. changes \in Nat /\ changes' \in Nat /\ changes <= changes'
  BY DEF AccountsKnown, AccountsMove
<1>2. ASSUME NEW u \in Accounts, NEW x, NEW s, <<TotpCode(u, x, s), 1>> \in spent
      PROVE  /\ x \in Nat \ {0} /\ x <= changes' /\ s \in Nat /\ account'[u].pending # x
             /\ account'[u].secret = x => s <= account'[u].step
  <2>1. /\ x \in Nat \ {0} /\ x <= changes /\ s \in Nat /\ account[u].pending # x
        /\ account[u].secret = x => s <= account[u].step
    BY <1>2 DEF SpentHolds, SpentOK
  <2>2. RowMoves(account[u], account'[u], changes, changes')
    BY DEF AccountsMove
  <2>3. account[u].step \in Nat /\ account'[u].step \in Nat /\ account'[u].pending \in Nat
    BY DEF AccountsKnown, AccountsMove, AccountRow
  <2>. QED BY <1>1, <2>1, <2>2, <2>3 DEF RowMoves
<1>3. ASSUME NEW u \in Accounts, NEW c, <<BackupCode(u, c), 1>> \in spent
      PROVE  c \in Nat /\ c <= changes' /\ c \notin account'[u].backup
  <2>1. c \in Nat /\ c <= changes /\ c \notin account[u].backup
    BY <1>3 DEF SpentHolds, SpentOK
  <2>2. RowMoves(account[u], account'[u], changes, changes')
    BY DEF AccountsMove
  <2>. QED BY <1>1, <2>1, <2>2 DEF RowMoves
<1>. QED BY <1>2, <1>3 DEF SpentHolds, SpentOK

\* A code tells whose it is, of which secret and of which step.
LEMMA CodesDiffer ==
    /\ \A u, x, s, w, y, r : TotpCode(u, x, s) = TotpCode(w, y, r) => u = w /\ x = y /\ s = r
    /\ \A u, c, w, d : BackupCode(u, c) = BackupCode(w, d) => u = w /\ c = d
    /\ \A u, x, s, w, d : TotpCode(u, x, s) # BackupCode(w, d)
    /\ \A c, d : <<c, 1>> = <<d, 1>> => c = d
    /\ \A c : <<c, 1>>[2] = 1
BY DEF TotpCode, BackupCode

\* A code of the authenticator is accepted.
LEMMA TotpSpent ==
    ASSUME NEW S, NEW rows, NEW n, SpentOK(S, rows, n), NEW u \in Accounts, NEW x \in Nat \ {0}, NEW s \in Nat, x <= n,
           rows[u].pending # x, rows[u].secret = x => s <= rows[u].step
    PROVE  SpentOK(S \cup {<<TotpCode(u, x, s), 1>>}, rows, n)
BY CodesDiffer DEF SpentOK

\* A recovery code is accepted.
LEMMA BackupSpent ==
    ASSUME NEW S, NEW rows, NEW n, SpentOK(S, rows, n), NEW u \in Accounts, NEW c \in Nat, c <= n, c \notin rows[u].backup
    PROVE  SpentOK(S \cup {<<BackupCode(u, c), 1>>}, rows, n)
BY CodesDiffer DEF SpentOK

\* No step makes a spent code acceptable again.
LEMMA SpentStep ==
    ASSUME AccountsKnown, RequestsTyped, VisitsHold, SpentHolds, [AccessNext]_accessVars
    PROVE  SpentHolds'
<1>0. AccountsMove /\ SpentOK(spent, account', changes') /\ changes \in Nat /\ changes' \in Nat
  BY RowsMove, SpentKept DEF AccountsKnown, AccountsMove
<1>1. CASE UNCHANGED spent
  BY <1>0, <1>1 DEF SpentHolds
<1>2. ASSUME NEW v \in Visits, NEW s \in TimeSteps, SpendCode(v, s) PROVE SpentHolds'
  <2>. DEFINE u == visit[v].user
              x == visit[v].secret
  <2>1. /\ visit[v].at = "code" /\ account[u].secret = x /\ account[u].step < s
        /\ Set(u, [account[u] EXCEPT !.step = s])
        /\ spent' = spent \cup {<<TotpCode(u, x, s), IF <<TotpCode(u, x, s), 1>> \in spent THEN 2 ELSE 1>>}
        /\ changes' = changes
    BY <1>2 DEF SpendCode, UnusedStep, SameSecret, Accepted, TotpCode, SameRest
  <2>2. visit[v] \in SignInVisit /\ s \in Nat
    BY <2>1, VisitKinds, AccessAssumption DEF RequestsTyped
  <2>3. u \in Accounts /\ x \in Nat \ {0} /\ x <= changes /\ account[u].pending # x
    BY <2>1, <2>2 DEF VisitsHold, VisitOK, SignInVisit
  <2>4. account[u].step \in Nat /\ account'[u].step = s /\ account'[u].pending = account[u].pending
    BY <2>1, <2>2, <2>3, RowFacts DEF Set, AccountsKnown, AccountRow
  <2>5. <<TotpCode(u, x, s), 1>> \notin spent
    BY <2>1, <2>2, <2>3, <2>4 DEF SpentHolds, SpentOK
  <2>6. spent' = spent \cup {<<TotpCode(u, x, s), 1>>}
    BY <2>1, <2>5
  <2>. HIDE DEF u, x
  <2>7. SpentOK(spent \cup {<<TotpCode(u, x, s), 1>>}, account', changes')
    BY <1>0, <2>1, <2>2, <2>3, <2>4, TotpSpent
  <2>. QED BY <2>6, <2>7 DEF SpentHolds
<1>3. ASSUME NEW v \in Visits, NEW c \in 1..changes, ConsumeBackupCode(v, c) PROVE SpentHolds'
  <2>. DEFINE u == visit[v].user
  <2>1. /\ visit[v].at = "code" /\ c \in account[u].backup
        /\ Set(u, [account[u] EXCEPT !.backup = @ \ {c}])
        /\ spent' = spent \cup {<<BackupCode(u, c), IF <<BackupCode(u, c), 1>> \in spent THEN 2 ELSE 1>>}
        /\ changes' = changes
    BY <1>3 DEF ConsumeBackupCode, Accepted, BackupCode, SameRest
  <2>2. u \in Accounts /\ c \in Nat /\ c <= changes
    BY <1>0, <2>1, VisitKinds DEF RequestsTyped
  <2>3. c \notin account'[u].backup
    BY <2>1, <2>2, RowFacts DEF Set, AccountsKnown, AccountRow
  <2>4. <<BackupCode(u, c), 1>> \notin spent
    BY <2>1, <2>2 DEF SpentHolds, SpentOK
  <2>5. spent' = spent \cup {<<BackupCode(u, c), 1>>}
    BY <2>1, <2>4
  <2>. HIDE DEF u
  <2>6. SpentOK(spent \cup {<<BackupCode(u, c), 1>>}, account', changes')
    BY <1>0, <2>1, <2>2, <2>3, BackupSpent
  <2>. QED BY <2>5, <2>6 DEF SpentHolds
<1>4. ASSUME NEW v \in Visits, NEW s \in TimeSteps, TOTPEnable(v, s) PROVE SpentHolds'
  <2>. DEFINE u == visit[v].user
              x == account[u].pending
              row == [account[u] EXCEPT !.secret = x, !.pending = 0, !.step = s, !.failures = 0, !.locked = FALSE, !.backup = FreshCodes]
  <2>1. /\ visit[v].at = "in" /\ x # 0 /\ Set(u, row)
        /\ spent' = spent \cup {<<TotpCode(u, x, s), IF <<TotpCode(u, x, s), 1>> \in spent THEN 2 ELSE 1>>}
    BY <1>4 DEF TOTPEnable, Accepted, TotpCode
  <2>2. u \in Accounts /\ s \in Nat
    BY <2>1, VisitKinds, AccessAssumption DEF RequestsTyped
  <2>3. x \in Nat \ {0} /\ x <= changes'
    BY <1>0, <2>1, <2>2, RowFacts DEF KnownRow, AccountsMove
  <2>4. row.pending = 0 /\ row.step = s
    BY <2>2, RowFacts DEF AccountRow
  <2>5. account'[u] = row
    BY <2>1, <2>2 DEF Set, AccountsKnown
  <2>6. <<TotpCode(u, x, s), 1>> \notin spent
    BY <2>2 DEF SpentHolds, SpentOK
  <2>7. spent' = spent \cup {<<TotpCode(u, x, s), 1>>}
    BY <2>1, <2>6
  <2>. HIDE DEF u, x, row
  <2>8. SpentOK(spent \cup {<<TotpCode(u, x, s), 1>>}, account', changes')
    <3>1. account'[u].pending # x /\ (account'[u].secret = x => s <= account'[u].step)
      BY <2>2, <2>3, <2>4, <2>5
    <3>. QED BY <1>0, <2>2, <2>3, <3>1, TotpSpent
  <2>. QED BY <2>7, <2>8 DEF SpentHolds
<1>5. CASE UNCHANGED accessVars
  BY <1>1, <1>5 DEF accessVars
<1>6. CASE SignInNext
  BY <1>1, <1>2, <1>3, <1>6 DEF SignInNext, Login, Authenticate, FinishLogin, SuspendPasskey, PasskeyLoginBegin, PasskeyRefused,
        ReserveSecondFactorAttempt, RefuseCode, ReleaseSecondFactorAttempt, ResetSecondFactorFailures,
        CreatePasswordSession, CreatePasskeySession, SameRows
<1>7. CASE OwnNext
  BY <1>1, <1>4, <1>7 DEF OwnNext, RequireAuth, RevokeSession, RevokeOtherSessions, AuthenticateUserID, ChangePassword, TOTPDisable,
        TOTPRegenerateBackup, TOTPSetup, PasskeyRegisterBegin, PasskeyRegisterFinish, DeletePasskey, SameRows
<1>8. CASE AdminNext \/ (\E u \in Accounts : LockExpires(u)) \/ (\E t \in Tokens : CleanupExpired(t) \/ Logout(t))
           \/ (\E f \in BOOLEAN : BootstrapAdmin(f))
  BY <1>1, <1>8 DEF AdminNext, UpdateUser, CreateUser, EditUser, DeleteUser, ResetUserTOTP, LockExpires, CleanupExpired, Logout,
        BootstrapAdmin, SameRows
<1>. QED BY <1>5, <1>6, <1>7, <1>8 DEF AccessNext

-----------------------------------------------------------------------------
AccessBase == AccountsKnown /\ RequestsTyped /\ VisitsHold /\ SessionsHold /\ SpentHolds

\* The inductive invariant holds at the start.
LEMMA AccessBaseStart == AccessInit => AccessBase
<1>. SUFFICES ASSUME AccessInit PROVE AccessBase
  OBVIOUS
<1>1. PICK admins \in SUBSET Accounts, off \in SUBSET Accounts, s \in [Accounts -> {0, 1}] :
         account = [u \in Accounts |->
              [NewAccount(u \in admins, 1) EXCEPT !.disabled = u \in off, !.secret = s[u],
                                                 !.backup = IF s[u] = 0 THEN {} ELSE {1}]]
  BY DEF AccessInit
<1>2. ASSUME NEW a \in BOOLEAN, NEW d \in BOOLEAN, NEW x \in {0, 1}, NEW b \in SUBSET {1}, NEW row,
             row = [NewAccount(a, 1) EXCEPT !.disabled = d, !.secret = x, !.backup = b]
      PROVE  KnownRow(row, 1)
  <2>0. x \in Nat /\ b \in SUBSET Nat
    OBVIOUS
  <2>1. ASSUME NEW r \in AccountRow PROVE [r EXCEPT !.disabled = d, !.secret = x, !.backup = b] \in AccountRow
    BY <2>0 DEF AccountRow
  <2>2. NewAccount(a, 1) \in AccountRow
    BY DEF NewAccount, AccountRow
  <2>3. row \in AccountRow
    BY <1>2, <2>1, <2>2
  <2>4. row.pw = 1 /\ row.secret = x /\ row.pending = 0 /\ row.backup = b /\ row.keys = {}
    BY <1>2 DEF NewAccount
  <2>. QED BY <2>3, <2>4 DEF KnownRow, AccountRow
<1>3. ASSUME NEW u \in Accounts PROVE KnownRow(account[u], 1)
  <2>1. /\ (u \in admins) \in BOOLEAN /\ (u \in off) \in BOOLEAN /\ s[u] \in {0, 1}
        /\ (IF s[u] = 0 THEN {} ELSE {1}) \in SUBSET {1}
    OBVIOUS
  <2>2. account[u] = [NewAccount(u \in admins, 1) EXCEPT !.disabled = u \in off, !.secret = s[u],
                                                 !.backup = IF s[u] = 0 THEN {} ELSE {1}]
    BY <1>1
  <2>. HIDE DEF NewAccount
  <2>. QED BY <1>2, <2>1, <2>2, Zenon
<1>4. changes = 1 /\ session = [t \in Tokens |-> NoSession] /\ visit = [v \in Visits |-> Away] /\ spent = {}
  BY DEF AccessInit
<1>5. AccountsKnown
  <2>1. account \in [Accounts -> AccountRow]
    BY <1>1, <1>3 DEF KnownRow
  <2>. QED BY <1>3, <1>4, <2>1 DEF AccountsKnown
<1>6. RequestsTyped /\ VisitsHold
  BY <1>4 DEF RequestsTyped, VisitsHold, VisitOK, VisitRow, SessionRow, Away
<1>7. SessionsHold
  BY <1>4 DEF SessionsHold, SessionOK, SessionRow, NoSession
<1>8. SpentHolds
  BY <1>4 DEF SpentHolds, SpentOK
<1>. QED BY <1>5, <1>6, <1>7, <1>8 DEF AccessBase

\* The inductive invariant is kept by every step.
LEMMA AccessBaseStep == AccessBase /\ [AccessNext]_accessVars => AccessBase'
<1>. SUFFICES ASSUME AccessBase, [AccessNext]_accessVars PROVE AccessBase'
  OBVIOUS
<1>1. AccountsKnown' /\ VisitsHold' /\ SessionsHold' /\ SpentHolds' /\ visit' \in [Visits -> VisitRow]
  BY RowsMove, VisitsStep, SessionsStep, SpentStep DEF AccessBase, AccountsMove
<1>. QED BY <1>1 DEF AccessBase, RequestsTyped, SessionsHold

(* A code of the authenticator, the enrolment's included, and a recovery code are accepted once,     *)
(* however the sign-ins that present it overlap (spendTOTPStep, consumeBackupCode, TOTPEnable).      *)
THEOREM CodesAreSpentOnce == AccessSpec => []CodeSpentOnce
<1>1. AccessBase => CodeSpentOnce
  BY DEF AccessBase, SpentHolds, SpentOK, CodeSpentOnce
<1>. QED BY <1>1, AccessBaseStart, AccessBaseStep, PTL DEF AccessSpec

(* A sign-in that was under way when a password was replaced or a factor reset opens no session      *)
(* (CreatePasswordSession, CreatePasskeySession, RotateSessionTx).                                   *)
THEOREM SessionsStandOnProof == AccessSpec => []SessionsAreProven
<1>1. AccessBase => SessionsAreProven
  <2>. SUFFICES ASSUME AccessBase, NEW t \in Tokens, Signed(t)
                PROVE  LET u == session[t].user
                       IN /\ session[t].pw \in {0, account[u].pw}
                          /\ session[t].verified /\ session[t].from = "login" => session[t].since = account[u].resets
    BY DEF SessionsAreProven
  <2>. QED BY DEF AccessBase, SessionsHold, SessionOK, Signed
<1>. QED BY <1>1, AccessBaseStart, AccessBaseStep, PTL DEF AccessSpec

-----------------------------------------------------------------------------
\* Passkeys belong to one account, whoever holds the locks is about to write, and the
\* changes are counted.
KeysApart     == \A u, w \in Accounts : u # w => account[u].keys \cap account[w].keys = {}
LockHeld      == rowLock.by # "nobody" => rowLock.by \in Visits /\ visit[rowLock.by].at = "edit"
AccessTypeInv == AccessBase /\ KeysApart /\ LockHeld /\ changes \in 1 .. MaxChanges

\* A passkey is fresh when it is saved, so no other account has it.
LEMMA KeysStay ==
    ASSUME AccountsKnown, KeysApart, AccountsMove
    PROVE  KeysApart'
<1>. SUFFICES ASSUME NEW u \in Accounts, NEW w \in Accounts, u # w, NEW k, k \in account'[u].keys, k \in account'[w].keys
              PROVE  FALSE
  BY DEF KeysApart
<1>1. ASSUME NEW x \in Accounts, NEW y \in Accounts, x # y, k \in account'[x].keys, k \in account'[y].keys,
             account'[x] = account[x]
      PROVE  FALSE
  <2>1. k \in account[x].keys /\ k \in Nat /\ k <= changes /\ changes \in Nat
    BY <1>1, RowFacts DEF KnownRow
  <2>2. k \notin account[y].keys
    BY <1>1, <2>1 DEF KeysApart
  <2>3. changes < k
    BY <1>1, <2>2 DEF AccountsMove, RowMoves
  <2>. QED BY <2>1, <2>3
<1>2. account'[u] = account[u] \/ account'[w] = account[w]
  BY DEF AccountsMove
<1>. QED BY <1>1, <1>2

\* Nobody but who holds the locks ends his edit, and only edits take locks.
LEMMA LocksStay ==
    ASSUME RequestsTyped, LockHeld, [AccessNext]_accessVars
    PROVE  LockHeld'
<1>0. visit \in [Visits -> VisitRow] /\ Away.at = "away" /\ Unheld.by = "nobody"
  BY DEF RequestsTyped, Away, Unheld
<1>1. ASSUME NEW v \in Visits, NEW r, visit' = [visit EXCEPT ![v] = r], visit[v].at # "edit", UNCHANGED rowLock
      PROVE  LockHeld'
  BY <1>0, <1>1 DEF LockHeld
<1>2. ASSUME UNCHANGED <<visit, rowLock>> PROVE LockHeld'
  BY <1>2 DEF LockHeld
<1>3. CASE SignInNext
  <2>1. ASSUME NEW v \in Visits, NEW u \in Accounts,
               Authenticate(v, u) \/ \E k \in 1..changes : FinishLogin(v, u, k) \/ SuspendPasskey(v, u, k)
        PROVE  LockHeld'
    <3>1. visit[v].at # "edit" /\ UNCHANGED rowLock
      BY <1>0, <2>1 DEF Authenticate, FinishLogin, SuspendPasskey, SameRest
    <3>2. UNCHANGED visit \/ \E r : visit' = [visit EXCEPT ![v] = r]
      BY <2>1 DEF Authenticate, FinishLogin, SuspendPasskey, Turns
    <3>. QED BY <1>1, <1>2, <3>1, <3>2
  <2>2. ASSUME NEW v \in Visits, Login(v) \/ CreatePasskeySession(v)
        PROVE  LockHeld'
    <3>1. visit[v].at # "edit" /\ UNCHANGED rowLock
      BY <2>2 DEF Login, CreatePasskeySession, ReserveSecondFactorAttempt, SpendCode, ConsumeBackupCode, RefuseCode,
          ReleaseSecondFactorAttempt, ResetSecondFactorFailures, CreatePasswordSession, SameRest
    <3>2. \E r : visit' = [visit EXCEPT ![v] = r]
      BY <2>2 DEF Login, CreatePasskeySession, ReserveSecondFactorAttempt, SpendCode, ConsumeBackupCode, RefuseCode,
          ReleaseSecondFactorAttempt, ResetSecondFactorFailures, CreatePasswordSession, Turns, Leave
    <3>. QED BY <1>1, <3>1, <3>2
  <2>3. ASSUME PasskeyLoginBegin \/ PasskeyRefused PROVE LockHeld'
    BY <1>2, <2>3 DEF PasskeyLoginBegin, PasskeyRefused
  <2>. QED BY <1>3, <2>1, <2>2, <2>3 DEF SignInNext
<1>4. CASE OwnNext
  <2>1. PICK v \in Visits :
           \/ \E t \in Tokens, e \in BOOLEAN : RequireAuth(v, t, e)
           \/ \E t \in Tokens : RevokeSession(v, t)
           \/ RevokeOtherSessions(v)
           \/ \E p \in {"password", "disable", "codes"} : AuthenticateUserID(v, p)
           \/ ChangePassword(v) \/ TOTPDisable(v) \/ TOTPRegenerateBackup(v) \/ TOTPSetup(v)
           \/ \E s \in TimeSteps : TOTPEnable(v, s)
           \/ PasskeyRegisterBegin(v) \/ PasskeyRegisterFinish(v)
           \/ \E k \in 1..changes : DeletePasskey(v, k)
    BY <1>4 DEF OwnNext
  <2>2. visit[v].at # "edit" /\ UNCHANGED rowLock
    BY <1>0, <2>1 DEF RequireAuth, RevokeSession, RevokeOtherSessions, AuthenticateUserID, ChangePassword, TOTPDisable,
        TOTPRegenerateBackup, TOTPSetup, TOTPEnable, PasskeyRegisterBegin, PasskeyRegisterFinish, DeletePasskey, SameRest
  <2>3. \E r : visit' = [visit EXCEPT ![v] = r]
    BY <2>1 DEF RequireAuth, RevokeSession, RevokeOtherSessions, AuthenticateUserID, ChangePassword, TOTPDisable,
        TOTPRegenerateBackup, TOTPSetup, TOTPEnable, PasskeyRegisterBegin, PasskeyRegisterFinish, DeletePasskey, Turns, Leave
  <2>. QED BY <1>1, <2>2, <2>3
<1>5. CASE AdminNext
  <2>1. ASSUME NEW v \in Visits, UpdateUser(v) PROVE LockHeld'
    <3>1. visit' = [visit EXCEPT ![v] = Away] /\ rowLock' = IF rowLock.by = v THEN Unheld ELSE rowLock
      BY <2>1 DEF UpdateUser, Leave
    <3>. QED BY <1>0, <3>1 DEF LockHeld
  <2>2. ASSUME NEW v \in Visits, NEW u \in Accounts,
               (\E a \in BOOLEAN : CreateUser(v, u, a)) \/ ResetUserTOTP(v, u) \/ DeleteUser(v, u)
        PROVE  LockHeld'
    <3>1. visit[v].at = "in" /\ visit' = [visit EXCEPT ![v] = Away] /\ UNCHANGED rowLock
      BY <2>2 DEF CreateUser, ResetUserTOTP, DeleteUser, IsAdmin, Leave
    <3>. QED BY <1>1, <3>1
  <2>3. ASSUME NEW v \in Visits, NEW u \in Accounts, NEW e \in Edits, EditUser(v, u, e) PROVE LockHeld'
    <3>1. visit[v].at = "in" /\ \E r : r.at = "edit" /\ visit' = [visit EXCEPT ![v] = r]
      BY <2>3 DEF EditUser, IsAdmin, Turns
    <3>2. UNCHANGED rowLock \/ rowLock'.by = v
      BY <2>3 DEF EditUser
    <3>. QED BY <1>0, <1>1, <3>1, <3>2 DEF LockHeld
  <2>. QED BY <1>5, <2>1, <2>2, <2>3 DEF AdminNext
<1>6. CASE \E f \in BOOLEAN : BootstrapAdmin(f)
  BY <1>0, <1>6 DEF BootstrapAdmin, LockHeld
<1>7. CASE (\E u \in Accounts : LockExpires(u)) \/ \E t \in Tokens : CleanupExpired(t) \/ Logout(t)
  BY <1>2, <1>7 DEF LockExpires, CleanupExpired, Logout, SameRest
<1>8. CASE UNCHANGED accessVars
  BY <1>2, <1>8 DEF accessVars
<1>. QED BY <1>3, <1>4, <1>5, <1>6, <1>7, <1>8 DEF AccessNext

\* Changes are counted up to their bound.
LEMMA ChangesCounted ==
    ASSUME changes \in 1 .. MaxChanges, [AccessNext]_accessVars
    PROVE  changes' \in 1 .. MaxChanges
<1>1. UNCHANGED changes \/ Changed
  <2>1. CASE SignInNext
    BY <2>1 DEF SignInNext, Login, Authenticate, FinishLogin, SuspendPasskey, PasskeyLoginBegin, PasskeyRefused,
        ReserveSecondFactorAttempt, SpendCode, ConsumeBackupCode, RefuseCode, ReleaseSecondFactorAttempt,
        ResetSecondFactorFailures, CreatePasswordSession, CreatePasskeySession, SameRest
  <2>2. CASE OwnNext
    BY <2>2 DEF OwnNext, RequireAuth, RevokeSession, RevokeOtherSessions, AuthenticateUserID, ChangePassword, TOTPDisable,
        TOTPRegenerateBackup, TOTPSetup, TOTPEnable, PasskeyRegisterBegin, PasskeyRegisterFinish, DeletePasskey, SameRest
  <2>3. CASE AdminNext
    BY <2>3 DEF AdminNext, CreateUser, EditUser, UpdateUser, DeleteUser, ResetUserTOTP
  <2>4. CASE UNCHANGED accessVars
    BY <2>4 DEF accessVars
  <2>. QED BY <2>1, <2>2, <2>3, <2>4 DEF AccessNext, BootstrapAdmin, LockExpires, CleanupExpired, Logout, SameRest
<1>. QED BY <1>1, AccessAssumption DEF Changed, Fresh, AccessAssumption

\* Every account, session, request and lock keeps its domain, whatever overlaps: an account that is
\* gone has neither passkeys nor sessions, and no two accounts share a passkey.
THEOREM AccessTypes == AccessSpec => []AccessTypeOK
<1>1. AccessInit => AccessTypeInv
  <2>. SUFFICES ASSUME AccessInit PROVE AccessTypeInv
    OBVIOUS
  <2>1. rowLock = Unheld /\ changes = 1 /\ MaxChanges \in Nat \ {0}
    BY AccessAssumption DEF AccessInit, AccessAssumption
  <2>2. LockHeld /\ changes \in 1 .. MaxChanges
    BY <2>1 DEF LockHeld, Unheld
  <2>3. ASSUME NEW u \in Accounts PROVE account[u].keys = {}
    <3>. DEFINE Keyless(r) == r.keys = {}
    <3>0. PICK admins \in SUBSET Accounts, off \in SUBSET Accounts, s \in [Accounts -> {0, 1}] :
             account = [w \in Accounts |->
                  [NewAccount(w \in admins, 1) EXCEPT !.disabled = w \in off, !.secret = s[w],
                                                     !.backup = IF s[w] = 0 THEN {} ELSE {1}]]
      BY Zenon DEF AccessInit
    <3>1. account[u] = [NewAccount(u \in admins, 1) EXCEPT !.disabled = u \in off, !.secret = s[u],
                                                          !.backup = IF s[u] = 0 THEN {} ELSE {1}]
      BY <3>0
    <3>2. ASSUME NEW a \in BOOLEAN, NEW d \in BOOLEAN, NEW x \in {0, 1}, NEW b \in SUBSET {1}, NEW row,
                 row = [NewAccount(a, 1) EXCEPT !.disabled = d, !.secret = x, !.backup = b]
          PROVE  Keyless(row)
      BY <3>2 DEF NewAccount
    <3>3. /\ (u \in admins) \in BOOLEAN /\ (u \in off) \in BOOLEAN /\ s[u] \in {0, 1}
          /\ (IF s[u] = 0 THEN {} ELSE {1}) \in SUBSET {1}
      OBVIOUS
    <3>. HIDE DEF NewAccount, Keyless
    <3>4. Keyless(account[u])
      BY <3>1, <3>2, <3>3, Zenon
    <3>. QED BY <3>4 DEF Keyless
  <2>. QED BY <2>2, <2>3, AccessBaseStart DEF AccessTypeInv, KeysApart
<1>2. AccessTypeInv /\ [AccessNext]_accessVars => AccessTypeInv'
  <2>. SUFFICES ASSUME AccessTypeInv, [AccessNext]_accessVars PROVE AccessTypeInv'
    OBVIOUS
  <2>1. AccessBase /\ AccountsKnown /\ RequestsTyped /\ KeysApart /\ LockHeld /\ changes \in 1 .. MaxChanges
    BY DEF AccessTypeInv, AccessBase
  <2>. QED BY <2>1, AccessBaseStep, RowsMove, KeysStay, LocksStay, ChangesCounted DEF AccessTypeInv
<1>3. AccessTypeInv => AccessTypeOK
  <2>. SUFFICES ASSUME AccessTypeInv PROVE AccessTypeOK
    OBVIOUS
  <2>1. AccountsKnown /\ SessionsHold /\ KeysApart /\ LockHeld /\ changes \in 1 .. MaxChanges
    BY DEF AccessTypeInv, AccessBase
  <2>2. ASSUME NEW u \in Accounts
        PROVE  /\ account[u].pw \in 0..changes /\ account[u].secret \in 0..changes
               /\ account[u].secret # 0 => account[u].pending = 0
               /\ account[u].keys \subseteq 1..changes
               /\ account[u].exists \/ (account[u].keys = {} /\ SessionsOf(u) = {})
    <3>1. KnownRow(account[u], changes) /\ changes \in Nat
      BY <2>1, RowFacts
    <3>2. account[u].pw \in 0..changes /\ account[u].secret \in 0..changes /\ account[u].keys \subseteq 1..changes
      BY <2>1, <3>1, RowFacts DEF KnownRow
    <3>3. account[u].exists \/ SessionsOf(u) = {}
      BY <2>1 DEF SessionsOf, Signed, SessionsHold, SessionOK
    <3>. QED BY <3>1, <3>2, <3>3 DEF KnownRow
  <2>. QED BY <2>1, <2>2 DEF AccessTypeOK, KeysApart, LockHeld
<1>. QED BY <1>1, <1>2, <1>3, PTL DEF AccessSpec

-----------------------------------------------------------------------------
\* An edit that may cost an administrator holds the locks, and another administrator
\* stays: no other step takes one away meanwhile.
Costs(v) == visit[v].at = "edit" /\ (~visit[v].to.admin \/ visit[v].to.off = "yes")
AdminsHold ==
    /\ EnabledAdmins # {}
    /\ \A v \in Visits : visit[v].at = "edit" => visit[v].to.off # "keep"
    /\ \A v \in Visits : Costs(v) => rowLock.by = v /\ \E w \in EnabledAdmins : w # visit[v].user

\* No enabled administrator goes, no edit begins.
LEMMA AdminsKept ==
    ASSUME AdminsHold, EnabledAdmins \subseteq EnabledAdmins', UNCHANGED rowLock,
           \A v \in Visits : visit'[v].at = "edit" => visit'[v] = visit[v]
    PROVE  AdminsHold'
BY DEF AdminsHold, Costs

\* A row that keeps its role.
LEMMA RoleKept ==
    ASSUME AccountsKnown, NEW u \in Accounts, NEW row, Set(u, row),
           row.exists = account[u].exists, row.admin = account[u].admin, row.disabled = account[u].disabled
    PROVE  EnabledAdmins' = EnabledAdmins
BY DEF EnabledAdmins, AccountsKnown, Set

\* Every step leaves an administrator whom no edit under way may cost.
LEMMA AdminsStep ==
    ASSUME AccessBase, AdminsHold, ~OmitsStatus, [AccessNext]_accessVars
    PROVE  AdminsHold'
<1>0. AccountsKnown /\ visit \in [Visits -> VisitRow] /\ account \in [Accounts -> AccountRow]
  BY DEF AccessBase, RequestsTyped, AccountsKnown
<1>u. \A v \in Visits : visit[v].at # "away" => visit[v].user \in Accounts
  BY <1>0, VisitKinds
<1>v. ASSUME NEW v \in Visits, NEW r, r.at # "edit", Turns(v, r)
      PROVE  \A w \in Visits : visit'[w].at = "edit" => visit'[w] = visit[w]
  BY <1>0, <1>v DEF Turns
<1>w. ASSUME NEW v \in Visits, Leave(v)
      PROVE  visit'[v] = Away /\ \A w \in Visits : visit'[w].at = "edit" => visit'[w] = visit[w]
  BY <1>0, <1>w DEF Leave, Away
<1>x. UNCHANGED account => EnabledAdmins' = EnabledAdmins
  BY DEF EnabledAdmins
<1>1. CASE SignInNext
  <2>1. UNCHANGED rowLock
    BY <1>1 DEF SignInNext, Login, Authenticate, FinishLogin, SuspendPasskey, PasskeyLoginBegin, PasskeyRefused,
        ReserveSecondFactorAttempt, SpendCode, ConsumeBackupCode, RefuseCode, ReleaseSecondFactorAttempt,
        ResetSecondFactorFailures, CreatePasswordSession, CreatePasskeySession, SameRest
  <2>2. \A w \in Visits : visit'[w].at = "edit" => visit'[w] = visit[w]
    <3>1. CASE UNCHANGED visit
      BY <3>1
    <3>2. CASE \E v \in Visits : Leave(v)
      BY <1>w, <3>2
    <3>3. ASSUME NEW v \in Visits, NEW u \in Accounts, Authenticate(v, u) \/ \E k \in 1..changes : FinishLogin(v, u, k)
          PROVE  \A w \in Visits : visit'[w].at = "edit" => visit'[w] = visit[w]
      BY <1>0, <3>3 DEF Authenticate, FinishLogin, Turns
    <3>4. ASSUME NEW v \in Visits, NEW s \in {"code", "passed", "proven"}, Turns(v, [visit[v] EXCEPT !.at = s]),
                 visit[v].at \in {"factor", "code", "passed"}
          PROVE  \A w \in Visits : visit'[w].at = "edit" => visit'[w] = visit[w]
      <4>1. [visit[v] EXCEPT !.at = s].at # "edit"
        <5>1. visit[v] \in SignInVisit
          BY <1>0, <3>4, VisitKinds
        <5>. QED BY <5>1 DEF SignInVisit
      <4>. QED BY <1>v, <3>4, <4>1
    <3>. QED BY <1>1, <3>1, <3>2, <3>3, <3>4 DEF SignInNext, Login, SuspendPasskey, PasskeyLoginBegin, PasskeyRefused,
        ReserveSecondFactorAttempt, SpendCode, ConsumeBackupCode, RefuseCode, ReleaseSecondFactorAttempt,
        ResetSecondFactorFailures, CreatePasswordSession, CreatePasskeySession
  <2>3. EnabledAdmins' = EnabledAdmins
    <3>1. CASE UNCHANGED account
      BY <1>x, <3>1
    <3>2. ASSUME NEW v \in Visits, account' # account,
                 ReserveSecondFactorAttempt(v) \/ ResetSecondFactorFailures(v)
          PROVE  EnabledAdmins' = EnabledAdmins
      <4>1. visit[v].user \in Accounts
        BY <1>u, <3>2 DEF ReserveSecondFactorAttempt, ResetSecondFactorFailures
      <4>2. PICK f, l : Set(visit[v].user, [account[visit[v].user] EXCEPT !.failures = f, !.locked = l])
        BY <3>2 DEF ReserveSecondFactorAttempt, ResetSecondFactorFailures
      <4>. DEFINE row == [account[visit[v].user] EXCEPT !.failures = f, !.locked = l]
      <4>3. /\ row.exists = account[visit[v].user].exists /\ row.admin = account[visit[v].user].admin
            /\ row.disabled = account[visit[v].user].disabled
        BY <4>1, RowFacts, <1>0 DEF AccountRow
      <4>4. Set(visit[v].user, row)
        BY <4>2
      <4>. HIDE DEF row
      <4>. QED BY <1>0, <4>1, <4>3, <4>4, RoleKept
    <3>3. ASSUME NEW v \in Visits, \/ (\E s \in TimeSteps : SpendCode(v, s)) \/ (\E c \in 1..changes : ConsumeBackupCode(v, c))
                                   \/ ReleaseSecondFactorAttempt(v)
                                   \/ \E u \in Accounts, k \in 1..changes : SuspendPasskey(v, u, k)
          PROVE  EnabledAdmins' = EnabledAdmins
      <4>1. PICK u \in Accounts : \E f, s, b, k :
               \/ Set(u, [account[u] EXCEPT !.step = s]) \/ Set(u, [account[u] EXCEPT !.backup = b])
               \/ Set(u, [account[u] EXCEPT !.failures = f]) \/ Set(u, [account[u] EXCEPT !.keys = k])
        BY <1>u, <3>3 DEF SpendCode, ConsumeBackupCode, ReleaseSecondFactorAttempt, SuspendPasskey
      <4>. USE DEF AccountRow
      <4>2. CASE \E s : Set(u, [account[u] EXCEPT !.step = s])
        BY <1>0, <4>2, RoleKept, RowFacts
      <4>3. CASE \E b : Set(u, [account[u] EXCEPT !.backup = b])
        BY <1>0, <4>3, RoleKept, RowFacts
      <4>4. CASE \E f : Set(u, [account[u] EXCEPT !.failures = f])
        BY <1>0, <4>4, RoleKept, RowFacts
      <4>5. CASE \E k : Set(u, [account[u] EXCEPT !.keys = k])
        BY <1>0, <4>5, RoleKept, RowFacts
      <4>. QED BY <4>1, <4>2, <4>3, <4>4, <4>5
    <3>. QED BY <1>1, <3>1, <3>2, <3>3 DEF SignInNext, Login, Authenticate, FinishLogin, PasskeyLoginBegin, PasskeyRefused, RefuseCode,
                CreatePasswordSession, CreatePasskeySession, SameRows
  <2>. QED BY <2>1, <2>2, <2>3, AdminsKept
<1>2. CASE OwnNext
  <2>1. UNCHANGED rowLock
    BY <1>2 DEF OwnNext, RequireAuth, RevokeSession, RevokeOtherSessions, AuthenticateUserID, ChangePassword, TOTPDisable,
        TOTPRegenerateBackup, TOTPSetup, TOTPEnable, PasskeyRegisterBegin, PasskeyRegisterFinish, DeletePasskey, SameRest
  <2>2. \A w \in Visits : visit'[w].at = "edit" => visit'[w] = visit[w]
    <3>1. ASSUME NEW v \in Visits, \/ \E t \in Tokens, e \in BOOLEAN : RequireAuth(v, t, e)
                                   \/ \E p \in {"password", "disable", "codes"} : AuthenticateUserID(v, p)
          PROVE  \A w \in Visits : visit'[w].at = "edit" => visit'[w] = visit[w]
      BY <1>0, <3>1 DEF RequireAuth, AuthenticateUserID, Turns
    <3>2. CASE \E v \in Visits : Leave(v)
      BY <1>w, <3>2
    <3>. QED BY <1>2, <3>1, <3>2 DEF OwnNext, RevokeSession, RevokeOtherSessions, ChangePassword, TOTPDisable,
        TOTPRegenerateBackup, TOTPSetup, TOTPEnable, PasskeyRegisterBegin, PasskeyRegisterFinish, DeletePasskey
  <2>3. EnabledAdmins' = EnabledAdmins
    <3>1. CASE UNCHANGED account
      BY <1>x, <3>1
    <3>2. ASSUME NEW v \in Visits, account' # account,
                 \/ ChangePassword(v) \/ TOTPDisable(v) \/ TOTPRegenerateBackup(v) \/ TOTPSetup(v)
                 \/ (\E s \in TimeSteps : TOTPEnable(v, s)) \/ PasskeyRegisterFinish(v) \/ (\E k \in 1..changes : DeletePasskey(v, k))
          PROVE  EnabledAdmins' = EnabledAdmins
      <4>. DEFINE u == visit[v].user
      <4>0. u \in Accounts
        BY <1>u, <3>2 DEF ChangePassword, TOTPDisable, TOTPRegenerateBackup, TOTPSetup, TOTPEnable, PasskeyRegisterFinish, DeletePasskey
      <4>. HIDE DEF u
      <4>. USE DEF AccountRow
      <4>1. CASE ChangePassword(v) \/ TOTPRegenerateBackup(v) \/ TOTPSetup(v)
        <5>1. \/ Set(u, [account[u] EXCEPT !.pw = Fresh]) \/ Set(u, [account[u] EXCEPT !.backup = FreshCodes])
              \/ Set(u, [account[u] EXCEPT !.pending = Fresh])
          BY <3>2, <4>1 DEF ChangePassword, TOTPRegenerateBackup, TOTPSetup, u
        <5>2. CASE Set(u, [account[u] EXCEPT !.pw = Fresh])
          BY <1>0, <4>0, <5>2, RoleKept, RowFacts
        <5>3. CASE Set(u, [account[u] EXCEPT !.backup = FreshCodes])
          BY <1>0, <4>0, <5>3, RoleKept, RowFacts
        <5>4. CASE Set(u, [account[u] EXCEPT !.pending = Fresh])
          BY <1>0, <4>0, <5>4, RoleKept, RowFacts
        <5>. QED BY <5>1, <5>2, <5>3, <5>4
      <4>2. CASE TOTPDisable(v)
        <5>1. Set(u, FactorsOff(account[u]))
          BY <4>2 DEF TOTPDisable, u
        <5>2. LET row == FactorsOff(account[u])
              IN row.exists = account[u].exists /\ row.admin = account[u].admin /\ row.disabled = account[u].disabled
          BY <1>0, <4>0 DEF FactorsOff
        <5>. QED BY <1>0, <4>0, <5>1, <5>2, RoleKept
      <4>3. ASSUME NEW s \in TimeSteps, TOTPEnable(v, s) PROVE EnabledAdmins' = EnabledAdmins
        <5>. DEFINE row == [account[u] EXCEPT !.secret = account[u].pending, !.pending = 0, !.step = s,
                                              !.failures = 0, !.locked = FALSE, !.backup = FreshCodes]
        <5>1. Set(u, row)
          BY <4>3 DEF TOTPEnable, u
        <5>2. row.exists = account[u].exists /\ row.admin = account[u].admin /\ row.disabled = account[u].disabled
          BY <1>0, <4>0
        <5>. HIDE DEF row
        <5>. QED BY <1>0, <4>0, <5>1, <5>2, RoleKept
      <4>4. CASE PasskeyRegisterFinish(v) \/ \E k \in 1..changes : DeletePasskey(v, k)
        <5>1. PICK ks : Set(u, [account[u] EXCEPT !.keys = ks])
          BY <4>4 DEF PasskeyRegisterFinish, DeletePasskey, u
        <5>. QED BY <1>0, <4>0, <5>1, RoleKept, RowFacts
      <4>. QED BY <3>2, <4>1, <4>2, <4>3, <4>4
    <3>. QED BY <1>2, <3>1, <3>2 DEF OwnNext, RequireAuth, RevokeSession, RevokeOtherSessions, AuthenticateUserID, PasskeyRegisterBegin, SameRows
  <2>. QED BY <2>1, <2>2, <2>3, AdminsKept
<1>3. ASSUME NEW v \in Visits, UpdateUser(v) PROVE AdminsHold'
  <2>. DEFINE u == visit[v].user
              edit == visit[v].to
              off == edit.off = "yes"
              hash == IF edit.reset THEN Fresh ELSE account[u].pw
              row == [account[u] EXCEPT !.admin = edit.admin, !.disabled = off, !.pw = hash]
  <2>1. visit[v] \in EditVisit /\ edit.off # "keep" /\ u \in Accounts
    BY <1>0, <1>3, VisitKinds DEF UpdateUser, AdminsHold
  <2>2. visit' = [visit EXCEPT ![v] = Away] /\ rowLock' = IF rowLock.by = v THEN Unheld ELSE rowLock
    BY <1>3 DEF UpdateUser, Leave
  <2>3. \A w \in Visits : visit'[w].at = "edit" => w # v /\ visit'[w] = visit[w]
    BY <1>0, <2>2 DEF Away
  <2>4. CASE ~account[u].exists
    <3>1. EnabledAdmins' = EnabledAdmins
      BY <1>3, <2>4 DEF UpdateUser, EnabledAdmins
    <3>2. \A w \in Visits : Costs(w)' => Costs(w) /\ w # v
      BY <2>3 DEF Costs
    <3>. QED BY <2>2, <2>3, <3>1, <3>2 DEF AdminsHold, Costs
  <2>5. CASE account[u].exists
    <3>1. Set(u, row)
      BY <1>3, <2>1, <2>5 DEF UpdateUser
    <3>2. \A w \in Accounts \ {u} : account'[w] = account[w]
      BY <1>0, <3>1 DEF Set
    <3>3. \A w \in EnabledAdmins : w # u => w \in EnabledAdmins'
      BY <3>2 DEF EnabledAdmins
    <3>4. CASE Costs(v)
      <4>1. rowLock.by = v /\ \E w \in EnabledAdmins : w # u
        BY <3>4 DEF AdminsHold
      <4>2. EnabledAdmins' # {}
        BY <3>3, <4>1
      <4>3. \A w \in Visits : ~(Costs(w)')
        BY <2>3, <4>1 DEF AdminsHold, Costs
      <4>. QED BY <2>3, <4>2, <4>3 DEF AdminsHold
    <3>5. CASE ~Costs(v)
      <4>1. edit.admin /\ edit.off # "yes"
        BY <1>3, <3>5 DEF Costs, UpdateUser
      <4>2. account'[u] = row /\ account[u] \in AccountRow
        BY <1>0, <2>1, <3>1 DEF Set
      <4>3. row.exists /\ row.admin /\ ~row.disabled
        <5>1. ASSUME NEW d, d = off PROVE ~d
          BY <4>1, <5>1
        <5>2. row.exists = account[u].exists /\ row.admin = edit.admin
          BY <4>2 DEF AccountRow
        <5>3. row.disabled = off
          BY <4>2 DEF AccountRow
        <5>. HIDE DEF row
        <5>. QED BY <2>5, <4>1, <5>1, <5>2, <5>3
      <4>. HIDE DEF row
      <4>4. EnabledAdmins \subseteq EnabledAdmins'
        BY <3>3, <4>2, <4>3 DEF EnabledAdmins
      <4>5. \A w \in Visits : Costs(w)' => Costs(w) /\ w # v /\ visit'[w] = visit[w]
        BY <2>3 DEF Costs
      <4>6. \A w \in Visits : Costs(w) /\ w # v => rowLock' = rowLock
        BY <2>2 DEF AdminsHold
      <4>. QED BY <2>3, <4>4, <4>5, <4>6 DEF AdminsHold
    <3>. QED BY <3>4, <3>5
  <2>. QED BY <2>4, <2>5
<1>4. ASSUME NEW v \in Visits, NEW u \in Accounts, NEW a \in BOOLEAN, CreateUser(v, u, a) PROVE AdminsHold'
  <2>1. EnabledAdmins \subseteq EnabledAdmins'
    BY <1>0, <1>4 DEF CreateUser, Set, EnabledAdmins
  <2>. QED BY <1>w, <1>4, <2>1, AdminsKept DEF CreateUser
<1>5. ASSUME NEW v \in Visits, NEW u \in Accounts, DeleteUser(v, u) PROVE AdminsHold'
  <2>1. rowLock.by = "nobody" /\ UNCHANGED rowLock /\ EnabledAdmins # {u} /\ Leave(v)
    BY <1>5 DEF DeleteUser, LastAdmin
  <2>2. \A w \in Visits : ~Costs(w)
    BY <2>1, AccessAssumption DEF AdminsHold
  <2>3. \A w \in Accounts \ {u} : account'[w] = account[w]
    BY <1>0, <1>5 DEF DeleteUser, Set
  <2>4. \A w \in EnabledAdmins : w # u => w \in EnabledAdmins'
    BY <2>3 DEF EnabledAdmins
  <2>5. EnabledAdmins' # {}
    BY <2>1, <2>4 DEF AdminsHold
  <2>. QED BY <1>w, <2>1, <2>2, <2>5 DEF AdminsHold, Costs
<1>6. ASSUME NEW v \in Visits, NEW u \in Accounts, ResetUserTOTP(v, u) PROVE AdminsHold'
  <2>. DEFINE row == [FactorsOff(account[u]) EXCEPT !.keys = {}, !.resets = @ + 1]
  <2>1. Set(u, row) /\ Leave(v) /\ UNCHANGED rowLock
    BY <1>6 DEF ResetUserTOTP
  <2>2. row.exists = account[u].exists /\ row.admin = account[u].admin /\ row.disabled = account[u].disabled
    BY <1>0 DEF FactorsOff, AccountRow
  <2>. HIDE DEF row
  <2>. QED BY <1>0, <1>w, <2>1, <2>2, RoleKept, AdminsKept
<1>7. ASSUME NEW v \in Visits, NEW u \in Accounts, NEW e \in Edits, EditUser(v, u, e) PROVE AdminsHold'
  <2>. DEFINE r == [at |-> "edit", user |-> u, to |-> e, wasOff |-> account[u].disabled]
  <2>1. visit' = [visit EXCEPT ![v] = r] /\ UNCHANGED account /\ e.off # "keep" /\ visit[v].at # "edit"
    BY <1>7 DEF EditUser, Turns, SameRows, IsAdmin
  <2>2. EnabledAdmins' = EnabledAdmins
    BY <1>x, <2>1
  <2>3. visit'[v].at = "edit" /\ visit'[v].to = e /\ visit'[v].user = u /\ \A w \in Visits \ {v} : visit'[w] = visit[w]
    BY <1>0, <2>1
  <2>4. \A w \in Visits : visit'[w].at = "edit" => visit'[w].to.off # "keep"
    BY <2>1, <2>3 DEF AdminsHold
  <2>5. CASE ~e.admin \/ e.off = "yes"
    <3>1. rowLock.by = "nobody" /\ EnabledAdmins # {u} /\ rowLock'.by = v
      BY <1>7, <2>5 DEF EditUser, LastAdmin
    <3>2. \A w \in Visits : ~Costs(w)
      BY <3>1, AccessAssumption DEF AdminsHold
    <3>3. \A w \in Visits : Costs(w)' => w = v
      BY <2>3, <3>2 DEF Costs
    <3>4. \E w \in EnabledAdmins : w # u
      BY <3>1 DEF AdminsHold
    <3>. QED BY <2>2, <2>3, <2>4, <3>1, <3>3, <3>4 DEF AdminsHold
  <2>6. CASE ~(~e.admin \/ e.off = "yes")
    <3>1. UNCHANGED rowLock
      BY <1>7, <2>6 DEF EditUser
    <3>2. \A w \in Visits : Costs(w)' => w # v /\ Costs(w)
      BY <2>3, <2>6 DEF Costs
    <3>. QED BY <2>2, <2>3, <2>4, <3>1, <3>2 DEF AdminsHold
  <2>. QED BY <2>5, <2>6
<1>8. ASSUME NEW u \in Accounts, LockExpires(u) PROVE AdminsHold'
  <2>1. EnabledAdmins' = EnabledAdmins
    BY <1>0, <1>8, RoleKept, RowFacts DEF LockExpires, AccountRow
  <2>. QED BY <1>8, <2>1, AdminsKept DEF LockExpires, SameRest
<1>9. ASSUME NEW t \in Tokens, CleanupExpired(t) \/ Logout(t) PROVE AdminsHold'
  BY <1>x, <1>9, AdminsKept DEF CleanupExpired, Logout, SameRows, SameRest
<1>10. ASSUME NEW f \in BOOLEAN, BootstrapAdmin(f) PROVE AdminsHold'
  <2>. DEFINE u == Operator
  <2>0. u \in Accounts /\ account[u] \in AccountRow
    BY <1>0, AccessAssumption
  <2>1. EnabledAdmins \subseteq EnabledAdmins'
    <3>1. \A w \in Accounts \ {u} : account'[w] = account[w]
      BY <1>0, <1>10 DEF BootstrapAdmin, Set
    <3>2. u \in EnabledAdmins => u \in EnabledAdmins'
      BY <1>0, <1>10, <2>0 DEF BootstrapAdmin, Set, EnabledAdmins, AccountRow
    <3>. QED BY <3>1, <3>2 DEF EnabledAdmins
  <2>2. \A w \in Visits : visit'[w].at # "edit"
    BY <1>10 DEF BootstrapAdmin, Away
  <2>. QED BY <2>1, <2>2 DEF AdminsHold, Costs
<1>11. CASE UNCHANGED accessVars
  BY <1>x, <1>11, AdminsKept DEF accessVars
<1>. QED BY <1>1, <1>2, <1>3, <1>4, <1>5, <1>6, <1>7, <1>8, <1>9, <1>10, <1>11 DEF AccessNext, AdminNext

(* Where every client sends the status with an edit, somebody can always administer the installation: *)
(* an edit or a deletion that may cost an administrator counts the others under the locks of their    *)
(* rows (adminsRemaining, UpdateUser, DeleteUser).                                                    *)
THEOREM SomebodyAdministers == ~OmitsStatus => (AccessSpec => []AdminRemains)
<1>. SUFFICES ASSUME ~OmitsStatus PROVE AccessSpec => []AdminRemains
  OBVIOUS
<1>1. AccessInit => AccessBase /\ AdminsHold
  <2>. SUFFICES ASSUME AccessInit PROVE AdminsHold
    BY AccessBaseStart
  <2>1. PICK admins \in SUBSET Accounts, off \in SUBSET Accounts, s \in [Accounts -> {0, 1}] :
         /\ (admins \ off) # {}
         /\ account = [u \in Accounts |->
              [NewAccount(u \in admins, 1) EXCEPT !.disabled = u \in off, !.secret = s[u],
                                                 !.backup = IF s[u] = 0 THEN {} ELSE {1}]]
    BY DEF AccessInit
  <2>2. PICK u \in Accounts : u \in admins /\ u \notin off
    BY <2>1
  <2>3. account[u] = [NewAccount(u \in admins, 1) EXCEPT !.disabled = u \in off, !.secret = s[u],
                                                 !.backup = IF s[u] = 0 THEN {} ELSE {1}]
    BY <2>1
  <2>4. account[u].exists /\ account[u].admin /\ ~account[u].disabled
    BY <2>2, <2>3 DEF NewAccount
  <2>5. u \in EnabledAdmins
    BY <2>4 DEF EnabledAdmins
  <2>6. \A v \in Visits : visit[v].at # "edit"
    BY DEF AccessInit, Away
  <2>. QED BY <2>5, <2>6 DEF AdminsHold, Costs
<1>2. AccessBase /\ AdminsHold /\ [AccessNext]_accessVars => (AccessBase /\ AdminsHold)'
  BY AccessBaseStep, AdminsStep
<1>3. AdminsHold => AdminRemains
  BY DEF AdminsHold, AdminRemains
<1>. QED BY <1>1, <1>2, <1>3, PTL DEF AccessSpec
=============================================================================
