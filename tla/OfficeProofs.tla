---------------------------- MODULE OfficeProofs ----------------------------
(***************************************************************************)
(* Machine-checked: the office, of which one part moves in each behaviour,   *)
(* runs every one of its parts as the part itself is specified, so what is    *)
(* proved of the parts alone holds in the office.                           *)
(***************************************************************************)
EXTENDS MCOffice, ReceiptsProofs, FrontDeskProofs, RecordsProofs

-----------------------------------------------------------------------------
\* A step of the office is a step of a part or leaves the part alone.
LEMMA ReceiptsMove == [OfficeNext]_officeVars => [ReceiptsNext]_receiptsVars
<1>. SUFFICES ASSUME [OfficeNext]_officeVars, ~UNCHANGED receiptsVars PROVE ReceiptsNext
  OBVIOUS
<1>1. OfficeNext /\ part \in {"lines", "held"}
  BY DEF officeVars, OfficeNext, Rests
<1>. QED BY <1>1 DEF OfficeNext, LinesNext, HeldNext
LEMMA AccessMoves == [OfficeNext]_officeVars => [AccessNext]_accessVars
<1>. SUFFICES ASSUME [OfficeNext]_officeVars, ~UNCHANGED accessVars PROVE AccessNext
  OBVIOUS
<1>1. OfficeNext /\ part \in {"roles", "factors"}
  BY DEF officeVars, OfficeNext, Rests
<1>2. RolesNext \/ FactorsNext
  BY <1>1 DEF OfficeNext
<1>3. CASE FactorsNext
  <2>1. FactorSteps
    BY <1>3 DEF FactorsNext
  <2>2. ASSUME NEW v \in Visits, NEW u \in Accounts, ResetUserTOTP(v, u) PROVE AdminNext
    BY <2>2 DEF AdminNext
  <2>. QED BY <2>1, <2>2 DEF FactorSteps, AccessNext
<1>4. CASE RolesNext
  <2>1. ASSUME NEW v \in Visits, NEW u \in Accounts, Authenticate(v, u) PROVE SignInNext
    BY <2>1 DEF SignInNext
  <2>2. ASSUME NEW v \in Visits, CreatePasswordSession(v) PROVE SignInNext
    BY <2>2 DEF SignInNext, Login
  <2>3. ASSUME NEW v \in Visits, AuthenticateUserID(v, "password") \/ ChangePassword(v) PROVE OwnNext
    BY <2>3 DEF OwnNext
  <2>4. ASSUME NEW v \in Visits, NEW t \in Tokens, RequireAuth(v, t, FALSE) PROVE OwnNext
    BY <2>4 DEF OwnNext
  <2>. QED BY <1>4, <2>1, <2>2, <2>3, <2>4 DEF RolesNext, AccessNext
<1>. QED BY <1>2, <1>3, <1>4
LEMMA TaxMoves == [OfficeNext]_officeVars => [TaxNext]_taxVars
<1>. SUFFICES ASSUME [OfficeNext]_officeVars, ~UNCHANGED taxVars PROVE TaxNext
  OBVIOUS
<1>1. OfficeNext /\ part \in {"income", "expenses", "assets"}
  BY DEF officeVars, OfficeNext, Rests
<1>2. LockNext => YearNext
  BY DEF LockNext, YearNext
<1>. QED BY <1>1, <1>2 DEF OfficeNext, TaxNext
LEMMA DeskMoves == [OfficeNext]_officeVars => [FrontDeskNext]_deskVars
<1>. SUFFICES ASSUME [OfficeNext]_officeVars, ~UNCHANGED deskVars PROVE FrontDeskNext
  OBVIOUS
<1>1. OfficeNext /\ part \in {"wishes", "slots", "gate"}
  BY DEF officeVars, OfficeNext, Rests
<1>2. WishesNext \/ SlotsNext \/ ProtocolsNext
  BY <1>1 DEF OfficeNext
<1>3. \A g \in Guests : CreatePortalLink(g) \/ AnonymizePerson(g) \/ ErasePerson(g) => PersonNext
  BY DEF PersonNext
<1>. QED BY <1>2, <1>3 DEF WishesNext, SlotsNext, ProtocolsNext, FrontDeskNext
LEMMA IndexMoves == [OfficeNext]_officeVars => [IndexationNext]_indexVars
<1>. SUFFICES ASSUME [OfficeNext]_officeVars, ~UNCHANGED indexVars PROVE IndexationNext
  OBVIOUS
<1>1. OfficeNext /\ part \in {"rates", "tariff", "copies"}
  BY DEF officeVars, OfficeNext, Rests
<1>. QED BY <1>1 DEF OfficeNext, RatesNext, TariffNext, CopiesNext
LEMMA OverviewMoves == [OfficeNext]_officeVars => [OverviewNext]_overviewVars
<1>. SUFFICES ASSUME [OfficeNext]_officeVars, ~UNCHANGED overviewVars PROVE OverviewNext
  OBVIOUS
<1>1. OfficeNext /\ part \in {"summary", "shared"}
  BY DEF officeVars, OfficeNext, Rests
<1>. QED BY <1>1 DEF OfficeNext, SummaryNext, SharedNext
LEMMA AutoMoves == [OfficeNext]_officeVars => [AutoInvoiceNext]_autoVars
<1>. SUFFICES ASSUME [OfficeNext]_officeVars, ~UNCHANGED autoVars PROVE AutoInvoiceNext
  OBVIOUS
<1>1. OfficeNext /\ part \in {"round"}
  BY DEF officeVars, OfficeNext, Rests
<1>. QED BY <1>1 DEF OfficeNext
LEMMA YardMoves == [OfficeNext]_officeVars => [YardNext]_yardVars
<1>. SUFFICES ASSUME [OfficeNext]_officeVars, ~UNCHANGED yardVars PROVE YardNext
  OBVIOUS
<1>1. OfficeNext /\ part \in {"pauses", "spots"}
  BY DEF officeVars, OfficeNext, Rests
<1>. QED BY <1>1 DEF OfficeNext, PausesNext, SpotsNext

\* Each part runs as it is specified, whatever part moves.
THEOREM OfficeRunsItsParts ==
    OfficeSpec => /\ ReceiptsSpec /\ AccessSpec /\ TaxSpec /\ FrontDeskSpec
                  /\ IndexationSpec /\ OverviewSpec /\ AutoInvoiceSpec /\ YardSpec
<1>1. OfficeInit => /\ ReceiptsInit /\ AccessInit /\ TaxInit /\ FrontDeskInit
                    /\ IndexationInit /\ OverviewInit /\ AutoInvoiceInit /\ YardInit
  BY DEF OfficeInit
<1>. QED BY <1>1, ReceiptsMove, AccessMoves, TaxMoves, DeskMoves, IndexMoves, OverviewMoves, AutoMoves, YardMoves, PTL
         DEF OfficeSpec, ReceiptsSpec, AccessSpec, TaxSpec, FrontDeskSpec, IndexationSpec, OverviewSpec, AutoInvoiceSpec, YardSpec

\* Every table and every request in flight of the office keeps its domain, in every part: receipts and
\* bank lines, sessions and codes, the tax book, portal and protocols, the tariff, the dashboard, the yard.
THEOREM OfficeTypes == OfficeSpec => []OfficeTypeOK
<1>1. /\ ReceiptsTypeOK /\ AccessTypeOK /\ TaxTypeOK /\ FrontDeskTypeOK /\ IndexationTypeOK /\ OverviewTypeOK /\ YardTypeOK
      => OfficeTypeOK
  BY DEF OfficeTypeOK
<1>. QED BY <1>1, OfficeRunsItsParts, ReceiptsTypes, AccessTypes, TaxTypes, ForgottenForGood, IndexationTypes, OverviewTypes,
            YardTypes, PTL
=============================================================================
