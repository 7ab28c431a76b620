------------------------------ MODULE MCOffice ------------------------------
(***************************************************************************)
(* Small instances of the parts of the office that share no state, in one run:  *)
(* part, chosen at the start, says which of them this behaviour is about, and    *)
(* the others stand still.  The states are the disjoint union of those of the    *)
(* parts, so an invariant of one part holds here iff it holds there alone.        *)
(* A part that is too large as a whole is cut where its own variables fall apart.  *)
(***************************************************************************)
EXTENDS Receipts, Access, TaxBook, FrontDesk, Indexation, Overview, AutoInvoice, Yard, TLC

VARIABLE part

MCInvoiceTotal  == [p \in Persons |-> 1]
MCLineAmount    == [t \in BankLines |-> 1]
MCPickupWindows == { [slot |-> 1, capacity |-> 1] }
\* Exact quotients, so that no cent is lost to rounding.
MCCPI           == (0 :> 2) @@ (1 :> 3) @@ (2 :> 6)

\* Requests, readers and officers of different parts are the same two values.
OfficeSymmetry == Permutations(Requests) \cup Permutations(Actors)

-----------------------------------------------------------------------------
Parts == { "lines", "held", "roles", "factors", "income", "expenses", "assets", "wishes", "slots", "gate",
           "rates", "tariff", "copies", "summary", "shared", "round", "pauses", "spots" }

\* A part that stands still starts in one state only.
Still(where, state) == part \notin where => state

OfficeInit ==
    /\ part \in Parts
    /\ ReceiptsInit /\ TaxInit /\ FrontDeskInit /\ YardInit
    /\ AccessInit
    /\ Still({"roles", "factors"}, account = [u \in Accounts |-> NewAccount(u = Operator, 1)])
    /\ part = "roles" => \A u \in Accounts : account[u].secret = 0
    /\ part = "factors" => /\ EnabledAdmins = {Operator} /\ account[Operator].secret = 0
                           /\ \A u \in Accounts : ~account[u].disabled
    /\ IndexationInit /\ Still({"rates", "tariff", "copies"}, \A v \in DOMAIN lot : lot[v] = FirstLot(0, FALSE))
    /\ OverviewInit /\ Still({"summary"}, Quiet = {})
    /\ AutoInvoiceInit /\ Still({"round"}, sellerOK)

-----------------------------------------------------------------------------
\* Receipts with the lines of bank statements, or with deposits.
LinesNext == ReceiptsNext /\ nDeposit' = 0
HeldNext  == ReceiptsNext /\ \A t \in BankLines : bankLine'[t].status = "absent"

\* Sessions: accounts and their rights, or the second factor of one of them.
RolesNext ==
    \/ \E v \in Visits : \/ \E u \in Accounts : Authenticate(v, u)
                         \/ CreatePasswordSession(v) \/ AuthenticateUserID(v, "password") \/ ChangePassword(v)
                         \/ \E t \in Tokens : RequireAuth(v, t, FALSE)
    \/ AdminNext
    \/ \E t \in Tokens : CleanupExpired(t) \/ Logout(t)
    \/ \E f \in BOOLEAN : BootstrapAdmin(f)

\* The administrator only signs in and resets factors.
FactorSteps ==
    \/ SignInNext \/ \E u \in Accounts : LockExpires(u)
    \/ OwnNext /\ \A v \in Visits : visit[v] # visit'[v] /\ visit[v].at # "away" => visit[v].user # Operator
    \/ \E t \in Tokens : CleanupExpired(t) \/ Logout(t)
    \/ \E v \in Visits, u \in Accounts : ResetUserTOTP(v, u)
\* The last change of an account is the end of an enrolment.
Enrols(u)   == account[u].pending # 0 /\ account'[u].secret = account[u].pending
FactorsNext == FactorSteps /\ (changes' = MaxChanges /\ changes < MaxChanges => \E u \in Accounts : Enrols(u))

LockNext == \E y \in TaxYears : LockTaxYear(y) \/ UnlockTaxYear(y)

\* Without pickup windows, and at most one customer with a link or erased.
WishesNext ==
    /\ PersonNext \/ PortalNext
    /\ windows' = {}
    /\ Cardinality({ g \in Guests : guest'[g].status # "active" } \cup link') <= 1
\* With one pickup window, and pickups only.
SlotsNext ==
    /\ (\E g \in Guests : CreatePortalLink(g) \/ AnonymizePerson(g)) \/ PortalNext
    /\ Cardinality({ g \in Guests : guest'[g].status # "active" }) <= 1
    /\ \A v \in Visitors : errand'[v] # errand[v] /\ errand'[v].at = "door" => errand'[v].kind = "pickup"
ProtocolsNext == GateNext \/ \E g \in Guests : AnonymizePerson(g) \/ ErasePerson(g)

\* One vehicle with two officers or with a change of the tariff, or copies of the vehicle.
OneOfficer == Cardinality({ o \in Officers : plans'[o] # NoPlan }) <= 1
RatesNext  == IndexationNext /\ DOMAIN lot' = FirstLots /\ tariff'.set = 0
TariffNext == IndexationNext /\ DOMAIN lot' = FirstLots /\ OneOfficer
CopiesNext == IndexationNext /\ tariff'.set = 0 /\ OneOfficer /\ \A v \in DOMAIN lot : ~lot'[v].passed

\* One reader whose every request is answered, and all years, or two that share a calculation
\* of one year, before anything is too old.
SummaryNext == /\ OverviewNext
               /\ Cardinality({ r \in Readers : reader'[r].at # "out" }) <= 1 /\ Cardinality(flights') <= 1
               /\ \A r \in Readers : reader'[r].at = "out" => reader[r].at = "out"
SharedNext  == /\ OverviewNext /\ tick' = 0
               /\ Cardinality({ f.year : f \in flights' } \cup { y \in DashYears : cache'.rows[y].filled }) <= 1

-----------------------------------------------------------------------------
\* Two pauses without the hall plan, or one with it.
PausesNext == YardNext /\ UNCHANGED spotRows /\ \A v \in YardVehicles : vehicle'[v].spot = NoSpot
SpotsNext  == YardNext /\ Cardinality({ i \in PauseIds : pause'[i] # NoPause }) <= 1

\* The vs of the parts that stand still.
Rests(where, vs) == part \notin where => UNCHANGED vs

OfficeNext ==
    /\ UNCHANGED part
    /\ \/ part = "lines" /\ LinesNext
       \/ part = "held" /\ HeldNext
       \/ part = "roles" /\ RolesNext
       \/ part = "factors" /\ FactorsNext
       \/ part = "income" /\ (IncomeNext \/ YearNext)
       \/ part = "expenses" /\ (ExpenseNext \/ LockNext)
       \/ part = "assets" /\ (AssetNext \/ LockNext)
       \/ part = "wishes" /\ WishesNext
       \/ part = "slots" /\ SlotsNext
       \/ part = "gate" /\ ProtocolsNext
       \/ part = "rates" /\ RatesNext
       \/ part = "tariff" /\ TariffNext
       \/ part = "copies" /\ CopiesNext
       \/ part = "summary" /\ SummaryNext
       \/ part = "shared" /\ SharedNext
       \/ part = "round" /\ AutoInvoiceNext
       \/ part = "pauses" /\ PausesNext
       \/ part = "spots" /\ SpotsNext
    /\ Rests({"lines", "held"}, receiptsVars)
    /\ Rests({"roles", "factors"}, accessVars)
    /\ Rests({"income", "expenses", "assets"}, taxVars)
    /\ Rests({"wishes", "slots", "gate"}, deskVars)
    /\ Rests({"rates", "tariff", "copies"}, indexVars)
    /\ Rests({"summary", "shared"}, overviewVars)
    /\ Rests({"round"}, autoVars)
    /\ Rests({"pauses", "spots"}, yardVars)

officeVars == <<part, receiptsVars, accessVars, taxVars, deskVars, indexVars, overviewVars, autoVars, yardVars>>

OfficeSpec == OfficeInit /\ [][OfficeNext]_officeVars

\* Type invariant: every table and every request in flight of the office keeps
\* its domain, in every part (receipts, sessions, tax book, portal, indexation,
\* dashboard and yard).
OfficeTypeOK ==
    /\ ReceiptsTypeOK /\ AccessTypeOK /\ TaxTypeOK /\ FrontDeskTypeOK
    /\ IndexationTypeOK /\ OverviewTypeOK /\ YardTypeOK
=============================================================================
