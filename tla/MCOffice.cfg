SPECIFICATION OfficeSpec
CONSTANTS
    \* Receipts
    Requests = {p1, p2}
    Actors = {q1, q2}
    NoRequest = NoRequest
    NoActor = NoActor
    Persons = {1}
    InvoiceTotal <- MCInvoiceTotal
    ClientKeys = {1}
    BankLines = {1}
    LineAmount <- MCLineAmount
    DepositAmounts = {1}
    MaxReceipts = 2
    MaxDeposits = 2
    \* Access
    Accounts = {"root", "ann"}
    Operator = "root"
    Visits = {p1, p2}
    Tokens = {t1}
    TimeSteps = {1}
    FreeFailures = 1
    MaxChallenges = 1
    MaxFailures = 1
    PasskeyOnly = FALSE
    Require2FA = FALSE
    OmitsStatus = FALSE
    MaxChanges = 3
    \* TaxBook
    LastTaxYear = 2
    Payers = {"ann"}
    Properties = {1, 2}
    IncomeIds = {1}
    ExpenseIds = {1, 2}
    AssetIds = {1}
    Templates = {"t"}
    TaxAmounts = {1}
    Bases = {5}
    Lives = {2}
    ReceiptLimit = 1
    MaxUploads = 2
    EntryDays = {1}
    RacingErasure = FALSE
    \* FrontDesk
    Guests = {q1, q2}
    Visitors = {p1, p2}
    Uploaders = {"a", "b"}
    PickupWindows <- MCPickupWindows
    WishIds = {1, 2}
    ProtocolIds = {1}
    MaxOpenWishes = 1
    MaxPhotos = 1
    \* Indexation
    Lots = {"a", "b"}
    FirstLots = {"a"}
    Officers = {p1, p2}
    CPI <- MCCPI
    Thresholds = {0}
    FirstPrice = 12
    LotYear = 2
    MaxSettings = 1
    \* Overview
    Readers = {p1, p2}
    Ledgers = {"w"}
    DashYears = {q1, q2}
    CacheTTL = 1
    CalcTimeout = 1
    LastTick = 2
    LastRevision = 2
    MaxFlights = 2
    \* AutoInvoice
    Planners = {"h1", "h2"}
    Customers = {1, 2}
    LastTerm = 3
    MaxTroubles = 2
    \* Yard
    YardVehicles = {"car"}
    PauseIds = {1, 2}
    Spots = {"s"}
    LastYardDay = 2
    StartDays = {0}
    EndDays = {}
    PauseDays = {0, 1}
    OutOfOrder = FALSE
INVARIANTS
    OfficeTypeOK LineShowsReceipt AdminRemains SessionsAreProven CodeSpentOnce CountedInOneYear
    WithinCapacity AnonymizedStaysEmpty  OverviewIsRecent MarkerIsEarned
    PaidNeverLost 
PROPERTIES
    BooksOnce LockedYearStands
SYMMETRY OfficeSymmetry
CHECK_DEADLOCK FALSE
