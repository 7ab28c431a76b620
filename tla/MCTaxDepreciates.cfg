SPECIFICATION TaxSpec
CONSTANTS
    LastTaxYear = 3
    Payers = {"ann"}
    Properties = {1}
    IncomeIds = {}
    ExpenseIds = {}
    AssetIds = {1}
    Templates = {}
    TaxAmounts = {1}
    Bases = {5}
    Lives = {2}
    ReceiptLimit = 1
    MaxUploads = 1
    EntryDays = {1}
    RacingErasure = FALSE
INVARIANT DepreciatedWithinBasis
CHECK_DEADLOCK FALSE
