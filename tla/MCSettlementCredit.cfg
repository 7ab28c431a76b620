\* Two charges that stand alone, receipts in two tax years, the Guthaben.
CONSTANTS
    c1 = c1
    c2 = c2
    v1 = v1
    v2 = v2
    Charges = {c1, c2}
    Vehicles = {}
    NoVehicle = NoVehicle
    Price <- MCPrice
    DayRate <- MCRate
    PeriodDays = 1
    YearDays = 1
    MaxDay = 2
    Amounts = {2, 3}
    MaxPayments = 2
    MaxInvoices = 2
    MaxMoney = 6
SPECIFICATION Spec
INVARIANTS
    NoOverAllocation
    InvoiceLedger
PROPERTIES
    ClosedYearFrozen
CHECK_DEADLOCK FALSE
