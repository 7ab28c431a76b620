\* One vehicle over three periods of two days.
CONSTANTS
    c1 = c1
    c2 = c2
    v1 = v1
    v2 = v2
    Charges = {}
    Vehicles = {v1}
    NoVehicle = NoVehicle
    Price <- MCPrice
    DayRate <- MCRate
    PeriodDays = 2
    YearDays = 6
    MaxDay = 5
    Amounts = {1, 3}
    MaxPayments = 2
    MaxInvoices = 3
    MaxMoney = 8
SPECIFICATION Spec
INVARIANTS
    RentChargedOnce
    ArchivedIsClosed
CHECK_DEADLOCK FALSE
