\* A charge bound to a vehicle, within one day.
CONSTANTS
    c1 = c1
    c2 = c2
    v1 = v1
    v2 = v2
    Charges = {c1}
    Vehicles = {v1}
    NoVehicle = NoVehicle
    Price <- MCPrice
    DayRate <- MCRate
    PeriodDays = 2
    YearDays = 1
    MaxDay = 1
    Amounts = {3}
    MaxPayments = 2
    MaxInvoices = 2
    MaxMoney = 6
SPECIFICATION Spec
INVARIANTS
    NoChargeLost
CHECK_DEADLOCK FALSE
