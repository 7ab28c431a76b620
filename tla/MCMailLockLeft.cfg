SPECIFICATION Spec
CONSTANTS
    Invoices = {i1}  Workers = {w1}  Clerks = {c1}
    Conns = {k1, k2}  NoOne = NoOne
    RemindSlots = 1  BatchSize = 1  MaxRetries = 0
    MaxMails = 2  MaxBooked = 1  MaxRequests = 1
INVARIANT NoLockLeftBehind
CHECK_DEADLOCK FALSE
