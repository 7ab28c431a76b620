SPECIFICATION Spec
CONSTANTS
    Invoices = {i1}  Workers = {w1, w2}  Clerks = {c1, c2}
    Conns = {k1, k2, k3}  NoOne = NoOne
    RemindSlots = 2  BatchSize = 2  MaxRetries = 0
    MaxMails = 2  MaxBooked = 4  MaxRequests = 2
INVARIANTS TypeOK ReminderExclusive CanceledNotMailed ClaimedOnce
PROPERTY ClimbsTheLadder
SYMMETRY ConnSymmetry
CHECK_DEADLOCK FALSE
