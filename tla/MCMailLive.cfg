SPECIFICATION FairSpec
CONSTANTS
    Invoices = {i1}  Workers = {w1, w2}  Clerks = {c1}
    Conns = {k1, k2}  NoOne = NoOne
    RemindSlots = 1  BatchSize = 1  MaxRetries = 1
    MaxMails = 1  MaxBooked = 1  MaxRequests = 2
PROPERTY QueueResolves
CHECK_DEADLOCK FALSE
