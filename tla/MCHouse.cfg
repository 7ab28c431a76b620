SPECIFICATION HouseSpec
CONSTANTS
    \* Contracts
    Agreements = {1, 2}
    Recurring = {3}
    Vehicles = {"v1"}
    LastBilling = 1
    Amounts = {2}
    RecurringAmounts = {2}
    DeletableVehicles = {"v1"}
    ChargedVehicles = {"v1"}
    CreatedPaid = {FALSE}
    BackfillOverlaps = FALSE
    MaxInvoices = 1
    \* RestoreControl
    Replicas = {"r1", "r2"}
    Jobs = {"j1"}
    MaxFaults = 2
    Offline = TRUE
    OfflineBreaks = FALSE
    LeaseLoss = FALSE
    \* Backups
    Hosts = {"h1", "h2"}
    Desks = {"h1"}
    Retentions = {1, 2}
    FirstKeep = 1
    LastPeriod = 2
    MaxRequests = 1
    MaxMishaps = 1
    Space = 4
INVARIANTS
      ReceiptKeepsItsPeriod
    ServesSoundDatabase OutcomeIsTrue GoodStandRemains
PROPERTIES
    ArchiveHeals RestoreEnds BackupsDueAreTried
CHECK_DEADLOCK FALSE
