------------------------------- MODULE MCHouse -------------------------------
(***************************************************************************)
(* Small instances of the parts that run in the background of the house, in    *)
(* one run: contracts and the archive sweep, a restore, the backups.  They share *)
(* no state; as in MCOffice, part says which one a behaviour is about, and the   *)
(* others stand still and are owed no step.                                     *)
(***************************************************************************)
EXTENDS Contracts, RestoreControl, Backups, TLC

VARIABLE part

Standing == {"agreements", "billing", "recurring"}
Saving   == {"schedule", "button"}
Parts    == Standing \cup {"restore"} \cup Saving

HouseInit ==
    /\ part \in Parts
    /\ ContractsInit /\ RestoreInit /\ BackupInit
    /\ part \notin {"agreements", "billing"} => row = [i \in Accruals |-> NoRow] /\ Present = {}

\* Two agreements without invoices, one with invoices, or recurring costs alone.
Untried(ids)   == UNCHANGED [i \in ids |-> row[i]]
AgreementsNext == ContractsNext /\ Untried(Recurring) /\ nInvoice' = 0
BillingNext    == ContractsNext /\ Untried(Recurring \cup {2})
RecurringNext  == ContractsNext /\ Untried(Agreements) /\ UNCHANGED fleet

\* The schedule with a mishap, or with a request of a clerk.
ScheduleNext == BackupNext /\ requests' = 0
ButtonNext   == BackupNext /\ mishaps' = 0

Rests(where, vs) == part \notin where => UNCHANGED vs

HouseNext ==
    /\ UNCHANGED part
    /\ \/ part = "agreements" /\ AgreementsNext
       \/ part = "billing" /\ BillingNext
       \/ part = "recurring" /\ RecurringNext
       \/ part = "restore" /\ RestoreNext
       \/ part = "schedule" /\ ScheduleNext
       \/ part = "button" /\ ButtonNext
    /\ Rests(Standing, contractsVars)
    /\ Rests({"restore"}, restoreVars)
    /\ Rests(Saving, backupVars)

houseVars == <<part, contractsVars, restoreVars, backupVars>>

\* The fairness of each part (ContractsSpec, RestoreFairness, FairBackupSpec).
Fairness ==
    /\ WF_contractsVars(part \in Standing /\ SweepRead)
    /\ WF_contractsVars(part \in Standing /\ SweepWrite)
    /\ \A r \in Replicas : /\ WF_restoreVars(part = "restore" /\ Run(r))
                           /\ WF_restoreVars(part = "restore" /\ Answer(r))
                           /\ WF_restoreVars(part = "restore" /\ SeeStale(r))
    /\ \A j \in Jobs : WF_restoreVars(part = "restore" /\ GoesStale(j) /\ ~Beating(j))
    /\ WF_restoreVars(part = "restore" /\ OfflineRestore /\ offline # "idle")
    /\ \A h \in Hosts : WF_backupVars(part \in Saving /\ Plan(h))

HouseSpec == HouseInit /\ [][HouseNext]_houseVars /\ Fairness

\* A target that is due is tried, where backups run.
BackupsDueAreTried == part \in Saving => DueIsTried
=============================================================================
