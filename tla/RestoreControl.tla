--------------------------- MODULE RestoreControl ---------------------------
(***************************************************************************)
(* Replacing the database from an archive while replicas of the application   *)
(* run.  An administrator queues a job in one replica, its owner.  Every        *)
(* replica closes its gate, drains, and gives back the shared lease; the owner   *)
(* then takes the exclusive lease, lets pg_restore replace the schema, migrates  *)
(* it, purges the sessions the archive brought back, and closes the job.  A      *)
(* heartbeat keeps the job the owner's: when it stops, one survivor claims the   *)
(* job and repairs the database without restoring again.                        *)
(*                                                                           *)
(* The job rows lie in a schema no restore touches.  A crash or an error exits   *)
(* the process, whose locks, heartbeat and secrets go with it; the container     *)
(* is started again under a new instance id, so its rows have the owner Gone.    *)
(***************************************************************************)
EXTENDS Naturals, FiniteSets

CONSTANTS
    Replicas,      \* processes of the application
    Jobs,          \* restore_jobs.id
    MaxFaults,     \* bound: crashes, missed heartbeats and lost answers
    Offline,       \* whether the offline command (parkrr restore) is run
    OfflineBreaks, \* whether it may stop half-way
    LeaseLoss      \* whether a lease session may break unnoticed

Gone == "gone"
Cli  == "cli"
None == "none"

ASSUME RestoreAssumption ==
    /\ MaxFaults \in Nat /\ {Offline, OfflineBreaks, LeaseLoss} \subseteq BOOLEAN
    /\ Replicas \cap {Gone, Cli, None} = {} /\ None \notin Jobs

VARIABLES
    at,         \* where a replica's main loop is
    task,       \* the job it coordinates and what it found out about it
    jobRow,     \* parkrr_control.restore_jobs
    stale,      \* jobs whose updated_at is older than coordinatorTimeout
    seen,       \* replicas that read their job as stale and unchanged since
    secret,     \* jobs whose archive key the owner holds in memory
    request,    \* the request a replica is serving
    sharers,    \* holders of the shared lease
    exclusive,  \* holder of the exclusive lease
    database,   \* the application schema
    offline,    \* where the offline command is
    faults

procVars    == <<at, task, seen, secret, request>>
leaseVars   == <<sharers, exclusive>>
restoreVars == <<at, task, jobRow, stale, seen, secret, request, sharers, exclusive, database, offline, faults>>

Terminal  == {"complete", "failed"}
BeforeImport == {"queued", "draining"}   \* phases in which pg_restore was never started
\* The phases of a restore, in order, and the exclusive lease before them.
After == [draining |-> "restoring", restoring |-> "migrating", migrating |-> "purging_sessions",
          purging_sessions |-> "verifying", verifying |-> "finish"]
Stages == DOMAIN After
\* The point before a phase, where the row is still in the one before.
Before == [draining |-> "to draining", restoring |-> "to restoring", migrating |-> "to migrating",
           purging_sessions |-> "to purging_sessions", verifying |-> "to verifying"]
To(stage) == Before[stage]
Points == {"down", "lease", "migrate", "boot", "serving", "drain", "closed", "stuck", "coordinate", "wait", "finish", "resume", "remigrate"}
            \cup Stages \cup { To(s) : s \in Stages }
NoTask == [job |-> None, recovers |-> FALSE, phase |-> "queued", failed |-> FALSE]
Sound  == [schema |-> "current", sessions |-> "own", from |-> None]

Active == { j \in Jobs : jobRow[j].phase \notin Terminal \cup {None} }
\* The process still serves requests or runs workers of its generation.
Working(r) == at[r] \in {"serving", "drain"}
Owns(r)    == jobRow[task[r].job].owner = r
Beating(j) == /\ jobRow[j].owner # Gone
              /\ j \in secret \/ (task[jobRow[j].owner].job = j /\ task[jobRow[j].owner].recovers)
SharedFree    == exclusive = None /\ ~\E r \in Replicas : at[r] = "draining"
ExclusiveFree == exclusive = None /\ sharers = {}

RestoreTypeOK ==
    /\ \A r \in Replicas : /\ at[r] \in Points
                           /\ task[r].job \in Jobs \cup {None}
                           /\ request[r] \in Jobs \cup {None, "request"}
                           /\ at[r] \in Stages \cup { To(s) : s \in Stages } \cup {"finish"} => task[r].job # None
    /\ Cardinality(Active) <= 1
    /\ exclusive # None => sharers = {}
    /\ stale \subseteq Active /\ faults \in 0 .. MaxFaults

RestoreInit ==
    /\ at = [r \in Replicas |-> "down"]
    /\ task = [r \in Replicas |-> NoTask]
    /\ jobRow = [j \in Jobs |-> [phase |-> None, owner |-> Gone, touched |-> FALSE]]
    /\ stale = {} /\ seen = {} /\ secret = {}
    /\ request = [r \in Replicas |-> None]
    /\ sharers = {} /\ exclusive = None
    /\ database = Sound
    /\ offline = "idle" /\ faults = 0

-----------------------------------------------------------------------------
Go(r, point) == at' = [at EXCEPT ![r] = point]

\* The process is gone, with everything it held in memory and in sessions.
Exit(r) ==
    /\ Go(r, "down")
    /\ task' = [task EXCEPT ![r] = NoTask]
    /\ jobRow' = [j \in Jobs |-> IF jobRow[j].owner = r THEN [jobRow[j] EXCEPT !.owner = Gone] ELSE jobRow[j]]
    /\ secret' = { j \in secret : jobRow[j].owner # r }
    /\ seen' = seen \ {r}
    /\ request' = [request EXCEPT ![r] = None]
    /\ sharers' = sharers \ {r}
    /\ exclusive' = IF exclusive = r THEN None ELSE exclusive
    /\ UNCHANGED <<stale, database, offline>>

Crash(r) ==
    /\ at[r] # "down" /\ faults < MaxFaults
    /\ Exit(r)
    /\ faults' = faults + 1

-----------------------------------------------------------------------------
(* run: start of a process, and the way back after a restore.                *)
Start(r) ==
    /\ at[r] = "down"
    /\ Go(r, "lease")
    /\ UNCHANGED <<task, jobRow, stale, seen, secret, request, leaseVars, database, offline, faults>>

AcquireApplicationLease(r) ==
    /\ at[r] \in {"lease", "resume"} /\ SharedFree
    /\ sharers' = sharers \cup {r}
    /\ Go(r, IF at[r] = "lease" THEN "migrate" ELSE "remigrate")
    /\ UNCHANGED <<task, jobRow, stale, seen, secret, request, exclusive, database, offline, faults>>

Migrate(r) ==
    /\ at[r] \in {"migrate", "remigrate"}
    /\ database' = [database EXCEPT !.schema = "current"]
    /\ Go(r, IF at[r] = "migrate" THEN "boot" ELSE "serving")
    /\ UNCHANGED <<task, jobRow, stale, seen, secret, request, leaseVars, offline, faults>>

\* With a job pending the process starts closed and coordinates it at once.
Boot(r) ==
    /\ at[r] = "boot"
    /\ IF Active = {}
       THEN Go(r, "serving") /\ UNCHANGED task
       ELSE \E j \in Active : Go(r, "closed") /\ task' = [task EXCEPT ![r].job = j]
    /\ UNCHANGED <<jobRow, stale, seen, secret, request, leaseVars, database, offline, faults>>

-----------------------------------------------------------------------------
(* Requests, and the one that queues a restore.                              *)
BeginRequest(r) ==
    /\ at[r] = "serving" /\ request[r] = None
    /\ request' = [request EXCEPT ![r] = "request"]
    /\ UNCHANGED <<at, task, jobRow, stale, seen, secret, leaseVars, database, offline, faults>>

EndRequest(r) ==
    /\ request[r] = "request"
    /\ request' = [request EXCEPT ![r] = None]
    /\ UNCHANGED <<at, task, jobRow, stale, seen, secret, leaseVars, database, offline, faults>>

\* A unique index admits one job that is not over.
SubmitInsert(r, j) ==
    /\ at[r] = "serving" /\ request[r] = None
    /\ jobRow[j].phase = None /\ Active = {}
    /\ jobRow' = [jobRow EXCEPT ![j] = [@ EXCEPT !.phase = "queued", !.owner = r]]
    /\ request' = [request EXCEPT ![r] = j]
    /\ UNCHANGED <<at, task, stale, seen, secret, leaseVars, database, offline, faults>>

\* The heartbeat starts and the key is kept; or the answer of the insert is lost.
SubmitDone(r) ==
    /\ request[r] \in Jobs
    /\ \/ secret' = secret \cup {request[r]} /\ UNCHANGED faults
       \/ faults < MaxFaults /\ faults' = faults + 1 /\ UNCHANGED secret
    /\ request' = [request EXCEPT ![r] = None]
    /\ UNCHANGED <<at, task, jobRow, stale, seen, leaseVars, database, offline>>

-----------------------------------------------------------------------------
(* The main loop of a replica that sees a job.                                *)
Notice(r) ==
    /\ at[r] \in {"serving", "stuck"}
    /\ \E j \in Active : task' = [task EXCEPT ![r].job = j]
    /\ Go(r, IF at[r] = "serving" THEN "drain" ELSE "closed")
    /\ UNCHANGED <<jobRow, stale, seen, secret, request, leaseVars, database, offline, faults>>

\* A process that started closed and finds its job over keeps waiting, closed.
FindOver(r) ==
    /\ at[r] = "closed" /\ jobRow[task[r].job].phase \in Terminal
    /\ Go(r, "stuck")
    /\ UNCHANGED <<task, jobRow, stale, seen, secret, request, leaseVars, database, offline, faults>>

Closed(r) == at[r] = "closed" /\ task[r].job \in Active

\* Mutant: the lease is given back while a request still runs.
MutantDrained(r) == at[r] = "drain" \/ Closed(r)
\* The gate is closed; requests and workers have ended.
Drained(r) == request[r] = None /\ (at[r] = "drain" \/ Closed(r))

\* A lease whose session is gone cannot be given back: the process ends.
ReleaseApplicationLease(r) ==
    /\ Drained(r)
    /\ IF r \in sharers
       THEN /\ sharers' = sharers \ {r}
            /\ Go(r, "coordinate")
            /\ UNCHANGED <<task, jobRow, stale, seen, secret, request, exclusive, database, offline>>
       ELSE Exit(r)
    /\ UNCHANGED faults

\* The owner needs the key it keeps; everybody else waits.
Coordinate(r) ==
    /\ at[r] = "coordinate"
    /\ IF Owns(r) /\ task[r].job \notin secret
       THEN Exit(r)
       ELSE /\ Go(r, IF Owns(r) THEN To("draining") ELSE "wait")
            /\ UNCHANGED <<task, jobRow, stale, seen, secret, request, leaseVars, database, offline>>
    /\ UNCHANGED faults

\* WaitTerminal: the job is over, or its heartbeat is.
SeeTerminal(r) ==
    /\ at[r] = "wait" /\ jobRow[task[r].job].phase \in Terminal
    /\ Go(r, "resume")
    /\ task' = [task EXCEPT ![r] = NoTask]
    /\ seen' = seen \ {r}
    /\ UNCHANGED <<jobRow, stale, secret, request, leaseVars, database, offline, faults>>

SeeStale(r) ==
    /\ at[r] = "wait" /\ task[r].job \in stale
    /\ seen' = seen \cup {r}
    /\ task' = [task EXCEPT ![r].phase = jobRow[task[r].job].phase]
    /\ UNCHANGED <<at, jobRow, stale, secret, request, leaseVars, database, offline, faults>>

\* Whoever wrote the row last is known by updated_at; a write voids what was seen.
Touch(j) == /\ stale' = stale \ {j}
            /\ seen' = { r \in seen : task[r].job # j }

\* Mutant: the claim leaves the owner in the row.
MutantClaimed(j, r) == [jobRow EXCEPT ![j].phase = "recovering"]
Claimed(j, r) == [jobRow EXCEPT ![j].owner = r, ![j].phase = "recovering"]

ClaimRecovery(r) ==
    LET j == task[r].job IN
    /\ at[r] = "wait" /\ r \in seen
    /\ jobRow' = Claimed(j, r)
    /\ task' = [task EXCEPT ![r].recovers = TRUE]
    /\ Go(r, "draining")
    /\ Touch(j)
    /\ UNCHANGED <<secret, request, leaseVars, database, offline, faults>>

-----------------------------------------------------------------------------
(* The restore itself, and its recovery.                                      *)
\* UpdatePhase: only the owner of the job gets on.
UpdatePhase(r, stage) ==
    LET j == task[r].job IN
    /\ at[r] = To(stage)
    /\ IF Owns(r)
       THEN /\ jobRow' = [jobRow EXCEPT ![j].phase = stage]
            /\ Touch(j)
            /\ Go(r, stage)
            /\ UNCHANGED <<task, secret, request, leaseVars, database, offline>>
       ELSE Exit(r)
    /\ UNCHANGED faults

\* A recoverer of a job that never got to pg_restore has nothing to repair.
AcquireRestoreLease(r) ==
    /\ at[r] = "draining" /\ ExclusiveFree
    /\ exclusive' = r
    /\ Go(r, IF ~task[r].recovers THEN To("restoring")
             ELSE IF task[r].phase \in BeforeImport THEN "finish" ELSE To("migrating"))
    /\ UNCHANGED <<task, jobRow, stale, seen, secret, request, sharers, database, offline, faults>>

\* One transaction: the archive's schema and sessions, or the database as it was.
Restored(j) == [schema |-> "old", sessions |-> "archived", from |-> j]

RestoreFile(r) ==
    /\ at[r] = "restoring"
    /\ \/ /\ database' = Restored(task[r].job)
          /\ jobRow' = [jobRow EXCEPT ![task[r].job].touched = TRUE]
          /\ UNCHANGED task
       \/ /\ task' = [task EXCEPT ![r].failed = TRUE]
          /\ UNCHANGED <<database, jobRow>>
    /\ Go(r, To("migrating"))
    /\ UNCHANGED <<stale, seen, secret, request, leaseVars, offline, faults>>

\* repairRestoredDatabase, one postcondition after the other.
Repair(r, stage) ==
    /\ at[r] = stage /\ stage \in {"migrating", "purging_sessions", "verifying"}
    /\ stage = "verifying" => database.sessions # "archived"
    /\ database' = CASE stage = "migrating" -> [database EXCEPT !.schema = "current"]
                     [] stage = "purging_sessions" -> [database EXCEPT !.sessions = "own"]
                     [] OTHER -> database
    /\ Go(r, IF stage = "verifying" THEN "finish" ELSE To(After[stage]))
    /\ UNCHANGED <<task, jobRow, stale, seen, secret, request, leaseVars, offline, faults>>

\* A recovered job never counts as done: the archive may not have come in.
\* Mutant: only an error seen by this process makes a job a failed one.
MutantOutcome(found) == IF found.failed THEN "failed" ELSE "complete"
Outcome(found) == IF found.recovers \/ found.failed THEN "failed" ELSE "complete"

\* Finish, then the exclusive lease and the key go.
Finish(r) ==
    LET j == task[r].job IN
    /\ at[r] = "finish"
    /\ IF Owns(r)
       THEN /\ jobRow' = [jobRow EXCEPT ![j].phase = Outcome(task[r])]
            /\ Touch(j)
            /\ secret' = secret \ {j}
            /\ exclusive' = IF exclusive = r THEN None ELSE exclusive
            /\ task' = [task EXCEPT ![r] = NoTask]
            /\ Go(r, "resume")
            /\ UNCHANGED <<request, sharers, database, offline>>
       ELSE Exit(r)
    /\ UNCHANGED faults

-----------------------------------------------------------------------------
(* Heartbeats.                                                               *)
GoesStale(j) ==
    /\ j \in Active \ stale
    /\ stale' = stale \cup {j}
    /\ IF Beating(j) THEN faults < MaxFaults /\ faults' = faults + 1 ELSE UNCHANGED faults
    /\ UNCHANGED <<at, task, jobRow, seen, secret, request, leaseVars, database, offline>>

Beat(j) ==
    /\ j \in stale /\ Beating(j)
    /\ Touch(j)
    /\ UNCHANGED <<at, task, jobRow, secret, request, leaseVars, database, offline, faults>>

LoseLease(r) ==
    /\ LeaseLoss /\ faults < MaxFaults /\ (r \in sharers \/ exclusive = r)
    /\ sharers' = sharers \ {r}
    /\ exclusive' = IF exclusive = r THEN None ELSE exclusive
    /\ faults' = faults + 1
    /\ UNCHANGED <<at, task, jobRow, stale, seen, secret, request, database, offline>>

-----------------------------------------------------------------------------
(* The offline command: it refuses while a replica holds the shared lease.     *)
OfflineStep ==
    \/ /\ Offline /\ offline = "idle" /\ ExclusiveFree
       /\ exclusive' = Cli /\ offline' = "restore" /\ UNCHANGED database
    \/ /\ offline = "restore"
       /\ \/ database' = Restored(Cli) /\ offline' = "migrate" /\ UNCHANGED exclusive
          \/ offline' = "over" /\ exclusive' = None /\ UNCHANGED database
    \/ /\ offline = "migrate"
       /\ database' = [database EXCEPT !.schema = "current"]
       /\ offline' = "purge" /\ UNCHANGED exclusive
    \/ /\ offline = "purge"
       /\ database' = [database EXCEPT !.sessions = "own"]
       /\ offline' = "over" /\ exclusive' = None
    \/ /\ OfflineBreaks /\ exclusive = Cli
       /\ offline' = "over" /\ exclusive' = None /\ UNCHANGED database

OfflineRestore ==
    /\ OfflineStep
    /\ UNCHANGED <<at, task, jobRow, stale, seen, secret, request, sharers, faults>>

-----------------------------------------------------------------------------
\* What the main loop does by itself, as long as the process runs.
Run(r) ==
    \/ Start(r) \/ AcquireApplicationLease(r) \/ Migrate(r) \/ Boot(r)
    \/ Notice(r) \/ FindOver(r) \/ ReleaseApplicationLease(r) \/ Coordinate(r)
    \/ SeeTerminal(r) \/ ClaimRecovery(r)
    \/ AcquireRestoreLease(r) \/ RestoreFile(r) \/ Finish(r)
    \/ \E s \in Stages : UpdatePhase(r, s) \/ Repair(r, s)

Answer(r) == EndRequest(r) \/ SubmitDone(r)

RestoreNext ==
    \/ \E r \in Replicas : Run(r) \/ Answer(r) \/ SeeStale(r) \/ BeginRequest(r) \/ Crash(r) \/ LoseLease(r)
    \/ \E j \in Jobs : GoesStale(j) \/ Beat(j) \/ \E r \in Replicas : SubmitInsert(r, j)
    \/ OfflineRestore

RestoreSpec == RestoreInit /\ [][RestoreNext]_restoreVars

\* A container is started again, a process goes on, a job nobody keeps turns
\* stale and is read again; the offline command ends.
RestoreFairness ==
    /\ \A r \in Replicas : WF_restoreVars(Run(r)) /\ WF_restoreVars(Answer(r)) /\ WF_restoreVars(SeeStale(r))
    /\ \A j \in Jobs : WF_restoreVars(GoesStale(j) /\ ~Beating(j))
    /\ WF_restoreVars(OfflineRestore /\ offline # "idle")

FairRestoreSpec == RestoreSpec /\ RestoreFairness

-----------------------------------------------------------------------------
(* Safety.  Nobody works on the database while it is being replaced, nor before  *)
(* it is migrated and the sessions of the archive are gone: a password changed   *)
(* or a login revoked since the archive was made stays so, however the restore   *)
(* ended (executeBrowserRestore, recoverInterruptedRestore, run).                 *)
ServesSoundDatabase ==
    \A r \in Replicas : Working(r) \/ request[r] # None =>
      /\ database.schema = "current" /\ database.sessions = "own"
      /\ ~\E o \in Replicas : at[o] = "restoring"

(* Safety.  What a job reports is what happened: a complete one has replaced the  *)
(* database, and no archive is brought in under a job that is already over       *)
(* (Finish, ClaimRecovery, UpdatePhase).                                         *)
OutcomeIsTrue ==
    /\ \A j \in Jobs : jobRow[j].phase = "complete" => jobRow[j].touched
    /\ \A r \in Replicas : at[r] = "restoring" => jobRow[task[r].job].phase \notin Terminal

(* Liveness.  A queued restore comes to an end: whatever crashes, a survivor or the *)
(* restarted process claims the job and brings the database back to work.          *)
RestoreEnds ==
    \A j \in Jobs : jobRow[j].phase = "queued" ~> jobRow[j].phase \in Terminal
=============================================================================
