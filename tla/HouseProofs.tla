---------------------------- MODULE HouseProofs -----------------------------
(***************************************************************************)
(* Machine-checked theorems about RestoreControl, for every set of replicas and *)
(* jobs, about Backups, for every set of hosts and desks, every retention and *)
(* every number of requests and mishaps, and about Contracts, for every set of *)
(* agreements, recurring costs and vehicles, any prices and any number of  *)
(* periods; and the house of MCHouse runs each of them as it is specified.  *)
(***************************************************************************)
EXTENDS MCHouse, SequenceTheorems, FiniteSetTheorems, TLAPS

\* The phases of a job that is there.
JobPhases == {"queued", "recovering"} \cup Stages \cup Terminal
TaskType  == [job : Jobs \cup {None}, recovers : BOOLEAN, phase : JobPhases, failed : BOOLEAN]
JobType   == [phase : JobPhases \cup {None}, owner : Replicas \cup {Gone}, touched : BOOLEAN]
DatabaseType == [schema : {"current", "old"}, sessions : {"own", "archived"}, from : Jobs \cup {None, Cli}]

\* The domains of the variables.
RestoreTyped ==
    /\ at \in [Replicas -> Points]
    /\ task \in [Replicas -> TaskType]
    /\ jobRow \in [Jobs -> JobType]
    /\ secret \subseteq Jobs /\ seen \subseteq Replicas
    /\ request \in [Replicas -> Jobs \cup {None, "request"}]
    /\ sharers \subseteq Replicas
    /\ exclusive \in Replicas \cup {None, Cli}
    /\ database \in DatabaseType
    /\ offline \in {"idle", "restore", "migrate", "purge", "over"}

\* The stages, by name.
LEMMA StageNames ==
    /\ Stages = {"draining", "restoring", "migrating", "purging_sessions", "verifying"}
    /\ To("draining") = "to draining" /\ To("restoring") = "to restoring"
    /\ To("migrating") = "to migrating" /\ To("purging_sessions") = "to purging_sessions"
    /\ To("verifying") = "to verifying"
    /\ After["migrating"] = "purging_sessions" /\ After["purging_sessions"] = "verifying"
  BY DEF Stages, To, After, Before

\* The points, by name.
PointNames == {"down", "lease", "migrate", "boot", "serving", "drain", "closed", "stuck", "coordinate", "wait", "finish", "resume", "remigrate",
   "draining", "restoring", "migrating", "purging_sessions", "verifying",
   "to draining", "to restoring", "to migrating", "to purging_sessions", "to verifying"}
\* The points are these.
LEMMA PointsAre == Points = PointNames
  <1>1. { To(s) : s \in Stages } = {"to draining", "to restoring", "to migrating", "to purging_sessions", "to verifying"}
    BY StageNames
  <1> QED BY <1>1, StageNames DEF Points, PointNames

\* The phases are these.
LEMMA PhasesAre == JobPhases = {"queued", "recovering", "draining", "restoring", "migrating", "purging_sessions", "verifying", "complete", "failed"}
  BY StageNames DEF JobPhases, Terminal

\* A process that ends.
LEMMA ExitTyped ==
  ASSUME RestoreTyped, NEW r \in Replicas, Exit(r)
  PROVE  RestoreTyped'
  <1>1. at' \in [Replicas -> Points] /\ task' \in [Replicas -> TaskType] /\ request' \in [Replicas -> Jobs \cup {None, "request"}]
    BY PhasesAre DEF RestoreTyped, Exit, Go, Points, TaskType, NoTask
  <1>2. jobRow' \in [Jobs -> JobType]
    <2> SUFFICES ASSUME NEW j \in Jobs PROVE (IF jobRow[j].owner = r THEN [jobRow[j] EXCEPT !.owner = Gone] ELSE jobRow[j]) \in JobType
      BY DEF Exit
    <2>1. jobRow[j] \in JobType
      BY DEF RestoreTyped
    <2> QED BY <2>1 DEF JobType
  <1> QED BY <1>1, <1>2 DEF RestoreTyped, Exit

\* Writes of a task.
LEMMA TaskSet ==
  ASSUME NEW t \in TaskType
  PROVE  /\ \A j \in Jobs : [t EXCEPT !.job = j] \in TaskType /\ [t EXCEPT !.job = j].job = j
         /\ \A p \in JobPhases : [t EXCEPT !.phase = p] \in TaskType /\ [t EXCEPT !.phase = p].job = t.job
         /\ [t EXCEPT !.recovers = TRUE] \in TaskType /\ [t EXCEPT !.recovers = TRUE].job = t.job
         /\ [t EXCEPT !.failed = TRUE] \in TaskType /\ [t EXCEPT !.failed = TRUE].job = t.job
  <1>1. ASSUME NEW j \in Jobs PROVE [t EXCEPT !.job = j] \in TaskType /\ [t EXCEPT !.job = j].job = j
    BY DEF TaskType
  <1>2. ASSUME NEW p \in JobPhases PROVE [t EXCEPT !.phase = p] \in TaskType /\ [t EXCEPT !.phase = p].job = t.job
    BY DEF TaskType
  <1>3. [t EXCEPT !.recovers = TRUE] \in TaskType /\ [t EXCEPT !.failed = TRUE] \in TaskType
    BY DEF TaskType
  <1>4. [t EXCEPT !.recovers = TRUE].job = t.job /\ [t EXCEPT !.failed = TRUE].job = t.job
    BY DEF TaskType
  <1> QED BY <1>1, <1>2, <1>3, <1>4

\* Writes of a job row.
LEMMA JobSet ==
  ASSUME NEW w \in JobType
  PROVE  /\ \A p \in JobPhases : [w EXCEPT !.phase = p] \in JobType
         /\ \A p \in JobPhases, r \in Replicas : [w EXCEPT !.phase = p, !.owner = r] \in JobType
         /\ \A p \in JobPhases, r \in Replicas : [w EXCEPT !.owner = r, !.phase = p] \in JobType
         /\ [w EXCEPT !.touched = TRUE] \in JobType
  BY DEF JobType

\* The points at which a replica is about a job.
Alone == {"to restoring", "restoring", "to migrating", "migrating", "to purging_sessions",
          "purging_sessions", "to verifying", "verifying", "finish"}
Inside == Alone \cup {"to draining", "draining"}

\* A replica there has a job.
HasTask == \A r \in Replicas : at[r] \in Inside \cup {"drain", "closed", "coordinate", "wait"} => task[r].job \in Jobs
\* A job that is not over, and the points of a replica about one.
On(j) == j \in Jobs /\ jobRow[j].phase \notin {"complete", "failed", "none"}
Past  == {"draining"} \cup Alone
Busy  == {"drain", "closed", "coordinate"} \cup Inside
Quiet == {"queued", "complete", "failed"}
\* Only a job that is not over grows stale; a replica that saw it stale waits, and its
\* reading is unchanged; a waiting replica owns nothing; an owner at work has a job
\* that is not over, in the phase it is at; a row nobody wrote has no owner.
StaleActive == \A j \in stale : On(j)
SeenWaits == \A r \in seen : at[r] = "wait" /\ On(task[r].job) /\ task[r].phase = jobRow[task[r].job].phase
WaitsForOther == \A r \in Replicas : at[r] = "wait" => ~Owns(r)
OwnersJobOn == \A r \in Replicas : at[r] \in Busy /\ Owns(r) => On(task[r].job)
OwnerPhase == \A r \in Replicas, j \in Jobs :
    jobRow[j].owner = r => jobRow[j].phase \in Quiet \/ (task[r].job = j /\ at[r] \in Past)
Unowned == \A j \in Jobs : jobRow[j].phase = None => jobRow[j].owner = Gone
OwnerInv == StaleActive /\ SeenWaits /\ WaitsForOther /\ OwnersJobOn /\ OwnerPhase /\ Unowned

\* Who holds the lease: the offline command alone, the replica that restores alone, or
\* any number of those that serve.
Sharing == {"migrate", "boot", "serving", "drain", "closed", "stuck", "remigrate"}
CliAlone == exclusive = Cli <=> offline \in {"restore", "migrate", "purge"}
HoldsAlone == \A r \in Replicas : at[r] \in Alone => exclusive = r
LeaseAlone == exclusive # None => sharers = {}
HoldsShared == \A r \in Replicas : at[r] \in Sharing => r \in sharers
LeaseInv == CliAlone /\ HoldsAlone /\ LeaseAlone /\ HoldsShared

\* Where an import is under way or behind: the row says so, and an import that was not
\* given up is recorded in it (touched).
Repairs == {"migrating", "to purging_sessions", "purging_sessions", "to verifying", "verifying"}
Late == {"recovering", "restoring", "migrating", "purging_sessions", "verifying"}
Imports(r) == at[r] = "restoring" \/ at[r] \in Repairs \/ (at[r] = "to migrating" /\ ~task[r].recovers)
Behind == Repairs \cup {"to migrating", "finish"}
ImportOn == \A r \in Replicas : Imports(r) => jobRow[task[r].job].phase \in Late
TouchedSo == \A r \in Replicas : at[r] \in Behind => task[r].recovers \/ task[r].failed \/ jobRow[task[r].job].touched
DoneTouched == \A j \in Jobs : jobRow[j].phase = "complete" => jobRow[j].touched
ImportInv == ImportOn /\ TouchedSo /\ DoneTouched



\* Types and tasks at the start.
LEMMA RestoreTypedStart == RestoreInit => RestoreTyped /\ HasTask /\ StaleActive
  <1> SUFFICES ASSUME RestoreInit PROVE RestoreTyped /\ HasTask /\ StaleActive
    OBVIOUS
  <1>1. NoTask \in TaskType
    BY PhasesAre DEF TaskType, NoTask
  <1>2. [phase |-> None, owner |-> Gone, touched |-> FALSE] \in JobType
    BY DEF JobType
  <1>3. Sound \in DatabaseType
    BY DEF Sound, DatabaseType
  <1> QED BY <1>1, <1>2, <1>3, PointsAre DEF RestoreInit, RestoreTyped, HasTask, StaleActive, PointNames, Inside, Alone

\* They are kept by every step.
LEMMA RestoreTypedStep ==
  ASSUME RestoreTyped, HasTask, StaleActive, RestoreNext
  PROVE  RestoreTyped' /\ HasTask'
  <1> USE RestoreAssumption, PhasesAre, PointsAre DEF PointNames
  <1> DEFINE TypedNow == RestoreTyped' /\ HasTask'
  <1> SUFFICES TypedNow
    OBVIOUS
  <1>t. /\ at \in [Replicas -> Points] /\ task \in [Replicas -> TaskType]
        /\ jobRow \in [Jobs -> JobType] /\ NoTask \in TaskType
        /\ \A r \in Replicas : at[r] \in Inside \cup {"drain", "closed", "coordinate", "wait"} => task[r].job \in Jobs
    BY DEF RestoreTyped, HasTask, TaskType, NoTask
  <1>a. ASSUME NEW r \in Replicas, Exit(r) PROVE TypedNow
    <2>1. RestoreTyped'
      BY <1>a, ExitTyped
    <2>2. HasTask'
      BY <1>a, <1>t DEF Exit, Go, HasTask, Inside, Alone
    <2> QED BY <2>1, <2>2
  <1>m. ASSUME NEW r \in Replicas, NEW p \in Points, Go(r, p), UNCHANGED task,
               p \in Inside \cup {"drain", "closed", "coordinate", "wait"} => task[r].job \in Jobs
        PROVE  at' \in [Replicas -> Points] /\ HasTask'
    BY <1>m, <1>t DEF Go, HasTask
  <1>n. ASSUME NEW r \in Replicas, NEW p \in Points, NEW t \in TaskType, Go(r, p), task' = [task EXCEPT ![r] = t],
               p \in Inside \cup {"drain", "closed", "coordinate", "wait"} => t.job \in Jobs
        PROVE  at' \in [Replicas -> Points] /\ task' \in [Replicas -> TaskType] /\ HasTask'
    BY <1>n, <1>t DEF Go, HasTask
  <1>w. ASSUME NEW j \in Jobs, NEW w \in JobType, jobRow' = [jobRow EXCEPT ![j] = w]
        PROVE  jobRow' \in [Jobs -> JobType]
    BY <1>w, <1>t
  <1>1. ASSUME NEW r \in Replicas, Run(r) PROVE TypedNow
    <2>1. CASE Start(r)
      <3>1. at' \in [Replicas -> Points] /\ HasTask'
        BY <2>1, <1>m DEF Start, Inside, Alone
      <3> QED BY <2>1, <3>1 DEF Start, RestoreTyped, leaseVars
    <2>2. CASE AcquireApplicationLease(r)
      <3>1. at' \in [Replicas -> Points] /\ HasTask'
        BY <2>2, <1>m DEF AcquireApplicationLease, Inside, Alone
      <3> QED BY <2>2, <3>1 DEF AcquireApplicationLease, RestoreTyped
    <2>3. CASE Migrate(r)
      <3>1. at' \in [Replicas -> Points] /\ HasTask'
        BY <2>3, <1>m DEF Migrate, Inside, Alone
      <3>2. database' \in DatabaseType
        BY <2>3 DEF Migrate, RestoreTyped, DatabaseType
      <3> QED BY <2>3, <3>1, <3>2 DEF Migrate, RestoreTyped, leaseVars
    <2>4. CASE Boot(r)
      <3>1. /\ at' \in [Replicas -> Points] /\ HasTask' /\ task' \in [Replicas -> TaskType]
        <4>1. CASE Active = {}
          BY <2>4, <4>1, <1>m, <1>t DEF Boot, Inside, Alone
        <4>2. CASE Active # {}
          <5>1. PICK j \in Active : Go(r, "closed") /\ task' = [task EXCEPT ![r].job = j]
            BY <2>4, <4>2 DEF Boot
          <5>2. [task[r] EXCEPT !.job = j] \in TaskType /\ [task[r] EXCEPT !.job = j].job = j
            <6>1. j \in Jobs /\ task[r] \in TaskType
              BY <1>t DEF Active
            <6> QED BY <6>1, TaskSet
          <5> QED BY <5>1, <5>2, <1>n DEF Active
        <4> QED BY <4>1, <4>2
      <3> QED BY <2>4, <3>1 DEF Boot, RestoreTyped, leaseVars
    <2>5. CASE Notice(r)
      <3>1. /\ at' \in [Replicas -> Points] /\ HasTask' /\ task' \in [Replicas -> TaskType]
        <4>1. PICK j \in Active : task' = [task EXCEPT ![r].job = j]
          BY <2>5 DEF Notice
        <4>2. [task[r] EXCEPT !.job = j] \in TaskType /\ [task[r] EXCEPT !.job = j].job = j
          <5>1. j \in Jobs /\ task[r] \in TaskType
            BY <1>t DEF Active
          <5> QED BY <5>1, TaskSet
        <4>3. \E p \in {"drain", "closed"} : Go(r, p)
          BY <2>5 DEF Notice
        <4> QED BY <4>1, <4>2, <4>3, <1>n DEF Active
      <3> QED BY <2>5, <3>1 DEF Notice, RestoreTyped, leaseVars
    <2>6. CASE FindOver(r)
      <3>1. at' \in [Replicas -> Points] /\ HasTask'
        BY <2>6, <1>m DEF FindOver, Inside, Alone
      <3> QED BY <2>6, <3>1 DEF FindOver, RestoreTyped, leaseVars
    <2>7. CASE ReleaseApplicationLease(r)
      <3>1. CASE r \in sharers
        <4>1. at' \in [Replicas -> Points] /\ HasTask'
          BY <2>7, <3>1, <1>m, <1>t DEF ReleaseApplicationLease, Drained, Closed
        <4> QED BY <2>7, <3>1, <4>1 DEF ReleaseApplicationLease, RestoreTyped
      <3>2. CASE r \notin sharers
        BY <2>7, <3>2, <1>a DEF ReleaseApplicationLease
      <3> QED BY <3>1, <3>2
    <2>8. CASE Coordinate(r)
      <3>1. CASE Owns(r) /\ task[r].job \notin secret
        BY <2>8, <3>1, <1>a DEF Coordinate
      <3>2. CASE ~(Owns(r) /\ task[r].job \notin secret)
        <4>1. at' \in [Replicas -> Points] /\ HasTask'
          BY <2>8, <3>2, <1>m, <1>t, StageNames DEF Coordinate
        <4> QED BY <2>8, <3>2, <4>1 DEF Coordinate, RestoreTyped, leaseVars
      <3> QED BY <3>1, <3>2
    <2>9. CASE SeeTerminal(r)
      <3>1. /\ at' \in [Replicas -> Points] /\ HasTask' /\ task' \in [Replicas -> TaskType]
        BY <2>9, <1>n, <1>t DEF SeeTerminal, Inside, Alone
      <3> QED BY <2>9, <3>1 DEF SeeTerminal, RestoreTyped, leaseVars
    <2>10. CASE ClaimRecovery(r)
      <3>1. [task[r] EXCEPT !.recovers = TRUE] \in TaskType /\ [task[r] EXCEPT !.recovers = TRUE].job = task[r].job
        BY <1>t, TaskSet
      <3>2. /\ at' \in [Replicas -> Points] /\ HasTask' /\ task' \in [Replicas -> TaskType]
        BY <2>10, <3>1, <1>n, <1>t DEF ClaimRecovery
      <3>3. jobRow' \in [Jobs -> JobType]
        <4>1. task[r].job \in Jobs /\ jobRow[task[r].job] \in JobType
          BY <2>10, <1>t DEF ClaimRecovery
        <4>2. [jobRow[task[r].job] EXCEPT !.owner = r, !.phase = "recovering"] \in JobType
          BY <4>1, JobSet
        <4>3. jobRow' = [jobRow EXCEPT ![task[r].job] = [jobRow[task[r].job] EXCEPT !.owner = r, !.phase = "recovering"]]
          BY <2>10, <4>1, <1>t DEF ClaimRecovery, Claimed, JobType
        <4> QED BY <4>1, <4>2, <4>3, <1>w
      <3>4. seen' \subseteq Replicas
        BY <2>10 DEF ClaimRecovery, Touch, RestoreTyped
      <3> QED BY <2>10, <3>2, <3>3, <3>4 DEF ClaimRecovery, RestoreTyped, leaseVars
    <2>11. CASE AcquireRestoreLease(r)
      <3>1. at' \in [Replicas -> Points] /\ HasTask'
        BY <2>11, <1>m, <1>t, StageNames DEF AcquireRestoreLease, Inside
      <3> QED BY <2>11, <3>1 DEF AcquireRestoreLease, RestoreTyped
    <2>12. CASE RestoreFile(r)
      <3>j. task[r].job \in Jobs /\ jobRow[task[r].job] \in JobType
        BY <2>12, <1>t DEF RestoreFile, Inside, Alone
      <3>1. /\ at' \in [Replicas -> Points] /\ HasTask' /\ task' \in [Replicas -> TaskType]
        <4>1. CASE UNCHANGED task
          BY <2>12, <4>1, <3>j, <1>m, <1>t, StageNames DEF RestoreFile
        <4>2. CASE task' = [task EXCEPT ![r].failed = TRUE]
          <5>1. [task[r] EXCEPT !.failed = TRUE] \in TaskType /\ [task[r] EXCEPT !.failed = TRUE].job = task[r].job
            BY <1>t, TaskSet
          <5> QED BY <2>12, <3>j, <4>2, <5>1, <1>n, StageNames DEF RestoreFile
        <4> QED BY <2>12, <4>1, <4>2 DEF RestoreFile
      <3>2. jobRow' \in [Jobs -> JobType] /\ database' \in DatabaseType
        <4>1. CASE UNCHANGED <<database, jobRow>>
          BY <4>1 DEF RestoreTyped
        <4>2. CASE database' = Restored(task[r].job) /\ jobRow' = [jobRow EXCEPT ![task[r].job].touched = TRUE]
          <5>1. [jobRow[task[r].job] EXCEPT !.touched = TRUE] \in JobType
            BY <3>j, JobSet
          <5>2. jobRow' \in [Jobs -> JobType]
            BY <4>2, <5>1, <3>j, <1>w
          <5> QED BY <4>2, <5>2, <3>j DEF Restored, DatabaseType
        <4> QED BY <2>12, <4>1, <4>2 DEF RestoreFile
      <3> QED BY <2>12, <3>1, <3>2 DEF RestoreFile, RestoreTyped, leaseVars
    <2>13. CASE Finish(r)
      <3>1. CASE Owns(r)
        <4>j. task[r].job \in Jobs /\ jobRow[task[r].job] \in JobType
          BY <2>13, <1>t DEF Finish, Inside, Alone
        <4>1. /\ at' \in [Replicas -> Points] /\ HasTask' /\ task' \in [Replicas -> TaskType]
          BY <2>13, <3>1, <1>n, <1>t DEF Finish, Inside, Alone
        <4>2. [jobRow[task[r].job] EXCEPT !.phase = Outcome(task[r])] \in JobType
          BY <4>j, JobSet DEF Outcome
        <4>3. jobRow' \in [Jobs -> JobType]
          BY <2>13, <3>1, <4>2, <4>j, <1>w DEF Finish
        <4>4. seen' \subseteq Replicas
          BY <2>13, <3>1 DEF Finish, Touch, RestoreTyped
        <4> QED BY <2>13, <3>1, <4>1, <4>3, <4>4 DEF Finish, RestoreTyped
      <3>2. CASE ~Owns(r)
        BY <2>13, <3>2, <1>a DEF Finish
      <3> QED BY <3>1, <3>2
    <2>14. ASSUME NEW s \in Stages, UpdatePhase(r, s) PROVE TypedNow
      <3>1. CASE Owns(r)
        <4>j. task[r].job \in Jobs /\ jobRow[task[r].job] \in JobType
          BY <2>14, <1>t, StageNames DEF UpdatePhase, Inside, Alone
        <4>1. at' \in [Replicas -> Points] /\ HasTask'
          BY <2>14, <3>1, <4>j, <1>m, <1>t, StageNames DEF UpdatePhase
        <4>2. [jobRow[task[r].job] EXCEPT !.phase = s] \in JobType
          BY <4>j, JobSet, StageNames
        <4>3. jobRow' \in [Jobs -> JobType]
          BY <2>14, <3>1, <4>2, <4>j, <1>w DEF UpdatePhase
        <4>4. seen' \subseteq Replicas
          BY <2>14, <3>1 DEF UpdatePhase, Touch, RestoreTyped
        <4> QED BY <2>14, <3>1, <4>1, <4>3, <4>4 DEF UpdatePhase, RestoreTyped, leaseVars
      <3>2. CASE ~Owns(r)
        BY <2>14, <3>2, <1>a DEF UpdatePhase
      <3> QED BY <3>1, <3>2
    <2>15. ASSUME NEW s \in Stages, Repair(r, s) PROVE TypedNow
      <3>1. at' \in [Replicas -> Points] /\ HasTask'
        BY <2>15, <1>m, <1>t, StageNames DEF Repair, Inside, Alone
      <3>2. database' \in DatabaseType
        BY <2>15 DEF Repair, RestoreTyped, DatabaseType
      <3> QED BY <2>15, <3>1, <3>2 DEF Repair, RestoreTyped, leaseVars
    <2> QED BY <1>1, <2>1, <2>2, <2>3, <2>4, <2>5, <2>6, <2>7, <2>8, <2>9, <2>10, <2>11, <2>12, <2>13, <2>14, <2>15 DEF Run
  <1>2. ASSUME NEW r \in Replicas, Answer(r) \/ BeginRequest(r) \/ LoseLease(r) PROVE TypedNow
    BY <1>2 DEF Answer, EndRequest, SubmitDone, BeginRequest, LoseLease, RestoreTyped, HasTask, leaseVars
  <1>3. ASSUME NEW r \in Replicas, SeeStale(r) PROVE TypedNow
    <2>1. task[r].job \in Jobs /\ jobRow[task[r].job].phase \in JobPhases
      <3>1. On(task[r].job)
        BY <1>3 DEF SeeStale, StaleActive
      <3> QED BY <3>1, <1>t DEF On, JobType, None
    <2>2. [task[r] EXCEPT !.phase = jobRow[task[r].job].phase] \in TaskType /\ [task[r] EXCEPT !.phase = jobRow[task[r].job].phase].job = task[r].job
      BY <2>1, <1>t, TaskSet
    <2>3. task' \in [Replicas -> TaskType] /\ HasTask'
      BY <1>3, <2>1, <2>2, <1>t DEF SeeStale, HasTask
    <2> QED BY <1>3, <2>3 DEF SeeStale, RestoreTyped, leaseVars
  <1>4. ASSUME NEW r \in Replicas, Crash(r) PROVE TypedNow
    BY <1>4, <1>a DEF Crash
  <1>5. ASSUME NEW j \in Jobs, GoesStale(j) \/ Beat(j) PROVE TypedNow
    BY <1>5 DEF GoesStale, Beat, Touch, RestoreTyped, HasTask, leaseVars
  <1>6. ASSUME NEW j \in Jobs, NEW r \in Replicas, SubmitInsert(r, j) PROVE TypedNow
    <2>1. [jobRow[j] EXCEPT !.phase = "queued", !.owner = r] \in JobType
      BY <1>t, JobSet
    <2>2. jobRow' \in [Jobs -> JobType]
      BY <1>6, <2>1, <1>w DEF SubmitInsert
    <2> QED BY <1>6, <2>2 DEF SubmitInsert, RestoreTyped, HasTask, leaseVars
  <1>7. CASE OfflineRestore
    <2>1. database' \in DatabaseType
      <3>1. Restored(Cli) \in DatabaseType /\ [database EXCEPT !.schema = "current"] \in DatabaseType
              /\ [database EXCEPT !.sessions = "own"] \in DatabaseType /\ database \in DatabaseType
        BY DEF RestoreTyped, DatabaseType, Restored
      <3> QED BY <1>7, <3>1 DEF OfflineRestore, OfflineStep
    <2> QED BY <1>7, <2>1 DEF OfflineRestore, OfflineStep, RestoreTyped, HasTask
  <1> QED BY <1>1, <1>2, <1>3, <1>4, <1>5, <1>6, <1>7 DEF RestoreNext

\* What the writes of a job row and of a task leave as they are.
LEMMA RowWrites ==
  ASSUME jobRow \in [Jobs -> JobType], NEW j \in Jobs, NEW p, NEW o
  PROVE  /\ jobRow' = [jobRow EXCEPT ![j].phase = p] =>
              jobRow'[j].phase = p /\ jobRow'[j].owner = jobRow[j].owner /\ jobRow'[j].touched = jobRow[j].touched
         /\ jobRow' = [jobRow EXCEPT ![j].owner = o, ![j].phase = p] \/ jobRow' = [jobRow EXCEPT ![j] = [@ EXCEPT !.phase = p, !.owner = o]] =>
              jobRow'[j].phase = p /\ jobRow'[j].owner = o /\ jobRow'[j].touched = jobRow[j].touched
         /\ jobRow' = [jobRow EXCEPT ![j].touched = TRUE] =>
              jobRow'[j].phase = jobRow[j].phase /\ jobRow'[j].owner = jobRow[j].owner /\ jobRow'[j].touched
         /\ (\/ jobRow' = [jobRow EXCEPT ![j].phase = p]
             \/ jobRow' = [jobRow EXCEPT ![j].owner = o, ![j].phase = p]
             \/ jobRow' = [jobRow EXCEPT ![j] = [@ EXCEPT !.phase = p, !.owner = o]]
             \/ jobRow' = [jobRow EXCEPT ![j].touched = TRUE]) => \A k \in Jobs \ {j} : jobRow'[k] = jobRow[k]
  <1>1. jobRow[j] \in JobType
    OBVIOUS
  <1>2. ASSUME jobRow' = [jobRow EXCEPT ![j].phase = p]
        PROVE  jobRow'[j].phase = p /\ jobRow'[j].owner = jobRow[j].owner /\ jobRow'[j].touched = jobRow[j].touched
    <2>1. jobRow'[j] = [jobRow[j] EXCEPT !.phase = p]
      BY <1>2
    <2> QED BY <1>1, <2>1 DEF JobType
  <1>3. ASSUME jobRow' = [jobRow EXCEPT ![j].owner = o, ![j].phase = p] \/ jobRow' = [jobRow EXCEPT ![j] = [@ EXCEPT !.phase = p, !.owner = o]]
        PROVE  jobRow'[j].phase = p /\ jobRow'[j].owner = o /\ jobRow'[j].touched = jobRow[j].touched
    <2>1. jobRow'[j] = [jobRow[j] EXCEPT !.phase = p, !.owner = o] \/ jobRow'[j] = [jobRow[j] EXCEPT !.owner = o, !.phase = p]
      BY <1>3
    <2> QED BY <1>1, <2>1 DEF JobType
  <1>4. ASSUME jobRow' = [jobRow EXCEPT ![j].touched = TRUE]
        PROVE  jobRow'[j].phase = jobRow[j].phase /\ jobRow'[j].owner = jobRow[j].owner /\ jobRow'[j].touched
    <2>1. jobRow'[j] = [jobRow[j] EXCEPT !.touched = TRUE]
      BY <1>4
    <2> QED BY <1>1, <2>1 DEF JobType
  <1> QED BY <1>2, <1>3, <1>4

\* A process that ends loses its tasks and its rows, and nothing else moves.
LEMMA Exits ==
  ASSUME RestoreTyped, NEW r \in Replicas, Exit(r)
  PROVE  /\ at'[r] = "down" /\ \A x \in Replicas \ {r} : at'[x] = at[x] /\ task'[x] = task[x] /\ request'[x] = request[x]
         /\ task'[r] = NoTask /\ request'[r] = None
         /\ \A j \in Jobs : /\ jobRow'[j].phase = jobRow[j].phase /\ jobRow'[j].touched = jobRow[j].touched
                            /\ jobRow'[j].owner = IF jobRow[j].owner = r THEN Gone ELSE jobRow[j].owner
         /\ seen' = seen \ {r} /\ sharers' = sharers \ {r} /\ stale' = stale /\ offline' = offline /\ database' = database
         /\ exclusive' = IF exclusive = r THEN None ELSE exclusive
  <1>1. ASSUME NEW j \in Jobs
        PROVE  /\ jobRow'[j].phase = jobRow[j].phase /\ jobRow'[j].touched = jobRow[j].touched
               /\ jobRow'[j].owner = IF jobRow[j].owner = r THEN Gone ELSE jobRow[j].owner
    <2>1. jobRow[j] \in JobType
      BY DEF RestoreTyped
    <2>2. jobRow'[j] = IF jobRow[j].owner = r THEN [jobRow[j] EXCEPT !.owner = Gone] ELSE jobRow[j]
      BY DEF Exit
    <2> QED BY <2>1, <2>2 DEF JobType
  <1> QED BY <1>1 DEF Exit, Go, RestoreTyped

\* Who owns a job is kept by every step.
LEMMA OwnerStep ==
  ASSUME RestoreTyped, HasTask, OwnerInv, RestoreNext
  PROVE  OwnerInv'
  <1> USE DEF None, Gone, Cli
  <1> SUFFICES OwnerInv'
    OBVIOUS
  <1>t. /\ at \in [Replicas -> Points] /\ task \in [Replicas -> TaskType]
        /\ jobRow \in [Jobs -> JobType] /\ seen \subseteq Replicas
    BY DEF RestoreTyped
  <1>sa. StaleActive
    BY DEF OwnerInv
  <1>sw. SeenWaits
    BY DEF OwnerInv
  <1>wo. WaitsForOther
    BY DEF OwnerInv
  <1>oj. OwnersJobOn
    BY DEF OwnerInv
  <1>op. OwnerPhase
    BY DEF OwnerInv
  <1>un. Unowned
    BY DEF OwnerInv
  <1>g. Gone \notin Replicas
    BY RestoreAssumption
  <1>w. \A r \in Replicas : at[r] = "wait" => task[r].job \in Jobs
    BY DEF HasTask
  <1>h. \A r \in Replicas : at[r] \in Busy => task[r].job \in Jobs
    BY DEF HasTask, Busy
  <1>kd. "down" \notin Busy /\ "resume" \notin Busy /\ "serving" \notin Busy /\ "wait" \notin Busy
    BY DEF Busy, Inside, Alone
  <1>kw. "wait" \notin Past /\ "resume" \notin Past
    BY DEF Past, Alone
  <1>kp. "draining" \in Past /\ "to migrating" \in Past /\ "restoring" \in Past /\ "draining" \in Busy /\ "to migrating" \in Busy /\ "restoring" \in Busy
    BY DEF Past, Busy, Inside, Alone
  <1>kc. \A p \in Past : p \notin {"drain", "closed"}
    BY DEF Past, Alone
  <1>kq. "queued" \in Quiet /\ \A p \in Terminal : p \in Quiet /\ p # "none" /\ p \in {"complete", "failed"}
    BY DEF Quiet, Terminal
  <1>kb. \A p \in Past : p \in Busy /\ p # "wait"
    BY DEF Past, Busy, Inside, Alone
  <1>a. ASSUME NEW r \in Replicas, Exit(r) PROVE OwnerInv'
    <2>1. /\ at'[r] = "down" /\ \A x \in Replicas \ {r} : at'[x] = at[x] /\ task'[x] = task[x]
          /\ \A j \in Jobs : /\ jobRow'[j].phase = jobRow[j].phase
                             /\ jobRow'[j].owner = Gone \/ (jobRow'[j].owner = jobRow[j].owner /\ jobRow[j].owner # r)
          /\ seen' = seen \ {r} /\ stale' = stale /\ r \in Replicas
      BY <1>a, Exits
    <2>2. StaleActive'
      BY <2>1, <1>sa DEF StaleActive, On
    <2>3. SeenWaits'
      BY <2>1, <1>t, <1>sw DEF SeenWaits, On
    <2>4. WaitsForOther'
      BY <2>1, <1>g, <1>w, <1>wo DEF WaitsForOther, Owns
    <2>5. OwnersJobOn'
      BY <2>1, <1>g, <1>h, <1>kd, <1>oj DEF OwnersJobOn, Owns, On
    <2>6. OwnerPhase'
      BY <2>1, <1>g, <1>op DEF OwnerPhase
    <2>7. Unowned'
      BY <2>1, <1>un DEF Unowned
    <2> QED BY <2>2, <2>3, <2>4, <2>5, <2>6, <2>7 DEF OwnerInv
  \* a step of a replica that writes no row, takes up no job and waits for none
  <1>m. ASSUME NEW r \in Replicas, NEW p, Go(r, p), UNCHANGED <<jobRow, task, stale, seen>>, r \notin seen \/ p = at[r],
               p \in Busy => at[r] \in Busy,
               p = "wait" => ~Owns(r),
               at[r] \in Past => p \in Past
        PROVE  OwnerInv'
    <2>1. at'[r] = p /\ \A x \in Replicas \ {r} : at'[x] = at[x]
      BY <1>m, <1>t DEF Go
    <2>2. StaleActive'
      BY <1>m, <2>1, <1>sa DEF StaleActive, On
    <2>3. SeenWaits'
      BY <1>m, <2>1, <1>t, <1>sw DEF SeenWaits, On
    <2>4. WaitsForOther'
      BY <1>m, <2>1, <1>wo DEF WaitsForOther, Owns
    <2>5. OwnersJobOn'
      BY <1>m, <2>1, <1>oj DEF OwnersJobOn, Owns, On
    <2>6. OwnerPhase'
      BY <1>m, <2>1, <1>op DEF OwnerPhase
    <2>7. Unowned'
      BY <1>m, <2>1, <1>un DEF Unowned
    <2> QED BY <2>2, <2>3, <2>4, <2>5, <2>6, <2>7 DEF OwnerInv
  <1>s. \A r \in Replicas : at[r] # "wait" => r \notin seen
    BY <1>sw DEF SeenWaits
  <1>1. ASSUME NEW r \in Replicas, Run(r) PROVE OwnerInv'
    <2>1. CASE Start(r) \/ AcquireApplicationLease(r) \/ Migrate(r) \/ FindOver(r)
      BY <2>1, <1>m, <1>s DEF Start, AcquireApplicationLease, Migrate, FindOver, leaseVars, Past, Busy, Inside, Alone
    <2>4. CASE Boot(r) \/ Notice(r)
      <3>1. CASE Active = {} /\ Boot(r)
        BY <3>1, <1>m, <1>s DEF Boot, leaseVars, Past, Busy, Inside, Alone
      <3>2. CASE ~(Active = {} /\ Boot(r))
        <4>1. PICK j \in Active : task' = [task EXCEPT ![r].job = j]
          BY <2>4, <3>2 DEF Boot, Notice
        <4>2. /\ On(j) /\ task'[r].job = j
              /\ \A x \in Replicas \ {r} : task'[x] = task[x]
          <5>1. On(j)
            BY <4>1 DEF Active, On, Terminal
          <5>2. task[r] \in TaskType /\ task'[r] = [task[r] EXCEPT !.job = j]
            BY <4>1, <1>t
          <5>3. task'[r].job = j
            BY <5>2 DEF TaskType
          <5> QED BY <4>1, <5>1, <5>3, <1>t
        <4>3. PICK p \in {"drain", "closed"} : at' = [at EXCEPT ![r] = p]
          BY <2>4, <3>2 DEF Boot, Notice, Go
        <4>4. at'[r] = p /\ \A x \in Replicas \ {r} : at'[x] = at[x]
          BY <4>3, <1>t
        <4>5. at[r] \notin Past \cup Inside \cup {"wait"} /\ UNCHANGED <<jobRow, stale, seen>>
          BY <2>4 DEF Boot, Notice, Past, Inside, Alone
        <4>6. StaleActive'
          BY <4>1, <4>2, <4>4, <4>5, <1>s, <1>sa DEF StaleActive, On
        <4>7. SeenWaits'
          BY <4>1, <4>2, <4>4, <4>5, <1>s, <1>t, <1>sw DEF SeenWaits, On
        <4>8. WaitsForOther'
          BY <4>1, <4>2, <4>4, <4>5, <1>wo DEF WaitsForOther, Owns
        <4>9. OwnersJobOn'
          BY <4>1, <4>2, <4>4, <4>5, <1>oj DEF OwnersJobOn, Owns, On
        <4>10. OwnerPhase'
          BY <4>2, <4>4, <4>5, <1>kc, <1>op DEF OwnerPhase
        <4>11. Unowned'
          BY <4>1, <4>2, <4>4, <4>5, <1>un DEF Unowned
        <4> QED BY <4>6, <4>7, <4>8, <4>9, <4>10, <4>11 DEF OwnerInv
      <3> QED BY <3>1, <3>2
    <2>7. CASE ReleaseApplicationLease(r)
      <3>1. CASE r \in sharers
        BY <2>7, <3>1, <1>m, <1>s DEF ReleaseApplicationLease, Drained, Closed, Past, Busy, Inside, Alone
      <3>2. CASE r \notin sharers
        BY <2>7, <3>2, <1>a DEF ReleaseApplicationLease
      <3> QED BY <3>1, <3>2
    <2>8. CASE Coordinate(r)
      <3>1. CASE Owns(r) /\ task[r].job \notin secret
        BY <2>8, <3>1, <1>a DEF Coordinate
      <3>2. CASE ~(Owns(r) /\ task[r].job \notin secret)
        BY <2>8, <3>2, <1>m, <1>s, StageNames DEF Coordinate, leaseVars, Past, Busy, Inside, Alone
      <3> QED BY <3>1, <3>2
    <2>9. CASE SeeTerminal(r)
      <3>1. /\ at'[r] = "resume" /\ task'[r] = NoTask
            /\ \A x \in Replicas \ {r} : at'[x] = at[x] /\ task'[x] = task[x]
            /\ UNCHANGED <<jobRow, stale>> /\ seen' = seen \ {r}
        BY <2>9, <1>t DEF SeeTerminal, Go
      <3>2. at[r] = "wait"
        BY <2>9 DEF SeeTerminal
      <3>3. StaleActive'
        BY <3>1, <3>2, <1>sa DEF StaleActive, On
      <3>4. SeenWaits'
        BY <3>1, <3>2, <1>t, <1>sw DEF SeenWaits, On
      <3>5. WaitsForOther'
        BY <3>1, <3>2, <1>wo DEF WaitsForOther, Owns
      <3>6. OwnersJobOn'
        BY <3>1, <3>2, <1>kd, <1>oj DEF OwnersJobOn, Owns, On
      <3>7. OwnerPhase'
        BY <3>1, <3>2, <1>kw, <1>op DEF OwnerPhase
      <3>8. Unowned'
        BY <3>1, <3>2, <1>un DEF Unowned
      <3> QED BY <3>3, <3>4, <3>5, <3>6, <3>7, <3>8 DEF OwnerInv
    <2>10. CASE ClaimRecovery(r)
      <3> DEFINE j == task[r].job
      <3>1. j \in Jobs /\ at[r] = "wait" /\ r \in seen /\ On(j)
        BY <2>10, <1>sw DEF ClaimRecovery, HasTask, SeenWaits
      <3>2. /\ at'[r] = "draining" /\ \A x \in Replicas \ {r} : at'[x] = at[x] /\ task'[x] = task[x]
            /\ task'[r].job = j
        BY <2>10, <1>t DEF ClaimRecovery, Go, TaskType
      <3>3. /\ jobRow'[j].phase = "recovering" /\ jobRow'[j].owner = r
            /\ \A k \in Jobs \ {j} : jobRow'[k] = jobRow[k]
        <4>1. jobRow' = [jobRow EXCEPT ![j].owner = r, ![j].phase = "recovering"]
          BY <2>10 DEF ClaimRecovery, Claimed
        <4> HIDE DEF j
        <4>2. jobRow[j] \in JobType /\ jobRow'[j] = [jobRow[j] EXCEPT !.owner = r, !.phase = "recovering"]
          BY <3>1, <4>1, <1>t
        <4>3. jobRow'[j].phase = "recovering" /\ jobRow'[j].owner = r
          BY <4>2 DEF JobType
        <4> QED BY <4>1, <4>3, <1>t
      <3>4. stale' = stale \ {j} /\ seen' = { x \in seen : task[x].job # j }
        BY <2>10 DEF ClaimRecovery, Touch
      <3> HIDE DEF j
      <3>5. StaleActive'
        BY <3>1, <3>2, <3>3, <3>4, <1>sa DEF StaleActive, On
      <3>6. SeenWaits'
        BY <3>1, <3>2, <3>3, <3>4, <1>t, <1>sw DEF SeenWaits, On, j
      <3>7. WaitsForOther'
        BY <3>1, <3>2, <3>3, <3>4, <1>w, <1>wo DEF WaitsForOther, Owns
      <3>8. OwnersJobOn'
        BY <3>1, <3>2, <3>3, <3>4, <1>h, <1>oj DEF OwnersJobOn, Owns, On
      <3>9. OwnerPhase'
        <4> SUFFICES ASSUME NEW x \in Replicas, NEW k \in Jobs, jobRow'[k].owner = x
                     PROVE  jobRow'[k].phase \in Quiet \/ (task'[x].job = k /\ at'[x] \in Past)
          BY DEF OwnerPhase
        <4>1. CASE k = j
          BY <3>2, <3>3, <4>1, <1>kp
        <4>2. CASE k # j
          <5>1. jobRow'[k] = jobRow[k]
            BY <3>3, <4>2
          <5>2. jobRow[k].phase \in Quiet \/ (task[x].job = k /\ at[x] \in Past)
            BY <5>1, <1>op DEF OwnerPhase
          <5>3. x = r => at[x] \notin Past
            BY <3>1, <1>kw
          <5> QED BY <3>2, <5>1, <5>2, <5>3
        <4> QED BY <4>1, <4>2
      <3>10. Unowned'
        BY <3>1, <3>2, <3>3, <3>4, <1>un DEF Unowned
      <3> QED BY <3>5, <3>6, <3>7, <3>8, <3>9, <3>10 DEF OwnerInv
    <2>11. CASE AcquireRestoreLease(r)
      BY <2>11, <1>m, <1>s, StageNames DEF AcquireRestoreLease, Past, Busy, Inside, Alone
    <2>12. CASE RestoreFile(r)
      <3>1. /\ at'[r] = "to migrating" /\ at[r] = "restoring" /\ \A x \in Replicas \ {r} : at'[x] = at[x] /\ task'[x] = task[x]
            /\ task'[r].job = task[r].job /\ UNCHANGED <<stale, seen>>
        BY <2>12, <1>t, StageNames DEF RestoreFile, Go, TaskType
      <3>2. task[r].job \in Jobs
        BY <3>1 DEF HasTask, Inside, Alone
      <3>3. \A k \in Jobs : jobRow'[k].phase = jobRow[k].phase /\ jobRow'[k].owner = jobRow[k].owner
        BY <2>12, <3>2, <1>t, RowWrites DEF RestoreFile
      <3>4. \A k : On(k)' <=> On(k)
        BY <3>3 DEF On
      <3>5. StaleActive'
        BY <3>1, <3>4, <1>sa DEF StaleActive, On
      <3>6. SeenWaits'
        <4> SUFFICES ASSUME NEW x \in seen
                     PROVE  at'[x] = "wait" /\ On(task[x].job)' /\ task'[x].phase = jobRow'[task'[x].job].phase
          BY <3>1 DEF SeenWaits, On
        <4>1. at[x] = "wait" /\ On(task[x].job) /\ task[x].phase = jobRow[task[x].job].phase /\ x \in Replicas \ {r}
          BY <3>1, <1>sw, <1>s, <1>t DEF SeenWaits
        <4>2. at'[x] = at[x] /\ task'[x] = task[x] /\ task[x].job \in Jobs
          BY <3>1, <4>1 DEF On
        <4> QED BY <4>1, <4>2, <3>3 DEF On
      <3>7. WaitsForOther'
        <4> SUFFICES ASSUME NEW x \in Replicas, at'[x] = "wait" PROVE jobRow'[task'[x].job].owner # x
          BY DEF WaitsForOther, Owns
        <4>1. x \in Replicas \ {r}
          BY <3>1
        <4>2. at[x] = "wait" /\ task'[x] = task[x] /\ task[x].job \in Jobs
          BY <3>1, <4>1, <1>w
        <4> QED BY <4>2, <3>3, <1>wo DEF WaitsForOther, Owns
      <3>8. OwnersJobOn'
        <4> SUFFICES ASSUME NEW x \in Replicas, at'[x] \in Busy, Owns(x)' PROVE On(task[x].job)'
          BY DEF OwnersJobOn
        <4>1. at[x] \in Busy /\ task'[x].job = task[x].job /\ task[x].job \in Jobs
          BY <3>1, <1>h, <1>kp
        <4>2. Owns(x)
          BY <3>3, <4>1 DEF Owns
        <4>3. On(task[x].job)
          BY <4>1, <4>2, <1>oj DEF OwnersJobOn
        <4> QED BY <4>1, <4>3, <3>3 DEF On
      <3>9. OwnerPhase'
        BY <3>1, <3>3, <1>kp, <1>op DEF OwnerPhase
      <3>10. Unowned'
        BY <3>3, <1>un DEF Unowned
      <3> QED BY <3>5, <3>6, <3>7, <3>8, <3>9, <3>10 DEF OwnerInv
    <2>13. CASE Finish(r) \/ \E s \in Stages : UpdatePhase(r, s)
      <3>1. CASE Owns(r)
        <4> DEFINE j == task[r].job
        <4>1. j \in Jobs /\ at[r] \in Inside /\ at[r] \in Busy /\ at[r] # "wait" /\ r \notin seen /\ jobRow[j].owner = r
          BY <2>13, <3>1, StageNames, <1>s DEF Finish, UpdatePhase, HasTask, Inside, Alone, Busy, Owns
        <4>2. \A x \in Replicas \ {r} : at'[x] = at[x] /\ task'[x] = task[x]
          BY <2>13, <3>1, <1>t DEF Finish, UpdatePhase, Go
        <4>3. PICK p : jobRow' = [jobRow EXCEPT ![j].phase = p] /\ p # None
                       /\ \/ p \in Terminal /\ at'[r] = "resume"
                          \/ p \notin Terminal /\ at'[r] \in Past /\ task'[r] = task[r]
          BY <2>13, <3>1, <1>t, StageNames DEF Finish, UpdatePhase, Go, Outcome, Terminal, Past, Inside, Alone
        <4>4. /\ jobRow'[j].phase = p /\ jobRow'[j].owner = jobRow[j].owner
              /\ \A k \in Jobs \ {j} : jobRow'[k] = jobRow[k]
          BY <4>1, <4>3, <1>t, RowWrites
        <4>5. stale' = stale \ {j} /\ seen' = { x \in seen : task[x].job # j }
          BY <2>13, <3>1 DEF Finish, UpdatePhase, Touch
        <4> HIDE DEF j
        <4>6. StaleActive'
          BY <4>1, <4>2, <4>3, <4>4, <4>5, <1>sa DEF StaleActive, On
        <4>7. SeenWaits'
          BY <4>1, <4>2, <4>4, <4>5, <1>t, <1>sw DEF SeenWaits, On, j
        <4>8. WaitsForOther'
          BY <4>1, <4>2, <4>3, <4>4, <1>w, <1>kb, <1>wo DEF WaitsForOther, Owns
        <4>9. OwnersJobOn'
          BY <4>1, <4>2, <4>3, <4>4, <1>h, <1>kd, <1>kb, <1>oj DEF OwnersJobOn, Owns, On, j, Terminal
        <4>10. OwnerPhase'
          BY <4>1, <4>2, <4>3, <4>4, <1>kq, <1>op DEF OwnerPhase, j
        <4>11. Unowned'
          BY <4>1, <4>2, <4>3, <4>4, <1>un DEF Unowned
        <4> QED BY <4>6, <4>7, <4>8, <4>9, <4>10, <4>11 DEF OwnerInv
      <3>2. CASE ~Owns(r)
        BY <2>13, <3>2, <1>a DEF UpdatePhase, Finish
      <3> QED BY <3>1, <3>2
    <2>15. ASSUME NEW s \in Stages, Repair(r, s) PROVE OwnerInv'
      BY <2>15, <1>m, <1>s, StageNames DEF Repair, Past, Busy, Inside, Alone, leaseVars
    <2> QED BY <1>1, <2>1, <2>4, <2>7, <2>8, <2>9, <2>10, <2>11, <2>12, <2>13, <2>15 DEF Run
  <1>2. ASSUME NEW r \in Replicas, Answer(r) \/ BeginRequest(r) \/ LoseLease(r) PROVE OwnerInv'
    <2>1. UNCHANGED <<at, task, jobRow, stale, seen>>
      BY <1>2 DEF Answer, EndRequest, SubmitDone, BeginRequest, LoseLease, leaseVars
    <2>2. StaleActive'
      BY <2>1, <1>sa DEF StaleActive, On
    <2>3. SeenWaits'
      BY <2>1, <1>t, <1>sw DEF SeenWaits, On
    <2>4. WaitsForOther'
      BY <2>1, <1>wo DEF WaitsForOther, Owns
    <2>5. OwnersJobOn'
      BY <2>1, <1>oj DEF OwnersJobOn, Owns, On
    <2>6. OwnerPhase'
      BY <2>1, <1>op DEF OwnerPhase
    <2>7. Unowned'
      BY <2>1, <1>un DEF Unowned
    <2> QED BY <2>2, <2>3, <2>4, <2>5, <2>6, <2>7 DEF OwnerInv
  <1>3. ASSUME NEW r \in Replicas, SeeStale(r) PROVE OwnerInv'
    <2>1. /\ UNCHANGED <<at, jobRow, stale>> /\ seen' = seen \cup {r} /\ at[r] = "wait" /\ On(task[r].job)
          /\ task'[r].job = task[r].job /\ task'[r].phase = jobRow[task[r].job].phase
          /\ \A x \in Replicas \ {r} : task'[x] = task[x]
      BY <1>3, <1>t, <1>sa DEF SeeStale, StaleActive, TaskType
    <2>2. StaleActive'
      BY <2>1, <1>sa DEF StaleActive, On
    <2>3. SeenWaits'
      BY <2>1, <1>t, <1>sw DEF SeenWaits, On
    <2>4. WaitsForOther'
      BY <2>1, <1>wo DEF WaitsForOther, Owns
    <2>5. OwnersJobOn'
      BY <2>1, <1>oj DEF OwnersJobOn, Owns, On
    <2>6. OwnerPhase'
      BY <2>1, <1>op DEF OwnerPhase
    <2>7. Unowned'
      BY <2>1, <1>un DEF Unowned
    <2> QED BY <2>2, <2>3, <2>4, <2>5, <2>6, <2>7 DEF OwnerInv
  <1>4. ASSUME NEW r \in Replicas, Crash(r) PROVE OwnerInv'
    BY <1>4, <1>a DEF Crash
  <1>5. ASSUME NEW j \in Jobs, GoesStale(j) \/ Beat(j) PROVE OwnerInv'
    <2>1. /\ UNCHANGED <<at, task, jobRow>> /\ seen' \subseteq seen
          /\ \A k \in stale' : k \in stale \/ (k = j /\ On(j))
      BY <1>5 DEF GoesStale, Beat, Touch, leaseVars, Active, On, Terminal
    <2>2. StaleActive'
      BY <2>1, <1>sa DEF StaleActive, On
    <2>3. SeenWaits'
      BY <2>1, <1>t, <1>sw DEF SeenWaits, On
    <2>4. WaitsForOther'
      BY <2>1, <1>wo DEF WaitsForOther, Owns
    <2>5. OwnersJobOn'
      BY <2>1, <1>oj DEF OwnersJobOn, Owns, On
    <2>6. OwnerPhase'
      BY <2>1, <1>op DEF OwnerPhase
    <2>7. Unowned'
      BY <2>1, <1>un DEF Unowned
    <2> QED BY <2>2, <2>3, <2>4, <2>5, <2>6, <2>7 DEF OwnerInv
  <1>6. ASSUME NEW j \in Jobs, NEW r \in Replicas, SubmitInsert(r, j) PROVE OwnerInv'
    <2>1. /\ jobRow'[j].phase = "queued" /\ jobRow'[j].owner = r
          /\ \A k \in Jobs \ {j} : jobRow'[k] = jobRow[k]
      <3>1. jobRow' = [jobRow EXCEPT ![j] = [@ EXCEPT !.phase = "queued", !.owner = r]]
        BY <1>6 DEF SubmitInsert
      <3>2. jobRow[j] \in JobType /\ jobRow'[j] = [jobRow[j] EXCEPT !.phase = "queued", !.owner = r]
        BY <3>1, <1>t
      <3>3. jobRow'[j].phase = "queued" /\ jobRow'[j].owner = r
        BY <3>2 DEF JobType
      <3> QED BY <3>1, <3>3, <1>t
    <2>2. UNCHANGED <<at, task, stale, seen>> /\ jobRow[j].phase = None /\ ~On(j) /\ at[r] = "serving"
      BY <1>6 DEF SubmitInsert, Active, On, Terminal
    <2>3. StaleActive'
      BY <2>1, <2>2, <1>sa DEF StaleActive, On
    <2>4. SeenWaits'
      BY <2>1, <2>2, <1>t, <1>sw DEF SeenWaits, On
    <2>5. WaitsForOther'
      BY <2>1, <2>2, <1>w, <1>wo DEF WaitsForOther, Owns
    <2>6. OwnersJobOn'
      BY <2>1, <2>2, <1>h, <1>kd, <1>oj DEF OwnersJobOn, Owns, On
    <2>7. OwnerPhase'
      BY <2>1, <2>2, <1>kq, <1>op DEF OwnerPhase
    <2>8. Unowned'
      BY <2>1, <2>2, <1>un DEF Unowned
    <2> QED BY <2>3, <2>4, <2>5, <2>6, <2>7, <2>8 DEF OwnerInv
  <1>7. CASE OfflineRestore
    <2>1. UNCHANGED <<at, task, jobRow, stale, seen>>
      BY <1>7 DEF OfflineRestore
    <2>2. StaleActive'
      BY <2>1, <1>sa DEF StaleActive, On
    <2>3. SeenWaits'
      BY <2>1, <1>t, <1>sw DEF SeenWaits, On
    <2>4. WaitsForOther'
      BY <2>1, <1>wo DEF WaitsForOther, Owns
    <2>5. OwnersJobOn'
      BY <2>1, <1>oj DEF OwnersJobOn, Owns, On
    <2>6. OwnerPhase'
      BY <2>1, <1>op DEF OwnerPhase
    <2>7. Unowned'
      BY <2>1, <1>un DEF Unowned
    <2> QED BY <2>2, <2>3, <2>4, <2>5, <2>6, <2>7 DEF OwnerInv
  <1> QED BY <1>1, <1>2, <1>3, <1>4, <1>5, <1>6, <1>7 DEF RestoreNext

\* Who holds the lease is kept by every step, as long as no session breaks.
LEMMA LeaseStep ==
  ASSUME ~LeaseLoss, RestoreTyped, LeaseInv, RestoreNext
  PROVE  LeaseInv'
  <1> SUFFICES LeaseInv'
    OBVIOUS
  <1>t. at \in [Replicas -> Points] /\ sharers \subseteq Replicas
    BY DEF RestoreTyped
  <1>n. "none" \notin Replicas /\ "cli" \notin Replicas
    BY RestoreAssumption DEF None, Cli
  <1>c. exclusive = "cli" <=> offline \in {"restore", "migrate", "purge"}
    BY DEF LeaseInv, CliAlone, Cli
  <1>h. \A x \in Replicas : at[x] \in Alone => exclusive = x
    BY DEF LeaseInv, HoldsAlone
  <1>l. exclusive # "none" => sharers = {}
    BY DEF LeaseInv, LeaseAlone, None
  <1>s. \A x \in Replicas : at[x] \in Sharing => x \in sharers
    BY DEF LeaseInv, HoldsShared
  <1>g. ASSUME exclusive' = "cli" <=> offline' \in {"restore", "migrate", "purge"},
               \A x \in Replicas : at'[x] \in Alone => exclusive' = x,
               exclusive' # "none" => sharers' = {},
               \A x \in Replicas : at'[x] \in Sharing => x \in sharers'
        PROVE  LeaseInv'
    BY <1>g DEF LeaseInv, CliAlone, HoldsAlone, LeaseAlone, HoldsShared, Cli, None
  <1>k. /\ "down" \notin Alone /\ "down" \notin Sharing /\ "lease" \notin Alone /\ "lease" \notin Sharing
        /\ "coordinate" \notin Alone /\ "coordinate" \notin Sharing /\ "resume" \notin Alone /\ "resume" \notin Sharing
        /\ "migrate" \notin Alone /\ "remigrate" \notin Alone
    BY DEF Alone, Sharing
  <1>ka. \A p \in Alone : p \notin Sharing
    BY DEF Alone, Sharing
  \* leases are as they were: the replica may go where it holds the right one
  <1>m. ASSUME NEW r \in Replicas, NEW p, Go(r, p), UNCHANGED <<sharers, exclusive, offline>>,
               p \in Alone => at[r] \in Alone, p \in Sharing => at[r] \in Sharing
        PROVE  LeaseInv'
    <2>1. at'[r] = p /\ \A x \in Replicas \ {r} : at'[x] = at[x]
      BY <1>m, <1>t DEF Go
    <2>2. \A x \in Replicas : at'[x] \in Alone => exclusive' = x
      BY <1>m, <2>1, <1>h
    <2>3. \A x \in Replicas : at'[x] \in Sharing => x \in sharers'
      BY <1>m, <2>1, <1>s
    <2> QED BY <1>m, <2>2, <2>3, <1>c, <1>l, <1>g
  <1>a. ASSUME NEW r \in Replicas, Exit(r) PROVE LeaseInv'
    <2>1. /\ at'[r] = "down" /\ \A x \in Replicas \ {r} : at'[x] = at[x]
          /\ sharers' = sharers \ {r} /\ offline' = offline
          /\ exclusive' = IF exclusive = r THEN "none" ELSE exclusive
      BY <1>a, <1>t DEF Exit, Go, None
    <2>2. \A x \in Replicas : at'[x] \in Alone => exclusive' = x
      BY <2>1, <1>h, <1>k
    <2>3. \A x \in Replicas : at'[x] \in Sharing => x \in sharers'
      BY <2>1, <1>s, <1>k
    <2>4. exclusive' = "cli" <=> offline' \in {"restore", "migrate", "purge"}
      BY <2>1, <1>c, <1>n
    <2>5. exclusive' # "none" => sharers' = {}
      BY <2>1, <1>l
    <2> QED BY <2>2, <2>3, <2>4, <2>5, <1>g
  <1>1. ASSUME NEW r \in Replicas, Run(r) PROVE LeaseInv'
    <2>1. CASE Start(r) \/ Migrate(r) \/ FindOver(r) \/ SeeTerminal(r) \/ ClaimRecovery(r)
      BY <2>1, <1>m DEF Start, Migrate, FindOver, SeeTerminal, ClaimRecovery, leaseVars, Alone, Sharing
    <2>2. CASE AcquireApplicationLease(r)
      <3>1. PICK p \in {"migrate", "remigrate"} : at' = [at EXCEPT ![r] = p]
        BY <2>2 DEF AcquireApplicationLease, Go
      <3>2. /\ at'[r] = p /\ \A x \in Replicas \ {r} : at'[x] = at[x]
            /\ sharers' = sharers \cup {r} /\ exclusive = "none" /\ exclusive' = "none" /\ offline' = offline
        BY <2>2, <3>1, <1>t DEF AcquireApplicationLease, SharedFree, None
      <3>3. \A x \in Replicas : at'[x] \in Alone => exclusive' = x
        BY <3>1, <3>2, <1>h, <1>k
      <3>4. \A x \in Replicas : at'[x] \in Sharing => x \in sharers'
        BY <3>2, <1>s
      <3> QED BY <3>2, <3>3, <3>4, <1>c, <1>g
    <2>4. CASE Boot(r) \/ Notice(r)
      <3>1. PICK p \in {"serving", "drain", "closed"} : Go(r, p)
        BY <2>4 DEF Boot, Notice
      <3>2. at[r] \in Sharing /\ UNCHANGED <<sharers, exclusive, offline>> /\ p \notin Alone
        BY <2>4 DEF Boot, Notice, leaseVars, Sharing, Alone
      <3> QED BY <3>1, <3>2, <1>m
    <2>7. CASE ReleaseApplicationLease(r)
      <3>1. CASE r \in sharers
        <4>1. /\ at'[r] = "coordinate" /\ \A x \in Replicas \ {r} : at'[x] = at[x]
              /\ sharers' = sharers \ {r} /\ UNCHANGED <<exclusive, offline>>
          BY <2>7, <3>1, <1>t DEF ReleaseApplicationLease, Go
        <4>2. \A x \in Replicas : at'[x] \in Alone => exclusive' = x
          BY <4>1, <1>h, <1>k
        <4>3. \A x \in Replicas : at'[x] \in Sharing => x \in sharers'
          BY <4>1, <1>s, <1>k
        <4> QED BY <4>1, <4>2, <4>3, <1>c, <1>l, <1>g
      <3>2. CASE r \notin sharers
        BY <2>7, <3>2, <1>a DEF ReleaseApplicationLease
      <3> QED BY <3>1, <3>2
    <2>8. CASE Coordinate(r)
      <3>1. CASE Owns(r) /\ task[r].job \notin secret
        BY <2>8, <3>1, <1>a DEF Coordinate
      <3>2. CASE ~(Owns(r) /\ task[r].job \notin secret)
        BY <2>8, <3>2, <1>m, StageNames DEF Coordinate, leaseVars, Alone, Sharing
      <3> QED BY <3>1, <3>2
    <2>11. CASE AcquireRestoreLease(r)
      <3>1. PICK p \in Alone : at' = [at EXCEPT ![r] = p]
        BY <2>11, StageNames DEF AcquireRestoreLease, Go, Alone
      <3>2. /\ at'[r] = p /\ \A x \in Replicas \ {r} : at'[x] = at[x]
            /\ exclusive = "none" /\ sharers = {} /\ exclusive' = r /\ UNCHANGED <<sharers, offline>>
        BY <2>11, <3>1, <1>t DEF AcquireRestoreLease, ExclusiveFree, None
      <3>3. \A x \in Replicas : at'[x] \in Alone => exclusive' = x
        BY <3>2, <1>h, <1>n
      <3>4. \A x \in Replicas : at'[x] \in Sharing => x \in sharers'
        BY <3>2, <1>s, <1>ka
      <3> QED BY <3>2, <3>3, <3>4, <1>c, <1>n, <1>g
    <2>12. CASE RestoreFile(r)
      BY <2>12, <1>m, StageNames DEF RestoreFile, leaseVars, Alone, Sharing
    <2>13. CASE Finish(r)
      <3>1. CASE Owns(r)
        <4>1. /\ at[r] \in Alone /\ at'[r] = "resume" /\ \A x \in Replicas \ {r} : at'[x] = at[x]
              /\ exclusive' = (IF exclusive = r THEN "none" ELSE exclusive) /\ UNCHANGED <<sharers, offline>>
          BY <2>13, <3>1, <1>t DEF Finish, Go, None, Alone
        <4>2. exclusive = r
          BY <4>1, <1>h
        <4>3. \A x \in Replicas : at'[x] \notin Alone
          BY <4>1, <4>2, <1>h, <1>k
        <4>4. \A x \in Replicas : at'[x] \in Sharing => x \in sharers'
          BY <4>1, <1>s, <1>k
        <4> QED BY <4>1, <4>2, <4>3, <4>4, <1>c, <1>n, <1>g
      <3>2. CASE ~Owns(r)
        BY <2>13, <3>2, <1>a DEF Finish
      <3> QED BY <3>1, <3>2
    <2>14. ASSUME NEW s \in Stages, UpdatePhase(r, s) PROVE LeaseInv'
      <3>1. CASE Owns(r)
        BY <2>14, <3>1, <1>m, StageNames DEF UpdatePhase, leaseVars, Alone, Sharing
      <3>2. CASE ~Owns(r)
        BY <2>14, <3>2, <1>a DEF UpdatePhase
      <3> QED BY <3>1, <3>2
    <2>15. ASSUME NEW s \in Stages, Repair(r, s) PROVE LeaseInv'
      BY <2>15, <1>m, StageNames DEF Repair, leaseVars, Alone, Sharing
    <2> QED BY <1>1, <2>1, <2>2, <2>4, <2>7, <2>8, <2>11, <2>12, <2>13, <2>14, <2>15 DEF Run
  <1>2. CASE UNCHANGED <<at, sharers, exclusive, offline>>
    BY <1>2, <1>c, <1>h, <1>l, <1>s, <1>g
  <1>3. ASSUME NEW r \in Replicas, Answer(r) \/ BeginRequest(r) \/ LoseLease(r) \/ SeeStale(r) PROVE LeaseInv'
    BY <1>3, <1>2 DEF Answer, EndRequest, SubmitDone, BeginRequest, LoseLease, SeeStale, leaseVars
  <1>4. ASSUME NEW r \in Replicas, Crash(r) PROVE LeaseInv'
    BY <1>4, <1>a DEF Crash
  <1>5. ASSUME NEW j \in Jobs, GoesStale(j) \/ Beat(j) \/ \E r \in Replicas : SubmitInsert(r, j) PROVE LeaseInv'
    BY <1>5, <1>2 DEF GoesStale, Beat, SubmitInsert, leaseVars
  <1>7. CASE OfflineRestore
    <2>1. UNCHANGED <<at, sharers>>
      BY <1>7 DEF OfflineRestore
    <2>2. \/ /\ exclusive = "none" /\ sharers = {} /\ exclusive' = "cli" /\ offline' = "restore"
          \/ /\ exclusive = "cli" /\ exclusive' = "cli" /\ offline' \in {"migrate", "purge"}
          \/ /\ exclusive = "cli" /\ exclusive' = "none" /\ offline' = "over"
      BY <1>7, <1>c DEF OfflineRestore, OfflineStep, ExclusiveFree, None, Cli
    <2>3. \A x \in Replicas : at[x] \notin Alone
      BY <2>2, <1>h, <1>n
    <2> QED BY <2>1, <2>2, <2>3, <1>l, <1>s, <1>g
  <1> QED BY <1>1, <1>3, <1>4, <1>5, <1>7 DEF RestoreNext

\* What the rows say of imports is kept by every step.
LEMMA ImportStep ==
  ASSUME RestoreTyped, HasTask, OwnerInv, LeaseInv, ImportInv, RestoreNext
  PROVE  ImportInv'
  <1> SUFFICES ImportInv'
    OBVIOUS
  <1>t. /\ at \in [Replicas -> Points] /\ task \in [Replicas -> TaskType] /\ jobRow \in [Jobs -> JobType]
    BY DEF RestoreTyped
  <1>io. \A x \in Replicas : Imports(x) => jobRow[task[x].job].phase \in Late
    BY DEF ImportInv, ImportOn
  <1>to. \A x \in Replicas : at[x] \in Behind => task[x].recovers \/ task[x].failed \/ jobRow[task[x].job].touched
    BY DEF ImportInv, TouchedSo
  <1>do. \A j \in Jobs : jobRow[j].phase = "complete" => jobRow[j].touched
    BY DEF ImportInv, DoneTouched
  <1>ho. \A x \in Replicas : at[x] \in Alone => exclusive = x
    BY DEF LeaseInv, HoldsAlone
  <1>op. \A r \in Replicas, j \in Jobs : jobRow[j].owner = r => jobRow[j].phase \in Quiet \/ (task[r].job = j /\ at[r] \in Past)
    BY DEF OwnerInv, OwnerPhase
  <1>ha. \A x \in Replicas : at[x] \in Behind \cup {"restoring"} => task[x].job \in Jobs /\ at[x] \in Alone
    BY DEF HasTask, Behind, Repairs, Inside, Alone
  <1>ib. \A x \in Replicas : Imports(x) => at[x] \in Behind \cup {"restoring"}
    BY DEF Imports, Behind
  <1>k. /\ \A p \in Late : p \notin Quiet /\ p # "none"
        /\ \A p \in {"down", "resume", "draining", "to restoring", "coordinate", "wait", "to draining"} : p \notin Behind /\ p # "restoring"
    BY DEF Late, Quiet, Behind, Repairs
  <1>g. ASSUME NEW r \in Replicas,
               \A x \in Replicas \ {r} : at'[x] = at[x] /\ task'[x] = task[x],
               \A j \in Jobs : jobRow[j].touched => jobRow'[j].touched,
               \A x \in Replicas \ {r} : Imports(x) => jobRow'[task[x].job].phase \in Late,
               Imports(r)' => jobRow'[task'[r].job].phase \in Late,
               at'[r] \in Behind => task'[r].recovers \/ task'[r].failed \/ jobRow'[task'[r].job].touched,
               \A j \in Jobs : jobRow'[j].phase = "complete" => jobRow'[j].touched
        PROVE  ImportInv'
    <2>1. ASSUME NEW x \in Replicas, Imports(x)' PROVE jobRow'[task'[x].job].phase \in Late
      <3>1. CASE x = r
        BY <1>g, <2>1, <3>1
      <3>2. CASE x # r
        <4>1. at'[x] = at[x] /\ task'[x] = task[x]
          BY <1>g, <3>2
        <4>2. Imports(x)
          BY <2>1, <4>1 DEF Imports
        <4> QED BY <1>g, <3>2, <4>1, <4>2
      <3> QED BY <3>1, <3>2
    <2>2. ASSUME NEW x \in Replicas, at'[x] \in Behind
          PROVE  task'[x].recovers \/ task'[x].failed \/ jobRow'[task'[x].job].touched
      <3>1. CASE x = r
        BY <1>g, <2>2, <3>1
      <3>2. CASE x # r
        <4>1. at'[x] = at[x] /\ task'[x] = task[x]
          BY <1>g, <3>2
        <4>2. task[x].job \in Jobs
          BY <2>2, <4>1, <1>ha
        <4>3. task[x].recovers \/ task[x].failed \/ jobRow[task[x].job].touched
          BY <2>2, <4>1, <1>to
        <4> QED BY <1>g, <4>1, <4>2, <4>3
      <3> QED BY <3>1, <3>2
    <2> QED BY <1>g, <2>1, <2>2 DEF ImportInv, ImportOn, TouchedSo, DoneTouched
  \* a replica that takes up no import, while no row changes its phase
  <1>m. ASSUME NEW r \in Replicas, at'[r] \notin Behind, at'[r] # "restoring",
               \A x \in Replicas \ {r} : at'[x] = at[x] /\ task'[x] = task[x],
               \A j \in Jobs : jobRow'[j].phase = jobRow[j].phase /\ jobRow'[j].touched = jobRow[j].touched
        PROVE  ImportInv'
    <2>1. ~Imports(r)'
      BY <1>m DEF Imports, Behind
    <2>2. \A x \in Replicas \ {r} : Imports(x) => jobRow'[task[x].job].phase \in Late
      BY <1>m, <1>io, <1>ha, <1>ib
    <2> QED BY <1>m, <2>1, <2>2, <1>do, <1>g
  <1>a. ASSUME NEW r \in Replicas, Exit(r) PROVE ImportInv'
    <2>1. /\ at'[r] = "down" /\ \A x \in Replicas \ {r} : at'[x] = at[x] /\ task'[x] = task[x]
          /\ \A j \in Jobs : jobRow'[j].phase = jobRow[j].phase /\ jobRow'[j].touched = jobRow[j].touched
      BY <1>a, Exits
    <2> QED BY <2>1, <1>k, <1>m
  <1>q. ASSUME NEW r \in Replicas, NEW p, Go(r, p), UNCHANGED jobRow, p \notin Behind, p # "restoring",
               \A x \in Replicas \ {r} : task'[x] = task[x]
        PROVE  ImportInv'
    <2>1. at'[r] = p /\ \A x \in Replicas \ {r} : at'[x] = at[x]
      BY <1>q, <1>t DEF Go
    <2> QED BY <1>q, <2>1, <1>m
  <1>1. ASSUME NEW r \in Replicas, Run(r) PROVE ImportInv'
    <2>1. CASE Start(r) \/ Migrate(r) \/ FindOver(r) \/ AcquireApplicationLease(r)
      BY <2>1, <1>q DEF Start, Migrate, FindOver, AcquireApplicationLease, leaseVars, Behind, Repairs
    <2>2. CASE SeeTerminal(r)
      BY <2>2, <1>q, <1>t, <1>k DEF SeeTerminal
    <2>4. CASE Boot(r) \/ Notice(r)
      <3>1. PICK p \in {"serving", "drain", "closed"} : Go(r, p)
        BY <2>4 DEF Boot, Notice
      <3>2. \A x \in Replicas \ {r} : task'[x] = task[x]
        BY <2>4, <1>t DEF Boot, Notice
      <3> QED BY <2>4, <3>1, <3>2, <1>q DEF Boot, Notice, Behind, Repairs
    <2>7. CASE ReleaseApplicationLease(r)
      <3>1. CASE r \in sharers
        BY <2>7, <3>1, <1>q, <1>k DEF ReleaseApplicationLease
      <3>2. CASE r \notin sharers
        BY <2>7, <3>2, <1>a DEF ReleaseApplicationLease
      <3> QED BY <3>1, <3>2
    <2>8. CASE Coordinate(r)
      <3>1. CASE Owns(r) /\ task[r].job \notin secret
        BY <2>8, <3>1, <1>a DEF Coordinate
      <3>2. CASE ~(Owns(r) /\ task[r].job \notin secret)
        BY <2>8, <3>2, <1>q, <1>k, StageNames DEF Coordinate
      <3> QED BY <3>1, <3>2
    <2>10. CASE ClaimRecovery(r)
      <3> DEFINE j == task[r].job
      <3>1. j \in Jobs
        BY <2>10 DEF ClaimRecovery, HasTask
      <3>2. at'[r] = "draining" /\ \A x \in Replicas \ {r} : at'[x] = at[x] /\ task'[x] = task[x]
        BY <2>10, <1>t DEF ClaimRecovery, Go
      <3>3. /\ jobRow'[j].phase = "recovering" /\ jobRow'[j].touched = jobRow[j].touched
            /\ \A i \in Jobs \ {j} : jobRow'[i] = jobRow[i]
        <4>1. jobRow' = [jobRow EXCEPT ![j].owner = r, ![j].phase = "recovering"]
          BY <2>10 DEF ClaimRecovery, Claimed
        <4> HIDE DEF j
        <4>2. jobRow[j] \in JobType /\ jobRow'[j] = [jobRow[j] EXCEPT !.owner = r, !.phase = "recovering"]
          BY <3>1, <4>1, <1>t
        <4>3. jobRow'[j].phase = "recovering" /\ jobRow'[j].touched = jobRow[j].touched
          BY <4>2 DEF JobType
        <4> QED BY <4>1, <4>3, <1>t
      <3> HIDE DEF j
      <3>4. \A i \in Jobs : jobRow[i].touched => jobRow'[i].touched
        BY <3>3
      <3>5. \A x \in Replicas \ {r} : Imports(x) => jobRow'[task[x].job].phase \in Late
        <4> SUFFICES ASSUME NEW x \in Replicas, Imports(x) PROVE jobRow'[task[x].job].phase \in Late
          OBVIOUS
        <4>1. task[x].job \in Jobs /\ jobRow[task[x].job].phase \in Late
          BY <1>io, <1>ha, <1>ib
        <4>2. "recovering" \in Late
          BY DEF Late
        <4> QED BY <3>3, <4>1, <4>2
      <3>6. \A i \in Jobs : jobRow'[i].phase = "complete" => jobRow'[i].touched
        BY <3>3, <1>do
      <3>7. at'[r] \notin Behind /\ ~Imports(r)'
        BY <3>2, <1>k DEF Imports, Behind
      <3> QED BY <3>2, <3>4, <3>5, <3>6, <3>7, <1>g
    <2>11. CASE AcquireRestoreLease(r)
      <3>1. PICK p : /\ Go(r, p)
                     /\ \/ p = "to restoring"
                        \/ p \in {"finish", "to migrating"} /\ task[r].recovers
        BY <2>11, StageNames DEF AcquireRestoreLease
      <3>2. at'[r] = p /\ \A x \in Replicas \ {r} : at'[x] = at[x]
        BY <3>1, <1>t DEF Go
      <3>3. UNCHANGED <<task, jobRow>>
        BY <2>11 DEF AcquireRestoreLease
      <3>4. ~Imports(r)'
        BY <3>1, <3>2, <3>3 DEF Imports, Repairs
      <3>5. at'[r] \in Behind => task'[r].recovers
        BY <3>1, <3>2, <3>3, <1>k
      <3> QED BY <3>2, <3>3, <3>4, <3>5, <1>io, <1>do, <1>g
    <2>12. CASE RestoreFile(r)
      <3> DEFINE j == task[r].job
      <3>1. at[r] = "restoring" /\ j \in Jobs /\ jobRow[j].phase \in Late
        <4>1. at[r] = "restoring" /\ Imports(r)
          BY <2>12 DEF RestoreFile, Imports
        <4> QED BY <4>1, <1>ha, <1>io
      <3>2. at'[r] = "to migrating" /\ \A x \in Replicas \ {r} : at'[x] = at[x] /\ task'[x] = task[x]
        BY <2>12, <1>t, StageNames DEF RestoreFile, Go
      <3>3. task'[r].job = j /\ (task'[r].failed \/ jobRow'[j].touched)
            /\ \A i \in Jobs : jobRow'[i].phase = jobRow[i].phase /\ (jobRow[i].touched => jobRow'[i].touched)
        <4>r. jobRow[j] \in JobType /\ task[r] \in TaskType
          BY <3>1, <1>t
        <4>1. CASE jobRow' = [jobRow EXCEPT ![j].touched = TRUE] /\ UNCHANGED task
          <5>1. jobRow'[j] = [jobRow[j] EXCEPT !.touched = TRUE] /\ \A i \in Jobs \ {j} : jobRow'[i] = jobRow[i]
            BY <3>1, <4>1, <1>t
          <5>2. jobRow'[j].phase = jobRow[j].phase /\ jobRow'[j].touched
            BY <4>r, <5>1 DEF JobType
          <5> QED BY <4>1, <5>1, <5>2
        <4>2. CASE task' = [task EXCEPT ![r].failed = TRUE] /\ UNCHANGED jobRow
          <5>1. task'[r] = [task[r] EXCEPT !.failed = TRUE]
            BY <4>2, <1>t
          <5>2. task'[r].job = j /\ task'[r].failed
            BY <4>r, <5>1 DEF TaskType
          <5> QED BY <4>2, <5>2
        <4> QED BY <2>12, <4>1, <4>2 DEF RestoreFile
      <3> HIDE DEF j
      <3>5. \A x \in Replicas \ {r} : Imports(x) => jobRow'[task[x].job].phase \in Late
        BY <3>3, <1>io, <1>ha, <1>ib
      <3>6. \A i \in Jobs : jobRow'[i].phase = "complete" => jobRow'[i].touched
        BY <3>3, <1>do
      <3> QED BY <3>1, <3>2, <3>3, <3>5, <3>6, <1>g
    <2>13. CASE Finish(r)
      <3>1. CASE Owns(r)
        <4> DEFINE j == task[r].job
        <4>1. at[r] = "finish" /\ j \in Jobs /\ jobRow[j] \in JobType /\ task[r] \in TaskType
          BY <2>13, <1>ha, <1>t DEF Finish, Behind
        <4>2. at'[r] = "resume" /\ \A x \in Replicas \ {r} : at'[x] = at[x] /\ task'[x] = task[x]
          BY <2>13, <3>1, <1>t DEF Finish, Go
        <4>3. \A x \in Replicas \ {r} : ~Imports(x)
          <5>1. exclusive = r
            BY <4>1, <1>ho DEF Alone
          <5> QED BY <5>1, <1>ho, <1>ha, <1>ib
        <4>4. jobRow' = [jobRow EXCEPT ![j].phase = Outcome(task[r])]
          BY <2>13, <3>1 DEF Finish
        <4>5. Outcome(task[r]) = "complete" => jobRow[j].touched
          BY <4>1, <1>to DEF Outcome, Behind
        <4> HIDE DEF j
        <4>6. /\ jobRow'[j].phase = Outcome(task[r]) /\ jobRow'[j].touched = jobRow[j].touched
              /\ \A i \in Jobs \ {j} : jobRow'[i] = jobRow[i]
          <5>1. jobRow'[j] = [jobRow[j] EXCEPT !.phase = Outcome(task[r])]
            BY <4>1, <4>4, <1>t
          <5>2. jobRow'[j].phase = Outcome(task[r]) /\ jobRow'[j].touched = jobRow[j].touched
            BY <4>1, <5>1 DEF JobType
          <5> QED BY <4>4, <5>2, <1>t
        <4>7. \A i \in Jobs : jobRow'[i].phase = "complete" => jobRow'[i].touched
          BY <4>5, <4>6, <1>do
        <4>8. ~Imports(r)' /\ at'[r] \notin Behind
          BY <4>2, <1>k DEF Imports, Behind
        <4>9. \A i \in Jobs : jobRow[i].touched => jobRow'[i].touched
          BY <4>6
        <4> QED BY <4>2, <4>3, <4>7, <4>8, <4>9, <1>g
      <3>2. CASE ~Owns(r)
        BY <2>13, <3>2, <1>a DEF Finish
      <3> QED BY <3>1, <3>2
    <2>14. ASSUME NEW s \in Stages, UpdatePhase(r, s) PROVE ImportInv'
      <3>1. CASE Owns(r)
        <4> DEFINE j == task[r].job
        <4>1. j \in Jobs /\ jobRow[j] \in JobType /\ jobRow[j].owner = r /\ at[r] = To(s)
          BY <2>14, <3>1, <1>t, StageNames DEF UpdatePhase, HasTask, Owns, Inside, Alone
        <4>2. at'[r] = s /\ (\A x \in Replicas \ {r} : at'[x] = at[x]) /\ UNCHANGED task
          BY <2>14, <3>1, <1>t DEF UpdatePhase, Go
        <4>4. jobRow' = [jobRow EXCEPT ![j].phase = s]
          BY <2>14, <3>1 DEF UpdatePhase
        <4>5. s = "draining" \/ s \in Late
          BY StageNames DEF Late
        <4>d. s = "draining" => jobRow[j].phase \in Quiet
          <5>1. "to draining" \notin Past
            BY DEF Past, Alone
          <5> QED BY <4>1, <5>1, <1>op, StageNames
        <4>b. s \in Behind => at[r] \in Behind
          BY <4>1, StageNames DEF Behind, Repairs
        <4>c. j = task[r].job
          OBVIOUS
        <4> HIDE DEF j
        <4>6. /\ jobRow'[j].phase = s /\ jobRow'[j].touched = jobRow[j].touched
              /\ \A i \in Jobs \ {j} : jobRow'[i] = jobRow[i]
          <5>1. jobRow'[j] = [jobRow[j] EXCEPT !.phase = s]
            BY <4>1, <4>4, <1>t
          <5>2. jobRow'[j].phase = s /\ jobRow'[j].touched = jobRow[j].touched
            BY <4>1, <5>1 DEF JobType
          <5> QED BY <4>4, <5>2, <1>t
        <4>7. \A x \in Replicas \ {r} : Imports(x) => jobRow'[task[x].job].phase \in Late
          <5> SUFFICES ASSUME NEW x \in Replicas, Imports(x) PROVE jobRow'[task[x].job].phase \in Late
            OBVIOUS
          <5>1. task[x].job \in Jobs /\ jobRow[task[x].job].phase \in Late
            BY <1>io, <1>ha, <1>ib
          <5>2. CASE task[x].job = j
            BY <4>5, <4>6, <4>d, <5>1, <5>2, <1>k
          <5>3. CASE task[x].job # j
            BY <4>6, <5>1, <5>3
          <5> QED BY <5>2, <5>3
        <4>8. Imports(r)' => jobRow'[j].phase \in Late
          <5>1. "draining" \notin Behind
            BY <1>k
          <5> QED BY <4>2, <4>5, <4>6, <5>1 DEF Imports, Behind
        <4>9. \A i \in Jobs : jobRow'[i].phase = "complete" => jobRow'[i].touched
          <5>1. s # "complete"
            BY <4>5 DEF Late
          <5> QED BY <4>6, <5>1, <1>do
        <4>10. at'[r] \in Behind => task'[r].recovers \/ task'[r].failed \/ jobRow'[j].touched
          BY <4>2, <4>6, <4>b, <4>c, <1>to
        <4>11. \A i \in Jobs : jobRow[i].touched => jobRow'[i].touched
          BY <4>6
        <4>12. task'[r].job = j
          BY <4>2, <4>c
        <4> QED BY <4>2, <4>7, <4>8, <4>9, <4>10, <4>11, <4>12, <1>g
      <3>2. CASE ~Owns(r)
        BY <2>14, <3>2, <1>a DEF UpdatePhase
      <3> QED BY <3>1, <3>2
    <2>15. ASSUME NEW s \in Stages, Repair(r, s) PROVE ImportInv'
      <3>1. at[r] \in Repairs /\ UNCHANGED <<task, jobRow>>
        BY <2>15 DEF Repair, Repairs
      <3>2. PICK p \in Repairs \cup {"finish"} : at' = [at EXCEPT ![r] = p]
        BY <2>15, StageNames DEF Repair, Repairs, Go
      <3>3. at'[r] = p /\ \A x \in Replicas \ {r} : at'[x] = at[x]
        BY <3>2, <1>t
      <3>4. Imports(r) /\ at[r] \in Behind
        BY <3>1 DEF Imports, Behind
      <3> QED BY <3>1, <3>3, <3>4, <1>io, <1>to, <1>do, <1>g
    <2> QED BY <1>1, <2>1, <2>2, <2>4, <2>7, <2>8, <2>10, <2>11, <2>12, <2>13, <2>14, <2>15 DEF Run
  <1>u. CASE UNCHANGED <<at, task, jobRow>>
    BY <1>u DEF ImportInv, ImportOn, TouchedSo, DoneTouched, Imports
  <1>3. ASSUME NEW r \in Replicas, Answer(r) \/ BeginRequest(r) \/ LoseLease(r) PROVE ImportInv'
    BY <1>3, <1>u DEF Answer, EndRequest, SubmitDone, BeginRequest, LoseLease, leaseVars
  <1>s. ASSUME NEW r \in Replicas, SeeStale(r) PROVE ImportInv'
    <2>1. at'[r] = "wait" /\ UNCHANGED <<at, jobRow>> /\ \A x \in Replicas \ {r} : task'[x] = task[x]
      BY <1>s, <1>t DEF SeeStale
    <2> QED BY <2>1, <1>k, <1>m
  <1>4. ASSUME NEW r \in Replicas, Crash(r) PROVE ImportInv'
    BY <1>4, <1>a DEF Crash
  <1>5. ASSUME NEW j \in Jobs, GoesStale(j) \/ Beat(j) PROVE ImportInv'
    BY <1>5, <1>u DEF GoesStale, Beat, leaseVars
  <1>6. ASSUME NEW j \in Jobs, NEW r \in Replicas, SubmitInsert(r, j) PROVE ImportInv'
    <2>1. UNCHANGED <<at, task>> /\ jobRow[j].phase = "none" /\ at[r] = "serving"
      BY <1>6 DEF SubmitInsert, None
    <2>2. /\ jobRow'[j].phase = "queued" /\ jobRow'[j].touched = jobRow[j].touched
          /\ \A i \in Jobs \ {j} : jobRow'[i] = jobRow[i]
      <3>1. jobRow' = [jobRow EXCEPT ![j] = [@ EXCEPT !.phase = "queued", !.owner = r]]
        BY <1>6 DEF SubmitInsert
      <3>2. jobRow[j] \in JobType /\ jobRow'[j] = [jobRow[j] EXCEPT !.phase = "queued", !.owner = r]
        BY <3>1, <1>t
      <3>3. jobRow'[j].phase = "queued" /\ jobRow'[j].touched = jobRow[j].touched
        BY <3>2 DEF JobType
      <3> QED BY <3>1, <3>3, <1>t
    <2>3. \A x \in Replicas : Imports(x) => jobRow'[task[x].job].phase \in Late
      <3> SUFFICES ASSUME NEW x \in Replicas, Imports(x) PROVE jobRow'[task[x].job].phase \in Late
        OBVIOUS
      <3>1. task[x].job \in Jobs /\ jobRow[task[x].job].phase \in Late
        BY <1>io, <1>ha, <1>ib
      <3> QED BY <2>1, <2>2, <3>1, <1>k
    <2>4. ~Imports(r)' /\ at'[r] \notin Behind
      BY <2>1 DEF Imports, Behind, Repairs
    <2>5. \A i \in Jobs : jobRow[i].touched => jobRow'[i].touched
      BY <2>2
    <2>6. \A i \in Jobs : jobRow'[i].phase = "complete" => jobRow'[i].touched
      BY <2>2, <1>do
    <2> QED BY <2>1, <2>3, <2>4, <2>5, <2>6, <1>g
  <1>7. CASE OfflineRestore
    BY <1>7, <1>u DEF OfflineRestore
  <1> QED BY <1>1, <1>3, <1>s, <1>4, <1>5, <1>6, <1>7 DEF RestoreNext

\* The inductive invariant for any number of jobs.
OutcomeInv == RestoreTyped /\ HasTask /\ OwnerInv /\ LeaseInv /\ ImportInv

\* The inductive invariant holds at the start.
LEMMA OutcomeInit == RestoreInit => OutcomeInv
  <1> SUFFICES ASSUME RestoreInit PROVE OutcomeInv
    OBVIOUS
  <1>1. RestoreTyped /\ HasTask
    BY RestoreTypedStart
  <1>2. \A r \in Replicas : at[r] = "down"
    BY DEF RestoreInit
  <1>3. \A j \in Jobs : jobRow[j].phase = "none" /\ jobRow[j].owner = "gone"
    BY DEF RestoreInit, None, Gone
  <1>4. "gone" \notin Replicas
    BY RestoreAssumption DEF Gone
  <1>5. OwnerInv
    BY <1>2, <1>3, <1>4 DEF RestoreInit, OwnerInv, StaleActive, SeenWaits, WaitsForOther, OwnersJobOn, OwnerPhase, Unowned, Busy, Inside, Alone, Gone
  <1>6. LeaseInv
    BY <1>2 DEF RestoreInit, LeaseInv, CliAlone, HoldsAlone, LeaseAlone, HoldsShared, Alone, Sharing, Cli, None
  <1>7. ImportInv
    BY <1>2, <1>3 DEF ImportInv, ImportOn, TouchedSo, DoneTouched, Imports, Behind, Repairs
  <1> QED BY <1>1, <1>5, <1>6, <1>7 DEF OutcomeInv

\* It is kept by every step.
LEMMA OutcomeNext ==
  ASSUME ~LeaseLoss
  PROVE  OutcomeInv /\ [RestoreNext]_restoreVars => OutcomeInv'
  <1> SUFFICES ASSUME OutcomeInv, [RestoreNext]_restoreVars PROVE OutcomeInv'
    OBVIOUS
  <1>1. CASE RestoreNext
    <2>1. RestoreTyped' /\ HasTask'
      BY <1>1, RestoreTypedStep DEF OutcomeInv, OwnerInv
    <2>2. OwnerInv'
      BY <1>1, OwnerStep DEF OutcomeInv
    <2>3. LeaseInv'
      BY <1>1, LeaseStep DEF OutcomeInv
    <2>4. ImportInv'
      BY <1>1, ImportStep DEF OutcomeInv
    <2> QED BY <2>1, <2>2, <2>3, <2>4 DEF OutcomeInv
  <1>2. CASE UNCHANGED restoreVars
    BY <1>2 DEF restoreVars, OutcomeInv, RestoreTyped, HasTask, OwnerInv, StaleActive, SeenWaits, WaitsForOther, OwnersJobOn,
         OwnerPhase, Unowned, On, Owns, LeaseInv, CliAlone, HoldsAlone, LeaseAlone, HoldsShared, ImportInv, ImportOn, TouchedSo,
         DoneTouched, Imports
  <1> QED BY <1>1, <1>2

(* A restore says "complete" only after an archive was taken over, and whoever imports  *)
(* has a job that says so (advance, finish, recoverInterrupted), for any number of jobs *)
(* and replicas, crashes, stale rows and lost answers, while no lease session breaks.   *)
THEOREM OutcomesHold == ~LeaseLoss => (RestoreSpec => []OutcomeIsTrue)
  <1> SUFFICES ASSUME ~LeaseLoss PROVE RestoreSpec => []OutcomeIsTrue
    OBVIOUS
  <1>1. OutcomeInv => OutcomeIsTrue
    <2> SUFFICES ASSUME OutcomeInv PROVE OutcomeIsTrue
      OBVIOUS
    <2>1. \A j \in Jobs : jobRow[j].phase = "complete" => jobRow[j].touched
      BY DEF OutcomeInv, ImportInv, DoneTouched
    <2>2. \A r \in Replicas : at[r] = "restoring" => jobRow[task[r].job].phase \in Late
      BY DEF OutcomeInv, ImportInv, ImportOn, Imports
    <2> QED BY <2>1, <2>2 DEF OutcomeIsTrue, Late, Terminal
  <1> QED BY OutcomeInit, OutcomeNext, <1>1, PTL DEF RestoreSpec

\* While there is one job: who serves, and what is left to repair.
Over  == {"complete", "failed"}
Open  == {"boot", "serving", "drain", "closed", "stuck"}
Serve == {"serving", "drain"}
Back  == {"resume", "remigrate"}
OwnSessions == database.sessions = "own"
CliDid == offline \in {"migrate", "purge"}
Half(r) == at[r] = "draining" /\ Owns(r) /\ task[r].recovers /\ task[r].phase \in BeforeImport

\* A request is served by a replica that works, on the current schema, with the
\* sessions of this installation; a replica that starts again finds the job over.
\* Replaced sessions are noticed: an import is recorded in the job, or the offline
\* command is at it.  An owner that only looks whether anything is left to repair
\* finds nothing, and nobody imports then.
ServedByWorker == \A r \in Replicas : request[r] # None => at[r] \in Serve
SchemaNew  == \A r \in Replicas : at[r] \in Open => database.schema = "current"
BackOver   == \A r \in Replicas : at[r] \in Back => \A j \in Jobs : jobRow[j].phase \in Over
Replaced   == OwnSessions \/ CliDid \/ \E j \in Jobs : jobRow[j].phase \in Late
WorksSound == \A r \in Replicas : at[r] \in Serve => OwnSessions
FinishSound == \A r \in Replicas : at[r] = "finish" /\ Owns(r) => OwnSessions
NothingToRepair == \A r \in Replicas : Half(r) => (OwnSessions \/ CliDid) /\ \A o \in Replicas : at[o] # "restoring"
RecoverInside == \A r \in Replicas : task[r].recovers => at[r] \in Past
\* What is added for one job.
SoundInv == /\ ServedByWorker /\ SchemaNew /\ BackOver /\ Replaced /\ WorksSound
            /\ FinishSound /\ NothingToRepair /\ RecoverInside

\* With one job, what servers rest on is kept by every step.
LEMMA SoundStep ==
  ASSUME ~LeaseLoss, ~OfflineBreaks, \A i, j \in Jobs : i = j, OutcomeInv, SoundInv, RestoreNext
  PROVE  SoundInv'
  <1> SUFFICES SoundInv'
    OBVIOUS
  <1>t. /\ at \in [Replicas -> Points] /\ task \in [Replicas -> TaskType] /\ jobRow \in [Jobs -> JobType]
        /\ request \in [Replicas -> Jobs \cup {None, "request"}] /\ database \in DatabaseType
    BY DEF OutcomeInv, RestoreTyped
  <1>one. \A i, j \in Jobs : i = j
    OBVIOUS
  <1>sw. \A x \in Replicas : request[x] # None => at[x] \in Serve
    BY DEF SoundInv, ServedByWorker
  <1>sn. \A x \in Replicas : at[x] \in Open => database.schema = "current"
    BY DEF SoundInv, SchemaNew
  <1>bo. \A x \in Replicas : at[x] \in Back => \A j \in Jobs : jobRow[j].phase \in Over
    BY DEF SoundInv, BackOver
  <1>re. OwnSessions \/ CliDid \/ \E j \in Jobs : jobRow[j].phase \in Late
    BY DEF SoundInv, Replaced
  <1>ws. \A x \in Replicas : at[x] \in Serve => OwnSessions
    BY DEF SoundInv, WorksSound
  <1>fs. \A x \in Replicas : at[x] = "finish" /\ Owns(x) => OwnSessions
    BY DEF SoundInv, FinishSound
  <1>nr. \A x \in Replicas : Half(x) => (OwnSessions \/ CliDid) /\ \A o \in Replicas : at[o] # "restoring"
    BY DEF SoundInv, NothingToRepair
  <1>ri. \A x \in Replicas : task[x].recovers => at[x] \in Past
    BY DEF SoundInv, RecoverInside
  <1>sh. \A x \in Replicas : at[x] \in Sharing => x \in sharers
    BY DEF OutcomeInv, LeaseInv, HoldsShared
  <1>al. \A x \in Replicas : at[x] \in Alone => exclusive = x
    BY DEF OutcomeInv, LeaseInv, HoldsAlone
  <1>la. exclusive # "none" => sharers = {}
    BY DEF OutcomeInv, LeaseInv, LeaseAlone, None
  <1>cl. exclusive = "cli" <=> offline \in {"restore", "migrate", "purge"}
    BY DEF OutcomeInv, LeaseInv, CliAlone, Cli
  <1>n. "none" \notin Replicas /\ "cli" \notin Replicas /\ "gone" \notin Replicas
    BY RestoreAssumption DEF None, Cli, Gone
  <1>cd. CliDid => exclusive = "cli"
    BY <1>cl DEF CliDid
  <1>oj. \A x \in Replicas : at[x] \in Busy /\ Owns(x) => task[x].job \in Jobs /\ jobRow[task[x].job].phase \notin Over
    BY DEF OutcomeInv, OwnerInv, OwnersJobOn, On, Over
  <1>ha. \A x \in Replicas : at[x] \in Busy \cup {"wait"} => task[x].job \in Jobs
    BY DEF OutcomeInv, HasTask, Busy
  <1>im. \A x \in Replicas : at[x] = "restoring" => jobRow[task[x].job].phase \in Late
    BY DEF OutcomeInv, ImportInv, ImportOn, Imports
  <1>ph. \A r \in Replicas, j \in Jobs : jobRow[j].owner = r => jobRow[j].phase \in Quiet \/ (task[r].job = j /\ at[r] \in Past)
    BY DEF OutcomeInv, OwnerInv, OwnerPhase
  <1>k1. /\ \A p \in Past : p \in Busy /\ p \notin Serve /\ p \notin Open /\ p \notin Back
         /\ \A p \in Alone : p \in Past
         /\ \A p \in Serve : p \in Open
         /\ \A p \in Open \cup {"remigrate"} : p \in Sharing
    BY DEF Past, Busy, Inside, Alone, Serve, Open, Back, Sharing
  <1>k2. /\ \A p \in Late : p \notin Over /\ p \notin Quiet /\ p \notin BeforeImport /\ p # "none"
         /\ \A p \in BeforeImport : p \notin Over /\ p \notin Late
    BY DEF Late, Over, Quiet, BeforeImport
  <1>k3. /\ "draining" \in Past /\ "restoring" \in Alone /\ "finish" \in Alone
         /\ "to draining" \notin Past /\ "to draining" \in Busy
    BY DEF Past, Busy, Inside, Alone
  <1>g. ASSUME NEW r \in Replicas,
               \A x \in Replicas \ {r} : at'[x] = at[x] /\ task'[x] = task[x] /\ request'[x] = request[x],
               request'[r] # None => at'[r] \in Serve,
               at'[r] \in Open => database'.schema = "current",
               \A x \in Replicas \ {r} : at[x] \in Open => database'.schema = "current",
               at'[r] \in Back => \A j \in Jobs : jobRow'[j].phase \in Over,
               \A x \in Replicas \ {r} : at[x] \in Back => \A j \in Jobs : jobRow'[j].phase \in Over,
               Replaced',
               at'[r] \in Serve => OwnSessions',
               \A x \in Replicas \ {r} : at[x] \in Serve => OwnSessions',
               at'[r] = "finish" /\ Owns(r)' => OwnSessions',
               \A x \in Replicas \ {r} : at[x] = "finish" /\ Owns(x)' => OwnSessions',
               Half(r)' => (OwnSessions' \/ CliDid') /\ \A o \in Replicas : at'[o] # "restoring",
               \A x \in Replicas \ {r} : Half(x)' => (OwnSessions' \/ CliDid') /\ \A o \in Replicas : at'[o] # "restoring",
               task'[r].recovers => at'[r] \in Past
        PROVE  SoundInv'
    <2>1. ServedByWorker' /\ RecoverInside'
      BY <1>g, <1>sw, <1>ri DEF ServedByWorker, RecoverInside
    <2>2. SchemaNew' /\ BackOver' /\ WorksSound'
      BY <1>g DEF SchemaNew, BackOver, WorksSound
    <2>3. FinishSound'
      BY <1>g DEF FinishSound
    <2>4. NothingToRepair'
      BY <1>g DEF NothingToRepair
    <2> QED BY <1>g, <2>1, <2>2, <2>3, <2>4 DEF SoundInv
  \* a step of one replica that leaves the database and the phases alone
  <1>m. ASSUME NEW r \in Replicas,
               \A x \in Replicas \ {r} : at'[x] = at[x] /\ task'[x] = task[x] /\ request'[x] = request[x],
               UNCHANGED <<database, offline>>,
               \A j \in Jobs : jobRow'[j].phase = jobRow[j].phase,
               \A j \in Jobs : \A x \in Replicas \ {r} : jobRow'[j].owner = x => jobRow[j].owner = x,
               at'[r] # "restoring",
               request'[r] # None => at'[r] \in Serve,
               at'[r] \in Open => database.schema = "current",
               at'[r] \in Back => \A j \in Jobs : jobRow[j].phase \in Over,
               at'[r] \in Serve => OwnSessions,
               at'[r] = "finish" /\ Owns(r)' => OwnSessions,
               ~Half(r)',
               task'[r].recovers => at'[r] \in Past
        PROVE  SoundInv'
    <2>1. (OwnSessions' <=> OwnSessions) /\ (CliDid' <=> CliDid)
      BY <1>m DEF OwnSessions, CliDid
    <2>2. Replaced'
      BY <1>m, <2>1, <1>re DEF Replaced
    <2>3. \A x \in Replicas \ {r} : at[x] = "finish" /\ Owns(x)' => OwnSessions'
      <3> SUFFICES ASSUME NEW x \in Replicas \ {r}, at[x] = "finish", Owns(x)' PROVE OwnSessions
        BY <2>1
      <3>1. task'[x] = task[x] /\ task[x].job \in Jobs
        BY <1>m, <1>ha, <1>k1, <1>k3
      <3>2. Owns(x)
        BY <1>m, <3>1 DEF Owns
      <3> QED BY <3>2, <1>fs
    <2>4. \A x \in Replicas \ {r} : Half(x)' => (OwnSessions' \/ CliDid') /\ \A o \in Replicas : at'[o] # "restoring"
      <3> SUFFICES ASSUME NEW x \in Replicas \ {r}, Half(x)' PROVE (OwnSessions \/ CliDid) /\ \A o \in Replicas : at'[o] # "restoring"
        BY <2>1
      <3>0. at'[x] = "draining" /\ at[x] = "draining" /\ task'[x] = task[x]
        BY <1>m DEF Half
      <3>1. at'[x] = "draining" /\ at[x] = "draining" /\ task'[x] = task[x] /\ task[x].job \in Jobs
        BY <3>0, <1>ha, <1>k1, <1>k3
      <3>2. Half(x)
        BY <1>m, <3>1 DEF Half, Owns
      <3> QED BY <1>m, <3>2, <1>nr
    <2> QED BY <1>m, <2>1, <2>2, <2>3, <2>4, <1>sn, <1>bo, <1>ws, <1>g
  <1>a. ASSUME NEW r \in Replicas, Exit(r) PROVE SoundInv'
    <2>1. /\ at'[r] = "down" /\ \A x \in Replicas \ {r} : at'[x] = at[x] /\ task'[x] = task[x] /\ request'[x] = request[x]
          /\ request'[r] = None /\ task'[r] = NoTask /\ UNCHANGED <<database, offline>>
          /\ \A j \in Jobs : /\ jobRow'[j].phase = jobRow[j].phase
                             /\ jobRow'[j].owner = IF jobRow[j].owner = r THEN "gone" ELSE jobRow[j].owner
      BY <1>a, Exits DEF OutcomeInv, Gone
    <2>2. \A j \in Jobs : \A x \in Replicas \ {r} : jobRow'[j].owner = x => jobRow[j].owner = x
      BY <2>1, <1>n
    <2>3. "down" \notin Open /\ "down" \notin Serve /\ "down" \notin Back
      BY DEF Open, Serve, Back
    <2>4. ~Half(r)' /\ ~task'[r].recovers
      BY <2>1 DEF Half, NoTask
    <2> QED BY <2>1, <2>2, <2>3, <2>4, <1>m
  \* the same, with the rows and the replica's task as they were
  <1>q. ASSUME NEW r \in Replicas, NEW p, Go(r, p), UNCHANGED <<task, request, database, offline, jobRow>>, p # "restoring", p # "draining",
               request[r] # None => p \in Serve,
               p \in Open => database.schema = "current",
               p \in Back => \A j \in Jobs : jobRow[j].phase \in Over,
               p \in Serve => OwnSessions,
               p = "finish" /\ Owns(r) => OwnSessions,
               at[r] \in Past => p \in Past
        PROVE  SoundInv'
    <2>1. at'[r] = p /\ \A x \in Replicas \ {r} : at'[x] = at[x]
      BY <1>q, <1>t DEF Go
    <2>2. ~Half(r)' /\ (Owns(r)' <=> Owns(r))
      BY <1>q, <2>1 DEF Half, Owns
    <2>3. task'[r].recovers => at'[r] \in Past
      BY <1>q, <2>1, <1>ri
    <2> QED BY <1>q, <2>1, <2>2, <2>3, <1>m
  <1>nq. \A r \in Replicas : at[r] \notin Serve => request[r] = None
    BY <1>sw
  \* where a replica holds the shared lease and no job is on, the data is the house's own
  <1>so. ASSUME NEW r \in Replicas, at[r] \in Sharing, \A j \in Jobs : jobRow[j].phase \notin Late PROVE OwnSessions
    <2>1. exclusive = "none"
      BY <1>so, <1>sh, <1>la
    <2> QED BY <2>1, <1>so, <1>cd, <1>re
  <1>1. ASSUME NEW r \in Replicas, Run(r) PROVE SoundInv'
    <2>1. CASE Start(r)
      BY <2>1, <1>q, <1>nq DEF Start, Open, Serve, Back, Past, Alone
    <2>2. CASE AcquireApplicationLease(r)
      <3>1. CASE at[r] = "lease"
        BY <2>2, <3>1, <1>q, <1>nq DEF AcquireApplicationLease, Open, Serve, Back, Past, Alone
      <3>2. CASE at[r] = "resume"
        <4>1. \A j \in Jobs : jobRow[j].phase \in Over
          BY <3>2, <1>bo DEF Back
        <4> QED BY <2>2, <3>2, <4>1, <1>q, <1>nq DEF AcquireApplicationLease, Open, Serve, Past, Alone
      <3> QED BY <2>2, <3>1, <3>2 DEF AcquireApplicationLease
    <2>3. CASE Migrate(r)
      <3>1. PICK p \in {"boot", "serving"} : Go(r, p) /\ (p = "serving" => at[r] = "remigrate")
        BY <2>3 DEF Migrate
      <3>2. /\ UNCHANGED <<task, jobRow, request, offline>> /\ at[r] \in {"migrate", "remigrate"}
            /\ database' = [database EXCEPT !.schema = "current"]
        BY <2>3 DEF Migrate
      <3>3. at'[r] = p /\ \A x \in Replicas \ {r} : at'[x] = at[x]
        BY <3>1, <1>t DEF Go
      <3>4. database'.schema = "current" /\ database'.sessions = database.sessions
        BY <3>2, <1>t DEF DatabaseType
      <3>5. (OwnSessions' <=> OwnSessions) /\ (CliDid' <=> CliDid)
        BY <3>2, <3>4 DEF OwnSessions, CliDid
      <3>6. p = "serving" => OwnSessions
        <4> SUFFICES ASSUME p = "serving" PROVE OwnSessions
          OBVIOUS
        <4>1. at[r] = "remigrate"
          BY <3>1
        <4>2. \A j \in Jobs : jobRow[j].phase \notin Late
          BY <4>1, <1>bo, <1>k2 DEF Back
        <4> QED BY <4>1, <4>2, <1>so, <1>k1
      <3>7. Replaced'
        BY <3>2, <3>5, <1>re DEF Replaced
      <3>8. request[r] = None
        BY <3>2, <1>nq DEF Serve
      <3>9. at'[r] \notin Back /\ at'[r] # "finish" /\ ~Half(r)' /\ ~task'[r].recovers
        <4>1. at[r] \notin Past
          BY <3>2 DEF Past, Alone
        <4> QED BY <4>1, <3>2, <3>3, <1>ri DEF Back, Half
      <3>10. \A x \in Replicas : Half(x)' => (OwnSessions' \/ CliDid') /\ \A o \in Replicas : at'[o] # "restoring"
        <4> SUFFICES ASSUME NEW x \in Replicas, Half(x)' PROVE (OwnSessions \/ CliDid) /\ \A o \in Replicas : at'[o] # "restoring"
          BY <3>5
        <4>1. x # r /\ at'[x] = at[x]
          BY <3>3, <3>9
        <4>2. Half(x)
          BY <4>1, <3>2 DEF Half, Owns
        <4> QED BY <4>2, <3>3, <1>nr
      <3>11. \A x \in Replicas \ {r} : at[x] = "finish" /\ Owns(x)' => OwnSessions'
        BY <3>2, <3>5, <1>fs DEF Owns
      <3>12. at'[r] \in Serve => OwnSessions'
        BY <3>3, <3>5, <3>6 DEF Serve
      <3> QED BY <3>2, <3>3, <3>4, <3>5, <3>7, <3>8, <3>9, <3>10, <3>11, <3>12, <1>bo, <1>ws, <1>g
    <2>4. CASE Boot(r)
      <3>1. /\ at[r] = "boot" /\ UNCHANGED <<jobRow, request, database, offline>>
            /\ \A x \in Replicas \ {r} : at'[x] = at[x] /\ task'[x] = task[x]
        BY <2>4, <1>t DEF Boot, Go
      <3>2. /\ at'[r] = "closed" \/ (at'[r] = "serving" /\ Active = {})
            /\ task'[r].recovers => task[r].recovers
        <4>1. CASE Active = {}
          BY <2>4, <4>1, <1>t DEF Boot, Go
        <4>2. CASE Active # {}
          <5>1. PICK j \in Active : Go(r, "closed") /\ task' = [task EXCEPT ![r].job = j]
            BY <2>4, <4>2 DEF Boot
          <5>2. task'[r] = [task[r] EXCEPT !.job = j] /\ task[r] \in TaskType
            BY <5>1, <1>t
          <5>3. task'[r].recovers = task[r].recovers
            BY <5>2 DEF TaskType
          <5> QED BY <5>1, <5>3, <1>t DEF Go
        <4> QED BY <4>1, <4>2
      <3>3. ~task[r].recovers
        BY <3>1, <1>ri DEF Past, Alone
      <3>4. Active = {} => OwnSessions
        <4> SUFFICES ASSUME Active = {} PROVE OwnSessions
          OBVIOUS
        <4>1. \A j \in Jobs : jobRow[j].phase \notin Late
          BY <1>k2 DEF Active, Over, Terminal, None
        <4> QED BY <3>1, <4>1, <1>so DEF Sharing
      <3>5. database.schema = "current"
        BY <3>1, <1>sn DEF Open
      <3>6. request'[r] = None
        BY <3>1, <1>nq DEF Serve
      <3>7. ~Half(r)' /\ at'[r] \notin Back /\ at'[r] # "finish" /\ at'[r] # "restoring"
        BY <3>2 DEF Half, Back
      <3>8. at'[r] \in Serve => OwnSessions
        BY <3>2, <3>4 DEF Serve
      <3> QED BY <3>1, <3>2, <3>3, <3>5, <3>6, <3>7, <3>8, <1>m
    <2>5. CASE Notice(r)
      <3>1. /\ at[r] \in {"serving", "stuck"} /\ UNCHANGED <<jobRow, request, database, offline>>
            /\ \A x \in Replicas \ {r} : at'[x] = at[x] /\ task'[x] = task[x]
            /\ at'[r] = (IF at[r] = "serving" THEN "drain" ELSE "closed")
        BY <2>5, <1>t DEF Notice, Go
      <3>2. task'[r].recovers = task[r].recovers
        <4>1. PICK j \in Active : task' = [task EXCEPT ![r].job = j]
          BY <2>5 DEF Notice
        <4>2. task'[r] = [task[r] EXCEPT !.job = j] /\ task[r] \in TaskType
          BY <4>1, <1>t
        <4> QED BY <4>2 DEF TaskType
      <3>3. ~task[r].recovers
        BY <3>1, <1>ri DEF Past, Alone
      <3>5. database.schema = "current" /\ (at'[r] \in Serve => OwnSessions)
        BY <3>1, <1>sn, <1>ws DEF Open, Serve
      <3>6. request'[r] # None => at'[r] \in Serve
        BY <3>1, <1>sw DEF Serve
      <3>7. ~Half(r)' /\ at'[r] \notin Back /\ at'[r] # "finish" /\ at'[r] # "restoring"
        BY <3>1 DEF Half, Back
      <3> QED BY <3>1, <3>2, <3>3, <3>5, <3>6, <3>7, <1>m
    <2>6. CASE FindOver(r)
      <3>1. at[r] = "closed" /\ request[r] = None /\ database.schema = "current"
        BY <2>6, <1>nq, <1>sn DEF FindOver, Serve, Open
      <3> QED BY <2>6, <3>1, <1>q DEF FindOver, Serve, Back, Past, Alone
    <2>7. CASE ReleaseApplicationLease(r)
      <3>1. CASE r \in sharers
        <4>1. at[r] \notin Past /\ request[r] = None
          BY <2>7 DEF ReleaseApplicationLease, Drained, Closed, Past, Alone
        <4> QED BY <2>7, <3>1, <4>1, <1>q DEF ReleaseApplicationLease, Serve, Open, Back
      <3>2. CASE r \notin sharers
        BY <2>7, <3>2, <1>a DEF ReleaseApplicationLease
      <3> QED BY <3>1, <3>2
    <2>8. CASE Coordinate(r)
      <3>1. CASE Owns(r) /\ task[r].job \notin secret
        BY <2>8, <3>1, <1>a DEF Coordinate
      <3>2. CASE ~(Owns(r) /\ task[r].job \notin secret)
        <4>1. at[r] \notin Past /\ request[r] = None
          BY <2>8, <1>nq DEF Coordinate, Past, Alone, Serve
        <4> QED BY <2>8, <3>2, <4>1, <1>q, StageNames DEF Coordinate, Serve, Open, Back
      <3> QED BY <3>1, <3>2
    <2>9. CASE SeeTerminal(r)
      <3>1. /\ at[r] = "wait" /\ at'[r] = "resume" /\ task'[r] = NoTask /\ UNCHANGED <<jobRow, request, database, offline>>
            /\ \A x \in Replicas \ {r} : at'[x] = at[x] /\ task'[x] = task[x]
            /\ jobRow[task[r].job].phase \in Over
        BY <2>9, <1>t DEF SeeTerminal, Go, Over, Terminal
      <3>2. \A j \in Jobs : jobRow[j].phase \in Over
        BY <3>1, <1>ha, <1>one
      <3>3. request'[r] = None /\ ~task'[r].recovers /\ ~Half(r)'
        BY <3>1, <1>nq DEF Serve, NoTask, Half
      <3>4. at'[r] \notin Open /\ at'[r] \notin Serve /\ at'[r] # "finish" /\ at'[r] # "restoring"
        BY <3>1 DEF Open, Serve
      <3> QED BY <3>1, <3>2, <3>3, <3>4, <1>m
    <2>10. CASE ClaimRecovery(r)
      <3> DEFINE j == task[r].job
      <3>1. at[r] = "wait" /\ j \in Jobs /\ jobRow[j].phase \notin Over /\ task[r].phase = jobRow[j].phase
        BY <2>10 DEF ClaimRecovery, OutcomeInv, OwnerInv, SeenWaits, On, Over
      <3>2. /\ at'[r] = "draining" /\ UNCHANGED <<request, database, offline>>
            /\ \A x \in Replicas \ {r} : at'[x] = at[x] /\ task'[x] = task[x]
        BY <2>10, <1>t DEF ClaimRecovery, Go
      <3>3. task'[r].phase = task[r].phase
        <4>1. task'[r] = [task[r] EXCEPT !.recovers = TRUE] /\ task[r] \in TaskType
          BY <2>10, <1>t DEF ClaimRecovery
        <4> QED BY <4>1 DEF TaskType
      <3>4. jobRow'[j].phase = "recovering" /\ jobRow'[j].owner = r
        <4>1. jobRow' = [jobRow EXCEPT ![j].owner = r, ![j].phase = "recovering"]
          BY <2>10 DEF ClaimRecovery, Claimed
        <4> HIDE DEF j
        <4>2. jobRow[j] \in JobType /\ jobRow'[j] = [jobRow[j] EXCEPT !.owner = r, !.phase = "recovering"]
          BY <3>1, <4>1, <1>t
        <4> QED BY <4>2 DEF JobType
      <3> HIDE DEF j
      <3>5. (OwnSessions' <=> OwnSessions) /\ (CliDid' <=> CliDid)
        BY <3>2 DEF OwnSessions, CliDid
      <3>6. Replaced'
        BY <3>1, <3>4 DEF Replaced, Late
      <3>7. \A x \in Replicas \ {r} : at[x] \notin Back
        BY <3>1, <1>bo
      <3>8. \A x \in Replicas \ {r} : at[x] \in Past => ~Owns(x)'
        BY <3>1, <3>2, <3>4, <1>ha, <1>k1, <1>one DEF Owns
      <3>9. Half(r)' => (OwnSessions' \/ CliDid') /\ \A o \in Replicas : at'[o] # "restoring"
        <4> SUFFICES ASSUME Half(r)' PROVE (OwnSessions' \/ CliDid') /\ \A o \in Replicas : at'[o] # "restoring"
          OBVIOUS
        <4>1. jobRow[j].phase \in BeforeImport
          BY <3>1, <3>3 DEF Half
        <4>2. \A i \in Jobs : jobRow[i].phase \notin Late
          BY <3>1, <4>1, <1>one, <1>k2
        <4>3. \A o \in Replicas : at[o] # "restoring"
          BY <4>2, <1>im, <1>ha, <1>k1, <1>k3
        <4> QED BY <3>2, <3>5, <4>2, <4>3, <1>re
      <3>10. \A x \in Replicas \ {r} : ~Half(x)' /\ (at[x] = "finish" => ~Owns(x)')
        BY <3>2, <3>8, <1>k1, <1>k3 DEF Half
      <3>11. request'[r] = None /\ at'[r] \notin Open /\ at'[r] \notin Back /\ at'[r] \notin Serve /\ at'[r] \in Past
        BY <3>1, <3>2, <1>nq DEF Open, Serve, Back, Past
      <3> QED BY <3>2, <3>5, <3>6, <3>7, <3>9, <3>10, <3>11, <1>sn, <1>ws, <1>g
    <2>11. CASE AcquireRestoreLease(r)
      <3>1. at[r] = "draining" /\ exclusive = "none" /\ UNCHANGED <<task, request, database, offline, jobRow>>
        BY <2>11 DEF AcquireRestoreLease, ExclusiveFree, None
      <3>2. PICK p \in {"to restoring", "to migrating", "finish"} : Go(r, p) /\ (p = "finish" => task[r].recovers /\ task[r].phase \in BeforeImport)
        BY <2>11, StageNames DEF AcquireRestoreLease
      <3>3. p = "finish" /\ Owns(r) => OwnSessions
        BY <3>1, <3>2, <1>nr, <1>cd DEF Half
      <3>4. p \in Past /\ p \notin Open /\ p \notin Serve /\ p \notin Back /\ request[r] = None
        BY <3>1, <1>nq DEF Past, Alone, Open, Serve, Back
      <3> QED BY <3>1, <3>2, <3>3, <3>4, <1>q
    <2>12. CASE RestoreFile(r)
      <3>1. /\ at[r] = "restoring" /\ at'[r] = "to migrating" /\ UNCHANGED <<request, offline>>
            /\ \A x \in Replicas \ {r} : at'[x] = at[x] /\ task'[x] = task[x]
        BY <2>12, <1>t, StageNames DEF RestoreFile, Go
      <3>2. exclusive = r /\ sharers = {} /\ request[r] = None
        BY <3>1, <1>al, <1>k3, <1>la, <1>n, <1>nq DEF Serve
      <3>3. \A x \in Replicas : at[x] \notin Open /\ at[x] \notin Serve
        BY <3>2, <1>sh, <1>k1
      <3>4. task[r].job \in Jobs /\ jobRow[task[r].job].phase \in Late
        BY <3>1, <1>ha, <1>im, <1>k1, <1>k3
      <3>5. \A i \in Jobs : jobRow'[i].phase = jobRow[i].phase
        BY <2>12, <3>4, <1>t, RowWrites DEF RestoreFile
      <3>6. Replaced'
        BY <3>4, <3>5 DEF Replaced
      <3>7. \A x \in Replicas \ {r} : at[x] \notin Alone /\ ~Half(x)
        BY <3>1, <3>2, <1>al, <1>nr
      <3>8. \A x \in Replicas \ {r} : ~Half(x)' /\ at[x] # "finish"
        <4> SUFFICES ASSUME NEW x \in Replicas \ {r} PROVE ~Half(x)'
          BY <3>7, <1>k3
        <4>1. \A i \in Jobs : jobRow'[i].owner = jobRow[i].owner
          BY <2>12, <3>4, <1>t, RowWrites DEF RestoreFile
        <4>2. at[x] = "draining" => task[x].job \in Jobs
          BY <1>ha, <1>k1, <1>k3
        <4>3. at'[x] = at[x] /\ task'[x] = task[x] /\ ~Half(x)
          BY <3>1, <3>7
        <4>4. ASSUME at[x] = "draining" PROVE Owns(x)' = Owns(x)
          BY <4>1, <4>2, <4>3, <4>4 DEF Owns
        <4> QED BY <4>3, <4>4 DEF Half
      <3>9. at'[r] \in Past /\ at'[r] \notin Open /\ at'[r] \notin Serve /\ at'[r] \notin Back /\ ~Half(r)'
        BY <3>1 DEF Past, Alone, Open, Serve, Back, Half
      <3> QED BY <3>1, <3>2, <3>3, <3>5, <3>6, <3>8, <3>9, <1>bo, <1>g
    <2>13. CASE Finish(r)
      <3>1. CASE Owns(r)
        <4> DEFINE j == task[r].job
        <4>1. at[r] = "finish" /\ j \in Jobs /\ jobRow[j].owner = r /\ jobRow[j] \in JobType /\ request[r] = None
          BY <2>13, <3>1, <1>ha, <1>k1, <1>k3, <1>t, <1>nq DEF Finish, Owns, Serve
        <4>2. /\ at'[r] = "resume" /\ task'[r] = NoTask /\ UNCHANGED <<request, database, offline>>
              /\ \A x \in Replicas \ {r} : at'[x] = at[x] /\ task'[x] = task[x]
          BY <2>13, <3>1, <1>t DEF Finish, Go
        <4>3. OwnSessions /\ OwnSessions'
          BY <3>1, <4>1, <4>2, <1>fs DEF OwnSessions
        <4>4. jobRow' = [jobRow EXCEPT ![j].phase = Outcome(task[r])] /\ Outcome(task[r]) \in Over
          BY <2>13, <3>1 DEF Finish, Outcome, Over
        <4>d. \A x \in Replicas : at[x] = "restoring" => x = r
          BY <4>1, <1>al, <1>k3
        <4> HIDE DEF j
        <4>5. jobRow'[j].phase \in Over /\ jobRow'[j].owner = r
          <5>1. jobRow'[j] = [jobRow[j] EXCEPT !.phase = Outcome(task[r])]
            BY <4>1, <4>4, <1>t
          <5>2. jobRow'[j].phase = Outcome(task[r]) /\ jobRow'[j].owner = jobRow[j].owner
            BY <4>1, <5>1 DEF JobType
          <5> QED BY <4>1, <4>4, <5>2
        <4>6. \A i \in Jobs : jobRow'[i].phase \in Over
          BY <4>1, <4>5, <1>one
        <4>7. \A o \in Replicas : at'[o] # "restoring"
          BY <4>1, <4>2, <4>d
        <4>8. Replaced'
          BY <4>3 DEF Replaced
        <4>9. ~Half(r)' /\ at'[r] \notin Open /\ at'[r] \notin Serve /\ ~task'[r].recovers
          BY <4>2 DEF Half, Open, Serve, NoTask
        <4>10. \A x \in Replicas \ {r} : at[x] \in Open => database'.schema = "current"
          BY <4>2, <1>sn
        <4> QED BY <4>1, <4>2, <4>3, <4>6, <4>7, <4>8, <4>9, <4>10, <1>g
      <3>2. CASE ~Owns(r)
        BY <2>13, <3>2, <1>a DEF Finish
      <3> QED BY <3>1, <3>2
    <2>14. ASSUME NEW s \in Stages, UpdatePhase(r, s) PROVE SoundInv'
      <3>1. CASE Owns(r)
        <4> DEFINE j == task[r].job
        <4>1. at[r] = To(s) /\ at[r] \in Busy /\ at[r] \notin Serve /\ request[r] = None
          BY <2>14, StageNames, <1>nq DEF UpdatePhase, Busy, Inside, Alone, Serve
        <4>2. j \in Jobs /\ jobRow[j].owner = r /\ jobRow[j] \in JobType /\ jobRow[j].phase \notin Over
          BY <4>1, <3>1, <1>oj, <1>t DEF Owns
        <4>3. at'[r] = s /\ (\A x \in Replicas \ {r} : at'[x] = at[x]) /\ UNCHANGED <<task, request, database, offline>>
          BY <2>14, <3>1, <1>t DEF UpdatePhase, Go
        <4>4. jobRow' = [jobRow EXCEPT ![j].phase = s]
          BY <2>14, <3>1 DEF UpdatePhase
        <4>5. s = "draining" => jobRow[j].phase \in Quiet /\ ~task[r].recovers
          BY <4>1, <4>2, <1>ph, <1>ri, <1>k3, StageNames
        <4>6. s = "draining" \/ s \in Late
          BY StageNames DEF Late
        <4> HIDE DEF j
        <4>7. jobRow'[j].phase = s /\ jobRow'[j].owner = r
          <5>1. jobRow'[j] = [jobRow[j] EXCEPT !.phase = s]
            BY <4>2, <4>4, <1>t
          <5>2. jobRow'[j].phase = s /\ jobRow'[j].owner = jobRow[j].owner
            BY <4>2, <5>1 DEF JobType
          <5> QED BY <4>2, <5>2
        <4>8. (OwnSessions' <=> OwnSessions) /\ (CliDid' <=> CliDid)
          BY <4>3 DEF OwnSessions, CliDid
        <4>9. Replaced'
          <5>1. CASE s = "draining"
            <6>1. \A i \in Jobs : jobRow[i].phase \notin Late
              BY <4>2, <4>5, <5>1, <1>one, <1>k2
            <6> QED BY <6>1, <4>8, <1>re DEF Replaced
          <5>2. CASE s \in Late
            BY <4>2, <4>7, <5>2 DEF Replaced
          <5> QED BY <4>6, <5>1, <5>2
        <4>10. \A x \in Replicas \ {r} : at[x] \notin Back
          BY <4>2, <1>bo
        <4>11. \A x \in Replicas \ {r} : ~Half(x)' /\ (at[x] = "finish" => ~Owns(x)')
          <5>1. \A x \in Replicas \ {r} : at[x] \in Past => ~Owns(x)'
            BY <4>2, <4>3, <4>7, <1>ha, <1>k1, <1>one DEF Owns
          <5> QED BY <4>3, <5>1, <1>k1, <1>k3 DEF Half
        <4>12. ~Half(r)'
          BY <4>3, <4>5 DEF Half
        <4>13. at'[r] \in Past /\ at'[r] \notin Open /\ at'[r] \notin Serve /\ at'[r] \notin Back /\ at'[r] # "finish"
          BY <4>3, StageNames DEF Past, Alone, Open, Serve, Back
        <4> QED BY <4>1, <4>3, <4>8, <4>9, <4>10, <4>11, <4>12, <4>13, <1>sn, <1>ws, <1>g
      <3>2. CASE ~Owns(r)
        BY <2>14, <3>2, <1>a DEF UpdatePhase
      <3> QED BY <3>1, <3>2
    <2>15. ASSUME NEW s \in Stages, Repair(r, s) PROVE SoundInv'
      <3>1. /\ at[r] = s /\ s \in {"migrating", "purging_sessions", "verifying"} /\ UNCHANGED <<task, jobRow, request, offline>>
            /\ s = "verifying" => database.sessions # "archived"
        BY <2>15 DEF Repair
      <3>2. PICK p \in {"to purging_sessions", "to verifying", "finish"} : Go(r, p) /\ (p = "finish" => s = "verifying")
        BY <2>15, StageNames DEF Repair
      <3>3. at'[r] = p /\ \A x \in Replicas \ {r} : at'[x] = at[x]
        BY <3>2, <1>t DEF Go
      <3>4. /\ database.schema = "current" => database'.schema = "current"
            /\ OwnSessions => OwnSessions'
            /\ s = "verifying" => OwnSessions'
        <4>1. \/ database' = [database EXCEPT !.schema = "current"] /\ s # "verifying"
              \/ database' = [database EXCEPT !.sessions = "own"]
              \/ database' = database
          BY <2>15, <3>1 DEF Repair
        <4>2. database.sessions = "own" \/ database.sessions = "archived"
          BY <1>t DEF DatabaseType
        <4>3. CASE database' = [database EXCEPT !.schema = "current"] /\ s # "verifying"
          <5>1. database'.schema = "current" /\ database'.sessions = database.sessions
            BY <4>3, <1>t DEF DatabaseType
          <5> QED BY <4>3, <5>1 DEF OwnSessions
        <4>4. CASE database' = [database EXCEPT !.sessions = "own"]
          <5>1. database'.sessions = "own" /\ database'.schema = database.schema
            BY <4>4, <1>t DEF DatabaseType
          <5> QED BY <5>1 DEF OwnSessions
        <4>5. CASE database' = database
          BY <3>1, <4>2, <4>5 DEF OwnSessions
        <4> QED BY <4>1, <4>3, <4>4, <4>5
      <3>5. CliDid' <=> CliDid
        BY <3>1 DEF CliDid
      <3>6. Replaced'
        BY <3>1, <3>4, <3>5, <1>re DEF Replaced
      <3>7. \A x \in Replicas \ {r} : Half(x)' => (OwnSessions' \/ CliDid') /\ \A o \in Replicas : at'[o] # "restoring"
        <4> SUFFICES ASSUME NEW x \in Replicas \ {r}, Half(x)' PROVE (OwnSessions' \/ CliDid') /\ \A o \in Replicas : at'[o] # "restoring"
          OBVIOUS
        <4>1. Half(x)
          BY <3>1, <3>3 DEF Half, Owns
        <4> QED BY <4>1, <3>2, <3>3, <3>4, <3>5, <1>nr
      <3>8. at'[r] \in Past /\ at'[r] \notin Open /\ at'[r] \notin Serve /\ at'[r] \notin Back /\ ~Half(r)' /\ request[r] = None
        BY <3>1, <3>3, <1>nq DEF Past, Alone, Open, Serve, Back, Half
      <3>9. \A x \in Replicas \ {r} : at[x] = "finish" /\ Owns(x)' => OwnSessions'
        BY <3>1, <3>4, <1>fs DEF Owns
      <3>10. at'[r] = "finish" => OwnSessions'
        BY <3>2, <3>3, <3>4
      <3> QED BY <3>1, <3>3, <3>4, <3>6, <3>7, <3>8, <3>9, <3>10, <1>sn, <1>bo, <1>ws, <1>g
    <2> QED BY <1>1, <2>1, <2>2, <2>3, <2>4, <2>5, <2>6, <2>7, <2>8, <2>9, <2>10, <2>11, <2>12, <2>13, <2>14, <2>15 DEF Run
  <1>2. ASSUME NEW r \in Replicas, Answer(r) \/ BeginRequest(r) PROVE SoundInv'
    <2>1. UNCHANGED <<at, task, jobRow, database, offline>> /\ \A x \in Replicas \ {r} : request'[x] = request[x]
      BY <1>2, <1>t DEF Answer, EndRequest, SubmitDone, BeginRequest, leaseVars
    <2>2. request'[r] = None \/ at[r] = "serving"
      BY <1>2, <1>t DEF Answer, EndRequest, SubmitDone, BeginRequest
    <2>3. ServedByWorker'
      BY <2>1, <2>2, <1>sw DEF ServedByWorker, Serve
    <2> QED BY <2>1, <2>3 DEF SoundInv, SchemaNew, BackOver, Replaced, WorksSound, FinishSound, NothingToRepair, RecoverInside, OwnSessions, CliDid, Half, Owns
  <1>u. CASE UNCHANGED <<at, task, jobRow, database, offline, request>>
    BY <1>u DEF SoundInv, ServedByWorker, SchemaNew, BackOver, Replaced, WorksSound, FinishSound, NothingToRepair, RecoverInside, OwnSessions, CliDid, Half, Owns
  <1>3. ASSUME NEW r \in Replicas, LoseLease(r) PROVE SoundInv'
    BY <1>3 DEF LoseLease
  <1>s. ASSUME NEW r \in Replicas, SeeStale(r) PROVE SoundInv'
    <2>1. /\ at[r] = "wait" /\ UNCHANGED <<at, jobRow, request, database, offline>>
          /\ \A x \in Replicas \ {r} : task'[x] = task[x]
      BY <1>s, <1>t DEF SeeStale
    <2>2. task'[r].recovers = task[r].recovers
      <3>1. task'[r] = [task[r] EXCEPT !.phase = jobRow[task[r].job].phase] /\ task[r] \in TaskType
        BY <1>s, <1>t DEF SeeStale
      <3> QED BY <3>1 DEF TaskType
    <2>3. request'[r] = None /\ ~task[r].recovers /\ at[r] \notin Open /\ at[r] \notin Back /\ at[r] \notin Serve
      BY <2>1, <1>nq, <1>ri DEF Serve, Open, Back, Past, Alone
    <2>4. ~Half(r)' /\ at'[r] # "finish" /\ at'[r] # "restoring"
      BY <2>1 DEF Half
    <2> QED BY <2>1, <2>2, <2>3, <2>4, <1>m
  <1>4. ASSUME NEW r \in Replicas, Crash(r) PROVE SoundInv'
    BY <1>4, <1>a DEF Crash
  <1>5. ASSUME NEW j \in Jobs, GoesStale(j) \/ Beat(j) PROVE SoundInv'
    BY <1>5, <1>u DEF GoesStale, Beat, leaseVars
  <1>6. ASSUME NEW j \in Jobs, NEW r \in Replicas, SubmitInsert(r, j) PROVE SoundInv'
    <2>1. /\ UNCHANGED <<at, task, database, offline>> /\ jobRow[j].phase = "none" /\ at[r] = "serving"
          /\ \A x \in Replicas \ {r} : request'[x] = request[x]
      BY <1>6, <1>t DEF SubmitInsert, None
    <2>2. jobRow'[j].phase = "queued" /\ jobRow'[j].owner = r
      <3>1. jobRow' = [jobRow EXCEPT ![j] = [@ EXCEPT !.phase = "queued", !.owner = r]]
        BY <1>6 DEF SubmitInsert
      <3>2. jobRow[j] \in JobType /\ jobRow'[j] = [jobRow[j] EXCEPT !.phase = "queued", !.owner = r]
        BY <3>1, <1>t
      <3> QED BY <3>2 DEF JobType
    <2>3. (OwnSessions' <=> OwnSessions) /\ (CliDid' <=> CliDid)
      BY <2>1 DEF OwnSessions, CliDid
    <2>4. \A i \in Jobs : jobRow[i].phase \notin Late /\ jobRow[i].phase \notin Over
      BY <2>1, <1>one, <1>k2 DEF Over
    <2>5. Replaced'
      BY <2>3, <2>4, <1>re DEF Replaced
    <2>6. \A x \in Replicas : at[x] \notin Back
      BY <2>4, <1>bo
    <2>7. \A x \in Replicas : at[x] \in Past => ~Owns(x)'
      <3> SUFFICES ASSUME NEW x \in Replicas, at[x] \in Past PROVE ~Owns(x)'
        OBVIOUS
      <3>1. x # r
        BY <2>1, <1>k1 DEF Serve
      <3>2. task'[x].job = j
        BY <2>1, <1>ha, <1>k1, <1>one
      <3> QED BY <3>1, <3>2, <2>2 DEF Owns
    <2>8. \A x \in Replicas : ~Half(x)' /\ (at[x] = "finish" => ~Owns(x)')
      BY <2>1, <2>7, <1>k1, <1>k3 DEF Half
    <2>9. at[r] \in Serve /\ at[r] \in Open /\ at[r] \notin Past
      BY <2>1, <1>k1 DEF Serve
    <2> QED BY <2>1, <2>3, <2>5, <2>6, <2>8, <2>9, <1>sn, <1>ws, <1>ri, <1>g
  <1>7. CASE OfflineRestore
    <2>1. UNCHANGED <<at, task, jobRow, request>>
      BY <1>7 DEF OfflineRestore
    <2>2. \/ UNCHANGED database /\ ~CliDid /\ ~CliDid'
          \/ exclusive = "cli" /\ CliDid' /\ offline = "restore" /\ database' = Restored(Cli)
          \/ CliDid' /\ database' = [database EXCEPT !.schema = "current"]
          \/ database' = [database EXCEPT !.sessions = "own"]
      BY <1>7, <1>cl DEF OfflineRestore, OfflineStep, CliDid
    <2>3. CASE UNCHANGED database /\ ~CliDid /\ ~CliDid'
      <3>1. OwnSessions' <=> OwnSessions
        BY <2>3 DEF OwnSessions
      <3> QED BY <2>1, <2>3, <3>1 DEF SoundInv, ServedByWorker, SchemaNew, BackOver, Replaced, WorksSound, FinishSound, NothingToRepair, RecoverInside, Half, Owns
    <2>4. CASE exclusive = "cli" /\ CliDid' /\ offline = "restore" /\ database' = Restored(Cli)
      <3>1. sharers = {}
        BY <2>4, <1>la
      <3>2. \A x \in Replicas : at[x] \notin Open /\ at[x] \notin Serve /\ at[x] # "finish" /\ at[x] # "restoring"
        BY <2>4, <3>1, <1>sh, <1>al, <1>k1, <1>k3, <1>n
      <3> QED BY <2>1, <2>4, <3>2 DEF SoundInv, ServedByWorker, SchemaNew, BackOver, Replaced, WorksSound, FinishSound, NothingToRepair, RecoverInside
    <2>5. CASE CliDid' /\ database' = [database EXCEPT !.schema = "current"]
      <3>1. database'.schema = "current" /\ (OwnSessions' <=> OwnSessions)
        <4>1. database'.schema = "current" /\ database'.sessions = database.sessions
          BY <2>5, <1>t DEF DatabaseType
        <4> QED BY <4>1 DEF OwnSessions
      <3>2. \A x \in Replicas : Half(x)' => Half(x)
        BY <2>1 DEF Half, Owns
      <3> QED BY <2>1, <2>5, <3>1, <3>2, <1>nr DEF SoundInv, ServedByWorker, SchemaNew, BackOver, Replaced, WorksSound, FinishSound, NothingToRepair, RecoverInside, Owns
    <2>6. CASE database' = [database EXCEPT !.sessions = "own"]
      <3>1. OwnSessions' /\ database'.schema = database.schema
        <4>1. database'.sessions = "own" /\ database'.schema = database.schema
          BY <2>6, <1>t DEF DatabaseType
        <4> QED BY <4>1 DEF OwnSessions
      <3>2. \A x \in Replicas : Half(x)' => Half(x)
        BY <2>1 DEF Half, Owns
      <3> QED BY <2>1, <3>1, <3>2, <1>nr DEF SoundInv, ServedByWorker, SchemaNew, BackOver, Replaced, WorksSound, FinishSound, NothingToRepair, RecoverInside, Owns
    <2> QED BY <2>2, <2>3, <2>4, <2>5, <2>6
  <1> QED BY <1>1, <1>2, <1>3, <1>s, <1>4, <1>5, <1>6, <1>7 DEF RestoreNext

(* Whoever serves requests serves a database of the current schema with the sessions of *)
(* this installation, and nobody imports meanwhile (runWorkers, migrate, PurgeSessions), *)
(* for one job, any number of replicas, crashes and takeovers, while no lease session    *)
(* breaks and the offline command is not left half-way.                                  *)
THEOREM SoundWhileServing ==
  ~LeaseLoss /\ ~OfflineBreaks /\ (\A i, j \in Jobs : i = j) => (RestoreSpec => []ServesSoundDatabase)
  <1> SUFFICES ASSUME ~LeaseLoss, ~OfflineBreaks, \A i, j \in Jobs : i = j PROVE RestoreSpec => []ServesSoundDatabase
    OBVIOUS
  <1> DEFINE Inv == OutcomeInv /\ SoundInv
  <1>1. RestoreInit => Inv
    <2> SUFFICES ASSUME RestoreInit PROVE SoundInv
      BY OutcomeInit
    <2>1. \A r \in Replicas : at[r] = "down" /\ request[r] = None /\ task[r] = NoTask
      BY DEF RestoreInit
    <2>2. OwnSessions
      BY DEF RestoreInit, Sound, OwnSessions
    <2> QED BY <2>1, <2>2 DEF SoundInv, ServedByWorker, SchemaNew, BackOver, Replaced, WorksSound, FinishSound, NothingToRepair,
              RecoverInside, Half, NoTask, Open, Serve, Back
  <1>2. Inv /\ [RestoreNext]_restoreVars => Inv'
    <2> SUFFICES ASSUME OutcomeInv, SoundInv, [RestoreNext]_restoreVars PROVE SoundInv'
      BY OutcomeNext
    <2>1. CASE RestoreNext
      BY <2>1, SoundStep
    <2>2. CASE UNCHANGED restoreVars
      BY <2>2 DEF restoreVars, SoundInv, ServedByWorker, SchemaNew, BackOver, Replaced, WorksSound, FinishSound, NothingToRepair,
              RecoverInside, OwnSessions, CliDid, Half, Owns
    <2> QED BY <2>1, <2>2
  <1>3. Inv => ServesSoundDatabase
    <2> SUFFICES ASSUME OutcomeInv, SoundInv, NEW r \in Replicas, Working(r) \/ request[r] # None
                 PROVE  database.schema = "current" /\ database.sessions = "own" /\ ~\E o \in Replicas : at[o] = "restoring"
      BY DEF ServesSoundDatabase
    <2>1. at[r] \in Serve
      BY DEF SoundInv, ServedByWorker, Working, Serve
    <2>2. database.schema = "current" /\ database.sessions = "own"
      BY <2>1 DEF SoundInv, SchemaNew, WorksSound, Serve, Open, OwnSessions
    <2>3. r \in sharers /\ (exclusive # "none" => sharers = {}) /\ \A o \in Replicas : at[o] = "restoring" => exclusive = o
      BY <2>1 DEF OutcomeInv, LeaseInv, HoldsShared, LeaseAlone, HoldsAlone, Serve, Sharing, Alone, None
    <2>4. "none" \notin Replicas
      BY RestoreAssumption DEF None
    <2> QED BY <2>2, <2>3, <2>4
  <1> QED BY <1>1, <1>2, <1>3, PTL DEF RestoreSpec

-----------------------------------------------------------------------------
(* One restore at a time.                                                   *)

\* Two jobs are never under way at once, and whoever replaces the database is alone.
OneJob == \A i, j \in Active : i = j
OneJobInv == RestoreTyped /\ HasTask /\ OwnerInv /\ OneJob /\ LeaseAlone /\ faults \in 0 .. MaxFaults

\* A job that is under way was so before, unless none was.
StillOne == Active' \subseteq Active \/ (Active = {} /\ \E j \in Jobs : Active' \subseteq {j})

\* Where rows keep their phases, the same jobs are under way.
LEMMA SameActive ==
    ASSUME \A j \in Jobs : jobRow'[j].phase = jobRow[j].phase
    PROVE  StillOne
BY DEF StillOne, Active

\* The row of a job under way is written.
LEMMA ActiveWritten ==
    ASSUME NEW j \in Jobs, On(j), \A k \in Jobs \ {j} : jobRow'[k] = jobRow[k]
    PROVE  StillOne
BY DEF StillOne, Active, On, Terminal, None

\* The other jobs stay as they are through every step.
LEMMA JobsStay ==
    ASSUME RestoreTyped, HasTask, OwnerInv, RestoreNext
    PROVE  StillOne
<1>t. jobRow \in [Jobs -> JobType]
  BY DEF RestoreTyped
<1>b. \A r \in Replicas, s \in Stages : at[r] = To(s) => at[r] \in Busy
  BY StageNames DEF Busy, Inside, Alone
<1>1. ASSUME NEW r \in Replicas, Exit(r) PROVE StillOne
  BY <1>1, Exits, SameActive
<1>2. CASE UNCHANGED jobRow
  BY <1>2, SameActive
<1>3. ASSUME NEW r \in Replicas, ClaimRecovery(r) PROVE StillOne
  <2>1. r \in seen /\ at[r] = "wait"
    BY <1>3 DEF ClaimRecovery
  <2>2. PICK j \in Jobs : j = task[r].job /\ On(j)
    BY <2>1 DEF OwnerInv, SeenWaits, On
  <2>3. jobRow' = [jobRow EXCEPT ![j].owner = r, ![j].phase = "recovering"]
    BY <1>3, <2>2 DEF ClaimRecovery, Claimed
  <2>4. \A k \in Jobs \ {j} : jobRow'[k] = jobRow[k]
    BY <1>t, <2>3
  <2>. QED BY <2>2, <2>4, ActiveWritten
<1>4. ASSUME NEW r \in Replicas, NEW s \in Stages, UpdatePhase(r, s) PROVE StillOne
  <2>1. CASE ~Owns(r)
    BY <1>1, <1>4, <2>1 DEF UpdatePhase
  <2>2. CASE Owns(r)
    <3>1. at[r] = To(s)
      BY <1>4 DEF UpdatePhase
    <3>2. PICK j \in Jobs : j = task[r].job /\ On(j)
      BY <1>b, <2>2, <3>1 DEF OwnerInv, OwnersJobOn, On
    <3>3. jobRow' = [jobRow EXCEPT ![j].phase = s]
      BY <1>4, <2>2, <3>2 DEF UpdatePhase
    <3>4. \A k \in Jobs \ {j} : jobRow'[k] = jobRow[k]
      BY <1>t, <3>3
    <3>. QED BY <3>2, <3>4, ActiveWritten
  <2>. QED BY <2>1, <2>2
<1>5. ASSUME NEW r \in Replicas, RestoreFile(r) PROVE StillOne
  <2>1. CASE UNCHANGED jobRow
    BY <2>1, SameActive
  <2>2. CASE jobRow' = [jobRow EXCEPT ![task[r].job].touched = TRUE]
    <3>1. PICK j \in Jobs : j = task[r].job
      BY <1>5 DEF RestoreFile, HasTask, Inside, Alone
    <3>2. jobRow' = [jobRow EXCEPT ![j].touched = TRUE]
      BY <2>2, <3>1
    <3>3. \A k \in Jobs : jobRow'[k].phase = jobRow[k].phase
      BY <1>t, <3>2, RowWrites
    <3>. QED BY <3>3, SameActive
  <2>. QED BY <1>5, <2>1, <2>2 DEF RestoreFile
<1>6. ASSUME NEW r \in Replicas, Finish(r) PROVE StillOne
  <2>1. CASE ~Owns(r)
    BY <1>1, <1>6, <2>1 DEF Finish
  <2>2. CASE Owns(r)
    <3>1. at[r] \in Busy
      BY <1>6 DEF Finish, Busy, Inside, Alone
    <3>2. PICK j \in Jobs : j = task[r].job /\ On(j)
      BY <2>2, <3>1 DEF OwnerInv, OwnersJobOn, On
    <3>3. jobRow' = [jobRow EXCEPT ![j].phase = Outcome(task[r])]
      BY <1>6, <2>2, <3>2 DEF Finish
    <3>4. \A k \in Jobs \ {j} : jobRow'[k] = jobRow[k]
      BY <1>t, <3>3
    <3>. QED BY <3>2, <3>4, ActiveWritten
  <2>. QED BY <2>1, <2>2
<1>7. ASSUME NEW r \in Replicas, NEW j \in Jobs, SubmitInsert(r, j) PROVE StillOne
  <2>1. Active = {} /\ jobRow' = [jobRow EXCEPT ![j] = [@ EXCEPT !.phase = "queued", !.owner = r]]
    BY <1>7 DEF SubmitInsert
  <2>2. \A k \in Jobs \ {j} : jobRow'[k] = jobRow[k]
    BY <1>t, <2>1
  <2>. QED BY <2>1, <2>2 DEF StillOne, Active
<1>8. ASSUME NEW r \in Replicas, Run(r) PROVE StillOne
  <2>1. CASE Start(r) \/ AcquireApplicationLease(r) \/ Migrate(r) \/ Boot(r) \/ Notice(r) \/ FindOver(r) \/ SeeTerminal(r) \/ AcquireRestoreLease(r)
    BY <1>2, <2>1 DEF Start, AcquireApplicationLease, Migrate, Boot, Notice, FindOver, SeeTerminal, AcquireRestoreLease
  <2>2. CASE ReleaseApplicationLease(r) \/ Coordinate(r)
    BY <1>1, <1>2, <2>2 DEF ReleaseApplicationLease, Coordinate
  <2>3. ASSUME NEW s \in Stages, Repair(r, s) PROVE StillOne
    BY <1>2, <2>3 DEF Repair
  <2>. QED BY <1>3, <1>4, <1>5, <1>6, <1>8, <2>1, <2>2, <2>3 DEF Run
<1>9. ASSUME NEW r \in Replicas, Answer(r) \/ SeeStale(r) \/ BeginRequest(r) \/ Crash(r) \/ LoseLease(r) PROVE StillOne
  BY <1>1, <1>2, <1>9 DEF Answer, EndRequest, SubmitDone, SeeStale, BeginRequest, Crash, LoseLease
<1>10. ASSUME NEW j \in Jobs, GoesStale(j) \/ Beat(j) PROVE StillOne
  BY <1>2, <1>10 DEF GoesStale, Beat
<1>11. CASE OfflineRestore
  BY <1>2, <1>11 DEF OfflineRestore
<1>. QED BY <1>7, <1>8, <1>9, <1>10, <1>11 DEF RestoreNext

\* Leases are given back; the shared one is taken where nobody restores, the exclusive one
\* where nobody serves.
LeasesMove ==
    \/ sharers' \subseteq sharers /\ exclusive' \in {exclusive, None}
    \/ exclusive = None /\ exclusive' = None
    \/ sharers = {} /\ sharers' = {}
FaultsGrow == faults' = faults \/ (faults < MaxFaults /\ faults' = faults + 1)

LEMMA LeasesGo == ASSUME RestoreNext PROVE LeasesMove
<1>e. ASSUME NEW r \in Replicas, Exit(r) PROVE LeasesMove
  BY <1>e DEF Exit, LeasesMove
<1>u. CASE UNCHANGED leaseVars
  BY <1>u DEF leaseVars, LeasesMove
<1>1. ASSUME NEW r \in Replicas, Run(r) PROVE LeasesMove
  <2>1. CASE Start(r) \/ Migrate(r) \/ Boot(r) \/ Notice(r) \/ FindOver(r) \/ SeeTerminal(r) \/ ClaimRecovery(r) \/ RestoreFile(r)
    BY <1>u, <2>1 DEF Start, Migrate, Boot, Notice, FindOver, SeeTerminal, ClaimRecovery, RestoreFile
  <2>2. CASE AcquireApplicationLease(r) \/ AcquireRestoreLease(r)
    BY <2>2 DEF AcquireApplicationLease, SharedFree, AcquireRestoreLease, ExclusiveFree, LeasesMove
  <2>3. CASE ReleaseApplicationLease(r) \/ Coordinate(r)
    BY <1>e, <1>u, <2>3 DEF ReleaseApplicationLease, Coordinate, LeasesMove
  <2>4. CASE Finish(r)
    BY <1>e, <2>4 DEF Finish, LeasesMove
  <2>5. ASSUME NEW s \in Stages, UpdatePhase(r, s) \/ Repair(r, s) PROVE LeasesMove
    BY <1>e, <1>u, <2>5 DEF UpdatePhase, Repair
  <2>. QED BY <1>1, <2>1, <2>2, <2>3, <2>4, <2>5 DEF Run
<1>2. ASSUME NEW r \in Replicas, Answer(r) \/ SeeStale(r) \/ BeginRequest(r) PROVE LeasesMove
  BY <1>u, <1>2 DEF Answer, EndRequest, SubmitDone, SeeStale, BeginRequest
<1>3. ASSUME NEW r \in Replicas, Crash(r) \/ LoseLease(r) PROVE LeasesMove
  BY <1>e, <1>3 DEF Crash, LoseLease, LeasesMove
<1>4. ASSUME NEW j \in Jobs, GoesStale(j) \/ Beat(j) \/ \E r \in Replicas : SubmitInsert(r, j) PROVE LeasesMove
  BY <1>u, <1>4 DEF GoesStale, Beat, SubmitInsert
<1>5. CASE OfflineRestore
  BY <1>5 DEF OfflineRestore, OfflineStep, ExclusiveFree, LeasesMove
<1>. QED BY <1>1, <1>2, <1>3, <1>4, <1>5 DEF RestoreNext

LEMMA FaultsGo == ASSUME RestoreNext PROVE FaultsGrow
<1>u. CASE UNCHANGED faults
  BY <1>u DEF FaultsGrow
<1>1. ASSUME NEW r \in Replicas, Run(r) PROVE FaultsGrow
  <2>1. CASE Start(r) \/ AcquireApplicationLease(r) \/ Migrate(r) \/ Boot(r) \/ Notice(r) \/ FindOver(r) \/ SeeTerminal(r)
    BY <1>u, <2>1 DEF Start, AcquireApplicationLease, Migrate, Boot, Notice, FindOver, SeeTerminal
  <2>2. CASE ClaimRecovery(r) \/ RestoreFile(r) \/ AcquireRestoreLease(r) \/ Finish(r)
    BY <1>u, <2>2 DEF ClaimRecovery, RestoreFile, AcquireRestoreLease, Finish
  <2>3. CASE ReleaseApplicationLease(r) \/ Coordinate(r)
    BY <1>u, <2>3 DEF ReleaseApplicationLease, Coordinate
  <2>4. ASSUME NEW s \in Stages, UpdatePhase(r, s) \/ Repair(r, s) PROVE FaultsGrow
    BY <1>u, <2>4 DEF UpdatePhase, Repair
  <2>. QED BY <1>1, <2>1, <2>2, <2>3, <2>4 DEF Run
<1>2. ASSUME NEW r \in Replicas, Answer(r) \/ SeeStale(r) \/ BeginRequest(r) PROVE FaultsGrow
  BY <1>2 DEF Answer, EndRequest, SubmitDone, SeeStale, BeginRequest, FaultsGrow
<1>3. ASSUME NEW r \in Replicas, Crash(r) \/ LoseLease(r) PROVE FaultsGrow
  BY <1>3 DEF Crash, LoseLease, FaultsGrow
<1>4. ASSUME NEW j \in Jobs, GoesStale(j) \/ Beat(j) \/ \E r \in Replicas : SubmitInsert(r, j) PROVE FaultsGrow
  BY <1>4 DEF GoesStale, Beat, SubmitInsert, FaultsGrow
<1>5. CASE OfflineRestore
  BY <1>u, <1>5 DEF OfflineRestore
<1>. QED BY <1>1, <1>2, <1>3, <1>4, <1>5 DEF RestoreNext

LEMMA OneJobStep == OneJobInv /\ [RestoreNext]_restoreVars => OneJobInv'
<1>. SUFFICES ASSUME OneJobInv, [RestoreNext]_restoreVars PROVE OneJobInv'
  OBVIOUS
<1>1. CASE RestoreNext
  <2>1. RestoreTyped' /\ HasTask'
    BY <1>1, RestoreTypedStep DEF OneJobInv, OwnerInv
  <2>2. OwnerInv'
    BY <1>1, OwnerStep DEF OneJobInv
  <2>3. OneJob'
    BY <1>1, JobsStay DEF OneJobInv, OneJob, StillOne
  <2>4. LeaseAlone'
    BY <1>1, LeasesGo DEF OneJobInv, LeaseAlone, LeasesMove
  <2>5. faults' \in 0 .. MaxFaults
    BY <1>1, FaultsGo, RestoreAssumption DEF OneJobInv, FaultsGrow
  <2>. QED BY <2>1, <2>2, <2>3, <2>4, <2>5 DEF OneJobInv
<1>2. CASE UNCHANGED restoreVars
  BY <1>2 DEF restoreVars, OneJobInv, RestoreTyped, HasTask, OwnerInv, StaleActive, SeenWaits, WaitsForOther, OwnersJobOn,
       OwnerPhase, Unowned, On, Owns, OneJob, Active, LeaseAlone
<1>. QED BY <1>1, <1>2

(* One restore at a time: however often replicas crash, rows grow stale, answers or leases *)
(* are lost and jobs are claimed, at most one job is under way, whoever takes a step of    *)
(* a restore has a job, and the exclusive lease is never held next to a shared one         *)
(* (restore_jobs_one_active, AcquireRestoreLease, ClaimRecovery, UpdatePhase, Finish).     *)
THEOREM RestoreTypes == RestoreSpec => []RestoreTypeOK
<1>1. RestoreInit => OneJobInv
  <2>. SUFFICES ASSUME RestoreInit PROVE OneJobInv
    OBVIOUS
  <2>1. OutcomeInv
    BY OutcomeInit
  <2>2. Active = {}
    BY DEF RestoreInit, Active, Terminal
  <2>3. faults \in 0 .. MaxFaults
    BY RestoreAssumption DEF RestoreInit
  <2>. QED BY <2>1, <2>2, <2>3 DEF OneJobInv, OneJob, OutcomeInv, LeaseInv
<1>2. OneJobInv => RestoreTypeOK
  <2>. SUFFICES ASSUME OneJobInv PROVE RestoreTypeOK
    OBVIOUS
  <2>1. ASSUME NEW r \in Replicas
        PROVE  /\ at[r] \in Points
               /\ task[r].job \in Jobs \cup {None}
               /\ request[r] \in Jobs \cup {None, "request"}
               /\ at[r] \in Stages \cup { To(s) : s \in Stages } \cup {"finish"} => task[r].job # None
    <3>1. Stages \cup { To(s) : s \in Stages } \cup {"finish"} \subseteq Inside
      BY StageNames DEF Inside, Alone
    <3>2. at[r] \in Inside => task[r].job \in Jobs
      BY DEF OneJobInv, HasTask
    <3>3. None \notin Jobs
      BY RestoreAssumption
    <3>. QED BY <3>1, <3>2, <3>3 DEF OneJobInv, RestoreTyped, TaskType
  <2>2. Cardinality(Active) <= 1
    <3>1. PICK one : Active = {} \/ Active = {one}
      <4>1. \A i, j \in Active : i = j
        BY DEF OneJobInv, OneJob
      <4>2. ASSUME NEW j \in Active PROVE Active = {j}
        BY <4>1
      <4>. QED BY <4>2
    <3>2. Cardinality({}) = 0 /\ Cardinality({one}) = 1
      BY FS_EmptySet, FS_Singleton
    <3>. QED BY <3>1, <3>2
  <2>3. stale \subseteq Active
    <3>. SUFFICES ASSUME NEW j \in stale PROVE j \in Active
      OBVIOUS
    <3>. QED BY DEF OneJobInv, OwnerInv, StaleActive, On, Active, Terminal, None
  <2>. QED BY <2>1, <2>2, <2>3 DEF RestoreTypeOK, OneJobInv, LeaseAlone
<1>. QED BY <1>1, <1>2, OneJobStep, PTL DEF RestoreSpec

-----------------------------------------------------------------------------
(* Backups: a target in good standing keeps a verified archive.             *)

RunRow == [by : Agents, target : Targets, step : Steps, good : BOOLEAN]
WantRow == [target : Targets \cup {Nobody}, keep : [Targets -> Nat]]

\* The newest archive of a list was verified.
NewestGood(list) == Len(list) > 0 /\ list[Len(list)]
AnyGood(list) == \E i \in 1 .. Len(list) : list[i]

\* A run holds its target; what it calls good is the newest archive there, it prunes
\* only behind one, and an object it may delete is one nobody verified.
RunFits(h, r, lease, list) ==
    /\ lease = h
    /\ r.good => NewestGood(list) /\ r.step \in {"prune", "record"}
    /\ r.step = "prune" => r.good
    /\ r.step = "upload" => r.target = "s3"
    /\ r.step = "promote" => r.target = "volume"
    /\ r.step = "check" /\ r.target = "s3" => Len(list) > 0 /\ ~list[Len(list)]

BackupTyped ==
    /\ running \in [Hosts -> RunRow \cup {NoRun}]
    /\ leased \in [Targets -> Hosts \cup {Nobody}]
    /\ archives \in [Targets -> Seq(BOOLEAN)]
    /\ backupStatus \in [Targets -> [at : Nat, ok : BOOLEAN]]
    /\ retention \in [Targets -> Nat]
    /\ wants \in [Hosts -> [Agents -> WantRow]]
    /\ period \in Nat

RunsFit == \A h \in Hosts : running[h] # NoRun =>
    RunFits(h, running[h], leased[running[h].target], archives[running[h].target])

StandsGood == \A t \in Targets : backupStatus[t].ok => AnyGood(archives[t])

BackupInv == BackupTyped /\ RunsFit /\ StandsGood

-----------------------------------------------------------------------------
\* A list that grows by one.
LEMMA AppendOne ==
    ASSUME NEW s \in Seq(BOOLEAN), NEW x \in BOOLEAN
    PROVE  /\ Append(s, x) \in Seq(BOOLEAN) /\ Len(Append(s, x)) = Len(s) + 1
           /\ Append(s, x)[Len(s) + 1] = x
           /\ \A i \in 1 .. Len(s) : Append(s, x)[i] = s[i]
           /\ AnyGood(s) => AnyGood(Append(s, x))
           /\ x => NewestGood(Append(s, x))
<1>1. Len(s) \in Nat
  OBVIOUS
<1>2. /\ Append(s, x) \in Seq(BOOLEAN) /\ Len(Append(s, x)) = Len(s) + 1
      /\ Append(s, x)[Len(s) + 1] = x
      /\ \A i \in 1 .. Len(s) : Append(s, x)[i] = s[i]
  OBVIOUS
<1>. QED BY <1>1, <1>2 DEF AnyGood, NewestGood

\* A list that loses its newest archive.
LEMMA FrontOf ==
    ASSUME NEW s \in Seq(BOOLEAN), Len(s) > 0
    PROVE  /\ Front(s) \in Seq(BOOLEAN)
           /\ AnyGood(s) /\ ~s[Len(s)] => AnyGood(Front(s))
<1>1. PICK n \in Nat : n = Len(s) - 1 /\ Len(s) = n + 1
  OBVIOUS
<1>2. \A i \in 1 .. n : s[i] \in BOOLEAN
  BY <1>1
<1>3. /\ SubSeq(s, 1, n) \in Seq(BOOLEAN)
      /\ Len(SubSeq(s, 1, n)) = IF 1 <= n THEN n - 1 + 1 ELSE 0
      /\ \A i \in 1 .. n - 1 + 1 : SubSeq(s, 1, n)[i] = s[1 + i - 1]
  <2>1. 1 \in Int /\ n \in Int
    OBVIOUS
  <2>. QED BY <1>2, <2>1, SubSeqProperties
<1>4. Front(s) = SubSeq(s, 1, n)
  BY <1>1 DEF Front
<1>5. Front(s) \in Seq(BOOLEAN) /\ Len(Front(s)) = n /\ \A i \in 1 .. n : Front(s)[i] = s[i]
  BY <1>1, <1>3, <1>4
<1>. QED BY <1>1, <1>5 DEF AnyGood

\* A verified newest archive is a verified archive.
LEMMA NewestIsOne ==
    ASSUME NEW s \in Seq(BOOLEAN), NewestGood(s) PROVE AnyGood(s)
BY DEF NewestGood, AnyGood

\* Retention keeps the newest archive.
LEMMA PrunedKeepsNewest ==
    ASSUME NEW s \in Seq(BOOLEAN), NewestGood(s), NEW keep \in Nat, NEW t
    PROVE  Pruned(t, keep, s) \in Seq(BOOLEAN) /\ NewestGood(Pruned(t, keep, s))
<1>1. CASE keep = 0 \/ Len(s) <= keep
  BY <1>1 DEF Pruned
<1>2. CASE keep # 0 /\ Len(s) > keep
  <2>. DEFINE from == Len(s) - keep + 1  p == SubSeq(s, from, Len(s))
  <2>1. from \in 1 .. Len(s) /\ Len(s) \in Nat
    BY <1>2
  <2>2. Pruned(t, keep, s) = p
    BY <1>2 DEF Pruned
  <2>3. p \in Seq(BOOLEAN) /\ Len(p) = keep /\ \A i \in 1 .. keep : p[i] = s[from + i - 1]
    BY <2>1, <1>2
  <2>4. p[keep] = s[Len(s)]
    BY <2>1, <2>3, <1>2
  <2>5. NewestGood(p)
    <3>. HIDE DEF p
    <3>1. Len(p) > 0 /\ Len(p) = keep
      BY <1>2, <2>3
    <3>2. p[Len(p)]
      BY <2>4, <3>1 DEF NewestGood
    <3>. QED BY <3>1, <3>2 DEF NewestGood
  <2>. QED BY <2>2, <2>3, <2>5
<1>. QED BY <1>1, <1>2

-----------------------------------------------------------------------------
\* The inductive invariant holds at the start.
LEMMA BackupStart == BackupInit => BackupInv
<1>. SUFFICES ASSUME BackupInit PROVE BackupInv
  OBVIOUS
<1>1. NoRun \in RunRow \cup {NoRun} /\ Idle \in WantRow /\ FirstKeep \in Nat
  BY BackupAssumption DEF Idle, WantRow
<1>2. BackupTyped
  BY <1>1 DEF BackupInit, BackupTyped
<1>. QED BY <1>2 DEF BackupInit, BackupInv, RunsFit, StandsGood

\* A run is told by its step.
LEMMA RunKinds ==
    /\ NoRun \notin RunRow
    /\ \A h \in Hosts : \A s \in Steps : BackupTyped /\ At(h, s) => running[h] \in RunRow /\ running[h] # NoRun
<1>1. NoRun.step \notin Steps
  BY DEF NoRun, Steps
<1>2. \A r \in RunRow : r.step \in Steps
  BY DEF RunRow
<1>. QED BY <1>1, <1>2 DEF BackupTyped, At

\* Nothing happens to runs, leases and archives.
LEMMA RunsRest ==
    ASSUME BackupInv, UNCHANGED <<running, leased, archives, backupStatus>>
    PROVE  RunsFit' /\ StandsGood'
BY DEF BackupInv, RunsFit, StandsGood

\* A run goes on at its target, which nobody else runs at.
LEMMA OneRuns ==
    ASSUME BackupInv, NEW h \in Hosts, running[h] # NoRun, NEW t \in Targets, t = running[h].target,
           NEW r, running' = [running EXCEPT ![h] = r],
           r # NoRun => r.target = t /\ RunFits(h, r, leased'[t], archives'[t]),
           \A u \in Targets : u # t => leased'[u] = leased[u] /\ archives'[u] = archives[u]
    PROVE  RunsFit'
<1>1. running \in [Hosts -> RunRow \cup {NoRun}]
  BY DEF BackupInv, BackupTyped
<1>2. SUFFICES ASSUME NEW g \in Hosts, running'[g] # NoRun
      PROVE  RunFits(g, running'[g], leased'[running'[g].target], archives'[running'[g].target])
  BY DEF RunsFit
<1>3. CASE g = h
  <2>1. running'[g] = r
    BY <1>1, <1>3
  <2>. QED BY <1>2, <1>3, <2>1
<1>4. CASE g # h
  <2>1. running'[g] = running[g] /\ running[g] \in RunRow
    BY <1>1, <1>2, <1>4
  <2>2. RunFits(g, running[g], leased[running[g].target], archives[running[g].target])
    BY <1>2, <2>1 DEF BackupInv, RunsFit
  <2>3. leased[running[g].target] = g /\ leased[t] = h
    BY <2>2 DEF RunFits, BackupInv, RunsFit
  <2>4. running[g].target \in Targets /\ running[g].target # t
    BY <1>4, <2>1, <2>3 DEF RunRow
  <2>. QED BY <2>1, <2>2, <2>4
<1>. QED BY <1>3, <1>4

\* What Proceed and Fire write.
LEMMA ProceedTypes ==
    ASSUME BackupTyped, NEW h \in Hosts, NEW a \in Agents, NEW lastS3, Proceed(h, a, lastS3)
    PROVE  wants' \in [Hosts -> [Agents -> WantRow]]
<1>1. wants \in [Hosts -> [Agents -> WantRow]] /\ wants[h][a] \in WantRow
  BY DEF BackupTyped
<1>2. CASE wants' = [wants EXCEPT ![h][a].target = "s3"]
  <2>1. [wants[h][a] EXCEPT !.target = "s3"] \in WantRow
    BY <1>1 DEF WantRow, Targets
  <2>. QED BY <1>1, <1>2, <2>1
<1>3. CASE Fire(h, "s3", wants[h][a].keep)
  <2>1. [target |-> "s3", keep |-> wants[h][a].keep] \in WantRow
    BY <1>1 DEF WantRow, Targets
  <2>. QED BY <1>1, <1>3, <2>1 DEF Fire, Agents
<1>4. CASE wants' = [wants EXCEPT ![h][a] = Idle]
  <2>1. Idle \in WantRow
    BY DEF Idle, WantRow
  <2>. QED BY <1>1, <1>4, <2>1
<1>. QED BY <1>2, <1>3, <1>4 DEF Proceed

\* It is kept by the steps of a run.
LEMMA RunStepKeeps == ASSUME BackupInv, NEW h \in Hosts, RunStep(h) PROVE BackupInv'
<1>0. /\ running \in [Hosts -> RunRow \cup {NoRun}] /\ leased \in [Targets -> Hosts \cup {Nobody}]
      /\ archives \in [Targets -> Seq(BOOLEAN)] /\ backupStatus \in [Targets -> [at : Nat, ok : BOOLEAN]]
      /\ retention \in [Targets -> Nat] /\ wants \in [Hosts -> [Agents -> WantRow]] /\ period \in Nat
      /\ \A g \in Hosts : running[g] # NoRun => running[g] \in RunRow
      /\ Nobody \notin Hosts
  BY BackupAssumption DEF BackupInv, BackupTyped, Nobody
\* What a run writes about itself.
<1>r. ASSUME NEW s \in Steps, running[h] \in RunRow
      PROVE  /\ [running[h] EXCEPT !.step = s] \in RunRow
             /\ [running[h] EXCEPT !.step = s].step = s
             /\ [running[h] EXCEPT !.step = s].target = running[h].target
             /\ [running[h] EXCEPT !.step = s].good = running[h].good
  BY <1>r DEF RunRow
\* A step within a run: archives of its target may change, the leases do not.
<1>w. ASSUME NEW t \in Targets, t = running[h].target, running[h] \in RunRow, running[h] # NoRun,
             NEW r \in RunRow, r.target = t, running' = [running EXCEPT ![h] = r],
             archives' \in [Targets -> Seq(BOOLEAN)], \A u \in Targets : u # t => archives'[u] = archives[u],
             RunFits(h, r, h, archives'[t]),
             AnyGood(archives[t]) => AnyGood(archives'[t]),
             UNCHANGED <<hostVars, planVars, leased, backupStatus, retention, period>>
      PROVE  BackupInv'
  <2>1. leased[t] = h
    BY <1>w DEF BackupInv, RunsFit, RunFits
  <2>2. RunsFit'
    BY <1>w, <2>1, OneRuns
  <2>3. StandsGood'
    BY <1>w DEF BackupInv, StandsGood
  <2>4. running' \in [Hosts -> RunRow \cup {NoRun}]
    BY <1>0, <1>w
  <2>5. BackupTyped'
    BY <1>0, <1>w, <2>4 DEF BackupTyped, planVars
  <2>. QED BY <2>2, <2>3, <2>5 DEF BackupInv
\* The same where no archive changes.
<1>p. ASSUME NEW s \in Steps, running[h] \in RunRow, running[h] # NoRun, To_(h, s), UNCHANGED archives,
             UNCHANGED <<hostVars, planVars, leased, backupStatus, retention, period>>,
             s # "record" => running[h].step \in {"dump", "check"},
             \/ s = "record"
             \/ s = "check" /\ running[h].target = "volume"
             \/ s = "promote" /\ running[h].target = "volume"
             \/ s = "upload" /\ running[h].target = "s3"
      PROVE  BackupInv'
  <2>. DEFINE r == [running[h] EXCEPT !.step = s]
  <2>1. r \in RunRow /\ r.step = s /\ r.target = running[h].target /\ r.good = running[h].good
    BY <1>r, <1>p
  <2>2. running' = [running EXCEPT ![h] = r]
    BY <1>p DEF To_
  <2>. HIDE DEF r
  <2>3. running[h].target \in Targets
    BY <1>p DEF RunRow
  <2>4. RunFits(h, running[h], leased[running[h].target], archives[running[h].target])
    BY <1>p DEF BackupInv, RunsFit
  <2>5. RunFits(h, r, h, archives'[running[h].target])
    BY <1>p, <2>1, <2>4 DEF RunFits
  <2>. QED BY <1>0, <1>p, <1>w, <2>1, <2>2, <2>3, <2>5
<1>1. ASSUME NEW a \in Agents, AcquireRun(h, a) PROVE BackupInv'
  <2>1. CASE UNCHANGED <<leased, running>>
    <3>1. Proceed(h, a, backupStatus["s3"].at) \/ UNCHANGED <<wants, fired>>
      BY <1>1, <2>1 DEF AcquireRun
    <3>2. wants' \in [Hosts -> [Agents -> WantRow]]
      BY <1>0, <3>1, ProceedTypes DEF BackupInv
    <3>3. UNCHANGED <<archives, backupStatus, retention, period>>
      BY <1>1 DEF AcquireRun
    <3>4. BackupTyped'
      BY <1>0, <2>1, <3>2, <3>3 DEF BackupTyped
    <3>. QED BY <2>1, <3>3, <3>4, RunsRest DEF BackupInv
  <2>2. CASE /\ leased[wants[h][a].target] = Nobody
             /\ leased' = [leased EXCEPT ![wants[h][a].target] = h]
             /\ running' = [running EXCEPT ![h] = [by |-> a, target |-> wants[h][a].target, step |-> "dump", good |-> FALSE]]
             /\ UNCHANGED <<wants, fired>>
    <3>0. PICK t \in Targets : t = wants[h][a].target
      BY <1>0, <1>1 DEF AcquireRun, WantRow
    <3>. DEFINE r == [by |-> a, target |-> t, step |-> "dump", good |-> FALSE]
    <3>1. r \in RunRow /\ r.target = t /\ r.step = "dump" /\ ~r.good
      BY DEF RunRow, Steps
    <3>2. /\ leased[t] = Nobody /\ leased' = [leased EXCEPT ![t] = h] /\ running' = [running EXCEPT ![h] = r]
          /\ UNCHANGED <<wants, archives, backupStatus, retention, period>>
      BY <1>1, <2>2, <3>0 DEF AcquireRun
    <3>. HIDE DEF r
    <3>3. RunsFit'
      <4>1. SUFFICES ASSUME NEW g \in Hosts, running'[g] # NoRun
            PROVE  RunFits(g, running'[g], leased'[running'[g].target], archives'[running'[g].target])
        BY DEF RunsFit
      <4>2. CASE g = h
        BY <1>0, <3>1, <3>2, <4>2 DEF RunFits
      <4>3. CASE g # h
        <5>1. running'[g] = running[g] /\ RunFits(g, running[g], leased[running[g].target], archives[running[g].target])
          BY <1>0, <3>2, <4>1, <4>3 DEF BackupInv, RunsFit
        <5>2. running[g].target # t /\ running[g].target \in Targets
          BY <1>0, <3>2, <4>1, <5>1 DEF RunFits, RunRow
        <5>. QED BY <1>0, <3>2, <5>1, <5>2
      <4>. QED BY <4>2, <4>3
    <3>4. StandsGood'
      BY <3>2 DEF BackupInv, StandsGood
    <3>5. BackupTyped'
      BY <1>0, <3>1, <3>2 DEF BackupTyped
    <3>. QED BY <3>3, <3>4, <3>5 DEF BackupInv
  <2>. QED BY <1>1, <2>1, <2>2 DEF AcquireRun
<1>s. ASSUME NEW s \in Steps, At(h, s)
      PROVE  running[h] \in RunRow /\ running[h] # NoRun /\ running[h].target \in Targets /\ running[h].step = s
  <2>1. running[h] \in RunRow /\ running[h] # NoRun
    BY <1>s, RunKinds DEF BackupInv
  <2>. QED BY <1>s, <2>1 DEF RunRow, At
<1>f. ASSUME NEW s \in Steps, At(h, s)
      PROVE  RunFits(h, running[h], h, archives[running[h].target])
  BY <1>s, <1>f DEF BackupInv, RunsFit, RunFits
<1>k. {"dump", "upload", "check", "promote", "prune", "record"} = Steps
  BY DEF Steps
<1>2. CASE Dump(h)
  <2>1. running[h] \in RunRow /\ running[h] # NoRun /\ running[h].target \in Targets /\ running[h].step = "dump"
    BY <1>2, <1>s, <1>k DEF Dump
  <2>2. UNCHANGED <<hostVars, planVars, leased, archives, backupStatus, retention, period>>
    BY <1>2 DEF Dump
  <2>3. To_(h, "record") \/ To_(h, IF Volume(h) THEN "check" ELSE "upload")
    BY <1>2 DEF Dump
  <2>4. Volume(h) <=> running[h].target = "volume"
    BY DEF Volume
  <2>. QED BY <1>p, <1>k, <2>1, <2>2, <2>3, <2>4 DEF Targets
<1>3. CASE UploadS3File(h)
  <2>0. running[h] \in RunRow /\ running[h] # NoRun /\ running[h].step = "upload" /\ running[h].target = "s3"
    BY <1>3, <1>s, <1>f, <1>k DEF UploadS3File, RunFits
  <2>1. UNCHANGED <<hostVars, planVars, leased, backupStatus, retention, period>>
    BY <1>3 DEF UploadS3File
  <2>2. CASE To_(h, "record") /\ UNCHANGED archives
    BY <1>p, <1>k, <2>0, <2>1, <2>2
  <2>3. CASE archives' = [archives EXCEPT !["s3"] = Append(@, FALSE)] /\ To_(h, "check")
    <3>. DEFINE r == [running[h] EXCEPT !.step = "check"]  list == Append(archives["s3"], FALSE)
    <3>1. r \in RunRow /\ r.step = "check" /\ r.target = "s3" /\ r.good = running[h].good
      BY <1>r, <1>k, <2>0
    <3>2. running' = [running EXCEPT ![h] = r] /\ archives' = [archives EXCEPT !["s3"] = list] /\ "s3" \in Targets
      BY <2>3 DEF To_, Targets
    <3>3. /\ archives["s3"] \in Seq(BOOLEAN) /\ Len(archives["s3"]) \in Nat
          /\ list \in Seq(BOOLEAN) /\ Len(list) = Len(archives["s3"]) + 1 /\ ~list[Len(archives["s3"]) + 1]
          /\ AnyGood(archives["s3"]) => AnyGood(list)
      <4>1. archives["s3"] \in Seq(BOOLEAN) /\ FALSE \in BOOLEAN
        BY <1>0, <3>2
      <4>2. /\ list \in Seq(BOOLEAN) /\ Len(list) = Len(archives["s3"]) + 1
            /\ list[Len(archives["s3"]) + 1] = FALSE
            /\ AnyGood(archives["s3"]) => AnyGood(list)
        BY <4>1, AppendOne, Zenon
      <4>3. Len(archives["s3"]) \in Nat
        BY <4>1
      <4>. HIDE DEF list
      <4>. QED BY <4>1, <4>2, <4>3, Zenon
    <3>4. RunFits(h, running[h], h, archives["s3"])
      BY <1>f, <1>3, <1>k, <2>0 DEF UploadS3File
    <3>. HIDE DEF r, list
    <3>6. ~r.good
      BY <2>0, <3>1, <3>4 DEF RunFits
    <3>7. RunFits(h, r, h, list)
      BY <3>1, <3>3, <3>6 DEF RunFits
    <3>8. archives' \in [Targets -> Seq(BOOLEAN)] /\ archives'["s3"] = list /\ \A u \in Targets : u # "s3" => archives'[u] = archives[u]
      BY <1>0, <3>2, <3>3
    <3>. QED BY <1>w, <2>0, <2>1, <3>1, <3>2, <3>3, <3>7, <3>8
  <2>. QED BY <1>3, <2>2, <2>3 DEF UploadS3File
<1>4. CASE VerifyVolume(h)
  <2>0. running[h] \in RunRow /\ running[h] # NoRun /\ running[h].step = "check" /\ running[h].target = "volume"
    BY <1>4, <1>s, <1>k DEF VerifyVolume, Volume
  <2>1. UNCHANGED <<hostVars, planVars, leased, archives, backupStatus, retention, period>>
    BY <1>4 DEF VerifyVolume
  <2>2. To_(h, "promote") \/ To_(h, "record")
    BY <1>4 DEF VerifyVolume
  <2>. QED BY <1>p, <1>k, <2>0, <2>1, <2>2
\* A run that is behind its check: what it found is what it leaves.
<1>g. ASSUME NEW s \in {"prune", "record"}, NEW good \in BOOLEAN, NEW t \in Targets, t = running[h].target,
             running[h] \in RunRow, running[h] # NoRun,
             running' = [running EXCEPT ![h] = [running[h] EXCEPT !.step = s, !.good = good]],
             NEW list \in Seq(BOOLEAN), archives' = [archives EXCEPT ![t] = list],
             good => NewestGood(list), s = "prune" => good,
             AnyGood(archives[t]) => AnyGood(list),
             UNCHANGED <<hostVars, planVars, leased, backupStatus, retention, period>>
      PROVE  BackupInv'
  <2>. DEFINE r == [running[h] EXCEPT !.step = s, !.good = good]
  <2>1. r \in RunRow /\ r.step = s /\ r.target = t /\ r.good = good
    BY <1>g DEF RunRow, Steps
  <2>2. running' = [running EXCEPT ![h] = r]
    BY <1>g
  <2>. HIDE DEF r
  <2>3. RunFits(h, r, h, list)
    BY <1>g, <2>1 DEF RunFits
  <2>4. archives' \in [Targets -> Seq(BOOLEAN)] /\ archives'[t] = list /\ \A u \in Targets : u # t => archives'[u] = archives[u]
    BY <1>0, <1>g
  <2>. QED BY <1>g, <1>w, <2>1, <2>2, <2>3, <2>4
<1>5. CASE VerifyS3(h)
  <2>0. /\ running[h] \in RunRow /\ running[h] # NoRun /\ running[h].step = "check" /\ running[h].target = "s3"
        /\ RunFits(h, running[h], h, archives["s3"]) /\ "s3" \in Targets /\ archives["s3"] \in Seq(BOOLEAN)
    BY <1>0, <1>5, <1>s, <1>f, <1>k DEF VerifyS3, Volume, Targets
  <2>1. UNCHANGED <<hostVars, planVars, leased, backupStatus, retention, period>>
    BY <1>5 DEF VerifyS3
  <2>2. PICK n \in Nat : n = Len(archives["s3"]) /\ n > 0 /\ ~archives["s3"][n] /\ n \in 1 .. Len(archives["s3"])
    BY <2>0 DEF RunFits
  <2>3. ~running[h].good
    BY <2>0 DEF RunFits
  <2>4. CASE To_(h, "record") /\ UNCHANGED archives
    BY <1>p, <1>k, <2>0, <2>1, <2>4
  <2>5. CASE archives' = [archives EXCEPT !["s3"] = Front(@)] /\ To_(h, "record")
    <3>. DEFINE list == Front(archives["s3"])  r == [running[h] EXCEPT !.step = "record"]
    <3>1. list \in Seq(BOOLEAN) /\ (AnyGood(archives["s3"]) => AnyGood(list))
      BY <2>0, <2>2, FrontOf
    <3>2. r \in RunRow /\ r.step = "record" /\ r.target = "s3" /\ r.good = running[h].good /\ running' = [running EXCEPT ![h] = r]
      BY <1>r, <1>k, <2>0, <2>5 DEF To_
    <3>3. archives' = [archives EXCEPT !["s3"] = list]
      BY <2>5
    <3>. HIDE DEF list, r
    <3>4. archives' \in [Targets -> Seq(BOOLEAN)] /\ archives'["s3"] = list /\ \A u \in Targets : u # "s3" => archives'[u] = archives[u]
      BY <1>0, <2>0, <3>1, <3>3
    <3>5. RunFits(h, r, h, list)
      BY <2>3, <3>2 DEF RunFits
    <3>. QED BY <1>w, <2>0, <2>1, <3>1, <3>2, <3>4, <3>5
  <2>6. CASE /\ archives' = [archives EXCEPT !["s3"][Len(archives["s3"])] = TRUE]
             /\ running' = [running EXCEPT ![h].step = "prune", ![h].good = TRUE]
    <3>. DEFINE list == [archives["s3"] EXCEPT ![n] = TRUE]
    <3>1. list \in Seq(BOOLEAN) /\ Len(list) = n /\ list[n] /\ \A i \in 1 .. n : archives["s3"][i] => list[i]
      BY <2>0, <2>2
    <3>2. archives' = [archives EXCEPT !["s3"] = list]
      BY <2>2, <2>6
    <3>3. running' = [running EXCEPT ![h] = [running[h] EXCEPT !.step = "prune", !.good = TRUE]]
      BY <2>6
    <3>. HIDE DEF list
    <3>4. NewestGood(list) /\ (AnyGood(archives["s3"]) => AnyGood(list))
      BY <2>2, <3>1 DEF NewestGood, AnyGood
    <3>. QED BY <1>g, <2>0, <2>1, <3>1, <3>2, <3>3, <3>4
  <2>. QED BY <1>5, <2>4, <2>5, <2>6 DEF VerifyS3
<1>6. CASE Promote(h)
  <2>0. /\ running[h] \in RunRow /\ running[h] # NoRun /\ running[h].step = "promote" /\ running[h].target = "volume"
        /\ "volume" \in Targets /\ archives["volume"] \in Seq(BOOLEAN)
    BY <1>0, <1>6, <1>s, <1>f, <1>k DEF Promote, RunFits, Targets
  <2>1. UNCHANGED <<hostVars, planVars, leased, backupStatus, retention, period>>
    BY <1>6 DEF Promote
  <2>2. CASE To_(h, "record") /\ UNCHANGED archives
    BY <1>p, <1>k, <2>0, <2>1, <2>2
  <2>3. CASE /\ archives' = [archives EXCEPT !["volume"] = Append(@, TRUE)]
             /\ running' = [running EXCEPT ![h].step = "prune", ![h].good = TRUE]
    <3>. DEFINE list == Append(archives["volume"], TRUE)
    <3>1. list \in Seq(BOOLEAN) /\ NewestGood(list) /\ (AnyGood(archives["volume"]) => AnyGood(list))
      BY <2>0, AppendOne
    <3>2. archives' = [archives EXCEPT !["volume"] = list]
      BY <2>3
    <3>3. running' = [running EXCEPT ![h] = [running[h] EXCEPT !.step = "prune", !.good = TRUE]]
      BY <2>3
    <3>. HIDE DEF list
    <3>. QED BY <1>g, <2>0, <2>1, <3>1, <3>2, <3>3
  <2>. QED BY <1>6, <2>2, <2>3 DEF Promote
<1>7. CASE Prune(h)
  <2>0. PICK t \in Targets : /\ t = running[h].target /\ running[h] \in RunRow /\ running[h] # NoRun /\ running[h].step = "prune"
                             /\ RunFits(h, running[h], h, archives[t]) /\ archives[t] \in Seq(BOOLEAN)
    BY <1>0, <1>7, <1>s, <1>f, <1>k DEF Prune
  <2>1. UNCHANGED <<hostVars, planVars, leased, backupStatus, retention, period>> /\ To_(h, "record")
    BY <1>7 DEF Prune
  <2>2. CASE UNCHANGED archives
    BY <1>p, <1>k, <2>0, <2>1, <2>2
  <2>3. CASE archives' = [archives EXCEPT ![t] = Pruned(t, wants[h][running[h].by].keep[t], @)]
    <3>0. PICK keep \in Nat : keep = wants[h][running[h].by].keep[t]
      BY <1>0, <2>0 DEF RunRow, WantRow
    <3>. DEFINE list == Pruned(t, keep, archives[t])  r == [running[h] EXCEPT !.step = "record"]
    <3>1. running[h].good /\ NewestGood(archives[t])
      BY <2>0 DEF RunFits
    <3>2. list \in Seq(BOOLEAN) /\ NewestGood(list)
      BY <2>0, <3>1, PrunedKeepsNewest
    <3>3. AnyGood(list)
      BY <3>2, NewestIsOne
    <3>4. r \in RunRow /\ r.step = "record" /\ r.target = t /\ r.good = running[h].good /\ running' = [running EXCEPT ![h] = r]
      BY <1>r, <1>k, <2>0, <2>1 DEF To_
    <3>5. archives' = [archives EXCEPT ![t] = list]
      BY <2>3, <3>0
    <3>. HIDE DEF list, r
    <3>6. archives' \in [Targets -> Seq(BOOLEAN)] /\ archives'[t] = list /\ \A u \in Targets : u # t => archives'[u] = archives[u]
      BY <1>0, <3>2, <3>5
    <3>7. RunFits(h, r, h, list)
      BY <3>2, <3>4 DEF RunFits
    <3>. QED BY <1>w, <2>0, <2>1, <3>3, <3>4, <3>6, <3>7
  <2>. QED BY <1>7, <2>0, <2>2, <2>3 DEF Prune
<1>8. CASE Record(h)
  <2>0. PICK t \in Targets : /\ t = running[h].target /\ running[h] \in RunRow /\ running[h] # NoRun
                             /\ RunFits(h, running[h], h, archives[t]) /\ archives[t] \in Seq(BOOLEAN)
    BY <1>0, <1>8, <1>s, <1>f, <1>k DEF Record
  <2>1. /\ leased' = [leased EXCEPT ![t] = Nobody] /\ running' = [running EXCEPT ![h] = NoRun]
        /\ UNCHANGED <<archives, retention, period>>
        /\ \/ backupStatus' = [backupStatus EXCEPT ![t] = [at |-> period, ok |-> running[h].good]]
           \/ UNCHANGED backupStatus
    BY <1>8, <2>0 DEF Record, OutcomeOf
  <2>2. PICK a \in Agents : a = running[h].by
    BY <2>0 DEF RunRow
  <2>3. PICK last : last = backupStatus'["s3"].at
    OBVIOUS
  <2>4. Proceed(h, a, last)
    BY <1>8, <2>2, <2>3 DEF Record
  <2>5. wants' \in [Hosts -> [Agents -> WantRow]]
    BY <2>4, ProceedTypes DEF BackupInv
  <2>6. RunsFit'
    BY <1>0, <2>0, <2>1, OneRuns
  <2>7. StandsGood'
    <3>1. running[h].good => AnyGood(archives[t])
      BY <2>0, NewestIsOne DEF RunFits
    <3>2. \A u \in Targets : backupStatus[u].ok => AnyGood(archives[u])
      BY DEF BackupInv, StandsGood
    <3>3. archives' = archives
      BY <2>1
    <3>4. CASE UNCHANGED backupStatus
      BY <3>2, <3>3, <3>4 DEF StandsGood, AnyGood
    <3>5. CASE backupStatus' = [backupStatus EXCEPT ![t] = [at |-> period, ok |-> running[h].good]]
      <4>1. backupStatus'[t].ok = running[h].good /\ \A u \in Targets : u # t => backupStatus'[u] = backupStatus[u]
        BY <1>0, <3>5
      <4>2. ASSUME NEW u \in Targets, backupStatus'[u].ok PROVE AnyGood(archives[u])
        BY <3>1, <3>2, <4>1, <4>2
      <4>. QED BY <3>3, <4>2 DEF StandsGood, AnyGood
    <3>. QED BY <2>1, <3>4, <3>5
  <2>8. running[h].good \in BOOLEAN
    BY <2>0 DEF RunRow
  <2>10. ASSUME NEW good \in BOOLEAN PROVE [at |-> period, ok |-> good] \in [at : Nat, ok : BOOLEAN]
    BY <1>0
  <2>11. [at |-> period, ok |-> running[h].good] \in [at : Nat, ok : BOOLEAN]
    BY <2>8, <2>10, Zenon
  <2>. DEFINE new == [at |-> period, ok |-> running[h].good]
  <2>12. new \in [at : Nat, ok : BOOLEAN] /\ (backupStatus' = [backupStatus EXCEPT ![t] = new] \/ UNCHANGED backupStatus)
    BY <2>1, <2>11
  <2>. HIDE DEF new
  <2>13. backupStatus' \in [Targets -> [at : Nat, ok : BOOLEAN]]
    BY <1>0, <2>12
  <2>9. BackupTyped'
    BY <1>0, <2>1, <2>5, <2>13 DEF BackupTyped
  <2>. QED BY <2>6, <2>7, <2>9 DEF BackupInv
<1>. QED BY <1>1, <1>2, <1>3, <1>4, <1>5, <1>6, <1>7, <1>8 DEF RunStep

\* It is kept by crashes.
LEMMA GoneKeeps == ASSUME BackupInv, NEW h \in Hosts, Gone_(h) PROVE BackupInv'
<1>0. /\ running \in [Hosts -> RunRow \cup {NoRun}] /\ leased \in [Targets -> Hosts \cup {Nobody}]
      /\ wants \in [Hosts -> [Agents -> WantRow]]
  BY DEF BackupInv, BackupTyped
<1>1. /\ running' = [running EXCEPT ![h] = NoRun]
      /\ leased' = [t \in Targets |-> IF leased[t] = h THEN Nobody ELSE leased[t]]
      /\ wants' = [wants EXCEPT ![h] = [a \in Agents |-> Idle]]
      /\ UNCHANGED <<archives, backupStatus, retention, period>>
  BY DEF Gone_
<1>2. Idle \in WantRow
  BY DEF Idle, WantRow
<1>3. BackupTyped'
  <2>1. wants' \in [Hosts -> [Agents -> WantRow]]
    BY <1>0, <1>1, <1>2
  <2>2. leased' \in [Targets -> Hosts \cup {Nobody}] /\ running' \in [Hosts -> RunRow \cup {NoRun}]
    BY <1>0, <1>1
  <2>. QED BY <1>1, <2>1, <2>2 DEF BackupInv, BackupTyped
<1>4. RunsFit'
  <2>1. SUFFICES ASSUME NEW g \in Hosts, running'[g] # NoRun
        PROVE  RunFits(g, running'[g], leased'[running'[g].target], archives'[running'[g].target])
    BY DEF RunsFit
  <2>2. g # h /\ running'[g] = running[g] /\ running[g] \in RunRow
    BY <1>0, <1>1, <2>1
  <2>3. RunFits(g, running[g], leased[running[g].target], archives[running[g].target])
    BY <2>1, <2>2 DEF BackupInv, RunsFit
  <2>4. leased'[running[g].target] = leased[running[g].target]
    BY <1>1, <2>2, <2>3 DEF RunFits, RunRow
  <2>. QED BY <1>1, <2>2, <2>3, <2>4
<1>5. StandsGood'
  BY <1>1 DEF BackupInv, StandsGood
<1>. QED BY <1>3, <1>4, <1>5 DEF BackupInv

\* It is kept by every step.
LEMMA BackupStep == BackupInv /\ [BackupNext]_backupVars => BackupInv'
<1>. SUFFICES ASSUME BackupInv, [BackupNext]_backupVars PROVE BackupInv'
  OBVIOUS
<1>0. /\ running \in [Hosts -> RunRow \cup {NoRun}] /\ leased \in [Targets -> Hosts \cup {Nobody}]
      /\ archives \in [Targets -> Seq(BOOLEAN)] /\ backupStatus \in [Targets -> [at : Nat, ok : BOOLEAN]]
      /\ retention \in [Targets -> Nat] /\ wants \in [Hosts -> [Agents -> WantRow]] /\ period \in Nat
      /\ Retentions \subseteq Nat /\ Desks \subseteq Hosts
  BY BackupAssumption DEF BackupInv, BackupTyped
\* Steps outside a run.
<1>q. ASSUME UNCHANGED <<running, leased, archives, backupStatus>>, retention' \in [Targets -> Nat], period' \in Nat,
             wants' \in [Hosts -> [Agents -> WantRow]]
      PROVE  BackupInv'
  <2>1. BackupTyped'
    BY <1>0, <1>q DEF BackupTyped
  <2>. QED BY <1>q, <2>1, RunsRest DEF BackupInv
<1>1. ASSUME NEW h \in Hosts, SchedulerTick(h) PROVE BackupInv'
  <2>1. PICK t \in {"volume", "s3"} : Fire(h, t, retention)
    BY <1>1 DEF SchedulerTick
  <2>2. [target |-> t, keep |-> retention] \in WantRow
    BY <1>0 DEF WantRow, Targets
  <2>3. wants' \in [Hosts -> [Agents -> WantRow]]
    BY <1>0, <2>1, <2>2 DEF Fire, Agents
  <2>. QED BY <1>0, <1>1, <1>q, <2>3 DEF SchedulerTick
<1>2. ASSUME NEW h \in Hosts, RunStep(h) PROVE BackupInv'
  BY <1>2, RunStepKeeps
<1>3. ASSUME NEW h \in Hosts, Drained_(h) \/ Kill(h) PROVE BackupInv'
  BY <1>3, GoneKeeps DEF Drained_, Kill
<1>4. ASSUME NEW h \in Hosts, StartScheduler(h) \/ Halt(h) PROVE BackupInv'
  BY <1>0, <1>4, <1>q DEF StartScheduler, Halt, planVars
<1>5. ASSUME NEW h \in Desks, RunScheduledBackup(h) PROVE BackupInv'
  <2>1. [target |-> "volume", keep |-> retention] \in WantRow
    BY <1>0 DEF WantRow, Targets
  <2>2. wants' \in [Hosts -> [Agents -> WantRow]]
    BY <1>0, <1>5, <2>1 DEF RunScheduledBackup, Agents
  <2>. QED BY <1>0, <1>5, <1>q, <2>2 DEF RunScheduledBackup
<1>6. ASSUME NEW k \in Retentions, SaveBackupSchedule(k) PROVE BackupInv'
  BY <1>0, <1>6, <1>q DEF SaveBackupSchedule
<1>7. CASE ScheduleAdvances
  BY <1>0, <1>7, <1>q DEF ScheduleAdvances, planVars
<1>8. CASE UNCHANGED backupVars
  BY <1>0, <1>8, <1>q DEF backupVars
<1>. QED BY <1>1, <1>2, <1>3, <1>4, <1>5, <1>6, <1>7, <1>8 DEF BackupNext, Plan

(* A target whose last run is reported as good lists a verified archive, whatever *)
(* retention, failure, halt or crash came in between (RunVolume, RunS3, pruneDir,   *)
(* PruneS3): a run prunes only behind an archive it has verified, deletes only the    *)
(* object it brought itself, and nobody else works at its target.                      *)
THEOREM GoodStandLasts == BackupSpec => []GoodStandRemains
<1>1. BackupInv => GoodStandRemains
  <2>. SUFFICES ASSUME BackupInv, NEW t \in Targets, backupStatus[t].ok PROVE Good(t) # {}
    BY DEF GoodStandRemains
  <2>1. AnyGood(archives[t]) /\ archives[t] \in Seq(BOOLEAN)
    BY DEF BackupInv, StandsGood, BackupTyped
  <2>. QED BY <2>1 DEF AnyGood, Good
<1>. QED BY <1>1, BackupStart, BackupStep, PTL DEF BackupSpec

-----------------------------------------------------------------------------
(* The shared directory: one run at a time, and room for what it writes.    *)

\* A run that has something to check or to rename has its file in the directory.
HasFile(r) == r.target = "volume" /\ r.step \in {"check", "promote"}
AllVerified(list) == \A i \in 1 .. Len(list) : list[i]

\* Together with what is finished, the files of runs never outgrow the directory, which
\* shows verified archives only; a process that is told to stop runs.
RoomKept ==
    /\ alive \subseteq Hosts /\ halting \subseteq alive
    /\ retention \in [Targets -> Retentions]
    /\ parts \in Nat /\ parts + Len(archives["volume"]) <= Space
    /\ AllVerified(archives["volume"])
    /\ \A h \in Hosts : running[h] # NoRun /\ HasFile(running[h]) => parts > 0

RoomInv == BackupInv /\ RoomKept

\* What is pruned is part of what was there.
LEMMA PrunedIsPart ==
    ASSUME NEW s \in Seq(BOOLEAN), NEW keep \in Nat, NEW t
    PROVE  /\ Pruned(t, keep, s) \in Seq(BOOLEAN) /\ Len(Pruned(t, keep, s)) <= Len(s)
           /\ AllVerified(s) => AllVerified(Pruned(t, keep, s))
<1>1. CASE keep = 0 \/ Len(s) <= keep
  BY <1>1 DEF Pruned
<1>2. CASE keep # 0 /\ Len(s) > keep
  <2>. DEFINE from == Len(s) - keep + 1  p == SubSeq(s, from, Len(s))
  <2>1. from \in 1 .. Len(s) /\ Len(s) \in Nat
    BY <1>2
  <2>2. Pruned(t, keep, s) = p
    BY <1>2 DEF Pruned
  <2>3. p \in Seq(BOOLEAN) /\ Len(p) = keep /\ \A i \in 1 .. keep : p[i] = s[from + i - 1]
    BY <2>1, <1>2
  <2>4. \A i \in 1 .. keep : from + i - 1 \in 1 .. Len(s)
    BY <2>1, <1>2
  <2>5. AllVerified(s) => AllVerified(p)
    <3>. HIDE DEF p
    <3>. QED BY <2>3, <2>4 DEF AllVerified
  <2>6. Len(p) <= Len(s)
    <3>. HIDE DEF p
    <3>. QED BY <1>2, <2>1, <2>3
  <2>. QED BY <2>2, <2>3, <2>5, <2>6
<1>. QED BY <1>1, <1>2

\* A step that leaves the directory alone.
LEMMA RoomRests ==
    ASSUME RoomInv, UNCHANGED <<alive, halting, parts, retention>>, archives'["volume"] = archives["volume"],
           \A h \in Hosts : running'[h] # NoRun /\ HasFile(running'[h]) => running[h] # NoRun /\ HasFile(running[h])
    PROVE  RoomKept'
BY DEF RoomInv, RoomKept

\* The step of a run, and what it writes about the run.
LEMMA RunWrites ==
    ASSUME BackupTyped, NEW h \in Hosts, running[h] \in RunRow
    PROVE  /\ \A s \in Steps : To_(h, s) =>
                /\ running'[h].step = s /\ running'[h].target = running[h].target
                /\ \A g \in Hosts \ {h} : running'[g] = running[g]
           /\ \A s \in Steps : running' = [running EXCEPT ![h].step = s, ![h].good = TRUE] =>
                /\ running'[h].step = s /\ running'[h].target = running[h].target
                /\ \A g \in Hosts \ {h} : running'[g] = running[g]
<1>1. ASSUME NEW s \in Steps, To_(h, s)
      PROVE  /\ running'[h].step = s /\ running'[h].target = running[h].target
             /\ \A g \in Hosts \ {h} : running'[g] = running[g]
  <2>1. running'[h] = [running[h] EXCEPT !.step = s] /\ \A g \in Hosts \ {h} : running'[g] = running[g]
    BY <1>1 DEF To_, BackupTyped
  <2>. QED BY <2>1 DEF RunRow
<1>2. ASSUME NEW s \in Steps, running' = [running EXCEPT ![h].step = s, ![h].good = TRUE]
      PROVE  /\ running'[h].step = s /\ running'[h].target = running[h].target
             /\ \A g \in Hosts \ {h} : running'[g] = running[g]
  <2>1. running'[h] = [running[h] EXCEPT !.step = s, !.good = TRUE] /\ \A g \in Hosts \ {h} : running'[g] = running[g]
    BY <1>2 DEF BackupTyped
  <2>. QED BY <2>1 DEF RunRow
<1>. QED BY <1>1, <1>2

\* The room is kept by the steps of a run.
LEMMA RunStepFits == ASSUME RoomInv, NEW h \in Hosts, RunStep(h) PROVE RoomKept'
<1>0. /\ running \in [Hosts -> RunRow \cup {NoRun}] /\ archives \in [Targets -> Seq(BOOLEAN)]
      /\ wants \in [Hosts -> [Agents -> WantRow]] /\ BackupTyped /\ BackupInv /\ RoomKept
      /\ Space \in Nat /\ parts \in Nat /\ "volume" \in Targets /\ "s3" \in Targets
  BY BackupAssumption DEF RoomInv, RoomKept, BackupInv, BackupTyped, Targets
<1>v. archives["volume"] \in Seq(BOOLEAN) /\ Len(archives["volume"]) \in Nat
  BY <1>0
<1>k. {"dump", "upload", "check", "promote", "prune", "record"} = Steps
  BY DEF Steps
<1>s. ASSUME NEW s \in Steps, At(h, s)
      PROVE  /\ running[h] \in RunRow /\ running[h] # NoRun /\ running[h].target \in Targets /\ running[h].step = s
             /\ RunFits(h, running[h], leased[running[h].target], archives[running[h].target])
  <2>1. running[h] \in RunRow /\ running[h] # NoRun
    BY <1>0, <1>s, RunKinds
  <2>. QED BY <1>0, <1>s, <2>1 DEF RunRow, At, BackupInv, RunsFit
\* Nobody else has a file while this run is at the volume.
<1>o. ASSUME running[h] # NoRun, running[h].target = "volume", NEW g \in Hosts \ {h}, running[g] # NoRun
      PROVE  running[g].target # "volume"
  BY <1>0, <1>o DEF BackupInv, RunsFit, RunFits
\* A step within a run that ends at a step without a file of its own.
<1>e. ASSUME UNCHANGED <<alive, halting, parts, retention>>, archives'["volume"] = archives["volume"],
             NEW s \in Steps, running'[h].step = s, ~HasFile(running'[h]),
             \A g \in Hosts \ {h} : running'[g] = running[g]
      PROVE  RoomKept'
  BY <1>0, <1>e, RoomRests
<1>1. ASSUME NEW a \in Agents, AcquireRun(h, a) PROVE RoomKept'
  <2>1. UNCHANGED <<alive, halting, parts, retention, archives>>
    BY <1>1 DEF AcquireRun, hostVars
  <2>2. CASE UNCHANGED running
    BY <2>1, <2>2, RoomRests
  <2>3. CASE running' = [running EXCEPT ![h] = [by |-> a, target |-> wants[h][a].target, step |-> "dump", good |-> FALSE]]
    <3>1. running'[h].step = "dump" /\ \A g \in Hosts \ {h} : running'[g] = running[g]
      BY <1>0, <2>3
    <3>2. ~HasFile(running'[h])
      BY <3>1 DEF HasFile
    <3>. QED BY <1>e, <1>k, <2>1, <3>1, <3>2
  <2>. QED BY <1>1, <2>2, <2>3 DEF AcquireRun
<1>2. CASE Dump(h)
  <2>1. /\ running[h] \in RunRow /\ running[h] # NoRun
        /\ UNCHANGED <<alive, halting, retention, archives>>
    BY <1>2, <1>s, <1>k DEF Dump, hostVars
  <2>2. CASE To_(h, "record") /\ UNCHANGED parts
    <3>1. running'[h].step = "record" /\ \A g \in Hosts \ {h} : running'[g] = running[g]
      BY <1>0, <1>k, <2>1, <2>2, RunWrites
    <3>2. ~HasFile(running'[h])
      BY <3>1 DEF HasFile
    <3>. QED BY <1>e, <1>k, <2>1, <2>2, <3>1, <3>2
  <2>3. CASE ~Volume(h) /\ UNCHANGED parts /\ To_(h, "upload")
    <3>1. running'[h].step = "upload" /\ \A g \in Hosts \ {h} : running'[g] = running[g]
      BY <1>0, <1>k, <2>1, <2>3, RunWrites
    <3>2. ~HasFile(running'[h])
      BY <3>1 DEF HasFile
    <3>. QED BY <1>e, <1>k, <2>1, <2>3, <3>1, <3>2
  <2>4. CASE Volume(h) /\ parts + Len(archives["volume"]) < Space /\ parts' = parts + 1
    <3>1. parts' \in Nat /\ parts' > 0 /\ parts' + Len(archives["volume"]) <= Space
      BY <1>0, <1>v, <2>4
    <3>. QED BY <1>0, <2>1, <3>1 DEF RoomKept
  <2>. QED BY <1>2, <2>2, <2>3, <2>4 DEF Dump
<1>3. CASE UploadS3File(h)
  <2>1. /\ running[h] \in RunRow /\ running[h].target = "s3"
        /\ UNCHANGED <<alive, halting, retention, parts>>
    BY <1>3, <1>s, <1>k DEF UploadS3File, hostVars, RunFits
  <2>2. archives'["volume"] = archives["volume"]
    BY <1>0, <1>3 DEF UploadS3File
  <2>3. PICK s \in {"check", "record"} : To_(h, s)
    BY <1>3 DEF UploadS3File
  <2>4. running'[h].step = s /\ running'[h].target = "s3" /\ \A g \in Hosts \ {h} : running'[g] = running[g]
    BY <1>0, <1>k, <2>1, <2>3, RunWrites
  <2>. QED BY <1>e, <1>k, <2>1, <2>2, <2>4 DEF HasFile
<1>4. CASE VerifyVolume(h)
  <2>1. /\ running[h] \in RunRow /\ running[h] # NoRun /\ running[h].step = "check" /\ running[h].target = "volume"
        /\ UNCHANGED <<alive, halting, retention, archives>> /\ parts' = 1
    BY <1>4, <1>s, <1>k DEF VerifyVolume, hostVars, Volume
  <2>2. parts > 0
    BY <1>0, <2>1 DEF RoomKept, HasFile
  <2>3. parts' \in Nat /\ parts' > 0 /\ parts' + Len(archives["volume"]) <= Space
    BY <1>0, <1>v, <2>1, <2>2 DEF RoomKept
  <2>. QED BY <1>0, <2>1, <2>3 DEF RoomKept
<1>5. CASE VerifyS3(h)
  <2>1. /\ running[h] \in RunRow /\ running[h].target = "s3"
        /\ UNCHANGED <<alive, halting, retention, parts>>
    BY <1>5, <1>s, <1>k DEF VerifyS3, hostVars, Volume, Targets
  <2>2. archives'["volume"] = archives["volume"]
    BY <1>0, <1>5 DEF VerifyS3
  <2>3. /\ running'[h].target = "s3" /\ running'[h].step \in {"prune", "record"}
        /\ \A g \in Hosts \ {h} : running'[g] = running[g]
    <3>1. To_(h, "record") \/ running' = [running EXCEPT ![h].step = "prune", ![h].good = TRUE]
      BY <1>5 DEF VerifyS3
    <3>. QED BY <1>0, <1>k, <2>1, <3>1, RunWrites
  <2>. QED BY <1>e, <1>k, <2>1, <2>2, <2>3 DEF HasFile
<1>6. CASE Promote(h)
  <2>1. /\ running[h] \in RunRow /\ running[h] # NoRun /\ running[h].step = "promote" /\ running[h].target = "volume"
        /\ UNCHANGED <<alive, halting, retention>>
    BY <1>6, <1>s, <1>k DEF Promote, hostVars, RunFits
  <2>2. parts > 0
    BY <1>0, <2>1 DEF RoomKept, HasFile
  <2>3. CASE To_(h, "record") /\ UNCHANGED <<parts, archives>>
    <3>1. running'[h].step = "record" /\ \A g \in Hosts \ {h} : running'[g] = running[g]
      BY <1>0, <1>k, <2>1, <2>3, RunWrites
    <3>2. ~HasFile(running'[h])
      BY <3>1 DEF HasFile
    <3>. QED BY <1>e, <1>k, <2>1, <2>3, <3>1, <3>2
  <2>4. CASE /\ parts' = parts - 1
             /\ archives' = [archives EXCEPT !["volume"] = Append(@, TRUE)]
             /\ running' = [running EXCEPT ![h].step = "prune", ![h].good = TRUE]
    <3>. DEFINE list == Append(archives["volume"], TRUE)
    <3>1. archives'["volume"] = list
      BY <1>0, <2>4
    <3>2. Len(list) = Len(archives["volume"]) + 1 /\ list[Len(archives["volume"]) + 1]
          /\ \A i \in 1 .. Len(archives["volume"]) : list[i] = archives["volume"][i]
      BY <1>v, AppendOne
    <3>. HIDE DEF list
    <3>3. AllVerified(list)
      <4>1. PICK n \in Nat : n = Len(archives["volume"])
        BY <1>v
      <4>2. \A i \in 1 .. n : archives["volume"][i]
        BY <1>0, <4>1 DEF AllVerified, RoomKept
      <4>3. \A i \in 1 .. n + 1 : list[i]
        BY <3>2, <4>1, <4>2
      <4>. QED BY <3>2, <4>1, <4>3 DEF AllVerified
    <3>4. parts' \in Nat /\ parts' + Len(list) <= Space
      BY <1>0, <1>v, <2>2, <2>4, <3>2 DEF RoomKept
    <3>5. /\ running'[h].step = "prune" /\ \A g \in Hosts \ {h} : running'[g] = running[g]
      BY <1>0, <1>k, <2>1, <2>4, RunWrites
    <3>6. ASSUME NEW g \in Hosts, running'[g] # NoRun, HasFile(running'[g]) PROVE FALSE
      <4>1. g # h
        BY <3>5, <3>6 DEF HasFile
      <4>. QED BY <1>o, <2>1, <3>5, <3>6, <4>1 DEF HasFile
    <3>. QED BY <1>0, <2>1, <3>1, <3>3, <3>4, <3>6 DEF RoomKept
  <2>. QED BY <1>6, <2>3, <2>4 DEF Promote
<1>7. CASE Prune(h)
  <2>1. PICK t \in Targets : t = running[h].target /\ running[h] \in RunRow /\ running[h] # NoRun /\ running[h].step = "prune"
    BY <1>7, <1>s, <1>k DEF Prune
  <2>2. UNCHANGED <<alive, halting, retention, parts>> /\ To_(h, "record")
    BY <1>7 DEF Prune, hostVars
  <2>3. running'[h].step = "record" /\ \A g \in Hosts \ {h} : running'[g] = running[g]
    BY <1>0, <1>k, <2>1, <2>2, RunWrites
  <2>4. ~HasFile(running'[h])
    BY <2>3 DEF HasFile
  <2>5. CASE archives'["volume"] = archives["volume"]
    BY <1>e, <1>k, <2>2, <2>3, <2>4, <2>5
  <2>6. CASE archives' = [archives EXCEPT ![t] = Pruned(t, wants[h][running[h].by].keep[t], @)] /\ t = "volume"
    <3>0. PICK keep \in Nat : keep = wants[h][running[h].by].keep[t]
      BY <1>0, <2>1 DEF RunRow, WantRow
    <3>. DEFINE list == Pruned(t, keep, archives["volume"])
    <3>1. archives'["volume"] = list
      BY <1>0, <2>6, <3>0
    <3>2. list \in Seq(BOOLEAN) /\ Len(list) <= Len(archives["volume"]) /\ (AllVerified(archives["volume"]) => AllVerified(list))
      BY <1>v, PrunedIsPart
    <3>. HIDE DEF list
    <3>3. parts + Len(list) <= Space /\ AllVerified(list)
      BY <1>0, <1>v, <3>2 DEF RoomKept
    <3>. QED BY <1>0, <2>2, <2>3, <2>4, <3>1, <3>3 DEF RoomKept
  <2>7. UNCHANGED archives \/ archives' = [archives EXCEPT ![t] = Pruned(t, wants[h][running[h].by].keep[t], @)]
    BY <1>7, <2>1 DEF Prune
  <2>. QED BY <1>0, <2>5, <2>6, <2>7
<1>8. CASE Record(h)
  <2>1. UNCHANGED <<alive, halting, parts, retention, archives>> /\ running' = [running EXCEPT ![h] = NoRun]
    BY <1>8 DEF Record, hostVars
  <2>2. running'[h] = NoRun /\ \A g \in Hosts \ {h} : running'[g] = running[g]
    BY <1>0, <2>1
  <2>. QED BY <2>1, <2>2, RoomRests
<1>. QED BY <1>1, <1>2, <1>3, <1>4, <1>5, <1>6, <1>7, <1>8 DEF RunStep

\* The room is kept by every step.
LEMMA RoomStep == RoomInv /\ [BackupNext]_backupVars => RoomInv'
<1>. SUFFICES ASSUME RoomInv, [BackupNext]_backupVars PROVE RoomKept'
  BY BackupStep DEF RoomInv
<1>0. running \in [Hosts -> RunRow \cup {NoRun}] /\ alive \subseteq Hosts /\ halting \subseteq alive /\ Desks \subseteq Hosts
  BY BackupAssumption DEF RoomInv, RoomKept, BackupInv, BackupTyped
<1>1. ASSUME NEW h \in Hosts, SchedulerTick(h) PROVE RoomKept'
  BY <1>1, RoomRests DEF SchedulerTick, hostVars
<1>2. ASSUME NEW h \in Hosts, RunStep(h) PROVE RoomKept'
  BY <1>2, RunStepFits
<1>3. ASSUME NEW h \in Hosts, Drained_(h) \/ Kill(h) PROVE RoomKept'
  <2>1. Gone_(h)
    BY <1>3 DEF Drained_, Kill
  <2>2. /\ alive' = alive \ {h} /\ halting' = halting \ {h} /\ running' = [running EXCEPT ![h] = NoRun]
        /\ UNCHANGED <<archives, parts, retention>>
    BY <2>1 DEF Gone_
  <2>3. \A g \in Hosts : running'[g] # NoRun => running'[g] = running[g]
    BY <1>0, <2>2
  <2>. QED BY <1>0, <2>2, <2>3 DEF RoomInv, RoomKept
<1>4. ASSUME NEW h \in Hosts, StartScheduler(h) \/ Halt(h) PROVE RoomKept'
  <2>1. UNCHANGED <<running, archives, parts, retention>>
    BY <1>4 DEF StartScheduler, Halt
  <2>2. alive' \subseteq Hosts /\ halting' \subseteq alive'
    BY <1>0, <1>4 DEF StartScheduler, Halt
  <2>. QED BY <2>1, <2>2 DEF RoomInv, RoomKept
<1>5. ASSUME NEW h \in Desks, RunScheduledBackup(h) PROVE RoomKept'
  BY <1>5, RoomRests DEF RunScheduledBackup, hostVars
<1>6. ASSUME NEW k \in Retentions, SaveBackupSchedule(k) PROVE RoomKept'
  <2>1. UNCHANGED <<alive, halting, running, archives, parts>> /\ retention' \in [Targets -> Retentions]
    BY <1>6 DEF SaveBackupSchedule, hostVars
  <2>. QED BY <2>1 DEF RoomInv, RoomKept
<1>7. CASE ScheduleAdvances
  BY <1>7, RoomRests DEF ScheduleAdvances, hostVars
<1>8. CASE UNCHANGED backupVars
  BY <1>8, RoomRests DEF backupVars
<1>. QED BY <1>1, <1>2, <1>3, <1>4, <1>5, <1>6, <1>7, <1>8 DEF BackupNext, Plan

(* One run per target at a time across all processes, whatever is halted or killed;  *)
(* the directory never holds more than it has room for, counting the files that      *)
(* crashed runs left behind, and shows verified archives only (tryAcquireLease,       *)
(* RunVolume, VerifyArchiveFile, pruneDir).                                          *)
THEOREM BackupTypes == BackupSpec => []BackupTypeOK
<1>1. BackupInit => RoomInv
  <2>. SUFFICES ASSUME BackupInit PROVE RoomInv
    OBVIOUS
  <2>1. BackupInv
    BY BackupStart
  <2>2. archives["volume"] = <<>> /\ Len(<<>>) = 0 /\ retention \in [Targets -> Retentions] /\ Space \in Nat
    BY BackupAssumption DEF BackupInit, Targets
  <2>3. \A h \in Hosts : running[h] = NoRun
    BY DEF BackupInit
  <2>4. AllVerified(archives["volume"])
    BY <2>2 DEF AllVerified
  <2>. QED BY <2>1, <2>2, <2>3, <2>4 DEF BackupInit, RoomInv, RoomKept
<1>2. RoomInv => BackupTypeOK
  <2>. SUFFICES ASSUME RoomInv PROVE BackupTypeOK
    OBVIOUS
  <2>0. BackupTyped /\ RoomKept /\ RunsFit
    BY DEF RoomInv, BackupInv
  <2>1. ASSUME NEW h \in Hosts PROVE running[h] = NoRun \/ (running[h].step \in Steps /\ running[h].by \in Agents)
    BY <2>0 DEF BackupTyped, RunRow
  <2>2. ASSUME NEW t \in Targets PROVE Cardinality({ h \in Hosts : running[h] # NoRun /\ running[h].target = t }) <= 1
    <3>. DEFINE at_t == { h \in Hosts : running[h] # NoRun /\ running[h].target = t }
    <3>1. \A h \in at_t : h = leased[t]
      BY <2>0 DEF RunsFit, RunFits
    <3>2. at_t = {} \/ at_t = {leased[t]}
      BY <3>1
    <3>3. Cardinality({}) = 0 /\ Cardinality({leased[t]}) = 1
      BY FS_EmptySet, FS_Singleton
    <3>. HIDE DEF at_t
    <3>4. Cardinality(at_t) <= 1
      BY <3>2, <3>3
    <3>. QED BY <3>4 DEF at_t
  <2>3. FALSE \notin Range(archives["volume"])
    <3>1. archives["volume"] \in Seq(BOOLEAN) /\ AllVerified(archives["volume"])
      BY <2>0 DEF BackupTyped, RoomKept, Targets
    <3>2. DOMAIN archives["volume"] = 1 .. Len(archives["volume"])
      BY <3>1
    <3>3. \A i \in DOMAIN archives["volume"] : archives["volume"][i] # FALSE
      BY <3>1, <3>2 DEF AllVerified
    <3>. QED BY <3>3 DEF Range
  <2>4. \A t \in Targets : leased[t] \in Hosts \cup {Nobody} /\ archives[t] \in Seq(BOOLEAN) /\ retention[t] \in Retentions
    BY <2>0 DEF BackupTyped, RoomKept
  <2>. QED BY <2>0, <2>1, <2>2, <2>3, <2>4 DEF BackupTypeOK, RoomKept
<1>. QED BY <1>1, <1>2, RoomStep, PTL DEF BackupSpec

-----------------------------------------------------------------------------
(* Contracts: agreements and recurring costs.                               *)

\* Requests wait for the backfill, and no agreement is created paid.
Orderly == ~BackfillOverlaps /\ CreatedPaid \subseteq {FALSE}
\* The price of a recurring cost does not change.
OnePrice == \A a, b \in RecurringAmounts : a = b

Marks    == Nat \cup {NoMark}
TermRow  == [live : BOOLEAN, start : Periods, end : Nat, amount : Nat \ {0}, vehicles : SUBSET Vehicles,
             paid : BOOLEAN, locked : BOOLEAN, mark : [Periods -> Marks]]

\* A receipt says what the marks say.
Stands(r, k, n) == \/ r.mark[k] > 0 /\ n = r.mark[k]
                   \/ (r.paid \/ r.mark[k] = Whole) /\ n = r.amount
Accrues(r, k, t) == r.start <= k /\ k <= r.end /\ k <= t

\* An agreement with its receipts and bills on a day: what is settled is locked, and a paid
\* agreement has a receipt for every period it will ever accrue.
AgreementOK(r, rec, bil, t) ==
    /\ ~r.live => /\ ~r.paid
                  /\ \A k \in Periods : rec[k] = 0 /\ bil[k] = 0 /\ r.mark[k] = NoMark
    /\ r.paid => /\ r.locked /\ r.start < t /\ (r.end < t \/ t = Forever)
                 /\ \A k \in Periods : Accrues(r, k, t) => rec[k] = r.amount
    /\ \A k \in Periods :
         /\ r.mark[k] <= r.amount
         /\ r.mark[k] # NoMark => r.locked /\ Accrues(r, k, t)
         /\ rec[k] # 0 => r.locked /\ Accrues(r, k, t) /\ Stands(r, k, rec[k])
         /\ bil[k] # 0 => ~r.paid /\ r.mark[k] # Whole /\ r.mark[k] < r.amount

\* A recurring cost with its receipts.
RecurringOK(r, rec) ==
    /\ ~r.paid
    /\ r.live => r.amount \in RecurringAmounts
    /\ \A k \in Periods :
         /\ r.mark[k] <= r.amount
         /\ rec[k] # 0 => r.live /\ Stands(r, k, rec[k])

ContractTypes ==
    /\ today \in 1 .. Forever
    /\ row \in [Accruals -> TermRow]
    /\ receipt \in [Accruals -> [Periods -> Nat]]
    /\ billed \in [Accruals -> [Periods -> Nat]]
    /\ nInvoice \in Nat
    /\ slider.at = "ready" =>
         /\ slider.i \in Recurring /\ slider.k \in Periods /\ slider.mark \in Marks
         /\ slider.was.amount \in Nat \ {0} /\ slider.mark <= slider.was.amount
    /\ backfill.at = "running" => \A x \in backfill.todo :
         /\ x.i \in Accruals /\ x.k \in Periods /\ row[x.i].live /\ row[x.i].mark[x.k] # NoMark
         /\ x.amount = IF row[x.i].mark[x.k] > 0 THEN row[x.i].mark[x.k] ELSE row[x.i].amount

AgreeInv == ContractTypes /\ \A i \in Agreements : AgreementOK(row[i], receipt[i], billed[i], today)
RecurInv == /\ \A i \in Recurring : RecurringOK(row[i], receipt[i])
            /\ slider.at = "ready" => slider.was.amount \in RecurringAmounts

ContractInv == AgreeInv /\ (OnePrice => RecurInv)

-----------------------------------------------------------------------------
LEMMA TermFacts ==
    /\ Periods \subseteq Nat /\ Forever \in Nat /\ 0 \in Periods /\ \A k \in Periods : k < Forever
    /\ NoMarks \in [Periods -> Marks] /\ \A k \in Periods : NoMarks[k] = NoMark
    /\ NoRow \in TermRow /\ ~NoRow.live /\ ~NoRow.paid /\ NoRow.mark = NoMarks /\ NoRow.amount = 1
    /\ Agreements \cap Recurring = {} /\ Agreements \cup Recurring = Accruals
<1>1. Periods \subseteq Nat /\ Forever \in Nat /\ 0 \in Periods /\ \A k \in Periods : k < Forever
  BY ContractsAssumption DEF ContractsAssumption, Periods, Forever
<1>2. NoMarks \in [Periods -> Marks] /\ \A k \in Periods : NoMarks[k] = NoMark
  BY DEF NoMarks, Marks
<1>3. NoRow \in TermRow /\ ~NoRow.live /\ ~NoRow.paid /\ NoRow.mark = NoMarks /\ NoRow.amount = 1
  BY <1>1, <1>2 DEF NoRow, TermRow, NoMarks
<1>. QED BY <1>1, <1>2, <1>3, ContractsAssumption DEF ContractsAssumption, Accruals

\* What is entered.
LEMMA EnteredTerms ==
    ASSUME NEW amounts \in SUBSET (Nat \ {0}), NEW covers \in SUBSET (SUBSET Vehicles), NEW paid \in SUBSET BOOLEAN,
           NEW t \in Entries(amounts, covers, paid)
    PROVE  /\ t \in TermRow /\ t.live /\ ~t.locked /\ t.mark = NoMarks /\ t.amount \in amounts /\ t.paid \in paid
           /\ t.vehicles \in covers /\ t.start <= t.end
<1>1. PICK s \in Periods, e \in 0 .. Forever, a \in amounts, c \in covers, p \in paid : t = Entered(s, e, a, c, p)
  BY DEF Entries
<1>a. t.start <= t.end
  BY DEF Entries, ValidTerms
<1>2. t = [live |-> TRUE, start |-> s, end |-> e, amount |-> a, vehicles |-> c, paid |-> p, locked |-> FALSE, mark |-> NoMarks]
  BY <1>1 DEF Entered, NoRow, NoMarks
<1>3. e \in Nat /\ c \in SUBSET Vehicles /\ a \in Nat \ {0} /\ p \in BOOLEAN /\ NoMarks \in [Periods -> Marks]
  BY TermFacts
<1>4. t \in TermRow
  BY <1>2, <1>3 DEF TermRow
<1>. QED BY <1>a, <1>2, <1>4

\* An agreement that stays through a step of the calendar.
LEMMA AgreementAges ==
    ASSUME NEW r \in TermRow, NEW rec \in [Periods -> Nat], NEW bil \in [Periods -> Nat], NEW t \in 1 .. Forever, t < Forever,
           AgreementOK(r, rec, bil, t)
    PROVE  AgreementOK(r, rec, bil, t + 1)
<1>1. t \in Nat /\ Forever \in Nat /\ r.start \in Nat /\ r.end \in Nat /\ Periods \subseteq Nat
  <2>1. r.start \in Periods /\ r.end \in Nat
    BY DEF TermRow
  <2>2. Periods \subseteq Nat /\ Forever \in Nat
    BY TermFacts
  <2>3. t \in Nat
    BY <2>2
  <2>4. r.start \in Nat
    BY <2>1, <2>2
  <2>. QED BY <2>1, <2>2, <2>3, <2>4
<1>2. \A k \in Periods : Accrues(r, k, t) => Accrues(r, k, t + 1)
  BY <1>1 DEF Accrues
<1>3. ASSUME r.paid
      PROVE  /\ r.start < t + 1 /\ (r.end < t + 1 \/ t + 1 = Forever)
             /\ \A k \in Periods : Accrues(r, k, t + 1) => Accrues(r, k, t)
  BY <1>1, <1>3 DEF AgreementOK, Accrues
<1>. QED BY <1>2, <1>3 DEF AgreementOK

\* A request about one agreement or recurring cost.
LEMMA OneChanges ==
    ASSUME ContractInv, backfill.at # "running", UNCHANGED <<backfill, today, billed, nInvoice>>,
           NEW i \in Accruals, NEW new \in TermRow, NEW rec \in [Periods -> Nat],
           row' = [row EXCEPT ![i] = new], receipt' = [receipt EXCEPT ![i] = rec], slider' = slider \/ slider'.at # "ready",
           i \in Agreements => AgreementOK(new, rec, billed[i], today),
           i \in Recurring /\ OnePrice /\ RecurringOK(row[i], receipt[i]) => RecurringOK(new, rec)
    PROVE  ContractInv'
<1>1. /\ row'[i] = new /\ receipt'[i] = rec /\ row' \in [Accruals -> TermRow] /\ receipt' \in [Accruals -> [Periods -> Nat]]
      /\ \A j \in Accruals : j # i => row'[j] = row[j] /\ receipt'[j] = receipt[j]
  BY DEF ContractInv, AgreeInv, ContractTypes
<1>2. ContractTypes'
  BY <1>1 DEF ContractInv, AgreeInv, ContractTypes
<1>3. ASSUME NEW j \in Agreements PROVE AgreementOK(row'[j], receipt'[j], billed'[j], today')
  BY <1>1, TermFacts DEF ContractInv, AgreeInv
<1>4. ASSUME OnePrice PROVE RecurInv'
  BY <1>1, <1>4, TermFacts DEF ContractInv, RecurInv
<1>. QED BY <1>2, <1>3, <1>4 DEF ContractInv, AgreeInv, OnePrice

\* The rows as they stand.
LEMMA RowsStand ==
    ASSUME ContractInv, NEW i \in Accruals
    PROVE  /\ row[i] \in TermRow /\ receipt[i] \in [Periods -> Nat] /\ billed[i] \in [Periods -> Nat] /\ today \in 1 .. Forever
           /\ receipt = [receipt EXCEPT ![i] = receipt[i]] /\ row = [row EXCEPT ![i] = row[i]]
           /\ i \in Agreements => AgreementOK(row[i], receipt[i], billed[i], today)
           /\ i \in Recurring => i \notin Agreements
BY TermFacts DEF ContractInv, AgreeInv, ContractTypes

\* Nothing but the fleet and the sweep changes.
LEMMA NothingChanges ==
    ASSUME ContractInv, UNCHANGED <<today, row, receipt, billed, slider, backfill>>, nInvoice' \in Nat
    PROVE  ContractInv'
BY DEF ContractInv, AgreeInv, ContractTypes, RecurInv, OnePrice

-----------------------------------------------------------------------------
\* The row of a new or edited agreement.
LEMMA SavedOK ==
    ASSUME NEW r \in TermRow, NEW rec \in [Periods -> Nat], NEW bil \in [Periods -> Nat], NEW t, AgreementOK(r, rec, bil, t),
           NEW all \in TermRow, all.live, ~all.paid, ~all.locked, all.mark = NoMarks, NEW newPeriod \in BOOLEAN,
           NEW new,
           \/ ~r.live /\ new = all
           \/ /\ r.live
              /\ new = [all EXCEPT !.paid = r.paid, !.locked = r.locked, !.mark = IF newPeriod THEN NoMarks ELSE r.mark]
              /\ r.locked => ~Changes(r, all) /\ ~newPeriod
              /\ (\E k \in Periods : bil[k] # 0) => r.amount = all.amount /\ ~newPeriod
    PROVE  new \in TermRow /\ AgreementOK(new, rec, bil, t)
<1>1. CASE ~r.live
  <2>1. \A k \in Periods : rec[k] = 0 /\ bil[k] = 0 /\ all.mark[k] = NoMark
    BY <1>1, TermFacts DEF AgreementOK
  <2>2. all.amount \in Nat \ {0}
    BY DEF TermRow
  <2>. QED BY <1>1, <2>1, <2>2 DEF AgreementOK, NoMark
<1>2. CASE r.live
  <2>1. /\ new \in TermRow /\ new.live = TRUE /\ new.paid = r.paid /\ new.locked = r.locked /\ new.amount = all.amount
        /\ new.start = all.start /\ new.end = all.end /\ new.mark = IF newPeriod THEN NoMarks ELSE r.mark
    BY <1>2, TermFacts DEF TermRow
  <2>2. CASE r.locked
    <3>1. new.mark = r.mark /\ new.amount = r.amount /\ new.start = r.start /\ new.end = r.end
      BY <1>2, <2>1, <2>2 DEF Changes
    <3>. QED BY <1>2, <2>1, <3>1 DEF AgreementOK, Accrues, Stands
  <2>3. CASE ~r.locked
    <3>1. ~r.paid /\ \A k \in Periods : rec[k] = 0 /\ r.mark[k] = NoMark /\ new.mark[k] = NoMark
      BY <2>1, <2>3, TermFacts DEF AgreementOK
    <3>2. new.amount \in Nat \ {0}
      BY <2>1 DEF TermRow
    <3>. QED BY <2>1, <3>1, <3>2 DEF AgreementOK, NoMark, Whole
  <2>. QED BY <2>2, <2>3
<1>. QED BY <1>1, <1>2

LEMMA SaveStep ==
    ASSUME Orderly, ContractInv, backfill.at # "running", NEW i \in Agreements, NEW cand \in Entries(Amounts, SUBSET Vehicles, CreatedPaid),
           NEW news \in SUBSET Vehicles, NEW newPeriod \in BOOLEAN, SaveAgreement(i, cand, news, newPeriod)
    PROVE  ContractInv'
<1>1. /\ cand \in TermRow /\ cand.live /\ ~cand.locked /\ cand.mark = NoMarks /\ ~cand.paid
  <2>1. Amounts \in SUBSET (Nat \ {0}) /\ CreatedPaid \in SUBSET BOOLEAN /\ SUBSET Vehicles \in SUBSET (SUBSET Vehicles)
    BY ContractsAssumption DEF ContractsAssumption
  <2>2. cand \in TermRow /\ cand.live /\ ~cand.locked /\ cand.mark = NoMarks /\ cand.paid \in CreatedPaid
    BY <2>1, EnteredTerms
  <2>. QED BY <2>2 DEF Orderly
<1>2. PICK all : all = [cand EXCEPT !.vehicles = @ \cup news]
  OBVIOUS
<1>3. all \in TermRow /\ all.live /\ ~all.paid /\ ~all.locked /\ all.mark = NoMarks
  BY <1>1, <1>2 DEF TermRow
<1>4. i \in Accruals
  BY TermFacts
<1>5. PICK r, rec, bil : r = row[i] /\ rec = receipt[i] /\ bil = billed[i]
  OBVIOUS
<1>6. r \in TermRow /\ rec \in [Periods -> Nat] /\ bil \in [Periods -> Nat] /\ AgreementOK(r, rec, bil, today)
  BY <1>4, <1>5, RowsStand
<1>7. PICK new : /\ row' = [row EXCEPT ![i] = new]
                 /\ \/ ~r.live /\ new = all
                    \/ /\ r.live
                       /\ new = [all EXCEPT !.paid = r.paid, !.locked = r.locked, !.mark = IF newPeriod THEN NoMarks ELSE r.mark]
  BY <1>2, <1>5 DEF SaveAgreement
<1>8. r.live => /\ r.locked => ~Changes(r, all) /\ ~newPeriod
                /\ (\E k \in Periods : bil[k] # 0) => r.amount = all.amount /\ ~newPeriod
  BY <1>2, <1>5 DEF SaveAgreement, Billed, Freezes
<1>9. new \in TermRow /\ AgreementOK(new, rec, bil, today)
  BY <1>3, <1>6, <1>7, <1>8, SavedOK
<1>10. receipt' = [receipt EXCEPT ![i] = rec] /\ UNCHANGED <<backfill, today, billed, nInvoice, slider>>
  BY <1>4, <1>5, RowsStand DEF SaveAgreement, moneyVars, invoiceVars, aheadVars
<1>. QED BY <1>4, <1>5, <1>6, <1>7, <1>9, <1>10, TermFacts, OneChanges

LEMMA DeleteAgreementStep ==
    ASSUME ContractInv, backfill.at # "running", NEW i \in Agreements, NEW b, DeleteAgreement(i, b)
    PROVE  ContractInv'
<1>1. i \in Accruals /\ receipt = [receipt EXCEPT ![i] = receipt[i]] /\ receipt[i] \in [Periods -> Nat]
  BY TermFacts, RowsStand
<1>2. /\ row' = [row EXCEPT ![i] = NoRow] /\ UNCHANGED <<receipt, backfill, today, billed, nInvoice, slider>>
      /\ \A k \in Periods : billed[i][k] = 0 /\ receipt[i][k] = 0
  BY DEF DeleteAgreement, moneyVars, invoiceVars, aheadVars, Billed, HasReceipt
<1>3. AgreementOK(NoRow, receipt[i], billed[i], today)
  BY <1>2, TermFacts DEF AgreementOK, NoMark
<1>. QED BY <1>1, <1>2, <1>3, TermFacts, OneChanges

\* The master slider: a finished agreement is paid as a whole.
LEMMA MasterStep ==
    ASSUME ContractInv, backfill.at # "running", NEW i \in Agreements, NEW paid \in BOOLEAN, SetAgreementPaid(i, paid)
    PROVE  ContractInv'
<1>1. i \in Accruals
  BY TermFacts
<1>2. PICK r, rec, bil, t : r = row[i] /\ rec = receipt[i] /\ bil = billed[i] /\ t = today
  OBVIOUS
<1>3. /\ r \in TermRow /\ rec \in [Periods -> Nat] /\ bil \in [Periods -> Nat] /\ t \in 1 .. Forever /\ AgreementOK(r, rec, bil, t)
      /\ r.live /\ \A k \in Periods : bil[k] = 0 /\ rec[k] = 0
  BY <1>1, <1>2, RowsStand DEF SetAgreementPaid, Untouched, Billed, HasReceipt
<1>4. PICK new : new = [r EXCEPT !.paid = paid, !.locked = LockOn(@, paid), !.mark = NoMarks]
  OBVIOUS
<1>5. /\ new \in TermRow /\ new.live /\ new.paid = paid /\ new.locked = (r.locked \/ paid) /\ new.mark = NoMarks
      /\ new.amount = r.amount /\ new.start = r.start /\ new.end = r.end
  BY <1>3, <1>4, TermFacts DEF TermRow, LockOn
<1>6. row' = [row EXCEPT ![i] = new] /\ UNCHANGED <<backfill, today, billed, nInvoice, slider>>
  BY <1>1, <1>2, <1>4 DEF SetAgreementPaid, invoiceVars, aheadVars, ContractInv, AgreeInv, ContractTypes
<1>7. r.amount \in Nat \ {0} /\ \A k \in Periods : NoMarks[k] = NoMark
  BY <1>3, TermFacts DEF TermRow
<1>8. CASE ~paid
  <2>1. AgreementOK(new, rec, bil, t)
    BY <1>3, <1>5, <1>7, <1>8 DEF AgreementOK, NoMark
  <2>2. receipt' = [receipt EXCEPT ![i] = rec]
    BY <1>1, <1>2, <1>8, RowsStand DEF SetAgreementPaid, moneyVars
  <2>. QED BY <1>1, <1>2, <1>3, <1>5, <1>6, <2>1, <2>2, TermFacts, OneChanges
<1>9. CASE paid
  <2>1. PICK rec2 : rec2 = [k \in Periods |-> IF k \in Complete(r) THEN r.amount ELSE rec[k]]
    OBVIOUS
  <2>2. receipt' = [receipt EXCEPT ![i] = rec2]
    BY <1>1, <1>2, <1>9, <2>1 DEF SetAgreementPaid, ContractInv, AgreeInv, ContractTypes
  <2>3. Elapsed(r) # {} /\ Elapsed(r) = Complete(r)
    BY <1>2, <1>9 DEF SetAgreementPaid
  <2>4. \A k \in Periods : (k \in Elapsed(r) <=> Accrues(r, k, t)) /\ (k \in Complete(r) => Accrues(r, k, t) /\ k < t)
    BY <1>2 DEF Elapsed, Complete, Accrues
  <2>5. rec2 \in [Periods -> Nat] /\ \A k \in Periods : rec2[k] = IF Accrues(r, k, t) THEN r.amount ELSE 0
    BY <1>3, <1>7, <2>1, <2>3, <2>4
  <2>6. r.start < t /\ (r.end < t \/ t = Forever)
    <3>1. /\ r.start \in Nat /\ r.end \in Nat /\ t \in Nat /\ t <= Forever
          /\ \A k \in Nat : k < Forever => k \in Periods
      BY <1>3, TermFacts, ContractsAssumption DEF TermRow, Periods, Forever, ContractsAssumption
    <3>2. PICK k \in Periods : Accrues(r, k, t) /\ k < t
      BY <2>3, <2>4 DEF Elapsed
    <3>3. k \in Nat
      BY TermFacts
    <3>4. r.start < t
      BY <3>1, <3>2, <3>3 DEF Accrues
    <3>5. ~(t <= r.end /\ t < Forever)
      <4>. SUFFICES ASSUME t <= r.end, t < Forever PROVE FALSE
        OBVIOUS
      <4>1. t \in Periods /\ Accrues(r, t, t)
        BY <3>1, <3>4 DEF Accrues
      <4>. QED BY <2>3, <2>4, <3>1, <4>1
    <3>6. Forever \in Nat
      BY TermFacts
    <3>. QED BY <3>1, <3>4, <3>5, <3>6
  <2>7. AgreementOK(new, rec2, bil, t)
    <3>1. \A k \in Periods : Accrues(new, k, t) <=> Accrues(r, k, t)
      BY <1>5 DEF Accrues
    <3>2. \A k \in Periods : new.mark[k] = NoMark /\ NoMark <= new.amount
      BY <1>5, <1>7 DEF NoMark
    <3>3. \A k \in Periods : rec2[k] # 0 => Accrues(new, k, t) /\ Stands(new, k, rec2[k])
      BY <1>5, <1>9, <2>5, <3>1 DEF Stands
    <3>4. \A k \in Periods : Accrues(new, k, t) => rec2[k] = new.amount
      BY <1>5, <2>5, <3>1
    <3>5. new.start < t /\ (new.end < t \/ t = Forever) /\ new.locked
      BY <1>5, <1>9, <2>6
    <3>. QED BY <1>3, <1>5, <3>2, <3>3, <3>4, <3>5 DEF AgreementOK
  <2>. QED BY <1>1, <1>2, <1>3, <1>5, <1>6, <2>2, <2>5, <2>7, TermFacts, OneChanges
<1>. QED BY <1>8, <1>9

\* What a mark books on a day: nothing else than what the mark says.
Books(r, rec, rec2, k, m, t) ==
    \/ rec2 = [rec EXCEPT ![k] = m] /\ m > 0 /\ rec[k] \in {0, m}
    \/ rec2 = [rec EXCEPT ![k] = r.amount] /\ m = Whole /\ rec[k] \in {0, r.amount}
    \/ rec2 = rec /\ rec[k] = 0

LEMMA MarkBooks ==
    ASSUME ContractInv, NEW i \in Accruals, NEW k \in Periods, NEW m \in Marks, NEW r, r.amount \in Nat, BookMark(i, k, m, r)
    PROVE  \E rec2 \in [Periods -> Nat] : receipt' = [receipt EXCEPT ![i] = rec2] /\ Books(r, receipt[i], rec2, k, m, today)
<1>1. receipt \in [Accruals -> [Periods -> Nat]]
  BY DEF ContractInv, AgreeInv, ContractTypes
<1>2. CASE m > 0 /\ BookPeriod(i, k, m)
  <2>1. PICK rec2 : rec2 = [receipt[i] EXCEPT ![k] = m]
    OBVIOUS
  <2>2. m \in Nat
    BY <1>2 DEF Marks, NoMark
  <2>3. rec2 \in [Periods -> Nat] /\ receipt' = [receipt EXCEPT ![i] = rec2] /\ receipt[i][k] \in {0, m}
    BY <1>1, <1>2, <2>1, <2>2 DEF BookPeriod
  <2>. QED BY <1>2, <2>1, <2>3 DEF Books
<1>3. CASE m = Whole /\ BookPeriod(i, k, r.amount)
  <2>1. PICK rec2 : rec2 = [receipt[i] EXCEPT ![k] = r.amount]
    OBVIOUS
  <2>2. rec2 \in [Periods -> Nat] /\ receipt' = [receipt EXCEPT ![i] = rec2] /\ receipt[i][k] \in {0, r.amount}
    BY <1>1, <1>3, <2>1 DEF BookPeriod
  <2>. QED BY <1>3, <2>1, <2>2 DEF Books
<1>4. CASE KeepReceipts(i, k)
  <2>1. receipt[i] \in [Periods -> Nat] /\ receipt' = [receipt EXCEPT ![i] = receipt[i]] /\ receipt[i][k] = 0
    BY <1>1, <1>4 DEF KeepReceipts
  <2>. QED BY <2>1 DEF Books
<1>. QED BY <1>2, <1>3, <1>4 DEF BookMark

\* A mark of a period of an agreement.
LEMMA MarkedOK ==
    ASSUME NEW r \in TermRow, NEW rec \in [Periods -> Nat], NEW rec2 \in [Periods -> Nat], NEW bil \in [Periods -> Nat], NEW t,
           AgreementOK(r, rec, bil, t), r.live, NEW k \in Periods, NEW m \in Marks, m # NoMark, m <= r.amount, Accrues(r, k, t),
           bil[k] = 0, Books(r, rec, rec2, k, m, t), NEW new \in TermRow,
           new.live, new.paid = r.paid, new.locked, new.amount = r.amount, new.start = r.start, new.end = r.end,
           new.mark = [r.mark EXCEPT ![k] = m]
    PROVE  AgreementOK(new, rec2, bil, t)
<1>1. r.amount \in Nat \ {0} /\ r.mark \in [Periods -> Marks] /\ m \in Nat
  BY DEF TermRow, Marks
<1>2. /\ new.mark[k] = m /\ \A j \in Periods : j # k => new.mark[j] = r.mark[j] /\ rec2[j] = rec[j]
      /\ \/ rec2[k] = m /\ m > 0
         \/ rec2[k] = r.amount /\ m = Whole
         \/ rec2[k] = 0 /\ rec[k] = 0
  BY <1>1 DEF Books
<1>3. \A j \in Periods : Accrues(new, j, t) <=> Accrues(r, j, t)
  BY DEF Accrues
<1>4. r.paid => rec[k] = r.amount /\ rec2[k] = r.amount
  <2>. SUFFICES ASSUME r.paid PROVE rec[k] = r.amount /\ rec2[k] = r.amount
    OBVIOUS
  <2>1. rec[k] = r.amount
    BY DEF AgreementOK
  <2>. QED BY <1>1, <2>1 DEF Books
<1>5. ASSUME NEW j \in Periods
      PROVE  /\ new.mark[j] <= new.amount
             /\ new.mark[j] # NoMark => new.locked /\ Accrues(new, j, t)
             /\ rec2[j] # 0 => new.locked /\ Accrues(new, j, t) /\ Stands(new, j, rec2[j])
             /\ bil[j] # 0 => ~new.paid /\ new.mark[j] # Whole /\ new.mark[j] < new.amount
  <2>1. CASE j = k
    BY <1>2, <1>3, <2>1 DEF Stands
  <2>2. CASE j # k
    BY <1>2, <1>3, <2>2 DEF AgreementOK, Stands
  <2>. QED BY <2>1, <2>2
<1>6. \A j \in Periods : r.paid /\ Accrues(new, j, t) => rec2[j] = r.amount
  BY <1>2, <1>3, <1>4 DEF AgreementOK
<1>. QED BY <1>5, <1>6 DEF AgreementOK

\* A mark taken back: what the master flag said is said by marks.
LEMMA UnmarkedOK ==
    ASSUME NEW r \in TermRow, NEW rec \in [Periods -> Nat], NEW bil \in [Periods -> Nat], NEW t,
           AgreementOK(r, rec, bil, t), r.live, NEW k \in Periods, rec[k] = 0, Accrues(r, k, t), NEW new \in TermRow,
           new.live, ~new.paid, new.locked = r.locked, new.amount = r.amount, new.start = r.start, new.end = r.end,
           new.mark[k] = NoMark, ~r.paid => \A j \in Periods : j # k => new.mark[j] = r.mark[j]
    PROVE  AgreementOK(new, rec, bil, t)
<1>1. r.amount \in Nat \ {0}
  BY DEF TermRow
<1>2. ~r.paid
  BY <1>1 DEF AgreementOK
<1>3. \A j \in Periods : Accrues(new, j, t) <=> Accrues(r, j, t)
  BY DEF Accrues
<1>4. ASSUME NEW j \in Periods
      PROVE  /\ new.mark[j] <= new.amount
             /\ new.mark[j] # NoMark => new.locked /\ Accrues(new, j, t)
             /\ rec[j] # 0 => new.locked /\ Accrues(new, j, t) /\ Stands(new, j, rec[j])
             /\ bil[j] # 0 => ~new.paid /\ new.mark[j] # Whole /\ new.mark[j] < new.amount
  <2>1. CASE j = k
    BY <1>1, <2>1 DEF NoMark, Whole
  <2>2. CASE j # k
    BY <1>2, <1>3, <2>2 DEF AgreementOK, Stands
  <2>. QED BY <2>1, <2>2
<1>. QED BY <1>4 DEF AgreementOK

LEMMA PeriodStep ==
    ASSUME ContractInv, backfill.at # "running", NEW i \in Agreements, NEW k \in Periods, NEW m \in NoMark .. row[i].amount,
           SetAgreementPeriodPaid(i, k, m)
    PROVE  ContractInv'
<1>1. i \in Accruals
  BY TermFacts
<1>2. PICK r, rec, bil, t : r = row[i] /\ rec = receipt[i] /\ bil = billed[i] /\ t = today
  OBVIOUS
<1>3. /\ r \in TermRow /\ rec \in [Periods -> Nat] /\ bil \in [Periods -> Nat] /\ AgreementOK(r, rec, bil, t)
      /\ r.live /\ bil[k] = 0 /\ Accrues(r, k, t) /\ r.amount \in Nat \ {0} /\ r.mark \in [Periods -> Marks]
  BY <1>1, <1>2, RowsStand DEF SetAgreementPeriodPaid, ValidMark, Elapsed, Accrues, TermRow
<1>4. m \in Marks /\ m <= r.amount /\ UNCHANGED <<backfill, today, billed, nInvoice, slider>>
  BY <1>2, <1>3 DEF Marks, NoMark, SetAgreementPeriodPaid, invoiceVars, aheadVars
<1>5. PICK rec2 \in [Periods -> Nat] : receipt' = [receipt EXCEPT ![i] = rec2] /\ Books(r, rec, rec2, k, m, t)
  <2>1. BookMark(i, k, m, r)
    BY <1>2 DEF SetAgreementPeriodPaid
  <2>. QED BY <1>1, <1>2, <1>3, <1>4, <2>1, MarkBooks
<1>6. CASE m # NoMark
  <2>1. PICK mark : mark = [r.mark EXCEPT ![k] = m]
    OBVIOUS
  <2>2. mark \in [Periods -> Marks]
    BY <1>3, <1>4, <2>1
  <2>3. PICK new : new = [r EXCEPT !.locked = LockOn(r.locked, TRUE), !.mark[k] = m]
    OBVIOUS
  <2>4. row' = [row EXCEPT ![i] = new]
    BY <1>2, <1>6, <2>3 DEF SetAgreementPeriodPaid
  <2>5. /\ new \in TermRow /\ new.live /\ new.paid = r.paid /\ new.locked /\ new.amount = r.amount /\ new.start = r.start
        /\ new.end = r.end /\ new.mark = mark
    BY <1>3, <2>1, <2>2, <2>3 DEF TermRow, LockOn
  <2>6. AgreementOK(new, rec2, bil, t)
    BY <1>3, <1>4, <1>5, <1>6, <2>1, <2>5, MarkedOK
  <2>. QED BY <1>1, <1>2, <1>3, <1>4, <1>5, <2>4, <2>5, <2>6, TermFacts, OneChanges
<1>7. CASE m = NoMark
  <2>1. PICK mark : mark = [SpreadPaid(i) EXCEPT ![k] = NoMark]
    OBVIOUS
  <2>2. /\ mark \in [Periods -> Marks] /\ mark[k] = NoMark
        /\ ~r.paid => \A j \in Periods : j # k => mark[j] = r.mark[j]
    BY <1>2, <1>3, <2>1 DEF SpreadPaid, Marks, Whole
  <2>3. PICK new : new = [r EXCEPT !.paid = FALSE, !.mark = mark]
    OBVIOUS
  <2>4. row' = [row EXCEPT ![i] = new]
    BY <1>2, <1>7, <2>1, <2>3 DEF SetAgreementPeriodPaid
  <2>5. /\ new \in TermRow /\ new.live /\ ~new.paid /\ new.locked = r.locked /\ new.amount = r.amount /\ new.start = r.start
        /\ new.end = r.end /\ new.mark = mark
    BY <1>3, <2>2, <2>3 DEF TermRow
  <2>6. rec2 = rec /\ rec[k] = 0
    BY <1>5, <1>7 DEF Books, NoMark, Whole
  <2>7. AgreementOK(new, rec, bil, t)
    BY <1>3, <2>2, <2>5, <2>6, UnmarkedOK
  <2>. QED BY <1>1, <1>2, <1>3, <1>4, <1>5, <2>4, <2>5, <2>6, <2>7, TermFacts, OneChanges
<1>. QED BY <1>6, <1>7

-----------------------------------------------------------------------------
\* A recurring cost is entered, edited, deleted.
LEMMA RecurringTerms ==
    ASSUME NEW cand \in Entries(RecurringAmounts, {{}}, {FALSE})
    PROVE  cand \in TermRow /\ cand.live /\ cand.mark = NoMarks /\ cand.amount \in RecurringAmounts /\ ~cand.paid
<1>a. PICK covers, paid : covers = {{}} /\ paid = {FALSE} /\ cand \in Entries(RecurringAmounts, covers, paid)
  OBVIOUS
<1>1. RecurringAmounts \in SUBSET (Nat \ {0}) /\ covers \in SUBSET (SUBSET Vehicles) /\ paid \in SUBSET BOOLEAN
  BY <1>a, ContractsAssumption DEF ContractsAssumption
<1>b. cand \in Entries(RecurringAmounts, covers, paid)
  BY <1>a
<1>2. cand \in TermRow /\ cand.live /\ cand.mark = NoMarks /\ cand.amount \in RecurringAmounts /\ cand.paid \in paid
  BY <1>b, <1>1, EnteredTerms
<1>. QED BY <1>a, <1>2

LEMMA RecurringSavedStep ==
    ASSUME ContractInv, backfill.at # "running", NEW i \in Recurring, NEW cand \in Entries(RecurringAmounts, {{}}, {FALSE}),
           CreateRecurringCharge(i, cand) \/ UpdateRecurringCharge(i, cand)
    PROVE  ContractInv'
<1>1. i \in Accruals /\ i \notin Agreements
  BY TermFacts
<1>2. PICK r, rec : r = row[i] /\ rec = receipt[i]
  OBVIOUS
<1>3. r \in TermRow /\ rec \in [Periods -> Nat] /\ receipt' = [receipt EXCEPT ![i] = rec]
      /\ UNCHANGED <<backfill, today, billed, nInvoice, slider>>
  BY <1>1, <1>2, RowsStand DEF CreateRecurringCharge, UpdateRecurringCharge, moneyVars, invoiceVars, aheadVars
<1>4. /\ cand \in TermRow /\ cand.live /\ cand.mark = NoMarks /\ cand.amount \in RecurringAmounts /\ ~cand.paid
      /\ cand.amount \in Nat \ {0}
  BY RecurringTerms DEF TermRow
<1>5. CASE CreateRecurringCharge(i, cand)
  <2>1. row' = [row EXCEPT ![i] = cand] /\ ~r.live
    BY <1>2, <1>5 DEF CreateRecurringCharge
  <2>2. RecurringOK(r, rec) => RecurringOK(cand, rec)
    BY <1>3, <1>4, <2>1, TermFacts DEF RecurringOK, NoMark
  <2>. QED BY <1>1, <1>2, <1>3, <1>4, <2>1, <2>2, OneChanges
<1>6. CASE UpdateRecurringCharge(i, cand)
  <2>1. PICK new : new = [cand EXCEPT !.mark = r.mark]
    OBVIOUS
  <2>2. row' = [row EXCEPT ![i] = new] /\ r.live
    BY <1>2, <1>6, <2>1 DEF UpdateRecurringCharge
  <2>3. new \in TermRow /\ new.live /\ ~new.paid /\ new.mark = r.mark /\ new.amount = cand.amount
    BY <1>3, <1>4, <2>1 DEF TermRow
  <2>4. OnePrice /\ RecurringOK(r, rec) => RecurringOK(new, rec)
    BY <1>3, <1>4, <2>2, <2>3 DEF RecurringOK, OnePrice, Stands
  <2>. QED BY <1>1, <1>2, <1>3, <2>2, <2>3, <2>4, OneChanges
<1>. QED BY <1>5, <1>6

LEMMA DeleteRecurringStep ==
    ASSUME ContractInv, backfill.at # "running", NEW i \in Recurring, DeleteRecurringCharge(i)
    PROVE  ContractInv'
<1>1. i \in Accruals /\ i \notin Agreements /\ receipt = [receipt EXCEPT ![i] = receipt[i]] /\ receipt[i] \in [Periods -> Nat]
  BY TermFacts, RowsStand
<1>2. /\ row' = [row EXCEPT ![i] = NoRow] /\ UNCHANGED <<receipt, backfill, today, billed, nInvoice, slider>>
      /\ \A k \in Periods : receipt[i][k] = 0
  BY DEF DeleteRecurringCharge, moneyVars, invoiceVars, aheadVars, HasReceipt
<1>3. RecurringOK(NoRow, receipt[i])
  BY <1>2, TermFacts DEF RecurringOK, NoMark
<1>. QED BY <1>1, <1>2, <1>3, TermFacts, OneChanges

\* The "bezahlt" slider of a recurring cost, and the slider of one period.
LEMMA RecurringPaidStep ==
    ASSUME ContractInv, backfill.at # "running", NEW i \in Recurring, NEW paid \in BOOLEAN, SetRecurringChargePaid(i, paid)
    PROVE  ContractInv'
<1>1. i \in Accruals /\ i \notin Agreements
  BY TermFacts
<1>2. PICK r, rec, bil : r = row[i] /\ rec = receipt[i] /\ bil = billed[i]
  OBVIOUS
<1>3. /\ r \in TermRow /\ rec \in [Periods -> Nat] /\ r.live /\ r.mark \in [Periods -> Marks] /\ r.amount \in Nat \ {0}
      /\ UNCHANGED <<backfill, today, billed, nInvoice, slider>>
  BY <1>1, <1>2, RowsStand DEF SetRecurringChargePaid, TermRow, invoiceVars, aheadVars
<1>4. CASE paid
  <2>1. PICK due : due = { k \in { j \in Complete(r) : bil[j] = 0 } : r.mark[k] # Whole }
    OBVIOUS
  <2>2. PICK mark, rec2 : /\ mark = [k \in Periods |-> IF k \in due THEN Whole ELSE r.mark[k]]
                          /\ rec2 = [k \in Periods |-> IF k \in due THEN r.amount ELSE rec[k]]
    OBVIOUS
  <2>3. SettleRecurring(i)
    BY <1>4 DEF SetRecurringChargePaid
  <2>4. PICK new : new = [r EXCEPT !.mark = mark]
    OBVIOUS
  <2>5. row' = [row EXCEPT ![i] = new] /\ receipt' = [receipt EXCEPT ![i] = rec2]
    BY <1>2, <2>1, <2>2, <2>3, <2>4 DEF SettleRecurring
  <2>6. mark \in [Periods -> Marks] /\ rec2 \in [Periods -> Nat]
    BY <1>3, <2>2 DEF Marks, Whole
  <2>7. new \in TermRow /\ new.live /\ new.paid = r.paid /\ new.amount = r.amount /\ new.mark = mark
    BY <1>3, <2>4, <2>6 DEF TermRow
  <2>8. RecurringOK(r, rec) => RecurringOK(new, rec2)
    BY <1>3, <2>2, <2>6, <2>7 DEF RecurringOK, Stands, Whole
  <2>. QED BY <1>1, <1>2, <1>3, <2>5, <2>6, <2>7, <2>8, OneChanges
<1>5. CASE ~paid
  <2>1. PICK mark : mark = [k \in Periods |-> IF bil[k] # 0 THEN r.mark[k] ELSE NoMark]
    OBVIOUS
  <2>2. PICK new : new = [r EXCEPT !.mark = mark]
    OBVIOUS
  <2>3. row' = [row EXCEPT ![i] = new] /\ receipt' = [receipt EXCEPT ![i] = rec] /\ \A k \in Periods : rec[k] = 0
    BY <1>1, <1>2, <1>5, <2>1, <2>2, RowsStand DEF SetRecurringChargePaid, HasReceipt
  <2>4. mark \in [Periods -> Marks]
    BY <1>3, <2>1 DEF Marks
  <2>5. new \in TermRow /\ new.live /\ new.paid = r.paid /\ new.amount = r.amount /\ new.mark = mark
    BY <1>3, <2>2, <2>4 DEF TermRow
  <2>6. RecurringOK(r, rec) => RecurringOK(new, rec)
    BY <1>3, <2>1, <2>3, <2>5 DEF RecurringOK, NoMark
  <2>. QED BY <1>1, <1>2, <1>3, <2>3, <2>5, <2>6, OneChanges
<1>. QED BY <1>4, <1>5

LEMMA ReadRecurringStep ==
    ASSUME ContractInv, NEW i \in Recurring, NEW k \in Periods, NEW m \in NoMark .. row[i].amount, ReadRecurring(i, k, m)
    PROVE  ContractInv'
<1>1. PICK r : r = row[i] /\ r \in TermRow /\ r.live /\ r.amount \in Nat \ {0}
  BY TermFacts, RowsStand DEF ReadRecurring, TermRow
<1>2. PICK was : was = [r EXCEPT !.mark = NoMarks]
  OBVIOUS
<1>3. was.amount = r.amount /\ m \in Marks /\ m <= r.amount
  BY <1>1, <1>2 DEF TermRow, Marks, NoMark
<1>4. /\ slider' = [at |-> "ready", i |-> i, k |-> k, mark |-> m, was |-> was]
      /\ UNCHANGED <<today, row, receipt, billed, nInvoice, backfill>>
  BY <1>1, <1>2 DEF ReadRecurring, moneyVars, invoiceVars
<1>5. ContractTypes'
  BY <1>1, <1>3, <1>4 DEF ContractInv, AgreeInv, ContractTypes
<1>6. ASSUME OnePrice PROVE RecurInv'
  <2>1. r.amount \in RecurringAmounts
    BY <1>1, <1>6 DEF ContractInv, RecurInv, RecurringOK
  <2>. QED BY <1>3, <1>4, <1>6, <2>1 DEF ContractInv, RecurInv
<1>. QED BY <1>4, <1>5, <1>6 DEF ContractInv, AgreeInv, OnePrice

LEMMA SliderStep ==
    ASSUME ContractInv, backfill.at # "running", SetRecurringChargePeriodPaid
    PROVE  ContractInv'
<1>1. PICK i, k, m, was : i = slider.i /\ k = slider.k /\ m = slider.mark /\ was = slider.was
  OBVIOUS
<1>2. /\ i \in Recurring /\ k \in Periods /\ m \in Marks /\ was.amount \in Nat \ {0} /\ m <= was.amount
      /\ i \in Accruals /\ i \notin Agreements
      /\ OnePrice => was.amount \in RecurringAmounts
  BY <1>1, TermFacts DEF SetRecurringChargePeriodPaid, ContractInv, AgreeInv, ContractTypes, RecurInv
<1>3. PICK r, rec : r = row[i] /\ rec = receipt[i]
  OBVIOUS
<1>4. r \in TermRow /\ rec \in [Periods -> Nat] /\ r.mark \in [Periods -> Marks] /\ r.amount \in Nat \ {0}
  BY <1>2, <1>3, RowsStand DEF TermRow
<1>5. slider'.at # "ready" /\ UNCHANGED <<backfill, today, billed, nInvoice>>
  BY DEF SetRecurringChargePeriodPaid, NoSlider, invoiceVars
<1>6. CASE UNCHANGED <<row, receipt>>
  <2>1. row' = [row EXCEPT ![i] = r] /\ receipt' = [receipt EXCEPT ![i] = rec]
    BY <1>2, <1>3, <1>6, RowsStand
  <2>. QED BY <1>2, <1>3, <1>4, <1>5, <2>1, OneChanges
<1>7. CASE r.live /\ row' = [row EXCEPT ![i].mark[k] = m] /\ BookMark(i, k, m, was)
  <2>1. PICK new : new = [r EXCEPT !.mark[k] = m]
    OBVIOUS
  <2>2. row' = [row EXCEPT ![i] = new]
    BY <1>3, <1>7, <2>1
  <2>3. PICK mark : mark = [r.mark EXCEPT ![k] = m]
    OBVIOUS
  <2>4. mark \in [Periods -> Marks] /\ mark[k] = m /\ \A j \in Periods : j # k => mark[j] = r.mark[j]
    BY <1>2, <1>4, <2>3
  <2>5. new \in TermRow /\ new.live /\ new.paid = r.paid /\ new.amount = r.amount /\ new.mark = mark
    BY <1>4, <1>7, <2>1, <2>3, <2>4 DEF TermRow
  <2>6. PICK rec2 \in [Periods -> Nat] : receipt' = [receipt EXCEPT ![i] = rec2] /\ Books(was, rec, rec2, k, m, today)
    BY <1>2, <1>3, <1>7, MarkBooks
  <2>7. /\ \A j \in Periods : j # k => rec2[j] = rec[j]
        /\ \/ rec2[k] = m /\ m > 0
           \/ rec2[k] = was.amount /\ m = Whole
           \/ rec2[k] = 0
    BY <1>2, <1>4, <2>6 DEF Books
  <2>8. ASSUME OnePrice, RecurringOK(r, rec) PROVE RecurringOK(new, rec2)
    <3>1. was.amount = r.amount
      BY <1>2, <1>7, <2>8 DEF OnePrice, RecurringOK
    <3>2. ASSUME NEW j \in Periods
          PROVE  new.mark[j] <= new.amount /\ (rec2[j] # 0 => new.live /\ Stands(new, j, rec2[j]))
      <4>1. CASE j = k
        BY <1>2, <2>4, <2>5, <2>7, <3>1, <4>1 DEF Stands
      <4>2. CASE j # k
        BY <2>4, <2>5, <2>7, <2>8, <4>2 DEF RecurringOK, Stands
      <4>. QED BY <4>1, <4>2
    <3>. QED BY <1>7, <2>5, <2>8, <3>2 DEF RecurringOK
  <2>. QED BY <1>2, <1>3, <1>4, <1>5, <2>2, <2>5, <2>6, <2>8, OneChanges
<1>8. \/ UNCHANGED <<row, receipt>>
      \/ r.live /\ row' = [row EXCEPT ![i].mark[k] = m] /\ BookMark(i, k, m, was)
  BY <1>1, <1>3 DEF SetRecurringChargePeriodPaid
<1>. QED BY <1>6, <1>7, <1>8

-----------------------------------------------------------------------------
\* An invoice bills what the marks leave open, a Storno takes a bill back.
LEMMA BilledOK ==
    ASSUME NEW r \in TermRow, NEW rec \in [Periods -> Nat], NEW bil \in [Periods -> Nat], NEW bil2 \in [Periods -> Nat], NEW t \in Nat,
           AgreementOK(r, rec, bil, t),
           \A k \in Periods : bil2[k] # 0 =>
             bil[k] # 0 \/ (r.live /\ ~r.paid /\ r.mark[k] # Whole /\ r.mark[k] < r.amount)
    PROVE  AgreementOK(r, rec, bil2, t)
BY DEF AgreementOK

LEMMA BillStep ==
    ASSUME ContractInv, backfill.at # "running", UNCHANGED <<today, row, receipt, slider, backfill>>, nInvoice' \in Nat,
           billed' \in [Accruals -> [Periods -> Nat]],
           \A i \in Accruals : \A k \in Periods : billed'[i][k] # 0 =>
             \/ billed[i][k] # 0
             \/ row[i].live /\ ~row[i].paid /\ row[i].mark[k] # Whole /\ row[i].mark[k] < row[i].amount
    PROVE  ContractInv'
<1>1. ContractTypes'
  BY DEF ContractInv, AgreeInv, ContractTypes
<1>2. ASSUME NEW i \in Agreements PROVE AgreementOK(row'[i], receipt'[i], billed'[i], today')
  <2>1. i \in Accruals /\ today \in Nat
    BY TermFacts DEF ContractInv, AgreeInv, ContractTypes
  <2>2. /\ row[i] \in TermRow /\ receipt[i] \in [Periods -> Nat] /\ billed[i] \in [Periods -> Nat]
        /\ AgreementOK(row[i], receipt[i], billed[i], today)
    BY <2>1, RowsStand
  <2>3. billed'[i] \in [Periods -> Nat]
    BY <2>1
  <2>4. \A k \in Periods : billed'[i][k] # 0 =>
          \/ billed[i][k] # 0
          \/ row[i].live /\ ~row[i].paid /\ row[i].mark[k] # Whole /\ row[i].mark[k] < row[i].amount
    BY <2>1
  <2>5. AgreementOK(row[i], receipt[i], billed'[i], today)
    BY <2>1, <2>2, <2>3, <2>4, BilledOK
  <2>. QED BY <2>5
<1>3. OnePrice => RecurInv'
  BY DEF ContractInv, RecurInv
<1>. QED BY <1>1, <1>2, <1>3 DEF AgreeInv, ContractInv, OnePrice

LEMMA OpenMarks ==
    ASSUME ContractInv, NEW i \in Accruals, NEW k \in Complete(row[i]), OpenOf(row[i], k) > 0
    PROVE  ~row[i].paid /\ row[i].mark[k] # Whole /\ row[i].mark[k] < row[i].amount
<1>1. PICK r, m : r = row[i] /\ m = r.mark[k]
  OBVIOUS
<1>2. k \in Periods /\ k < today
  BY DEF Complete, Elapsed
<1>3. r \in TermRow /\ r.amount \in Nat \ {0} /\ m \in Marks
  BY <1>1, <1>2, RowsStand DEF TermRow
<1>4. Cost(r, k) = r.amount
  BY <1>2 DEF Cost
<1>5. OpenOf(r, k) = r.amount - PaidPart(r, k) /\ OpenOf(r, k) > 0
  BY <1>1, <1>4 DEF OpenOf
<1>6. ~(r.paid \/ m = Whole)
  BY <1>1, <1>3, <1>4, <1>5 DEF PaidPart
<1>7. m < r.amount
  <2>1. CASE m = NoMark
    BY <1>3, <2>1 DEF NoMark
  <2>2. CASE m # NoMark
    <3>1. PaidPart(r, k) = LowerOf(m, r.amount)
      BY <1>1, <1>4, <1>6, <2>2 DEF PaidPart
    <3>. QED BY <1>3, <1>5, <2>2, <3>1 DEF LowerOf, Marks
  <2>. QED BY <2>1, <2>2
<1>. QED BY <1>1, <1>6, <1>7

LEMMA InvoiceStep ==
    ASSUME ContractInv, backfill.at # "running", CreateInvoice
    PROVE  ContractInv'
<1>1. /\ UNCHANGED <<today, row, receipt, slider, backfill>> /\ nInvoice' = nInvoice + 1
      /\ billed' = [i \in Accruals |-> [k \in Periods |-> IF <<i, k>> \in ToBill THEN nInvoice' ELSE billed[i][k]]]
  BY DEF CreateInvoice, moneyVars, aheadVars
<1>2. nInvoice' \in Nat /\ billed \in [Accruals -> [Periods -> Nat]]
  BY <1>1 DEF ContractInv, AgreeInv, ContractTypes
<1>3. billed' \in [Accruals -> [Periods -> Nat]]
  BY <1>1, <1>2
<1>4. ASSUME NEW i \in Accruals, NEW k \in Periods, billed'[i][k] # 0, billed[i][k] = 0
      PROVE  row[i].live /\ ~row[i].paid /\ row[i].mark[k] # Whole /\ row[i].mark[k] < row[i].amount
  <2>1. <<i, k>> \in ToBill
    BY <1>1, <1>4
  <2>2. row[i].live /\ k \in Complete(row[i]) /\ OpenOf(row[i], k) > 0
    BY <2>1 DEF ToBill
  <2>. QED BY <2>2, OpenMarks
<1>. QED BY <1>1, <1>2, <1>3, <1>4, BillStep

LEMMA CancelStep ==
    ASSUME ContractInv, backfill.at # "running", NEW n, CancelInvoice(n)
    PROVE  ContractInv'
<1>1. /\ UNCHANGED <<today, row, receipt, slider, backfill, nInvoice>>
      /\ billed' = [i \in Accruals |-> [k \in Periods |-> IF billed[i][k] = n THEN 0 ELSE billed[i][k]]]
  BY DEF CancelInvoice, moneyVars, aheadVars
<1>2. nInvoice' \in Nat /\ billed \in [Accruals -> [Periods -> Nat]]
  BY <1>1 DEF ContractInv, AgreeInv, ContractTypes
<1>3. billed' \in [Accruals -> [Periods -> Nat]] /\ \A i \in Accruals : \A k \in Periods : billed'[i][k] # 0 => billed[i][k] # 0
  BY <1>1, <1>2
<1>. QED BY <1>1, <1>2, <1>3, BillStep

\* A deleted vehicle leaves every agreement, and nothing else of it changes.
LEMMA GoneStep ==
    ASSUME ContractInv, backfill.at # "running", NEW v, VehicleDeleted(v)
    PROVE  ContractInv'
<1>1. /\ UNCHANGED <<today, receipt, billed, nInvoice, slider, backfill>>
      /\ row' = [i \in Accruals |-> [row[i] EXCEPT !.vehicles = @ \ {v}]]
  BY DEF VehicleDeleted, moneyVars, invoiceVars, aheadVars
<1>2. ASSUME NEW i \in Accruals
      PROVE  /\ row'[i] \in TermRow /\ row'[i].live = row[i].live /\ row'[i].start = row[i].start /\ row'[i].end = row[i].end
             /\ row'[i].amount = row[i].amount /\ row'[i].paid = row[i].paid /\ row'[i].locked = row[i].locked
             /\ row'[i].mark = row[i].mark
  <2>1. row'[i] = [row[i] EXCEPT !.vehicles = @ \ {v}] /\ row[i] \in TermRow
    BY <1>1, RowsStand
  <2>. QED BY <2>1 DEF TermRow
<1>3. row' \in [Accruals -> TermRow]
  BY <1>1, <1>2
<1>4. ContractTypes'
  BY <1>1, <1>3 DEF ContractInv, AgreeInv, ContractTypes
<1>5. ASSUME NEW i \in Agreements PROVE AgreementOK(row'[i], receipt'[i], billed'[i], today')
  <2>1. i \in Accruals /\ AgreementOK(row[i], receipt[i], billed[i], today)
    BY TermFacts, RowsStand
  <2>. QED BY <1>1, <1>2, <2>1 DEF AgreementOK, Accrues, Stands
<1>6. ASSUME OnePrice PROVE RecurInv'
  <2>1. ASSUME NEW i \in Recurring PROVE RecurringOK(row'[i], receipt'[i])
    <3>1. i \in Accruals /\ RecurringOK(row[i], receipt[i])
      BY <1>6, TermFacts DEF ContractInv, RecurInv
    <3>. QED BY <1>1, <1>2, <3>1 DEF RecurringOK, Stands
  <2>. QED BY <1>1, <1>6, <2>1 DEF ContractInv, RecurInv
<1>. QED BY <1>4, <1>5, <1>6 DEF AgreeInv, ContractInv, OnePrice

LEMMA CalendarStep ==
    ASSUME ContractInv, backfill.at # "running", NextPeriod
    PROVE  ContractInv'
<1>1. /\ UNCHANGED <<row, receipt, billed, nInvoice, slider, backfill>> /\ today' = today + 1 /\ today < Forever
  BY DEF NextPeriod, moneyVars, invoiceVars, aheadVars
<1>2. PICK t : t = today /\ today' = t + 1 /\ t \in 1 .. Forever /\ t < Forever
  BY <1>1 DEF ContractInv, AgreeInv, ContractTypes
<1>3. today' \in 1 .. Forever
  BY <1>2, TermFacts
<1>4. ContractTypes'
  BY <1>1, <1>3 DEF ContractInv, AgreeInv, ContractTypes
<1>5. ASSUME NEW i \in Agreements PROVE AgreementOK(row'[i], receipt'[i], billed'[i], today')
  <2>1. i \in Accruals
    BY TermFacts
  <2>2. /\ row[i] \in TermRow /\ receipt[i] \in [Periods -> Nat] /\ billed[i] \in [Periods -> Nat]
        /\ AgreementOK(row[i], receipt[i], billed[i], t)
    BY <1>2, <2>1, RowsStand
  <2>3. AgreementOK(row[i], receipt[i], billed[i], t + 1)
    BY <1>2, <2>2, AgreementAges
  <2>. QED BY <1>1, <1>2, <2>3
<1>6. OnePrice => RecurInv'
  BY <1>1 DEF ContractInv, RecurInv
<1>. QED BY <1>4, <1>5, <1>6 DEF AgreeInv, ContractInv, OnePrice

-----------------------------------------------------------------------------
\* The backfill at server start books what the marks say, and never twice.
LEMMA BackfillReadStep ==
    ASSUME ContractInv, BackfillRead
    PROVE  ContractInv'
<1>1. /\ UNCHANGED <<today, row, receipt, billed, nInvoice, slider>>
      /\ backfill' = [at |-> "running", todo |-> { x \in BackfillItems : Backfillable(x) }]
  BY DEF BackfillRead, moneyVars, invoiceVars
<1>2. ASSUME NEW x \in { y \in BackfillItems : Backfillable(y) }
      PROVE  /\ x.i \in Accruals /\ x.k \in Periods /\ row[x.i].live /\ row[x.i].mark[x.k] # NoMark
             /\ x.amount = IF row[x.i].mark[x.k] > 0 THEN row[x.i].mark[x.k] ELSE row[x.i].amount
  BY DEF BackfillItems, Backfillable
<1>3. ContractTypes'
  BY <1>1, <1>2 DEF ContractInv, AgreeInv, ContractTypes
<1>4. AgreeInv'
  BY <1>1, <1>3 DEF ContractInv, AgreeInv
<1>5. OnePrice => RecurInv'
  BY <1>1 DEF ContractInv, RecurInv
<1>. QED BY <1>4, <1>5 DEF ContractInv, OnePrice

LEMMA BackfillBookStep ==
    ASSUME ContractInv, NEW x \in backfill.todo, BackfillBook(x)
    PROVE  ContractInv'
<1>1. PICK i, k, n : i = x.i /\ k = x.k /\ n = Backfilled(x)
  OBVIOUS
<1>2. PICK r, rec, bil : r = row[i] /\ rec = receipt[i] /\ bil = billed[i]
  OBVIOUS
<1>3. /\ i \in Accruals /\ k \in Periods /\ r.live /\ r.mark[k] # NoMark
      /\ x.amount = IF r.mark[k] > 0 THEN r.mark[k] ELSE r.amount
  BY <1>1, <1>2 DEF BackfillBook, ContractInv, AgreeInv, ContractTypes
<1>4. r \in TermRow /\ rec \in [Periods -> Nat] /\ bil \in [Periods -> Nat] /\ r.mark \in [Periods -> Marks] /\ r.amount \in Nat \ {0}
  BY <1>2, <1>3, RowsStand DEF TermRow
<1>5. n = IF rec[k] = 0 THEN x.amount ELSE rec[k]
  BY <1>1, <1>2 DEF Backfilled
<1>6. n \in Nat
  BY <1>3, <1>4, <1>5 DEF Marks
<1>7. PICK rec2 : rec2 = [rec EXCEPT ![k] = n]
  OBVIOUS
<1>8. rec2 \in [Periods -> Nat] /\ rec2[k] = n /\ \A j \in Periods : j # k => rec2[j] = rec[j]
  BY <1>3, <1>4, <1>6, <1>7
<1>9. /\ UNCHANGED <<today, row, billed, nInvoice, slider>> /\ receipt' = [receipt EXCEPT ![i] = rec2]
      /\ backfill' = [backfill EXCEPT !.todo = @ \ {x}]
  BY <1>1, <1>2, <1>7 DEF BackfillBook, invoiceVars
<1>10. rec[k] = 0 => Stands(r, k, n)
  BY <1>3, <1>4, <1>5 DEF Stands, Marks, Whole, NoMark
<1>11. /\ receipt'[i] = rec2 /\ \A j \in Accruals : j # i => receipt'[j] = receipt[j]
       /\ receipt' \in [Accruals -> [Periods -> Nat]]
  BY <1>3, <1>8, <1>9 DEF ContractInv, AgreeInv, ContractTypes
<1>12. ContractTypes'
  <2>1. backfill.at = "running" => backfill'.at = "running" /\ backfill'.todo \subseteq backfill.todo
    BY <1>9 DEF BackfillBook
  <2>2. backfill.at = "running"
    BY DEF BackfillBook
  <2>. QED BY <1>9, <1>11, <2>1, <2>2 DEF ContractInv, AgreeInv, ContractTypes
<1>13. i \in Agreements => AgreementOK(r, rec2, bil, today)
  <2>. SUFFICES ASSUME i \in Agreements PROVE AgreementOK(r, rec2, bil, today)
    OBVIOUS
  <2>1. AgreementOK(r, rec, bil, today)
    BY <1>2, <1>3, RowsStand
  <2>2. r.locked /\ Accrues(r, k, today) /\ (r.paid => rec[k] = r.amount)
    BY <1>3, <2>1 DEF AgreementOK
  <2>3. rec[k] # 0 => n = rec[k]
    BY <1>5
  <2>4. r.paid => n = rec[k]
    BY <1>4, <2>2, <2>3
  <2>5. ASSUME NEW j \in Periods, rec2[j] # 0 PROVE r.locked /\ Accrues(r, j, today) /\ Stands(r, j, rec2[j])
    BY <1>8, <1>10, <2>1, <2>2, <2>3, <2>5 DEF AgreementOK
  <2>6. r.paid => \A j \in Periods : Accrues(r, j, today) => rec2[j] = r.amount
    BY <1>8, <2>1, <2>4 DEF AgreementOK
  <2>. QED BY <1>3, <2>1, <2>5, <2>6 DEF AgreementOK
<1>14. i \in Recurring /\ RecurringOK(r, rec) => RecurringOK(r, rec2)
  BY <1>3, <1>5, <1>8, <1>10 DEF RecurringOK
<1>15. AgreeInv'
  BY <1>2, <1>9, <1>11, <1>12, <1>13, TermFacts DEF ContractInv, AgreeInv
<1>16. OnePrice => RecurInv'
  BY <1>2, <1>9, <1>11, <1>14, TermFacts DEF ContractInv, RecurInv
<1>. QED BY <1>15, <1>16 DEF ContractInv, OnePrice

LEMMA BackfillEndStep ==
    ASSUME ContractInv, BackfillEnd
    PROVE  ContractInv'
<1>1. UNCHANGED <<today, row, receipt, billed, nInvoice, slider>> /\ backfill'.at # "running"
  BY DEF BackfillEnd, moneyVars, invoiceVars
<1>2. AgreeInv'
  BY <1>1 DEF ContractInv, AgreeInv, ContractTypes
<1>3. OnePrice => RecurInv'
  BY <1>1 DEF ContractInv, RecurInv
<1>. QED BY <1>2, <1>3 DEF ContractInv, OnePrice

-----------------------------------------------------------------------------
LEMMA LegacyOK ==
    ASSUME NEW m \in {Whole, 1}
    PROVE  /\ Legacy(m) \in TermRow /\ Legacy(m).live /\ ~Legacy(m).paid
           /\ AgreementOK(Legacy(m), [k \in Periods |-> 0], [k \in Periods |-> 0], 1)
<1>1. PICK a : a = (CHOOSE b \in Amounts : TRUE) /\ a \in Nat \ {0}
  BY ContractsAssumption DEF ContractsAssumption
<1>2. PICK mark : mark = [NoMarks EXCEPT ![0] = m]
  OBVIOUS
<1>3. PICK r : r = Legacy(m)
  OBVIOUS
<1>4. r = [NoRow EXCEPT !.live = TRUE, !.amount = a, !.locked = TRUE, !.mark = mark]
  BY <1>1, <1>2, <1>3 DEF Legacy
<1>5. mark \in [Periods -> Marks] /\ \A k \in Periods : mark[k] = IF k = 0 THEN m ELSE NoMark
  BY <1>2, TermFacts DEF Marks, Whole
<1>6. NoRow.start = 0 /\ NoRow.end = Forever
  BY DEF NoRow
<1>7. /\ r \in TermRow /\ r.live /\ ~r.paid /\ r.locked /\ r.amount = a /\ r.mark = mark /\ r.start = 0 /\ r.end = Forever
  BY <1>1, <1>4, <1>5, <1>6, TermFacts DEF TermRow
<1>8. \A k \in Periods : r.mark[k] <= r.amount /\ (r.mark[k] # NoMark => Accrues(r, k, 1))
  <2>1. ASSUME NEW k \in Periods PROVE r.mark[k] <= r.amount /\ (r.mark[k] # NoMark => Accrues(r, k, 1))
    <3>1. r.mark[k] = IF k = 0 THEN m ELSE NoMark
      BY <1>5, <1>7
    <3>2. r.amount \in Nat \ {0} /\ m \in {0, 1}
      BY <1>1, <1>7 DEF Whole
    <3>3. r.mark[k] <= r.amount
      BY <3>1, <3>2 DEF NoMark
    <3>4. k = 0 => Accrues(r, k, 1)
      BY <1>7, TermFacts DEF Accrues
    <3>. QED BY <3>1, <3>3, <3>4
  <2>. QED BY <2>1
<1>. QED BY <1>3, <1>7, <1>8 DEF AgreementOK

LEMMA ContractsStart ==
    ASSUME ContractsInit
    PROVE  ContractInv
<1>1. /\ today = 1 /\ nInvoice = 0 /\ slider.at # "ready" /\ backfill.at # "running"
      /\ receipt = [i \in Accruals |-> [k \in Periods |-> 0]] /\ billed = [i \in Accruals |-> [k \in Periods |-> 0]]
  BY DEF ContractsInit, NoSlider
<1>2. PICK first \in {NoRow, Legacy(Whole), Legacy(1)} : row = [i \in Accruals |-> IF i = 1 THEN first ELSE NoRow]
  BY DEF ContractsInit
<1>3. AgreementOK(NoRow, [k \in Periods |-> 0], [k \in Periods |-> 0], 1)
  <2>1. PICK zero : zero = [k \in Periods |-> 0]
    OBVIOUS
  <2>2. \A k \in Periods : zero[k] = 0 /\ NoRow.mark[k] = NoMark /\ NoRow.mark[k] <= NoRow.amount
    <3>1. NoRow.amount = 1 /\ \A k \in Periods : NoRow.mark[k] = NoMark
      BY TermFacts
    <3>2. NoMark <= 1
      BY DEF NoMark
    <3>3. \A k \in Periods : zero[k] = 0
      BY <2>1
    <3>. QED BY <3>1, <3>2, <3>3
  <2>3. AgreementOK(NoRow, zero, zero, 1)
    BY <2>2, TermFacts DEF AgreementOK
  <2>. QED BY <2>1, <2>3
<1>4. first \in TermRow /\ AgreementOK(first, [k \in Periods |-> 0], [k \in Periods |-> 0], 1)
  BY <1>2, <1>3, LegacyOK, TermFacts
<1>5. 1 \in 1 .. Forever
  BY ContractsAssumption DEF ContractsAssumption, Forever
<1>6. ContractTypes
  BY <1>1, <1>2, <1>4, <1>5, TermFacts DEF ContractTypes
<1>7. ASSUME NEW i \in Agreements PROVE AgreementOK(row[i], receipt[i], billed[i], today)
  <2>1. i \in Accruals
    BY TermFacts
  <2>. QED BY <1>1, <1>2, <1>3, <1>4, <2>1
<1>8. ASSUME NEW i \in Recurring PROVE RecurringOK(row[i], receipt[i])
  <2>1. i \in Accruals /\ i # 1
    BY TermFacts, ContractsAssumption DEF ContractsAssumption
  <2>2. row[i] = NoRow /\ \A k \in Periods : receipt[i][k] = 0
    BY <1>1, <1>2, <2>1
  <2>. QED BY <2>2, TermFacts DEF RecurringOK, NoMark
<1>. QED BY <1>1, <1>6, <1>7, <1>8 DEF ContractInv, AgreeInv, RecurInv

LEMMA ContractsStep ==
    ASSUME Orderly, ContractInv, [ContractsNext]_contractsVars
    PROVE  ContractInv'
<1>1. CASE backfill.at # "running" /\ Request
  <2>1. ASSUME NEW i \in Agreements, NEW cand \in Entries(Amounts, SUBSET Vehicles, CreatedPaid),
               NEW news \in {{}} \cup { {v} : v \in Vehicles }, NEW newPeriod \in BOOLEAN, SaveAgreement(i, cand, news, newPeriod)
        PROVE  ContractInv'
    <3>1. news \in SUBSET Vehicles
      OBVIOUS
    <3>. QED BY <1>1, <2>1, <3>1, SaveStep
  <2>2. ASSUME NEW i \in Agreements, NEW b \in BOOLEAN, DeleteAgreement(i, b) \/ SetAgreementPaid(i, b) PROVE ContractInv'
    BY <1>1, <2>2, DeleteAgreementStep, MasterStep
  <2>3. ASSUME NEW i \in Agreements, NEW k \in Periods, NEW m \in NoMark .. row[i].amount, SetAgreementPeriodPaid(i, k, m)
        PROVE  ContractInv'
    BY <1>1, <2>3, PeriodStep
  <2>4. ASSUME NEW i \in Recurring, NEW cand \in Entries(RecurringAmounts, {{}}, {FALSE}),
               CreateRecurringCharge(i, cand) \/ UpdateRecurringCharge(i, cand)
        PROVE  ContractInv'
    BY <1>1, <2>4, RecurringSavedStep
  <2>5. ASSUME NEW i \in Recurring, DeleteRecurringCharge(i) \/ \E b \in BOOLEAN : SetRecurringChargePaid(i, b)
        PROVE  ContractInv'
    BY <1>1, <2>5, DeleteRecurringStep, RecurringPaidStep
  <2>6. ASSUME NEW i \in Recurring, NEW k \in Periods, NEW m \in NoMark .. row[i].amount, ReadRecurring(i, k, m)
        PROVE  ContractInv'
    BY <2>6, ReadRecurringStep
  <2>7. CASE SetRecurringChargePeriodPaid
    BY <1>1, <2>7, SliderStep
  <2>8. CASE CreateInvoice \/ \E n \in 1 .. MaxInvoices : CancelInvoice(n)
    BY <1>1, <2>8, InvoiceStep, CancelStep
  <2>9. ASSUME NEW v \in Vehicles, VehicleDeleted(v) PROVE ContractInv'
    BY <1>1, <2>9, GoneStep
  <2>10. ASSUME NEW v \in Vehicles, CloseVehicle(v) PROVE ContractInv'
    <3>1. UNCHANGED <<today, row, receipt, billed, slider, backfill, nInvoice>>
      BY <2>10 DEF CloseVehicle, moneyVars, invoiceVars, aheadVars
    <3>2. nInvoice' \in Nat
      BY <3>1 DEF ContractInv, AgreeInv, ContractTypes
    <3>. QED BY <3>1, <3>2, NothingChanges
  <2>11. CASE NextPeriod
    BY <1>1, <2>11, CalendarStep
  <2>. QED BY <1>1, <2>1, <2>2, <2>3, <2>4, <2>5, <2>6, <2>7, <2>8, <2>9, <2>10, <2>11 DEF Request
<1>2. CASE Backfill
  BY <1>2, BackfillReadStep, BackfillBookStep, BackfillEndStep DEF Backfill
<1>3. CASE SweepRead \/ SweepWrite \/ UNCHANGED contractsVars
  <2>1. UNCHANGED <<today, row, receipt, billed, slider, backfill, nInvoice>>
    BY <1>3 DEF SweepRead, SweepWrite, contractsVars, moneyVars, invoiceVars, aheadVars
  <2>2. nInvoice' \in Nat
    BY <2>1 DEF ContractInv, AgreeInv, ContractTypes
  <2>. QED BY <2>1, <2>2, NothingChanges
<1>4. (backfill.at = "running" => BackfillOverlaps) /\ Request => backfill.at # "running" /\ Request
  BY DEF Orderly
<1>. QED BY <1>1, <1>2, <1>3, <1>4 DEF ContractsNext

LEMMA ReceiptsKept ==
    ASSUME ContractInv
    PROVE  ReceiptKeepsItsPeriod
<1>. SUFFICES ASSUME NEW i \in Agreements, NEW k \in Periods, receipt[i][k] # 0
              PROVE  /\ row[i].live /\ row[i].locked /\ k \in Elapsed(row[i])
                     /\ receipt[i][k] <= row[i].amount
                     /\ billed[i][k] # 0 => receipt[i][k] < row[i].amount
  BY DEF ReceiptKeepsItsPeriod
<1>1. PICK r, rec, bil : r = row[i] /\ rec = receipt[i] /\ bil = billed[i]
  OBVIOUS
<1>2. i \in Accruals
  BY TermFacts
<1>3. /\ r \in TermRow /\ r.amount \in Nat \ {0} /\ AgreementOK(r, rec, bil, today)
  BY <1>1, <1>2, RowsStand DEF TermRow
<1>4. r.live /\ r.locked /\ Accrues(r, k, today) /\ Stands(r, k, rec[k]) /\ r.mark[k] <= r.amount
  BY <1>1, <1>3 DEF AgreementOK
<1>5. rec[k] <= r.amount
  BY <1>3, <1>4 DEF Stands
<1>6. bil[k] # 0 => rec[k] < r.amount
  BY <1>3, <1>4 DEF AgreementOK, Stands
<1>. QED BY <1>1, <1>4, <1>5, <1>6 DEF Elapsed, Accrues

LEMMA OwedIsBilled ==
    ASSUME OnePrice, ContractInv
    PROVE  OwesWhatIsBilled
<1>. SUFFICES ASSUME NEW i \in Accruals, row[i].live, NEW k \in Complete(row[i]), billed[i][k] = 0
              PROVE  Owed(i, k) = OpenOf(row[i], k)
  BY DEF OwesWhatIsBilled
<1>1. PICK r, n, m : r = row[i] /\ n = receipt[i][k] /\ m = r.mark[k]
  OBVIOUS
<1>2. k \in Periods /\ k < today /\ Accrues(r, k, today)
  BY <1>1 DEF Complete, Elapsed, Accrues
<1>3. r \in TermRow /\ r.amount \in Nat \ {0} /\ m \in Marks /\ n \in Nat
  BY <1>1, <1>2, RowsStand DEF TermRow
<1>4. Cost(r, k) = r.amount
  BY <1>2 DEF Cost
<1>5. n # 0 => Stands(r, k, n) /\ m <= r.amount /\ (r.paid => n = r.amount)
  <2>1. CASE i \in Agreements
    <3>1. AgreementOK(r, receipt[i], billed[i], today)
      BY <1>1, <2>1, RowsStand
    <3>. QED BY <1>1, <1>2, <3>1 DEF AgreementOK
  <2>2. CASE i \in Recurring
    <3>1. RecurringOK(r, receipt[i])
      BY <1>1, <2>2 DEF ContractInv, RecurInv
    <3>. QED BY <1>1, <1>2, <3>1 DEF RecurringOK
  <2>. QED BY <2>1, <2>2 DEF Accruals
<1>6. PaidPart(r, k) \in Int /\ (n # 0 => PaidPart(r, k) = n)
  <2>1. CASE r.paid \/ m = Whole
    <3>1. PaidPart(r, k) = r.amount
      BY <1>1, <1>4, <2>1 DEF PaidPart
    <3>2. n # 0 => n = r.amount
      BY <1>1, <1>3, <1>5, <2>1 DEF Stands, Whole
    <3>. QED BY <1>3, <3>1, <3>2
  <2>2. CASE ~(r.paid \/ m = Whole)
    <3>1. n # 0 => m > 0 /\ n = m /\ m <= r.amount
      BY <1>1, <1>5, <2>2 DEF Stands
    <3>2. PaidPart(r, k) = IF m = NoMark THEN 0 ELSE LowerOf(m, r.amount)
      BY <1>1, <1>4, <2>2 DEF PaidPart
    <3>3. LowerOf(m, r.amount) = IF m < r.amount THEN m ELSE r.amount
      BY DEF LowerOf
    <3>4. n # 0 => m # NoMark
      BY <1>3, <3>1 DEF NoMark
    <3>. QED BY <1>3, <3>1, <3>2, <3>3, <3>4 DEF Marks, NoMark
  <2>. QED BY <2>1, <2>2
<1>7. Owed(i, k) = r.amount - (IF n # 0 THEN 0 ELSE PaidPart(r, k)) - n
  BY <1>1, <1>4 DEF Owed, OffBookCredit
<1>8. OpenOf(row[i], k) = r.amount - PaidPart(r, k)
  BY <1>1, <1>4 DEF OpenOf
<1>. QED BY <1>3, <1>6, <1>7, <1>8

\* Safety.  Where requests wait for the backfill and no agreement is entered paid, a receipt of
\* an agreement keeps its subject (settlement_locked, preservePeriodPaymentHistoryTx).
THEOREM ReceiptsKeepTheirPeriods == Orderly => (ContractsSpec => []ReceiptKeepsItsPeriod)
<1>. SUFFICES ASSUME Orderly PROVE ContractsSpec => []ReceiptKeepsItsPeriod
  OBVIOUS
<1>1. ContractsInit => ContractInv
  BY ContractsStart
<1>2. ContractInv /\ [ContractsNext]_contractsVars => ContractInv'
  BY ContractsStep
<1>3. ContractInv => ReceiptKeepsItsPeriod
  BY ReceiptsKept
<1>. QED BY <1>1, <1>2, <1>3, PTL DEF ContractsSpec

\* Safety.  If besides the price of a recurring cost does not change, the balance of a complete
\* period is what the next invoice will bill for it (personPeriodPaid, invoiceLines,
\* recordPeriodPaymentTx).
THEOREM OwedIsAsked == Orderly /\ OnePrice => (ContractsSpec => []OwesWhatIsBilled)
<1>. SUFFICES ASSUME Orderly, OnePrice PROVE ContractsSpec => []OwesWhatIsBilled
  OBVIOUS
<1>1. ContractsInit => ContractInv
  BY ContractsStart
<1>2. ContractInv /\ [ContractsNext]_contractsVars => ContractInv'
  BY ContractsStep
<1>3. ContractInv => OwesWhatIsBilled
  BY OwedIsBilled
<1>. QED BY <1>1, <1>2, <1>3, PTL DEF ContractsSpec

-----------------------------------------------------------------------------
\* What validateAgreementTx guards: no two live agreements share a vehicle and a time, and no
\* live agreement names a vehicle that is still to come.
FleetRow == [is : {"absent", "stored", "closed", "gone"}, start : Nat, archived : BOOLEAN, extra : {"open", "settled"}, bill : Nat]

CoverTypes == /\ row \in [Accruals -> TermRow] /\ nInvoice \in Nat /\ fleet \in [Vehicles -> FleetRow]
              /\ slider.at = "ready" => slider.i \in Recurring /\ slider.k \in Periods /\ slider.mark \in Marks
Apart      == /\ \A i \in Agreements : row[i].live => \A v \in row[i].vehicles : fleet[v].is # "absent"
              /\ \A i, j \in Agreements : i # j /\ row[i].live /\ row[j].live => ~Conflict(row[i], row[j])
CoverInv   == CoverTypes /\ Apart

SameTerms(a, b) == a.live => b.live /\ a.start = b.start /\ a.end = b.end /\ a.vehicles = b.vehicles

LEMMA StillApart ==
    ASSUME CoverInv, CoverTypes', \A i \in Agreements : SameTerms(row'[i], row[i]),
           \A v \in Vehicles : fleet'[v].is = "absent" => fleet[v].is = "absent"
    PROVE  CoverInv'
<1>1. ASSUME NEW i \in Agreements, row'[i].live, NEW v \in row'[i].vehicles PROVE fleet'[v].is # "absent"
  <2>1. row[i].live /\ v \in row[i].vehicles
    BY <1>1 DEF SameTerms
  <2>2. v \in Vehicles
    BY <2>1, TermFacts DEF CoverInv, CoverTypes, TermRow
  <2>. QED BY <2>1, <2>2 DEF CoverInv, Apart
<1>2. ASSUME NEW i \in Agreements, NEW j \in Agreements, i # j, row'[i].live, row'[j].live
      PROVE  ~Conflict(row'[i], row'[j])
  <2>1. SameTerms(row'[i], row[i]) /\ SameTerms(row'[j], row[j]) /\ ~Conflict(row[i], row[j])
    BY <1>2 DEF SameTerms, CoverInv, Apart
  <2>. QED BY <1>2, <2>1 DEF SameTerms, Conflict, OverlapInTime
<1>. QED BY <1>1, <1>2 DEF CoverInv, Apart

\* A request that leaves the terms of all agreements alone.
LEMMA TermsStay ==
    ASSUME CoverInv, NEW i \in Accruals, NEW new \in TermRow, row' = [row EXCEPT ![i] = new],
           i \in Agreements => SameTerms(new, row[i]), slider' = slider \/ slider'.at # "ready",
           nInvoice' \in Nat, fleet' \in [Vehicles -> FleetRow],
           \A v \in Vehicles : fleet'[v].is = "absent" => fleet[v].is = "absent"
    PROVE  CoverInv'
<1>1. row' \in [Accruals -> TermRow] /\ row'[i] = new /\ \A j \in Accruals : j # i => row'[j] = row[j]
  BY DEF CoverInv, CoverTypes
<1>2. CoverTypes'
  BY <1>1 DEF CoverInv, CoverTypes
<1>3. ASSUME NEW j \in Agreements PROVE SameTerms(row'[j], row[j])
  BY <1>1, TermFacts DEF SameTerms
<1>. QED BY <1>2, <1>3, StillApart

LEMMA CoverRows ==
    ASSUME CoverInv, NEW i \in Accruals
    PROVE  row[i] \in TermRow /\ row[i].amount \in Nat \ {0} /\ row[i].mark \in [Periods -> Marks] /\ row[i].paid \in BOOLEAN
           /\ row[i].locked \in BOOLEAN
BY DEF CoverInv, CoverTypes, TermRow

LEMMA ConflictIsMutual ==
    ASSUME NEW a, NEW b PROVE Conflict(a, b) <=> Conflict(b, a)
BY DEF Conflict, OverlapInTime

\* Creating or editing an agreement, also with new vehicles.
LEMMA SavedApart ==
    ASSUME CoverInv, NEW i \in Agreements, NEW cand \in Entries(Amounts, SUBSET Vehicles, CreatedPaid),
           NEW news \in SUBSET Vehicles, NEW newPeriod \in BOOLEAN, SaveAgreement(i, cand, news, newPeriod)
    PROVE  CoverInv'
<1>1. cand \in TermRow /\ cand.live /\ cand.mark = NoMarks
  <2>1. Amounts \in SUBSET (Nat \ {0}) /\ CreatedPaid \in SUBSET BOOLEAN /\ SUBSET Vehicles \in SUBSET (SUBSET Vehicles)
    BY ContractsAssumption DEF ContractsAssumption
  <2>. QED BY <2>1, EnteredTerms
<1>2. PICK all : all = [cand EXCEPT !.vehicles = @ \cup news]
  OBVIOUS
<1>3. /\ all \in TermRow /\ all.start = cand.start /\ all.end = cand.end /\ all.vehicles = cand.vehicles \cup news
  BY <1>1, <1>2 DEF TermRow
<1>4. i \in Accruals
  BY TermFacts
<1>5. PICK r : r = row[i] /\ r \in TermRow /\ r.paid \in BOOLEAN /\ r.locked \in BOOLEAN /\ r.mark \in [Periods -> Marks]
  BY <1>4, CoverRows
<1>6. PICK new : /\ row' = [row EXCEPT ![i] = new]
                 /\ \/ new = all
                    \/ new = [all EXCEPT !.paid = r.paid, !.locked = r.locked, !.mark = IF newPeriod THEN NoMarks ELSE r.mark]
  BY <1>2, <1>5 DEF SaveAgreement
<1>7. new \in TermRow /\ new.start = all.start /\ new.end = all.end /\ new.vehicles = all.vehicles
  <2>1. NoMarks \in [Periods -> Marks]
    BY TermFacts
  <2>. QED BY <1>3, <1>5, <1>6, <2>1 DEF TermRow
<1>8. row' \in [Accruals -> TermRow] /\ row'[i] = new /\ \A j \in Accruals : j # i => row'[j] = row[j]
  BY <1>4, <1>6, <1>7 DEF CoverInv, CoverTypes
<1>9. /\ fleet' = [v \in Vehicles |-> IF v \in news THEN [fleet[v] EXCEPT !.is = "stored", !.start = cand.start] ELSE fleet[v]]
      /\ UNCHANGED <<nInvoice, slider>> /\ news \subseteq { v \in Vehicles : fleet[v].is = "absent" }
      /\ ValidAgreement(i, cand, news)
  BY DEF SaveAgreement, invoiceVars, aheadVars
<1>10. cand.start \in Nat
  BY <1>1, TermFacts DEF TermRow
<1>11. ASSUME NEW v \in Vehicles
       PROVE  /\ fleet'[v] \in FleetRow
              /\ fleet'[v].is = IF v \in news THEN "stored" ELSE fleet[v].is
  <2>1. fleet[v] \in FleetRow
    BY DEF CoverInv, CoverTypes
  <2>2. PICK f : f = [fleet[v] EXCEPT !.is = "stored", !.start = cand.start] /\ f \in FleetRow /\ f.is = "stored"
    <3>1. PICK s \in Nat : s = cand.start
      BY <1>10
    <3>2. PICK f : f = [fleet[v] EXCEPT !.is = "stored", !.start = s]
      OBVIOUS
    <3>3. f \in FleetRow /\ f.is = "stored"
      BY <2>1, <3>2 DEF FleetRow
    <3>. QED BY <3>1, <3>2, <3>3
  <2>3. fleet'[v] = IF v \in news THEN f ELSE fleet[v]
    BY <1>9, <2>2
  <2>. QED BY <2>1, <2>2, <2>3
<1>12. fleet' \in [Vehicles -> FleetRow]
  BY <1>9, <1>11
<1>13. CoverTypes'
  BY <1>8, <1>9, <1>12 DEF CoverInv, CoverTypes
<1>14. ASSUME NEW v \in new.vehicles PROVE fleet'[v].is # "absent"
  <2>1. v \in news \/ v \in Present
    BY <1>3, <1>7, <1>9, <1>14 DEF ValidAgreement
  <2>2. v \in Vehicles
    BY <2>1 DEF Present
  <2>. QED BY <1>11, <2>1, <2>2 DEF Present
<1>15. ASSUME NEW j \in Agreements, j # i, row[j].live PROVE ~Conflict(new, row[j])
  <2>1. j \in Accruals /\ \A v \in row[j].vehicles : fleet[v].is # "absent"
    BY <1>15, TermFacts DEF CoverInv, Apart
  <2>2. news \cap row[j].vehicles = {}
    BY <1>9, <2>1
  <2>3. CASE ~Conflict(cand, row[j])
    BY <1>3, <1>7, <2>2, <2>3 DEF Conflict, OverlapInTime
  <2>4. CASE cand.vehicles = {} /\ news # {} /\ row[j].vehicles # {}
    BY <1>3, <1>7, <2>2, <2>4 DEF Conflict
  <2>. QED BY <1>9, <1>15, <2>3, <2>4 DEF ValidAgreement
<1>16. ASSUME NEW j \in Agreements, row'[j].live, NEW v \in row'[j].vehicles PROVE fleet'[v].is # "absent"
  <2>1. CASE j = i
    BY <1>8, <1>14, <1>16, <2>1
  <2>2. CASE j # i
    <3>1. row'[j] = row[j] /\ v \in Vehicles
      BY <1>8, <1>16, <2>2, TermFacts DEF TermRow
    <3>2. fleet[v].is # "absent"
      BY <1>16, <3>1 DEF CoverInv, Apart
    <3>. QED BY <1>11, <3>1, <3>2
  <2>. QED BY <2>1, <2>2
<1>17. ASSUME NEW j \in Agreements, NEW l \in Agreements, j # l, row'[j].live, row'[l].live PROVE ~Conflict(row'[j], row'[l])
  <2>1. CASE j = i
    BY <1>8, <1>15, <1>17, <2>1, TermFacts
  <2>2. CASE l = i
    BY <1>8, <1>15, <1>17, <2>2, TermFacts, ConflictIsMutual
  <2>3. CASE j # i /\ l # i
    BY <1>8, <1>17, <2>3, TermFacts DEF CoverInv, Apart
  <2>. QED BY <2>1, <2>2, <2>3
<1>. QED BY <1>13, <1>16, <1>17 DEF CoverInv, Apart

\* The other requests about agreements.
LEMMA DeletedApart ==
    ASSUME CoverInv, NEW i \in Agreements, NEW b, DeleteAgreement(i, b)
    PROVE  CoverInv'
<1>a. PICK only : only = { v \in row[i].vehicles : \A j \in Agreements \ {i} : v \notin row[j].vehicles }
  OBVIOUS
<1>b. PICK drop : drop = { v \in only : b }
  OBVIOUS
<1>c. \A v : b /\ v \in only <=> v \in drop
  BY <1>b
<1>d. fleet' = [v \in Vehicles |-> IF b /\ v \in only THEN [fleet[v] EXCEPT !.is = "gone", !.archived = FALSE] ELSE fleet[v]]
  BY <1>a DEF DeleteAgreement
<1>1. fleet' = [v \in Vehicles |-> IF v \in drop THEN [fleet[v] EXCEPT !.is = "gone", !.archived = FALSE] ELSE fleet[v]]
  BY <1>c, <1>d
<1>2. ASSUME NEW v \in Vehicles PROVE fleet'[v] \in FleetRow /\ (fleet'[v].is = "absent" => fleet[v].is = "absent")
  <2>1. fleet[v] \in FleetRow
    BY DEF CoverInv, CoverTypes
  <2>2. PICK f : f = [fleet[v] EXCEPT !.is = "gone", !.archived = FALSE]
    OBVIOUS
  <2>3. f \in FleetRow /\ f.is = "gone"
    BY <2>1, <2>2 DEF FleetRow
  <2>4. fleet'[v] = IF v \in drop THEN f ELSE fleet[v]
    BY <1>1, <2>2
  <2>. QED BY <2>1, <2>3, <2>4
<1>3. fleet' \in [Vehicles -> FleetRow]
  BY <1>1, <1>2
<1>4. row' = [row EXCEPT ![i] = NoRow] /\ UNCHANGED <<slider, nInvoice>> /\ nInvoice' \in Nat
  BY DEF DeleteAgreement, invoiceVars, aheadVars, CoverInv, CoverTypes
<1>5. NoRow \in TermRow /\ SameTerms(NoRow, row[i]) /\ i \in Accruals
  BY TermFacts DEF SameTerms
<1>. QED BY <1>2, <1>3, <1>4, <1>5, TermsStay

LEMMA MasterApart ==
    ASSUME CoverInv, NEW i \in Agreements, NEW paid \in BOOLEAN, SetAgreementPaid(i, paid)
    PROVE  CoverInv'
<1>1. PICK r : r = row[i] /\ r \in TermRow /\ r.locked \in BOOLEAN /\ i \in Accruals
  BY CoverRows, TermFacts
<1>2. PICK new : new = [r EXCEPT !.paid = paid, !.locked = LockOn(@, paid), !.mark = NoMarks]
  OBVIOUS
<1>3. new \in TermRow /\ SameTerms(new, r)
  BY <1>1, <1>2, TermFacts DEF TermRow, SameTerms, LockOn
<1>4. row' = [row EXCEPT ![i] = new] /\ UNCHANGED <<slider, nInvoice>> /\ nInvoice' \in Nat
  BY <1>1, <1>2 DEF SetAgreementPaid, invoiceVars, aheadVars, CoverInv, CoverTypes
<1>a. PICK done : done = IF paid THEN OpenExtras(i) ELSE {}
  OBVIOUS
<1>5. fleet' = [v \in Vehicles |-> IF v \in done THEN [fleet[v] EXCEPT !.extra = "settled"] ELSE fleet[v]]
  <2>1. CASE paid
    BY <1>a, <2>1 DEF SetAgreementPaid
  <2>2. CASE ~paid
    <3>1. fleet' = fleet /\ fleet = [v \in Vehicles |-> fleet[v]]
      BY <2>2 DEF SetAgreementPaid, CoverInv, CoverTypes
    <3>. QED BY <1>a, <2>2, <3>1
  <2>. QED BY <2>1, <2>2
<1>6. ASSUME NEW v \in Vehicles PROVE fleet'[v] \in FleetRow /\ fleet'[v].is = fleet[v].is
  <2>1. fleet[v] \in FleetRow
    BY DEF CoverInv, CoverTypes
  <2>2. PICK f : f = [fleet[v] EXCEPT !.extra = "settled"]
    OBVIOUS
  <2>3. f \in FleetRow /\ f.is = fleet[v].is
    BY <2>1, <2>2 DEF FleetRow
  <2>4. fleet'[v] = IF v \in done THEN f ELSE fleet[v]
    BY <1>5, <2>2
  <2>. QED BY <2>1, <2>3, <2>4
<1>7. fleet' \in [Vehicles -> FleetRow]
  BY <1>5, <1>6
<1>. QED BY <1>1, <1>3, <1>4, <1>6, <1>7, TermsStay

LEMMA PeriodApart ==
    ASSUME CoverInv, NEW i \in Agreements, NEW k \in Periods, NEW m \in NoMark .. row[i].amount, SetAgreementPeriodPaid(i, k, m)
    PROVE  CoverInv'
<1>1. PICK r : r = row[i] /\ r \in TermRow /\ r.locked \in BOOLEAN /\ r.mark \in [Periods -> Marks] /\ r.amount \in Nat /\ i \in Accruals
  BY CoverRows, TermFacts
<1>2. m \in Marks
  BY <1>1 DEF Marks, NoMark
<1>3. UNCHANGED <<slider, nInvoice, fleet>> /\ nInvoice' \in Nat /\ fleet' \in [Vehicles -> FleetRow]
  BY DEF SetAgreementPeriodPaid, invoiceVars, aheadVars, CoverInv, CoverTypes
<1>4. CASE m = NoMark
  <2>1. PICK mark : mark = [SpreadPaid(i) EXCEPT ![k] = NoMark]
    OBVIOUS
  <2>2. mark \in [Periods -> Marks]
    BY <1>1, <2>1 DEF SpreadPaid, Marks, Whole
  <2>3. PICK new : new = [r EXCEPT !.paid = FALSE, !.mark = mark]
    OBVIOUS
  <2>4. row' = [row EXCEPT ![i] = new]
    BY <1>1, <1>4, <2>1, <2>3 DEF SetAgreementPeriodPaid
  <2>5. new \in TermRow /\ SameTerms(new, r)
    BY <1>1, <2>2, <2>3 DEF TermRow, SameTerms
  <2>. QED BY <1>1, <1>3, <2>4, <2>5, TermsStay
<1>5. CASE m # NoMark
  <2>1. PICK mark : mark = [r.mark EXCEPT ![k] = m]
    OBVIOUS
  <2>2. mark \in [Periods -> Marks]
    BY <1>1, <1>2, <2>1
  <2>3. PICK new : new = [r EXCEPT !.locked = LockOn(r.locked, TRUE), !.mark[k] = m]
    OBVIOUS
  <2>4. row' = [row EXCEPT ![i] = new]
    BY <1>1, <1>5, <2>3 DEF SetAgreementPeriodPaid
  <2>5. new.mark = mark /\ new \in TermRow /\ SameTerms(new, r)
    BY <1>1, <2>1, <2>2, <2>3 DEF TermRow, SameTerms, LockOn
  <2>. QED BY <1>1, <1>3, <2>4, <2>5, TermsStay
<1>. QED BY <1>4, <1>5

\* Recurring costs cover no vehicle.
LEMMA RecurringApart ==
    ASSUME CoverInv, NEW i \in Recurring,
           \/ \E cand \in Entries(RecurringAmounts, {{}}, {FALSE}) : CreateRecurringCharge(i, cand) \/ UpdateRecurringCharge(i, cand)
           \/ DeleteRecurringCharge(i)
           \/ \E b \in BOOLEAN : SetRecurringChargePaid(i, b)
           \/ i = slider.i /\ SetRecurringChargePeriodPaid
    PROVE  CoverInv'
<1>1. PICK r : r = row[i] /\ r \in TermRow /\ r.mark \in [Periods -> Marks] /\ i \in Accruals /\ i \notin Agreements
  BY CoverRows, TermFacts
<1>a. slider' = slider \/ slider'.at # "ready"
  <2>1. ASSUME NEW cand, CreateRecurringCharge(i, cand) \/ UpdateRecurringCharge(i, cand) PROVE slider' = slider
    BY <2>1 DEF CreateRecurringCharge, UpdateRecurringCharge, aheadVars
  <2>2. ASSUME DeleteRecurringCharge(i) \/ \E b \in BOOLEAN : SetRecurringChargePaid(i, b) PROVE slider' = slider
    BY <2>2 DEF DeleteRecurringCharge, SetRecurringChargePaid, aheadVars
  <2>3. ASSUME SetRecurringChargePeriodPaid PROVE slider'.at # "ready"
    BY <2>3 DEF SetRecurringChargePeriodPaid, NoSlider
  <2>. QED BY <2>1, <2>2, <2>3
<1>b. UNCHANGED <<nInvoice, fleet>>
  BY DEF CreateRecurringCharge, UpdateRecurringCharge, DeleteRecurringCharge, SetRecurringChargePaid, SetRecurringChargePeriodPaid,
         invoiceVars
<1>2. /\ slider' = slider \/ slider'.at # "ready"
      /\ nInvoice' \in Nat /\ fleet' \in [Vehicles -> FleetRow] /\ \A v \in Vehicles : fleet'[v] = fleet[v]
  BY <1>a, <1>b DEF CoverInv, CoverTypes
<1>3. \E new \in TermRow : row' = [row EXCEPT ![i] = new]
  <2>1. ASSUME NEW cand \in Entries(RecurringAmounts, {{}}, {FALSE}), CreateRecurringCharge(i, cand)
        PROVE  \E new \in TermRow : row' = [row EXCEPT ![i] = new]
    BY <2>1, RecurringTerms DEF CreateRecurringCharge
  <2>2. ASSUME NEW cand \in Entries(RecurringAmounts, {{}}, {FALSE}), UpdateRecurringCharge(i, cand)
        PROVE  \E new \in TermRow : row' = [row EXCEPT ![i] = new]
    <3>1. PICK new : new = [cand EXCEPT !.mark = r.mark]
      OBVIOUS
    <3>2. new \in TermRow
      BY <1>1, <3>1, RecurringTerms DEF TermRow
    <3>. QED BY <1>1, <2>2, <3>1, <3>2 DEF UpdateRecurringCharge
  <2>3. CASE DeleteRecurringCharge(i)
    BY <2>3, TermFacts DEF DeleteRecurringCharge
  <2>4. ASSUME NEW mark \in [Periods -> Marks], row' = [row EXCEPT ![i].mark = mark]
        PROVE  \E new \in TermRow : row' = [row EXCEPT ![i] = new]
    <3>1. PICK new : new = [r EXCEPT !.mark = mark]
      OBVIOUS
    <3>2. new \in TermRow
      BY <1>1, <3>1 DEF TermRow
    <3>. QED BY <1>1, <2>4, <3>1, <3>2
  <2>5. ASSUME NEW b \in BOOLEAN, SetRecurringChargePaid(i, b)
        PROVE  \E mark \in [Periods -> Marks] : row' = [row EXCEPT ![i].mark = mark]
    <3>1. CASE b
      <4>1. PICK due : row' = [row EXCEPT ![i].mark = [k \in Periods |-> IF k \in due THEN Whole ELSE @[k]]]
        BY <2>5, <3>1 DEF SetRecurringChargePaid, SettleRecurring
      <4>2. PICK mark : mark = [k \in Periods |-> IF k \in due THEN Whole ELSE r.mark[k]]
        OBVIOUS
      <4>3. mark \in [Periods -> Marks]
        BY <1>1, <4>2 DEF Marks, Whole
      <4>. QED BY <1>1, <4>1, <4>2, <4>3
    <3>2. CASE ~b
      <4>1. PICK mark : mark = [k \in Periods |-> IF billed[i][k] # 0 THEN r.mark[k] ELSE NoMark]
        OBVIOUS
      <4>2. mark \in [Periods -> Marks]
        BY <1>1, <4>1 DEF Marks
      <4>. QED BY <1>1, <2>5, <3>2, <4>1, <4>2 DEF SetRecurringChargePaid
    <3>. QED BY <3>1, <3>2
  <2>6. CASE i = slider.i /\ SetRecurringChargePeriodPaid
    <3>1. PICK k, m : k = slider.k /\ m = slider.mark /\ k \in Periods /\ m \in Marks
      BY <2>6 DEF SetRecurringChargePeriodPaid, CoverInv, CoverTypes
    <3>2. row' = row \/ row' = [row EXCEPT ![i].mark[k] = m]
      BY <2>6, <3>1 DEF SetRecurringChargePeriodPaid
    <3>3. CASE row' = row
      <4>1. row' = [row EXCEPT ![i] = r]
        BY <1>1, <3>3 DEF CoverInv, CoverTypes
      <4>. QED BY <1>1, <4>1
    <3>4. CASE row' = [row EXCEPT ![i].mark[k] = m]
      <4>1. PICK new : new = [r EXCEPT !.mark[k] = m]
        OBVIOUS
      <4>2. PICK mark : mark = [r.mark EXCEPT ![k] = m]
        OBVIOUS
      <4>3. mark \in [Periods -> Marks]
        BY <1>1, <3>1, <4>2
      <4>4. new \in TermRow
        BY <1>1, <4>1, <4>2, <4>3 DEF TermRow
      <4>. QED BY <1>1, <3>4, <4>1, <4>4
    <3>. QED BY <3>2, <3>3, <3>4
  <2>. QED BY <2>1, <2>2, <2>3, <2>4, <2>5, <2>6
<1>4. PICK new \in TermRow : row' = [row EXCEPT ![i] = new]
  BY <1>3
<1>. QED BY <1>1, <1>2, <1>4, TermsStay

\* Steps that change no agreement.
LEMMA RowsApart ==
    ASSUME CoverInv, UNCHANGED row, nInvoice' \in Nat, fleet' \in [Vehicles -> FleetRow],
           \A v \in Vehicles : fleet'[v].is = "absent" => fleet[v].is = "absent",
           slider'.at = "ready" => slider'.i \in Recurring /\ slider'.k \in Periods /\ slider'.mark \in Marks
    PROVE  CoverInv'
<1>1. CoverTypes'
  BY DEF CoverInv, CoverTypes
<1>2. \A i \in Agreements : SameTerms(row'[i], row[i])
  BY DEF SameTerms
<1>. QED BY <1>1, <1>2, StillApart

LEMMA InvoiceApart ==
    ASSUME CoverInv, CreateInvoice \/ \E n \in 1 .. MaxInvoices : CancelInvoice(n)
    PROVE  CoverInv'
<1>1. nInvoice \in Nat /\ nInvoice' \in Nat /\ UNCHANGED <<row, slider>>
  BY DEF CoverInv, CoverTypes, CreateInvoice, CancelInvoice, aheadVars
<1>2. \E S : \E n \in Nat : fleet' = [v \in Vehicles |-> IF v \in S THEN [fleet[v] EXCEPT !.bill = n] ELSE fleet[v]]
  <2>1. ASSUME CreateInvoice
        PROVE  fleet' = [v \in Vehicles |-> IF v \in ToBillExtras THEN [fleet[v] EXCEPT !.bill = nInvoice'] ELSE fleet[v]]
    BY <2>1 DEF CreateInvoice
  <2>2. ASSUME NEW n, CancelInvoice(n)
        PROVE  \E S : fleet' = [v \in Vehicles |-> IF v \in S THEN [fleet[v] EXCEPT !.bill = 0] ELSE fleet[v]]
    <3>1. PICK S : S = { v \in Vehicles : fleet[v].bill = n }
      OBVIOUS
    <3>2. fleet' = [v \in Vehicles |-> IF fleet[v].bill = n THEN [fleet[v] EXCEPT !.bill = 0] ELSE fleet[v]]
      BY <2>2 DEF CancelInvoice
    <3>3. fleet' = [v \in Vehicles |-> IF v \in S THEN [fleet[v] EXCEPT !.bill = 0] ELSE fleet[v]]
      BY <3>1, <3>2
    <3>. QED BY <3>3
  <2>. QED BY <1>1, <2>1, <2>2
<1>p. PICK S : \E n \in Nat : fleet' = [v \in Vehicles |-> IF v \in S THEN [fleet[v] EXCEPT !.bill = n] ELSE fleet[v]]
  BY <1>2
<1>q. PICK n \in Nat : fleet' = [v \in Vehicles |-> IF v \in S THEN [fleet[v] EXCEPT !.bill = n] ELSE fleet[v]]
  BY <1>p
<1>3. ASSUME NEW v \in Vehicles PROVE fleet'[v] \in FleetRow /\ fleet'[v].is = fleet[v].is
  <2>1. fleet[v] \in FleetRow
    BY DEF CoverInv, CoverTypes
  <2>2. PICK f : f = [fleet[v] EXCEPT !.bill = n]
    OBVIOUS
  <2>3. f \in FleetRow /\ f.is = fleet[v].is
    BY <2>1, <2>2 DEF FleetRow
  <2>4. fleet'[v] = IF v \in S THEN f ELSE fleet[v]
    BY <1>q, <2>2
  <2>. QED BY <2>1, <2>3, <2>4
<1>4. fleet' \in [Vehicles -> FleetRow]
  BY <1>q, <1>3
<1>5. slider'.at = "ready" => slider'.i \in Recurring /\ slider'.k \in Periods /\ slider'.mark \in Marks
  BY <1>1 DEF CoverInv, CoverTypes
<1>. QED BY <1>1, <1>3, <1>4, <1>5, RowsApart

LEMMA VehiclesApart ==
    ASSUME CoverInv, SweepWrite \/ \E v \in Vehicles : CloseVehicle(v)
    PROVE  CoverInv'
<1>1. UNCHANGED <<row, slider, nInvoice>> /\ nInvoice' \in Nat
  BY DEF CoverInv, CoverTypes, CloseVehicle, SweepWrite, invoiceVars, aheadVars
<1>2. fleet' \in [Vehicles -> FleetRow] /\ \A v \in Vehicles : fleet'[v].is = "absent" => fleet[v].is = "absent"
  <2>1. ASSUME NEW u \in Vehicles, CloseVehicle(u)
        PROVE  fleet' \in [Vehicles -> FleetRow] /\ \A v \in Vehicles : fleet'[v].is = "absent" => fleet[v].is = "absent"
    <3>1. PICK f : f = [fleet[u] EXCEPT !.is = "closed", !.archived = TRUE]
      OBVIOUS
    <3>2. fleet[u] \in FleetRow
      BY DEF CoverInv, CoverTypes
    <3>3. f \in FleetRow /\ f.is = "closed"
      BY <3>1, <3>2 DEF FleetRow
    <3>4. fleet' = [fleet EXCEPT ![u] = f]
      BY <2>1, <3>1 DEF CloseVehicle
    <3>. QED BY <3>3, <3>4 DEF CoverInv, CoverTypes
  <2>2. CASE SweepWrite
    <3>1. ASSUME NEW v \in Vehicles PROVE fleet'[v] \in FleetRow /\ fleet'[v].is = fleet[v].is
      <4>1. fleet[v] \in FleetRow /\ fleet[v].archived \in BOOLEAN
        BY DEF CoverInv, CoverTypes, FleetRow
      <4>2. PICK b \in BOOLEAN : b = ((fleet[v].archived /\ v \notin sweep.wake) \/ v \in sweep.archive)
        BY <4>1
      <4>3. PICK f : f = [fleet[v] EXCEPT !.archived = b]
        OBVIOUS
      <4>4. f \in FleetRow /\ f.is = fleet[v].is
        BY <4>1, <4>3 DEF FleetRow
      <4>5. fleet'[v] = IF v \in Present THEN f ELSE fleet[v]
        BY <2>2, <4>2, <4>3 DEF SweepWrite
      <4>. QED BY <4>1, <4>4, <4>5
    <3>2. fleet' = [v \in Vehicles |-> fleet'[v]]
      BY <2>2 DEF SweepWrite
    <3>3. fleet' \in [Vehicles -> FleetRow]
      BY <3>1, <3>2
    <3>. QED BY <3>1, <3>3
  <2>. QED BY <2>1, <2>2
<1>3. slider'.at = "ready" => slider'.i \in Recurring /\ slider'.k \in Periods /\ slider'.mark \in Marks
  BY <1>1 DEF CoverInv, CoverTypes
<1>. QED BY <1>1, <1>2, <1>3, RowsApart

LEMMA RestApart ==
    ASSUME CoverInv,
           \/ NextPeriod \/ Backfill \/ SweepRead \/ UNCHANGED contractsVars
           \/ \E i \in Recurring, k \in Periods : \E m \in NoMark .. row[i].amount : ReadRecurring(i, k, m)
    PROVE  CoverInv'
<1>1. UNCHANGED <<row, nInvoice, fleet>>
  BY DEF NextPeriod, Backfill, BackfillRead, BackfillBook, BackfillEnd, SweepRead, ReadRecurring, contractsVars, moneyVars,
         invoiceVars, aheadVars
<1>2. slider'.at = "ready" => slider'.i \in Recurring /\ slider'.k \in Periods /\ slider'.mark \in Marks
  <2>1. ASSUME NEW i \in Recurring, NEW k \in Periods, NEW m \in NoMark .. row[i].amount, ReadRecurring(i, k, m)
        PROVE  slider'.i \in Recurring /\ slider'.k \in Periods /\ slider'.mark \in Marks
    <3>1. slider' = [at |-> "ready", i |-> i, k |-> k, mark |-> m, was |-> [row[i] EXCEPT !.mark = NoMarks]]
      BY <2>1 DEF ReadRecurring
    <3>2. m \in Marks
      BY CoverRows, TermFacts DEF Marks, NoMark
    <3>. QED BY <3>1, <3>2
  <2>2. CASE NextPeriod \/ Backfill \/ SweepRead \/ UNCHANGED contractsVars
    <3>1. slider' = slider
      BY <2>2 DEF NextPeriod, Backfill, BackfillRead, BackfillBook, BackfillEnd, SweepRead, contractsVars, aheadVars
    <3>. QED BY <3>1 DEF CoverInv, CoverTypes
  <2>. QED BY <2>1, <2>2
<1>3. nInvoice' \in Nat /\ fleet' \in [Vehicles -> FleetRow]
  BY <1>1 DEF CoverInv, CoverTypes
<1>. QED BY <1>1, <1>2, <1>3, RowsApart

LEMMA CoverStart ==
    ASSUME ContractsInit
    PROVE  CoverInv
<1>1. PICK first \in {NoRow, Legacy(Whole), Legacy(1)} : row = [i \in Accruals |-> IF i = 1 THEN first ELSE NoRow]
  BY DEF ContractsInit
<1>a. NoRow.vehicles = {}
  BY DEF NoRow
<1>b. ASSUME NEW m \in {Whole, 1} PROVE Legacy(m) \in TermRow /\ Legacy(m).vehicles = {}
  <2>1. Legacy(m).vehicles = NoRow.vehicles
    BY TermFacts DEF Legacy, TermRow
  <2>. QED BY <1>a, <2>1, LegacyOK
<1>2. first \in TermRow /\ first.vehicles = {}
  BY <1>1, <1>a, <1>b, TermFacts
<1>3. PICK stored : fleet = [v \in Vehicles |-> [is |-> IF v \in stored THEN "stored" ELSE "absent", start |-> 0, archived |-> FALSE,
                                                 bill |-> 0, extra |-> IF v \in ChargedVehicles THEN "open" ELSE "settled"]]
  BY DEF ContractsInit
<1>4. fleet \in [Vehicles -> FleetRow]
  BY <1>3 DEF FleetRow
<1>5. nInvoice = 0 /\ slider.at # "ready"
  BY DEF ContractsInit, NoSlider
<1>6. \A i \in Accruals : row[i].live => i = 1 /\ row[i].vehicles = {}
  BY <1>1, <1>2, TermFacts
<1>. QED BY <1>1, <1>2, <1>4, <1>5, <1>6, TermFacts DEF CoverInv, CoverTypes, Apart

LEMMA CoverStep ==
    ASSUME DeletableVehicles = {}, CoverInv, [ContractsNext]_contractsVars
    PROVE  CoverInv'
<1>1. ASSUME Request PROVE CoverInv'
  <2>1. ASSUME NEW i \in Agreements, NEW cand \in Entries(Amounts, SUBSET Vehicles, CreatedPaid),
               NEW news \in {{}} \cup { {v} : v \in Vehicles }, NEW newPeriod \in BOOLEAN, SaveAgreement(i, cand, news, newPeriod)
        PROVE  CoverInv'
    <3>1. news \in SUBSET Vehicles
      OBVIOUS
    <3>. QED BY <2>1, <3>1, SavedApart
  <2>2. ASSUME NEW i \in Agreements, NEW b \in BOOLEAN, DeleteAgreement(i, b) \/ SetAgreementPaid(i, b) PROVE CoverInv'
    BY <2>2, DeletedApart, MasterApart
  <2>3. ASSUME NEW i \in Agreements, NEW k \in Periods, NEW m \in NoMark .. row[i].amount, SetAgreementPeriodPaid(i, k, m)
        PROVE  CoverInv'
    BY <2>3, PeriodApart
  <2>4. ASSUME NEW i \in Recurring, NEW cand \in Entries(RecurringAmounts, {{}}, {FALSE}),
               CreateRecurringCharge(i, cand) \/ UpdateRecurringCharge(i, cand)
        PROVE  CoverInv'
    BY <2>4, RecurringApart
  <2>5. ASSUME NEW i \in Recurring, DeleteRecurringCharge(i) \/ \E b \in BOOLEAN : SetRecurringChargePaid(i, b)
        PROVE  CoverInv'
    BY <2>5, RecurringApart
  <2>6. CASE SetRecurringChargePeriodPaid
    <3>1. slider.i \in Recurring
      BY <2>6 DEF SetRecurringChargePeriodPaid, CoverInv, CoverTypes
    <3>. QED BY <2>6, <3>1, RecurringApart
  <2>7. CASE CreateInvoice \/ \E n \in 1 .. MaxInvoices : CancelInvoice(n)
    BY <2>7, InvoiceApart
  <2>8. ASSUME NEW v \in Vehicles, VehicleDeleted(v) \/ CloseVehicle(v) PROVE CoverInv'
    BY <2>8, VehiclesApart DEF VehicleDeleted
  <2>9. CASE NextPeriod \/ \E i \in Recurring, k \in Periods : \E m \in NoMark .. row[i].amount : ReadRecurring(i, k, m)
    BY <2>9, RestApart
  <2>. QED BY <1>1, <2>1, <2>2, <2>3, <2>4, <2>5, <2>6, <2>7, <2>8, <2>9 DEF Request
<1>2. ASSUME Backfill \/ SweepRead \/ UNCHANGED contractsVars PROVE CoverInv'
  BY <1>2, RestApart
<1>3. ASSUME SweepWrite PROVE CoverInv'
  BY <1>3, VehiclesApart
<1>. QED BY <1>1, <1>2, <1>3 DEF ContractsNext

LEMMA ApartMeansOne ==
    ASSUME CoverInv
    PROVE  OneAgreementAtATime
<1>. SUFFICES ASSUME NEW v \in Present, NEW k \in Periods
              PROVE  Cardinality({ i \in Covering(v) : k \in row[i].start .. row[i].end }) <= 1
  BY DEF OneAgreementAtATime
<1>1. PICK S : S = { i \in Covering(v) : k \in row[i].start .. row[i].end }
  OBVIOUS
<1>2. \A i, j \in S : i = j
  <2>. SUFFICES ASSUME NEW i \in S, NEW j \in S, i # j PROVE FALSE
    OBVIOUS
  <2>1. /\ i \in Agreements /\ row[i].live /\ CoversVehicle(row[i], v) /\ row[i].start <= k /\ k <= row[i].end
        /\ j \in Agreements /\ row[j].live /\ CoversVehicle(row[j], v) /\ row[j].start <= k /\ k <= row[j].end
    BY <1>1 DEF Covering
  <2>2. ~Conflict(row[i], row[j])
    BY <2>1 DEF CoverInv, Apart
  <2>3. row[i].vehicles = {} \/ row[j].vehicles = {} \/ row[i].vehicles \cap row[j].vehicles # {}
    BY <2>1 DEF CoversVehicle
  <2>4. row[i].start \in Nat /\ row[i].end \in Nat /\ row[j].start \in Nat /\ row[j].end \in Nat /\ k \in Nat
    BY <2>1, TermFacts DEF CoverInv, CoverTypes, TermRow
  <2>5. OverlapInTime(row[i], row[j])
    BY <2>1, <2>4 DEF OverlapInTime
  <2>. QED BY <2>2, <2>3, <2>5 DEF Conflict
<1>3. ASSUME S = {} PROVE Cardinality(S) <= 1
  <2>1. Cardinality(S) = 0
    BY <1>3, FS_EmptySet
  <2>. QED BY <2>1
<1>4. ASSUME S # {} PROVE Cardinality(S) <= 1
  <2>1. PICK i : S = {i}
    BY <1>2, <1>4
  <2>2. Cardinality(S) = 1
    BY <2>1, FS_Singleton
  <2>. QED BY <2>2
<1>. QED BY <1>1, <1>3, <1>4

\* Safety.  Where no vehicle is deleted from under an agreement, two agreements never cover one
\* vehicle at one time (validateAgreementTx; models.go: an empty set covers all vehicles).
THEOREM NoVehicleCoveredTwice == DeletableVehicles = {} => (ContractsSpec => []OneAgreementAtATime)
<1>. SUFFICES ASSUME DeletableVehicles = {} PROVE ContractsSpec => []OneAgreementAtATime
  OBVIOUS
<1>1. ContractsInit => CoverInv
  BY CoverStart
<1>2. CoverInv /\ [ContractsNext]_contractsVars => CoverInv'
  BY CoverStep
<1>3. CoverInv => OneAgreementAtATime
  BY ApartMeansOne
<1>. QED BY <1>1, <1>2, <1>3, PTL DEF ContractsSpec

-----------------------------------------------------------------------------
(* Contracts: their rows.                                                   *)

ContractRow == { r \in [live : BOOLEAN, start : Periods, end : 0 .. Forever, amount : Prices, vehicles : SUBSET Vehicles,
                        paid : BOOLEAN, locked : BOOLEAN, mark : [Periods -> Marking]] : r.start <= r.end }
\* A part payment of an agreement lies within its price, which it locks.
PartsLocked(r) == \A k \in Periods : r.mark[k] > 0 => r.locked /\ r.mark[k] <= r.amount

RowsFit ==
    /\ row \in [Accruals -> ContractRow] /\ \A i \in Agreements : PartsLocked(row[i])
    /\ slider.at \in {"idle", "ready"}
    /\ slider.at = "ready" => /\ slider.i \in Recurring /\ slider.k \in Periods /\ slider.mark \in Marking
                              /\ slider.was.amount \in Prices

LEMMA MarkFacts ==
    /\ Prices \subseteq Nat /\ Marking \subseteq Int /\ NoMark \in Marking /\ Whole \in Marking
    /\ NoMarks \in [Periods -> Marking] /\ \A k \in Periods : NoMarks[k] = NoMark
    /\ \A p \in Prices : \A m \in NoMark .. p : m \in Marking
    /\ NoRow \in ContractRow /\ NoRow.mark = NoMarks
    /\ \A m \in Marking : m \in Int /\ NoMark <= m
<1>1. Prices \subseteq Nat /\ 1 \in Prices
  BY ContractsAssumption DEF ContractsAssumption, Prices
<1>2. \A p \in Prices : \A m \in NoMark .. p : m \in Marking
  BY DEF Marking
<1>3. NoMark \in NoMark .. 1 /\ Whole \in NoMark .. 1
  BY DEF NoMark, Whole
<1>4. NoMark \in Marking /\ Whole \in Marking
  BY <1>1, <1>2, <1>3
<1>5. \A m \in Marking : m \in Int /\ NoMark <= m
  BY <1>1 DEF Marking, NoMark
<1>6. NoMarks \in [Periods -> Marking] /\ \A k \in Periods : NoMarks[k] = NoMark
  BY <1>4 DEF NoMarks
<1>7. NoRow = [live |-> FALSE, start |-> 0, end |-> Forever, amount |-> 1, vehicles |-> {},
               paid |-> FALSE, locked |-> FALSE, mark |-> NoMarks]
  BY DEF NoRow, NoMarks
<1>8. 0 \in Periods /\ Forever \in 0 .. Forever /\ 0 <= Forever
  BY TermFacts
<1>9. NoRow \in ContractRow /\ NoRow.mark = NoMarks
  BY <1>1, <1>6, <1>7, <1>8 DEF ContractRow
<1>. QED BY <1>1, <1>2, <1>4, <1>5, <1>6, <1>9

\* Rows without part payments.
LEMMA NoParts == ASSUME NEW r, r.mark = NoMarks PROVE PartsLocked(r)
BY MarkFacts DEF PartsLocked, NoMark

\* The fields of a row.
LEMMA RowFields ==
    ASSUME NEW r \in ContractRow
    PROVE  /\ r.live \in BOOLEAN /\ r.start \in Periods /\ r.end \in 0 .. Forever /\ r.amount \in Prices
           /\ r.vehicles \in SUBSET Vehicles /\ r.paid \in BOOLEAN /\ r.locked \in BOOLEAN /\ r.mark \in [Periods -> Marking]
           /\ r.start <= r.end
           /\ r = [live |-> r.live, start |-> r.start, end |-> r.end, amount |-> r.amount, vehicles |-> r.vehicles,
                   paid |-> r.paid, locked |-> r.locked, mark |-> r.mark]
BY DEF ContractRow

\* What is entered.
LEMMA EnteredFits ==
    ASSUME NEW amounts \in SUBSET Prices, NEW covers \in SUBSET (SUBSET Vehicles), NEW paid \in SUBSET BOOLEAN,
           NEW t \in Entries(amounts, covers, paid)
    PROVE  t \in ContractRow /\ t.mark = NoMarks
<1>1. PICK s \in Periods, e \in 0 .. Forever, a \in amounts, c \in covers, p \in paid : t = Entered(s, e, a, c, p)
  BY DEF Entries
<1>2. t = [live |-> TRUE, start |-> s, end |-> e, amount |-> a, vehicles |-> c, paid |-> p, locked |-> FALSE, mark |-> NoMarks]
  BY <1>1 DEF Entered, NoRow, NoMarks
<1>3. t.start <= t.end /\ t.start = s /\ t.end = e
  BY <1>2 DEF Entries, ValidTerms
<1>4. a \in Prices /\ c \in SUBSET Vehicles /\ p \in BOOLEAN /\ s <= e /\ TRUE \in BOOLEAN /\ FALSE \in BOOLEAN
  BY <1>3
<1>. QED BY <1>2, <1>4, MarkFacts DEF ContractRow

\* A row changes that stays one, and an agreement's with its parts locked.
LEMMA OneFits ==
    ASSUME RowsFit, NEW i \in Accruals, NEW new \in ContractRow, i \in Agreements => PartsLocked(new),
           row' = [row EXCEPT ![i] = new], UNCHANGED slider
    PROVE  RowsFit'
<1>1. row' \in [Accruals -> ContractRow]
  BY DEF RowsFit
<1>2. ASSUME NEW j \in Agreements PROVE PartsLocked(row'[j])
  BY TermFacts DEF RowsFit
<1>. QED BY <1>1, <1>2 DEF RowsFit

LEMMA SaveFits ==
    ASSUME RowsFit, NEW i \in Agreements, NEW cand \in Entries(Amounts, SUBSET Vehicles, CreatedPaid), NEW news \in SUBSET Vehicles,
           NEW newPeriod \in BOOLEAN, SaveAgreement(i, cand, news, newPeriod)
    PROVE  RowsFit'
<1>1. cand \in ContractRow /\ cand.mark = NoMarks
  <2>1. Amounts \in SUBSET Prices /\ CreatedPaid \in SUBSET BOOLEAN /\ SUBSET Vehicles \in SUBSET (SUBSET Vehicles)
    BY ContractsAssumption DEF ContractsAssumption, Prices
  <2>. QED BY <2>1, EnteredFits
<1>2. PICK all : all = [cand EXCEPT !.vehicles = @ \cup news]
  OBVIOUS
<1>3. /\ all = [live |-> cand.live, start |-> cand.start, end |-> cand.end, amount |-> cand.amount, vehicles |-> cand.vehicles \cup news,
                paid |-> cand.paid, locked |-> cand.locked, mark |-> cand.mark]
  BY <1>1, <1>2 DEF ContractRow
<1>4. all \in ContractRow /\ all.mark = NoMarks
  <2>1. cand.vehicles \cup news \in SUBSET Vehicles
    BY <1>1, RowFields
  <2>. QED BY <1>1, <1>3, <2>1, RowFields DEF ContractRow
<1>5. i \in Accruals /\ row[i] \in ContractRow /\ PartsLocked(row[i]) /\ UNCHANGED slider
  BY TermFacts DEF RowsFit, SaveAgreement, aheadVars
<1>6. CASE ~row[i].live
  <2>1. row' = [row EXCEPT ![i] = all]
    BY <1>2, <1>6 DEF SaveAgreement
  <2>. QED BY <1>4, <1>5, <2>1, NoParts, OneFits
<1>7. CASE row[i].live
  <2>1. PICK r, new : r = row[i] /\ new = [all EXCEPT !.paid = r.paid, !.locked = r.locked, !.mark = IF newPeriod THEN NoMarks ELSE r.mark]
    OBVIOUS
  <2>2. row' = [row EXCEPT ![i] = new] /\ (r.locked => ~Changes(r, all) /\ ~newPeriod)
    BY <1>2, <1>7, <2>1 DEF SaveAgreement
  <2>3. PICK mark \in [Periods -> Marking] : mark = IF newPeriod THEN NoMarks ELSE r.mark
    BY <1>5, <2>1, MarkFacts, RowFields
  <2>4. new = [live |-> all.live, start |-> all.start, end |-> all.end, amount |-> all.amount, vehicles |-> all.vehicles,
               paid |-> r.paid, locked |-> r.locked, mark |-> mark]
    BY <1>4, <2>1, <2>3 DEF ContractRow
  <2>5. new \in ContractRow /\ new.locked = r.locked /\ new.amount = all.amount /\ new.mark = mark
    <3>1. /\ all.live \in BOOLEAN /\ all.start \in Periods /\ all.end \in 0 .. Forever /\ all.amount \in Prices
          /\ all.vehicles \in SUBSET Vehicles /\ all.start <= all.end
      BY <1>4, RowFields
    <3>2. r.paid \in BOOLEAN /\ r.locked \in BOOLEAN
      BY <1>5, <2>1, RowFields
    <3>. QED BY <2>4, <3>1, <3>2 DEF ContractRow
  <2>6. PartsLocked(new)
    <3>1. CASE newPeriod
      BY <2>3, <2>5, <3>1, NoParts
    <3>2. CASE ~newPeriod
      <4>1. r.locked => all.amount = r.amount
        BY <2>2 DEF Changes
      <4>. QED BY <1>5, <2>1, <2>3, <2>5, <3>2, <4>1 DEF PartsLocked
    <3>. QED BY <3>1, <3>2
  <2>. QED BY <1>5, <2>2, <2>5, <2>6, OneFits
<1>. QED BY <1>6, <1>7

\* The sliders of an agreement.
LEMMA PaidFits ==
    ASSUME RowsFit, NEW i \in Agreements, NEW paid \in BOOLEAN, SetAgreementPaid(i, paid)
    PROVE  RowsFit'
<1>1. i \in Accruals /\ row[i] \in ContractRow /\ UNCHANGED slider
  BY TermFacts DEF RowsFit, SetAgreementPaid, aheadVars
<1>2. PICK locked \in BOOLEAN : locked = LockOn(row[i].locked, paid)
  BY <1>1, RowFields DEF LockOn
<1>3. PICK r, new : r = row[i] /\ new = [r EXCEPT !.paid = paid, !.locked = locked, !.mark = NoMarks]
  OBVIOUS
<1>4. row' = [row EXCEPT ![i].paid = paid, ![i].locked = locked, ![i].mark = NoMarks]
  BY <1>2 DEF SetAgreementPaid
<1>5. row' = [row EXCEPT ![i] = new]
  BY <1>1, <1>3, <1>4 DEF RowsFit
<1>6. new = [live |-> r.live, start |-> r.start, end |-> r.end, amount |-> r.amount, vehicles |-> r.vehicles,
             paid |-> paid, locked |-> locked, mark |-> NoMarks]
  BY <1>1, <1>3 DEF ContractRow
<1>7. new \in ContractRow /\ new.mark = NoMarks
  BY <1>1, <1>3, <1>6, MarkFacts, RowFields DEF ContractRow
<1>. QED BY <1>1, <1>5, <1>7, NoParts, OneFits

LEMMA PeriodFits ==
    ASSUME RowsFit, NEW i \in Agreements, NEW k \in Periods, NEW m \in NoMark .. row[i].amount, SetAgreementPeriodPaid(i, k, m)
    PROVE  RowsFit'
<1>1. i \in Accruals /\ row[i] \in ContractRow /\ PartsLocked(row[i]) /\ UNCHANGED slider
  BY TermFacts DEF RowsFit, SetAgreementPeriodPaid, aheadVars
<1>2. PICK r : r = row[i]
  OBVIOUS
<1>3. m \in Marking /\ m \in Int /\ m <= r.amount
  BY <1>1, <1>2, RowFields, MarkFacts DEF NoMark
<1>4. CASE m = NoMark
  <2>1. PICK mark : mark = [SpreadPaid(i) EXCEPT ![k] = NoMark]
    OBVIOUS
  <2>2. mark \in [Periods -> Marking] /\ \A q \in Periods : mark[q] > 0 => mark[q] = r.mark[q]
    <3>1. \A q \in Periods : SpreadPaid(i)[q] \in {Whole, r.mark[q]} /\ r.mark[q] \in Marking
      BY <1>1, <1>2, RowFields DEF SpreadPaid
    <3>2. SpreadPaid(i) \in [Periods -> Marking]
      BY <3>1, MarkFacts DEF SpreadPaid
    <3>3. \A q \in Periods : mark[q] = IF q = k THEN NoMark ELSE SpreadPaid(i)[q]
      BY <2>1, <3>2
    <3>4. mark \in [Periods -> Marking]
      BY <2>1, <3>2, MarkFacts
    <3>5. \A q \in Periods : mark[q] \in {NoMark, Whole, r.mark[q]}
      BY <3>1, <3>3
    <3>. QED BY <3>4, <3>5 DEF NoMark, Whole
  <2>3. PICK new : new = [r EXCEPT !.paid = FALSE, !.mark = mark]
    OBVIOUS
  <2>4. row' = [row EXCEPT ![i] = [row[i] EXCEPT !.paid = FALSE, !.mark = [SpreadPaid(i) EXCEPT ![k] = NoMark]]]
    BY <1>4 DEF SetAgreementPeriodPaid
  <2>5. row' = [row EXCEPT ![i] = new]
    BY <1>2, <2>1, <2>3, <2>4
  <2>6. new = [live |-> r.live, start |-> r.start, end |-> r.end, amount |-> r.amount, vehicles |-> r.vehicles,
               paid |-> FALSE, locked |-> r.locked, mark |-> mark]
    BY <1>1, <1>2, <2>3 DEF ContractRow
  <2>7. new \in ContractRow /\ new.mark = mark /\ new.locked = r.locked /\ new.amount = r.amount
    BY <1>1, <1>2, <2>2, <2>6, RowFields DEF ContractRow
  <2>8. PartsLocked(new)
    BY <1>1, <1>2, <2>2, <2>7 DEF PartsLocked
  <2>. QED BY <1>1, <2>5, <2>7, <2>8, OneFits
<1>5. CASE m # NoMark
  <2>1. PICK mark : mark = [r.mark EXCEPT ![k] = m]
    OBVIOUS
  <2>2. mark \in [Periods -> Marking] /\ \A q \in Periods : mark[q] = IF q = k THEN m ELSE r.mark[q]
    BY <1>1, <1>2, <1>3, <2>1, RowFields
  <2>3. PICK new : new = [r EXCEPT !.locked = TRUE, !.mark = mark]
    OBVIOUS
  <2>4. row' = [row EXCEPT ![i] = [row[i] EXCEPT !.locked = LockOn(row[i].locked, TRUE), !.mark[k] = m]]
    BY <1>5 DEF SetAgreementPeriodPaid
  <2>5. LockOn(row[i].locked, TRUE) = TRUE
    BY DEF LockOn
  <2>6. [row[i] EXCEPT !.locked = LockOn(row[i].locked, TRUE), !.mark[k] = m] = new
    BY <1>1, <1>2, <2>1, <2>3, <2>5 DEF ContractRow
  <2>7. new = [live |-> r.live, start |-> r.start, end |-> r.end, amount |-> r.amount, vehicles |-> r.vehicles,
               paid |-> r.paid, locked |-> TRUE, mark |-> mark]
    BY <1>1, <1>2, <2>3 DEF ContractRow
  <2>8. new \in ContractRow /\ new.mark = mark /\ new.locked /\ new.amount = r.amount
    BY <1>1, <1>2, <2>2, <2>7, RowFields DEF ContractRow
  <2>9. PartsLocked(new)
    BY <1>1, <1>2, <1>3, <2>2, <2>8 DEF PartsLocked
  <2>. QED BY <1>1, <2>4, <2>6, <2>8, <2>9, OneFits
<1>. QED BY <1>4, <1>5

\* Recurring costs.
LEMMA RecurringFits ==
    ASSUME RowsFit, NEW i \in Recurring
    PROVE  /\ \A cand \in Entries(RecurringAmounts, {{}}, {FALSE}) : CreateRecurringCharge(i, cand) \/ UpdateRecurringCharge(i, cand) => RowsFit'
           /\ DeleteRecurringCharge(i) \/ (\E b \in BOOLEAN : SetRecurringChargePaid(i, b)) => RowsFit'
           /\ \A k \in Periods : \A m \in NoMark .. row[i].amount : ReadRecurring(i, k, m) => RowsFit'
<1>1. i \in Accruals /\ i \notin Agreements /\ row[i] \in ContractRow
  BY TermFacts DEF RowsFit
<1>2. PICK r : r = row[i]
  OBVIOUS
\* The marks of a cost are written.
<1>m. ASSUME NEW mark \in [Periods -> Marking], NEW a \in ContractRow, row' = [row EXCEPT ![i] = [a EXCEPT !.mark = mark]], UNCHANGED slider
      PROVE  RowsFit'
  <2>1. PICK new : new = [a EXCEPT !.mark = mark]
    OBVIOUS
  <2>2. new = [live |-> a.live, start |-> a.start, end |-> a.end, amount |-> a.amount, vehicles |-> a.vehicles,
               paid |-> a.paid, locked |-> a.locked, mark |-> mark]
    BY <1>m, <2>1 DEF ContractRow
  <2>3. new \in ContractRow
    BY <1>m, <2>2, RowFields DEF ContractRow
  <2>. QED BY <1>1, <1>m, <2>1, <2>3, OneFits
<1>3. ASSUME NEW cand \in Entries(RecurringAmounts, {{}}, {FALSE}), CreateRecurringCharge(i, cand) \/ UpdateRecurringCharge(i, cand)
      PROVE  RowsFit'
  <2>1. cand \in ContractRow
    <3>1. RecurringAmounts \in SUBSET Prices /\ {FALSE} \in SUBSET BOOLEAN /\ {{}} \in SUBSET (SUBSET Vehicles)
      BY DEF Prices
    <3>. QED BY <3>1, EnteredFits
  <2>2. CASE CreateRecurringCharge(i, cand)
    BY <1>1, <2>1, <2>2, OneFits DEF CreateRecurringCharge, aheadVars
  <2>3. CASE UpdateRecurringCharge(i, cand)
    <3>1. row' = [row EXCEPT ![i] = [cand EXCEPT !.mark = row[i].mark]] /\ UNCHANGED slider
      BY <2>3 DEF UpdateRecurringCharge, aheadVars
    <3>2. row[i].mark \in [Periods -> Marking]
      BY <1>1, RowFields
    <3>. QED BY <1>m, <2>1, <3>1, <3>2
  <2>. QED BY <1>3, <2>2, <2>3
<1>4. CASE DeleteRecurringCharge(i)
  BY <1>1, <1>4, MarkFacts, OneFits DEF DeleteRecurringCharge, aheadVars
<1>5. ASSUME NEW b \in BOOLEAN, SetRecurringChargePaid(i, b) PROVE RowsFit'
  <2>1. PICK mark : row' = [row EXCEPT ![i].mark = mark] /\ mark \in [Periods -> Marking]
    <3>1. CASE b
      <4>. DEFINE due == { k \in { q \in Complete(row[i]) : billed[i][q] = 0 } : row[i].mark[k] # Whole }
      <4>1. row' = [row EXCEPT ![i].mark = [k \in Periods |-> IF k \in due THEN Whole ELSE row[i].mark[k]]]
        BY <1>1, <1>5, <3>1 DEF SetRecurringChargePaid, SettleRecurring, RowsFit
      <4>. HIDE DEF due
      <4>2. [k \in Periods |-> IF k \in due THEN Whole ELSE row[i].mark[k]] \in [Periods -> Marking]
        BY <1>1, RowFields, MarkFacts
      <4>. QED BY <4>1, <4>2
    <3>2. CASE ~b
      <4>1. row' = [row EXCEPT ![i].mark = [k \in Periods |-> IF billed[i][k] # 0 THEN row[i].mark[k] ELSE NoMark]]
        BY <1>1, <1>5, <3>2 DEF SetRecurringChargePaid, RowsFit
      <4>2. [k \in Periods |-> IF billed[i][k] # 0 THEN row[i].mark[k] ELSE NoMark] \in [Periods -> Marking]
        BY <1>1, RowFields, MarkFacts
      <4>. QED BY <4>1, <4>2
    <3>. QED BY <3>1, <3>2
  <2>2. row' = [row EXCEPT ![i] = [row[i] EXCEPT !.mark = mark]] /\ UNCHANGED slider
    BY <1>1, <1>5, <2>1 DEF RowsFit, SetRecurringChargePaid, aheadVars
  <2>. QED BY <1>1, <1>m, <2>1, <2>2
<1>6. ASSUME NEW k \in Periods, NEW m \in NoMark .. row[i].amount, ReadRecurring(i, k, m) PROVE RowsFit'
  <2>1. m \in Marking /\ row[i].amount \in Prices
    BY <1>1, RowFields, MarkFacts
  <2>2. PICK was : was = [row[i] EXCEPT !.mark = NoMarks] /\ slider' = [at |-> "ready", i |-> i, k |-> k, mark |-> m, was |-> was]
    BY <1>6 DEF ReadRecurring
  <2>3. was.amount = row[i].amount
    BY <1>1, <2>2 DEF ContractRow
  <2>4. slider'.at = "ready" /\ slider'.i = i /\ slider'.k = k /\ slider'.mark = m /\ slider'.was.amount = row[i].amount
    BY <2>2, <2>3
  <2>. QED BY <1>6, <2>1, <2>4 DEF RowsFit, ReadRecurring
<1>. QED BY <1>3, <1>4, <1>5, <1>6

LEMMA SliderFits == ASSUME RowsFit, SetRecurringChargePeriodPaid PROVE RowsFit'
<1>1. PICK i \in Recurring, k \in Periods, m \in Marking : i = slider.i /\ k = slider.k /\ m = slider.mark
  BY DEF RowsFit, SetRecurringChargePeriodPaid
<1>2. i \in Accruals /\ i \notin Agreements /\ row[i] \in ContractRow
  BY TermFacts DEF RowsFit
<1>3. slider' = NoSlider /\ NoSlider.at = "idle"
  BY DEF SetRecurringChargePeriodPaid, NoSlider
<1>4. CASE UNCHANGED row
  BY <1>3, <1>4 DEF RowsFit
<1>5. CASE row' = [row EXCEPT ![i].mark[k] = m]
  <2>1. PICK r, mark, new : r = row[i] /\ mark = [r.mark EXCEPT ![k] = m] /\ new = [r EXCEPT !.mark = mark]
    OBVIOUS
  <2>2. row' = [row EXCEPT ![i] = new]
    BY <1>2, <1>5, <2>1 DEF RowsFit
  <2>3. mark \in [Periods -> Marking]
    BY <1>2, <2>1, RowFields
  <2>4. new = [live |-> r.live, start |-> r.start, end |-> r.end, amount |-> r.amount, vehicles |-> r.vehicles,
               paid |-> r.paid, locked |-> r.locked, mark |-> mark]
    BY <1>2, <2>1 DEF ContractRow
  <2>5. new \in ContractRow
    BY <1>2, <2>1, <2>3, <2>4, RowFields DEF ContractRow
  <2>6. row' \in [Accruals -> ContractRow] /\ \A j \in Agreements : row'[j] = row[j]
    BY <1>2, <2>2, <2>5, TermFacts DEF RowsFit
  <2>. QED BY <1>3, <2>6 DEF RowsFit
<1>. QED BY <1>1, <1>4, <1>5 DEF SetRecurringChargePeriodPaid

LEMMA DroppedFits == ASSUME RowsFit, NEW v \in Vehicles, VehicleDeleted(v) PROVE RowsFit'
<1>1. row' = [i \in Accruals |-> [row[i] EXCEPT !.vehicles = @ \ {v}]] /\ UNCHANGED slider
  BY DEF VehicleDeleted, aheadVars
<1>2. ASSUME NEW i \in Accruals
      PROVE  row'[i] \in ContractRow /\ row'[i].mark = row[i].mark /\ row'[i].locked = row[i].locked /\ row'[i].amount = row[i].amount
  <2>1. PICK r : r = row[i] /\ r \in ContractRow
    BY DEF RowsFit
  <2>2. row'[i] = [r EXCEPT !.vehicles = @ \ {v}]
    BY <1>1, <2>1
  <2>3. row'[i] = [live |-> r.live, start |-> r.start, end |-> r.end, amount |-> r.amount, vehicles |-> r.vehicles \ {v},
                   paid |-> r.paid, locked |-> r.locked, mark |-> r.mark]
    BY <2>1, <2>2 DEF ContractRow
  <2>4. r.vehicles \ {v} \in SUBSET Vehicles
    BY <2>1, RowFields
  <2>. QED BY <2>1, <2>3, <2>4, RowFields DEF ContractRow
<1>3. row' \in [Accruals -> ContractRow]
  BY <1>1, <1>2
<1>4. \A i \in Agreements : PartsLocked(row'[i])
  BY <1>2, TermFacts DEF RowsFit, PartsLocked
<1>. QED BY <1>1, <1>3, <1>4 DEF RowsFit

LEMMA RowsFitStep == RowsFit /\ [ContractsNext]_contractsVars => RowsFit'
<1>. SUFFICES ASSUME RowsFit, [ContractsNext]_contractsVars PROVE RowsFit'
  OBVIOUS
<1>u. CASE UNCHANGED <<row, slider>>
  BY <1>u DEF RowsFit
<1>1. CASE Request
  <2>1. ASSUME NEW i \in Agreements, NEW cand \in Entries(Amounts, SUBSET Vehicles, CreatedPaid),
               NEW news \in {{}} \cup { {v} : v \in Vehicles }, NEW newPeriod \in BOOLEAN, SaveAgreement(i, cand, news, newPeriod)
        PROVE  RowsFit'
    <3>1. news \in SUBSET Vehicles
      OBVIOUS
    <3>. QED BY <2>1, <3>1, SaveFits
  <2>2. ASSUME NEW i \in Agreements, NEW b \in BOOLEAN, DeleteAgreement(i, b) \/ SetAgreementPaid(i, b) PROVE RowsFit'
    <3>1. CASE DeleteAgreement(i, b)
      BY <3>1, MarkFacts, NoParts, OneFits, TermFacts DEF DeleteAgreement, aheadVars
    <3>. QED BY <2>2, <3>1, PaidFits
  <2>3. ASSUME NEW i \in Agreements, NEW k \in Periods, NEW m \in NoMark .. row[i].amount, SetAgreementPeriodPaid(i, k, m)
        PROVE  RowsFit'
    BY <2>3, PeriodFits
  <2>4. ASSUME NEW i \in Recurring, NEW cand \in Entries(RecurringAmounts, {{}}, {FALSE}),
               CreateRecurringCharge(i, cand) \/ UpdateRecurringCharge(i, cand)
        PROVE  RowsFit'
    BY <2>4, RecurringFits
  <2>5. ASSUME NEW i \in Recurring, DeleteRecurringCharge(i) \/ \E b \in BOOLEAN : SetRecurringChargePaid(i, b)
        PROVE  RowsFit'
    BY <2>5, RecurringFits
  <2>6. ASSUME NEW i \in Recurring, NEW k \in Periods, NEW m \in NoMark .. row[i].amount, ReadRecurring(i, k, m)
        PROVE  RowsFit'
    BY <2>6, RecurringFits
  <2>7. CASE SetRecurringChargePeriodPaid
    BY <2>7, SliderFits
  <2>8. CASE CreateInvoice \/ (\E n \in 1 .. MaxInvoices : CancelInvoice(n)) \/ NextPeriod
    BY <1>u, <2>8 DEF CreateInvoice, CancelInvoice, NextPeriod, aheadVars
  <2>9. ASSUME NEW v \in Vehicles, VehicleDeleted(v) \/ CloseVehicle(v) PROVE RowsFit'
    BY <1>u, <2>9, DroppedFits DEF CloseVehicle, aheadVars
  <2>. QED BY <1>1, <2>1, <2>2, <2>3, <2>4, <2>5, <2>6, <2>7, <2>8, <2>9 DEF Request
<1>2. CASE Backfill
  BY <1>u, <1>2 DEF Backfill, BackfillRead, BackfillBook, BackfillEnd
<1>3. CASE SweepRead \/ SweepWrite
  BY <1>u, <1>3 DEF SweepRead, SweepWrite
<1>4. CASE UNCHANGED contractsVars
  BY <1>u, <1>4 DEF contractsVars, aheadVars
<1>. QED BY <1>1, <1>2, <1>3, <1>4 DEF ContractsNext

-----------------------------------------------------------------------------
(* Contracts: receipts, invoices, and the vehicles.                         *)

\* No invoice that was canceled bills anything.
Bills == (0 .. nInvoice) \ canceled
BooksFit ==
    /\ receipt \in [Accruals -> [Periods -> Nat]] /\ extrasPaid \subseteq Agreements
    /\ nInvoice \in 0 .. MaxInvoices /\ canceled \subseteq 1 .. nInvoice
    /\ billed \in [Accruals -> [Periods -> Bills]]
    /\ backfill.at \in {"ready", "running", "done"} /\ backfill = [at |-> backfill.at, todo |-> backfill.todo]
    /\ \A x \in backfill.todo : x.i \in Accruals /\ x.k \in Periods /\ x.amount \in Nat
YardVehicle == [is : {"absent", "stored", "closed", "gone"}, start : Periods, archived : BOOLEAN, bill : Nat, extra : {"open", "settled"}]
FleetFits ==
    /\ today \in 1 .. Forever
    /\ fleet \in [Vehicles -> YardVehicle] /\ \A v \in Vehicles : fleet[v].bill \in Bills
    /\ sweep.at \in {"idle", "read"} /\ sweep.wake \cup sweep.archive \subseteq Vehicles
ContractsFit == RowsFit /\ BooksFit /\ FleetFits

\* One receipt is booked.
LEMMA ReceiptBooked ==
    ASSUME BooksFit, NEW i \in Accruals, NEW k \in Periods, NEW n \in Nat, receipt' = [receipt EXCEPT ![i][k] = n]
    PROVE  receipt' \in [Accruals -> [Periods -> Nat]]
<1>1. receipt[i] \in [Periods -> Nat] /\ receipt \in [Accruals -> [Periods -> Nat]]
  BY DEF BooksFit
<1>2. PICK rec : rec = [receipt[i] EXCEPT ![k] = n]
  OBVIOUS
<1>3. rec \in [Periods -> Nat]
  BY <1>1, <1>2
<1>4. receipt' = [receipt EXCEPT ![i] = rec]
  BY <1>1, <1>2
<1>. QED BY <1>1, <1>3, <1>4

LEMMA MarkBooked ==
    ASSUME BooksFit, NEW i \in Accruals, NEW k \in Periods, NEW m \in Marking, NEW r, r.amount \in Prices, BookMark(i, k, m, r)
    PROVE  receipt' \in [Accruals -> [Periods -> Nat]]
<1>1. CASE m > 0
  <2>1. m \in Nat
    BY <1>1, MarkFacts
  <2>2. receipt' = [receipt EXCEPT ![i][k] = m]
    BY <1>1 DEF BookMark, BookPeriod
  <2>. QED BY <2>1, <2>2, ReceiptBooked
<1>2. CASE ~(m > 0) /\ receipt' = [receipt EXCEPT ![i][k] = r.amount]
  BY <1>2, MarkFacts, ReceiptBooked
<1>3. CASE UNCHANGED receipt
  BY <1>3 DEF BooksFit
<1>. QED BY <1>1, <1>2, <1>3 DEF BookMark, BookPeriod, KeepReceipts

\* Many receipts of one accrual are booked.
LEMMA ReceiptsBooked ==
    ASSUME BooksFit, RowsFit, NEW i \in Accruals, NEW some \in SUBSET Periods,
           receipt' = [receipt EXCEPT ![i] = [k \in Periods |-> IF k \in some THEN row[i].amount ELSE receipt[i][k]]]
    PROVE  receipt' \in [Accruals -> [Periods -> Nat]]
<1>1. receipt[i] \in [Periods -> Nat] /\ receipt \in [Accruals -> [Periods -> Nat]]
  BY DEF BooksFit
<1>2. row[i].amount \in Nat
  BY RowFields, MarkFacts DEF RowsFit
<1>3. PICK rec : rec = [k \in Periods |-> IF k \in some THEN row[i].amount ELSE receipt[i][k]]
  OBVIOUS
<1>4. rec \in [Periods -> Nat]
  BY <1>1, <1>2, <1>3
<1>5. receipt' = [receipt EXCEPT ![i] = rec]
  BY <1>3
<1>. QED BY <1>1, <1>4, <1>5

\* A step that writes receipts only.
LEMMA BooksRest ==
    ASSUME BooksFit, receipt' \in [Accruals -> [Periods -> Nat]], extrasPaid' \subseteq Agreements,
           UNCHANGED <<nInvoice, canceled, billed, backfill>>
    PROVE  BooksFit'
BY DEF BooksFit, Bills

LEMMA BooksFitStep == RowsFit /\ BooksFit /\ [ContractsNext]_contractsVars => BooksFit'
<1>. SUFFICES ASSUME RowsFit, BooksFit, [ContractsNext]_contractsVars PROVE BooksFit'
  OBVIOUS
<1>0. receipt \in [Accruals -> [Periods -> Nat]] /\ extrasPaid \subseteq Agreements
  BY DEF BooksFit
<1>u. CASE UNCHANGED <<receipt, extrasPaid, nInvoice, canceled, billed, backfill>>
  BY <1>0, <1>u, BooksRest
<1>1. CASE Request
  <2>1. ASSUME NEW i \in Agreements, NEW cand, NEW news, NEW newPeriod, SaveAgreement(i, cand, news, newPeriod) PROVE BooksFit'
    BY <1>u, <2>1 DEF SaveAgreement, moneyVars, invoiceVars, aheadVars
  <2>2. ASSUME NEW i \in Agreements, NEW b \in BOOLEAN, DeleteAgreement(i, b) \/ SetAgreementPaid(i, b) PROVE BooksFit'
    <3>1. CASE DeleteAgreement(i, b)
      BY <1>u, <3>1 DEF DeleteAgreement, moneyVars, invoiceVars, aheadVars
    <3>2. CASE SetAgreementPaid(i, b) /\ ~b
      BY <1>u, <3>2 DEF SetAgreementPaid, moneyVars, invoiceVars, aheadVars
    <3>3. CASE SetAgreementPaid(i, b) /\ b
      <4>1. i \in Accruals /\ Complete(row[i]) \in SUBSET Periods
        BY TermFacts DEF Complete, Elapsed
      <4>2. PICK some \in SUBSET Periods : some = Complete(row[i])
        BY <4>1
      <4>3. receipt' = [receipt EXCEPT ![i] = [k \in Periods |-> IF k \in some THEN row[i].amount ELSE receipt[i][k]]]
        BY <1>0, <3>3, <4>1, <4>2 DEF SetAgreementPaid
      <4>4. extrasPaid' \subseteq Agreements /\ UNCHANGED <<nInvoice, canceled, billed, backfill>>
        BY <1>0, <3>3 DEF SetAgreementPaid, invoiceVars, aheadVars
      <4>. QED BY <4>1, <4>3, <4>4, ReceiptsBooked, BooksRest
    <3>. QED BY <2>2, <3>1, <3>2, <3>3
  <2>3. ASSUME NEW i \in Agreements, NEW k \in Periods, NEW m \in NoMark .. row[i].amount, SetAgreementPeriodPaid(i, k, m)
        PROVE  BooksFit'
    <3>1. i \in Accruals /\ row[i].amount \in Prices
      BY TermFacts, RowFields DEF RowsFit
    <3>2. m \in Marking /\ BookMark(i, k, m, row[i]) /\ UNCHANGED <<extrasPaid, nInvoice, canceled, billed, backfill>>
      BY <2>3, <3>1, MarkFacts DEF SetAgreementPeriodPaid, invoiceVars, aheadVars
    <3>. QED BY <1>0, <3>1, <3>2, MarkBooked, BooksRest
  <2>4. ASSUME NEW i \in Recurring, NEW cand, CreateRecurringCharge(i, cand) \/ UpdateRecurringCharge(i, cand) PROVE BooksFit'
    BY <1>u, <2>4 DEF CreateRecurringCharge, UpdateRecurringCharge, moneyVars, invoiceVars, aheadVars
  <2>5. ASSUME NEW i \in Recurring, DeleteRecurringCharge(i) \/ \E b \in BOOLEAN : SetRecurringChargePaid(i, b) PROVE BooksFit'
    <3>1. CASE DeleteRecurringCharge(i)
      BY <1>u, <3>1 DEF DeleteRecurringCharge, moneyVars, invoiceVars, aheadVars
    <3>2. ASSUME NEW b \in BOOLEAN, SetRecurringChargePaid(i, b) PROVE BooksFit'
      <4>1. i \in Accruals /\ UNCHANGED <<extrasPaid, nInvoice, canceled, billed, backfill>>
        BY <3>2, TermFacts DEF SetRecurringChargePaid, invoiceVars, aheadVars
      <4>2. CASE UNCHANGED receipt
        BY <1>0, <4>1, <4>2, BooksRest
      <4>3. CASE b
        <5>. DEFINE due == { k \in { q \in Complete(row[i]) : billed[i][q] = 0 } : row[i].mark[k] # Whole }
        <5>1. due \in SUBSET Periods
          BY DEF Complete, Elapsed
        <5>2. receipt' = [receipt EXCEPT ![i] = [k \in Periods |-> IF k \in due THEN row[i].amount ELSE receipt[i][k]]]
          BY <1>0, <3>2, <4>1, <4>3 DEF SetRecurringChargePaid, SettleRecurring
        <5>. HIDE DEF due
        <5>. QED BY <1>0, <4>1, <5>1, <5>2, ReceiptsBooked, BooksRest
      <4>. QED BY <3>2, <4>2, <4>3 DEF SetRecurringChargePaid
    <3>. QED BY <2>5, <3>1, <3>2
  <2>6. ASSUME NEW i \in Recurring, NEW k, NEW m, ReadRecurring(i, k, m) PROVE BooksFit'
    BY <1>u, <2>6 DEF ReadRecurring, moneyVars, invoiceVars
  <2>7. CASE SetRecurringChargePeriodPaid
    <3>1. /\ slider.i \in Accruals /\ slider.k \in Periods /\ slider.mark \in Marking /\ slider.was.amount \in Prices
          /\ UNCHANGED <<extrasPaid, nInvoice, canceled, billed, backfill>>
      BY <2>7, TermFacts DEF SetRecurringChargePeriodPaid, RowsFit, invoiceVars
    <3>2. UNCHANGED receipt \/ BookMark(slider.i, slider.k, slider.mark, slider.was)
      BY <2>7 DEF SetRecurringChargePeriodPaid
    <3>. QED BY <1>0, <3>1, <3>2, MarkBooked, BooksRest
  <2>8. CASE CreateInvoice
    <3>1. PICK n \in Nat : n = nInvoice /\ n < MaxInvoices /\ canceled \subseteq 1 .. n
      BY <2>8, ContractsAssumption DEF CreateInvoice, BooksFit, ContractsAssumption
    <3>2. nInvoice' = n + 1 /\ UNCHANGED <<receipt, extrasPaid, canceled, backfill>>
          /\ \A i \in Accruals, k \in Periods : billed'[i][k] \in {n + 1, billed[i][k]}
      BY <2>8, <3>1 DEF CreateInvoice, moneyVars, aheadVars
    <3>3. \A i \in Accruals, k \in Periods : billed'[i][k] \in Bills'
      BY <3>1, <3>2 DEF BooksFit, Bills
    <3>4. billed' \in [Accruals -> [Periods -> Bills']]
      BY <2>8, <3>3 DEF CreateInvoice
    <3>5. nInvoice' \in 0 .. MaxInvoices /\ canceled' \subseteq 1 .. nInvoice'
      BY <3>1, <3>2, ContractsAssumption DEF ContractsAssumption
    <3>. QED BY <3>2, <3>4, <3>5 DEF BooksFit
  <2>9. ASSUME NEW n \in 1 .. MaxInvoices, CancelInvoice(n) PROVE BooksFit'
    <3>1. n \in 1 .. nInvoice /\ canceled' = canceled \cup {n} /\ UNCHANGED <<receipt, extrasPaid, nInvoice, backfill>>
          /\ \A i \in Accruals, k \in Periods : billed'[i][k] = IF billed[i][k] = n THEN 0 ELSE billed[i][k]
      BY <2>9 DEF CancelInvoice, moneyVars, aheadVars
    <3>2. 0 \in Bills'
      BY <3>1 DEF BooksFit, Bills
    <3>3. \A i \in Accruals, k \in Periods : billed'[i][k] \in Bills'
      BY <3>1, <3>2 DEF BooksFit, Bills
    <3>4. billed' \in [Accruals -> [Periods -> Bills']]
      BY <2>9, <3>3 DEF CancelInvoice
    <3>. QED BY <3>1, <3>4 DEF BooksFit
  <2>10. ASSUME NEW v \in Vehicles, VehicleDeleted(v) \/ CloseVehicle(v) PROVE BooksFit'
    BY <1>u, <2>10 DEF VehicleDeleted, CloseVehicle, moneyVars, invoiceVars, aheadVars
  <2>11. CASE NextPeriod
    BY <1>u, <2>11 DEF NextPeriod, moneyVars, invoiceVars, aheadVars
  <2>. QED BY <1>1, <2>1, <2>2, <2>3, <2>4, <2>5, <2>6, <2>7, <2>8, <2>9, <2>10, <2>11 DEF Request
<1>2. CASE BackfillRead
  <2>1. backfill' = [at |-> "running", todo |-> backfill'.todo] /\ backfill'.todo \subseteq BackfillItems /\ UNCHANGED <<receipt, extrasPaid, nInvoice, canceled, billed>>
    BY <1>2 DEF BackfillRead, moneyVars, invoiceVars
  <2>2. ASSUME NEW x \in BackfillItems PROVE x.i \in Accruals /\ x.k \in Periods /\ x.amount \in Nat
    <3>1. PICK i \in Accruals, k \in Periods : x = [i |-> i, k |-> k, amount |-> IF row[i].mark[k] > 0 THEN row[i].mark[k] ELSE row[i].amount]
      BY <2>2 DEF BackfillItems
    <3>2. row[i].mark[k] \in Marking /\ row[i].amount \in Nat
      BY RowFields, MarkFacts DEF RowsFit
    <3>3. PICK m \in Int : m = row[i].mark[k]
      BY <3>2, MarkFacts
    <3>. QED BY <3>1, <3>2, <3>3
  <2>. QED BY <2>1, <2>2 DEF BooksFit, Bills
<1>3. ASSUME NEW x \in backfill.todo, BackfillBook(x) PROVE BooksFit'
  <2>1. x.i \in Accruals /\ x.k \in Periods /\ x.amount \in Nat /\ receipt[x.i][x.k] \in Nat
    BY DEF BooksFit
  <2>2. Backfilled(x) \in Nat
    BY <2>1 DEF Backfilled
  <2>3. receipt' \in [Accruals -> [Periods -> Nat]]
    BY <1>3, <2>1, <2>2, ReceiptBooked DEF BackfillBook
  <2>4. backfill' = [backfill EXCEPT !.todo = backfill.todo \ {x}] /\ UNCHANGED <<extrasPaid, nInvoice, canceled, billed>>
    BY <1>3 DEF BackfillBook, invoiceVars
  <2>5. backfill' = [at |-> backfill.at, todo |-> backfill.todo \ {x}]
    BY <2>4 DEF BooksFit
  <2>. QED BY <2>3, <2>4, <2>5 DEF BooksFit, Bills
<1>4. CASE BackfillEnd
  <2>1. backfill' = [at |-> backfill'.at, todo |-> {}] /\ backfill'.at \in {"ready", "done"} /\ UNCHANGED <<receipt, extrasPaid, nInvoice, canceled, billed>>
    BY <1>4 DEF BackfillEnd, moneyVars, invoiceVars
  <2>. QED BY <2>1 DEF BooksFit, Bills
<1>5. CASE SweepRead \/ SweepWrite
  BY <1>u, <1>5 DEF SweepRead, SweepWrite, moneyVars, invoiceVars
<1>6. CASE UNCHANGED contractsVars
  BY <1>u, <1>6 DEF contractsVars, moneyVars, invoiceVars, aheadVars
<1>. QED BY <1>1, <1>2, <1>3, <1>4, <1>5, <1>6 DEF ContractsNext, Backfill

\* What a vehicle is entered, moved and archived by.
LEMMA VehicleWrites ==
    ASSUME NEW f \in YardVehicle
    PROVE  /\ \A d \in Periods : [f EXCEPT !.is = "stored", !.start = d] \in YardVehicle
                                 /\ [f EXCEPT !.is = "stored", !.start = d].bill = f.bill
           /\ \A w \in {"gone", "closed"}, b \in BOOLEAN : [f EXCEPT !.is = w, !.archived = b] \in YardVehicle
                                                         /\ [f EXCEPT !.is = w, !.archived = b].bill = f.bill
           /\ [f EXCEPT !.extra = "settled"] \in YardVehicle /\ [f EXCEPT !.extra = "settled"].bill = f.bill
           /\ \A b \in BOOLEAN : [f EXCEPT !.archived = b] \in YardVehicle /\ [f EXCEPT !.archived = b].bill = f.bill
<1>1. ASSUME NEW d \in Periods
      PROVE  [f EXCEPT !.is = "stored", !.start = d] \in YardVehicle /\ [f EXCEPT !.is = "stored", !.start = d].bill = f.bill
  BY DEF YardVehicle
<1>2. ASSUME NEW w \in {"gone", "closed"}, NEW b \in BOOLEAN
      PROVE  [f EXCEPT !.is = w, !.archived = b] \in YardVehicle /\ [f EXCEPT !.is = w, !.archived = b].bill = f.bill
  BY DEF YardVehicle
<1>3. [f EXCEPT !.extra = "settled"] \in YardVehicle /\ [f EXCEPT !.extra = "settled"].bill = f.bill
  BY DEF YardVehicle
<1>4. ASSUME NEW b \in BOOLEAN PROVE [f EXCEPT !.archived = b] \in YardVehicle /\ [f EXCEPT !.archived = b].bill = f.bill
  BY DEF YardVehicle
<1>. QED BY <1>1, <1>2, <1>3, <1>4

\* A step at the vehicles that bills none of them.
LEMMA FleetRests ==
    ASSUME FleetFits, fleet' \in [Vehicles -> YardVehicle], \A v \in Vehicles : fleet'[v].bill = fleet[v].bill,
           UNCHANGED <<today, nInvoice, canceled, sweep>>
    PROVE  FleetFits'
BY DEF FleetFits, Bills

LEMMA FleetFitsStep == ContractsFit /\ [ContractsNext]_contractsVars => FleetFits'
<1>. SUFFICES ASSUME RowsFit, BooksFit, FleetFits, [ContractsNext]_contractsVars PROVE FleetFits'
  BY DEF ContractsFit
<1>0. fleet \in [Vehicles -> YardVehicle]
  BY DEF FleetFits
<1>u. CASE UNCHANGED <<today, fleet, nInvoice, canceled, sweep>>
  BY <1>0, <1>u, FleetRests
<1>1. CASE Request
  <2>1. ASSUME NEW i \in Agreements, NEW cand \in Entries(Amounts, SUBSET Vehicles, CreatedPaid),
               NEW news \in {{}} \cup { {v} : v \in Vehicles }, NEW newPeriod \in BOOLEAN, SaveAgreement(i, cand, news, newPeriod)
        PROVE  FleetFits'
    <3>1. cand.start \in Periods
      <4>1. Amounts \in SUBSET Prices /\ CreatedPaid \in SUBSET BOOLEAN /\ SUBSET Vehicles \in SUBSET (SUBSET Vehicles)
        BY ContractsAssumption DEF ContractsAssumption, Prices
      <4>. QED BY <4>1, EnteredFits, RowFields
    <3>2. fleet' = [v \in Vehicles |-> IF v \in news THEN [fleet[v] EXCEPT !.is = "stored", !.start = cand.start] ELSE fleet[v]]
          /\ UNCHANGED <<today, nInvoice, canceled, sweep>>
      BY <2>1 DEF SaveAgreement, invoiceVars, aheadVars
    <3>3. ASSUME NEW v \in Vehicles PROVE fleet'[v] \in YardVehicle /\ fleet'[v].bill = fleet[v].bill
      BY <1>0, <3>1, <3>2, VehicleWrites
    <3>4. fleet' \in [Vehicles -> YardVehicle]
      BY <3>2, <3>3
    <3>. QED BY <3>2, <3>3, <3>4, FleetRests
  <2>2. ASSUME NEW i \in Agreements, NEW b \in BOOLEAN, DeleteAgreement(i, b) \/ SetAgreementPaid(i, b) PROVE FleetFits'
    <3>1. CASE DeleteAgreement(i, b)
      <4>1. PICK only : fleet' = [v \in Vehicles |-> IF b /\ v \in only THEN [fleet[v] EXCEPT !.is = "gone", !.archived = FALSE] ELSE fleet[v]]
        BY <3>1 DEF DeleteAgreement
      <4>2. UNCHANGED <<today, nInvoice, canceled, sweep>>
        BY <3>1 DEF DeleteAgreement, invoiceVars, aheadVars
      <4>3. ASSUME NEW v \in Vehicles PROVE fleet'[v] \in YardVehicle /\ fleet'[v].bill = fleet[v].bill
        BY <1>0, <4>1, VehicleWrites
      <4>4. fleet' \in [Vehicles -> YardVehicle]
        BY <4>1, <4>3
      <4>. QED BY <4>2, <4>3, <4>4, FleetRests
    <3>2. CASE SetAgreementPaid(i, b) /\ b
      <4>1. fleet' = [v \in Vehicles |-> IF v \in OpenExtras(i) THEN [fleet[v] EXCEPT !.extra = "settled"] ELSE fleet[v]]
        BY <3>2 DEF SetAgreementPaid
      <4>2. UNCHANGED <<today, nInvoice, canceled, sweep>>
        BY <3>2 DEF SetAgreementPaid, invoiceVars, aheadVars
      <4>3. ASSUME NEW v \in Vehicles PROVE fleet'[v] \in YardVehicle /\ fleet'[v].bill = fleet[v].bill
        BY <1>0, <4>1, VehicleWrites
      <4>4. fleet' \in [Vehicles -> YardVehicle]
        BY <4>1, <4>3
      <4>. QED BY <4>2, <4>3, <4>4, FleetRests
    <3>3. CASE SetAgreementPaid(i, b) /\ ~b
      BY <1>u, <3>3 DEF SetAgreementPaid, invoiceVars, aheadVars
    <3>. QED BY <2>2, <3>1, <3>2, <3>3
  <2>3. ASSUME NEW i, NEW k, NEW m, SetAgreementPeriodPaid(i, k, m) \/ ReadRecurring(i, k, m) PROVE FleetFits'
    BY <1>u, <2>3 DEF SetAgreementPeriodPaid, ReadRecurring, invoiceVars, aheadVars
  <2>4. ASSUME NEW i, NEW cand, CreateRecurringCharge(i, cand) \/ UpdateRecurringCharge(i, cand) PROVE FleetFits'
    BY <1>u, <2>4 DEF CreateRecurringCharge, UpdateRecurringCharge, invoiceVars, aheadVars
  <2>5. ASSUME NEW i, DeleteRecurringCharge(i) \/ \E b \in BOOLEAN : SetRecurringChargePaid(i, b) PROVE FleetFits'
    BY <1>u, <2>5 DEF DeleteRecurringCharge, SetRecurringChargePaid, invoiceVars, aheadVars
  <2>6. CASE SetRecurringChargePeriodPaid
    BY <1>u, <2>6 DEF SetRecurringChargePeriodPaid, invoiceVars
  <2>7. CASE CreateInvoice
    <3>1. PICK n \in Nat : n = nInvoice /\ canceled \subseteq 1 .. n /\ nInvoice' = n + 1
      BY <2>7, ContractsAssumption DEF CreateInvoice, BooksFit, ContractsAssumption
    <3>2. fleet' = [v \in Vehicles |-> IF v \in ToBillExtras THEN [fleet[v] EXCEPT !.bill = n + 1] ELSE fleet[v]]
          /\ UNCHANGED <<today, canceled, sweep>>
      BY <2>7, <3>1 DEF CreateInvoice, aheadVars
    <3>3. ASSUME NEW v \in Vehicles PROVE fleet'[v] \in YardVehicle /\ fleet'[v].bill \in {n + 1, fleet[v].bill}
      <4>1. PICK b \in Nat : b = n + 1
        OBVIOUS
      <4>2. PICK f : f = [fleet[v] EXCEPT !.bill = b] /\ f \in YardVehicle /\ f.bill = b
        <5>1. PICK g \in YardVehicle : g = fleet[v]
          BY <1>0
        <5>2. [g EXCEPT !.bill = b] \in YardVehicle /\ [g EXCEPT !.bill = b].bill = b
          BY DEF YardVehicle
        <5>. QED BY <5>1, <5>2
      <4>. QED BY <1>0, <3>2, <4>1, <4>2
    <3>4. fleet' \in [Vehicles -> YardVehicle]
      BY <3>2, <3>3
    <3>5. \A v \in Vehicles : fleet'[v].bill \in Bills'
      BY <3>1, <3>2, <3>3 DEF FleetFits, Bills
    <3>. QED BY <3>2, <3>4, <3>5 DEF FleetFits
  <2>8. ASSUME NEW n \in 1 .. MaxInvoices, CancelInvoice(n) PROVE FleetFits'
    <3>1. n \in 1 .. nInvoice /\ canceled' = canceled \cup {n} /\ UNCHANGED <<today, nInvoice, sweep>>
          /\ fleet' = [v \in Vehicles |-> IF fleet[v].bill = n THEN [fleet[v] EXCEPT !.bill = 0] ELSE fleet[v]]
      BY <2>8 DEF CancelInvoice, aheadVars
    <3>2. 0 \in Bills'
      BY <3>1 DEF BooksFit, Bills
    <3>3. ASSUME NEW v \in Vehicles PROVE fleet'[v] \in YardVehicle /\ fleet'[v].bill = IF fleet[v].bill = n THEN 0 ELSE fleet[v].bill
      <4>1. PICK f : f = [fleet[v] EXCEPT !.bill = 0] /\ f \in YardVehicle /\ f.bill = 0
        <5>1. PICK g \in YardVehicle : g = fleet[v]
          BY <1>0
        <5>2. [g EXCEPT !.bill = 0] \in YardVehicle /\ [g EXCEPT !.bill = 0].bill = 0
          BY DEF YardVehicle
        <5>. QED BY <5>1, <5>2
      <4>. QED BY <1>0, <3>1, <4>1
    <3>4. fleet' \in [Vehicles -> YardVehicle]
      BY <3>1, <3>3
    <3>5. \A v \in Vehicles : fleet'[v].bill \in Bills'
      BY <3>1, <3>2, <3>3 DEF FleetFits, Bills
    <3>. QED BY <3>1, <3>4, <3>5 DEF FleetFits
  <2>9. ASSUME NEW v \in Vehicles, VehicleDeleted(v) \/ CloseVehicle(v) PROVE FleetFits'
    <3>1. PICK w \in {"gone", "closed"}, b \in BOOLEAN : fleet' = [fleet EXCEPT ![v].is = w, ![v].archived = b]
      BY <2>9 DEF VehicleDeleted, CloseVehicle
    <3>2. fleet' = [fleet EXCEPT ![v] = [fleet[v] EXCEPT !.is = w, !.archived = b]] /\ UNCHANGED <<today, nInvoice, canceled, sweep>>
      BY <1>0, <2>9, <3>1 DEF VehicleDeleted, CloseVehicle, invoiceVars, aheadVars
    <3>3. PICK f : f = [fleet[v] EXCEPT !.is = w, !.archived = b] /\ f \in YardVehicle /\ f.bill = fleet[v].bill
      BY <1>0, VehicleWrites
    <3>4. fleet' \in [Vehicles -> YardVehicle] /\ \A u \in Vehicles : fleet'[u].bill = fleet[u].bill
      BY <1>0, <3>2, <3>3
    <3>. QED BY <3>2, <3>4, FleetRests
  <2>10. CASE NextPeriod
    <3>1. PICK t \in 1 .. Forever : t = today /\ t < Forever /\ today' = t + 1
      BY <2>10 DEF NextPeriod, FleetFits
    <3>2. today' \in 1 .. Forever /\ UNCHANGED <<fleet, nInvoice, canceled, sweep>>
      BY <2>10, <3>1, TermFacts DEF NextPeriod, invoiceVars, aheadVars
    <3>. QED BY <3>2 DEF FleetFits, Bills
  <2>. QED BY <1>1, <2>1, <2>2, <2>3, <2>4, <2>5, <2>6, <2>7, <2>8, <2>9, <2>10 DEF Request
<1>2. CASE Backfill
  BY <1>u, <1>2 DEF Backfill, BackfillRead, BackfillBook, BackfillEnd, invoiceVars
<1>3. CASE SweepRead
  <2>1. sweep'.at = "read" /\ sweep'.wake = Wakes /\ sweep'.archive = { v \in Vehicles : ShouldArchive(v) }
        /\ UNCHANGED <<today, fleet, nInvoice, canceled>>
    BY <1>3 DEF SweepRead, invoiceVars
  <2>2. Wakes \subseteq Vehicles
    BY DEF Wakes
  <2>. QED BY <2>1, <2>2 DEF FleetFits, Bills
<1>4. CASE SweepWrite
  <2>1. /\ fleet' = [v \in Vehicles |-> IF v \in Present
                       THEN [fleet[v] EXCEPT !.archived = (fleet[v].archived /\ v \notin sweep.wake) \/ v \in sweep.archive]
                       ELSE fleet[v]]
        /\ UNCHANGED <<today, nInvoice, canceled>> /\ sweep' = NoSweep
    BY <1>4 DEF SweepWrite, invoiceVars
  <2>2. ASSUME NEW v \in Vehicles PROVE fleet'[v] \in YardVehicle /\ fleet'[v].bill = fleet[v].bill
    <3>1. PICK b \in BOOLEAN : b = ((fleet[v].archived /\ v \notin sweep.wake) \/ v \in sweep.archive)
      OBVIOUS
    <3>2. PICK f : f = [fleet[v] EXCEPT !.archived = b] /\ f \in YardVehicle /\ f.bill = fleet[v].bill
      BY <1>0, VehicleWrites
    <3>3. fleet'[v] \in {fleet[v], f}
      BY <2>1, <3>1, <3>2
    <3>. QED BY <1>0, <3>2, <3>3
  <2>3. fleet' \in [Vehicles -> YardVehicle]
    BY <2>1, <2>2
  <2>4. sweep'.at = "idle" /\ sweep'.wake \cup sweep'.archive = {}
    BY <2>1 DEF NoSweep
  <2>. QED BY <2>1, <2>2, <2>3, <2>4 DEF FleetFits, Bills
<1>5. CASE UNCHANGED contractsVars
  BY <1>u, <1>5 DEF contractsVars, invoiceVars, aheadVars
<1>. QED BY <1>1, <1>2, <1>3, <1>4, <1>5 DEF ContractsNext

LEMMA ContractsFitStart == ContractsInit => ContractsFit
<1>. SUFFICES ASSUME ContractsInit PROVE ContractsFit
  OBVIOUS
<1>1. PICK first \in {NoRow, Legacy(Whole), Legacy(1)} : row = [i \in Accruals |-> IF i = 1 THEN first ELSE NoRow]
  BY DEF ContractsInit
<1>2. first \in ContractRow /\ PartsLocked(first)
  <2>1. CASE first = NoRow
    BY <2>1, MarkFacts, NoParts
  <2>2. ASSUME NEW m \in {Whole, 1}, first = Legacy(m) PROVE first \in ContractRow /\ PartsLocked(first)
    <3>1. PICK a \in Amounts : a = CHOOSE x \in Amounts : TRUE
      BY ContractsAssumption DEF ContractsAssumption
    <3>2. a \in Prices /\ a \in Nat /\ a >= 1
      <4>1. a \in Nat \ {0}
        BY ContractsAssumption DEF ContractsAssumption
      <4>. QED BY <4>1 DEF Prices
    <3>3. m \in Marking /\ m \in Int /\ m <= a
      BY <3>2, MarkFacts DEF Whole, NoMark
    <3>4. PICK mark : mark = [NoMarks EXCEPT ![0] = m]
      OBVIOUS
    <3>5. mark \in [Periods -> Marking] /\ \A k \in Periods : mark[k] \in {m, NoMark}
      BY <3>3, <3>4, MarkFacts
    <3>6. first = [live |-> TRUE, start |-> 0, end |-> Forever, amount |-> a, vehicles |-> {},
                   paid |-> FALSE, locked |-> TRUE, mark |-> mark]
      BY <2>2, <3>1, <3>4 DEF Legacy, NoRow
    <3>7. first \in ContractRow /\ first.locked /\ first.mark = mark /\ first.amount = a
      BY <3>2, <3>5, <3>6, TermFacts DEF ContractRow
    <3>. QED BY <3>3, <3>5, <3>7 DEF PartsLocked, NoMark
  <2>. QED BY <2>1, <2>2
<1>3. RowsFit
  <2>1. row \in [Accruals -> ContractRow] /\ \A i \in Agreements : PartsLocked(row[i])
    BY <1>1, <1>2, MarkFacts, NoParts, TermFacts
  <2>. QED BY <2>1 DEF ContractsInit, RowsFit, NoSlider
<1>4. 0 \in 0 .. MaxInvoices /\ 1 \in 1 .. Forever /\ 0 \in Periods
  BY ContractsAssumption, TermFacts DEF ContractsAssumption, Forever
<1>5. nInvoice = 0 /\ canceled = {} /\ Bills = {0}
  BY DEF ContractsInit, Bills
<1>6. BooksFit
  BY <1>4, <1>5 DEF ContractsInit, BooksFit
<1>7. FleetFits
  <2>1. PICK stored \in SUBSET Vehicles : fleet = [v \in Vehicles |-> [is |-> IF v \in stored THEN "stored" ELSE "absent", start |-> 0,
                                      archived |-> FALSE, bill |-> 0, extra |-> IF v \in ChargedVehicles THEN "open" ELSE "settled"]]
    BY DEF ContractsInit
  <2>2. fleet \in [Vehicles -> YardVehicle] /\ \A v \in Vehicles : fleet[v].bill = 0
    BY <1>4, <2>1 DEF YardVehicle
  <2>. QED BY <1>4, <1>5, <2>2 DEF ContractsInit, FleetFits, NoSweep
<1>. QED BY <1>3, <1>6, <1>7 DEF ContractsFit

(* Rows, receipts and invoices keep to each other whatever requests, the backfill and the   *)
(* archive sweep do, the backfill running beside requests too: a part payment of an         *)
(* agreement never exceeds its price, a term never ends before it starts, and nothing is     *)
(* billed by an invoice that was canceled (saveAgreement, SetAgreementPeriodPaid,            *)
(* CreateInvoice, CancelInvoice).                                                            *)
THEOREM ContractsTypes == ContractsSpec => []ContractsTypeOK
<1>1. ContractsFit /\ [ContractsNext]_contractsVars => ContractsFit'
  BY RowsFitStep, BooksFitStep, FleetFitsStep DEF ContractsFit
<1>2. ContractsFit => ContractsTypeOK
  <2>. SUFFICES ASSUME RowsFit, BooksFit, FleetFits PROVE ContractsTypeOK
    BY DEF ContractsFit
  <2>1. ASSUME NEW i \in Accruals PROVE TypedRow(row[i])
    <3>1. row[i] \in ContractRow
      BY DEF RowsFit
    <3>2. /\ row[i].start \in Periods /\ row[i].end \in 0 .. Forever /\ row[i].start <= row[i].end /\ row[i].amount \in Prices
          /\ row[i].vehicles \in SUBSET Vehicles /\ {row[i].live, row[i].paid, row[i].locked} \subseteq BOOLEAN
          /\ \A k \in Periods : row[i].mark[k] \in Marking
      BY <3>1, RowFields
    <3>3. row[i].end \in row[i].start .. Forever
      BY <3>2, TermFacts
    <3>. QED BY <3>2, <3>3 DEF TypedRow
  <2>2. ASSUME NEW i \in Agreements, NEW k \in Periods PROVE row[i].mark[k] <= row[i].amount
    <3>1. row[i] \in ContractRow /\ PartsLocked(row[i])
      BY TermFacts DEF RowsFit
    <3>2. PICK m \in Int, a \in Nat : m = row[i].mark[k] /\ a = row[i].amount
      BY <3>1, RowFields, MarkFacts
    <3>3. m > 0 => m <= a
      BY <3>1, <3>2 DEF PartsLocked
    <3>. QED BY <3>2, <3>3
  <2>3. ASSUME NEW i \in Accruals, NEW k \in Periods PROVE receipt[i][k] >= 0 /\ billed[i][k] \in (0 .. nInvoice) \ canceled
    BY DEF BooksFit, Bills
  <2>4. ASSUME NEW v \in Vehicles
        PROVE  /\ fleet[v].is \in {"absent", "stored", "closed", "gone"}
               /\ fleet[v].start \in Periods /\ fleet[v].archived \in BOOLEAN
               /\ fleet[v].extra \in {"open", "settled"}
               /\ fleet[v].bill \in (0 .. nInvoice) \ canceled
    BY DEF FleetFits, YardVehicle, Bills
  <2>. QED BY <2>1, <2>2, <2>3, <2>4 DEF ContractsTypeOK, RowsFit, BooksFit, FleetFits
<1>. QED BY <1>1, <1>2, ContractsFitStart, PTL DEF ContractsSpec

-----------------------------------------------------------------------------
(* The house: of its parts one moves in each behaviour.                     *)

\* A step of the house is a step of a part or leaves the part alone.
LEMMA ContractsMove == [HouseNext]_houseVars => [ContractsNext]_contractsVars
<1>. SUFFICES ASSUME [HouseNext]_houseVars, ~UNCHANGED contractsVars PROVE ContractsNext
  OBVIOUS
<1>1. HouseNext /\ part \in Standing
  BY DEF houseVars, HouseNext, Rests
<1>. QED BY <1>1 DEF HouseNext, Standing, AgreementsNext, BillingNext, RecurringNext
LEMMA RestoreMoves == [HouseNext]_houseVars => [RestoreNext]_restoreVars
<1>. SUFFICES ASSUME [HouseNext]_houseVars, ~UNCHANGED restoreVars PROVE RestoreNext
  OBVIOUS
<1>1. HouseNext /\ part \in {"restore"}
  BY DEF houseVars, HouseNext, Rests
<1>. QED BY <1>1 DEF HouseNext
LEMMA BackupsMove == [HouseNext]_houseVars => [BackupNext]_backupVars
<1>. SUFFICES ASSUME [HouseNext]_houseVars, ~UNCHANGED backupVars PROVE BackupNext
  OBVIOUS
<1>1. HouseNext /\ part \in Saving
  BY DEF houseVars, HouseNext, Rests
<1>. QED BY <1>1 DEF HouseNext, Saving, ScheduleNext, ButtonNext

\* Each part runs as it is specified, whatever part moves; of the fairness of Contracts only the
\* sweep is owed, where contracts are what the behaviour is about.
THEOREM HouseRunsItsParts ==
    HouseSpec => /\ ContractsInit /\ [][ContractsNext]_contractsVars
                 /\ RestoreSpec /\ BackupSpec
<1>1. HouseInit => ContractsInit /\ RestoreInit /\ BackupInit
  BY DEF HouseInit
<1>. QED BY <1>1, ContractsMove, RestoreMoves, BackupsMove, PTL DEF HouseSpec, RestoreSpec, BackupSpec
=============================================================================
