------------------------------ MODULE Backups ------------------------------
(***************************************************************************)
(* Scheduled backups of the database to a shared directory and to a bucket.   *)
(* Every process (Hosts) runs a planner that looks at the schedule once a      *)
(* minute, and a clerk may ask it for a run at any time.  Within a process the *)
(* run gate lets one run at a time go on; between processes an advisory lease   *)
(* per target does, and whoever finds it taken skips the run.                  *)
(*                                                                           *)
(* Time is counted in periods of the schedule: a target is due once per period. *)
(* A directory or a bucket is the sequence of its archives by name, oldest       *)
(* first; names come from the clock, which is not set back.                      *)
(***************************************************************************)
EXTENDS Naturals, FiniteSets, Sequences, SequencesExt

CONSTANTS
    Hosts,        \* processes
    Desks,        \* those a clerk talks to
    Retentions,   \* values of volume_keep and s3_keep; 0 keeps everything
    FirstKeep,    \* the one a clerk finds
    LastPeriod,   \* bound: periods of the schedule
    MaxRequests,  \* bound: runs and schedule changes asked for by clerks
    MaxMishaps,   \* bound: crashes, failing steps and lost status writes
    Space         \* archives, finished or not, the directory has room for

ASSUME BackupAssumption ==
    /\ Desks \subseteq Hosts /\ "nobody" \notin Hosts
    /\ Retentions \subseteq Nat /\ FirstKeep \in Retentions
    /\ {LastPeriod, MaxRequests, MaxMishaps, Space} \subseteq Nat

Targets == {"volume", "s3"}
Agents  == {"planner", "clerk"}
Nobody  == "nobody"
NoRun   == [by |-> Nobody, target |-> "volume", step |-> "none", good |-> FALSE]

VARIABLES
    alive,     \* processes that run
    halting,   \* processes whose workers are told to stop
    wants,     \* what an agent is about to run, with the retention it read
    running,   \* the run behind the gate of a process
    leased,    \* holder of the advisory lease of a target
    archives,  \* archives a target lists: TRUE for a verified one
    parts,     \* *.part files in the directory
    backupStatus,    \* backup_status
    retention, \* backup_settings
    fired,     \* the planners' guards in memory
    tried,     \* period of the last run of a target that came to an end
    period, requests, mishaps

planVars   == <<wants, fired, requests>>
hostVars   == <<alive, halting>>
backupVars == <<alive, halting, wants, running, leased, archives, parts, backupStatus, retention,
                fired, tried, period, requests, mishaps>>

Idle == [target |-> Nobody, keep |-> [t \in Targets |-> 0]]
Steps == {"dump", "upload", "check", "promote", "prune", "record"}
Good(t) == { i \in DOMAIN archives[t] : archives[t][i] }
Mishap  == mishaps < MaxMishaps /\ mishaps' = mishaps + 1

BackupTypeOK ==
    /\ alive \subseteq Hosts /\ halting \subseteq alive
    /\ \A h \in Hosts : running[h] = NoRun \/ (running[h].step \in Steps /\ running[h].by \in Agents)
    /\ \A t \in Targets : /\ leased[t] \in Hosts \cup {Nobody}
                          /\ Cardinality({ h \in Hosts : running[h] # NoRun /\ running[h].target = t }) <= 1
                          /\ archives[t] \in Seq(BOOLEAN)
                          /\ retention[t] \in Retentions
    /\ FALSE \notin Range(archives["volume"])
    /\ parts + Len(archives["volume"]) <= Space

BackupInit ==
    /\ alive = {} /\ halting = {}
    /\ wants = [h \in Hosts |-> [a \in Agents |-> Idle]]
    /\ running = [h \in Hosts |-> NoRun]
    /\ leased = [t \in Targets |-> Nobody]
    /\ archives = [t \in Targets |-> <<>>]
    /\ parts = 0
    /\ backupStatus = [t \in Targets |-> [at |-> 0, ok |-> FALSE]]
    /\ retention = [t \in Targets |-> FirstKeep]
    /\ fired = [h \in Hosts |-> [t \in Targets |-> 0]]
    /\ tried = [t \in Targets |-> 0]
    /\ period = 1 /\ requests = 0 /\ mishaps = 0

-----------------------------------------------------------------------------
(* What is due, and what comes next for an agent.                            *)
Max2(a, b) == IF a > b THEN a ELSE b
EffectiveLast(h, t) == Max2(backupStatus[t].at, fired[h][t])
\* Mutant: a target that has never run waits for somebody to run it once.
MutantFireDue(h, t) == 0 < EffectiveLast(h, t) /\ EffectiveLast(h, t) < period
FireDue(h, t) == EffectiveLast(h, t) < period

\* The planner fires the target, with its guard advanced before the run.
Fire(h, t, keep) ==
    /\ wants' = [wants EXCEPT ![h]["planner"] = [target |-> t, keep |-> keep]]
    /\ fired' = [fired EXCEPT ![h][t] = period]

\* schedulerTick: settings and status are read, the volume comes first.
SchedulerTick(h) ==
    /\ h \in alive \ halting /\ wants[h]["planner"] = Idle
    /\ \/ FireDue(h, "volume") /\ Fire(h, "volume", retention)
       \/ ~FireDue(h, "volume") /\ FireDue(h, "s3") /\ Fire(h, "s3", retention)
    /\ UNCHANGED <<hostVars, running, leased, archives, parts, backupStatus, retention, tried, period, requests, mishaps>>

\* After the volume the planner reads the status again; a clerk goes on anyway.
Proceed(h, a, lastS3) ==
    LET w == wants[h][a]  volume == w.target = "volume" IN
    \/ /\ volume /\ a = "clerk"
       /\ wants' = [wants EXCEPT ![h][a].target = "s3"] /\ UNCHANGED fired
    \/ /\ volume /\ a = "planner" /\ h \notin halting /\ Max2(lastS3, fired[h]["s3"]) < period
       /\ Fire(h, "s3", w.keep)
    \/ /\ ~volume \/ (a = "planner" /\ (h \in halting \/ Max2(lastS3, fired[h]["s3"]) >= period))
       /\ wants' = [wants EXCEPT ![h][a] = Idle] /\ UNCHANGED fired

\* RunScheduledBackup, "Jetzt sichern".
RunScheduledBackup(h) ==
    /\ h \in alive \ halting /\ wants[h]["clerk"] = Idle /\ requests < MaxRequests
    /\ wants' = [wants EXCEPT ![h]["clerk"] = [target |-> "volume", keep |-> retention]]
    /\ requests' = requests + 1
    /\ UNCHANGED <<hostVars, running, leased, archives, parts, backupStatus, retention, fired, tried, period, mishaps>>

SaveBackupSchedule(keep) ==
    /\ alive # {} /\ requests < MaxRequests
    /\ retention' = [t \in Targets |-> keep]
    /\ requests' = requests + 1
    /\ UNCHANGED <<hostVars, wants, running, leased, archives, parts, backupStatus, fired, tried, period, mishaps>>

-----------------------------------------------------------------------------
(* One run.  A step fails by a mishap, or because the planner was told to stop. *)
\* The gate is passed; the lease is tried, never waited for, and not at all by a
\* planner that was told to stop.
AcquireRun(h, a) ==
    LET t == wants[h][a].target IN
    /\ t # Nobody /\ running[h] = NoRun
    /\ \/ /\ leased[t] = Nobody
          /\ leased' = [leased EXCEPT ![t] = h]
          /\ running' = [running EXCEPT ![h] = [by |-> a, target |-> t, step |-> "dump", good |-> FALSE]]
          /\ UNCHANGED <<wants, fired>>
       \/ /\ leased[t] # Nobody \/ (a = "planner" /\ h \in halting)
          /\ Proceed(h, a, backupStatus["s3"].at)
          /\ UNCHANGED <<leased, running>>
    /\ UNCHANGED <<hostVars, archives, parts, backupStatus, retention, tried, period, requests, mishaps>>

At(h, step)   == running[h].step = step
Volume(h)     == running[h].target = "volume"
To_(h, step)  == running' = [running EXCEPT ![h].step = step]
Stopped(h)    == h \in halting /\ running[h].by = "planner"
\* A stopped run cannot be told from a failed one.
Fails(h)      == IF Stopped(h) THEN UNCHANGED mishaps ELSE Mishap
Works         == UNCHANGED mishaps

\* DumpEncrypted: a dump that fails takes its file with it.
Dump(h) ==
    /\ At(h, "dump")
    /\ \/ /\ Works
          /\ Volume(h) => parts + Len(archives["volume"]) < Space
          /\ parts' = IF Volume(h) THEN parts + 1 ELSE parts
          /\ To_(h, IF Volume(h) THEN "check" ELSE "upload")
       \/ /\ Fails(h) /\ To_(h, "record") /\ UNCHANGED parts
       \/ /\ Volume(h) /\ parts + Len(archives["volume"]) >= Space
          /\ To_(h, "record") /\ UNCHANGED <<parts, mishaps>>
    /\ UNCHANGED <<hostVars, planVars, leased, archives, backupStatus, retention, tried, period>>

Pruned(t, keep, list) == IF keep = 0 \/ Len(list) <= keep THEN list
                         ELSE SubSeq(list, Len(list) - keep + 1, Len(list))

\* The object is in the bucket before anybody has looked at it.
UploadS3File(h) ==
    /\ At(h, "upload")
    /\ \/ /\ Works
          /\ archives' = [archives EXCEPT !["s3"] = Append(@, FALSE)]
          /\ To_(h, "check")
       \/ Fails(h) /\ To_(h, "record") /\ UNCHANGED archives
    /\ UNCHANGED <<hostVars, planVars, leased, parts, backupStatus, retention, tried, period>>

\* VerifyArchiveFile: the leftovers of earlier runs go first; a file that fails stays.
VerifyVolume(h) ==
    /\ At(h, "check") /\ Volume(h)
    /\ parts' = 1
    /\ \/ Works /\ To_(h, "promote")
       \/ Fails(h) /\ To_(h, "record")
    /\ UNCHANGED <<hostVars, planVars, leased, archives, backupStatus, retention, tried, period>>

\* VerifyS3ObjectFile: an object that fails is deleted, if the bucket still answers.
VerifyS3(h) ==
    /\ At(h, "check") /\ ~Volume(h)
    /\ \/ /\ Works
          /\ archives' = [archives EXCEPT !["s3"][Len(archives["s3"])] = TRUE]
          /\ running' = [running EXCEPT ![h].step = "prune", ![h].good = TRUE]
       \/ /\ Fails(h)
          /\ archives' = [archives EXCEPT !["s3"] = Front(@)]
          /\ ~Stopped(h) /\ To_(h, "record")
       \/ /\ Fails(h) /\ To_(h, "record") /\ UNCHANGED archives
    /\ UNCHANGED <<hostVars, planVars, leased, parts, backupStatus, retention, tried, period>>

\* The rename shows the archive; it does not ask the cancelled context.
Promote(h) ==
    /\ At(h, "promote")
    /\ \/ /\ Works
          /\ parts' = parts - 1
          /\ archives' = [archives EXCEPT !["volume"] = Append(@, TRUE)]
          /\ running' = [running EXCEPT ![h].step = "prune", ![h].good = TRUE]
       \/ Mishap /\ To_(h, "record") /\ UNCHANGED <<parts, archives>>
    /\ UNCHANGED <<hostVars, planVars, leased, backupStatus, retention, tried, period>>

\* pruneDir, PruneS3: as many as the agent's retention says; a failure is only logged.
Prune(h) ==
    LET t == running[h].target IN
    /\ At(h, "prune")
    /\ \/ Works /\ archives' = [archives EXCEPT ![t] = Pruned(t, wants[h][running[h].by].keep[t], @)]
       \/ ~Volume(h) /\ Fails(h) /\ UNCHANGED archives
    /\ To_(h, "record")
    /\ UNCHANGED <<hostVars, planVars, leased, parts, backupStatus, retention, tried, period>>

\* Mutant: an archive that was written counts, verified or not.
MutantOutcomeOf(r) == TRUE
OutcomeOf(r) == r.good

\* recordVolumeSafe, recordS3Safe: best effort, by a context of their own.
Record(h) ==
    LET r == running[h]  t == r.target IN
    /\ At(h, "record")
    /\ \/ Works /\ backupStatus' = [backupStatus EXCEPT ![t] = [at |-> period, ok |-> OutcomeOf(r)]]
       \/ Mishap /\ UNCHANGED backupStatus
    /\ tried' = [tried EXCEPT ![t] = period]
    /\ leased' = [leased EXCEPT ![t] = Nobody]
    /\ running' = [running EXCEPT ![h] = NoRun]
    /\ Proceed(h, r.by, backupStatus'["s3"].at)
    /\ UNCHANGED <<hostVars, archives, parts, retention, period, requests>>

-----------------------------------------------------------------------------
(* Processes and time.                                                       *)
Halt(h) ==
    /\ h \in alive \ halting /\ mishaps < MaxMishaps
    /\ halting' = halting \cup {h}
    /\ mishaps' = mishaps + 1
    /\ UNCHANGED <<alive, planVars, running, leased, archives, parts, backupStatus, retention, tried, period>>

\* What a process held in memory and in sessions goes with it; its files stay.
Gone_(h) ==
    /\ alive' = alive \ {h} /\ halting' = halting \ {h}
    /\ wants' = [wants EXCEPT ![h] = [a \in Agents |-> Idle]]
    /\ fired' = [fired EXCEPT ![h] = [t \in Targets |-> 0]]
    /\ running' = [running EXCEPT ![h] = NoRun]
    /\ leased' = [t \in Targets |-> IF leased[t] = h THEN Nobody ELSE leased[t]]
    /\ UNCHANGED <<archives, parts, backupStatus, retention, tried, period, requests>>

Drained_(h) ==
    /\ h \in halting /\ \A a \in Agents : wants[h][a] = Idle
    /\ Gone_(h) /\ UNCHANGED mishaps

Kill(h) == h \in alive /\ Mishap /\ Gone_(h)

StartScheduler(h) ==
    /\ h \notin alive
    /\ alive' = alive \cup {h}
    /\ UNCHANGED <<halting, planVars, running, leased, archives, parts, backupStatus, retention, tried, period, mishaps>>

ScheduleAdvances ==
    /\ period < LastPeriod
    /\ period' = period + 1
    /\ UNCHANGED <<hostVars, planVars, running, leased, archives, parts, backupStatus, retention, tried, mishaps>>

RunStep(h) ==
    \/ \E a \in Agents : AcquireRun(h, a)
    \/ Dump(h) \/ UploadS3File(h) \/ VerifyVolume(h) \/ VerifyS3(h) \/ Promote(h) \/ Prune(h) \/ Record(h)

Plan(h) == SchedulerTick(h) \/ RunStep(h) \/ Drained_(h) \/ StartScheduler(h)

BackupNext ==
    \/ \E h \in Hosts : Plan(h) \/ Halt(h) \/ Kill(h)
    \/ \E h \in Desks : RunScheduledBackup(h)
    \/ \E k \in Retentions : SaveBackupSchedule(k)
    \/ ScheduleAdvances

BackupSpec == BackupInit /\ [][BackupNext]_backupVars

\* A container is started again and its planner ticks every minute.
FairBackupSpec == BackupSpec /\ \A h \in Hosts : WF_backupVars(Plan(h))

-----------------------------------------------------------------------------
(* Safety.  A target whose last run is reported as good lists a verified archive,  *)
(* whatever run fails, is stopped or dies at any step (RunVolume, RunS3, pruneDir,  *)
(* PruneS3, recordVolumeSafe).                                                    *)
GoodStandRemains == \A t \in Targets : backupStatus[t].ok => Good(t) # {}

(* Liveness.  A period of the schedule is not lost: whoever skips it because the    *)
(* lease is taken, and whatever dies on the way, some run of the target comes to    *)
(* an end in that period or later (schedulerTick, EffectiveLast, tryAcquireLease).  *)
DueIsTried == \A t \in Targets : []<>(tried[t] = period)

-----------------------------------------------------------------------------
(* Statements of comments that the code does not keep: no run of the project   *)
(* lists them, the README says which one violates them.                        *)

(* An object that failed its check is removed again, or it would stand in the       *)
(* bucket as the newest archive, the first one to be restored (RunS3).              *)
FailedObjectGoes ==
    \A h \in Hosts : At(h, "record") /\ ~Volume(h) /\ ~running[h].good => FALSE \notin Range(archives["s3"])
=============================================================================
