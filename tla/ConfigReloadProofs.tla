-------------------------- MODULE ConfigReloadProofs ---------------------------
(***************************************************************************)
(* Proofs about the reload pipeline: it uses the scheduler as Scheduler    *)
(* allows, so what SchedulerProofs proves holds of it, and its own safety  *)
(* properties follow from an invariant with one part per piece of state.   *)
(***************************************************************************)
EXTENDS ConfigReload, SchedulerProofs

--------------------------------------------------------------------------------
(* The scheduler's part *)

\* Each step of the program is a step of the scheduler or leaves it alone.
LEMMA SchedulerSees == [ReloadNext]_reloadVars /\ ReloadTypeOK => [Next]_vars
<1> SUFFICES ASSUME [ReloadNext]_reloadVars, ReloadTypeOK
             PROVE  [Next]_vars
  OBVIOUS
<1>0. currentCfg.jobs \in JobLists /\ newCfg.jobs \in JobLists
  BY ConfigAssumption DEF ReloadTypeOK
<1>1. CASE Boot
  BY <1>0, <1>1 DEF Boot, Next
<1>2. CASE StartCron
  BY <1>2 DEF StartCron, Next
<1>3. CASE PauseCron
  BY <1>3 DEF PauseCron, Next
<1>4. CASE LoadJobs
  BY <1>0, <1>4 DEF LoadJobs, Next
<1>5. CASE RestoreJobs
  BY <1>0, <1>5 DEF RestoreJobs, Next
<1>6. CASE \/ BeginReload \/ Panic \/ SwitchEngines \/ SyncSkills \/ Commit
           \/ RestoreEngines \/ ResyncSkills \/ RestoreObserver
  BY <1>6 DEF BeginReload, Panic, SwitchEngines, SyncSkills, Commit, RestoreEngines,
              ResyncSkills, RestoreObserver
<1>7. CASE SchedulerStep
  BY <1>7 DEF SchedulerStep, Next
<1>8. CASE UNCHANGED reloadVars
  BY <1>8 DEF reloadVars
<1> QED
  BY <1>1, <1>2, <1>3, <1>4, <1>5, <1>6, <1>7, <1>8 DEF ReloadNext, ReloadStep

\* Every step of the program keeps its variables well typed.
LEMMA ReloadTypeStep == ReloadTypeOK /\ [ReloadNext]_reloadVars => ReloadTypeOK'
<1> SUFFICES ASSUME ReloadTypeOK, [ReloadNext]_reloadVars
             PROVE  ReloadTypeOK'
  OBVIOUS
<1> USE DEF Booting, Reloading, Errors
<1>1. TypeOK'
  BY SchedulerSees, TypeStep DEF ReloadTypeOK
<1>2. newCfg.engines \in Engine /\ currentCfg.engines \in Engine
  BY ConfigAssumption DEF ReloadTypeOK
<1>3. CASE Boot \/ StartCron \/ PauseCron \/ LoadJobs \/ RestoreJobs
  BY <1>1, <1>3 DEF Boot, StartCron, PauseCron, LoadJobs, RestoreJobs, ReloadTypeOK,
                    parts, locals
<1>4. CASE BeginReload \/ Panic \/ SwitchEngines \/ SyncSkills \/ Commit
  BY <1>1, <1>2, <1>4 DEF BeginReload, Panic, SwitchEngines, SyncSkills, Commit, ReloadTypeOK,
                          parts, locals
<1>5. CASE RestoreEngines \/ ResyncSkills \/ RestoreObserver
  BY <1>1, <1>5 DEF RestoreEngines, ResyncSkills, RestoreObserver, ReloadTypeOK,
                    parts, locals
<1>6. CASE SchedulerStep \/ UNCHANGED reloadVars
  BY <1>1, <1>6 DEF SchedulerStep, reloadVars, parts, locals, ReloadTypeOK
<1> QED
  BY <1>3, <1>4, <1>5, <1>6 DEF ReloadNext, ReloadStep

\* The variables of main keep their types (main.go:35-83, 181-240).
THEOREM ReloadTypeCorrect == ReloadSpec => []ReloadTypeOK
<1>1. ReloadInit => ReloadTypeOK
  BY ConfigAssumption DEF ReloadInit, ReloadTypeOK, Init, TypeOK, Stages, Holding,
                          Unregistered, Booting, Errors
<1> QED
  BY <1>1, ReloadTypeStep, PTL DEF ReloadSpec

\* main stays within the scheduler's protocol, so the theorems about the
\* scheduler alone hold of the whole program.
THEOREM ImplementsScheduler == ReloadSpec => UsesScheduler
<1>1. ReloadInit => Init
  BY DEF ReloadInit
<1> QED
  BY <1>1, SchedulerSees, ReloadTypeCorrect, PTL DEF ReloadSpec, Spec, UsesScheduler

--------------------------------------------------------------------------------
(* What Load and Reload may do *)

\* A reload starts a cron of the new jobs, or leaves no cron and the old jobs;
\* the latter only after Stop or with a schedule that does not parse.
LEMMA ReloadOutcome ==
  ASSUME NEW list, Reload(list)
  PROVE  /\ stopPc' = stopPc
         /\ \/ cron' = "started" /\ jobs' = Range(list) /\ WellFormed(list)
            \/ cron' = "nil" /\ jobs' = jobs /\ (Cancelled \/ ~WellFormed(list))
BY DEF Reload, LoadCommitted, LoadFailed, WellFormed, FirstBad, shutdown

\* The other steps of the scheduler leave its jobs alone, and only Stop, which
\* is never undone, takes the cron away.
LEMMA SchedulerStepEffect ==
  ASSUME SchedulerStep
  PROVE  /\ jobs' = jobs
         /\ cron' = cron \/ (cron' = "nil" /\ Cancelled')
         /\ Cancelled => Cancelled'
<1>1. ASSUME NEW r \in Run, Trigger(r)
      PROVE  UNCHANGED <<cron, jobs, stopPc>>
  BY <1>1 DEF Trigger, FireCron, RunNow, registry, shutdown
<1>2. ASSUME NEW r \in Run, RunStep(r)
      PROVE  UNCHANGED <<cron, jobs, stopPc>>
  BY <1>2 DEF RunStep, OwnStep, Register, TryLock, MarkRunning, TimeoutRejected,
              RunnerReturn, Finish, Unlock, CallbackReturn, Follow, Leave, Exit,
              registry, shutdown
<1>3. CASE Shutdown
  BY <1>3 DEF Shutdown, Stop, StopDrained, StopTimedOut, Cancelled, registry
<1> QED
  BY <1>1, <1>2, <1>3 DEF SchedulerStep, Cancelled

--------------------------------------------------------------------------------
(* The invariant of the pipeline *)

\* Which config the scheduler's jobs come from.
JobsInv ==
  /\ rpc \notin {"boot", "exited"} => WellFormed(currentCfg.jobs)
  /\ rpc \notin {"boot", "exited", "loaded"} => jobs = Range(currentCfg.jobs)
  /\ rpc = "loaded" => jobs = Range(newCfg.jobs) /\ WellFormed(newCfg.jobs)

\* Which config the runner's engines come from.
EnginesInv ==
  /\ rpc \in {"switched", "synced", "loaded"} => engines = newCfg.engines
  /\ rpc \in Booting \cup {"idle", "begun", "paused", "restored", "resynced", "resumed",
                          "panicked"} => engines = currentCfg.engines
  /\ rpc \in Reloading => oldEngines = currentCfg.engines

\* Which config the skill dirs come from.
DirsInv ==
  /\ rpc \in {"synced", "loaded"} => dirs = newCfg.engines
  /\ rpc \in Booting \cup {"idle", "begun", "paused", "switched", "resynced", "resumed",
                          "panicked"} => dirs = currentCfg.engines
  /\ rpc \in Reloading => oldDirs = currentCfg.engines

\* Where in the pipeline the cron ticks.
CronInv ==
  /\ rpc \in {"boot", "exited", "paused", "switched", "synced", "failed", "restored",
              "resynced"} => cron = "nil"
  /\ rpc = "start" => cron = "loaded"
  /\ rpc \in {"loaded", "resumed"} => cron = "started" \/ Cancelled
  /\ rpc = "idle" => cron = "started" \/ Cancelled \/ reloadErr = "rollbackSyncFailed"
  /\ ~hasSkills => rpc \notin Reloading /\ reloadErr = "none"
  /\ reloadErr = "rollbackLoadFailed" => Cancelled

ReloadInv ==
  /\ JobsInv
  /\ EnginesInv
  /\ DirsInv
  /\ CronInv
  /\ shownCfg = currentCfg

\* Every step preserves the invariant, one step per action.
LEMMA ReloadInvStep ==
  ReloadTypeOK /\ ReloadInv /\ [ReloadNext]_reloadVars => ReloadInv'
<1> SUFFICES ASSUME ReloadTypeOK, ReloadInv, [ReloadNext]_reloadVars
             PROVE  ReloadInv'
  OBVIOUS
<1> USE DEF ReloadInv, JobsInv, EnginesInv, DirsInv, CronInv, Booting, Reloading,
            parts, locals
<1>1. CASE Boot
  <2>1. \/ cron' = "loaded" /\ jobs' = Range(currentCfg.jobs) /\ WellFormed(currentCfg.jobs)
        \/ cron' = "nil"
    BY <1>1 DEF Boot, Load, LoadCommitted
  <2>2. Cancelled' = Cancelled
    BY <1>1 DEF Boot, Load, Cancelled, shutdown
  <2> QED
    BY <1>1, <2>1, <2>2 DEF Boot
<1>2. CASE StartCron
  <2>1. UNCHANGED <<jobs, stopPc>> /\ cron' = "started"
    BY <1>2 DEF StartCron, Start, shutdown
  <2> QED
    BY <1>2, <2>1 DEF StartCron, Cancelled
<1>3. CASE BeginReload
  BY <1>3 DEF BeginReload, vars, Cancelled
<1>15. CASE Panic
  BY <1>15 DEF Panic, vars, Cancelled
<1>4. CASE PauseCron
  <2>1. UNCHANGED <<jobs, stopPc>> /\ cron' = "nil"
    BY <1>4 DEF PauseCron, Pause, shutdown
  <2> QED
    BY <1>4, <2>1 DEF PauseCron, Cancelled
<1>5. CASE SwitchEngines
  BY <1>5 DEF SwitchEngines, vars, Cancelled
<1>6. CASE SyncSkills
  BY <1>6 DEF SyncSkills, vars, Cancelled
<1>7. CASE LoadJobs
  BY <1>7, ReloadOutcome DEF LoadJobs, Cancelled
<1>8. CASE Commit
  BY <1>8 DEF Commit, vars, Cancelled
<1>9. CASE RestoreEngines
  BY <1>9 DEF RestoreEngines, vars, Cancelled
<1>10. CASE ResyncSkills
  BY <1>10 DEF ResyncSkills, vars, Cancelled
<1>11. CASE RestoreJobs
  BY <1>11, ReloadOutcome DEF RestoreJobs, Cancelled
<1>12. CASE RestoreObserver
  BY <1>12 DEF RestoreObserver, vars, Cancelled
<1>13. CASE SchedulerStep
  BY <1>13, SchedulerStepEffect DEF SchedulerStep
<1>14. CASE UNCHANGED reloadVars
  BY <1>14 DEF reloadVars, vars, Cancelled
<1> QED
  BY <1>1, <1>2, <1>3, <1>4, <1>5, <1>6, <1>7, <1>8, <1>9, <1>10, <1>11, <1>12, <1>13,
     <1>14, <1>15 DEF ReloadNext, ReloadStep

\* The invariant of the reload pipeline (main.go:181-240).
THEOREM ReloadInvariant == ReloadSpec => []ReloadInv
<1>1. ReloadInit => ReloadInv
  BY DEF ReloadInit, Init, ReloadInv, JobsInv, EnginesInv, DirsInv, CronInv, Booting,
         Reloading, Cancelled
<1> QED
  BY <1>1, ReloadInvStep, ReloadTypeCorrect, PTL DEF ReloadSpec

\* The cron never fires jobs of one config on the engines or skill dirs of
\* another (main.go:221-238).
THEOREM CronConsistent == ReloadSpec => []CronFiresOneConfig
<1>1. ReloadTypeOK /\ ReloadInv => CronFiresOneConfig
  BY DEF ReloadTypeOK, ReloadInv, JobsInv, EnginesInv, DirsInv, CronInv,
         CronFiresOneConfig, FiringCfg, Booting, Reloading
<1> QED
  BY <1>1, ReloadInvariant, ReloadTypeCorrect, PTL

\* A reload takes effect everywhere or nowhere, with any failure and with Stop
\* at any point (main.go:203-219).
THEOREM AllOrNothing == ReloadSpec => []ReloadIsAllOrNothing
<1>1. ReloadInv => ReloadIsAllOrNothing
  BY DEF ReloadInv, JobsInv, EnginesInv, DirsInv, ReloadIsAllOrNothing
<1> QED
  BY <1>1, ReloadInvariant, PTL

\* A cron that is missing between reloads was stopped for good, or its loss was
\* returned as an error (main.go:206-213).
THEOREM SilenceHasACause == ReloadSpec => []SilenceIsReported
<1>1. ReloadInv => SilenceIsReported
  BY DEF ReloadInv, CronInv, SilenceIsReported
<1> QED
  BY <1>1, ReloadInvariant, PTL
================================================================================
