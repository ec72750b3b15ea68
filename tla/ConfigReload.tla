----------------------------- MODULE ConfigReload ------------------------------
(***************************************************************************)
(* The program around the scheduler, src/main.go: start-up, and the reload *)
(* that the config watcher's goroutine performs (applyConfigReload) while  *)
(* cron, HTTP handlers, runs and the signal handler use the same           *)
(* scheduler.  Each step takes and releases the mutex of one component, so *)
(* everybody else may move between two steps of a reload.                  *)
(*                                                                         *)
(* The engines of a config stand for their skills_dir too: the dirs that   *)
(* collectGlobalSkillDirs (main.go:136) returns are a function of them.    *)
(***************************************************************************)
EXTENDS Scheduler

CONSTANTS
  Engine,     \* values of the engines section
  Config      \* the configs that LoadConfig may return

ASSUME ConfigAssumption == Config \subseteq [jobs : JobLists, engines : Engine]

VARIABLES
  currentCfg,  \* currentCfg in main
  engines,     \* Runner.engines
  dirs,        \* SkillManager.globalDirs, as the engines they come from
  shownCfg,    \* Observer.config
  rpc,         \* the next step of main or of applyConfigReload
  hasSkills,   \* main has found a skills directory; without one its skills is nil
  newCfg,      \* its arguments and locals
  oldEngines,
  oldDirs,
  reloadErr    \* what the last reload returned

locals     == <<hasSkills, newCfg, oldEngines, oldDirs>>
parts      == <<currentCfg, engines, dirs, shownCfg>>
reloadVars == <<vars, parts, rpc, locals, reloadErr>>

Booting == {"boot", "start", "exited"}
Reloading == {"begun", "paused", "switched", "synced", "loaded",
              "failed", "restored", "resynced", "resumed"}
Errors == {"none", "rolledBack", "rollbackSyncFailed", "rollbackLoadFailed"}

ReloadTypeOK ==
  /\ TypeOK
  /\ currentCfg \in Config /\ newCfg \in Config /\ shownCfg \in Config
  /\ {engines, dirs, oldEngines, oldDirs} \subseteq Engine
  /\ rpc \in Booting \cup Reloading \cup {"idle", "panicked"}
  /\ hasSkills \in BOOLEAN
  /\ reloadErr \in Errors

ReloadInit ==
  /\ Init
  /\ hasSkills \in BOOLEAN
  /\ currentCfg \in Config
  /\ newCfg = currentCfg /\ shownCfg = currentCfg
  /\ engines = currentCfg.engines /\ oldEngines = engines
  /\ dirs = currentCfg.engines /\ oldDirs = dirs
  /\ rpc = "boot"
  /\ reloadErr = "none"

--------------------------------------------------------------------------------
(* Start-up: main exits when the first load fails *)

Boot ==
  /\ rpc = "boot"
  /\ Load(currentCfg.jobs)
  /\ rpc' = IF cron' = "loaded" THEN "start" ELSE "exited"
  /\ UNCHANGED <<parts, locals, reloadErr>>

StartCron ==
  /\ rpc = "start"
  /\ Start
  /\ rpc' = "idle"
  /\ UNCHANGED <<parts, locals, reloadErr>>

--------------------------------------------------------------------------------
(* applyConfigReload *)

\* The watcher's callback has read a valid config; the old state is saved.
BeginReload ==
  /\ rpc = "idle" /\ hasSkills
  /\ newCfg' \in Config
  /\ oldEngines' = engines
  /\ oldDirs' = dirs
  /\ rpc' = "begun"
  /\ UNCHANGED <<vars, parts, hasSkills, reloadErr>>

\* A nil *SkillManager in the interface reloadSkills is not nil: GlobalDirs is called
\* on it and panics, which ends the program.
Panic ==
  /\ rpc = "idle" /\ ~hasSkills
  /\ rpc' = "panicked"
  /\ UNCHANGED <<vars, parts, locals, reloadErr>>

\* Mutant: the old cron keeps ticking during the reload.
PauseCronSkipped ==
  /\ rpc = "begun"
  /\ rpc' = "paused"
  /\ UNCHANGED <<vars, parts, locals, reloadErr>>

PauseCron ==
  /\ rpc = "begun"
  /\ Pause
  /\ rpc' = "paused"
  /\ UNCHANGED <<parts, locals, reloadErr>>

SwitchEngines ==
  /\ rpc = "paused"
  /\ engines' = newCfg.engines
  /\ rpc' = "switched"
  /\ UNCHANGED <<vars, currentCfg, dirs, shownCfg, locals, reloadErr>>

\* EnsureSymlinks fails when skills/ cannot be read (skills.go:80-89).
SyncSkills ==
  /\ rpc = "switched"
  /\ dirs' = newCfg.engines
  /\ rpc' \in {"synced", "failed"}
  /\ UNCHANGED <<vars, currentCfg, engines, shownCfg, locals, reloadErr>>

LoadJobs ==
  /\ rpc = "synced"
  /\ Reload(newCfg.jobs)
  /\ rpc' = IF cron' = "started" THEN "loaded" ELSE "failed"
  /\ UNCHANGED <<parts, locals, reloadErr>>

Commit ==
  /\ rpc = "loaded"
  /\ currentCfg' = newCfg
  /\ shownCfg' = newCfg
  /\ reloadErr' = "none"
  /\ rpc' = "idle"
  /\ UNCHANGED <<vars, engines, dirs, locals>>

RestoreEngines ==
  /\ rpc = "failed"
  /\ engines' = oldEngines
  /\ rpc' = "restored"
  /\ UNCHANGED <<vars, currentCfg, dirs, shownCfg, locals, reloadErr>>

\* Mutant: the rollback forgets the skill dirs.
ResyncSkillsOnly ==
  /\ rpc = "restored"
  /\ \/ /\ rpc' = "resynced"
        /\ UNCHANGED reloadErr
     \/ /\ rpc' = "idle"
        /\ reloadErr' = "rollbackSyncFailed"
  /\ UNCHANGED <<vars, parts, locals>>

\* A symlink sync that fails here ends the rollback: the scheduler stays paused.
ResyncSkills ==
  /\ rpc = "restored"
  /\ dirs' = oldDirs
  /\ \/ /\ rpc' = "resynced"
        /\ UNCHANGED reloadErr
     \/ /\ rpc' = "idle"
        /\ reloadErr' = "rollbackSyncFailed"
  /\ UNCHANGED <<vars, currentCfg, engines, shownCfg, locals>>

\* Mutant: the rollback loads the new jobs again.
RestoreJobsOfNew ==
  /\ rpc = "resynced"
  /\ Reload(newCfg.jobs)
  /\ IF cron' = "started"
       THEN /\ rpc' = "resumed"
            /\ UNCHANGED reloadErr
       ELSE /\ rpc' = "idle"
            /\ reloadErr' = "rollbackLoadFailed"
  /\ UNCHANGED <<parts, locals>>

RestoreJobs ==
  /\ rpc = "resynced"
  /\ Reload(currentCfg.jobs)
  /\ IF cron' = "started"
       THEN /\ rpc' = "resumed"
            /\ UNCHANGED reloadErr
       ELSE /\ rpc' = "idle"
            /\ reloadErr' = "rollbackLoadFailed"
  /\ UNCHANGED <<parts, locals>>

RestoreObserver ==
  /\ rpc = "resumed"
  /\ shownCfg' = currentCfg
  /\ rpc' = "idle"
  /\ reloadErr' = "rolledBack"
  /\ UNCHANGED <<vars, currentCfg, engines, dirs, locals>>

ReloadStep ==
  \/ BeginReload \/ Panic \/ PauseCron \/ SwitchEngines \/ SyncSkills \/ LoadJobs \/ Commit
  \/ RestoreEngines \/ ResyncSkills \/ RestoreJobs \/ RestoreObserver

--------------------------------------------------------------------------------

\* The observer, the cron and the signal handler exist once main has started.
SchedulerStep ==
  /\ rpc \notin Booting \cup {"panicked"}
  /\ \/ \E r \in Run : Trigger(r) \/ RunStep(r)
     \/ Shutdown
  /\ UNCHANGED <<parts, rpc, locals, reloadErr>>

ReloadNext == Boot \/ StartCron \/ ReloadStep \/ SchedulerStep

ReloadSpec == ReloadInit /\ [][ReloadNext]_reloadVars

--------------------------------------------------------------------------------
(* Properties *)

\* main drives the scheduler as Scheduler says: nothing it does is outside the
\* protocol of the component (main.go:75-79, 221, 232, 211).
UsesScheduler == Spec

\* The config the cron fires the jobs of: the one that is about to be committed
\* or the current one.
FiringCfg == IF rpc = "loaded" THEN newCfg ELSE currentCfg

\* The cron never ticks on a mixture: whenever it does, its jobs, the runner's
\* engines and the skill dirs come from one config, in every intermediate state
\* of a reload and of its rollback (main.go:203-238).
CronFiresOneConfig ==
  cron = "started" =>
    /\ jobs = Range(FiringCfg.jobs)
    /\ engines = FiringCfg.engines
    /\ dirs = FiringCfg.engines

\* A reload takes effect everywhere or nowhere, whichever of its steps fails
\* and whether or not Stop comes in between (main.go:181-240).
ReloadIsAllOrNothing ==
  rpc = "idle" =>
    /\ jobs = Range(currentCfg.jobs)
    /\ engines = currentCfg.engines
    /\ dirs = currentCfg.engines
    /\ shownCfg = currentCfg

\* Between reloads the cron ticks, unless the program is stopping or the last
\* reload said that its rollback could not sync the skills; and putting the old
\* jobs back fails only because of Stop (main.go:206-213).  A program without a skills
\* directory is not silenced but ended by its first reload (main.go:52, 103, 199).
SilenceIsReported ==
  rpc = "idle" =>
    /\ cron = "started" \/ Cancelled \/ (hasSkills /\ reloadErr = "rollbackSyncFailed")
    /\ reloadErr = "rollbackLoadFailed" => Cancelled

\* main_test.go:351: "%s did not preserve active jobs and health", asserted of a
\* reload that failed.  Refuted: when skills/ has become unreadable both the
\* reload and its rollback fail to sync, and the cron of the old jobs is gone.
FailedReloadPreservesJobs ==
  rpc = "idle" /\ ~Cancelled => cron = "started"
================================================================================
