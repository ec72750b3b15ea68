------------------------------- MODULE Scheduler -------------------------------
(***************************************************************************)
(* The job scheduler, src/internal/scheduler.go.                           *)
(*                                                                         *)
(* Every access to a field of the Go type Scheduler happens with s.mu      *)
(* held, so each critical section is one step here.  What interleaves is   *)
(* what the code does between critical sections: a run of a job (runJob)   *)
(* takes up to nine steps, any number of runs are under way at once, and   *)
(* Load, Start, Pause, Reload, RunNow and Stop may come between any two.   *)
(***************************************************************************)
EXTENDS Naturals, Sequences, FiniteSets, Functions

CONSTANTS
  Run,          \* slots for the goroutines executing runJob, recycled
  SpareSlots,   \* bound: cron and HTTP triggers leave this many slots free
  Name,         \* job names
  Key,          \* lock keys and workdirs
  Schedule,     \* schedule expressions
  BadSchedule,  \* the one that cron.AddFunc refuses
  JobLists,     \* the job lists Load and Reload may be given
  NoKey,        \* a job without lock_key
  NoJob,        \* the job of a free slot
  NoSchedule    \* the schedule of a status that does not exist

JobConfig == UNION {Range(list) : list \in JobLists}

\* LoadConfig has validated the lists: names are distinct (config.go:118-214).
ASSUME JobListsAssumption ==
  \A list \in JobLists :
    /\ list \in Seq(
         [name            : Name,
          schedule        : Schedule,
          workdir         : Key,
          lockKey         : Key \cup {NoKey},
          timeoutValid    : BOOLEAN,
          runAfterSuccess : Seq(Name)])
    /\ \A i, j \in DOMAIN list : list[i].name = list[j].name => i = j

ASSUME SentinelAssumption ==
  /\ NoJob \notin JobConfig
  /\ NoKey \notin Key
  /\ NoSchedule \notin Schedule

ASSUME SlotAssumption == IsFiniteSet(Run) /\ SpareSlots \in Nat

VARIABLES
  cron,      \* s.cron: "nil", "loaded" (entries, not ticking) or "started"
  jobs,      \* s.jobs, which are also the entries of s.cron
  status,    \* s.statuses: per name "absent", "idle" or "running"
  shown,     \* s.statuses[name].Schedule, what the dashboard shows
  held,      \* the keys whose mutex in s.locks is locked
  running,   \* s.running: the runs the WaitGroup counts
  pc,        \* where each run is in runJob
  job,       \* the JobConfig each run was started with
  st,        \* its *JobStatus: "none", "current", or "dropped" from s.statuses
  todo,      \* the run_after_success names it still has to trigger
  cronWait,  \* the runs the jobWaiter of s.cron counts
  stopPc,    \* Stop: "idle", "draining", "drained" or "timedOut"
  stopWait   \* the runs in the jobWaiter of the cron that Stop stopped

registry == <<cron, jobs, status, shown>>
shutdown == <<stopPc, stopWait>>
perRun   == <<pc, job, st, todo>>
vars     == <<cron, jobs, status, shown, held, running, pc, job, st, todo,
              cronWait, stopPc, stopWait>>

--------------------------------------------------------------------------------
(* Where a run can be *)

Holding   == {"locked", "refused", "started", "returned", "finished"}
Executing == {"started", "returned"}
Unregistered == {"free", "spawned"}
Stages == Holding \cup Unregistered \cup {"registered", "unlocked", "returning"}

\* Mutant: no fallback to the workdir.
JobLockKeyNoWorkdir(j) == j.lockKey

JobLockKey(j) == IF j.lockKey # NoKey THEN j.lockKey ELSE j.workdir

\* s.ctx.Err() # nil: only Stop cancels the context.
Cancelled == stopPc # "idle"

TypeOK ==
  /\ cron \in {"nil", "loaded", "started"}
  /\ jobs \subseteq JobConfig
  /\ status \in [Name -> {"absent", "idle", "running"}]
  /\ shown \in [Name -> Schedule \cup {NoSchedule}]
  /\ held \subseteq Key
  /\ running \subseteq Run
  /\ pc \in [Run -> Stages]
  /\ job \in [Run -> JobConfig \cup {NoJob}]
  /\ \A r \in Run : pc[r] = "free" <=> job[r] = NoJob
  /\ st \in [Run -> {"none", "current", "dropped"}]
  /\ todo \in [Run -> Seq(Name)]
  /\ cronWait \subseteq Run
  /\ stopPc \in {"idle", "draining", "drained", "timedOut"}
  /\ stopWait \subseteq Run

Init ==
  /\ cron = "nil"
  /\ jobs = {}
  /\ status = [n \in Name |-> "absent"]
  /\ shown = [n \in Name |-> NoSchedule]
  /\ held = {}
  /\ running = {}
  /\ pc = [r \in Run |-> "free"]
  /\ job = [r \in Run |-> NoJob]
  /\ st = [r \in Run |-> "none"]
  /\ todo = [r \in Run |-> <<>>]
  /\ cronWait = {}
  /\ stopPc = "idle"
  /\ stopWait = {}

--------------------------------------------------------------------------------
(* Starting a run: a cron tick, POST /api/run, or a follow-up *)

Spawn(r, j) ==
  /\ pc[r] = "free"
  /\ pc' = [pc EXCEPT ![r] = "spawned"]
  /\ job' = [job EXCEPT ![r] = j]

MayTrigger == Cardinality({r \in Run : pc[r] = "free"}) > SpareSlots

\* The ticking cron starts the function of one of its entries.
FireCron(r) ==
  /\ cron = "started"
  /\ MayTrigger
  /\ \E j \in jobs : Spawn(r, j)
  /\ cronWait' = cronWait \cup {r}
  /\ UNCHANGED <<registry, held, running, st, todo, shutdown>>

\* RunNow refuses unknown names and, once stopped, every name.
Accepted(n) == IF Cancelled THEN {} ELSE {j \in jobs : j.name = n}

RunNow(r, n) ==
  /\ MayTrigger
  /\ \E j \in Accepted(n) : Spawn(r, j)
  /\ UNCHANGED <<registry, held, running, st, todo, cronWait, shutdown>>

--------------------------------------------------------------------------------
(* The steps of runJob *)

Exit(r) ==
  /\ pc' = [pc EXCEPT ![r] = "free"]
  /\ job' = [job EXCEPT ![r] = NoJob]
  /\ running' = running \ {r}
  /\ cronWait' = cronWait \ {r}
  /\ stopWait' = stopWait \ {r}

\* Mutant: a run registers without looking at the context.
MayRegisterAlways == TRUE

MayRegister == ~Cancelled

AlreadyRunning(n) == status[n] = "running"

\* s.statuses[name], created with the run's own schedule when it is missing.
LookUpStatus(j, value) ==
  /\ status' = [status EXCEPT ![j.name] = value]
  /\ shown' = [shown EXCEPT ![j.name] =
                 IF status[j.name] = "absent" THEN j.schedule ELSE @]

\* First critical section: leave if cancelled, else join the WaitGroup and
\* carry on unless the job's status says that it is running.
Register(r) ==
  /\ pc[r] = "spawned"
  /\ \/ /\ ~MayRegister
        /\ Exit(r)
        /\ UNCHANGED <<status, shown>>
     \/ /\ MayRegister
        /\ running' = running \cup {r}
        /\ IF AlreadyRunning(job[r].name)
             THEN /\ pc' = [pc EXCEPT ![r] = "returning"]
                  /\ UNCHANGED <<status, shown>>
             ELSE /\ pc' = [pc EXCEPT ![r] = "registered"]
                  /\ LookUpStatus(job[r], "idle")
        /\ UNCHANGED <<job, cronWait, stopWait>>
  /\ UNCHANGED <<cron, jobs, held, st, todo, stopPc>>

\* Mutant: the result of TryLock is ignored.
LockFreeAssumed(k) == TRUE

LockFree(k) == k \notin held

TryLock(r) ==
  /\ pc[r] = "registered"
  /\ IF LockFree(JobLockKey(job[r]))
       THEN /\ held' = held \cup {JobLockKey(job[r])}
            /\ pc' = [pc EXCEPT ![r] = "locked"]
       ELSE /\ pc' = [pc EXCEPT ![r] = "returning"]
            /\ UNCHANGED held
  /\ UNCHANGED <<registry, running, job, st, todo, cronWait, shutdown>>

\* Second critical section: the status is looked up again, because a reload
\* may have replaced it since Register.
MarkRunning(r) ==
  /\ pc[r] = "locked"
  /\ IF AlreadyRunning(job[r].name)
       THEN /\ pc' = [pc EXCEPT ![r] = "refused"]
            /\ UNCHANGED <<status, shown, st>>
       ELSE /\ pc' = [pc EXCEPT ![r] = "started"]
            /\ LookUpStatus(job[r], "running")
            /\ st' = [st EXCEPT ![r] = "current"]
  /\ UNCHANGED <<cron, jobs, held, running, job, todo, cronWait, shutdown>>

\* Mutant: the status is looked up by name again instead of by pointer.
ClearRunningByName(r) ==
  /\ status' = [status EXCEPT ![job[r].name] = "idle"]
  /\ st' = [st EXCEPT ![r] = "none"]

\* st.Running = false, through the pointer the run took in MarkRunning: it
\* shows only if that status is still the one in s.statuses.
ClearRunning(r) ==
  /\ status' = IF st[r] = "current"
                 THEN [status EXCEPT ![job[r].name] = "idle"]
                 ELSE status
  /\ st' = [st EXCEPT ![r] = "none"]

\* A timeout that does not parse, or is not positive, fails the run.
TimeoutRejected(r) ==
  /\ pc[r] = "started"
  /\ ~job[r].timeoutValid
  /\ ClearRunning(r)
  /\ pc' = [pc EXCEPT ![r] = "finished"]
  /\ UNCHANGED <<cron, jobs, shown, held, running, job, todo, cronWait, shutdown>>

\* Runner.Run returns.  It checks the context after the process has exited
\* (runner.go:116), so a run that it reports as successful was not cancelled.
RunnerReturn(r, success) ==
  /\ pc[r] = "started"
  /\ job[r].timeoutValid
  /\ success => ~Cancelled
  /\ pc' = [pc EXCEPT ![r] = "returned"]
  /\ todo' = [todo EXCEPT ![r] = IF success THEN job[r].runAfterSuccess ELSE <<>>]
  /\ UNCHANGED <<registry, held, running, job, st, cronWait, shutdown>>

\* Third critical section.
Finish(r) ==
  /\ pc[r] = "returned"
  /\ ClearRunning(r)
  /\ pc' = [pc EXCEPT ![r] = "finished"]
  /\ UNCHANGED <<cron, jobs, shown, held, running, job, todo, cronWait, shutdown>>

\* Mutant: the deferred unlock of a refused run is forgotten.
UnlockFinishedOnly(r) ==
  /\ pc[r] \in {"refused", "finished"}
  /\ held' = IF pc[r] = "refused" THEN held ELSE held \ {JobLockKey(job[r])}
  /\ pc' = [pc EXCEPT ![r] = IF @ = "refused" THEN "returning" ELSE "unlocked"]
  /\ UNCHANGED <<registry, running, job, st, todo, cronWait, shutdown>>

\* jobLock.Unlock, called before the callback or deferred to the return of a
\* run that MarkRunning refused.
Unlock(r) ==
  /\ pc[r] \in {"refused", "finished"}
  /\ held' = held \ {JobLockKey(job[r])}
  /\ pc' = [pc EXCEPT ![r] = IF @ = "refused" THEN "returning" ELSE "unlocked"]
  /\ UNCHANGED <<registry, running, job, st, todo, cronWait, shutdown>>

\* s.callback, supplied by the scheduler's owner, returns.
CallbackReturn(r) ==
  /\ pc[r] = "unlocked"
  /\ pc' = [pc EXCEPT ![r] = "returning"]
  /\ UNCHANGED <<registry, held, running, job, st, todo, cronWait, shutdown>>

\* Mutant: a follow-up that RunNow refuses is retried.
FollowInsisting(r) ==
  /\ pc[r] = "returning"
  /\ todo[r] # <<>>
  /\ todo' = [todo EXCEPT ![r] = Tail(@)]
  /\ \E f \in Run, j \in Accepted(Head(todo[r])) : Spawn(f, j)
  /\ UNCHANGED <<registry, held, running, st, cronWait, shutdown>>

\* triggerRunAfterSuccess: RunNow for the next name; a refusal is logged.
Follow(r) ==
  /\ pc[r] = "returning"
  /\ todo[r] # <<>>
  /\ todo' = [todo EXCEPT ![r] = Tail(@)]
  /\ IF Accepted(Head(todo[r])) = {}
       THEN UNCHANGED <<pc, job>>
       ELSE \E f \in Run, j \in Accepted(Head(todo[r])) : Spawn(f, j)
  /\ UNCHANGED <<registry, held, running, st, cronWait, shutdown>>

\* runJob returns: running.Done(), then the jobWaiter of the cron.
Leave(r) ==
  /\ pc[r] = "returning"
  /\ todo[r] = <<>>
  /\ Exit(r)
  /\ UNCHANGED <<registry, held, st, todo, stopPc>>

--------------------------------------------------------------------------------
(* Load, Start, Pause, Reload, Stop *)

Names(list) == {list[i].name : i \in DOMAIN list}
JobNamed(list, n) == CHOOSE j \in Range(list) : j.name = n

\* The statuses of names that are not in the list are dropped; a run that
\* holds a pointer to one keeps it.
Keep(list) ==
  /\ status' = [n \in Name |-> IF n \notin Names(list) THEN "absent"
                               ELSE IF status[n] = "absent" THEN "idle"
                               ELSE status[n]]
  /\ shown' = [n \in Name |-> IF n \in Names(list)
                                THEN JobNamed(list, n).schedule
                                ELSE NoSchedule]
  /\ st' = [r \in Run |-> IF st[r] = "current" /\ job[r].name \notin Names(list)
                            THEN "dropped" ELSE st[r]]

FirstBad(list, i) ==
  /\ i \in DOMAIN list
  /\ list[i].schedule = BadSchedule
  /\ \A j \in 1..(i - 1) : list[j].schedule # BadSchedule

WellFormed(list) == \A i \in DOMAIN list : list[i].schedule # BadSchedule

\* loadLocked gives up at the first schedule it cannot parse; by then the
\* statuses it preserves show the schedules of the jobs before that one.
ShowUpTo(list, i) ==
  shown' = [n \in Name |->
    IF status[n] # "absent" /\ \E k \in 1..(i - 1) : list[k].name = n
      THEN JobNamed(list, n).schedule
      ELSE shown[n]]

\* Mutant: loadLocked does not look at the context.
LoadCommittedAlways(list) ==
  /\ WellFormed(list)
  /\ Keep(list)
  /\ jobs' = Range(list)
  /\ cronWait' = {}

LoadCommitted(list) ==
  /\ ~Cancelled
  /\ WellFormed(list)
  /\ Keep(list)
  /\ jobs' = Range(list)
  /\ cronWait' = {}

LoadFailed(list) ==
  /\ \/ /\ Cancelled
        /\ UNCHANGED shown
     \/ /\ ~Cancelled
        /\ \E i \in DOMAIN list : FirstBad(list, i) /\ ShowUpTo(list, i)
  /\ UNCHANGED <<jobs, status, st>>

\* Called while no cron ticks: at start-up, before Start.
Load(list) ==
  /\ cron = "nil"
  /\ \/ LoadCommitted(list) /\ cron' = "loaded"
     \/ LoadFailed(list) /\ UNCHANGED <<cron, cronWait>>
  /\ UNCHANGED <<held, running, pc, job, todo, shutdown>>

Start ==
  /\ cron # "nil"
  /\ cron' = "started"
  /\ UNCHANGED <<jobs, status, shown, held, running, perRun, cronWait, shutdown>>

Pause ==
  /\ cron' = "nil"
  /\ cronWait' = {}
  /\ UNCHANGED <<jobs, status, shown, held, running, perRun, shutdown>>

\* Mutant: the cron is stopped only once the load has succeeded.
ReloadLoadFirst(list) ==
  /\ \/ LoadCommitted(list) /\ cron' = "started"
     \/ LoadFailed(list) /\ UNCHANGED <<cron, cronWait>>
  /\ UNCHANGED <<held, running, pc, job, todo, shutdown>>

\* Stops the cron first, so a load that fails leaves no cron at all.
Reload(list) ==
  /\ \/ LoadCommitted(list) /\ cron' = "started"
     \/ LoadFailed(list) /\ cron' = "nil" /\ cronWait' = {}
  /\ UNCHANGED <<held, running, pc, job, todo, shutdown>>

\* Cancels the context and stops the cron in one critical section, then waits.
Stop ==
  /\ stopPc = "idle"
  /\ stopPc' = "draining"
  /\ stopWait' = cronWait
  /\ cron' = "nil"
  /\ cronWait' = {}
  /\ UNCHANGED <<jobs, status, shown, held, running, perRun>>

StopDrained ==
  /\ stopPc = "draining"
  /\ stopWait = {}
  /\ running = {}
  /\ stopPc' = "drained"
  /\ UNCHANGED <<registry, held, running, perRun, cronWait, stopWait>>

\* Mutant: the timer is looked at only after the WaitGroup.
StopTimedOutLast ==
  /\ stopPc = "draining"
  /\ running = {}
  /\ stopPc' = "timedOut"
  /\ UNCHANGED <<registry, held, running, perRun, cronWait, stopWait>>

\* The timer of schedulerShutdownTimeout fires.
StopTimedOut ==
  /\ stopPc = "draining"
  /\ stopPc' = "timedOut"
  /\ UNCHANGED <<registry, held, running, perRun, cronWait, stopWait>>

--------------------------------------------------------------------------------

\* What runJob does by itself, without the callback.
OwnStep(r) ==
  \/ Register(r) \/ TryLock(r) \/ MarkRunning(r)
  \/ TimeoutRejected(r) \/ RunnerReturn(r, TRUE) \/ RunnerReturn(r, FALSE)
  \/ Finish(r) \/ Unlock(r) \/ Leave(r)

RunStep(r) == OwnStep(r) \/ Follow(r) \/ CallbackReturn(r)

Trigger(r) == FireCron(r) \/ \E n \in Name : RunNow(r, n)

Shutdown == Stop \/ StopDrained \/ StopTimedOut

Next ==
  \/ \E r \in Run : Trigger(r) \/ RunStep(r)
  \/ \E list \in JobLists : Load(list) \/ Reload(list)
  \/ Start
  \/ Pause
  \/ Shutdown

Spec == Init /\ [][Next]_vars

\* The Go scheduler runs every goroutine; Runner.Run returns because of the
\* job's timeout and WaitDelay; the timer fires.  Nothing makes a callback
\* return, or anybody trigger, reload or stop.  A follow-up's go statement never
\* waits in the code, so only the bound on slots can disable Follow: SF.
Fairness ==
  /\ \A r \in Run : WF_vars(OwnStep(r)) /\ SF_vars(Follow(r))
  /\ WF_vars(StopDrained \/ StopTimedOut)

FairSpec == Spec /\ Fairness

\* A callback returns, like the one main installs (main.go:70-74).
CallbacksReturn == \A r \in Run : WF_vars(CallbackReturn(r))

--------------------------------------------------------------------------------
(* Properties *)

\* Runs that share a lock key are never between TryLock and Unlock together,
\* and no mutex stays locked without a run that will unlock it
\* (scheduler.go:251-264, 292, 326).
LockDiscipline ==
  /\ \A r, s \in Run :
       /\ pc[r] \in Holding /\ pc[s] \in Holding
       /\ JobLockKey(job[r]) = JobLockKey(job[s])
       => r = s
  /\ held = {JobLockKey(job[r]) : r \in {q \in Run : pc[q] \in Holding}}

\* "running" on the dashboard always has exactly one run behind it, whatever
\* reloads drop and recreate the status while runs hold pointers to it: a
\* stale finish never clears the flag of a newer run, and no flag is left set
\* after its run (scheduler.go:81-92, 266-281, 309-310).
StatusOwnership ==
  /\ \A n \in Name : status[n] = "running" =>
       \E r \in Run : pc[r] \in Executing /\ st[r] = "current" /\ job[r].name = n
  /\ \A r \in Run : pc[r] \in Executing /\ st[r] = "current" =>
       /\ status[job[r].name] = "running"
       /\ \A s \in Run : pc[s] \in Executing /\ st[s] = "current"
                           /\ job[s].name = job[r].name => s = r

\* When Stop returns without having timed out no job is executing, no lock is
\* held and no status says running, and this cannot change later: a goroutine
\* that was started before Stop and registers after it leaves at once
\* (scheduler.go:228-238, 112-136).
DrainedMeansQuiet ==
  stopPc = "drained" =>
    /\ \A r \in Run : pc[r] \in Unregistered
    /\ held = {}
    /\ \A n \in Name : status[n] # "running"

\* No cron survives Stop, not even when the config watcher reloads after it
\* (scheduler.go:66-68, 154-163).
StopIsFinal == Cancelled => cron = "nil"

\* Whenever a cron exists, every job in it has a status, and the dashboard
\* shows the schedule the cron really has: a load that fails half way has
\* already changed preserved statuses, but leaves no cron (scheduler.go:72-96).
ShownSchedulesAreLive ==
  \A j \in jobs :
    /\ status[j.name] # "absent"
    /\ cron # "nil" => shown[j.name] = j.schedule

\* The WaitGroup behaves as the abstract group that can be drained: nobody
\* joins once Stop has begun, and Stop reports a drain only of an empty group.
Drain == INSTANCE DrainGroup WITH
  Member  <- Run,
  members <- running,
  phase   <- CASE stopPc = "idle"     -> "open"
               [] stopPc = "draining" -> "closing"
               [] stopPc = "drained"  -> "drained"
               [] OTHER               -> "gaveUp"

RefinesDrainGroup == Drain!Spec

\* Stop waits for a drain or for its timer, never for a callback that blocks
\* (scheduler.go:121-135).
StopReturns == Drain!FairSpec

\* Every lock that is taken is released, even if no callback ever returns:
\* the callback runs after the unlock (scheduler.go:292, 326-331).
LocksAreReleased == \A k \in Key : k \in held ~> k \notin held

\* Every run that is started leaves the WaitGroup, follow-ups that are refused
\* included, so that Stop can drain, as long as callbacks return
\* (scheduler.go:238, 337-345).
RunsLeave == CallbacksReturn => \A r \in Run : pc[r] = "spawned" ~> pc[r] = "free"

\* docs/local-jobs.md:60: "An already-running job is skipped."  Refuted: a
\* reload that drops a job and one that brings it back give its name a new
\* status while the old run is still executing.
RunningJobIsSkipped ==
  \A r, s \in Run :
    /\ pc[r] \in Executing /\ pc[s] \in Executing
    /\ job[r].name = job[s].name
    => r = s

\* scheduler.go:81: "Preserve existing status for active jobs; drop removed
\* ones."  Refuted: a run that was started before the reload looks its status
\* up afterwards and puts the removed job back on the dashboard.
RemovedJobsHaveNoStatus ==
  \A n \in Name : status[n] # "absent" => \E j \in jobs : j.name = n
================================================================================
