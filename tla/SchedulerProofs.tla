--------------------------- MODULE SchedulerProofs ----------------------------
(***************************************************************************)
(* Proofs, for any number of runs, jobs, keys and job lists, of the safety *)
(* properties of module Scheduler.                                         *)
(***************************************************************************)
EXTENDS Scheduler, TLAPS

--------------------------------------------------------------------------------
(* Facts about the constants *)

\* The fields of a job that some list holds have their types.
LEMMA JobConfigFields ==
  ASSUME NEW j \in JobConfig
  PROVE  /\ j.name \in Name
         /\ j.schedule \in Schedule
         /\ JobLockKey(j) \in Key
         /\ j.runAfterSuccess \in Seq(Name)
<1> DEFINE JobType ==
       [name : Name, schedule : Schedule, workdir : Key, lockKey : Key \cup {NoKey},
        timeoutValid : BOOLEAN, runAfterSuccess : Seq(Name)]
<1>1. PICK list \in JobLists : j \in Range(list)
  BY DEF JobConfig
<1>2. list \in Seq(JobType)
  BY JobListsAssumption
<1>3. PICK i \in DOMAIN list : j = list[i]
  BY <1>1 DEF Range
<1>4. j \in JobType
  <2> HIDE DEF JobType
  <2> QED
    BY <1>2, <1>3
<1> QED
  BY <1>4 DEF JobLockKey

\* Every job of a list is a JobConfig, and JobNamed finds the one of a name.
LEMMA ListFacts ==
  ASSUME NEW list \in JobLists
  PROVE  /\ Range(list) \subseteq JobConfig
         /\ \A j \in Range(list) : j.name \in Names(list)
         /\ \A n \in Names(list) : /\ JobNamed(list, n) \in Range(list)
                                   /\ JobNamed(list, n).name = n
         /\ \A j \in Range(list) : JobNamed(list, j.name) = j
<1>1. Range(list) \subseteq JobConfig
  BY DEF JobConfig
<1>2. \A j \in Range(list) : j.name \in Names(list)
  BY DEF Range, Names
<1>3. ASSUME NEW n \in Names(list)
      PROVE  JobNamed(list, n) \in Range(list) /\ JobNamed(list, n).name = n
  <2>1. \E j \in Range(list) : j.name = n
    BY <1>3 DEF Range, Names
  <2> QED
    BY <2>1 DEF JobNamed
<1>4. ASSUME NEW j \in Range(list)
      PROVE  JobNamed(list, j.name) = j
  <2>1. /\ JobNamed(list, j.name) \in Range(list)
        /\ JobNamed(list, j.name).name = j.name
    BY <1>2, <1>3
  <2>2. PICK i \in DOMAIN list : j = list[i]
    BY DEF Range
  <2>3. PICK k \in DOMAIN list : JobNamed(list, j.name) = list[k]
    BY <2>1 DEF Range
  <2>4. i = k
    BY <2>1, <2>2, <2>3, JobListsAssumption
  <2> QED
    BY <2>2, <2>3, <2>4
<1> QED
  BY <1>1, <1>2, <1>3, <1>4

\* A job that RunNow accepts is a loaded one.
LEMMA AcceptedJobs ==
  ASSUME TypeOK, NEW n \in Name
  PROVE  Accepted(n) \subseteq JobConfig
BY DEF Accepted, TypeOK

--------------------------------------------------------------------------------
(* Type correctness *)

\* A load that commits or fails leaves the registry well typed.
LEMMA LoadTypes ==
  ASSUME TypeOK, NEW list \in JobLists,
         LoadCommitted(list) \/ LoadFailed(list)
  PROVE  /\ jobs' \subseteq JobConfig
         /\ status' \in [Name -> {"absent", "idle", "running"}]
         /\ shown' \in [Name -> Schedule \cup {NoSchedule}]
         /\ st' \in [Run -> {"none", "current", "dropped"}]
<1>1. \A n \in Names(list) : JobNamed(list, n).schedule \in Schedule
  BY ListFacts, JobConfigFields
<1>2. CASE LoadCommitted(list)
  <2>1. jobs' \subseteq JobConfig
    BY <1>2, ListFacts DEF LoadCommitted
  <2>2. status' \in [Name -> {"absent", "idle", "running"}]
    BY <1>2 DEF LoadCommitted, Keep, TypeOK
  <2>3. shown' \in [Name -> Schedule \cup {NoSchedule}]
    BY <1>1, <1>2 DEF LoadCommitted, Keep, TypeOK
  <2>4. st' \in [Run -> {"none", "current", "dropped"}]
    BY <1>2 DEF LoadCommitted, Keep, TypeOK
  <2> QED
    BY <2>1, <2>2, <2>3, <2>4
<1>3. CASE LoadFailed(list)
  <2>1. shown' \in [Name -> Schedule \cup {NoSchedule}]
    <3>1. CASE Cancelled
      BY <1>3, <3>1 DEF LoadFailed, TypeOK
    <3>2. CASE ~Cancelled
      <4>1. PICK i \in DOMAIN list : FirstBad(list, i) /\ ShowUpTo(list, i)
        BY <1>3, <3>2 DEF LoadFailed
      <4>2. \A n \in Name : (\E k \in 1..(i - 1) : list[k].name = n) => n \in Names(list)
        <5>1. list \in Seq([name : Name, schedule : Schedule, workdir : Key,
                            lockKey : Key \cup {NoKey}, timeoutValid : BOOLEAN,
                            runAfterSuccess : Seq(Name)])
          BY JobListsAssumption
        <5>2. \A k \in 1..(i - 1) : k \in DOMAIN list
          BY <5>1
        <5> QED
          BY <5>2 DEF Names
      <4> QED
        BY <1>1, <4>1, <4>2 DEF ShowUpTo, TypeOK
    <3> QED
      BY <3>1, <3>2
  <2> QED
    BY <1>3, <2>1 DEF LoadFailed, TypeOK
<1> QED
  BY <1>2, <1>3

\* Looking a status up, and creating it, keeps the statuses well typed.
LEMMA LookUpTypes ==
  ASSUME TypeOK, NEW j \in JobConfig, NEW value \in {"idle", "running"},
         LookUpStatus(j, value)
  PROVE  /\ status' \in [Name -> {"absent", "idle", "running"}]
         /\ shown' \in [Name -> Schedule \cup {NoSchedule}]
<1>1. j.name \in Name /\ j.schedule \in Schedule
  BY JobConfigFields
<1>2. status' \in [Name -> {"absent", "idle", "running"}]
  BY <1>1 DEF LookUpStatus, TypeOK
<1>3. shown' \in [Name -> Schedule \cup {NoSchedule}]
  BY <1>1 DEF LookUpStatus, TypeOK
<1> QED
  BY <1>2, <1>3

\* Every step of the scheduler preserves the types of its variables.
LEMMA TypeStep == TypeOK /\ [Next]_vars => TypeOK'
<1> SUFFICES ASSUME TypeOK, [Next]_vars
             PROVE  TypeOK'
  OBVIOUS
<1> USE DEF Stages, Holding, Unregistered
<1>1. ASSUME NEW r \in Run, FireCron(r)
      PROVE  TypeOK'
  <2>1. PICK j \in jobs : Spawn(r, j)
    BY <1>1 DEF FireCron
  <2>2. j \in JobConfig /\ j # NoJob
    BY SentinelAssumption DEF TypeOK
  <2> QED
    BY <1>1, <2>1, <2>2 DEF FireCron, Spawn, TypeOK, registry, shutdown
<1>2. ASSUME NEW r \in Run, NEW n \in Name, RunNow(r, n)
      PROVE  TypeOK'
  <2>1. PICK j \in Accepted(n) : Spawn(r, j)
    BY <1>2 DEF RunNow
  <2>2. j \in JobConfig /\ j # NoJob
    BY AcceptedJobs, SentinelAssumption
  <2> QED
    BY <1>2, <2>1, <2>2 DEF RunNow, Spawn, TypeOK, registry, shutdown
<1>3. ASSUME NEW r \in Run, Register(r)
      PROVE  TypeOK'
  <2>1. job[r] \in JobConfig
    BY <1>3 DEF Register, TypeOK
  <2>2. CASE ~MayRegister
    BY ZenonT(60), <1>3, <2>2 DEF Register, Exit, TypeOK
  <2>3. CASE MayRegister
    <3>1. /\ status' \in [Name -> {"absent", "idle", "running"}]
          /\ shown' \in [Name -> Schedule \cup {NoSchedule}]
      BY <1>3, <2>1, <2>3, LookUpTypes DEF Register, TypeOK
    <3> QED
      BY <1>3, <2>3, <3>1 DEF Register, TypeOK
  <2> QED
    BY <2>2, <2>3
<1>4. ASSUME NEW r \in Run, TryLock(r)
      PROVE  TypeOK'
  <2>1. job[r] \in JobConfig
    BY <1>4 DEF TryLock, TypeOK
  <2>2. JobLockKey(job[r]) \in Key
    BY <2>1, JobConfigFields
  <2> QED
    BY ZenonT(60), <1>4, <2>2 DEF TryLock, TypeOK, registry, shutdown
<1>5. ASSUME NEW r \in Run, MarkRunning(r)
      PROVE  TypeOK'
  <2>1. job[r] \in JobConfig
    BY <1>5 DEF MarkRunning, TypeOK
  <2>2. /\ status' \in [Name -> {"absent", "idle", "running"}]
        /\ shown' \in [Name -> Schedule \cup {NoSchedule}]
    BY <1>5, <2>1, LookUpTypes DEF MarkRunning, TypeOK
  <2> QED
    BY ZenonT(60), <1>5, <2>2 DEF MarkRunning, TypeOK, shutdown
<1>6. ASSUME NEW r \in Run, TimeoutRejected(r) \/ Finish(r)
      PROVE  TypeOK'
  BY <1>6 DEF TimeoutRejected, Finish, ClearRunning, TypeOK, shutdown
<1>7. ASSUME NEW r \in Run, NEW success \in BOOLEAN, RunnerReturn(r, success)
      PROVE  TypeOK'
  <2>1. job[r] \in JobConfig
    BY <1>7 DEF RunnerReturn, TypeOK
  <2>2. job[r].runAfterSuccess \in Seq(Name)
    BY <2>1, JobConfigFields
  <2> QED
    BY <1>7, <2>2 DEF RunnerReturn, TypeOK, registry, shutdown
<1>8. ASSUME NEW r \in Run, Unlock(r) \/ CallbackReturn(r)
      PROVE  TypeOK'
  BY <1>8 DEF Unlock, CallbackReturn, TypeOK, registry, shutdown
<1>9. ASSUME NEW r \in Run, Follow(r)
      PROVE  TypeOK'
  <2>1. Head(todo[r]) \in Name /\ Tail(todo[r]) \in Seq(Name)
    BY <1>9 DEF Follow, TypeOK
  <2>2. CASE Accepted(Head(todo[r])) = {}
    BY <1>9, <2>1, <2>2 DEF Follow, TypeOK, registry, shutdown
  <2>3. CASE Accepted(Head(todo[r])) # {}
    <3>1. PICK f \in Run, j \in Accepted(Head(todo[r])) : Spawn(f, j)
      BY <1>9, <2>3 DEF Follow
    <3>2. j \in JobConfig /\ j # NoJob
      BY <2>1, AcceptedJobs, SentinelAssumption
    <3> QED
      BY <1>9, <2>1, <3>1, <3>2 DEF Follow, Spawn, TypeOK, registry, shutdown
  <2> QED
    BY <2>2, <2>3
<1>10. ASSUME NEW r \in Run, Leave(r)
       PROVE  TypeOK'
  BY <1>10 DEF Leave, Exit, TypeOK, registry
<1>11. ASSUME NEW list \in JobLists, Load(list) \/ Reload(list)
       PROVE  TypeOK'
  <2>1. LoadCommitted(list) \/ LoadFailed(list)
    BY <1>11 DEF Load, Reload
  <2>2. cronWait' \subseteq Run /\ cron' \in {"nil", "loaded", "started"}
    BY <1>11 DEF Load, Reload, LoadCommitted, TypeOK
  <2>3. UNCHANGED <<held, running, pc, job, todo, shutdown>>
    BY <1>11 DEF Load, Reload
  <2> QED
    BY <2>1, <2>2, <2>3, LoadTypes DEF TypeOK, shutdown
<1>12. CASE Start \/ Pause \/ Shutdown
  BY <1>12 DEF Start, Pause, Shutdown, Stop, StopDrained, StopTimedOut, TypeOK,
               registry, shutdown, perRun
<1>13. CASE UNCHANGED vars
  BY <1>13 DEF vars, TypeOK
<1> QED
  BY <1>1, <1>2, <1>3, <1>4, <1>5, <1>6, <1>7, <1>8, <1>9, <1>10, <1>11, <1>12, <1>13
  DEF Next, Trigger, RunStep, OwnStep

\* The variables keep their types: the scheduler of scheduler.go:29-40.
THEOREM TypeCorrect == Spec => []TypeOK
<1>1. Init => TypeOK
  BY DEF Init, TypeOK, Stages, Holding, Unregistered
<1> QED
  BY <1>1, TypeStep, PTL DEF Spec

--------------------------------------------------------------------------------
(* Lock discipline *)

\* A step that moves no run into or out of the stages that hold a lock, and
\* changes neither their jobs nor the mutexes, preserves the discipline.
LEMMA LocksUntouched ==
  ASSUME LockDiscipline,
         held' = held,
         \A r \in Run : /\ pc'[r] \in Holding <=> pc[r] \in Holding
                        /\ pc[r] \in Holding => job'[r] = job[r]
  PROVE  LockDiscipline'
BY DEF LockDiscipline, JobLockKey

\* Every step preserves it; only TryLock and Unlock touch a mutex.
LEMMA LockStep == TypeOK /\ LockDiscipline /\ [Next]_vars => LockDiscipline'
<1> SUFFICES ASSUME TypeOK, LockDiscipline, [Next]_vars
             PROVE  LockDiscipline'
  OBVIOUS
<1>1. ASSUME NEW r \in Run, NEW j, Spawn(r, j), UNCHANGED held
      PROVE  LockDiscipline'
  <2>1. \A q \in Run : /\ pc'[q] \in Holding <=> pc[q] \in Holding
                       /\ pc[q] \in Holding => job'[q] = job[q]
    BY <1>1 DEF Spawn, TypeOK, Holding
  <2> QED
    BY <1>1, <2>1, LocksUntouched
<1>2. ASSUME NEW r \in Run, Register(r) \/ Leave(r)
      PROVE  LockDiscipline'
  <2>1. \A q \in Run : /\ pc'[q] \in Holding <=> pc[q] \in Holding
                       /\ pc[q] \in Holding => job'[q] = job[q]
    BY <1>2 DEF Register, Leave, Exit, TypeOK, Holding
  <2> QED
    BY <1>2, <2>1, LocksUntouched DEF Register, Leave
<1>3. ASSUME NEW r \in Run,
             \/ MarkRunning(r) \/ TimeoutRejected(r) \/ Finish(r) \/ CallbackReturn(r)
             \/ \E success \in BOOLEAN : RunnerReturn(r, success)
      PROVE  LockDiscipline'
  <2>1. UNCHANGED <<held, job>>
    BY <1>3 DEF MarkRunning, TimeoutRejected, Finish, CallbackReturn, RunnerReturn
  <2>2. \A q \in Run : pc'[q] \in Holding <=> pc[q] \in Holding
    BY <1>3 DEF MarkRunning, TimeoutRejected, Finish, CallbackReturn, RunnerReturn,
                TypeOK, Holding
  <2> QED
    BY <2>1, <2>2, LocksUntouched
<1>4. ASSUME NEW r \in Run, TryLock(r)
      PROVE  LockDiscipline'
  <2> DEFINE k == JobLockKey(job[r])
  <2>1. UNCHANGED job
    BY <1>4 DEF TryLock
  <2>2. CASE LockFree(k)
    <3>1. \A q \in Run : pc'[q] \in Holding <=> pc[q] \in Holding \/ q = r
      BY <1>4, <2>2 DEF TryLock, TypeOK, Holding
    <3>2. \A q \in Run : pc[q] \in Holding => JobLockKey(job[q]) # k
      BY <2>2 DEF LockFree, LockDiscipline
    <3>3. held' = held \cup {k}
      BY <1>4, <2>2 DEF TryLock
    <3> QED
      BY <2>1, <3>1, <3>2, <3>3 DEF LockDiscipline, JobLockKey
  <2>3. CASE ~LockFree(k)
    <3>1. UNCHANGED held /\ \A q \in Run : pc'[q] \in Holding <=> pc[q] \in Holding
      BY <1>4, <2>3 DEF TryLock, TypeOK, Holding
    <3> QED
      BY <2>1, <3>1, LocksUntouched
  <2> QED
    BY <2>2, <2>3
<1>5. ASSUME NEW r \in Run, Unlock(r)
      PROVE  LockDiscipline'
  <2> DEFINE k == JobLockKey(job[r])
  <2>1. UNCHANGED job /\ held' = held \ {k}
    BY <1>5 DEF Unlock
  <2>2. \A q \in Run : pc'[q] \in Holding <=> pc[q] \in Holding /\ q # r
    BY <1>5 DEF Unlock, TypeOK, Holding
  <2>3. pc[r] \in Holding
    BY <1>5 DEF Unlock, Holding
  <2>4. \A q \in Run : pc[q] \in Holding /\ q # r => JobLockKey(job[q]) # k
    BY <2>3 DEF LockDiscipline
  <2> QED
    BY <2>1, <2>2, <2>3, <2>4 DEF LockDiscipline, JobLockKey
<1>6. ASSUME NEW r \in Run, Follow(r)
      PROVE  LockDiscipline'
  <2>1. CASE UNCHANGED <<pc, job>>
    BY <1>6, <2>1, LocksUntouched DEF Follow
  <2>2. CASE ~UNCHANGED <<pc, job>>
    <3>1. PICK f \in Run, j \in Accepted(Head(todo[r])) : Spawn(f, j)
      BY <1>6, <2>2 DEF Follow
    <3> QED
      BY <1>1, <1>6, <3>1 DEF Follow
  <2> QED
    BY <2>1, <2>2
<1>7. CASE \/ \E list \in JobLists : Load(list) \/ Reload(list)
           \/ Start \/ Pause \/ Shutdown \/ UNCHANGED vars
  <2>1. UNCHANGED <<held, pc, job>>
    BY <1>7 DEF Load, Reload, Start, Pause, Shutdown, Stop, StopDrained, StopTimedOut,
                perRun, vars
  <2> QED
    BY <2>1, LocksUntouched
<1>8. ASSUME NEW r \in Run, Trigger(r)
      PROVE  LockDiscipline'
  <2>1. \E j : Spawn(r, j)
    BY <1>8 DEF Trigger, FireCron, RunNow
  <2>2. UNCHANGED held
    BY <1>8 DEF Trigger, FireCron, RunNow
  <2> QED
    BY <1>1, <2>1, <2>2
<1> QED
  BY <1>2, <1>3, <1>4, <1>5, <1>6, <1>7, <1>8 DEF Next, RunStep, OwnStep

\* Jobs that share a lock key never hold it together, and every locked mutex
\* has a run that will unlock it (scheduler.go:251-264, 292, 326).
THEOREM MutualExclusion == Spec => []LockDiscipline
<1>1. Init => LockDiscipline
  BY DEF Init, LockDiscipline, Holding
<1> QED
  BY <1>1, LockStep, TypeCorrect, PTL DEF Spec

--------------------------------------------------------------------------------
(* Status ownership *)

\* The run whose finish will clear the flag of its job's status.
Owner(r) == pc[r] \in Executing /\ st[r] = "current"

\* A step that changes neither who owns a status nor which of the statuses say
\* running preserves ownership.
LEMMA OwnersUntouched ==
  ASSUME TypeOK, StatusOwnership,
         \A n \in Name : status'[n] = "running" <=> status[n] = "running",
         \A r \in Run : /\ Owner(r)' <=> Owner(r)
                        /\ Owner(r) => job'[r] = job[r]
  PROVE  StatusOwnership'
<1>1. \A r \in Run : Owner(r) => job[r].name \in Name
  <2> SUFFICES ASSUME NEW r \in Run, Owner(r)
               PROVE  job[r].name \in Name
    OBVIOUS
  <2>1. job[r] \in JobConfig
    BY DEF Owner, Executing, TypeOK
  <2> QED
    BY <2>1, JobConfigFields
<1> QED
  BY <1>1 DEF StatusOwnership, Owner

\* Every step preserves ownership: MarkRunning takes it, ClearRunning gives it
\* up, and a load moves or drops it together with the status.
LEMMA OwnershipStep == TypeOK /\ StatusOwnership /\ [Next]_vars => StatusOwnership'
<1> SUFFICES ASSUME TypeOK, StatusOwnership, [Next]_vars
             PROVE  StatusOwnership'
  OBVIOUS
<1>1. ASSUME NEW r \in Run, NEW j, Spawn(r, j), UNCHANGED <<status, st>>
      PROVE  StatusOwnership'
  <2>1. \A q \in Run : /\ Owner(q)' <=> Owner(q)
                       /\ Owner(q) => job'[q] = job[q]
    BY <1>1 DEF Spawn, TypeOK, Owner, Executing
  <2> QED
    BY <1>1, <2>1, OwnersUntouched
<1>2. ASSUME NEW r \in Run, Register(r)
      PROVE  StatusOwnership'
  <2>1. \A q \in Run : /\ Owner(q)' <=> Owner(q)
                       /\ Owner(q) => job'[q] = job[q]
    BY <1>2 DEF Register, Exit, TypeOK, Owner, Executing
  <2>2. \A n \in Name : status'[n] = "running" <=> status[n] = "running"
    BY <1>2 DEF Register, AlreadyRunning, LookUpStatus, TypeOK
  <2> QED
    BY <2>1, <2>2, OwnersUntouched
<1>3. ASSUME NEW r \in Run,
             \/ TryLock(r) \/ Unlock(r) \/ CallbackReturn(r) \/ Leave(r)
             \/ \E success \in BOOLEAN : RunnerReturn(r, success)
      PROVE  StatusOwnership'
  <2>1. UNCHANGED <<status, st>>
    BY <1>3 DEF TryLock, Unlock, CallbackReturn, RunnerReturn, Leave, registry
  <2>2. \A q \in Run : /\ Owner(q)' <=> Owner(q)
                       /\ Owner(q) => job'[q] = job[q]
    BY <1>3 DEF TryLock, Unlock, CallbackReturn, RunnerReturn, Leave, Exit, TypeOK,
                Owner, Executing
  <2> QED
    BY <2>1, <2>2, OwnersUntouched
<1>4. ASSUME NEW r \in Run, MarkRunning(r)
      PROVE  StatusOwnership'
  <2> DEFINE n == job[r].name
  <2>1. UNCHANGED job
    BY <1>4 DEF MarkRunning
  <2>2. n \in Name
    BY <1>4, JobConfigFields DEF MarkRunning, TypeOK
  <2>3. CASE AlreadyRunning(n)
    <3>1. UNCHANGED status /\ \A q \in Run : Owner(q)' <=> Owner(q)
      BY <1>4, <2>3 DEF MarkRunning, TypeOK, Owner, Executing
    <3> QED
      BY <2>1, <3>1, OwnersUntouched
  <2>4. CASE ~AlreadyRunning(n)
    <3>1. \A q \in Run : Owner(q)' <=> Owner(q) \/ q = r
      BY <1>4, <2>4 DEF MarkRunning, TypeOK, Owner, Executing
    <3>2. status' = [status EXCEPT ![n] = "running"]
      BY <1>4, <2>4 DEF MarkRunning, LookUpStatus
    <3>3. \A q \in Run : Owner(q) => job[q].name # n
      BY <2>4 DEF AlreadyRunning, StatusOwnership, Owner
    <3>4. \A q \in Run : Owner(q) => job[q].name \in Name
      BY JobConfigFields DEF Owner, Executing, TypeOK
    <3>5. \A m \in Name : status'[m] = "running" <=> status[m] = "running" \/ m = n
      BY <2>2, <3>2 DEF TypeOK
    <3>6. \A m \in Name : status'[m] = "running" =>
            \E q \in Run : Owner(q)' /\ job'[q].name = m
      BY <2>1, <3>1, <3>5 DEF StatusOwnership, Owner
    <3>7. \A q \in Run : Owner(q)' =>
            /\ status'[job'[q].name] = "running"
            /\ \A s \in Run : Owner(s)' /\ job'[s].name = job'[q].name => s = q
      BY <2>1, <2>2, <3>1, <3>3, <3>4, <3>5 DEF StatusOwnership, Owner
    <3> QED
      BY <3>6, <3>7 DEF StatusOwnership, Owner
  <2> QED
    BY <2>3, <2>4
<1>5. ASSUME NEW r \in Run, TimeoutRejected(r) \/ Finish(r)
      PROVE  StatusOwnership'
  <2> DEFINE n == job[r].name
  <2>1. UNCHANGED job /\ ClearRunning(r)
    BY <1>5 DEF TimeoutRejected, Finish
  <2>2. n \in Name /\ pc[r] \in Executing
    BY <1>5, JobConfigFields DEF TimeoutRejected, Finish, TypeOK, Executing
  <2>3. \A q \in Run : Owner(q)' <=> Owner(q) /\ q # r
    BY <1>5, <2>1 DEF TimeoutRejected, Finish, ClearRunning, TypeOK, Owner, Executing
  <2>4. CASE st[r] = "current"
    <3>1. status' = [status EXCEPT ![n] = "idle"]
      BY <2>1, <2>4 DEF ClearRunning
    <3>2. \A q \in Run : Owner(q) /\ q # r => job[q].name # n
      BY <2>2, <2>4 DEF StatusOwnership, Owner
    <3>3. \A q \in Run : Owner(q) => job[q].name \in Name
      BY JobConfigFields DEF Owner, Executing, TypeOK
    <3> QED
      BY <2>1, <2>2, <2>3, <3>1, <3>2, <3>3 DEF StatusOwnership, Owner, TypeOK
  <2>5. CASE st[r] # "current"
    <3>1. UNCHANGED status /\ \A q \in Run : Owner(q)' <=> Owner(q)
      BY <2>1, <2>3, <2>5 DEF ClearRunning, Owner
    <3> QED
      BY <2>1, <3>1, OwnersUntouched
  <2> QED
    BY <2>4, <2>5
<1>6. ASSUME NEW r \in Run, Follow(r)
      PROVE  StatusOwnership'
  <2>1. UNCHANGED <<status, st>>
    BY <1>6 DEF Follow, registry
  <2>2. CASE UNCHANGED <<pc, job>>
    BY <2>1, <2>2, OwnersUntouched DEF Owner
  <2>3. CASE ~UNCHANGED <<pc, job>>
    <3>1. PICK f \in Run, j \in Accepted(Head(todo[r])) : Spawn(f, j)
      BY <1>6, <2>3 DEF Follow
    <3> QED
      BY <1>1, <2>1, <3>1
  <2> QED
    BY <2>2, <2>3
<1>7. ASSUME NEW list \in JobLists, LoadCommitted(list), UNCHANGED <<pc, job>>
      PROVE  StatusOwnership'
  <2>1. \A q \in Run : Owner(q)' <=> Owner(q) /\ job[q].name \in Names(list)
    BY <1>7 DEF LoadCommitted, Keep, Owner, TypeOK
  <2>2. \A n \in Name :
          status'[n] = "running" <=> status[n] = "running" /\ n \in Names(list)
    BY <1>7 DEF LoadCommitted, Keep, TypeOK
  <2>3. \A q \in Run : Owner(q) => job[q].name \in Name
    BY JobConfigFields DEF Owner, Executing, TypeOK
  <2> QED
    BY <1>7, <2>1, <2>2, <2>3 DEF StatusOwnership, Owner
<1>8. ASSUME NEW list \in JobLists, Load(list) \/ Reload(list)
      PROVE  StatusOwnership'
  <2>1. UNCHANGED <<pc, job>>
    BY <1>8 DEF Load, Reload
  <2>2. CASE LoadCommitted(list)
    BY <1>7, <2>1, <2>2
  <2>3. CASE LoadFailed(list)
    <3>1. UNCHANGED <<status, st>>
      BY <2>3 DEF LoadFailed
    <3> QED
      BY <2>1, <3>1, OwnersUntouched DEF Owner
  <2> QED
    BY <1>8, <2>2, <2>3 DEF Load, Reload
<1>9. CASE Start \/ Pause \/ Shutdown \/ UNCHANGED vars
  <2>1. UNCHANGED <<status, pc, job, st>>
    BY <1>9 DEF Start, Pause, Shutdown, Stop, StopDrained, StopTimedOut, perRun,
                registry, vars
  <2> QED
    BY <2>1, OwnersUntouched DEF Owner
<1>10. ASSUME NEW r \in Run, Trigger(r)
       PROVE  StatusOwnership'
  <2>1. (\E j : Spawn(r, j)) /\ UNCHANGED <<status, st>>
    BY <1>10 DEF Trigger, FireCron, RunNow, registry
  <2> QED
    BY <1>1, <2>1
<1> QED
  BY <1>2, <1>3, <1>4, <1>5, <1>6, <1>8, <1>9, <1>10 DEF Next, RunStep, OwnStep

\* A status says running exactly while one run is executing behind it, through
\* any sequence of reloads (scheduler.go:81-92, 266-281, 309-310).
THEOREM StatusesAreOwned == Spec => []StatusOwnership
<1>1. Init => StatusOwnership
  BY DEF Init, StatusOwnership, Executing
<1> QED
  BY <1>1, OwnershipStep, TypeCorrect, PTL DEF Spec

--------------------------------------------------------------------------------
(* Shutdown *)

\* The WaitGroup counts the runs that are past their registration, and a drain
\* that Stop has reported leaves it empty for good.
WaitGroupInv ==
  /\ running = {r \in Run : pc[r] \notin Unregistered}
  /\ stopPc = "drained" => running = {}

\* Every step preserves it: Register joins only before the context is
\* cancelled, and Exit is the only way out.
LEMMA WaitGroupStep == TypeOK /\ WaitGroupInv /\ [Next]_vars => WaitGroupInv'
<1> SUFFICES ASSUME TypeOK, WaitGroupInv, [Next]_vars
             PROVE  WaitGroupInv'
  OBVIOUS
<1> USE DEF Unregistered
<1>1. ASSUME NEW r \in Run, NEW j, Spawn(r, j), UNCHANGED <<running, stopPc>>
      PROVE  WaitGroupInv'
  BY <1>1 DEF Spawn, WaitGroupInv, TypeOK
<1>2. ASSUME NEW r \in Run, Register(r)
      PROVE  WaitGroupInv'
  BY ZenonT(60), <1>2 DEF Register, MayRegister, Cancelled, Exit, WaitGroupInv, TypeOK
<1>3. ASSUME NEW r \in Run,
             \/ TryLock(r) \/ MarkRunning(r) \/ TimeoutRejected(r) \/ Finish(r)
             \/ Unlock(r) \/ CallbackReturn(r)
             \/ \E success \in BOOLEAN : RunnerReturn(r, success)
      PROVE  WaitGroupInv'
  <2>1. UNCHANGED <<running, stopPc>>
    BY <1>3 DEF TryLock, MarkRunning, TimeoutRejected, Finish, Unlock, CallbackReturn,
                RunnerReturn, shutdown
  <2>2. \A q \in Run : pc'[q] \in Unregistered <=> pc[q] \in Unregistered
    BY <1>3 DEF TryLock, MarkRunning, TimeoutRejected, Finish, Unlock, CallbackReturn,
                RunnerReturn, TypeOK
  <2> QED
    BY <2>1, <2>2 DEF WaitGroupInv
<1>4. ASSUME NEW r \in Run, Leave(r)
      PROVE  WaitGroupInv'
  BY <1>4 DEF Leave, Exit, WaitGroupInv, TypeOK
<1>5. ASSUME NEW r \in Run, Follow(r)
      PROVE  WaitGroupInv'
  <2>1. UNCHANGED <<running, stopPc>>
    BY <1>5 DEF Follow, shutdown
  <2>2. CASE UNCHANGED pc
    BY <2>1, <2>2 DEF WaitGroupInv
  <2>3. CASE ~UNCHANGED pc
    BY <1>1, <1>5, <2>1, <2>3 DEF Follow
  <2> QED
    BY <2>2, <2>3
<1>6. CASE \/ \E list \in JobLists : Load(list) \/ Reload(list)
           \/ Start \/ Pause \/ UNCHANGED vars
  <2>1. UNCHANGED <<running, pc, stopPc>>
    BY <1>6 DEF Load, Reload, Start, Pause, perRun, shutdown, vars
  <2> QED
    BY <2>1 DEF WaitGroupInv
<1>7. CASE Shutdown
  <2>1. UNCHANGED <<running, pc>>
    BY <1>7 DEF Shutdown, Stop, StopDrained, StopTimedOut, perRun
  <2>2. stopPc' = "drained" => running = {}
    BY <1>7 DEF Shutdown, Stop, StopDrained, StopTimedOut
  <2> QED
    BY <2>1, <2>2 DEF WaitGroupInv
<1>8. ASSUME NEW r \in Run, Trigger(r)
      PROVE  WaitGroupInv'
  <2>1. (\E j : Spawn(r, j)) /\ UNCHANGED <<running, stopPc>>
    BY <1>8 DEF Trigger, FireCron, RunNow, shutdown
  <2> QED
    BY <1>1, <2>1
<1> QED
  BY <1>2, <1>3, <1>4, <1>5, <1>6, <1>7, <1>8 DEF Next, RunStep, OwnStep

\* The members of the WaitGroup, in every reachable state.
THEOREM WaitGroupCorrect == Spec => []WaitGroupInv
<1>1. Init => WaitGroupInv
  BY DEF Init, WaitGroupInv, Unregistered
<1> QED
  BY <1>1, WaitGroupStep, TypeCorrect, PTL DEF Spec

\* A drained Stop leaves nothing executing, no lock held and no status running
\* (scheduler.go:112-136, 228-238).
THEOREM DrainIsQuiet == Spec => []DrainedMeansQuiet
<1>1. WaitGroupInv /\ LockDiscipline /\ StatusOwnership => DrainedMeansQuiet
  BY DEF WaitGroupInv, LockDiscipline, StatusOwnership, DrainedMeansQuiet, Unregistered,
         Holding, Executing
<1> QED
  BY <1>1, WaitGroupCorrect, MutualExclusion, StatusesAreOwned, PTL

\* No cron is left after Stop, and a load refuses to make one
\* (scheduler.go:66-68, 112-116, 154-163).
THEOREM StopStaysFinal == Spec => []StopIsFinal
<1>1. Init => StopIsFinal
  BY DEF Init, StopIsFinal, Cancelled
<1>2. StopIsFinal /\ [Next]_vars => StopIsFinal'
  <2> SUFFICES ASSUME StopIsFinal, [Next]_vars
               PROVE  StopIsFinal'
    OBVIOUS
  <2> USE DEF StopIsFinal, Cancelled
  <2>1. ASSUME NEW r \in Run, Trigger(r) \/ RunStep(r)
        PROVE  StopIsFinal'
    <3>1. UNCHANGED <<cron, stopPc>>
      BY <2>1 DEF Trigger, FireCron, RunNow, RunStep, OwnStep, Register, TryLock,
                  MarkRunning, TimeoutRejected, RunnerReturn, Finish, Unlock,
                  CallbackReturn, Follow, Leave, Exit, registry, shutdown
    <3> QED
      BY <3>1
  <2>2. ASSUME NEW list \in JobLists, Load(list) \/ Reload(list)
        PROVE  StopIsFinal'
    BY <2>2 DEF Load, Reload, LoadCommitted, LoadFailed, shutdown
  <2>3. CASE Start \/ Pause \/ Shutdown \/ UNCHANGED vars
    BY <2>3 DEF Start, Pause, Shutdown, Stop, StopDrained, StopTimedOut, registry,
                shutdown, vars
  <2> QED
    BY <2>1, <2>2, <2>3 DEF Next
<1> QED
  BY <1>1, <1>2, PTL DEF Spec

\* The WaitGroup, the context and the timer implement the abstract group: every
\* step of the scheduler is a step of DrainGroup or changes nothing it sees.
THEOREM ImplementsDrainGroup == Spec => RefinesDrainGroup
<1>1. Init => Drain!Init
  BY DEF Init, Drain!Init
<1>2. TypeOK /\ WaitGroupInv /\ [Next]_vars => [Drain!Next]_(Drain!vars)
  <2> SUFFICES ASSUME TypeOK, WaitGroupInv, [Next]_vars
               PROVE  [Drain!Next]_(Drain!vars)
    OBVIOUS
  <2>1. ASSUME NEW r \in Run, Register(r)
        PROVE  [Drain!Next]_(Drain!vars)
    <3>1. CASE Cancelled
      <4>1. r \notin running
        BY <2>1 DEF Register, WaitGroupInv, Unregistered
      <4> QED
        BY <2>1, <3>1, <4>1 DEF Register, MayRegister, Exit, Drain!vars
    <3>2. CASE ~Cancelled
      <4>1. Drain!Join(r)
        BY <2>1, <3>2 DEF Register, MayRegister, Cancelled, WaitGroupInv, Unregistered,
                          Drain!Join
      <4> QED
        BY <4>1 DEF Drain!Next
    <3> QED
      BY <3>1, <3>2
  <2>2. ASSUME NEW r \in Run, Leave(r)
        PROVE  [Drain!Next]_(Drain!vars)
    <3>1. Drain!Leave(r)
      BY <2>2 DEF Leave, Exit, WaitGroupInv, Unregistered, Drain!Leave
    <3> QED
      BY <3>1 DEF Drain!Next
  <2>3. ASSUME NEW r \in Run,
               \/ Trigger(r) \/ TryLock(r) \/ MarkRunning(r) \/ TimeoutRejected(r)
               \/ RunnerReturn(r, TRUE) \/ RunnerReturn(r, FALSE) \/ Finish(r)
               \/ Unlock(r) \/ CallbackReturn(r) \/ Follow(r)
        PROVE  [Drain!Next]_(Drain!vars)
    <3>1. UNCHANGED <<running, stopPc>>
      BY <2>3 DEF Trigger, FireCron, RunNow, TryLock, MarkRunning, TimeoutRejected,
                  RunnerReturn, Finish, Unlock, CallbackReturn, Follow, shutdown
    <3> QED
      BY <3>1 DEF Drain!vars
  <2>4. CASE \/ \E list \in JobLists : Load(list) \/ Reload(list)
             \/ Start \/ Pause \/ UNCHANGED vars
    <3>1. UNCHANGED <<running, stopPc>>
      BY <2>4 DEF Load, Reload, Start, Pause, shutdown, vars
    <3> QED
      BY <3>1 DEF Drain!vars
  <2>5. CASE Stop
    BY <2>5 DEF Stop, Drain!Next, Drain!Close
  <2>6. CASE StopDrained
    BY <2>6 DEF StopDrained, Drain!Next, Drain!Drain
  <2>7. CASE StopTimedOut
    BY <2>7 DEF StopTimedOut, Drain!Next, Drain!GiveUp
  <2> QED
    BY <2>1, <2>2, <2>3, <2>4, <2>5, <2>6, <2>7
    DEF Next, RunStep, OwnStep, Shutdown
<1> QED
  BY <1>1, <1>2, TypeCorrect, WaitGroupCorrect, PTL DEF Spec, RefinesDrainGroup, Drain!Spec

--------------------------------------------------------------------------------
(* What the dashboard shows *)

\* A step that changes neither the cron nor its jobs, keeps every status that
\* exists, and rewrites the schedule only of one it creates.
LEMMA ShownUntouched ==
  ASSUME TypeOK, ShownSchedulesAreLive,
         UNCHANGED <<cron, jobs>>,
         \A n \in Name : status[n] # "absent" =>
                          status'[n] # "absent" /\ shown'[n] = shown[n]
  PROVE  ShownSchedulesAreLive'
BY JobConfigFields DEF ShownSchedulesAreLive, TypeOK

\* Every step preserves the agreement of the shown schedules with the cron.
LEMMA ShownStep == TypeOK /\ ShownSchedulesAreLive /\ [Next]_vars => ShownSchedulesAreLive'
<1> SUFFICES ASSUME TypeOK, ShownSchedulesAreLive, [Next]_vars
             PROVE  ShownSchedulesAreLive'
  OBVIOUS
<1>1. ASSUME NEW r \in Run, Register(r) \/ MarkRunning(r)
      PROVE  ShownSchedulesAreLive'
  <2>1. UNCHANGED <<cron, jobs>>
    BY <1>1 DEF Register, MarkRunning
  <2>2. \A n \in Name : status[n] # "absent" =>
                         status'[n] # "absent" /\ shown'[n] = shown[n]
    BY <1>1 DEF Register, MarkRunning, LookUpStatus, TypeOK
  <2> QED
    BY <2>1, <2>2, ShownUntouched
<1>2. ASSUME NEW r \in Run, TimeoutRejected(r) \/ Finish(r)
      PROVE  ShownSchedulesAreLive'
  <2>1. UNCHANGED <<cron, jobs>>
    BY <1>2 DEF TimeoutRejected, Finish
  <2>2. \A n \in Name : status[n] # "absent" =>
                         status'[n] # "absent" /\ shown'[n] = shown[n]
    BY <1>2 DEF TimeoutRejected, Finish, ClearRunning, TypeOK
  <2> QED
    BY <2>1, <2>2, ShownUntouched
<1>3. ASSUME NEW list \in JobLists, Load(list) \/ Reload(list)
      PROVE  ShownSchedulesAreLive'
  <2>1. CASE LoadCommitted(list)
    <3>1. jobs' = Range(list) /\ Keep(list)
      BY <2>1 DEF LoadCommitted
    <3>2. \A j \in Range(list) : /\ j.name \in Name
                                  /\ j.name \in Names(list)
                                  /\ JobNamed(list, j.name) = j
      BY ListFacts, JobConfigFields
    <3>3. \A j \in Range(list) : status'[j.name] # "absent"
      BY <3>1, <3>2 DEF Keep
    <3>4. \A j \in Range(list) : shown'[j.name] = j.schedule
      BY <3>1, <3>2 DEF Keep
    <3> QED
      BY <3>1, <3>3, <3>4 DEF ShownSchedulesAreLive
  <2>2. CASE LoadFailed(list)
    <3>1. UNCHANGED <<jobs, status>>
      BY <2>2 DEF LoadFailed
    <3>2. CASE cron' = "nil"
      BY <3>1, <3>2 DEF ShownSchedulesAreLive
    <3>3. CASE cron' # "nil"
      <4>1. LoadCommitted(list)
        BY <1>3, <3>3 DEF Load, Reload
      <4> QED
        BY <2>1, <4>1
    <3> QED
      BY <3>2, <3>3
  <2> QED
    BY <1>3, <2>1, <2>2 DEF Load, Reload
<1>4. CASE Start \/ Pause \/ Shutdown
  <2>1. UNCHANGED <<jobs, status, shown>>
    BY <1>4 DEF Start, Pause, Shutdown, Stop, StopDrained, StopTimedOut, registry
  <2>2. cron' # "nil" => cron # "nil"
    BY <1>4 DEF Start, Pause, Shutdown, Stop, StopDrained, StopTimedOut, registry
  <2> QED
    BY <2>1, <2>2 DEF ShownSchedulesAreLive
<1>5. ASSUME NEW r \in Run,
             \/ Trigger(r) \/ TryLock(r) \/ RunnerReturn(r, TRUE)
             \/ RunnerReturn(r, FALSE) \/ Unlock(r) \/ CallbackReturn(r)
             \/ Follow(r) \/ Leave(r)
      PROVE  ShownSchedulesAreLive'
  <2>1. UNCHANGED <<cron, jobs, status, shown>>
    BY <1>5 DEF Trigger, FireCron, RunNow, TryLock, RunnerReturn, Unlock,
                CallbackReturn, Follow, Leave, registry
  <2> QED
    BY <2>1, ShownUntouched
<1>6. CASE UNCHANGED vars
  BY <1>6, ShownUntouched DEF vars
<1> QED
  BY <1>1, <1>2, <1>3, <1>4, <1>5, <1>6 DEF Next, RunStep, OwnStep

\* While a cron exists, every job in it has a status that shows the schedule it
\* fires on, whatever loads failed before (scheduler.go:65-98, 154-163).
THEOREM ShownSchedulesCorrect == Spec => []ShownSchedulesAreLive
<1>1. Init => ShownSchedulesAreLive
  BY DEF Init, ShownSchedulesAreLive
<1> QED
  BY <1>1, ShownStep, TypeCorrect, PTL DEF Spec
================================================================================
