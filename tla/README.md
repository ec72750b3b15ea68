# Verification of looper

TLA+ models, TLC runs and TLAPS proofs for looper, a Go program that runs jobs
(shell scripts, or skills of an agent CLI) on cron schedules, reloads its config
while it runs, and serves a dashboard. All paths below are relative to the
repository's root in `src/`.

Run a model with `tlc -config MCSchedulerSafety.cfg MCScheduler.tla`, check proofs
with `tlapm SchedulerProofs.tla`. `PROJECT.json` lists the runs, the source lines of
every definition, a mutant for each property that shows it can fail, the findings,
the hazards and the theorems.

## Inventory of the system

| Component | State | Operations | Interacts with |
|---|---|---|---|
| Scheduler, `internal/scheduler.go` | cron, jobs, statuses, keyed mutexes, context, WaitGroup, all under one mutex | Load, Start, Pause, Reload, RunNow, Stop, and runJob in one goroutine per run | calls Runner.Run and a callback; called by main, the reload and HTTP handlers |
| Start-up, reload, shutdown, `main.go` | currentCfg | main, applyConfigReload with its rollback, signal handling | drives every other component |
| Config, `internal/config.go` | none | LoadConfig, Validate, cycle detection | its result is shared by all |
| Runner, `internal/runner.go`, `process_unix.go` | engines under an RWMutex; a log file per job; child processes | UpdateEngines, EnginesSnapshot, Run, terminateCommand | started by runJob, cancelled by its context |
| Watcher, `internal/watcher.go` | time of the last event | Watch: debounce, then a callback in the same goroutine | starts the reload |
| Skill manager, `internal/skills.go` | global dirs; symlinks and a lock file on disk | SetGlobalDirs, EnsureSymlinks, GenerateLock, VerifyLock, ValidateSkill | reload, Runner |
| Observer, `internal/observer.go` | config pointer under an RWMutex | read handlers, POST /run | Scheduler, Runner.LogPath, SQLite files |
| Costs, `internal/costs.go` | none | ScanCosts: one day's session logs, priced | called by the observer |

What is hard about it, and what *correct* means:

* **Concurrency in the scheduler.** A run of a job takes the scheduler's mutex
  three times and holds a keyed mutex in between, while reloads replace the
  statuses it has pointers to and Stop waits for it. Jobs that share a lock key
  exclude each other, a lock is always given back, `running` on the dashboard is true
  exactly while a run is executing, a drained Stop leaves nothing behind.
* **Reload as a transaction over five components**, each with its own lock, any
  step of which may fail or be overtaken by Stop. It takes effect everywhere or
  nowhere, the cron never ticks on a mixture, and afterwards it ticks.
* **Events and processes.** Debounced file events, half-written files, deadlines that
  race with exits, process trees whose pids are reused. An edit is loaded or there is
  a known reason; Run returns, tells the truth about the command, and kills what it
  can know of.
* **Files and databases that others write.** Sessions, logs, skill directories and
  platform databases change between any two reads. Pages, counts, summaries and
  reports must still add up, and nothing of the user's may be deleted.
* **What is checked is not what is used.** Validation trims strings that the rest of
  the program uses as they are, and engines are switched apart from the jobs that
  were validated against them.

## Plan

| | Modules | State of the plan |
|---|---|---|
| 1 | Scheduler, DrainGroup | modelled, checked, proved |
| 2 | ConfigReload on top of Scheduler | modelled, checked, proved |
| 3 | Watcher | modelled, checked, proved |
| 4 | Runner | modelled, checked, safety proved |
| 5 | ConfigValidation, and JobCommand on top of it | modelled, checked, proved |
| 6 | SkillSync | modelled, checked, proved |
| 7 | Observer, of ObserverLists, PlatformStatus, JobLog | modelled, checked, proved |
| 8 | Costs | modelled, checked, safety proved but for ReportsGrow |

Left: a proof of ReportsGrow, which needs that what a session has cost grows with the
lines that were read of it, and that a sum over more sessions is no smaller.

## Modules

### DrainGroup

The promise of Stop without its mechanism: members join only while the group is
open, the waiter reports a drain only of an empty group, or gives up.

### Scheduler

Every access to a field of the Go `Scheduler` is made under `s.mu`, so one critical
section is one action, and what the code does between two of them interleaves.

| Variable | Go | Variable | Go |
|---|---|---|---|
| `cron` | `s.cron` and whether it was started | `pc` | where each goroutine is in runJob |
| `jobs` | `s.jobs` and the cron's entries | `job` | the captured `JobConfig` |
| `status`, `shown` | `s.statuses`: `Running`, `Schedule` | `st` | the local `*JobStatus` |
| `held` | locked mutexes of `s.locks` | `todo` | the rest of `job.RunAfterSuccess` |
| `running` | `s.running` | `cronWait`, `stopWait` | the cron's own jobWaiter |
| `stopPc` | Stop, and through it `s.ctx` | | |

`runJob` is the path Register, TryLock, MarkRunning, (TimeoutRejected or
RunnerReturn then Finish), Unlock, CallbackReturn, Follow for each follow-up,
Leave, with the exits of the code: cancelled, already running (twice), lock busy.
A status pointer is `"current"` while it is in the map and `"dropped"` once a load
has left it out, which is all that the identity of the Go object matters to.
A load that fails has changed the schedules of the statuses it had reached
(`ShowUpTo`), as the code has. The cron library and the runner are seen through
what the scheduler uses of them: a started cron may fire any of its entries at any
time, and a stopped one fires none; the runner returns (Runner!RunReturns), and does
not report success for a context that was cancelled when it looked
(Runner!OutcomeIsHonest).

Left out: the dates, durations, exit codes and error texts of a status, and the order
of JobStatuses. `Load` is enabled only while no cron exists, which is how main calls
it.

### ConfigReload

Extends `Scheduler` with `currentCfg`, the runner's engines, the skill dirs and the
observer's config, and the program counter `rpc` of main and of applyConfigReload.
Each step of a reload calls one component. The rollback's early return
(main.go:207-209) and its three error results are kept. An EnsureSymlinks may fail
whenever it is called, since it reads a directory. Without a skills directory
(`hasSkills`) the first reload is `Panic`, see below. Configs are
validated ones, but their schedules may still be refused by the cron:
Validate does not parse them. The engines of a config stand for its skill dirs,
which are computed from them.

### Watcher

From an editor to `applyConfigReload`: the content of the file (versions are numbered
as they are begun, and of each there is nothing, the first part or the whole), the
kernel's queue of events, the window of the debounce (`recent`), and the goroutine of
Watch, which is one program counter because it calls the callback itself. Editors may
write in one go, truncate and then write in one part or two, or rename a new file over
the old one, which ends the watch. LoadConfig takes what parses and validates, which
the first part of a file may do (`GoodHalves`), so half a config can take effect.
inotify may merge two equal events. main loads the file before it begins to watch it.
Apply takes effect or does not, which ReloadIsAllOrNothing justifies. `missed` is a
history of the contents whose event did not come, was debounced, or whose reload was
refused.

### Runner

One call of Run and the processes of its command. The processes fork, leave the
process group, close their output and exit when they like, pids are reused, and
strangers may take them. `pc` is Run up to os/exec's Wait (Reap, Join with the
goroutine that calls Cancel, Drained or WaitDelayEnds), `tpc` is terminateCommand:
List, Term, and half a second later Kill. `Descendants` is the walk down the table of
ps; `Attached` is what it should find, defined from the bottom up, and the proof shows
that it does. `escaped` collects what could not be listed: orphans outside the group,
forks after the listing, everything if ps fails.

### ConfigValidation and JobCommand

A string is a text with or without blanks around it, so that trimming is modelled.
The fields are checked in one step; the search for cycles has an action for each
visit and each return, takes its roots in any order, as Go's maps do, and keeps the
keys of its graph trimmed and the edges as they are written.

JobCommand goes on with an accepted config: it reaches the runner's engines first and
the scheduler's jobs later (or is rolled back), while a run looks its engine, its
skill and the name of its log up, creates the log and starts the command. The log may
not be created, the program of a codex engine not be found, the workdir not be there,
and the system may start no process: Validate looks at none of these. `moved` and
`missing` remember whether a reload or a user took away what the run needs.

### Observer: ObserverLists, PlatformStatus, JobLog

The handlers of the observer, each query a step. *ObserverLists* has the five
paginated lists: look the platform up, choose a table, COUNT, SELECT, answer; rows are
added and removed, an UPDATE moves a row within the order, and the config is replaced
in between. The client is the dashboard that walks from page to page, or a user who
jumps. Offsets wrap around. What a walk owes its client are the rows that were in the
table all the time and never came nearer to the front (`Closer`): a list that is read
by offsets cannot show a row that moves from a page ahead to one that was read.
*PlatformStatus* is GET /status: its platforms come from one snapshot, each with a
count of the backlog, a count of today's actions and their breakdown, while actions
are added and midnight comes. *JobLog* has the log of a job, to which two goroutines
copy stdout and stderr, and GET /logs, which makes a summary of it. A line of stdout
comes whole or in pieces, cut within its object or between the object and its newline
(`cut`); an object without its newline is shown already, and what stderr writes after
it spoils it (`Spoiled`). A read of the file is one step, and the runs of a job do not
overlap.

The data of an answer is the set of its rows, in pages as in the log's summary, and
a number that a status query counts is the set of the actions that it counts: the
properties tell apart which rows were counted, not how many there were.

*Observer* composes them. They share nothing but the config, which each request reads
once, so `kind` chooses the kind of request of a behaviour.

### SkillSync

EnsureSymlinks, one file system call at a time, each of which may fail; users put
links, files and directories in the same places and add or remove skills meanwhile.

### Costs

The session files of Claude Code and Codex, appended to line by line by their engines,
and the scan of one date: directories, files (Stat, Visit), lines, sessions, report. A
request takes the config that is in effect when it begins (`cfg`), which main may
replace at any time (UpdateConfig). A directory that cannot be listed and a file that
cannot be opened or read to its end are passed over, as in the code, and `lost`
remembers their files. Requests are made one after the other: those that net/http
serves at the same time share nothing, and what the reports of two of them say is not
compared. The parsers are operators on an accumulator, one line at a time. `scope`
bounds what the engines may do and how much fails. The four token counts of a usage
are one number, prices are small integers, and `normalizeModel` is a function that the
configuration of TLC gives.

## Runs

| Run | Question | Properties |
|---|---|---|
| scheduler_safety | Is the scheduler's state consistent in every interleaving? | LockDiscipline, StatusOwnership, DrainedMeansQuiet, StopIsFinal, ShownSchedulesAreLive |
| scheduler_progress | Is its shutdown the abstract one, and what ends if callbacks block? | StopReturns (`DrainGroup` with its fairness), LocksAreReleased, RunsLeave |
| reload_safety | Is a reload a transaction? | ReloadTypeOK, CronFiresOneConfig, ReloadIsAllOrNothing, SilenceIsReported |
| watcher | Which edits are loaded? | TypeOK, StaleForAReason, ReloadsAdvance, FreshEditIsLoaded |
| runner | Does Run return, tell the truth, and kill what it can? | TypeOK, OutcomeIsHonest, SurvivorsEscaped, RunReturns |
| config | Does validation refuse the right configs, and is what it accepts of use? | CommandTypeOK, VerdictIsRight, FollowUpsEnd, AcceptedJobsStart |
| observer | Do answers add up while everything changes? | TypeOK, WalkIsComplete, BeyondIsEmpty, AnswersFromOneConfig, HealthIsHonest, BreakdownAddsUp, SummaryIsComplete, AnswersGrow |
| skill_sync | What may a sync take away, and whom does it serve? | TypeOK, SyncedSkillsAreThere, OnlyOtherLinksAreLost, RealDirsSurvive |
| costs | Is every session charged once, for what it used? | TypeOK, SessionsAreCounted, ReportIsComplete, ReportsGrow |
| scheduler_overlap, scheduler_removed, reload_paused | The findings below | |

**Bounds.**

* *Scheduler.* Three runs at once, two names, two keys. Three is what the
  interesting cases need: an executing run, a newer run of the same name, and a third
  that shares a lock with one of them; or two parents and a follow-up. The slots are
  recycled, so histories are not bounded. `SpareSlots` keeps cron and HTTP triggers
  from using the last slot where a follow-up is to find one (liveness, reload); in
  scheduler_safety it is 0. The job lists are chosen for what a reload can do to a
  job: keep it, move it to another lock, drop it, bring it back, drop the target of
  its follow-up, give it a timeout or a schedule that does not parse, the latter
  after a job that does. One chain of length one suffices for follow-ups, which are
  triggered one at a time by the same code.
* *ConfigReload.* Two runs and four configs: same jobs with other engines, other
  jobs, both, and a bad schedule, which also is a failing start-up. The deadlock check
  is off because main exits when the first load fails.
* *Watcher.* Three versions after the first, one that cannot be loaded whole but by its
  first part, one that can be loaded both ways and one that loads whole only: enough for
  an edit before the watch, one that is loaded and one in its window, each in parts. The
  deadlock check is off because nothing is left to do when the versions are used up.
* *Runner.* The root and two more pids: a child, and a grandchild or a sibling, which
  is what an orphan outside the group needs; with pids reused there is no bound on the
  number of processes over time.
* *Config.* Every graph over three jobs with at most two follow-ups each (a cycle of
  length three, a diamond, a cycle off the path from the root), padded names on two jobs,
  one wrong field at a time, and thirteen configs that are reloaded one after another,
  with a program and a directory that do not exist.
  The end of a validation is an explicit stutter, so the deadlock check stays on.
* *Observer.* A table of three rows on pages of one or two, and a MaxInt of 7 (four bits)
  for the offset; four tables in two databases, three of them empty (`Holds`), and three
  settings of the platform for the config changes; two platforms, three
  configs, two days, two actions; two runs of at most two steps with one write to stderr
  and one line that is cut.
* *SkillSync.* Two directories, two skills, and one edit by a user at any moment of
  any number of syncs, from every initial content.
* *Costs.* Five scopes: two sessions in a directory, one of which may be removed; one
  session with two messages, prices and prompts; a session of each engine over two
  days, with a file that cannot be read, and with two configs. At most four or five
  lines in all files together, so that a message can be begun, interleaved, completed
  and repeated. Reports follow each other without bound.

Symmetry is used only where all properties are invariants or action properties.

**Fairness.** Each step that a goroutine takes by itself is weakly fair, since the Go
scheduler runs every goroutine. In Scheduler that includes the runner's return, which
the code bounds with the job's timeout (30 minutes by default), SIGKILL and WaitDelay,
and which the run `runner` checks: there the context ends by the timeout, and the
processes owe nothing. The end of Stop is weakly fair: its timer fires. A callback
belongs to the scheduler's owner: `FairSpec` does not assume that it returns, and
RunsLeave is conditional on it (`CallbacksReturn`), as the one in main, which only
logs, does. Follow is strongly fair because the bound on slots can disable it, which a
`go` statement never is. In Watcher the goroutine goes on and time passes. Nothing is
assumed of cron ticks, HTTP requests, reloads, signals, edits or processes.

## What is proved

For any sets of runs, names, keys, schedules and job lists with distinct names
(`JobListsAssumption`), and sentinels outside them (`SentinelAssumption`):

* `TypeCorrect`, then `MutualExclusion` and `StatusesAreOwned`. LockDiscipline and
  StatusOwnership are inductive relative to TypeOK because each states both
  directions: who holds has the lock *and* what is locked has a holder; the flag
  has an owner *and* the owner has the flag.
* `WaitGroupCorrect`: the WaitGroup is exactly the runs past their registration, and
  stays empty once a drain was reported. This is what makes `DrainIsQuiet` and the
  refinement `ImplementsDrainGroup` go through: Register joins only before the
  context is cancelled, in the critical section that Stop's cancel excludes.
* `StopStaysFinal` and `ShownSchedulesCorrect`.
* For ConfigReload, `ImplementsScheduler`: each step of the program is a step of
  Scheduler or leaves its variables alone. All of the above therefore holds of the
  program.
* `CronConsistent`, `AllOrNothing` and `SilenceHasACause`, from `ReloadInvariant`,
  which says for every point of the pipeline which config the jobs, the engines and
  the dirs come from and whether a cron exists. Without those intermediate facts
  the properties are not inductive: what a rollback restores depends on what was
  saved, and that it can load the old jobs depends on their having loaded once.
* For Watcher, any number of versions, any set of bad ones and of those whose first
  part loads: `StalenessIsExplained` and `Advancing`. The invariant adds that a
  content that no pending event or reload will deliver is in effect or was missed.
* For Runner, any set of pids and any process tree: `OutcomesAreHonest` and
  `SurvivorsHaveEscaped`, from `RunnerInvariant`. `AttachedAreListed` is its core: what
  the walk down misses would be closed under parents and could not reach the root.
  `InReach` carries this from the listing to SIGKILL through forks, exits and new pids.
* For SkillSync, any finite sets of directories and skills (`SkillAssumption`) and any
  number of edits: `DirsAreSafe`, and `OthersAreKept`, whose invariant says that,
  undisturbed, what Remove takes is the link that Check saw. `SyncServesEverySkill`
  and `SkillSyncTypeCorrect` come from `WorkInvariant`: what was counted and the places
  that are still to be dealt with (`Pending`) are together no more than there are
  (`Bounded`), and, undisturbed and without failures, what has been dealt with has its
  link or something of the user's (`SoFar`).
* For ConfigValidation and JobCommand, any finite configs and any reloads among them
  (`ReloadsAssumption`), from `SearchCorrect`: `visited` is closed under the
  successors of a name and has no cycle, and the stack of the search is a path in the
  graph. A name that is reached while it is on the stack therefore closes a cycle, and
  a search that ends without one has seen them all: `VerdictCorrect`,
  `FollowUpsTerminate`. `AcceptedJobsDoStart` adds that the scheduler's jobs fit the
  engines of their own config at any time of a reload, and that a run knows whether
  the runner still has these; so the engine, the kind, the type and the command of an
  accepted job are never what it fails for, but for a reload under way and for blanks.
  With `CommandTypeCorrect` these are all the properties of the run `config`.
* For Costs, any configs, prices, prompts and scopes: `CostsTypeCorrect` and
  `ReportsAreComplete` from `CostsInv`, which says for each file that is due where it
  is: ahead of the scan, being read, among the sessions or among those that could not
  be read (`NoneLost`), and that no file is in two of these places (`Once`).
  `SessionsCountedRight` from `CountInv`: what the parser has found in the lines up to
  `read` is what they say (`Collected`), given what an engine may write (`FilesSound`:
  the lines of a message name one model, and the totals of Codex go up by what was
  used last). `SumIs`, `SumSplits` and `SumSame` say what the library's sums compute.
* For the observer, any tables, platforms, runs and bounds (`ObserverAssumption`), from
  `ObserverInv`, which has an invariant for each kind of request:
  * `ListsInv`: a request keeps to the config that it began with; a total that is not
    in doubt counts at least the rows that are owed; and a row that is owed is
    ahead of the pages shown, since whatever brings it nearer to the front ends the
    obligation. Offsets never wrap, because there are no more rows than MaxInt. From it
    come `NothingBeyond` and `WalkComplete`.
  * `StatusInv`: each count that was made is a count of actions that were there. It gives
    `HealthHonest` and `BreakdownSumsUp`.
  * `LogInv`: unless it is torn, the summary of the log, continued by what is
    still to be written, is what the run does; and the last answer is a summary of a
    beginning of the log (`Earlier`), from which later ones only go on as long as no
    object is spoiled. It gives `SummaryComplete` and the action property
    `SummariesGrow`.

  `ObserverTypeCorrect` and `AnswersOfOneConfig` are of all of them. With these, all the
  properties of the run `observer` are proved.

The provers cannot instantiate the induction theorems of the library. Where a result
is about all finite sets or all sequences, the proof takes a least counterexample
instead (`LeastNat`), whose existence follows from the theorem that `<` on the
naturals is well-founded. This is how sums and the flattening of sequences are
reasoned about.

Only model-checked: liveness (StopReturns, LocksAreReleased, RunsLeave,
FreshEditIsLoaded, RunReturns), which is beyond the prover, and ReportsGrow, which is
not proved yet. The properties of the three findings are violated, and TLC shows how.
A proof also corrected the model: `BeginWalk` made a list of the files of Codex even
when no job uses it, which TypeOK does not allow and TLC's jobs, some of which do, did
not show.

## Findings

* **A running job may be started again** (scheduler_overlap). docs/local-jobs.md says
  that an already-running job is skipped. A reload without the job discards its
  status; a reload that brings it back makes an idle one. Unless the lock
  key is still the same, the job runs twice at once.
* **A removed job comes back on the dashboard** (scheduler_removed). A run that was
  started before the reload creates the status again.
* **A failed rollback leaves the scheduler paused** (reload_paused). When the skills
  directory cannot be read, the rollback returns before it reloads the old jobs.
  The process stays healthy, lists its jobs, accepts manual runs, and never
  ticks until a later reload succeeds. SilenceIsReported shows that between reloads the
  cron of a running program is gone for no other reason but Stop.

Other limits of the code. Where a property is named, it makes an exception for the
limit or says what is left of a promise:

* *No skills directory* (`Panic`). main.go:52 leaves `skills` nil, and main.go:103 passes
  the nil `*SkillManager` as an interface, which is not nil: `skills != nil` at
  main.go:199 holds, GlobalDirs locks a mutex of nothing, and the first edit of the
  config ends the program. The tests pass a nil interface (main_test.go) and do not meet
  it. No run is about this: a program that has ended does nothing that a property of the
  others could speak of.
* *Edits that are lost, and halves that are not* (StaleForAReason, ReloadsAdvance).
  README.md:17 promises a hot reload. An editor that truncates and then writes loses
  the edit to the debounce, which keeps the first event of a burst; one that renames a
  new file over the old one ends the watch; an edit between the load and the watch is
  not noticed. A file that is written in parts may be loaded in between, when its
  first part parses and validates.
* *Processes that get away* (SurvivorsEscaped). runner_test.go:97 asserts that no
  descendant outlives a timeout. One in a group of its own whose parent has exited, or
  that is forked after the listing, does.
* *Blanks in names* (FollowUpsEnd, AcceptedJobsStart). A cycle through padded names
  passes the check that config_test.go:199 tests, since the edges of the graph are not
  trimmed; padded kinds and programs of engines pass and then fail every job.
* *Manual runs during a reload* (AcceptedJobsStart). The engine of a job may be gone
  between the switch of the engines and that of the jobs.
* *Programs and directories that are not there* (AcceptedJobsStart). Validate accepts a
  codex program that is not found, a workdir that does not exist and a name that is no
  file name; the job fails each time it is due.
* *Unread errors* (WalkIsComplete). A COUNT that fails shows a total of 0, and a
  loop over rows that ends early looks like the end of the page.
* *Rows that move* (WalkIsComplete). Three lists are sorted by columns that change; a
  row that moves to a page which the client has left is not shown.
* *Offsets that wrap* (BeyondIsEmpty). A page far beyond the last one may show the first
  rows.
* *Entries that are taken back* (AnswersGrow). stderr may write between an object and
  its newline, and the entry is gone from the next summary.
* *Links to elsewhere* (OnlyOtherLinksAreLost). They are removed before the new link is
  made, and gone if that fails. A file, or an empty directory, that a user puts in
  the place of such a link just before Remove is removed too.
* *Sessions that cannot be read* (ReportIsComplete). They are missing from the report,
  which does not say so.
* *Two dates* (`InDay`). Both ends of a day's window are inclusive, so a session at
  midnight is in the reports of two dates; one of Claude Code that goes on after midnight
  leaves those of yesterday.
* *Long lines* (`More`). A session's lines after one of more than 1 MB cost nothing.
* *Prompts with other names* (SessionsAreCounted). The first prompt of a codex job is the
  text of its skill; when that mentions other skills, the order of the cases in
  classifyJob decides. The property speaks of prompts that are a name.

## Not modelled

* GenerateLock and VerifyLock (skills.go): nothing in the program reads the lock file,
  and VerifyLock is called from nowhere.
* The parsing of YAML and of JSON, the text of SQL queries and which optional columns
  they select, the flags, quoting and prompts of command lines, HTML and log texts:
  they are layout, and no property is about them. normalizeModel is a
  function on names without state.
* How cached input is priced: the four token counts are one number in Costs.
* The check of the host in POST /run, command-line flags and the listen address.
* Days that do not have 24 hours, and floating point, in Costs.
* Two runs of one job that write to one log (after scheduler_overlap), and a log that
  grows while it is being read, in JobLog.
* The dashboard page keeps no state that the server depends on; how it walks through
  pages is the client of ObserverLists.
