------------------------------ MODULE JobCommand ------------------------------
(***************************************************************************)
(* From an accepted config to the command of a job: the reload that hands  *)
(* the engines to the Runner and, later, the jobs to the Scheduler         *)
(* (src/main.go:96-110, 221-239), and the part of Runner.Run that looks    *)
(* the engine and the skill up and starts the command                      *)
(* (src/internal/runner.go:71-126, 143-222).  The runner trusts what       *)
(* Validate has let through; the reload and the skills directory may       *)
(* change under it.  There is a SkillManager here: without a directory of  *)
(* skills the first reload ends the program (module ConfigReload).         *)
(***************************************************************************)
EXTENDS ConfigValidation

CONSTANTS
  FileNames,  \* the texts that are a single file name
  Programs,   \* the texts whose program exec.Command finds
  Dirs,       \* the texts that are a directory when the command starts
  Reloads     \* bound: what the watcher may find in the file later

ASSUME ReloadsAssumption == Reloads \subseteq Config

VARIABLES
  engines,   \* Runner.engines
  jobs,      \* the list of the Scheduler
  current,   \* currentCfg.Engines: the ones that jobs were accepted with
  skills,    \* the skills that have a SKILL.md
  reload,    \* what has become of cfg: "waiting", "adopting" or "done"
  run        \* one call of Runner.Run

idle == [pc |-> "idle"]

jobVars == <<engines, jobs, current, skills, reload, run>>
allVars == <<vars, jobVars>>

CommandTypeOK ==
  /\ TypeOK
  /\ jobs \in Seq(JobConfig)
  /\ skills \subseteq Str
  /\ reload \in {"waiting", "adopting", "done"}
  /\ run.pc \in {"idle", "building", "validating", "naming", "creating", "starting",
                "started", "refused"}
  /\ run.pc # "idle" => run.job \in JobConfig /\ run.moved \in BOOLEAN /\ run.missing \in BOOLEAN

--------------------------------------------------------------------------------
(* Loading and reloading *)

NoEngines == [e \in {} |-> e]

CommandInit ==
  /\ Init
  /\ engines = NoEngines /\ jobs = <<>> /\ current = NoEngines
  /\ skills \in SUBSET {j.skill : j \in Jobs}
  /\ reload = "waiting"
  /\ run = idle

\* The paths are trimmed here; commands and names stay as they are written.
resolveRelativePaths(c) ==
  [jobs |-> [i \in DOMAIN c.jobs |-> [c.jobs[i] EXCEPT !.workdir = TrimSpace(@)]],
   engines |-> [e \in DOMAIN c.engines |-> [c.engines[e] EXCEPT !.skillsDir = TrimSpace(@)]]]

Validate == Step /\ UNCHANGED jobVars

NotRunning == run.pc \in {"idle", "started", "refused"}

\* A run notices that the engines are not those of its own config any more.
Moved(new) == IF NotRunning THEN run ELSE [run EXCEPT !.moved = @ \/ new # run.home]

SwitchEngines ==
  /\ verdict = "accepted" /\ reload = "waiting"
  /\ engines' = resolveRelativePaths(cfg).engines
  /\ run' = Moved(engines')
  /\ reload' = "adopting"
  /\ UNCHANGED <<vars, jobs, current, skills>>

\* scheduler.Reload takes the list, and main the config.
AdoptJobs ==
  /\ reload = "adopting"
  /\ jobs' = resolveRelativePaths(cfg).jobs /\ current' = engines
  /\ reload' = "done"
  /\ UNCHANGED <<vars, engines, skills, run>>

\* A step of the reload has failed.
Rollback ==
  /\ reload = "adopting"
  /\ engines' = current
  /\ run' = Moved(engines')
  /\ reload' = "done"
  /\ UNCHANGED <<vars, jobs, current, skills>>

\* The watcher loads what the file says now.
LoadAgain ==
  /\ verdict = "rejected" \/ reload = "done"
  /\ cfg' \in Reloads
  /\ verdict' = "fields"
  /\ roots' = {} /\ stack' = <<>> /\ next' = [n \in Str |-> 1]
  /\ visiting' = {} /\ visited' = {}
  /\ reload' = "waiting"
  /\ UNCHANGED <<engines, jobs, current, skills, run>>

\* Somebody adds or removes a skill.
EditSkills ==
  /\ \E j \in Range(jobs) :
       skills' = IF j.skill \in skills THEN skills \ {j.skill} ELSE skills \cup {j.skill}
  /\ run' = IF NotRunning THEN run
            ELSE [run EXCEPT !.missing = @ \/ run.job.skill \notin skills']
  /\ UNCHANGED <<vars, engines, jobs, current, reload>>

--------------------------------------------------------------------------------
(* Runner.Run *)

RunOnly == UNCHANGED <<vars, engines, jobs, current, skills, reload>>

Is(x) == [text |-> x, padded |-> FALSE]

\* A cron tick, a trigger or a follow-up.
Fire(j) ==
  /\ NotRunning
  /\ run' = [pc |-> "building", job |-> j, home |-> current, moved |-> engines # current,
             missing |-> j.skill \notin skills, program |-> Is(Blank), why |-> ""]
  /\ RunOnly

Refuse(why) == run' = [run EXCEPT !.pc = "refused", !.why = why]
Proceed(pc) == run' = [run EXCEPT !.pc = pc]
Program(p) == run' = [run EXCEPT !.pc = "validating", !.program = p]

sh == Is("sh")

\* The engine is copied under the lock of Runner, and its kind compared as it is
\* written.  The skill of a codex job goes into its prompt; that of a claude job is
\* found by claude.  The flags of the command lines are left out.
buildSkillCommand(job, engine) ==
  CASE engine.kind = Is("claude") -> Program(sh)
    [] engine.kind = Is("codex") -> IF job.skill \in skills THEN Program(engine.cli)
                                                            ELSE Refuse("skill")
    [] OTHER -> Refuse(IF engine.kind.padded THEN "padded kind" ELSE "kind")

buildCommand ==
  /\ run.pc = "building"
  /\ LET job == run.job IN
     CASE job.type = "script" -> IF IsBlank(job.command) THEN Refuse("command") ELSE Program(sh)
       [] job.type = "skill"  -> IF job.engine \in DOMAIN engines
                                   THEN buildSkillCommand(job, engines[job.engine])
                                   ELSE Refuse("engine")
       [] OTHER -> Refuse("type")
  /\ RunOnly

ValidateSkill ==
  /\ run.pc = "validating"
  /\ IF run.job.type = "skill" /\ run.job.skill \notin skills
       THEN Refuse("skill") ELSE Proceed("naming")
  /\ RunOnly

LogPath ==
  /\ run.pc = "naming"
  /\ IF run.job.name.text \in FileNames THEN Proceed("creating") ELSE Refuse("name")
  /\ RunOnly

\* os.Create of the log; the directory of the logs, the disk or the file may refuse.
CreateLog ==
  /\ run.pc = "creating"
  /\ Proceed("starting") \/ Refuse("log")
  /\ RunOnly

\* cmd.Run reports first what exec.Command did not find: sh is found, and looks a
\* command line up itself.  Then the system starts the process in its directory, or
\* does not: no such directory, no room for one more process, or for the prompt.
StartCommand ==
  /\ run.pc = "starting"
  /\ LET program == run.program
         workdir == run.job.workdir IN
     \/ program.padded /\ Refuse("padded cli")
     \/ ~program.padded /\ program.text \notin Programs /\ Refuse("program")
     \/ /\ ~program.padded /\ program.text \in Programs
        /\ \/ workdir.padded /\ Refuse("padded workdir")
           \/ ~workdir.padded /\ workdir.text \notin Dirs /\ Refuse("workdir")
           \/ ~workdir.padded /\ workdir.text \in Dirs /\ Proceed("started")
           \/ Refuse("system")
  /\ RunOnly

Run ==
  \/ \E i \in DOMAIN jobs : Fire(jobs[i])
  \/ buildCommand \/ ValidateSkill \/ LogPath \/ CreateLog \/ StartCommand

CommandNext ==
  \/ Validate \/ SwitchEngines \/ AdoptJobs \/ Rollback \/ LoadAgain \/ EditSkills \/ Run

CommandSpec == CommandInit /\ [][CommandNext]_allVars

--------------------------------------------------------------------------------
(* Properties *)

\* What Validate accepts the runner can use (config.go:118-209 against
\* runner.go:71-126), as far as the config goes.  A job does not start only if
\*   - a reload took its engine away while it was due, or its skill was missing;
\*   - its name is no file name, its program or its directory does not exist, none of
\*     which Validate looks at;
\*   - blanks surround the kind or the program of its engine, which Validate trims and
\*     the runner does not;
\*   - the system creates no log for it, or no process.
AcceptedJobsStart ==
  run.pc = "refused" =>
    \/ run.why = "engine" /\ run.moved
    \/ run.why = "skill" /\ run.missing
    \/ run.why = "name" /\ run.job.name.text \notin FileNames
    \/ run.why = "program" /\ run.program.text \notin Programs
    \/ run.why = "workdir" /\ run.job.workdir.text \notin Dirs
    \/ run.why \in {"padded kind", "padded cli", "log", "system"}
================================================================================
