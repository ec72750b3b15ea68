--------------------------------- MODULE Runner ---------------------------------
(***************************************************************************)
(* One call of Runner.Run (src/internal/runner.go) with the process tree   *)
(* of its command, and what terminateCommand (src/internal/process_unix.go)*)
(* does to that tree when the context ends.                                *)
(*                                                                         *)
(* The processes are the environment: they fork, leave the process group,  *)
(* close their output and exit whenever they like.  os/exec and the kernel *)
(* are modelled as far as Run relies on them: Wait reaps the root, joins   *)
(* the goroutine that calls Cancel, then waits until nobody can write to   *)
(* the output pipe any more, but no longer than WaitDelay.                 *)
(***************************************************************************)
EXTENDS Naturals, FiniteSets

CONSTANTS
  Pid,    \* process ids
  Root,   \* the pid of the command
  InitPid,  \* the parent of orphans
  PsMayFail

ASSUME PidAssumption == Root \in Pid /\ InitPid \notin Pid /\ PsMayFail \in BOOLEAN

VARIABLES
  \* the processes
  alive,      \* pids in use
  mine,       \* the ones forked by the command, directly or not
  parent,
  inGroup,    \* the members of the process group Root
  pipe,       \* the ones that may write to the command's output
  rootExit,   \* how the command ended
  \* the runner
  cancelled,  \* ctx is done: the timeout, or Stop
  pc,         \* where Run is
  tpc,        \* where terminateCommand is; "off" once it will not be called
  listed,     \* its descendants
  err,        \* what cmd.Run returned
  outcome,    \* what Run returned: a result with exit code 0, another code, or an error
  \* history
  escaped     \* processes that terminateCommand could not list

procVars == <<alive, mine, parent, inGroup, pipe, rootExit>>
vars == <<procVars, cancelled, pc, tpc, listed, err, outcome, escaped>>

TypeOK ==
  /\ alive \subseteq Pid
  /\ mine \subseteq alive /\ inGroup \subseteq alive /\ pipe \subseteq mine
  /\ parent \in [Pid -> Pid \cup {InitPid}]
  /\ rootExit \in {"none", "zero", "nonzero"}
  /\ cancelled \in BOOLEAN
  /\ pc \in {"preparing", "starting", "running", "reaped", "draining", "ended", "returned"}
  /\ tpc \in {"idle", "listed", "termed", "done", "off"}
  /\ listed \subseteq Pid /\ escaped \subseteq Pid
  /\ err \in {"nil", "exit", "other"}
  /\ outcome \in {"none", "ok", "failed", "error"}

Init ==
  /\ alive = {} /\ mine = {} /\ inGroup = {} /\ pipe = {}
  /\ parent = [p \in Pid |-> InitPid]
  /\ rootExit = "none"
  /\ cancelled = FALSE
  /\ pc = "preparing" /\ tpc = "idle"
  /\ listed = {} /\ escaped = {}
  /\ err = "nil" /\ outcome = "none"

--------------------------------------------------------------------------------
(* Processes *)

\* Orphans go to init.  The root's exit status waits for Wait.
Die(dead, code) ==
  /\ alive' = alive \ dead /\ mine' = mine \ dead
  /\ inGroup' = inGroup \ dead /\ pipe' = pipe \ dead
  /\ parent' = [p \in Pid |-> IF p \in dead \/ parent[p] \in dead THEN InitPid ELSE parent[p]]
  /\ rootExit' = IF Root \in dead \cap mine /\ rootExit = "none" THEN code ELSE rootExit

\* A pid may be given out again; the root's only after it was reaped and when no
\* process group has its number.
RootTaken == pc \in {"preparing", "starting", "running"} \/ inGroup # {}

Free == Pid \ (IF RootTaken THEN alive \cup {Root} ELSE alive)

Inherit(set, p, c) == IF p \in set THEN set \cup {c} ELSE set

Fork(p, c) ==
  /\ p \in mine /\ c \in Free
  /\ alive' = alive \cup {c} /\ mine' = mine \cup {c}
  /\ inGroup' = Inherit(inGroup, p, c) /\ pipe' = Inherit(pipe, p, c)
  /\ parent' = [parent EXCEPT ![c] = p]
  /\ escaped' = IF tpc \in {"idle", "off"} THEN escaped ELSE escaped \cup {c}
  /\ UNCHANGED <<rootExit, cancelled, pc, tpc, listed, err, outcome>>

\* setsid or setpgid
LeaveGroup(p) ==
  /\ p \in (mine \cap inGroup) \ {Root}
  /\ inGroup' = inGroup \ {p}
  /\ UNCHANGED <<alive, mine, parent, pipe, rootExit>>
  /\ UNCHANGED <<cancelled, pc, tpc, listed, err, outcome, escaped>>

CloseOutput(p) ==
  /\ p \in pipe
  /\ pipe' = pipe \ {p}
  /\ UNCHANGED <<alive, mine, parent, inGroup, rootExit>>
  /\ UNCHANGED <<cancelled, pc, tpc, listed, err, outcome, escaped>>

Exit(p) ==
  /\ p \in alive
  /\ \E code \in {"zero", "nonzero"} : Die({p}, code)
  /\ UNCHANGED <<cancelled, pc, tpc, listed, err, outcome, escaped>>

\* Somebody else's process takes a free pid, and leads a group of that number.
Stranger(c) ==
  /\ c \in Free
  /\ alive' = alive \cup {c}
  /\ inGroup' = IF c = Root THEN inGroup \cup {c} ELSE inGroup
  /\ UNCHANGED <<mine, parent, pipe, rootExit>>
  /\ UNCHANGED <<cancelled, pc, tpc, listed, err, outcome, escaped>>

ProcessStep ==
  \E p \in Pid :
    \/ \E c \in Pid : Fork(p, c)
    \/ LeaveGroup(p) \/ CloseOutput(p) \/ Exit(p) \/ Stranger(p)

--------------------------------------------------------------------------------
(* Run *)

\* buildCommand or ValidateSkill refuses the job, LogPath or os.Create fails, or
\* the command is ready.
Prepare ==
  /\ pc = "preparing"
  /\ \/ pc' = "starting" /\ UNCHANGED outcome
     \/ pc' = "returned" /\ outcome' \in {"failed", "error"}
  /\ UNCHANGED <<procVars, cancelled, tpc, listed, err, escaped>>

CtxDone ==
  /\ ~cancelled /\ pc # "returned"
  /\ cancelled' = TRUE
  /\ UNCHANGED <<procVars, pc, tpc, listed, err, outcome, escaped>>

\* Start fails on a context that is done, a missing workdir or a missing program.
StartFails ==
  /\ pc = "starting"
  /\ err' = "other"
  /\ pc' = "ended"
  /\ UNCHANGED <<procVars, cancelled, tpc, listed, outcome, escaped>>

Start ==
  /\ pc = "starting" /\ ~cancelled
  /\ alive' = alive \cup {Root} /\ mine' = {Root} /\ inGroup' = {Root} /\ pipe' = {Root}
  /\ parent' = [parent EXCEPT ![Root] = InitPid]
  /\ pc' = "running"
  /\ UNCHANGED <<rootExit, cancelled, tpc, listed, err, outcome, escaped>>

\* Wait sees the exit of the root.
Reap ==
  /\ pc = "running" /\ rootExit # "none"
  /\ pc' = "reaped"
  /\ UNCHANGED <<procVars, cancelled, tpc, listed, err, outcome, escaped>>

\* Wait joins the goroutine that watches the context.
Join ==
  /\ pc = "reaped" /\ tpc \in {"idle", "done"}
  /\ pc' = "draining"
  /\ tpc' = IF tpc = "idle" THEN "off" ELSE tpc
  /\ UNCHANGED <<procVars, cancelled, listed, err, outcome, escaped>>

ExitError(otherwise) == IF rootExit = "nonzero" THEN "exit" ELSE otherwise

Drained ==
  /\ pc = "draining" /\ pipe = {}
  /\ err' = ExitError("nil")
  /\ pc' = "ended"
  /\ UNCHANGED <<procVars, cancelled, tpc, listed, outcome, escaped>>

\* Mutant: no WaitDelay once the command was cancelled.
WaitDelayUncancelled ==
  /\ pc = "draining" /\ tpc = "off"
  /\ err' = ExitError("other")
  /\ pc' = "ended"
  /\ UNCHANGED <<procVars, cancelled, tpc, listed, outcome, escaped>>

\* Mutant: exec.ErrWaitDelay counts as success.
WaitDelayForgiven ==
  /\ pc = "draining"
  /\ err' = ExitError("nil")
  /\ pc' = "ended"
  /\ UNCHANGED <<procVars, cancelled, tpc, listed, outcome, escaped>>

WaitDelayEnds ==
  /\ pc = "draining"
  /\ err' = ExitError("other")
  /\ pc' = "ended"
  /\ UNCHANGED <<procVars, cancelled, tpc, listed, outcome, escaped>>

\* Mutant: what cmd.Run returned is passed on as it is.
ReturnUnclassified ==
  /\ pc = "ended"
  /\ outcome' = IF cancelled THEN "error" ELSE err
  /\ pc' = "returned"
  /\ UNCHANGED <<procVars, cancelled, tpc, listed, err, escaped>>

Return ==
  /\ pc = "ended"
  /\ outcome' = IF cancelled THEN "error"
                ELSE CASE err = "nil"   -> "ok"
                       [] err = "exit"  -> "failed"
                       [] err = "other" -> "error"
  /\ pc' = "returned"
  /\ UNCHANGED <<procVars, cancelled, tpc, listed, err, escaped>>

--------------------------------------------------------------------------------
(* terminateCommand, called by os/exec in a goroutine of its own *)

\* Mutant: only the children of the root.
ChildrenOfRoot == {p \in alive : parent[p] = Root}

\* The walk down the table of ps: the least set that has the children of the root
\* and of its members.
Descendants ==
  {p \in alive : \A S \in SUBSET Pid :
     (\A q \in alive : parent[q] \in S \cup {Root} => q \in S) => p \in S}

\* What the walk should find: the processes whose line of parents reaches the root.
Attached ==
  {p \in alive \ {Root} : \A S \in SUBSET (Pid \ {Root}) :
     (\A q \in S : parent[q] \in S \cup {InitPid}) => p \notin S}

List ==
  /\ pc \in {"running", "reaped"} /\ cancelled /\ tpc = "idle"
  /\ tpc' = "listed"
  /\ \/ listed' = Descendants /\ escaped' = mine \ (Attached \cup (inGroup \cap {Root}))
     \/ PsMayFail /\ listed' = {} /\ escaped' = mine \ (inGroup \cap {Root})
  /\ UNCHANGED <<procVars, cancelled, pc, err, outcome>>

Signalled == alive \cap (inGroup \cup listed)

\* SIGTERM may be handled, with any exit code, or ignored.
Term ==
  /\ tpc = "listed"
  /\ \E dead \in SUBSET Signalled : \E code \in {"zero", "nonzero"} : Die(dead, code)
  /\ tpc' = "termed"
  /\ UNCHANGED <<cancelled, pc, listed, err, outcome, escaped>>

\* Half a second later, SIGKILL.
Kill ==
  /\ tpc = "termed"
  /\ Die(Signalled, "nonzero")
  /\ tpc' = "done"
  /\ UNCHANGED <<cancelled, pc, listed, err, outcome, escaped>>

RunStep ==
  \/ Prepare \/ StartFails \/ Start \/ Reap \/ Join \/ Drained \/ WaitDelayEnds \/ Return
  \/ List \/ Term \/ Kill

Next == ProcessStep \/ CtxDone \/ RunStep

Spec == Init /\ [][Next]_vars

\* Each goroutine runs, and the timeout of the job ends its context.
FairSpec ==
  /\ Spec
  /\ WF_vars(CtxDone)
  /\ WF_vars(Prepare) /\ WF_vars(Start \/ StartFails)
  /\ WF_vars(List) /\ WF_vars(Term) /\ WF_vars(Kill)
  /\ WF_vars(Reap) /\ WF_vars(Join) /\ WF_vars(Drained \/ WaitDelayEnds) /\ WF_vars(Return)

--------------------------------------------------------------------------------
(* Properties *)

\* Run returns for every command, whatever its processes do with signals and with
\* the pipe (runner.go:94-97); Scheduler assumes this of RunnerReturn.
RunReturns == pc = "preparing" ~> pc = "returned"

\* "ok" means what the scheduler makes of it when it starts the follow-ups: the
\* command exited with 0, was not terminated, and its output is complete; and an
\* error has a reason (runner.go:113-127).
OutcomeIsHonest ==
  /\ outcome = "ok" => rootExit = "zero" /\ tpc = "off" /\ pipe = {}
  /\ outcome = "error" => cancelled \/ rootExit = "none" \/ err = "other"

\* Once terminateCommand has returned, what survives of the command had left its
\* process group, and was an orphan, a late fork or not shown by ps
\* (process_unix.go:18-39): runner_test.go:97 asserts it of descendants that stay.
SurvivorsEscaped ==
  tpc = "done" => mine \cap inGroup = {} /\ mine \subseteq escaped
================================================================================
