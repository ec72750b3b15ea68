------------------------------ MODULE RunnerProofs ------------------------------
(* Theorems about Runner, for any set of pids and any process tree. *)
EXTENDS Runner, TLAPS

\* A parent is a process that exists, or init.
ParentsExist == \A p \in Pid : parent[p] \in alive \cup {InitPid}

\* Where Run is, what terminateCommand has done, and what has become of the root.
Control ==
  /\ pc \in {"preparing", "starting"} => mine = {} /\ rootExit = "none" /\ tpc = "idle"
  /\ pc \in {"reaped", "draining"} => rootExit # "none"
  /\ pc = "draining" => tpc \in {"off", "done"}
  /\ tpc \in {"listed", "termed", "done"} => cancelled
  /\ pc = "ended" /\ err = "nil" => rootExit = "zero" /\ pipe = {} /\ tpc \in {"off", "done"}

Honest ==
  /\ outcome # "none" => pc = "returned"
  /\ outcome = "ok" => rootExit = "zero" /\ tpc = "off" /\ pipe = {}
  /\ outcome = "error" => cancelled \/ err = "other" \/ (mine = {} /\ rootExit = "none")

\* SIGKILL will reach every process of the command that is not known to escape.
InReach ==
  tpc \in {"listed", "termed"} => mine \ escaped \subseteq listed \cup (inGroup \cap {Root})

\* The inductive strengthening of OutcomeIsHonest and SurvivorsEscaped.
IInv == TypeOK /\ ParentsExist /\ Control /\ Honest /\ InReach /\ SurvivorsEscaped

LEMMA Initially == Init => IInv
<1> SUFFICES ASSUME Init PROVE IInv
  OBVIOUS
<1> USE PidAssumption DEF PidAssumption, Init
<1>1. TypeOK
  BY DEF TypeOK
<1>2. ParentsExist /\ Control /\ Honest /\ InReach /\ SurvivorsEscaped
  BY DEF ParentsExist, Control, Honest, InReach, SurvivorsEscaped
<1> QED
  BY <1>1, <1>2 DEF IInv

\* The walk down the table of ps finds every process whose line of parents reaches the
\* root: what it misses would be closed under parents.
LEMMA AttachedAreListed ==
  ASSUME TypeOK, ParentsExist
  PROVE  Attached \subseteq Descendants
<1> SUFFICES ASSUME NEW p \in Attached
             PROVE  p \in Descendants
  OBVIOUS
<1>1. p \in alive \ {Root}
  BY DEF Attached
<1> SUFFICES ASSUME NEW S \in SUBSET Pid,
                    \A q \in alive : parent[q] \in S \cup {Root} => q \in S
             PROVE  p \in S
  BY <1>1 DEF Descendants
<1> DEFINE T == alive \ (S \cup {Root})
<1>2. T \in SUBSET (Pid \ {Root})
  BY DEF TypeOK
<1>3. \A q \in T : parent[q] \in T \cup {InitPid}
  <2> SUFFICES ASSUME NEW q \in T PROVE parent[q] \in T \cup {InitPid}
    OBVIOUS
  <2>1. parent[q] \in alive \cup {InitPid}
    BY <1>2 DEF ParentsExist
  <2>2. parent[q] \notin S \cup {Root}
    OBVIOUS
  <2> QED
    BY <2>1, <2>2
<1>4. p \notin T
  BY <1>2, <1>3 DEF Attached
<1> QED
  BY <1>1, <1>4

--------------------------------------------------------------------------------
(* Processes *)

\* What the death of processes leaves of the invariant, whoever is to blame.
LEMMA DieKeeps ==
  ASSUME TypeOK, ParentsExist, NEW dead \in SUBSET alive, NEW code \in {"zero", "nonzero"},
         Die(dead, code)
  PROVE  /\ alive' \subseteq Pid /\ mine' \subseteq alive'
         /\ inGroup' \subseteq alive' /\ pipe' \subseteq mine'
         /\ parent' \in [Pid -> Pid \cup {InitPid}]
         /\ rootExit' \in {"none", "zero", "nonzero"}
         /\ ParentsExist'
         /\ mine' \subseteq mine /\ inGroup' \subseteq inGroup /\ pipe' \subseteq pipe
         /\ (mine \cap inGroup) \ dead \subseteq inGroup'
         /\ rootExit # "none" => rootExit' = rootExit
         /\ mine = {} => rootExit' = rootExit
<1> USE DEF Die, TypeOK
<1>1. parent' \in [Pid -> Pid \cup {InitPid}]
  OBVIOUS
<1>2. ParentsExist'
  <2> SUFFICES ASSUME NEW p \in Pid PROVE parent'[p] \in alive' \cup {InitPid}
    BY DEF ParentsExist
  <2>1. parent[p] \in alive \cup {InitPid}
    BY DEF ParentsExist
  <2> QED
    BY <2>1
<1>3. rootExit' \in {"none", "zero", "nonzero"}
  OBVIOUS
<1> QED
  BY <1>1, <1>2, <1>3

LEMMA ExitStep ==
  ASSUME IInv, NEW p \in Pid, Exit(p)
  PROVE  IInv'
<1>1. PICK code \in {"zero", "nonzero"} : Die({p}, code)
  BY DEF Exit
<1>2. {p} \in SUBSET alive
  BY DEF Exit
<1>3. TypeOK' /\ ParentsExist'
  BY <1>1, <1>2, DieKeeps DEF IInv, Exit, TypeOK
<1>4. Control' /\ Honest'
  BY <1>1, <1>2, DieKeeps DEF IInv, Exit, TypeOK, Control, Honest
<1>5. InReach' /\ SurvivorsEscaped'
  BY <1>1, <1>2 DEF IInv, Exit, Die, InReach, SurvivorsEscaped
<1> QED
  BY <1>3, <1>4, <1>5 DEF IInv

LEMMA ForkStep ==
  ASSUME IInv, NEW p \in Pid, NEW c \in Pid, Fork(p, c)
  PROVE  IInv'
<1> USE DEF IInv, Fork, Inherit
<1>1. c \notin alive
  BY DEF Free
<1>2. TypeOK' /\ ParentsExist'
  BY <1>1 DEF TypeOK, ParentsExist
<1>3. Control' /\ Honest'
  BY DEF TypeOK, Control, Honest
<1>4. InReach'
  BY DEF InReach
<1>5. SurvivorsEscaped'
  BY <1>1 DEF TypeOK, SurvivorsEscaped
<1> QED
  BY <1>2, <1>3, <1>4, <1>5

LEMMA StrangerStep ==
  ASSUME IInv, NEW c \in Pid, Stranger(c)
  PROVE  IInv'
<1> USE DEF IInv, Stranger
<1>1. c \notin alive
  BY DEF Free
<1>2. TypeOK' /\ ParentsExist'
  BY DEF TypeOK, ParentsExist
<1>3. Control' /\ Honest' /\ InReach'
  BY DEF Control, Honest, InReach
<1>4. SurvivorsEscaped'
  BY <1>1 DEF TypeOK, SurvivorsEscaped
<1> QED
  BY <1>2, <1>3, <1>4

LEMMA LeaveGroupStep ==
  ASSUME IInv, NEW p \in Pid, LeaveGroup(p)
  PROVE  IInv'
<1> USE DEF IInv, LeaveGroup
<1>1. TypeOK' /\ ParentsExist'
  BY DEF TypeOK, ParentsExist
<1>2. Control' /\ Honest' /\ InReach' /\ SurvivorsEscaped'
  BY DEF Control, Honest, InReach, SurvivorsEscaped
<1> QED
  BY <1>1, <1>2

LEMMA CloseOutputStep ==
  ASSUME IInv, NEW p \in Pid, CloseOutput(p)
  PROVE  IInv'
<1> USE DEF IInv, CloseOutput
<1>1. TypeOK' /\ ParentsExist'
  BY DEF TypeOK, ParentsExist
<1>2. Control' /\ Honest' /\ InReach' /\ SurvivorsEscaped'
  BY DEF Control, Honest, InReach, SurvivorsEscaped
<1> QED
  BY <1>1, <1>2

LEMMA ProcessStepKeeps == IInv /\ ProcessStep => IInv'
BY ForkStep, LeaveGroupStep, CloseOutputStep, ExitStep, StrangerStep DEF ProcessStep

--------------------------------------------------------------------------------
(* Run and terminateCommand *)

\* The steps of Run that leave the processes alone.
LEMMA RunKeeps ==
  ASSUME IInv, Prepare \/ CtxDone \/ StartFails \/ Reap \/ Join \/ Drained
                 \/ WaitDelayEnds \/ Return
  PROVE  IInv'
<1> USE DEF IInv
<1>1. CASE Prepare
  BY <1>1 DEF Prepare, procVars, TypeOK, ParentsExist, Control, Honest, InReach,
              SurvivorsEscaped
<1>2. CASE CtxDone
  BY <1>2 DEF CtxDone, procVars, TypeOK, ParentsExist, Control, Honest, InReach,
              SurvivorsEscaped
<1>3. CASE StartFails
  BY <1>3 DEF StartFails, procVars, TypeOK, ParentsExist, Control, Honest, InReach,
              SurvivorsEscaped
<1>4. CASE Reap
  BY <1>4 DEF Reap, procVars, TypeOK, ParentsExist, Control, Honest, InReach,
              SurvivorsEscaped
<1>5. CASE Join
  BY <1>5 DEF Join, procVars, TypeOK, ParentsExist, Control, Honest, InReach,
              SurvivorsEscaped
<1>6. CASE Drained
  BY <1>6 DEF Drained, ExitError, procVars, TypeOK, ParentsExist, Control, Honest, InReach,
              SurvivorsEscaped
<1>7. CASE WaitDelayEnds
  BY <1>7 DEF WaitDelayEnds, ExitError, procVars, TypeOK, ParentsExist, Control, Honest,
              InReach, SurvivorsEscaped
<1>8. CASE Return
  BY <1>8 DEF Return, procVars, TypeOK, ParentsExist, Control, Honest, InReach,
              SurvivorsEscaped
<1> QED
  BY <1>1, <1>2, <1>3, <1>4, <1>5, <1>6, <1>7, <1>8

LEMMA StartStep == IInv /\ Start => IInv'
<1> SUFFICES ASSUME IInv, Start PROVE IInv'
  OBVIOUS
<1> USE PidAssumption DEF PidAssumption, IInv, Start
<1>1. TypeOK' /\ ParentsExist'
  BY DEF TypeOK, ParentsExist
<1>2. Control' /\ Honest' /\ InReach' /\ SurvivorsEscaped'
  BY DEF Control, Honest, InReach, SurvivorsEscaped
<1> QED
  BY <1>1, <1>2

LEMMA ListStep == IInv /\ List => IInv'
<1> SUFFICES ASSUME IInv, List PROVE IInv'
  OBVIOUS
<1> USE DEF IInv, List
<1>1. Attached \subseteq Descendants
  BY AttachedAreListed
<1>2. TypeOK' /\ ParentsExist'
  BY DEF procVars, TypeOK, ParentsExist, Descendants
<1>3. Control' /\ Honest' /\ SurvivorsEscaped'
  BY DEF procVars, Control, Honest, SurvivorsEscaped
<1>4. InReach'
  BY <1>1 DEF procVars, InReach
<1> QED
  BY <1>2, <1>3, <1>4

LEMMA TermStep == IInv /\ Term => IInv'
<1> SUFFICES ASSUME IInv, Term PROVE IInv'
  OBVIOUS
<1>1. PICK dead \in SUBSET Signalled, code \in {"zero", "nonzero"} : Die(dead, code)
  BY DEF Term
<1>2. dead \in SUBSET alive
  BY DEF Signalled
<1>3. TypeOK' /\ ParentsExist'
  BY <1>1, <1>2, DieKeeps DEF IInv, Term, TypeOK
<1>4. Control' /\ Honest'
  BY <1>1, <1>2, DieKeeps DEF IInv, Term, TypeOK, Control, Honest
<1>5. InReach' /\ SurvivorsEscaped'
  BY <1>1, <1>2 DEF IInv, Term, Die, InReach, SurvivorsEscaped
<1> QED
  BY <1>3, <1>4, <1>5 DEF IInv

LEMMA KillStep == IInv /\ Kill => IInv'
<1> SUFFICES ASSUME IInv, Kill PROVE IInv'
  OBVIOUS
<1>1. Die(Signalled, "nonzero") /\ Signalled \in SUBSET alive
  BY DEF Kill, Signalled
<1>2. TypeOK' /\ ParentsExist'
  BY <1>1, DieKeeps DEF IInv, Kill, TypeOK
<1>3. Control' /\ Honest'
  BY <1>1, DieKeeps DEF IInv, Kill, TypeOK, Control, Honest
<1>4. InReach'
  BY DEF Kill, InReach
<1>5. SurvivorsEscaped'
  BY <1>1 DEF IInv, Kill, Die, Signalled, TypeOK, InReach, SurvivorsEscaped
<1> QED
  BY <1>2, <1>3, <1>4, <1>5 DEF IInv

LEMMA Inductive == IInv /\ [Next]_vars => IInv'
<1> SUFFICES ASSUME IInv, [Next]_vars PROVE IInv'
  OBVIOUS
<1>1. CASE ProcessStep
  BY <1>1, ProcessStepKeeps
<1>2. CASE CtxDone \/ RunStep
  BY <1>2, RunKeeps, StartStep, ListStep, TermStep, KillStep DEF RunStep
<1>3. CASE UNCHANGED vars
  BY <1>3 DEF vars, procVars, IInv, TypeOK, ParentsExist, Control, Honest, InReach,
              SurvivorsEscaped
<1> QED
  BY <1>1, <1>2, <1>3 DEF Next

--------------------------------------------------------------------------------

\* The variables of a call of Run keep their types, with IInv as invariant.
THEOREM RunnerInvariant == Spec => []IInv
BY Initially, Inductive, PTL DEF Spec

\* The variables of a call of Run and of its processes keep their types.
THEOREM RunnerTypeCorrect == Spec => []TypeOK
<1>1. IInv => TypeOK
  BY DEF IInv
<1> QED
  BY <1>1, RunnerInvariant, PTL

\* Run says "ok" only of a command that exited with 0, was not terminated and whose
\* output is complete, and an error only with a reason.
THEOREM OutcomesAreHonest == Spec => []OutcomeIsHonest
<1>1. IInv => OutcomeIsHonest
  BY DEF IInv, Honest, OutcomeIsHonest
<1> QED
  BY <1>1, RunnerInvariant, PTL

\* Whatever the tree of processes and whatever the kernel does with their pids,
\* terminateCommand leaves only processes that it could not have listed.
THEOREM SurvivorsHaveEscaped == Spec => []SurvivorsEscaped
<1>1. IInv => SurvivorsEscaped
  BY DEF IInv
<1> QED
  BY <1>1, RunnerInvariant, PTL
================================================================================
