--------------------------- MODULE ConfigValidation ---------------------------
(***************************************************************************)
(* What makes a config acceptable: Validate and its search for cycles of   *)
(* run_after_success (src/internal/config.go:118-253).  The fields are     *)
(* checked in one step, since an error anywhere refuses the config; the    *)
(* depth-first search is a step for each visit and each return.            *)
(*                                                                         *)
(* A string of the config is a text with or without blanks around it.      *)
(* Validate trims some of the strings it looks at; the rest of the program *)
(* uses them as they are.                                                  *)
(***************************************************************************)
EXTENDS Naturals, Sequences, SequencesExt

CONSTANTS
  Text,   \* texts without blanks around them
  Blank,  \* the empty one
  Config  \* what may be written in a file that parses

Str == [text : Text, padded : BOOLEAN]

EngineConfig == [kind : Str, cli : Str, skillsDir : Str]

JobConfig ==
  [name : Str, schedule : Str, workdir : Str, timeout : {"none", "positive", "bad"},
   type : {"script", "skill", "other"}, command : Str, engine : Str, skill : Str,
   runAfterSuccess : Seq(Str)]

ASSUME ConfigAssumption ==
  /\ {"claude", "codex"} \subseteq Text /\ Blank \in Text
  /\ \A c \in Config :
       /\ c.jobs \in Seq(JobConfig)
       /\ DOMAIN c.engines \subseteq Str
       /\ c.engines \in [DOMAIN c.engines -> EngineConfig]

VARIABLES
  cfg,
  verdict,   \* "fields" or "cycles" is being checked, or "accepted", "rejected"
  roots,     \* the keys of graph that the outer loop has not reached
  stack,     \* the visits that have begun and not ended
  next,      \* for each name, the position of its visit in graph[name]
  visiting, visited

vars == <<cfg, verdict, roots, stack, next, visiting, visited>>

TypeOK ==
  /\ cfg.jobs \in Seq(JobConfig)
  /\ verdict \in {"fields", "cycles", "accepted", "rejected"}
  /\ roots \subseteq Str /\ visited \subseteq Str
  /\ stack \in Seq(Str) /\ visiting = Range(stack)
  /\ next \in [Str -> Nat]

--------------------------------------------------------------------------------
(* The fields *)

TrimSpace(s) == [s EXCEPT !.padded = FALSE]
IsBlank(s) == s.text = Blank

Jobs == Range(cfg.jobs)
Names == {TrimSpace(j.name) : j \in Jobs}

EngineValid(name) ==
  LET e == cfg.engines[name] IN
  /\ ~IsBlank(name)
  /\ e.kind.text \in {"claude", "codex"}
  /\ ~IsBlank(e.cli) /\ ~IsBlank(e.skillsDir)

EnginesValid ==
  /\ DOMAIN cfg.engines # {}
  /\ \A name \in DOMAIN cfg.engines : EngineValid(name)

NamesValid ==
  /\ \A j \in Jobs : ~IsBlank(j.name)
  /\ \A i, k \in DOMAIN cfg.jobs :
       TrimSpace(cfg.jobs[i].name) = TrimSpace(cfg.jobs[k].name) => i = k

\* Mutant: the engine of a skill job need not exist.
ActionValidEngineUnchecked(j) ==
  \/ j.type = "script" /\ ~IsBlank(j.command)
  \/ /\ j.type = "skill"
     /\ ~IsBlank(j.engine)
     /\ ~IsBlank(j.skill) /\ IsBlank(j.command)

ActionValid(j) ==
  \/ j.type = "script" /\ ~IsBlank(j.command)
  \/ /\ j.type = "skill"
     /\ ~IsBlank(j.engine) /\ j.engine \in DOMAIN cfg.engines
     /\ ~IsBlank(j.skill) /\ IsBlank(j.command)

\* Mutant: a follow-up need not be a job of the list.
FollowUpsValidUnknown(j) ==
  LET targets == [i \in DOMAIN j.runAfterSuccess |-> TrimSpace(j.runAfterSuccess[i])] IN
  TrimSpace(j.name) \notin Range(targets) /\ IsInjective(targets)

FollowUpsValid(j) ==
  LET targets == [i \in DOMAIN j.runAfterSuccess |-> TrimSpace(j.runAfterSuccess[i])] IN
  /\ Range(targets) \subseteq Names \ {TrimSpace(j.name)}
  /\ IsInjective(targets)

JobValid(j) ==
  /\ ~IsBlank(j.schedule) /\ ~IsBlank(j.workdir)
  /\ j.timeout # "bad"
  /\ ActionValid(j)
  /\ FollowUpsValid(j)

FieldsValid == EnginesValid /\ NamesValid /\ \A j \in Jobs : JobValid(j)

--------------------------------------------------------------------------------
(* validateRunAfterSuccessCycles *)

\* graph: its keys are trimmed, the names in its lists are not.
Graph(name) ==
  IF name \in Names
    THEN (CHOOSE j \in Jobs : TrimSpace(j.name) = name).runAfterSuccess
    ELSE <<>>

Init ==
  /\ cfg \in Config
  /\ verdict = "fields"
  /\ roots = {} /\ stack = <<>>
  /\ next = [n \in Str |-> 1]
  /\ visiting = {} /\ visited = {}

CheckFields ==
  /\ verdict = "fields"
  /\ IF FieldsValid
       THEN verdict' = "cycles" /\ roots' = Names
       ELSE verdict' = "rejected" /\ UNCHANGED roots
  /\ UNCHANGED <<cfg, stack, next, visiting, visited>>

\* Mutant: a name that is being visited is taken for one that has been.
VisitLeniently(name) ==
  IF name \in visited \cup visiting
    THEN UNCHANGED <<verdict, stack, visiting>>
    ELSE /\ visiting' = visiting \cup {name}
         /\ stack' = Append(stack, name)
         /\ UNCHANGED verdict

Visit(name) ==
  \/ /\ name \in visited
     /\ UNCHANGED <<verdict, stack, visiting>>
  \/ /\ name \in visiting \ visited
     /\ verdict' = "rejected"
     /\ UNCHANGED <<stack, visiting>>
  \/ /\ name \notin visited \cup visiting
     /\ visiting' = visiting \cup {name}
     /\ stack' = Append(stack, name)
     /\ UNCHANGED verdict

\* The outer loop; Go chooses the order of the keys.
VisitRoot(name) ==
  /\ verdict = "cycles" /\ stack = <<>>
  /\ name \in roots
  /\ roots' = roots \ {name}
  /\ Visit(name)
  /\ UNCHANGED <<cfg, next, visited>>

VisitNext ==
  /\ verdict = "cycles" /\ stack # <<>>
  /\ LET name == Last(stack) IN
     /\ next[name] <= Len(Graph(name))
     /\ next' = [next EXCEPT ![name] = @ + 1]
     /\ Visit(Graph(name)[next[name]])
  /\ UNCHANGED <<cfg, roots, visited>>

\* Mutant: a name is done but still on the path.
LeaveMarked ==
  /\ verdict = "cycles" /\ stack # <<>>
  /\ next[Last(stack)] > Len(Graph(Last(stack)))
  /\ stack' = Front(stack)
  /\ UNCHANGED <<cfg, verdict, roots, next, visiting, visited>>

Leave ==
  /\ verdict = "cycles" /\ stack # <<>>
  /\ LET name == Last(stack) IN
     /\ next[name] > Len(Graph(name))
     /\ stack' = Front(stack)
     /\ visiting' = visiting \ {name}
     /\ visited' = visited \cup {name}
  /\ UNCHANGED <<cfg, verdict, roots, next>>

Accept ==
  /\ verdict = "cycles" /\ stack = <<>> /\ roots = {}
  /\ verdict' = "accepted"
  /\ UNCHANGED <<cfg, roots, stack, next, visiting, visited>>

Step ==
  \/ CheckFields \/ (\E name \in Str : VisitRoot(name)) \/ VisitNext \/ Leave \/ Accept

Spec == Init /\ [][Step]_vars

--------------------------------------------------------------------------------
(* Properties *)

Edge(m, n) == n \in Range(Graph(m))

\* In a finite graph there is a cycle iff some set of names cannot be left.
Trap(S) == S # {} /\ \A m \in S : \E n \in S : Edge(m, n)

\* A list is accepted only if the graph of the search has no cycle, and refused
\* for a cycle only if there is one (config.go:216-252).
VerdictIsRight ==
  /\ verdict = "accepted" => \A S \in SUBSET Names : ~Trap(S)
  /\ verdict = "rejected" /\ FieldsValid => \E S \in SUBSET Names : Trap(S)

\* What triggerRunAfterSuccess (scheduler.go:337) will do: names are compared as
\* they are written.
Follows(j, k) == k.name \in Range(j.runAfterSuccess)

Padded == \E j \in Jobs : \E s \in {j.name} \cup Range(j.runAfterSuccess) : s.padded

\* The follow-ups of an accepted list are jobs of the list, and no job follows
\* itself, however far down the line, as long as no blanks surround a name: with
\* blanks the cycles of config_test.go:199 go unnoticed (config.go:191-252).
FollowUpsEnd ==
  verdict = "accepted" /\ ~Padded =>
    /\ \A j \in Jobs : \A n \in Range(j.runAfterSuccess) : \E k \in Jobs : k.name = n
    /\ \A S \in SUBSET Jobs : S # {} => \E j \in S : \A k \in S : ~Follows(j, k)
================================================================================
