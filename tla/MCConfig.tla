------------------------------- MODULE MCConfig -------------------------------
(***************************************************************************)
(* Instances for TLC.  A behaviour either validates one config             *)
(* ("validation"): every graph over three jobs with at most two follow-ups *)
(* each, two jobs with padded names, and jobs and engines that each have   *)
(* one field wrong; or it goes on to run the jobs of a few configs, one of *)
(* which is refused ("command"): a script job and a skill job under two    *)
(* engine names, with kinds, programs and names that are written with and  *)
(* without blanks, with a program and a directory that do not exist.       *)
(***************************************************************************)
EXTENDS JobCommand

CONSTANTS a, b, c, other, slash, blank

Texts == {a, b, c, other, slash, blank, "claude", "codex", "sh"}
Files == Texts \ {slash, blank}
Found == {"sh", b}
Directories == {other}

T(x) == [text |-> x, padded |-> FALSE]
P(x) == [text |-> x, padded |-> TRUE]

Engine(kind, cli) == [kind |-> kind, cli |-> cli, skillsDir |-> T(other)]

Script(name, after) ==
  [name |-> name, schedule |-> T(other), workdir |-> T(other), timeout |-> "none",
   type |-> "script", command |-> T(other), engine |-> T(blank), skill |-> T(blank),
   runAfterSuccess |-> after]

SkillJob(name, engine, skill) ==
  [Script(name, <<>>) EXCEPT !.type = "skill", !.command = T(blank),
                             !.engine = engine, !.skill = skill]

With(list, name, engine) == [jobs |-> list, engines |-> [e \in {name} |-> engine]]
WithGood(list) == With(list, T(other), Engine(T("claude"), T(other)))

Lists(S) == {<<>>} \cup {<<s>> : s \in S} \cup {<<s, t>> : s, t \in S}

Graphs ==
  {WithGood(<<Script(T(a), l), Script(T(b), m), Script(T(c), n)>>) :
     l, m, n \in Lists({T(a), T(b), T(c)})}

PaddedGraphs ==
  {WithGood(<<Script(m, k), Script(n, l)>>) :
     m \in {T(a), P(a)}, n \in {T(b), P(b), P(a)},
     k, l \in Lists({T(a), T(b), P(a), P(b)})}

OneWrong ==
  {WithGood(<<j>>) : j \in
     {Script(T(a), <<T(other)>>), Script(T(blank), <<>>), Script(P(blank), <<>>),
      [Script(T(a), <<>>) EXCEPT !.schedule = P(blank)],
      [Script(T(a), <<>>) EXCEPT !.workdir = T(blank)],
      [Script(T(a), <<>>) EXCEPT !.timeout = "bad"],
      [Script(T(a), <<>>) EXCEPT !.command = P(blank)],
      [Script(T(a), <<>>) EXCEPT !.type = "other"],
      SkillJob(T(a), T(blank), T(b)), SkillJob(T(a), P(other), T(b)),
      SkillJob(T(a), T(other), T(b)), SkillJob(T(a), T(other), P(blank)),
      [SkillJob(T(a), T(other), T(b)) EXCEPT !.command = T(other)]}}
  \cup {With(<<SkillJob(T(a), name, T(b))>>, name, engine) :
          name \in {T(other), P(other), T(blank)},
          engine \in {Engine(T("codex"), T(b)), Engine(P("claude"), T(b)), Engine(T(other), T(b)),
                      Engine(T("codex"), P(blank)),
                      [Engine(T("codex"), T(b)) EXCEPT !.skillsDir = T(blank)]}}
  \cup {[jobs |-> <<SkillJob(T(a), T(other), T(b))>>, engines |-> NoEngines]}

Runnable ==
  {With(<<SkillJob(T(a), name, T(b))>>, T(a), engine) :
     name \in {T(a), P(a)},
     engine \in {Engine(T("claude"), T(b)), Engine(P("claude"), T(b)),
                 Engine(T("codex"), T(b)), Engine(T("codex"), P(b)), Engine(T("codex"), T(c)), Engine(T(b), T(b))}}
  \cup {With(<<SkillJob(T(a), T(b), T(b)),
               [Script(T(slash), <<>>) EXCEPT !.workdir = P(other)],
               [Script(T(a), <<>>) EXCEPT !.workdir = P(c)]>>, T(b), Engine(T("codex"), T(b)))}

Configs == Graphs \cup PaddedGraphs \cup OneWrong \cup Runnable

VARIABLE part

MCInit ==
  /\ CommandInit
  /\ skills \subseteq {T(b)}
  /\ \/ part = "validation" /\ skills = {}
     \/ part = "command" /\ cfg \in Runnable

Ended == verdict \in {"accepted", "rejected"} /\ UNCHANGED vars

MCNext ==
  /\ UNCHANGED part
  /\ \/ part = "validation" /\ (Step \/ Ended) /\ UNCHANGED jobVars
     \/ part = "command" /\ CommandNext

MCSpec == MCInit /\ [][MCNext]_<<allVars, part>>
================================================================================
