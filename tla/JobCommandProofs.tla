----------------------------- MODULE JobCommandProofs -----------------------------
(* Theorems about ConfigValidation and JobCommand, for any configs: the search for  *)
(* cycles decides correctly, and the runner can use what Validate has accepted.     *)
EXTENDS JobCommand, FiniteSets, SequenceTheorems, TLAPS

--------------------------------------------------------------------------------
(* The inductive invariant of the search *)

\* A search has not begun before the fields are known to be valid.
Begun ==
  /\ cfg \in Config
  /\ verdict \in {"cycles", "accepted"} => FieldsValid
  /\ verdict = "fields" => stack = <<>> /\ visited = {} /\ roots = {}
  /\ verdict = "accepted" => stack = <<>> /\ roots = {}
  /\ verdict \in {"cycles", "accepted"} => Names \subseteq roots \cup visited \cup visiting

\* The stack is a path without repetitions through names that are not done.
OnPath ==
  /\ IsInjective(stack)
  /\ visited \cap visiting = {}
  /\ \A i \in 1 .. Len(stack) - 1 : Edge(stack[i], stack[i + 1])

\* What a visit has gone past is done, but for the visit that it waits for.
GonePast ==
  /\ \A n \in Str : next[n] # 0
  /\ \A n \in Str \ (visited \cup visiting) : next[n] = 1
  /\ \A i \in 1 .. Len(stack) : \A k \in 1 .. next[stack[i]] - 1 :
       k <= Len(Graph(stack[i])) =>
         \/ Graph(stack[i])[k] \in visited
         \/ i < Len(stack) /\ Graph(stack[i])[k] = stack[i + 1]

\* Nothing leads out of the names that are done, and there is no cycle among them.
DoneIsSound ==
  /\ \A m \in visited : Range(Graph(m)) \subseteq visited
  /\ \A S \in SUBSET visited : ~Trap(S)

SearchInv ==
  /\ TypeOK /\ Begun
  /\ verdict # "rejected" => OnPath /\ GonePast /\ DoneIsSound
  /\ verdict = "rejected" /\ FieldsValid => \E S \in SUBSET Names : Trap(S)

--------------------------------------------------------------------------------
(* The inductive invariant of the commands *)

EnginesFit(es) ==
  /\ es \in [DOMAIN es -> EngineConfig]
  /\ \A e \in DOMAIN es : es[e].kind.text \in {"claude", "codex"}

\* What an accepted config and resolveRelativePaths make sure of.
JobFits(j, es) ==
  /\ j \in JobConfig /\ ~j.workdir.padded
  /\ \/ j.type = "script" /\ ~IsBlank(j.command)
     \/ j.type = "skill" /\ j.engine \in DOMAIN es

\* The jobs fit the engines of their own config, at any time of a reload.
JobsFit ==
  /\ EnginesFit(engines) /\ EnginesFit(current)
  /\ jobs \in Seq(JobConfig) /\ \A i \in DOMAIN jobs : JobFits(jobs[i], current)
  /\ skills \subseteq Str
  /\ reload \in {"waiting", "adopting", "done"}
  /\ reload = "adopting" => verdict = "accepted" /\ engines = resolveRelativePaths(cfg).engines

RunFields == {"pc", "job", "home", "moved", "missing", "program", "why"}

\* run is a record, with all its fields once a job was fired.
RunIsRecord ==
  /\ run.pc \in {"idle", "building", "validating", "naming", "creating", "starting",
                "started", "refused"}
  /\ run.pc # "idle" => /\ run = [f \in RunFields |-> run[f]]
                        /\ run.job \in JobConfig /\ run.moved \in BOOLEAN /\ run.missing \in BOOLEAN

\* A run that is under way knows whether its engines or its skill are still those it
\* began with.
RunIsInformed ==
  ~NotRunning =>
    /\ JobFits(run.job, run.home)
    /\ run.moved \/ engines = run.home
    /\ run.missing \/ run.job.skill \in skills

CommandInv == SearchInv /\ JobsFit /\ RunIsRecord /\ RunIsInformed /\ AcceptedJobsStart

--------------------------------------------------------------------------------
(* About configs and graphs *)

LEMMA ConfigTypes ==
  ASSUME cfg \in Config
  PROVE  /\ cfg.jobs \in Seq(JobConfig)
         /\ DOMAIN cfg.engines \subseteq Str
         /\ cfg.engines \in [DOMAIN cfg.engines -> EngineConfig]
BY ConfigAssumption DEF ConfigAssumption

LEMMA JobTypes ==
  ASSUME cfg.jobs \in Seq(JobConfig)
  PROVE  /\ Jobs \subseteq JobConfig
         /\ \A j \in JobConfig : j.name \in Str /\ TrimSpace(j.name) \in Str
         /\ \A j \in JobConfig : j.runAfterSuccess \in Seq(Str)
         /\ Names \subseteq Str
<1>1. Jobs \subseteq JobConfig
  BY DEF Jobs, Range
<1>2. \A j \in JobConfig : j.name \in Str /\ j.runAfterSuccess \in Seq(Str)
  BY DEF JobConfig
<1>3. \A j \in JobConfig : TrimSpace(j.name) \in Str
  BY <1>2 DEF TrimSpace, Str
<1> QED
  BY <1>1, <1>2, <1>3 DEF Names

LEMMA GraphTypes ==
  ASSUME cfg.jobs \in Seq(JobConfig), NEW n \in Str
  PROVE  /\ Graph(n) \in Seq(Str)
         /\ Range(Graph(n)) \subseteq Str
         /\ n \notin Names => Range(Graph(n)) = {}
<1>1. Graph(n) \in Seq(Str)
  <2>1. CASE n \in Names
    <3> DEFINE job == CHOOSE j \in Jobs : TrimSpace(j.name) = n
    <3>1. job \in Jobs
      BY <2>1 DEF Names
    <3>2. job.runAfterSuccess \in Seq(Str)
      BY <3>1, JobTypes
    <3> QED
      BY <2>1, <3>2 DEF Graph
  <2>2. CASE n \notin Names
    BY <2>2 DEF Graph
  <2> QED
    BY <2>1, <2>2
<1>2. Range(Graph(n)) \subseteq Str
  BY <1>1 DEF Range
<1>3. n \notin Names => Range(Graph(n)) = {}
  BY DEF Graph, Range
<1> QED
  BY <1>1, <1>2, <1>3

\* What only depends on the config stays as it is.
LEMMA SameConfig ==
  ASSUME cfg' = cfg
  PROVE  /\ Names' = Names /\ FieldsValid' = FieldsValid
         /\ \A n : Graph(n)' = Graph(n)
         /\ \A m, n : Edge(m, n)' <=> Edge(m, n)
         /\ \A S : Trap(S)' <=> Trap(S)
<1> USE DEF Names, Jobs
<1>1. Names' = Names
  OBVIOUS
<1>2. \A n : Graph(n)' = Graph(n)
  BY DEF Graph
<1>3. FieldsValid' = FieldsValid
  BY DEF FieldsValid, EnginesValid, EngineValid, NamesValid, JobValid, ActionValid, FollowUpsValid
<1>4. \A m, n : Edge(m, n)' <=> Edge(m, n)
  BY <1>2 DEF Edge
<1>5. \A S : Trap(S)' <=> Trap(S)
  BY <1>4 DEF Trap
<1> QED
  BY <1>1, <1>2, <1>3, <1>4, <1>5

--------------------------------------------------------------------------------
(* The search keeps its invariant *)

LEMMA AppendFacts ==
  ASSUME NEW s \in Seq(Str), NEW e \in Str
  PROVE  /\ Append(s, e) \in Seq(Str)
         /\ Len(Append(s, e)) = Len(s) + 1
         /\ \A i \in 1 .. Len(s) : Append(s, e)[i] = s[i]
         /\ Append(s, e)[Len(s) + 1] = e
         /\ Range(Append(s, e)) = Range(s) \cup {e}
<1> DEFINE t == Append(s, e)
<1>1. /\ t \in Seq(Str) /\ Len(t) = Len(s) + 1
      /\ \A i \in 1 .. Len(s) : t[i] = s[i]
      /\ t[Len(s) + 1] = e
  BY AppendProperties
<1>2. Range(t) = Range(s) \cup {e}
  <2> HIDE DEF t
  <2>1. DOMAIN t = 1 .. Len(s) + 1 /\ DOMAIN s = 1 .. Len(s) /\ Len(s) \in Nat
    BY <1>1
  <2> QED
    BY <1>1, <2>1 DEF Range
<1> QED
  BY <1>1, <1>2

LEMMA FrontFacts ==
  ASSUME NEW s \in Seq(Str), s # <<>>, IsInjective(s)
  PROVE  /\ Len(s) \in Nat \ {0} /\ Last(s) = s[Len(s)] /\ Last(s) \in Range(s)
         /\ Front(s) \in Seq(Str)
         /\ Len(Front(s)) = Len(s) - 1
         /\ \A i \in 1 .. Len(s) - 1 : Front(s)[i] = s[i] /\ s[i] # Last(s)
         /\ IsInjective(Front(s))
         /\ Range(Front(s)) = Range(s) \ {Last(s)}
<1> DEFINE t == Front(s)
<1>1. Len(s) \in Nat \ {0} /\ Last(s) = s[Len(s)] /\ DOMAIN s = 1 .. Len(s)
  BY EmptySeq DEF Last
<1>2. /\ t \in Seq(Str) /\ Len(t) = Len(s) - 1
      /\ \A i \in 1 .. Len(s) - 1 : t[i] = s[i]
  BY <1>1, SubSeqProperties DEF Front
<1>3. DOMAIN t = 1 .. Len(s) - 1
  BY <1>2
<1> HIDE DEF t
<1>4. \A i \in 1 .. Len(s) - 1 : s[i] # Last(s)
  BY <1>1 DEF IsInjective
<1>5. IsInjective(t)
  BY <1>1, <1>2, <1>3 DEF IsInjective
<1>6. Range(t) = Range(s) \ {Last(s)} /\ Last(s) \in Range(s)
  BY <1>1, <1>2, <1>3, <1>4 DEF Range
<1> QED
  BY <1>1, <1>2, <1>4, <1>5, <1>6 DEF t

LEMMA SearchBegins == Init => SearchInv
<1> SUFFICES ASSUME Init PROVE SearchInv
  OBVIOUS
<1>1. cfg.jobs \in Seq(JobConfig)
  BY ConfigTypes DEF Init
<1>2. TypeOK
  <2>1. stack = <<>> /\ stack \in Seq(Str) /\ Range(stack) = {}
    BY DEF Init, Range
  <2> QED
    BY <1>1, <2>1 DEF Init, TypeOK
<1>3. Begun
  BY DEF Init, Begun
<1>4. OnPath /\ GonePast /\ DoneIsSound
  <2>1. stack = <<>> /\ Len(stack) = 0
    BY DEF Init
  <2>2. OnPath
    BY <2>1 DEF Init, OnPath, IsInjective
  <2>3. GonePast
    BY <2>1 DEF Init, GonePast
  <2>4. DoneIsSound
    BY DEF Init, DoneIsSound, Trap
  <2> QED
    BY <2>2, <2>3, <2>4
<1> QED
  BY <1>2, <1>3, <1>4 DEF SearchInv, Init

LEMMA CheckFieldsKeeps == SearchInv /\ CheckFields => SearchInv'
<1> SUFFICES ASSUME SearchInv, CheckFields PROVE SearchInv'
  OBVIOUS
<1>1. UNCHANGED <<cfg, stack, next, visiting, visited>> /\ verdict = "fields"
  BY DEF CheckFields
<1>2. Names' = Names /\ (FieldsValid' <=> FieldsValid) /\ Names \subseteq Str
  BY <1>1, SameConfig, JobTypes DEF SearchInv, TypeOK
<1>3. OnPath' /\ GonePast' /\ DoneIsSound'
  BY <1>1, SameConfig DEF SearchInv, OnPath, GonePast, DoneIsSound
<1>4. CASE FieldsValid
  BY <1>1, <1>2, <1>3, <1>4 DEF CheckFields, SearchInv, TypeOK, Begun
<1>5. CASE ~FieldsValid
  BY <1>1, <1>2, <1>3, <1>5 DEF CheckFields, SearchInv, TypeOK, Begun
<1> QED
  BY <1>4, <1>5

\* A new name goes on the stack.
LEMMA Pushes ==
  ASSUME TypeOK, OnPath, NEW name \in Str, name \notin visited \cup visiting,
         UNCHANGED <<cfg, visited>>,
         visiting' = visiting \cup {name}, stack' = Append(stack, name),
         stack # <<>> => Edge(Last(stack), name)
  PROVE  /\ stack' \in Seq(Str) /\ visiting' = Range(stack') /\ OnPath'
         /\ Len(stack) \in Nat /\ Len(stack') = Len(stack) + 1
         /\ \A i \in 1 .. Len(stack) : stack'[i] = stack[i] /\ stack[i] \in visiting
         /\ stack'[Len(stack) + 1] = name
<1>1. stack \in Seq(Str) /\ visiting = Range(stack)
  BY DEF TypeOK
<1>2. /\ stack' \in Seq(Str) /\ Len(stack') = Len(stack) + 1
      /\ \A i \in 1 .. Len(stack) : stack'[i] = stack[i]
      /\ stack'[Len(stack) + 1] = name
      /\ Range(stack') = visiting'
  BY <1>1, AppendFacts
<1>3. /\ Len(stack) \in Nat /\ DOMAIN stack = 1 .. Len(stack)
      /\ DOMAIN stack' = 1 .. Len(stack) + 1
  BY <1>1, <1>2
<1>4. \A i \in 1 .. Len(stack) : stack[i] \in visiting
  BY <1>1, <1>3 DEF Range
<1>5. IsInjective(stack')
  BY <1>2, <1>3, <1>4 DEF OnPath, IsInjective
<1>6. (\A i \in 1 .. Len(stack) - 1 : Edge(stack[i], stack[i + 1]))'
  <2>4. Len(stack') - 1 = Len(stack)
    BY <1>2, <1>3
  <2>5. \A m, n : Edge(m, n)' <=> Edge(m, n)
    BY DEF Edge, Graph, Names, Jobs
  <2> SUFFICES ASSUME NEW i \in 1 .. Len(stack)
               PROVE  Edge(stack'[i], stack'[i + 1])
    BY <2>4, <2>5
  <2>1. CASE i = Len(stack)
    BY <2>1, <1>2, <1>3 DEF Last
  <2>2. CASE i \in 1 .. Len(stack) - 1
    <3>1. Edge(stack[i], stack[i + 1])
      BY <2>2 DEF OnPath
    <3>2. i + 1 \in 1 .. Len(stack)
      BY <2>2, <1>3
    <3> QED
      BY <3>1, <3>2, <1>2
  <2>3. i = Len(stack) \/ i \in 1 .. Len(stack) - 1
    <3>1. Len(stack) \in Nat
      BY <1>3
    <3> QED
      BY <3>1
  <2> QED
    BY <2>1, <2>2, <2>3
<1>7. visited' \cap visiting' = {}
  BY DEF OnPath
<1> QED
  BY <1>2, <1>3, <1>4, <1>5, <1>6, <1>7 DEF OnPath

LEMMA VisitRootKeeps == SearchInv /\ (\E name \in Str : VisitRoot(name)) => SearchInv'
<1> SUFFICES ASSUME SearchInv, NEW name \in Str, VisitRoot(name) PROVE SearchInv'
  OBVIOUS
<1>1. /\ verdict = "cycles" /\ stack = <<>> /\ Len(stack) = 0 /\ visiting = {}
      /\ roots' = roots \ {name} /\ UNCHANGED <<cfg, next, visited>>
  BY DEF VisitRoot, SearchInv, TypeOK, Range
<1>2. Names' = Names /\ (FieldsValid' <=> FieldsValid)
  BY <1>1, SameConfig
<1>3. TypeOK /\ Begun /\ OnPath /\ GonePast /\ DoneIsSound
  BY <1>1 DEF SearchInv
<1>4. DoneIsSound'
  BY <1>1, <1>3, SameConfig DEF DoneIsSound
<1>5. CASE name \in visited /\ UNCHANGED <<verdict, stack, visiting>>
  <2>1. TypeOK' /\ Begun'
    BY <1>1, <1>2, <1>3, <1>5 DEF TypeOK, Begun
  <2>2. OnPath' /\ GonePast'
    BY <1>1, <1>3, <1>5 DEF OnPath, GonePast
  <2> QED
    BY <1>1, <1>4, <1>5, <2>1, <2>2 DEF SearchInv
<1>6. CASE /\ name \notin visited \cup visiting
           /\ visiting' = visiting \cup {name} /\ stack' = Append(stack, name)
           /\ UNCHANGED verdict
  <2>1. /\ stack' \in Seq(Str) /\ visiting' = Range(stack') /\ OnPath'
        /\ Len(stack') = 1 /\ stack'[1] = name
    BY <1>1, <1>3, <1>6, Pushes
  <2>2. TypeOK' /\ Begun'
    BY <1>1, <1>2, <1>3, <1>6, <2>1 DEF TypeOK, Begun
  <2>3. next'[name] = 1
    BY <1>1, <1>3, <1>6 DEF GonePast
  <2>4. GonePast'
    BY <1>1, <1>3, <1>6, <2>1, <2>3 DEF GonePast
  <2> QED
    BY <1>1, <1>4, <1>6, <2>1, <2>2, <2>4 DEF SearchInv
<1> QED
  BY <1>1, <1>5, <1>6 DEF VisitRoot, Visit

\* A name that is being visited is met again: the path from it to the top of the stack
\* is a cycle.
LEMMA MetAgain ==
  ASSUME TypeOK, Begun, OnPath, verdict = "cycles", stack # <<>>,
         NEW name \in visiting, Edge(Last(stack), name)
  PROVE  \E S \in SUBSET Names : Trap(S)
<1>1. /\ stack \in Seq(Str) /\ Len(stack) \in Nat \ {0} /\ DOMAIN stack = 1 .. Len(stack)
      /\ Last(stack) = stack[Len(stack)]
  BY FrontFacts DEF TypeOK, OnPath
<1>2. PICK k \in 1 .. Len(stack) : stack[k] = name
  BY <1>1 DEF TypeOK, Range
<1> DEFINE S == {stack[i] : i \in k .. Len(stack)}
<1>3. \A m \in S : m \in Str /\ \E n \in S : Edge(m, n)
  <2> SUFFICES ASSUME NEW i \in k .. Len(stack)
               PROVE  stack[i] \in Str /\ \E n \in S : Edge(stack[i], n)
    OBVIOUS
  <2>1. stack[i] \in Str
    BY <1>1
  <2>2. CASE i = Len(stack)
    <3>1. stack[k] \in S /\ Edge(stack[i], stack[k])
      BY <1>1, <1>2, <2>2
    <3> QED
      BY <2>1, <3>1
  <2>3. CASE i # Len(stack)
    <3>1. i + 1 \in k .. Len(stack) /\ i \in 1 .. Len(stack) - 1
      <4>1. Len(stack) \in Nat
        BY <1>1
      <4> QED
        BY <2>3, <4>1
    <3>2. stack[i + 1] \in S /\ Edge(stack[i], stack[i + 1])
      BY <3>1 DEF OnPath
    <3> QED
      BY <2>1, <3>2
  <2> QED
    BY <2>2, <2>3
<1>4. S # {}
  BY <1>1
<1>5. S \subseteq Names
  BY <1>3, GraphTypes DEF Edge, TypeOK
<1> QED
  BY <1>3, <1>4, <1>5 DEF Trap

LEMMA VisitNextKeeps == SearchInv /\ VisitNext => SearchInv'
<1> SUFFICES ASSUME SearchInv, VisitNext PROVE SearchInv'
  OBVIOUS
<1> DEFINE top == Last(stack)
           name == Graph(top)[next[top]]
<1>1. /\ verdict = "cycles" /\ stack # <<>>
      /\ next[top] <= Len(Graph(top)) /\ next' = [next EXCEPT ![top] = @ + 1]
      /\ Visit(name) /\ UNCHANGED <<cfg, roots, visited>>
  BY DEF VisitNext
<1>2. Names' = Names /\ (FieldsValid' <=> FieldsValid) /\ \A n : Graph(n)' = Graph(n)
  BY <1>1, SameConfig
<1>3. TypeOK /\ Begun /\ OnPath /\ GonePast /\ DoneIsSound
  BY <1>1 DEF SearchInv
<1>4. DoneIsSound'
  BY <1>1, <1>3, SameConfig DEF DoneIsSound
<1>5. /\ stack \in Seq(Str) /\ Len(stack) \in Nat \ {0} /\ DOMAIN stack = 1 .. Len(stack)
      /\ top = stack[Len(stack)] /\ top \in visiting /\ top \in Str
      /\ \A i \in 1 .. Len(stack) - 1 : stack[i] # top
      /\ \A i \in 1 .. Len(stack) : stack[i] \in Str
  BY <1>1, <1>3, FrontFacts DEF TypeOK, OnPath
<1>6. next \in [Str -> Nat] /\ next[top] \in Nat \ {0}
  BY <1>3, <1>5 DEF TypeOK, GonePast
<1> HIDE DEF top
<1>7. next' \in [Str -> Nat] /\ \A n \in Str : next'[n] = IF n = top THEN next[n] + 1 ELSE next[n]
  <2>1. next' = [next EXCEPT ![top] = next[top] + 1] /\ top \in Str
    BY <1>1, <1>5
  <2> QED
    BY <1>6, <2>1
<1>8. /\ name \in Str /\ Edge(top, name)
      /\ Len(Graph(top)) \in Nat /\ next[top] \in 1 .. Len(Graph(top))
  <2>1. Graph(top) \in Seq(Str)
    BY <1>3, <1>5, GraphTypes DEF TypeOK
  <2>2. next[top] \in 1 .. Len(Graph(top)) /\ DOMAIN Graph(top) = 1 .. Len(Graph(top))
    BY <1>1, <1>6, <2>1
  <2> QED
    BY <2>1, <2>2 DEF Edge, Range
<1>9. \A k \in 1 .. next'[top] - 1 :
        k <= Len(Graph(top)) => Graph(top)[k] \in visited \/ Graph(top)[k] = name
  <2> SUFFICES ASSUME NEW k \in 1 .. next'[top] - 1, k <= Len(Graph(top)), k # next[top]
               PROVE  Graph(top)[k] \in visited
    OBVIOUS
  <2>1. next'[top] = next[top] + 1
    BY <1>5, <1>7
  <2>2. k \in 1 .. next[top] - 1
    BY <1>6, <2>1
  <2>3. Len(stack) \in 1 .. Len(stack) /\ ~(Len(stack) < Len(stack))
    BY <1>5
  <2> QED
    BY <1>3, <1>5, <2>2, <2>3 DEF GonePast
<1>10. \A i \in 1 .. Len(stack) - 1 : next'[stack[i]] = next[stack[i]]
  <2> SUFFICES ASSUME NEW i \in 1 .. Len(stack) - 1 PROVE next'[stack[i]] = next[stack[i]]
    OBVIOUS
  <2>1. i \in 1 .. Len(stack)
    BY <1>5
  <2> QED
    BY <1>5, <1>7, <2>1
<1>11. /\ \A n \in Str : next'[n] # 0
       /\ \A n \in Str \ (visited \cup visiting) : next'[n] = 1
  <2>1. /\ \A n \in Str : next[n] \in Nat \ {0}
        /\ \A n \in Str \ (visited \cup visiting) : n # top /\ next[n] = 1
    BY <1>3, <1>5, <1>6 DEF GonePast
  <2> QED
    BY <1>7, <2>1
<1> HIDE DEF name
<1>12. CASE name \in visited /\ UNCHANGED <<verdict, stack, visiting>>
  <2>1. TypeOK' /\ Begun' /\ OnPath'
    BY <1>1, <1>2, <1>3, <1>7, <1>12, SameConfig DEF TypeOK, Begun, OnPath
  <2>2. ASSUME NEW i \in 1 .. Len(stack), NEW k \in 1 .. next'[stack[i]] - 1,
               k <= Len(Graph(stack[i]))
        PROVE  \/ Graph(stack[i])[k] \in visited
               \/ i < Len(stack) /\ Graph(stack[i])[k] = stack[i + 1]
    <3>1. CASE i = Len(stack)
      BY <1>5, <1>9, <1>12, <2>2, <3>1
    <3>2. CASE i \in 1 .. Len(stack) - 1
      BY <1>3, <1>10, <2>2, <3>2 DEF GonePast
    <3>3. i = Len(stack) \/ i \in 1 .. Len(stack) - 1
      <4>1. Len(stack) \in Nat
        BY <1>5
      <4> QED
        BY <4>1
    <3> QED
      BY <3>1, <3>2, <3>3
  <2>3. GonePast'
    BY <1>1, <1>2, <1>11, <1>12, <2>2 DEF GonePast
  <2> QED
    BY <1>1, <1>4, <1>12, <2>1, <2>3 DEF SearchInv
<1>13. CASE name \in visiting \ visited /\ verdict' = "rejected" /\ UNCHANGED <<stack, visiting>>
  <2>1. TypeOK' /\ Begun'
    BY <1>1, <1>2, <1>3, <1>7, <1>13 DEF TypeOK, Begun
  <2>2. \E S \in SUBSET Names : Trap(S)
    BY <1>1, <1>3, <1>8, <1>13, MetAgain DEF top
  <2> QED
    BY <1>1, <1>13, <2>1, <2>2, SameConfig DEF SearchInv
<1>14. CASE /\ name \notin visited \cup visiting
            /\ visiting' = visiting \cup {name} /\ stack' = Append(stack, name)
            /\ UNCHANGED verdict
  <2>1. /\ stack' \in Seq(Str) /\ visiting' = Range(stack') /\ OnPath'
        /\ Len(stack') = Len(stack) + 1
        /\ \A i \in 1 .. Len(stack) : stack'[i] = stack[i]
        /\ stack'[Len(stack) + 1] = name
    BY <1>1, <1>3, <1>8, <1>14, Pushes DEF top
  <2>2. TypeOK' /\ Begun'
    BY <1>1, <1>2, <1>3, <1>7, <1>14, <2>1 DEF TypeOK, Begun
  <2>3. ASSUME NEW i \in 1 .. Len(stack) + 1, NEW k \in 1 .. next'[stack'[i]] - 1,
               k <= Len(Graph(stack'[i]))
        PROVE  \/ Graph(stack'[i])[k] \in visited
               \/ i < Len(stack) + 1 /\ Graph(stack'[i])[k] = stack'[i + 1]
    <3>1. CASE i = Len(stack) + 1
      <4>1. stack'[i] = name /\ next'[name] = 1
        BY <1>8, <1>11, <1>14, <2>1, <3>1
      <4> QED
        BY <2>3, <4>1
    <3>2. CASE i = Len(stack)
      <4>1. stack'[i] = top /\ stack'[i + 1] = name /\ i < Len(stack) + 1
        BY <1>5, <2>1, <3>2
      <4> QED
        BY <1>9, <2>3, <4>1
    <3>3. CASE i \in 1 .. Len(stack) - 1
      <4>1. i \in 1 .. Len(stack) /\ i + 1 \in 1 .. Len(stack) /\ i < Len(stack) + 1
        BY <1>5, <3>3
      <4>2. stack'[i] = stack[i] /\ stack'[i + 1] = stack[i + 1]
        BY <2>1, <4>1
      <4> QED
        BY <1>3, <1>10, <2>3, <3>3, <4>1, <4>2 DEF GonePast
    <3>4. i = Len(stack) + 1 \/ i = Len(stack) \/ i \in 1 .. Len(stack) - 1
      <4>1. Len(stack) \in Nat
        BY <1>5
      <4> QED
        BY <4>1
    <3> QED
      BY <3>1, <3>2, <3>3, <3>4
  <2>4. GonePast'
    <3>1. \A n \in Str \ (visited' \cup visiting') : next'[n] = 1
      BY <1>1, <1>11, <1>14
    <3> QED
      BY <1>1, <1>2, <1>11, <2>1, <2>3, <3>1 DEF GonePast
  <2> QED
    BY <1>1, <1>4, <1>14, <2>1, <2>2, <2>4 DEF SearchInv
<1> QED
  BY <1>1, <1>12, <1>13, <1>14 DEF Visit

\* Every name that a visit has gone past is done when the visit ends.
LEMMA LeaveKeeps == SearchInv /\ Leave => SearchInv'
<1> SUFFICES ASSUME SearchInv, Leave PROVE SearchInv'
  OBVIOUS
<1> DEFINE top == Last(stack)
<1>1. /\ verdict = "cycles" /\ stack # <<>> /\ next[top] > Len(Graph(top))
      /\ stack' = Front(stack) /\ visiting' = visiting \ {top} /\ visited' = visited \cup {top}
      /\ UNCHANGED <<cfg, verdict, roots, next>>
  BY DEF Leave
<1>2. /\ Names' = Names /\ (FieldsValid' <=> FieldsValid)
      /\ \A n : Graph(n)' = Graph(n)
      /\ \A S : Trap(S)' <=> Trap(S)
  BY <1>1, SameConfig
<1>3. TypeOK /\ Begun /\ OnPath /\ GonePast /\ DoneIsSound
  BY <1>1 DEF SearchInv
<1>4. /\ stack \in Seq(Str) /\ Len(stack) \in Nat \ {0} /\ DOMAIN stack = 1 .. Len(stack)
      /\ top = stack[Len(stack)] /\ top \in visiting /\ top \in Str
      /\ stack' \in Seq(Str) /\ Len(stack') = Len(stack) - 1
      /\ \A i \in 1 .. Len(stack) - 1 : stack'[i] = stack[i]
      /\ IsInjective(stack') /\ visiting' = Range(stack')
  <2>1. stack \in Seq(Str) /\ stack # <<>> /\ IsInjective(stack) /\ visiting = Range(stack)
    BY <1>1, <1>3 DEF TypeOK, OnPath
  <2>2. DOMAIN stack = 1 .. Len(stack) /\ top \in Str
    BY <2>1, FrontFacts
  <2> QED
    BY <1>1, <2>1, <2>2, FrontFacts
<1> HIDE DEF top
<1>5. Len(stack) \in Nat \ {0} /\ Len(stack') = Len(stack) - 1
  BY <1>4
<1>6. Range(Graph(top)) \subseteq visited
  <2>1. Graph(top) \in Seq(Str) /\ next[top] \in Nat
    BY <1>3, <1>4, GraphTypes DEF TypeOK
  <2>2. SUFFICES ASSUME NEW k \in 1 .. Len(Graph(top)) PROVE Graph(top)[k] \in visited
    BY <2>1 DEF Range
  <2>3. k \in 1 .. next[top] - 1 /\ k <= Len(Graph(top))
    <3>1. Len(Graph(top)) \in Nat
      BY <2>1
    <3> QED
      BY <1>1, <2>1, <3>1
  <2>4. Len(stack) \in 1 .. Len(stack) /\ ~(Len(stack) < Len(stack))
    BY <1>5
  <2> QED
    BY <1>3, <1>4, <2>3, <2>4 DEF GonePast
<1>7. TypeOK' /\ Begun'
  BY <1>1, <1>2, <1>3, <1>4 DEF TypeOK, Begun
<1>8. OnPath'
  <2>1. visited' \cap visiting' = {}
    BY <1>1, <1>3 DEF OnPath
  <2>2. ASSUME NEW i \in 1 .. Len(stack') - 1
        PROVE  Edge(stack'[i], stack'[i + 1])
    <3>1. i \in 1 .. Len(stack) - 1 /\ i + 1 \in 1 .. Len(stack) - 1
      BY <1>5
    <3> QED
      BY <1>3, <1>4, <3>1 DEF OnPath
  <2> QED
    BY <1>2, <1>4, <2>1, <2>2 DEF OnPath, Edge
<1>9. GonePast'
  <2>1. ASSUME NEW i \in 1 .. Len(stack'), NEW k \in 1 .. next[stack'[i]] - 1,
               k <= Len(Graph(stack'[i]))
        PROVE  \/ Graph(stack'[i])[k] \in visited'
               \/ i < Len(stack') /\ Graph(stack'[i])[k] = stack'[i + 1]
    <3>1. i \in 1 .. Len(stack) - 1 /\ i \in 1 .. Len(stack) /\ i + 1 \in 1 .. Len(stack)
      BY <1>5
    <3>2. stack'[i] = stack[i]
      BY <1>4, <3>1
    <3>3. \/ Graph(stack[i])[k] \in visited
          \/ Graph(stack[i])[k] = stack[i + 1]
      BY <1>3, <2>1, <3>1, <3>2 DEF GonePast
    <3>4. CASE i = Len(stack) - 1
      <4>1. stack[i + 1] = top
        BY <1>4, <1>5, <3>4
      <4> QED
        BY <1>1, <3>2, <3>3, <4>1
    <3>5. CASE i # Len(stack) - 1
      <4>1. i < Len(stack') /\ i + 1 \in 1 .. Len(stack) - 1
        BY <1>5, <3>1, <3>5
      <4> QED
        BY <1>1, <1>4, <3>2, <3>3, <4>1
    <3> QED
      BY <3>4, <3>5
  <2>2. /\ \A n \in Str : next'[n] # 0
        /\ \A n \in Str \ (visited' \cup visiting') : next'[n] = 1
    BY <1>1, <1>3 DEF GonePast
  <2> QED
    BY <1>1, <1>2, <2>1, <2>2 DEF GonePast
<1>10. DoneIsSound'
  <2>1. \A m \in visited' : Range(Graph(m)) \subseteq visited
    BY <1>1, <1>3, <1>6 DEF DoneIsSound
  <2>2. ASSUME NEW S \in SUBSET visited', Trap(S) PROVE FALSE
    <3> DEFINE R == S \cap visited
    <3>1. \A m \in S : \E n \in R : Edge(m, n)
      BY <2>1, <2>2 DEF Trap, Edge
    <3>2. Trap(R)
      BY <2>2, <3>1 DEF Trap
    <3> QED
      BY <1>3, <3>2 DEF DoneIsSound
  <2> QED
    BY <1>1, <1>2, <2>1, <2>2 DEF DoneIsSound
<1> QED
  BY <1>1, <1>7, <1>8, <1>9, <1>10 DEF SearchInv

LEMMA AcceptKeeps == SearchInv /\ Accept => SearchInv'
<1> SUFFICES ASSUME SearchInv, Accept PROVE SearchInv'
  OBVIOUS
<1>1. /\ verdict = "cycles" /\ stack = <<>> /\ roots = {} /\ verdict' = "accepted"
      /\ UNCHANGED <<cfg, roots, stack, next, visiting, visited>>
  BY DEF Accept
<1>2. OnPath' /\ GonePast' /\ DoneIsSound'
  BY <1>1, SameConfig DEF SearchInv, OnPath, GonePast, DoneIsSound
<1> QED
  BY <1>1, <1>2, SameConfig DEF SearchInv, TypeOK, Begun

LEMMA SearchUnchanged == SearchInv /\ UNCHANGED vars => SearchInv'
<1> SUFFICES ASSUME SearchInv, UNCHANGED vars PROVE SearchInv'
  OBVIOUS
<1>1. UNCHANGED <<cfg, verdict, roots, stack, next, visiting, visited>>
  BY DEF vars
<1>2. OnPath' = OnPath /\ GonePast' = GonePast /\ DoneIsSound' = DoneIsSound
  BY <1>1, SameConfig DEF OnPath, GonePast, DoneIsSound
<1> QED
  BY <1>1, <1>2, SameConfig DEF SearchInv, TypeOK, Begun

LEMMA SearchKeeps == SearchInv /\ [Step]_vars => SearchInv'
BY CheckFieldsKeeps, VisitRootKeeps, VisitNextKeeps, LeaveKeeps, AcceptKeeps, SearchUnchanged
   DEF Step

--------------------------------------------------------------------------------
(* The verdict *)

\* The search decides correctly.
LEMMA SearchDecides == SearchInv => VerdictIsRight
<1> SUFFICES ASSUME SearchInv, verdict = "accepted"
             PROVE  \A S \in SUBSET Names : ~Trap(S)
  BY DEF SearchInv, VerdictIsRight
<1>1. Names \subseteq visited
  BY DEF SearchInv, TypeOK, Begun, Range
<1> QED
  BY <1>1 DEF SearchInv, DoneIsSound

\* Without blanks, a job is the only one of its name, and its follow-ups are the edges
\* of the graph.
LEMMA PlainGraph ==
  ASSUME cfg.jobs \in Seq(JobConfig), NamesValid, ~Padded, NEW j \in Jobs
  PROVE  /\ j.name \in Names /\ TrimSpace(j.name) = j.name
         /\ Graph(j.name) = j.runAfterSuccess
<1>1. TrimSpace(j.name) = j.name
  BY JobTypes DEF Padded, TrimSpace, Str
<1>2. j.name \in Names
  BY <1>1 DEF Names
<1> DEFINE found == CHOOSE k \in Jobs : TrimSpace(k.name) = j.name
<1>3. found \in Jobs /\ TrimSpace(found.name) = TrimSpace(j.name)
  BY <1>1
<1>4. found = j
  BY <1>3 DEF NamesValid, Jobs, Range
<1> QED
  BY <1>1, <1>2, <1>4 DEF Graph

LEMMA FollowUpsDoEnd == SearchInv => FollowUpsEnd
<1> SUFFICES ASSUME SearchInv, verdict = "accepted", ~Padded
             PROVE  /\ \A j \in Jobs : \A n \in Range(j.runAfterSuccess) : \E k \in Jobs : k.name = n
                    /\ \A S \in SUBSET Jobs : S # {} => \E j \in S : \A k \in S : ~Follows(j, k)
  BY DEF FollowUpsEnd
<1>1. cfg.jobs \in Seq(JobConfig) /\ FieldsValid /\ VerdictIsRight
  BY SearchDecides DEF SearchInv, TypeOK, Begun
<1>2. \A j \in Jobs : /\ j.name \in Names /\ TrimSpace(j.name) = j.name
                      /\ Graph(j.name) = j.runAfterSuccess
  BY <1>1, PlainGraph DEF FieldsValid
<1>3. ASSUME NEW j \in Jobs, NEW n \in Range(j.runAfterSuccess)
      PROVE  \E k \in Jobs : k.name = n
  <2>1. j.runAfterSuccess \in Seq(Str) /\ FollowUpsValid(j)
    BY <1>1, JobTypes DEF FieldsValid, JobValid
  <2>2. n \in Str /\ ~n.padded
    BY <1>3, <2>1 DEF Range, Padded
  <2>3. TrimSpace(n) = n
    BY <2>2 DEF TrimSpace, Str
  <2>4. n \in Names
    BY <1>3, <2>1, <2>3 DEF FollowUpsValid, Range
  <2> QED
    BY <1>2, <2>4 DEF Names
<1>4. ASSUME NEW S \in SUBSET Jobs, S # {}, \A j \in S : \E k \in S : Follows(j, k)
      PROVE  FALSE
  <2> DEFINE N == {j.name : j \in S}
  <2>1. N \in SUBSET Names /\ N # {}
    BY <1>2, <1>4
  <2>2. ASSUME NEW m \in N PROVE \E n \in N : Edge(m, n)
    <3>1. PICK j \in S : m = j.name
      OBVIOUS
    <3>2. PICK k \in S : Follows(j, k)
      BY <1>4
    <3>3. k.name \in N /\ Edge(m, k.name)
      BY <1>2, <3>1, <3>2 DEF Follows, Edge
    <3> QED
      BY <3>3
  <2>3. Trap(N)
    BY <2>1, <2>2 DEF Trap
  <2> QED
    BY <1>1, <2>1, <2>3 DEF VerdictIsRight
<1> QED
  BY <1>3, <1>4

--------------------------------------------------------------------------------
(* The commands *)

\* Every step but LoadAgain leaves the search alone or takes one step of it.
LEMMA SearchInvKeeps == SearchInv /\ [CommandNext]_allVars => SearchInv'
<1> SUFFICES ASSUME SearchInv, [CommandNext]_allVars PROVE SearchInv'
  OBVIOUS
<1>1. CASE LoadAgain
  <2>1. /\ cfg' \in Config /\ verdict' = "fields" /\ roots' = {} /\ stack' = <<>>
        /\ next' = [n \in Str |-> 1] /\ visiting' = {} /\ visited' = {}
    BY <1>1, ReloadsAssumption DEF LoadAgain, ReloadsAssumption
  <2>2. cfg'.jobs \in Seq(JobConfig)
    BY <2>1, ConfigAssumption DEF ConfigAssumption
  <2>3. stack' \in Seq(Str) /\ Range(stack') = {} /\ Len(stack') = 0
    BY <2>1 DEF Range
  <2>4. TypeOK' /\ Begun'
    BY <2>1, <2>2, <2>3 DEF TypeOK, Begun
  <2>5. OnPath' /\ GonePast' /\ DoneIsSound'
    BY <2>1, <2>3 DEF OnPath, IsInjective, GonePast, DoneIsSound, Trap
  <2> QED
    BY <2>1, <2>4, <2>5 DEF SearchInv
<1>2. CASE [Step]_vars
  BY <1>2, SearchKeeps
<1>3. LoadAgain \/ [Step]_vars
  BY DEF CommandNext, Validate, SwitchEngines, AdoptJobs, Rollback, EditSkills, Run, Fire, RunOnly,
         buildCommand, ValidateSkill, LogPath, CreateLog, StartCommand, allVars, vars
<1> QED
  BY <1>1, <1>2, <1>3

\* What an accepted config hands over.
LEMMA ResolvedFits ==
  ASSUME SearchInv, verdict = "accepted"
  PROVE  LET c == resolveRelativePaths(cfg) IN
         /\ EnginesFit(c.engines)
         /\ c.jobs \in Seq(JobConfig) /\ \A i \in DOMAIN c.jobs : JobFits(c.jobs[i], c.engines)
<1> DEFINE es == [e \in DOMAIN cfg.engines |->
                    [cfg.engines[e] EXCEPT !.skillsDir = TrimSpace(@)]]
           js == [i \in DOMAIN cfg.jobs |-> [cfg.jobs[i] EXCEPT !.workdir = TrimSpace(@)]]
<1>1. cfg \in Config /\ FieldsValid
  BY DEF SearchInv, Begun
<1>2. /\ cfg.jobs \in Seq(JobConfig)
      /\ cfg.engines \in [DOMAIN cfg.engines -> EngineConfig]
  BY <1>1, ConfigTypes
<1>3. \A s \in Str : TrimSpace(s) \in Str /\ ~TrimSpace(s).padded
  BY DEF TrimSpace, Str
<1>4. ASSUME NEW e \in DOMAIN cfg.engines
      PROVE  es[e] \in EngineConfig /\ es[e].kind = cfg.engines[e].kind
  <2>1. cfg.engines[e] \in EngineConfig /\ TrimSpace(cfg.engines[e].skillsDir) \in Str
    BY <1>2, <1>3 DEF EngineConfig
  <2> QED
    BY <2>1 DEF EngineConfig
<1>5. EnginesFit(es)
  BY <1>1, <1>4 DEF EnginesFit, FieldsValid, EnginesValid, EngineValid
<1>6. ASSUME NEW i \in DOMAIN cfg.jobs
      PROVE  js[i] \in JobConfig /\ JobFits(js[i], es)
  <2> DEFINE j == cfg.jobs[i]
             dir == TrimSpace(j.workdir)
  <2>1. j \in JobConfig /\ j.workdir \in Str /\ j \in Jobs
    <3>1. j \in JobConfig /\ j \in Jobs
      BY <1>2 DEF Jobs, Range
    <3> QED
      BY <3>1 DEF JobConfig
  <2>2. dir \in Str /\ ~dir.padded
    BY <1>3, <2>1
  <2>3. ActionValid(j)
    BY <1>1, <2>1 DEF FieldsValid, JobValid
  <2>4. js[i] = [j EXCEPT !.workdir = dir]
    OBVIOUS
  <2> HIDE DEF js, j, dir
  <2>5. /\ js[i] \in JobConfig /\ js[i].workdir = dir /\ js[i].type = j.type
        /\ js[i].command = j.command /\ js[i].engine = j.engine
    BY <2>1, <2>2, <2>4 DEF JobConfig
  <2> QED
    BY <2>2, <2>3, <2>5 DEF JobFits, ActionValid
<1>7. js \in Seq(JobConfig) /\ DOMAIN js = DOMAIN cfg.jobs
  <2>1. DOMAIN cfg.jobs = 1 .. Len(cfg.jobs) /\ Len(cfg.jobs) \in Nat
    BY <1>2
  <2>2. js \in [1 .. Len(cfg.jobs) -> JobConfig]
    BY <1>6, <2>1
  <2> QED
    BY <2>1, <2>2, SeqDef
<1>8. resolveRelativePaths(cfg).engines = es /\ resolveRelativePaths(cfg).jobs = js
  BY DEF resolveRelativePaths
<1> HIDE DEF es, js
<1> QED
  BY <1>5, <1>6, <1>7, <1>8

LEMMA CommandsBegin == CommandInit => CommandInv
<1> SUFFICES ASSUME CommandInit PROVE CommandInv
  OBVIOUS
<1>1. SearchInv
  BY SearchBegins DEF CommandInit
<1>2. JobsFit
  <2>1. EnginesFit(NoEngines)
    BY DEF EnginesFit, NoEngines
  <2>2. \A j \in JobConfig : j.skill \in Str
    BY DEF JobConfig
  <2>3. skills \subseteq Str
    BY <1>1, <2>2, JobTypes DEF CommandInit, SearchInv, TypeOK
  <2>4. jobs = <<>> /\ jobs \in Seq(JobConfig) /\ DOMAIN jobs = {}
    BY DEF CommandInit
  <2> QED
    BY <2>1, <2>3, <2>4 DEF CommandInit, JobsFit
<1>3. RunIsRecord /\ RunIsInformed /\ AcceptedJobsStart
  BY DEF CommandInit, idle, RunIsRecord, RunIsInformed, NotRunning, AcceptedJobsStart
<1> QED
  BY <1>1, <1>2, <1>3 DEF CommandInv

LEMMA JobsFitKeeps == SearchInv /\ JobsFit /\ [CommandNext]_allVars => JobsFit'
<1> SUFFICES ASSUME SearchInv, JobsFit, [CommandNext]_allVars PROVE JobsFit'
  OBVIOUS
<1> USE DEF JobsFit
<1>1. CASE Validate
  <2>1. UNCHANGED <<engines, jobs, current, skills, reload>> /\ verdict # "accepted"
    BY <1>1 DEF Validate, jobVars, Step, CheckFields, VisitRoot, VisitNext, Leave, Accept
  <2> QED
    BY <2>1
<1>2. CASE SwitchEngines
  BY <1>2, ResolvedFits DEF SwitchEngines, vars
<1>3. CASE AdoptJobs
  BY <1>3, ResolvedFits DEF AdoptJobs, vars
<1>4. CASE Rollback
  BY <1>4 DEF Rollback, vars
<1>5. CASE LoadAgain
  <2>1. reload # "adopting"
    BY <1>5 DEF LoadAgain
  <2> QED
    BY <1>5, <2>1 DEF LoadAgain
<1>6. CASE EditSkills
  <2>1. \A j \in Range(jobs) : j.skill \in Str
    BY DEF Range, JobFits, JobConfig
  <2>2. skills' \subseteq Str
    BY <1>6, <2>1 DEF EditSkills
  <2> QED
    BY <1>6, <2>2 DEF EditSkills, vars
<1>7. CASE Run \/ UNCHANGED allVars
  <2>1. UNCHANGED <<vars, engines, jobs, current, skills, reload>>
    BY <1>7 DEF Run, Fire, RunOnly, buildCommand, ValidateSkill, LogPath, CreateLog, StartCommand,
             allVars, jobVars
  <2> QED
    BY <2>1 DEF vars
<1> QED
  BY <1>1, <1>2, <1>3, <1>4, <1>5, <1>6, <1>7 DEF CommandNext

\* What the operators on run do to it.
LEMMA RunEffects ==
  ASSUME RunIsRecord, ~NotRunning
  PROVE  /\ \A why : Refuse(why) =>
              /\ run' = [f \in RunFields |-> run'[f]]
              /\ run'.pc = "refused" /\ run'.why = why
              /\ \A f \in RunFields \ {"pc", "why"} : run'[f] = run[f]
         /\ \A pc : Proceed(pc) =>
              /\ run' = [f \in RunFields |-> run'[f]]
              /\ run'.pc = pc
              /\ \A f \in RunFields \ {"pc"} : run'[f] = run[f]
         /\ \A p : Program(p) =>
              /\ run' = [f \in RunFields |-> run'[f]]
              /\ run'.pc = "validating"
              /\ \A f \in RunFields \ {"pc", "program"} : run'[f] = run[f]
BY DEF RunIsRecord, RunFields, NotRunning, Refuse, Proceed, Program

\* The steps of Run after Fire.
RunGoesOn == buildCommand \/ ValidateSkill \/ LogPath \/ CreateLog \/ StartCommand

\* Each of them goes on to the next one, or refuses the job for a reason.
LEMMA RunSteps ==
  ASSUME RunIsRecord, RunIsInformed, JobsFit, RunGoesOn
  PROVE  /\ ~NotRunning
         /\ RunOnly
         /\ \/ \E p : Program(p)
            \/ \E pc \in {"naming", "creating", "starting", "started"} : Proceed(pc)
            \/ Refuse("engine") /\ run.moved
            \/ Refuse("skill") /\ run.missing
            \/ Refuse("name") /\ run.job.name.text \notin FileNames
            \/ Refuse("program") /\ run.program.text \notin Programs
            \/ Refuse("workdir") /\ run.job.workdir.text \notin Dirs
            \/ Refuse("padded kind") \/ Refuse("padded cli") \/ Refuse("log") \/ Refuse("system")
<1> USE DEF RunIsRecord
<1>1. CASE buildCommand
  <2>1. ~NotRunning /\ RunOnly /\ JobFits(run.job, run.home)
    BY <1>1 DEF buildCommand, NotRunning, RunIsInformed
  <2>2. CASE run.job.type = "script"
    BY <1>1, <2>1, <2>2 DEF buildCommand, JobFits
  <2>3. CASE run.job.type = "skill" /\ run.job.engine \notin DOMAIN engines
    BY <1>1, <2>1, <2>3 DEF buildCommand, JobFits, RunIsInformed
  <2>4. CASE run.job.type = "skill" /\ run.job.engine \in DOMAIN engines
    <3> DEFINE engine == engines[run.job.engine]
    <3>1. engine.kind \in Str /\ engine.kind.text \in {"claude", "codex"}
      BY <2>4 DEF JobsFit, EnginesFit, EngineConfig
    <3>2. engine.kind \in {Is("claude"), Is("codex")} \/ engine.kind.padded
      BY <3>1 DEF Is, Str
    <3>3. buildSkillCommand(run.job, engine)
      BY <1>1, <2>4 DEF buildCommand
    <3> HIDE DEF engine
    <3>4. Is("claude") # Is("codex")
      BY DEF Is
    <3>5. CASE engine.kind = Is("claude")
      BY <2>1, <3>3, <3>4, <3>5 DEF buildSkillCommand
    <3>6. CASE engine.kind = Is("codex")
      BY <2>1, <3>3, <3>4, <3>6 DEF buildSkillCommand, RunIsInformed
    <3>7. CASE engine.kind \notin {Is("claude"), Is("codex")}
      BY <2>1, <3>2, <3>3, <3>7 DEF buildSkillCommand
    <3> QED
      BY <3>5, <3>6, <3>7
  <2> QED
    BY <2>1, <2>2, <2>3, <2>4 DEF JobFits
<1>2. CASE ValidateSkill
  BY <1>2 DEF ValidateSkill, NotRunning, RunIsInformed
<1>3. CASE LogPath
  BY <1>3 DEF LogPath, NotRunning
<1>4. CASE CreateLog
  BY <1>4 DEF CreateLog, NotRunning
<1>5. CASE StartCommand
  BY <1>5 DEF StartCommand, NotRunning, RunIsInformed, JobFits
<1> QED
  BY <1>1, <1>2, <1>3, <1>4, <1>5 DEF RunGoesOn

LEMMA RunKeeps ==
  CommandInv /\ [CommandNext]_allVars => RunIsRecord' /\ RunIsInformed' /\ AcceptedJobsStart'
<1> SUFFICES ASSUME CommandInv, [CommandNext]_allVars
             PROVE  RunIsRecord' /\ RunIsInformed' /\ AcceptedJobsStart'
  OBVIOUS
<1> USE DEF CommandInv, RunFields
<1>1. CASE RunGoesOn
  <2>1. ~NotRunning /\ RunOnly
    BY <1>1, RunSteps
  <2>2. UNCHANGED <<engines, skills>>
    BY <2>1 DEF RunOnly
  <2>3. CASE \E p : Program(p)
    <3>1. /\ run' = [f \in RunFields |-> run'[f]] /\ run'.pc = "validating"
          /\ run'.job = run.job /\ run'.home = run.home
          /\ run'.moved = run.moved /\ run'.missing = run.missing
      BY <2>1, <2>3, RunEffects
    <3> QED
      BY <2>1, <2>2, <3>1 DEF RunIsRecord, RunIsInformed, NotRunning, AcceptedJobsStart
  <2>4. CASE \E pc \in {"naming", "creating", "starting", "started"} : Proceed(pc)
    <3>1. /\ run' = [f \in RunFields |-> run'[f]] /\ run'.pc \in {"naming", "creating", "starting", "started"}
          /\ run'.job = run.job /\ run'.home = run.home
          /\ run'.moved = run.moved /\ run'.missing = run.missing
      BY <2>1, <2>4, RunEffects
    <3> QED
      BY <2>1, <2>2, <3>1 DEF RunIsRecord, RunIsInformed, NotRunning, AcceptedJobsStart
  <2>5. ASSUME NEW why, Refuse(why),
               \/ why = "engine" /\ run.moved
               \/ why = "skill" /\ run.missing
               \/ why = "name" /\ run.job.name.text \notin FileNames
               \/ why = "program" /\ run.program.text \notin Programs
               \/ why = "workdir" /\ run.job.workdir.text \notin Dirs
               \/ why \in {"padded kind", "padded cli", "log", "system"}
        PROVE  RunIsRecord' /\ RunIsInformed' /\ AcceptedJobsStart'
    <3>1. /\ run' = [f \in RunFields |-> run'[f]] /\ run'.pc = "refused" /\ run'.why = why
          /\ run'.job = run.job /\ run'.home = run.home /\ run'.program = run.program
          /\ run'.moved = run.moved /\ run'.missing = run.missing
      BY <2>1, <2>5, RunEffects
    <3> QED
      BY <2>1, <2>5, <3>1 DEF RunIsRecord, RunIsInformed, NotRunning, AcceptedJobsStart
  <2> QED
    BY <1>1, <2>3, <2>4, <2>5, RunSteps
<1>2. CASE \E i \in DOMAIN jobs : Fire(jobs[i])
  <2>1. PICK i \in DOMAIN jobs : Fire(jobs[i])
    BY <1>2
  <2> DEFINE j == jobs[i]
  <2>2. JobFits(j, current) /\ j \in JobConfig
    BY DEF JobsFit, JobFits
  <2> HIDE DEF j
  <2>3. /\ run' = [f \in RunFields |-> run'[f]]
        /\ run'.pc = "building" /\ run'.job = j /\ run'.home = current
        /\ run'.moved = (engines # current) /\ run'.missing = (j.skill \notin skills)
        /\ UNCHANGED <<engines, skills>>
    BY <2>1 DEF Fire, RunOnly, j
  <2> QED
    BY <2>2, <2>3 DEF RunIsRecord, RunIsInformed, NotRunning, AcceptedJobsStart
<1>3. CASE (SwitchEngines \/ Rollback \/ EditSkills) /\ NotRunning
  <2>1. run' = run
    BY <1>3 DEF SwitchEngines, Rollback, EditSkills, Moved
  <2> QED
    BY <1>3, <2>1 DEF RunIsRecord, RunIsInformed, NotRunning, AcceptedJobsStart
<1>4. CASE (SwitchEngines \/ Rollback) /\ ~NotRunning
  <2>1. /\ run' = [run EXCEPT !.moved = run.moved \/ engines' # run.home]
        /\ skills' = skills
    BY <1>4 DEF SwitchEngines, Rollback, Moved
  <2> DEFINE moved == run.moved \/ engines' # run.home
  <2>2. moved \in BOOLEAN /\ (moved \/ engines' = run.home)
    OBVIOUS
  <2>3. run' = [run EXCEPT !.moved = moved]
    BY <2>1
  <2> HIDE DEF moved
  <2>4. /\ run' = [f \in RunFields |-> run'[f]] /\ run'.pc = run.pc
        /\ run'.job = run.job /\ run'.home = run.home
        /\ run'.moved = moved /\ run'.missing = run.missing
    BY <1>4, <2>3 DEF RunIsRecord, NotRunning
  <2> QED
    BY <1>4, <2>1, <2>2, <2>4 DEF RunIsRecord, RunIsInformed, NotRunning, AcceptedJobsStart
<1>5. CASE EditSkills /\ ~NotRunning
  <2>1. /\ run' = [run EXCEPT !.missing = run.missing \/ run.job.skill \notin skills']
        /\ engines' = engines
    BY <1>5 DEF EditSkills
  <2> DEFINE missing == run.missing \/ run.job.skill \notin skills'
  <2>2. missing \in BOOLEAN /\ (missing \/ run.job.skill \in skills')
    OBVIOUS
  <2>3. run' = [run EXCEPT !.missing = missing]
    BY <2>1
  <2> HIDE DEF missing
  <2>4. /\ run' = [f \in RunFields |-> run'[f]] /\ run'.pc = run.pc
        /\ run'.job = run.job /\ run'.home = run.home
        /\ run'.moved = run.moved /\ run'.missing = missing
    BY <1>5, <2>3 DEF RunIsRecord, NotRunning
  <2> QED
    BY <1>5, <2>1, <2>2, <2>4 DEF RunIsRecord, RunIsInformed, NotRunning, AcceptedJobsStart
<1>6. CASE Validate \/ AdoptJobs \/ LoadAgain \/ UNCHANGED allVars
  <2>1. UNCHANGED <<engines, skills, run>>
    BY <1>6 DEF Validate, AdoptJobs, LoadAgain, allVars, jobVars
  <2> QED
    BY <2>1 DEF RunIsRecord, RunIsInformed, NotRunning, AcceptedJobsStart
<1> QED
  BY <1>1, <1>2, <1>3, <1>4, <1>5, <1>6 DEF CommandNext, Run, RunGoesOn

\* CommandInv, the strengthening of the properties below that says how far the search is
\* and what the lists and the run have in common, holds all the time.
THEOREM CommandInvariant == CommandSpec => []CommandInv
<1>1. CommandInit => CommandInv
  BY CommandsBegin
<1>2. CommandInv /\ [CommandNext]_allVars => CommandInv'
  BY SearchInvKeeps, JobsFitKeeps, RunKeeps DEF CommandInv
<1> QED
  BY <1>1, <1>2, PTL DEF CommandSpec

\* The variables of the search, of a reload and of a run keep their types
\* (config.go:118-253, runner.go:71-113).
THEOREM CommandTypeCorrect == CommandSpec => []CommandTypeOK
<1>1. CommandInv => CommandTypeOK
  BY DEF CommandInv, SearchInv, JobsFit, RunIsRecord, CommandTypeOK
<1> QED
  BY <1>1, CommandInvariant, PTL

\* For any config, in whatever order the search visits the names: it is refused for a
\* cycle if and only if there is one (config.go:216-252).
THEOREM VerdictCorrect == CommandSpec => []VerdictIsRight
<1>1. CommandInv => VerdictIsRight
  BY SearchDecides DEF CommandInv
<1> QED
  BY <1>1, CommandInvariant, PTL

\* The follow-ups of any accepted config without blanks in its names are jobs of the
\* config, and come to an end (config.go:191-252).
THEOREM FollowUpsTerminate == CommandSpec => []FollowUpsEnd
<1>1. CommandInv => FollowUpsEnd
  BY FollowUpsDoEnd DEF CommandInv
<1> QED
  BY <1>1, CommandInvariant, PTL

\* For any configs and any reloads: an accepted job is refused for no other reasons than
\* those of AcceptedJobsStart (config.go:118-209, runner.go:71-126).
THEOREM AcceptedJobsDoStart == CommandSpec => []AcceptedJobsStart
<1>1. CommandInv => AcceptedJobsStart
  BY DEF CommandInv
<1> QED
  BY <1>1, CommandInvariant, PTL

\* The search alone decides as correctly as with the reloads around it
\* (config.go:118-253).
THEOREM SearchCorrect == Spec => [](VerdictIsRight /\ FollowUpsEnd)
<1>1. SearchInv => VerdictIsRight /\ FollowUpsEnd
  BY SearchDecides, FollowUpsDoEnd
<1> QED
  BY <1>1, SearchBegins, SearchKeeps, PTL DEF Spec
================================================================================
