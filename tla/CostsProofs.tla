------------------------------- MODULE CostsProofs -------------------------------
(***************************************************************************)
(* Theorems about Costs, for any jobs, files, prices and scopes.           *)
(***************************************************************************)
EXTENDS Costs, SequenceTheorems, FiniteSetTheorems, WellFoundedInduction, TLAPS

--------------------------------------------------------------------------------
(* Sums.  There is no induction over data to be had but from the fact that every set   *)
(* of naturals has a least element; from it, what SumFunction computes.                 *)

\* Induction over the naturals, as the existence of a least one.
LEMMA LeastNat ==
  ASSUME NEW T \in SUBSET Nat, T # {}
  PROVE  \E n \in T : \A m \in T : ~(m < n)
<1>1. IsWellFoundedOn(OpToRel(<,Nat), Nat)
  BY NatLessThanWellFounded
<1>2. \E n \in T : \A m \in T : ~(<<m, n>> \in OpToRel(<,Nat))
  BY <1>1, WFMin
<1> QED
  BY <1>2 DEF OpToRel

\* The function that SumFunctionOnSet computes: the sums over the subsets of S.
Pick(s) == CHOOSE x \in s : TRUE
Step(it, f, s) == IF s = {} THEN 0 ELSE f[Pick(s)] + it[s \ {Pick(s)}]
IsSum(it, f, S) == it = [s \in SUBSET S |-> Step(it, f, s)]

LEMMA SumUnfolds ==
  ASSUME NEW f, NEW S
  PROVE  SumFunctionOnSet(f, S) = (CHOOSE it : IsSum(it, f, S))[S]
BY DEF SumFunctionOnSet, FoldFunctionOnSet, MapThenFoldSet, IsSum, Step, Pick

LEMMA PickIn == ASSUME NEW s, s # {} PROVE Pick(s) \in s
BY DEF Pick

\* Without its pick a finite set is smaller.
LEMMA PickSmaller ==
  ASSUME NEW S, IsFiniteSet(S), NEW s \in SUBSET S, NEW x \in s
  PROVE  /\ IsFiniteSet(s) /\ Cardinality(s) \in Nat
         /\ s \ {x} \in SUBSET S /\ Cardinality(s \ {x}) = Cardinality(s) - 1
         /\ Cardinality(s \ {x}) \in Nat
<1>1. IsFiniteSet(s)
  BY FS_Subset
<1>2. IsFiniteSet(s \ {x}) /\ Cardinality(s \ {x}) = Cardinality(s) - 1
  BY <1>1, FS_RemoveElement
<1> QED
  BY <1>1, <1>2, FS_CardinalityType

LEMMA SumExists ==
  ASSUME NEW S, IsFiniteSet(S), NEW f, \A x \in S : f[x] \in Nat
  PROVE  \E it \in [SUBSET S -> Nat] : IsSum(it, f, S)
<1> DEFINE Fits(it, n) ==
      \A s \in SUBSET S : Cardinality(s) <= n => it[s] = Step(it, f, s)
    Bad == {n \in Nat : ~ \E it \in [SUBSET S -> Nat] : Fits(it, n)}
<1>1. \A s \in SUBSET S : Cardinality(s) \in Nat /\ Cardinality(s) <= Cardinality(S)
  BY FS_Subset, FS_CardinalityType
<1>2. Bad = {}
  <2> SUFFICES ASSUME Bad # {} PROVE FALSE
    OBVIOUS
  <2>1. PICK n \in Bad : \A m \in Bad : ~(m < n)
    <3> Bad \in SUBSET Nat
      OBVIOUS
    <3> HIDE DEF Bad
    <3> QED
      BY LeastNat
  <2>2. CASE n = 0
    <3> DEFINE it == [s \in SUBSET S |-> 0]
    <3>1. \A s \in SUBSET S : Cardinality(s) <= 0 => s = {}
      BY <1>1, FS_Subset, FS_EmptySet
    <3>2. it \in [SUBSET S -> Nat] /\ Fits(it, 0)
      BY <3>1 DEF Step
    <3> QED
      BY <2>1, <2>2, <3>2
  <2>3. CASE n # 0
    <3>1. n \in Nat /\ n - 1 \in Nat /\ n - 1 < n
      BY <2>1, <2>3
    <3>2. PICK it \in [SUBSET S -> Nat] : Fits(it, n - 1)
      BY <2>1, <3>1
    <3> DEFINE next == [s \in SUBSET S |-> Step(it, f, s)]
    <3> HIDE DEF Bad
    <3>3. \A s \in SUBSET S : Step(it, f, s) \in Nat
      <4> SUFFICES ASSUME NEW s \in SUBSET S, s # {} PROVE Step(it, f, s) \in Nat
        BY DEF Step
      <4>1. Pick(s) \in S /\ s \ {Pick(s)} \in SUBSET S
        BY PickIn
      <4>2. f[Pick(s)] \in Nat /\ it[s \ {Pick(s)}] \in Nat
        BY <4>1
      <4> QED
        BY <4>2 DEF Step
    <3>4. ASSUME NEW s \in SUBSET S, Cardinality(s) <= n
          PROVE  next[s] = Step(next, f, s)
      <4>1. CASE s = {}
        BY <4>1 DEF Step
      <4>2. CASE s # {}
        <5>1. Pick(s) \in s
          BY <4>2, PickIn
        <5> DEFINE r == s \ {Pick(s)}
        <5>2. r \in SUBSET S /\ Cardinality(r) <= n - 1
          BY <3>1, <3>4, <5>1, <1>1, PickSmaller
        <5>3. it[r] = Step(it, f, r)
          BY <3>2, <5>2
        <5>4. next[r] = it[r]
          BY <5>2, <5>3
        <5> QED
          BY <4>2, <5>4 DEF Step
      <4> QED
        BY <4>1, <4>2
    <3>5. next \in [SUBSET S -> Nat]
      BY <3>3
    <3>6. n \notin Bad
      BY <3>1, <3>4, <3>5 DEF Bad
    <3> QED
      BY <2>1, <3>6
  <2> QED
    BY <2>2, <2>3
<1>3. Cardinality(S) \in Nat
  BY FS_CardinalityType
<1>4. PICK it \in [SUBSET S -> Nat] : Fits(it, Cardinality(S))
  BY <1>2, <1>3
<1>5. \A s \in SUBSET S : it[s] = Step(it, f, s)
  BY <1>1, <1>4
<1>6. it = [s \in SUBSET S |-> it[s]]
  OBVIOUS
<1>7. it = [s \in SUBSET S |-> Step(it, f, s)]
  BY <1>5, <1>6
<1> QED
  BY <1>7 DEF IsSum

LEMMA SumUnique ==
  ASSUME NEW S, IsFiniteSet(S), NEW T, NEW f, NEW g, NEW a, NEW b,
         IsSum(a, f, S), IsSum(b, g, T),
         NEW U \in SUBSET (S \cap T), \A x \in U : f[x] = g[x]
  PROVE  a[U] = b[U]
<1> DEFINE Bad == {n \in Nat : \E s \in SUBSET U : Cardinality(s) = n /\ a[s] # b[s]}
<1>0. IsFiniteSet(U) /\ U \subseteq S /\ U \subseteq T
  BY FS_Subset
<1>1. Bad = {}
  <2> SUFFICES ASSUME Bad # {} PROVE FALSE
    OBVIOUS
  <2>1. PICK n \in Bad : \A m \in Bad : ~(m < n)
    <3> Bad \in SUBSET Nat
      OBVIOUS
    <3> HIDE DEF Bad
    <3> QED
      BY LeastNat
  <2>2. PICK s \in SUBSET U : Cardinality(s) = n /\ a[s] # b[s]
    BY <2>1
  <2>3. a[s] = Step(a, f, s) /\ b[s] = Step(b, g, s)
    BY <1>0 DEF IsSum
  <2>4. s # {}
    BY <2>2, <2>3 DEF Step
  <2>5. Pick(s) \in s
    BY <2>4, PickIn
  <2> DEFINE r == s \ {Pick(s)}
  <2>6. r \in SUBSET U /\ Cardinality(r) \in Nat /\ Cardinality(r) = n - 1 /\ n \in Nat
    BY <1>0, <2>2, <2>5, PickSmaller
  <2>7. Cardinality(r) \notin Bad
    <3> HIDE DEF Bad, r
    <3> QED
      BY <2>1, <2>6
  <2>8. a[r] = b[r]
    BY <2>6, <2>7
  <2> QED
    BY <2>2, <2>3, <2>4, <2>5, <2>8 DEF Step
<1>2. Cardinality(U) \in Nat
  BY <1>0, FS_CardinalityType
<1> QED
  BY <1>1, <1>2

Sums(it, f, S) == \A s \in SUBSET S : SumFunctionOnSet(f, s) = it[s]

LEMMA SumIs ==
  ASSUME NEW S, IsFiniteSet(S), NEW f, \A x \in S : f[x] \in Nat
  PROVE  \E it \in [SUBSET S -> Nat] : IsSum(it, f, S) /\ Sums(it, f, S)
<1>1. PICK it \in [SUBSET S -> Nat] : IsSum(it, f, S)
  BY SumExists
<1>2. ASSUME NEW s \in SUBSET S PROVE SumFunctionOnSet(f, s) = it[s]
  <2>1. IsFiniteSet(s) /\ \A x \in s : f[x] \in Nat
    BY <1>2, FS_Subset
  <2>2. \E j : IsSum(j, f, s)
    BY <2>1, SumExists
  <2> DEFINE i == CHOOSE j : IsSum(j, f, s)
  <2>3. IsSum(i, f, s)
    BY <2>2
  <2> HIDE DEF i
  <2>4. i[s] = it[s]
    BY <1>1, <2>1, <2>3, SumUnique
  <2> QED
    BY <2>4, SumUnfolds DEF i
<1> QED
  BY <1>1, <1>2 DEF Sums

LEMMA SumType ==
  ASSUME NEW S, IsFiniteSet(S), NEW f, \A x \in S : f[x] \in Nat
  PROVE  SumFunctionOnSet(f, S) \in Nat
<1>1. PICK it \in [SUBSET S -> Nat] : IsSum(it, f, S) /\ Sums(it, f, S)
  BY SumIs
<1> QED
  BY <1>1 DEF Sums

LEMMA SumEmpty == ASSUME NEW f PROVE SumFunctionOnSet(f, {}) = 0
<1>1. IsFiniteSet({}) /\ \A x \in {} : f[x] \in Nat
  BY FS_EmptySet
<1>2. PICK it \in [SUBSET {} -> Nat] : IsSum(it, f, {}) /\ Sums(it, f, {})
  BY <1>1, SumIs
<1> QED
  BY <1>2 DEF IsSum, Step, Sums

\* A sum does not depend on the order of its terms.
LEMMA SumSplits ==
  ASSUME NEW S, IsFiniteSet(S), NEW f, \A x \in S : f[x] \in Nat, NEW x \in S
  PROVE  SumFunctionOnSet(f, S) = f[x] + SumFunctionOnSet(f, S \ {x})
<1>1. PICK it \in [SUBSET S -> Nat] :
         IsSum(it, f, S) /\ Sums(it, f, S)
  BY SumIs
<1> DEFINE Wrong(s) == \E y \in s : it[s] # f[y] + it[s \ {y}]
    Bad == {n \in Nat : \E s \in SUBSET S : Cardinality(s) = n /\ Wrong(s)}
<1>2. Bad = {}
  <2> SUFFICES ASSUME Bad # {} PROVE FALSE
    OBVIOUS
  <2>1. PICK n \in Bad : \A m \in Bad : ~(m < n)
    <3> Bad \in SUBSET Nat
      OBVIOUS
    <3> HIDE DEF Bad
    <3> QED
      BY LeastNat
  <2>2. PICK s \in SUBSET S : Cardinality(s) = n /\ Wrong(s)
    BY <2>1
  <2>3. PICK y \in s : it[s] # f[y] + it[s \ {y}]
    BY <2>2
  <2> DEFINE p == Pick(s)
  <2>4. p \in s
    BY <2>3, PickIn
  <2>5. it[s] = f[p] + it[s \ {p}]
    BY <1>1, <2>4 DEF IsSum, Step
  <2> HIDE DEF p
  <2>6. p # y
    BY <2>3, <2>5
  <2>7. \A z \in s : /\ s \ {z} \in SUBSET S /\ Cardinality(s \ {z}) \in Nat
                     /\ Cardinality(s \ {z}) = n - 1 /\ n \in Nat
    BY <2>2, PickSmaller
  <2>8. \A z \in s : ~Wrong(s \ {z})
    <3> SUFFICES ASSUME NEW z \in s PROVE ~Wrong(s \ {z})
      OBVIOUS
    <3>1. Cardinality(s \ {z}) < n
      BY <2>7
    <3>2. Cardinality(s \ {z}) \notin Bad
      <4> HIDE DEF Bad
      <4> QED
        BY <2>1, <3>1
    <3> HIDE DEF Wrong
    <3> QED
      BY <2>7, <3>2
  <2>9. it[s \ {p}] = f[y] + it[(s \ {p}) \ {y}]
    BY <2>4, <2>6, <2>8
  <2>10. it[s \ {y}] = f[p] + it[(s \ {y}) \ {p}]
    BY <2>4, <2>6, <2>8
  <2>11. (s \ {y}) \ {p} = (s \ {p}) \ {y}
    OBVIOUS
  <2> DEFINE rest == it[(s \ {p}) \ {y}]
  <2>12. f[p] \in Nat /\ f[y] \in Nat /\ rest \in Nat
    BY <2>4
  <2>13. it[s] = f[p] + (f[y] + rest) /\ it[s \ {y}] = f[p] + rest
    BY <2>5, <2>9, <2>10, <2>11
  <2> HIDE DEF rest
  <2>14. it[s] = f[y] + it[s \ {y}]
    BY <2>12, <2>13
  <2> QED
    BY <2>3, <2>14
<1>3. Cardinality(S) \in Nat
  BY FS_CardinalityType
<1>4. it[S] = f[x] + it[S \ {x}]
  BY <1>2, <1>3
<1> QED
  BY <1>1, <1>4 DEF Sums

\* A sum depends on nothing but its terms.
LEMMA SumSame ==
  ASSUME NEW S, IsFiniteSet(S), NEW f, NEW g,
         \A x \in S : f[x] \in Nat /\ f[x] = g[x]
  PROVE  SumFunctionOnSet(f, S) = SumFunctionOnSet(g, S)
<1>1. PICK a \in [SUBSET S -> Nat] : IsSum(a, f, S) /\ Sums(a, f, S)
  BY SumIs
<1>2. \A x \in S : g[x] \in Nat
  OBVIOUS
<1>3. PICK b \in [SUBSET S -> Nat] : IsSum(b, g, S) /\ Sums(b, g, S)
  BY <1>2, SumIs
<1>4. a[S] = b[S]
  BY <1>1, <1>3, SumUnique
<1> QED
  BY <1>1, <1>3, <1>4 DEF Sums

\* What the terms sum up to is positive when one of them is.
LEMMA SumPositive ==
  ASSUME NEW S, IsFiniteSet(S), NEW f, \A x \in S : f[x] \in Nat, NEW x \in S, f[x] > 0
  PROVE  SumFunctionOnSet(f, S) > 0
<1>1. IsFiniteSet(S \ {x})
  BY FS_RemoveElement
<1>2. SumFunctionOnSet(f, S \ {x}) \in Nat
  BY <1>1, SumType
<1>3. SumFunctionOnSet(f, S) = f[x] + SumFunctionOnSet(f, S \ {x})
  BY SumSplits
<1> DEFINE r == SumFunctionOnSet(f, S \ {x})
<1> HIDE DEF r
<1>4. f[x] \in Nat /\ r \in Nat /\ SumFunctionOnSet(f, S) = f[x] + r
  BY <1>2, <1>3 DEF r
<1> QED
  BY <1>4

--------------------------------------------------------------------------------
(* The inductive invariant *)

\* A message that is charged, and the lines of each kind of file.
Charged == [kind : {"assistant"}, id : Ids, model : Models, stop : BOOLEAN, used : 1 .. 2]
UserLine == [kind : {"user"}, prompt : Prompts]
ClaudeLine ==
  UserLine \cup Charged
  \cup [kind : {"assistant"}, id : Ids, model : Models, stop : BOOLEAN, used : {0}] \cup {Huge}
CodexLine ==
  UserLine \cup [kind : {"meta"}, cwd : Workdirs, model : Models, at : 0 .. Days * DayLength]
  \cup [kind : {"count"}, total : Nat, last : 1 .. 2] \cup {Huge}
LinesFor(f) == IF f \in ClaudeFiles THEN ClaudeLine ELSE CodexLine

FilesTyped ==
  /\ scope \in Scopes /\ config \in Configs
  /\ clock \in 0 .. scope.days * DayLength /\ clock \in 0 .. Days * DayLength
  /\ gone \subseteq Files
  /\ lines \in [Files -> Seq(ClaudeLine \cup CodexLine)]
  /\ \A f \in Files : lines[f] \in Seq(LinesFor(f))
  /\ mtime \in [Files -> 0 .. NoTime]
  /\ \A f \in Files : mtime[f] = NoTime <=> lines[f] = <<>>
  /\ \A f \in Files : mtime[f] # NoTime => mtime[f] <= clock
  /\ \A f \in CodexFiles : \A i \in DOMAIN lines[f] : lines[f][i].kind = "meta" <=> i = 1

Names == {normalizeModel[m] : m \in Models} \cup {""}

\* What a parser may have found.
Acc ==
  [prompt : Prompts \cup {""}, model : Names,
   completed : [Ids -> Charged \cup {NoLine}], latest : [Ids -> Charged \cup {NoLine}],
   cwd : Workdirs \cup {""}, at : 0 .. NoTime, total : Nat, sum : Nat, hasTotal : BOOLEAN,
   requests : Nat]

RequestTyped ==
  /\ pc \in {"idle", "claude", "codex", "aggregate"} /\ date \in Date
  /\ todo \subseteq Workdirs /\ seen \subseteq {Slug[wd] : wd \in Workdirs}
  /\ entries \subseteq (IF pc = "codex" THEN CodexFiles ELSE ClaudeFiles)
  /\ visited \subseteq CodexFiles
  /\ reading \in Files \cup {""} /\ acc \in Acc /\ read \in Nat
  /\ sessions \in Seq(SessionType)
  /\ DOMAIN reports = Date
  /\ cfg \in Configs /\ due \subseteq Files /\ lost \subseteq Files

\* A file is read when its part of the scan is on, up to a line that is too long.
Placed ==
  /\ reading = "" => read = 0 /\ acc = NothingFound
  /\ reading \in ClaudeFiles => pc = "claude"
  /\ reading \in CodexFiles => pc = "codex"
  /\ reading # "" => /\ read \in 0 .. Len(lines[reading])
                     /\ \A i \in 1 .. read : lines[reading][i] # Huge
  /\ pc = "idle" => sessions = <<>>

\* A parser has seen what was used in the lines that it has read.
Understood ==
  /\ reading \in ClaudeFiles /\ (\E i \in 1 .. read : Charges(lines[reading][i])) =>
       \E id \in Ids : acc.latest[id] # NoLine
  /\ reading \in CodexFiles =>
       /\ acc.hasTotal => acc.total > 0
       /\ (\E i \in 1 .. read : Charges(lines[reading][i])) => acc.hasTotal \/ acc.sum > 0
       /\ read = 0 => acc.cwd = "" /\ acc.at = NoTime
       /\ read > 0 => acc.cwd = Cwd(reading) /\ acc.at = StartedAt(reading)

\* A file that has been taken up is not taken up again.
Taken(f) ==
  IF f \in ClaudeFiles THEN Dir[f] \in seen /\ ~(pc = "claude" /\ f \in entries)
  ELSE f \in visited

Once ==
  /\ reading # "" => Taken(reading)
  /\ pc = "claude" => \A f \in entries : Dir[f] \in seen
  /\ \A i \in DOMAIN sessions : Taken(sessions[i].file) /\ sessions[i].file # reading
  /\ \A i, j \in DOMAIN sessions : sessions[i].file = sessions[j].file => i = j

\* What belonged to the request when it began still has what made it belong, but may be
\* removed or written after the end of the day.
Wanted ==
  \A f \in due :
    /\ mtime[f] # NoTime /\ HasUsed(lines[f])
    /\ f \in ClaudeFiles =>
         /\ Midnight(date) <= mtime[f]
         /\ \E wd \in collectEngineWorkdirs(cfg, "claude") : Slug[wd] = Dir[f]
    /\ f \in CodexFiles => /\ InDay(StartedAt(f), date)
                           /\ Cwd(f) \in collectEngineWorkdirs(cfg, "codex")

Eligible(f) == f \notin gone /\ (f \in ClaudeFiles => mtime[f] <= Midnight(date) + DayLength)
Listed(f) == \E i \in DOMAIN sessions : sessions[i].file = f
Ahead(f) ==
  \/ f \in ClaudeFiles /\ pc = "claude"
     /\ (f \in entries \/ (Dir[f] \notin seen /\ \E wd \in todo : Slug[wd] = Dir[f]))
  \/ f \in CodexFiles /\ (pc = "claude" \/ (pc = "codex" /\ f \in entries))

\* The scan is ahead of such a file, in it, or has listed it, or could not read it.
NoneLost ==
  pc # "idle" => \A f \in due \ lost : Eligible(f) => Ahead(f) \/ reading = f \/ Listed(f)

CostsInv == FilesTyped /\ RequestTyped /\ Placed /\ Understood /\ Once /\ Wanted /\ NoneLost

--------------------------------------------------------------------------------
(* What the operators return *)

LEMMA LeastIn ==
  ASSUME NEW S \in SUBSET Nat, S # {}
  PROVE  Min(S) \in S /\ \A y \in S : Min(S) <= y
<1>1. PICK x \in S : \A y \in S : ~(y < x)
  BY LeastNat
<1>2. x \in S /\ \A y \in S : x <= y
  BY <1>1
<1> QED
  BY <1>2 DEF Min

LEMMA GreatestIn ==
  ASSUME NEW n \in Nat, NEW S \in SUBSET (0 .. n), S # {}
  PROVE  Max(S) \in S /\ \A y \in S : y <= Max(S)
<1> DEFINE T == {n - x : x \in S}
<1>1. T \in SUBSET Nat /\ T # {}
  <2>1. \A x \in S : n - x \in Nat
    OBVIOUS
  <2> QED
    BY <2>1
<1>2. PICK t \in T : \A u \in T : ~(u < t)
  <2> HIDE DEF T
  <2> QED
    BY <1>1, LeastNat
<1>3. PICK x \in S : t = n - x
  BY <1>2
<1>4. ASSUME NEW y \in S PROVE y <= x
  <2>1. n - y \in T /\ x \in Nat /\ y \in Nat
    OBVIOUS
  <2>2. ~(n - y < n - x)
    BY <1>2, <1>3, <2>1
  <2> QED
    BY <2>1, <2>2
<1>5. x \in S /\ \A y \in S : x >= y
  BY <1>4
<1>6. Max(S) \in S /\ \A y \in S : Max(S) >= y
  BY <1>5 DEF Max
<1> QED
  BY <1>6

LEMMA ElementsOf ==
  ASSUME NEW S, NEW s \in Seq(S)
  PROVE  /\ Len(s) \in Nat /\ DOMAIN s = 1 .. Len(s)
         /\ \A i \in 1 .. Len(s) : s[i] \in S
         /\ \A x : x \in ToSet(s) <=> \E i \in 1 .. Len(s) : s[i] = x
BY DEF ToSet

LEMMA ClassifyType == ASSUME NEW p PROVE classifyJob(p) \in ToSet(Keywords) \cup {"interactive"}
<1> DEFINE found == {i \in DOMAIN Keywords : p # "" /\ Keywords[i] \in Mentions[p]}
<1>1. Keywords \in Seq(STRING)
  BY ConfigAssumption DEF ConfigAssumption
<1>2. found \in SUBSET (1 .. Len(Keywords)) /\ found \in SUBSET Nat
  <2>1. DOMAIN Keywords = 1 .. Len(Keywords)
    BY <1>1
  <2>2. found \subseteq DOMAIN Keywords
    OBVIOUS
  <2> HIDE DEF found
  <2> QED
    BY <2>1, <2>2
<1>3. CASE found = {}
  BY <1>3 DEF classifyJob
<1>4. CASE found # {}
  <2>1. Min(found) \in found
    <3> HIDE DEF found
    <3> QED
      BY <1>2, <1>4, LeastIn
  <2>2. Keywords[Min(found)] \in ToSet(Keywords)
    <3>1. Min(found) \in 1 .. Len(Keywords)
      <4> HIDE DEF found
      <4> QED
        BY <1>2, <2>1
    <3> HIDE DEF found
    <3> QED
      BY <1>1, <3>1, ElementsOf
  <2>3. classifyJob(p) = Keywords[Min(found)]
    BY <1>4 DEF classifyJob
  <2> QED
    BY <2>2, <2>3
<1> QED
  BY <1>3, <1>4

LEMMA PriceType == ASSUME NEW c \in Configs, NEW m PROVE resolvePricingFrom(c, m) \in Nat
<1> DEFINE table == BuildPricingTable(c)
<1>1. \A x \in DOMAIN table : table[x] \in Nat
  BY ConfigAssumption DEF ConfigAssumption, BuildPricingTable
<1>2. BuiltIn["sonnet-4"] \in Nat
  BY ConfigAssumption DEF ConfigAssumption
<1> DEFINE here == m \in DOMAIN table \ {""}
    newest == /\ m \notin DOMAIN table /\ m # ""
              /\ Family[m] \in DOMAIN Newest /\ Newest[Family[m]] \in DOMAIN table
<1>3. here => resolvePricingFrom(c, m) = table[m]
  BY DEF resolvePricingFrom
<1>4. newest => resolvePricingFrom(c, m) = table[Newest[Family[m]]]
  BY DEF resolvePricingFrom
<1>5. ~here /\ ~newest => resolvePricingFrom(c, m) = BuiltIn["sonnet-4"]
  BY DEF resolvePricingFrom
<1> QED
  BY <1>1, <1>2, <1>3, <1>4, <1>5

LEMMA WorkdirsCollected ==
  ASSUME NEW c \in Configs, NEW k
  PROVE  collectEngineWorkdirs(c, k) \subseteq Workdirs /\ "" \notin collectEngineWorkdirs(c, k)
<1>1. Jobs[c] \in Seq([type : STRING, engine : STRING, workdir : Workdirs \cup {""}])
  BY ConfigAssumption DEF ConfigAssumption
<1>2. \A j \in ToSet(Jobs[c]) : j.workdir \in Workdirs \cup {""}
  <2> DEFINE Job == [type : STRING, engine : STRING, workdir : Workdirs \cup {""}]
  <2>1. \A j \in Job : j.workdir \in Workdirs \cup {""}
    OBVIOUS
  <2> HIDE DEF Job
  <2>2. Jobs[c] \in Seq(Job)
    BY <1>1 DEF Job
  <2>3. \A j \in ToSet(Jobs[c]) : j \in Job
    BY <2>2, ElementsOf
  <2> QED
    BY <2>1, <2>3
<1> QED
  BY <1>2 DEF collectEngineWorkdirs

LEMMA Bounds ==
  /\ Days \in Nat \ {0} /\ DayLength \in Nat /\ Days * DayLength \in Nat
  /\ NoTime \in Nat /\ NoTime = Days * DayLength + 1
  /\ \A d \in 0 .. Days : d * DayLength \in 0 .. Days * DayLength
  /\ \A d \in Date : d * DayLength \in Nat /\ d * DayLength + DayLength \in 0 .. Days * DayLength
<1>1. Days \in Nat \ {0} /\ DayLength \in Nat
  BY CostsAssumption DEF CostsAssumption
<1>2. ASSUME NEW d \in Nat PROVE d * DayLength \in Nat
  BY <1>1
<1>3. ASSUME NEW d \in 0 .. Days PROVE d * DayLength <= Days * DayLength
  <2>1. Days * DayLength = d * DayLength + (Days - d) * DayLength /\ (Days - d) \in Nat
    BY <1>1
  <2>2. (Days - d) * DayLength \in Nat
    BY <2>1, <1>2
  <2> QED
    BY <1>1, <1>2, <2>1, <2>2
<1>4. ASSUME NEW d \in Date PROVE d * DayLength + DayLength = (d + 1) * DayLength /\ d + 1 \in 0 .. Days
  BY <1>1 DEF Date
<1> QED
  BY <1>1, <1>2, <1>3, <1>4 DEF NoTime, Date
--------------------------------------------------------------------------------
(* What the engines do to the files *)

\* Files only grow, their times only go on, and what is gone stays gone.
Grown ==
  /\ gone \subseteq gone'
  /\ \A f \in Files :
       /\ Len(lines[f]) <= Len(lines'[f]) /\ DOMAIN lines[f] \subseteq DOMAIN lines'[f]
       /\ \A i \in 1 .. Len(lines[f]) : lines'[f][i] = lines[f][i]
       /\ mtime[f] # NoTime => mtime'[f] # NoTime /\ mtime[f] <= mtime'[f]

LEMMA FileFacts ==
  ASSUME FilesTyped, NEW f \in Files
  PROVE  /\ lines[f] \in Seq(LinesFor(f)) /\ Len(lines[f]) \in Nat
         /\ DOMAIN lines[f] = 1 .. Len(lines[f])
         /\ \A i \in 1 .. Len(lines[f]) : lines[f][i] \in LinesFor(f)
         /\ (lines[f] = <<>> <=> Len(lines[f]) = 0)
<1>1. lines[f] \in Seq(LinesFor(f))
  BY DEF FilesTyped
<1> QED
  BY <1>1, ElementsOf, EmptySeq

LEMMA WriteKeeps ==
  ASSUME FilesTyped, NEW f \in Files, NEW new \in Seq(LinesFor(f)), new # <<>>, Write(f, new),
         f \in CodexFiles =>
           \A i \in 1 .. Len(new) : new[i].kind = "meta" <=> (lines[f] = <<>> /\ i = 1)
  PROVE  FilesTyped' /\ Grown
<1> DEFINE old == lines[f]
<1>1. /\ old \in Seq(LinesFor(f)) /\ Len(old) \in Nat /\ old = lines[f]
      /\ old = <<>> <=> Len(old) = 0
  BY FileFacts
<1>2. LinesFor(f) \subseteq ClaudeLine \cup CodexLine
  BY DEF LinesFor
<1> DEFINE all == old \o new
<1>3. /\ all \in Seq(LinesFor(f)) /\ Len(all) = Len(old) + Len(new)
      /\ \A i \in 1 .. Len(old) + Len(new) : all[i] = IF i <= Len(old) THEN old[i] ELSE new[i - Len(old)]
  <2> HIDE DEF old
  <2> QED
    BY <1>1, ConcatProperties
<1>4. Len(new) \in Nat \ {0} /\ DOMAIN new = 1 .. Len(new)
  BY ElementsOf, EmptySeq
<1>5. all \in Seq(ClaudeLine \cup CodexLine)
  <2> HIDE DEF all, old
  <2> QED
    BY <1>2, <1>3, SeqMonotonic
<1>6. /\ lines' = [lines EXCEPT ![f] = all] /\ mtime' = [mtime EXCEPT ![f] = clock]
      /\ UNCHANGED <<clock, gone, scope, config>>
  BY DEF Write
<1> HIDE DEF all, old
<1>7. /\ lines' \in [Files -> Seq(ClaudeLine \cup CodexLine)] /\ lines'[f] = all
      /\ \A g \in Files : g # f => lines'[g] = lines[g]
  BY <1>5, <1>6 DEF FilesTyped
<1>8. clock \in 0 .. Days * DayLength /\ clock \in 0 .. NoTime /\ clock # NoTime
  BY Bounds DEF FilesTyped
<1>9. /\ mtime' \in [Files -> 0 .. NoTime] /\ mtime'[f] = clock
      /\ \A g \in Files : g # f => mtime'[g] = mtime[g]
  BY <1>6, <1>8 DEF FilesTyped
<1>10. \A g \in Files : lines'[g] \in Seq(LinesFor(g))
  BY <1>3, <1>7 DEF FilesTyped
<1>11. Len(all) > 0 /\ all # <<>> /\ Len(all) \in Nat /\ DOMAIN all = 1 .. Len(all)
  <2>1. Len(all) > 0
    BY <1>1, <1>3, <1>4
  <2> QED
    BY <1>3, <2>1, ElementsOf, EmptySeq
<1>12. \A g \in Files : mtime'[g] = NoTime <=> lines'[g] = <<>>
  BY <1>7, <1>8, <1>9, <1>11 DEF FilesTyped
<1>13. \A g \in Files : mtime'[g] # NoTime => mtime'[g] <= clock
  <2>1. \A g \in Files : mtime[g] # NoTime => mtime[g] <= clock
    BY DEF FilesTyped
  <2>2. clock \in Int
    BY <1>8
  <2> QED
    BY <1>9, <2>1, <2>2
<1>14. \A g \in CodexFiles : \A i \in DOMAIN lines'[g] : lines'[g][i].kind = "meta" <=> i = 1
  <2> SUFFICES ASSUME NEW g \in CodexFiles, NEW i \in DOMAIN lines'[g]
               PROVE  lines'[g][i].kind = "meta" <=> i = 1
    OBVIOUS
  <2>0. g \in Files
    BY DEF Files
  <2>1. CASE g # f
    BY <1>7, <2>0, <2>1 DEF FilesTyped
  <2>2. CASE g = f
    <3>1. i \in 1 .. Len(old) + Len(new) /\ lines'[g][i] = all[i] /\ i \in Nat
      BY <1>1, <1>3, <1>4, <1>7, <1>11, <2>2
    <3>2. CASE i <= Len(old)
      <4>1. i \in 1 .. Len(old) /\ all[i] = old[i]
        BY <1>1, <1>3, <3>1, <3>2
      <4>2. i \in DOMAIN lines[f]
        BY <1>1, <4>1, FileFacts
      <4>3. lines[f][i].kind = "meta" <=> i = 1
        BY <2>2, <4>2 DEF FilesTyped
      <4> QED
        BY <1>1, <3>1, <4>1, <4>3
    <3>3. CASE ~(i <= Len(old))
      <4>1. i - Len(old) \in 1 .. Len(new)
        BY <1>1, <1>4, <3>1, <3>3
      <4>2. all[i] = new[i - Len(old)]
        BY <1>3, <3>1, <3>3
      <4>3. new[i - Len(old)].kind = "meta" <=> (lines[f] = <<>> /\ i - Len(old) = 1)
        BY <2>2, <4>1
      <4>4. (lines[f] = <<>> /\ i - Len(old) = 1) <=> i = 1
        BY <1>1, <3>1, <3>3
      <4> QED
        BY <3>1, <4>2, <4>3, <4>4
    <3> QED
      BY <3>2, <3>3
  <2> QED
    BY <2>1, <2>2
<1>15. FilesTyped'
  BY <1>6, <1>7, <1>9, <1>10, <1>12, <1>13, <1>14 DEF FilesTyped, LinesFor, ClaudeLine, CodexLine, Huge, Charged, UserLine
<1>16. Grown
  <2> SUFFICES ASSUME NEW g \in Files
               PROVE  /\ Len(lines[g]) <= Len(lines'[g]) /\ DOMAIN lines[g] \subseteq DOMAIN lines'[g]
                      /\ \A i \in 1 .. Len(lines[g]) : lines'[g][i] = lines[g][i]
                      /\ mtime[g] # NoTime => mtime'[g] # NoTime /\ mtime[g] <= mtime'[g]
    BY <1>6 DEF Grown
  <2>1. Len(lines[g]) \in Nat
    BY FileFacts
  <2>2. mtime[g] \in 0 .. NoTime /\ NoTime \in Nat /\ (mtime[g] # NoTime => mtime[g] <= clock)
    BY Bounds DEF FilesTyped
  <2>3. CASE g # f
    BY <1>7, <1>9, <2>1, <2>2, <2>3
  <2>4. CASE g = f
    <3>1. Len(old) <= Len(all)
      BY <1>1, <1>3, <1>4
    <3>2. \A i \in 1 .. Len(old) : all[i] = old[i]
      BY <1>1, <1>3, <1>4
    <3>3. DOMAIN lines[g] \subseteq DOMAIN lines'[g]
      <4>1. DOMAIN lines[g] = 1 .. Len(old) /\ DOMAIN lines'[g] = 1 .. Len(all)
        BY <1>1, <1>7, <1>11, <2>4, FileFacts
      <4> QED
        BY <1>1, <1>11, <3>1, <4>1
    <3> QED
      BY <1>1, <1>7, <1>8, <1>9, <2>2, <2>4, <3>1, <3>2, <3>3
  <2> QED
    BY <2>3, <2>4
<1> QED
  BY <1>15, <1>16

LEMMA ScopeFacts ==
  ASSUME FilesTyped
  PROVE  /\ scope.files \subseteq Files /\ scope.ids \subseteq Ids
         /\ scope.models \subseteq Models /\ scope.prompts \subseteq Prompts
         /\ scope.days \in 0 .. Days /\ scope.configs \subseteq Configs
BY CostsAssumption DEF CostsAssumption, FilesTyped

LEMMA OneLine ==
  ASSUME NEW S, NEW l \in S
  PROVE  <<l>> \in Seq(S) /\ <<l>> # <<>> /\ Len(<<l>>) = 1 /\ <<l>>[1] = l
OBVIOUS

\* A line that is not about the session is added to a session.
LEMMA AddKeeps ==
  ASSUME FilesTyped, NEW f \in Files, NEW l \in LinesFor(f), l.kind # "meta", lines[f] # <<>>,
         Write(f, <<l>>)
  PROVE  FilesTyped' /\ Grown
<1> DEFINE new == <<l>>
<1>1. new \in Seq(LinesFor(f)) /\ new # <<>> /\ Len(new) = 1 /\ new[1] = l
  BY OneLine
<1>2. Write(f, new)
  OBVIOUS
<1> HIDE DEF new
<1>3. \A i \in 1 .. Len(new) : new[i].kind = "meta" <=> (lines[f] = <<>> /\ i = 1)
  BY <1>1
<1> QED
  BY <1>1, <1>2, <1>3, WriteKeeps

LEMMA StartKeeps ==
  ASSUME FilesTyped, NEW f \in Files, StartSession(f)
  PROVE  FilesTyped' /\ Grown
<1>1. PICK prompt \in scope.prompts :
        \/ f \in ClaudeFiles /\ Write(f, <<User(prompt)>>)
        \/ /\ f \in CodexFiles
           /\ \E cwd \in Workdirs, model \in scope.models :
                Write(f, <<Meta(cwd, model), User(prompt)>>)
  BY DEF StartSession
<1>2. lines[f] = <<>>
  BY DEF StartSession, FilesTyped
<1>3. User(prompt) \in UserLine /\ User(prompt).kind = "user"
  BY ScopeFacts DEF User, UserLine
<1>4. CASE f \in ClaudeFiles /\ Write(f, <<User(prompt)>>)
  <2> DEFINE new == <<User(prompt)>>
  <2>1. User(prompt) \in LinesFor(f)
    BY <1>3, <1>4 DEF LinesFor, ClaudeLine
  <2>2. new \in Seq(LinesFor(f)) /\ new # <<>>
    BY <2>1
  <2>3. Write(f, new) /\ f \notin CodexFiles
    BY <1>4, CostsAssumption DEF CostsAssumption
  <2> HIDE DEF new
  <2> QED
    BY <2>2, <2>3, WriteKeeps
<1>5. CASE f \in CodexFiles /\ \E cwd \in Workdirs, model \in scope.models :
             Write(f, <<Meta(cwd, model), User(prompt)>>)
  <2>1. PICK cwd \in Workdirs, model \in scope.models : Write(f, <<Meta(cwd, model), User(prompt)>>)
    BY <1>5
  <2>2. Meta(cwd, model) \in [kind : {"meta"}, cwd : Workdirs, model : Models, at : 0 .. Days * DayLength]
    BY ScopeFacts DEF Meta, FilesTyped
  <2>3. f \notin ClaudeFiles
    BY <1>5, CostsAssumption DEF CostsAssumption
  <2>4. Meta(cwd, model) \in LinesFor(f) /\ User(prompt) \in LinesFor(f) /\ Meta(cwd, model).kind = "meta"
    BY <1>3, <2>2, <2>3 DEF LinesFor, CodexLine, Meta
  <2> DEFINE a == Meta(cwd, model)
             b == User(prompt)
  <2>5. a \in LinesFor(f) /\ b \in LinesFor(f) /\ a.kind = "meta" /\ b.kind = "user"
    BY <1>3, <2>4
  <2>6. Write(f, <<a, b>>)
    BY <2>1
  <2> HIDE DEF a, b
  <2> DEFINE new == <<a, b>>
  <2>7. new \in Seq(LinesFor(f)) /\ new # <<>> /\ Len(new) = 2 /\ new[1] = a /\ new[2] = b
    BY <2>5
  <2>8. Write(f, new)
    BY <2>6
  <2> HIDE DEF new
  <2>9. \A i \in 1 .. Len(new) : i = 1 \/ i = 2
    BY <2>7
  <2>10. \A i \in 1 .. Len(new) : new[i].kind = "meta" <=> (lines[f] = <<>> /\ i = 1)
    BY <1>2, <2>5, <2>7, <2>9
  <2> QED
    BY <2>7, <2>8, <2>10, WriteKeeps
<1> QED
  BY <1>1, <1>4, <1>5

LEMMA AliveHasLines == ASSUME FilesTyped, NEW f \in Files, Alive(f) PROVE lines[f] # <<>>
BY DEF FilesTyped, Alive

LEMMA MessageKeeps ==
  ASSUME FilesTyped, NEW f \in Files, NEW id \in scope.ids, Message(f, id)
  PROVE  FilesTyped' /\ Grown
<1>1. f \in ClaudeFiles /\ Alive(f)
  BY DEF Message
<1>2. PICK model \in scope.models, stop \in BOOLEAN, used \in 0 .. 2 :
         Write(f, <<Assistant(id, model, stop, used)>>)
  <2>1. \E model \in scope.models : \/ Write(f, <<Assistant(id, model, FALSE, 1)>>)
                                    \/ Write(f, <<Assistant(id, model, TRUE, 2)>>)
                                    \/ Write(f, <<Assistant(id, model, TRUE, 0)>>)
    BY DEF Message
  <2>2. FALSE \in BOOLEAN /\ TRUE \in BOOLEAN /\ 0 \in 0 .. 2 /\ 1 \in 0 .. 2 /\ 2 \in 0 .. 2
    OBVIOUS
  <2> QED
    BY <2>1, <2>2
<1> DEFINE l == Assistant(id, model, stop, used)
<1>3. id \in Ids /\ model \in Models
  BY ScopeFacts
<1>4. l \in LinesFor(f) /\ l.kind = "assistant"
  <2>1. CASE used = 0
    BY <1>1, <1>3, <2>1 DEF LinesFor, ClaudeLine, Assistant
  <2>2. CASE used \in 1 .. 2
    BY <1>1, <1>3, <2>2 DEF LinesFor, ClaudeLine, Charged, Assistant
  <2> QED
    BY <2>1, <2>2
<1>5. Write(f, <<l>>) /\ lines[f] # <<>>
  BY <1>1, <1>2, AliveHasLines
<1> HIDE DEF l
<1> QED
  BY <1>4, <1>5, AddKeeps

\* The last count of a session is one of its lines.
LEMMA LastCountIn ==
  ASSUME FilesTyped, NEW f \in CodexFiles, CountsIn(lines[f]) # {}
  PROVE  /\ LastCount(lines[f]) \in [kind : {"count"}, total : Nat, last : 1 .. 2]
         /\ Max(CountsIn(lines[f])) \in CountsIn(lines[f])
         /\ \A i \in CountsIn(lines[f]) : i <= Max(CountsIn(lines[f]))
<1>1. f \in Files /\ f \notin ClaudeFiles
  BY CostsAssumption DEF CostsAssumption, Files
<1> DEFINE S == CountsIn(lines[f])
<1>2. S \in SUBSET (0 .. Len(lines[f])) /\ Len(lines[f]) \in Nat
  BY <1>1, FileFacts DEF CountsIn
<1>3. Max(S) \in S /\ \A i \in S : i <= Max(S)
  <2>1. S # {}
    OBVIOUS
  <2> HIDE DEF S
  <2> QED
    BY <1>2, <2>1, GreatestIn
<1>4. ASSUME NEW i \in S PROVE lines[f][i] \in [kind : {"count"}, total : Nat, last : 1 .. 2]
  <2>1. lines[f][i] \in CodexLine /\ lines[f][i].kind = "count"
    BY <1>1, FileFacts DEF CountsIn, LinesFor
  <2> QED
    BY <2>1 DEF CodexLine, UserLine, Huge
<1> QED
  BY <1>3, <1>4 DEF LastCount

LEMMA RunningType ==
  ASSUME FilesTyped, NEW f \in CodexFiles
  PROVE  Running(lines[f]) \in Nat
<1> DEFINE S == CountsIn(lines[f])
    g == [i \in S |-> lines[f][i].last]
<1>1. f \in Files /\ f \notin ClaudeFiles
  BY CostsAssumption DEF CostsAssumption, Files
<1>2. IsFiniteSet(S)
  <2>1. S \in SUBSET (1 .. Len(lines[f])) /\ Len(lines[f]) \in Nat
    BY <1>1, FileFacts DEF CountsIn
  <2> DEFINE n == Len(lines[f])
  <2>2. S \in SUBSET (1 .. n) /\ 1 \in Int /\ n \in Int
    BY <2>1
  <2> HIDE DEF S, n
  <2>3. IsFiniteSet(1 .. n)
    BY <2>2, FS_Interval
  <2> QED
    BY <2>2, <2>3, FS_Subset
<1>3. \A i \in S : g[i] \in Nat
  <2> SUFFICES ASSUME NEW i \in S PROVE lines[f][i].last \in Nat
    OBVIOUS
  <2>1. lines[f][i] \in CodexLine /\ lines[f][i].kind = "count"
    BY <1>1, FileFacts DEF CountsIn, LinesFor
  <2> QED
    BY <2>1 DEF CodexLine, UserLine, Huge
<1>4. SumFunctionOnSet(g, S) \in Nat
  <2> HIDE DEF g, S
  <2> QED
    BY <1>2, <1>3, SumType
<1>5. SumFunction(g) = SumFunctionOnSet(g, S)
  BY DEF SumFunction
<1>6. HasTotals(lines[f]) => LastCount(lines[f]).total \in Nat
  BY LastCountIn DEF HasTotals
<1> QED
  BY <1>4, <1>5, <1>6 DEF Running

LEMMA CountKeeps ==
  ASSUME FilesTyped, NEW f \in Files, CountTokens(f)
  PROVE  FilesTyped' /\ Grown
<1>1. f \in CodexFiles /\ Alive(f) /\ f \notin ClaudeFiles
  BY CostsAssumption DEF CountTokens, CostsAssumption
<1>2. PICK l \in [kind : {"count"}, total : Nat, last : 1 .. 2] : Write(f, <<l>>)
  <2>1. CASE \E last \in 1 .. 2 : \E total \in {0, Running(lines[f]) + last} :
               Write(f, <<Count(total, last)>>)
    <3>0. PICK last \in 1 .. 2 : \E total \in {0, Running(lines[f]) + last} :
                 Write(f, <<Count(total, last)>>)
      BY <2>1
    <3>1. PICK total \in {0, Running(lines[f]) + last} : Write(f, <<Count(total, last)>>)
      BY <3>0
    <3>2. Running(lines[f]) \in Nat
      BY <1>1, RunningType
    <3>3. total \in Nat
      <4> DEFINE r == Running(lines[f])
      <4>1. r \in Nat /\ total \in {0, r + last}
        BY <3>2
      <4> HIDE DEF r
      <4> QED
        BY <4>1
    <3>4. Count(total, last) \in [kind : {"count"}, total : Nat, last : 1 .. 2]
      BY <3>3 DEF Count
    <3> QED
      BY <3>1, <3>4
  <2>2. CASE HasTotals(lines[f]) /\ Write(f, <<LastCount(lines[f])>>)
    BY <1>1, <2>2, LastCountIn DEF HasTotals
  <2> QED
    BY <2>1, <2>2 DEF CountTokens
<1>3. l \in LinesFor(f) /\ l.kind = "count"
  BY <1>1 DEF LinesFor, CodexLine
<1> QED
  BY <1>1, <1>2, <1>3, AliveHasLines, AddKeeps

LEMMA HugeKeeps ==
  ASSUME FilesTyped, NEW f \in Files, HugeLine(f)
  PROVE  FilesTyped' /\ Grown
<1>1. Alive(f) /\ Write(f, <<Huge>>)
  BY DEF HugeLine
<1>2. Huge \in LinesFor(f) /\ Huge.kind = "huge"
  BY DEF LinesFor, ClaudeLine, CodexLine, Huge
<1> QED
  BY <1>1, <1>2, AliveHasLines, AddKeeps

LEMMA OutsideKeeps == FilesTyped /\ Outside => FilesTyped' /\ Grown
<1> SUFFICES ASSUME FilesTyped, Outside PROVE FilesTyped' /\ Grown
  OBVIOUS
<1>1. \A f \in Files : mtime[f] \in 0 .. NoTime /\ Len(lines[f]) \in Nat /\ NoTime \in Nat
  BY Bounds, FileFacts DEF FilesTyped
<1>2. CASE Tick
  <2>1. clock \in Nat /\ clock' = clock + 1 /\ clock < scope.days * DayLength
    BY <1>2 DEF Tick, FilesTyped
  <2>2. scope.days * DayLength \in 0 .. Days * DayLength /\ Days * DayLength \in Nat
    BY ScopeFacts, Bounds
  <2> DEFINE e == scope.days * DayLength
             m == Days * DayLength
  <2>3. clock' \in 0 .. e /\ clock' \in 0 .. m
    <3>1. clock \in Nat /\ clock' = clock + 1 /\ clock < e /\ e \in 0 .. m /\ m \in Nat
      BY <2>1, <2>2
    <3> HIDE DEF e, m
    <3> QED
      BY <3>1
  <2>4. \A f \in Files : mtime[f] # NoTime => mtime[f] <= clock + 1
    <3> SUFFICES ASSUME NEW f \in Files, mtime[f] # NoTime PROVE mtime[f] <= clock + 1
      OBVIOUS
    <3>1. mtime[f] <= clock /\ mtime[f] \in Int
      BY <1>1 DEF FilesTyped
    <3> QED
      BY <2>1, <3>1
  <2>5. FilesTyped'
    BY <1>2, <2>1, <2>3, <2>4 DEF Tick, FilesTyped, LinesFor, ClaudeLine, CodexLine, Huge, Charged, UserLine
  <2> QED
    BY <1>1, <1>2, <2>5 DEF Tick, Grown
<1>u. CASE UpdateConfig
  <2>1. /\ config' \in Configs /\ UNCHANGED <<clock, lines, mtime, gone, scope>>
    BY <1>u, ScopeFacts DEF UpdateConfig, fileVars, FilesTyped
  <2>2. FilesTyped'
    BY <2>1 DEF FilesTyped, LinesFor, ClaudeLine, CodexLine, Huge, Charged, UserLine
  <2> QED
    BY <1>1, <2>1, <2>2 DEF Grown
<1>3. CASE \E f \in scope.files : RemoveFile(f)
  <2>1. /\ gone \subseteq gone' /\ gone' \subseteq Files
        /\ UNCHANGED <<clock, lines, mtime, scope, config>>
    BY <1>3, ScopeFacts DEF RemoveFile, FilesTyped
  <2>2. FilesTyped'
    BY <2>1 DEF FilesTyped, LinesFor, ClaudeLine, CodexLine, Huge, Charged, UserLine
  <2> QED
    BY <1>1, <2>1, <2>2 DEF Grown
<1>4. ASSUME NEW f \in scope.files,
             StartSession(f) \/ HugeLine(f) \/ CountTokens(f) \/ \E id \in scope.ids : Message(f, id)
      PROVE  FilesTyped' /\ Grown
  <2>1. f \in Files
    BY ScopeFacts
  <2> QED
    BY <1>4, <2>1, StartKeeps, HugeKeeps, CountKeeps, MessageKeeps
<1> QED
  BY <1>2, <1>u, <1>3, <1>4 DEF Outside

--------------------------------------------------------------------------------
(* What the parsers make of a line, and of a file *)

LEMMA NamesHold == ASSUME NEW m \in Models PROVE normalizeModel[m] \in Names
BY DEF Names

LEMMA NothingIsFound ==
  /\ NothingFound \in Acc
  /\ \A id \in Ids : NothingFound.latest[id] = NoLine /\ NothingFound.completed[id] = NoLine
  /\ NothingFound.cwd = "" /\ NothingFound.at = NoTime /\ NothingFound.hasTotal = FALSE
  /\ NothingFound.sum = 0 /\ NothingFound.total = 0 /\ NothingFound.prompt = ""
  /\ NothingFound.model = "" /\ NothingFound.requests = 0
BY Bounds DEF NothingFound, Acc, Names

LEMMA ChargedFacts ==
  /\ NoLine \notin Charged
  /\ \A l \in ClaudeLine : l \in Charged <=> Charges(l)
  /\ \A l \in Charged : /\ l.kind = "assistant" /\ l.id \in Ids /\ l.model \in Models
                        /\ l.used \in 1 .. 2 /\ l.stop \in BOOLEAN
  /\ \A l \in ClaudeLine : l.kind \in {"user", "assistant", "huge"}
  /\ \A l \in ClaudeLine : l.kind = "user" => l.prompt \in Prompts
  /\ \A l \in ClaudeLine : l.kind = "assistant" =>
       l.used \in 0 .. 2 /\ (l.used # 0 => l \in Charged)
<1> USE DEF Charged, ClaudeLine, UserLine, Huge, NoLine, Charges
<1>1. NoLine \notin Charged
  OBVIOUS
<1>2. \A l \in ClaudeLine : l \in Charged <=> Charges(l)
  OBVIOUS
<1>3. \A l \in Charged : /\ l.kind = "assistant" /\ l.id \in Ids /\ l.model \in Models
                         /\ l.used \in 1 .. 2 /\ l.stop \in BOOLEAN
  OBVIOUS
<1>4. \A l \in ClaudeLine : l.kind \in {"user", "assistant", "huge"}
  OBVIOUS
<1>5. \A l \in ClaudeLine : l.kind = "user" => l.prompt \in Prompts
  OBVIOUS
<1>6. \A l \in ClaudeLine : l.kind = "assistant" =>
        l.used \in 0 .. 2 /\ (l.used # 0 => l \in Charged)
  OBVIOUS
<1> QED
  BY <1>1, <1>2, <1>3, <1>4, <1>5, <1>6

LEMMA PromptedFacts ==
  ASSUME NEW a \in Acc, NEW l, l.prompt \in Prompts
  PROVE  /\ Prompted(a, l) \in Acc
         /\ Prompted(a, l) = [a EXCEPT !.prompt = Prompted(a, l).prompt]
         /\ Prompted(a, l).prompt = IF a.prompt = "" THEN l.prompt ELSE a.prompt
<1> DEFINE p == IF a.prompt = "" THEN l.prompt ELSE a.prompt
<1>1. p \in Prompts \cup {""} /\ Prompted(a, l) = [a EXCEPT !.prompt = p]
  BY DEF Prompted, Acc
<1> HIDE DEF p
<1>2. Prompted(a, l) \in Acc /\ Prompted(a, l).prompt = p
  BY <1>1 DEF Acc
<1> QED
  BY <1>1, <1>2 DEF p

LEMMA AssistantFacts ==
  ASSUME NEW a \in Acc, NEW l \in Charged
  PROVE  /\ parseAssistant(a, l) \in Acc
         /\ parseAssistant(a, l).latest = [a.latest EXCEPT ![l.id] = l]
         /\ parseAssistant(a, l).completed = IF l.stop THEN [a.completed EXCEPT ![l.id] = l] ELSE a.completed
         /\ parseAssistant(a, l).prompt = a.prompt
         /\ parseAssistant(a, l).model = IF a.model = "" THEN normalizeModel[l.model] ELSE a.model
<1>0. l.id \in Ids /\ l.model \in Models /\ l.used # 0 /\ l.stop \in BOOLEAN
  BY ChargedFacts
<1> DEFINE m == IF a.model = "" THEN normalizeModel[l.model] ELSE a.model
    cs == [a.completed EXCEPT ![l.id] = IF l.stop THEN l ELSE @]
    ls == [a.latest EXCEPT ![l.id] = l]
<1>1. m \in Names
  BY <1>0, NamesHold DEF Acc
<1>2. a.completed \in [Ids -> Charged \cup {NoLine}] /\ a.latest \in [Ids -> Charged \cup {NoLine}]
  BY DEF Acc
<1>3. cs \in [Ids -> Charged \cup {NoLine}] /\ ls \in [Ids -> Charged \cup {NoLine}]
  BY <1>0, <1>2
<1>4. cs = IF l.stop THEN [a.completed EXCEPT ![l.id] = l] ELSE a.completed
  BY <1>0, <1>2
<1>5. parseAssistant(a, l) = [a EXCEPT !.model = m, !.completed = cs, !.latest = ls]
  BY <1>0 DEF parseAssistant, Acc
<1> HIDE DEF m, cs, ls
<1>6. /\ parseAssistant(a, l) \in Acc /\ parseAssistant(a, l).latest = ls
      /\ parseAssistant(a, l).completed = cs /\ parseAssistant(a, l).prompt = a.prompt
      /\ parseAssistant(a, l).model = m
  BY <1>1, <1>3, <1>5 DEF Acc
<1> QED
  BY <1>4, <1>6 DEF ls, m

LEMMA ClaudeLineParsed ==
  ASSUME NEW a \in Acc, NEW l \in ClaudeLine
  PROVE  /\ parseSessionJSONL(a, l) \in Acc
         /\ \A id \in Ids :
              parseSessionJSONL(a, l).latest[id] =
                IF l \in Charged /\ l.id = id THEN l ELSE a.latest[id]
         /\ \A id \in Ids :
              parseSessionJSONL(a, l).completed[id] =
                IF l \in Charged /\ l.stop /\ l.id = id THEN l ELSE a.completed[id]
         /\ parseSessionJSONL(a, l).prompt =
              IF l.kind = "user" /\ a.prompt = "" THEN l.prompt ELSE a.prompt
         /\ parseSessionJSONL(a, l).model =
              IF l \in Charged /\ a.model = "" THEN normalizeModel[l.model] ELSE a.model
<1>0. a.latest \in [Ids -> Charged \cup {NoLine}] /\ a.completed \in [Ids -> Charged \cup {NoLine}]
  BY DEF Acc
<1>1. CASE l.kind = "user"
  <2>1. parseSessionJSONL(a, l) = Prompted(a, l) /\ l \notin Charged /\ l.prompt \in Prompts
    BY <1>1, ChargedFacts DEF parseSessionJSONL
  <2>2. Prompted(a, l) \in Acc /\ Prompted(a, l) = [a EXCEPT !.prompt = Prompted(a, l).prompt]
    BY <2>1, PromptedFacts
  <2>3. /\ Prompted(a, l).latest = a.latest /\ Prompted(a, l).completed = a.completed
        /\ Prompted(a, l).model = a.model
    BY <2>2 DEF Acc
  <2>4. Prompted(a, l).prompt = IF a.prompt = "" THEN l.prompt ELSE a.prompt
    BY <2>1, PromptedFacts
  <2> QED
    BY <1>1, <2>1, <2>2, <2>3, <2>4
<1>2. CASE l.kind = "assistant"
  <2>1. parseSessionJSONL(a, l) = parseAssistant(a, l)
    BY <1>2 DEF parseSessionJSONL
  <2>2. CASE l.used = 0
    <3>1. parseAssistant(a, l) = a
      BY <2>2 DEF parseAssistant
    <3>2. l \notin Charged
      BY <2>2, ChargedFacts
    <3> QED
      BY <1>2, <2>1, <3>1, <3>2
  <2>3. CASE l.used # 0
    <3>1. l \in Charged /\ l.id \in Ids
      BY <1>2, <2>3, ChargedFacts
    <3> DEFINE b == parseSessionJSONL(a, l)
    <3>a. b = parseAssistant(a, l)
      BY <2>1
    <3> HIDE DEF b
    <3>b. b \in Acc /\ b.latest = [a.latest EXCEPT ![l.id] = l] /\ b.prompt = a.prompt
      BY <3>a, <3>1, AssistantFacts
    <3>2. b.completed = IF l.stop THEN [a.completed EXCEPT ![l.id] = l] ELSE a.completed
      BY <3>a, <3>1, AssistantFacts
    <3>m. b.model = IF a.model = "" THEN normalizeModel[l.model] ELSE a.model
      BY <3>a, <3>1, AssistantFacts
    <3>3. \A id \in Ids : b.latest[id] = IF l.id = id THEN l ELSE a.latest[id]
      BY <1>0, <3>1, <3>b
    <3>4. \A id \in Ids : b.completed[id] = IF l.stop /\ l.id = id THEN l ELSE a.completed[id]
      BY <1>0, <3>1, <3>2
    <3>5. b.prompt = IF l.kind = "user" /\ a.prompt = "" THEN l.prompt ELSE a.prompt
      BY <1>2, <3>b
    <3> QED
      BY <3>1, <3>b, <3>3, <3>4, <3>5, <3>m DEF b
  <2> QED
    BY <2>2, <2>3
<1>3. CASE l.kind \notin {"user", "assistant"}
  <2>1. parseSessionJSONL(a, l) = a /\ l \notin Charged
    BY <1>3, ChargedFacts DEF parseSessionJSONL
  <2> QED
    BY <1>3, <2>1
<1> QED
  BY <1>1, <1>2, <1>3

LEMMA CodexLineFacts ==
  /\ \A l \in CodexLine : l.kind \in {"user", "meta", "count", "huge"}
  /\ \A l \in CodexLine : l.kind = "user" => l.prompt \in Prompts
  /\ \A l \in CodexLine : l.kind = "meta" =>
       l.cwd \in Workdirs /\ l.model \in Models /\ l.at \in 0 .. Days * DayLength
  /\ \A l \in CodexLine : l.kind = "count" => l.total \in Nat /\ l.last \in 1 .. 2
  /\ \A l \in CodexLine : Charges(l) <=> l.kind = "count"
<1> USE DEF CodexLine, UserLine, Huge
<1>1. \A l \in CodexLine : l.kind \in {"user", "meta", "count", "huge"}
  OBVIOUS
<1>2. \A l \in CodexLine : l.kind = "user" => l.prompt \in Prompts
  OBVIOUS
<1>3. \A l \in CodexLine : l.kind = "meta" =>
        l.cwd \in Workdirs /\ l.model \in Models /\ l.at \in 0 .. Days * DayLength
  OBVIOUS
<1>4. \A l \in CodexLine : l.kind = "count" => l.total \in Nat /\ l.last \in 1 .. 2
  OBVIOUS
<1>5. \A l \in CodexLine : Charges(l) <=> l.kind = "count"
  BY <1>1, <1>4 DEF Charges
<1> QED
  BY <1>1, <1>2, <1>3, <1>4, <1>5

LEMMA CodexLineParsed ==
  ASSUME NEW a \in Acc, NEW l \in CodexLine
  PROVE  LET b == parseCodexSessionJSONL(a, l) IN
         /\ b \in Acc
         /\ b.cwd = IF l.kind = "meta" /\ a.cwd = "" THEN l.cwd ELSE a.cwd
         /\ b.at = IF l.kind = "meta" /\ a.at = NoTime THEN l.at ELSE a.at
         /\ b.model = IF l.kind = "meta" /\ a.model = "" THEN normalizeModel[l.model] ELSE a.model
         /\ b.prompt = IF l.kind = "user" /\ a.prompt = "" THEN l.prompt ELSE a.prompt
         /\ b.total = IF l.kind = "count" /\ l.total > 0 THEN l.total ELSE a.total
         /\ b.hasTotal <=> a.hasTotal \/ (l.kind = "count" /\ l.total > 0)
         /\ b.sum = IF l.kind = "count" THEN a.sum + l.last ELSE a.sum
         /\ b.requests = IF l.kind = "count" THEN a.requests + 1 ELSE a.requests
<1> DEFINE b == parseCodexSessionJSONL(a, l)
<1>0. l.kind \in {"user", "meta", "count", "huge"}
  BY CodexLineFacts
<1>1. CASE l.kind = "meta"
  <2> DEFINE c == IF a.cwd = "" THEN l.cwd ELSE a.cwd
             t == IF a.at = NoTime THEN l.at ELSE a.at
             m == IF a.model = "" THEN normalizeModel[l.model] ELSE a.model
  <2>1. c \in Workdirs \cup {""} /\ t \in 0 .. NoTime /\ m \in Names
    <3>1. l.cwd \in Workdirs /\ l.model \in Models /\ l.at \in 0 .. Days * DayLength
      BY <1>1, CodexLineFacts
    <3>2. l.at \in 0 .. NoTime
      BY <3>1, Bounds
    <3> QED
      BY <3>1, <3>2, NamesHold DEF Acc
  <2>2. b = [a EXCEPT !.cwd = c, !.at = t, !.model = m]
    BY <1>1 DEF parseCodexSessionJSONL, Acc
  <2> HIDE DEF c, t, m, b
  <2>3. /\ b \in Acc /\ b.cwd = c /\ b.at = t /\ b.model = m /\ b.prompt = a.prompt
        /\ b.total = a.total /\ b.hasTotal = a.hasTotal /\ b.sum = a.sum /\ b.requests = a.requests
    BY <2>1, <2>2 DEF Acc
  <2> QED
    BY <1>1, <2>3 DEF c, t, m, b
<1>2. CASE l.kind = "count"
  <2> DEFINE n == IF l.total > 0 THEN l.total ELSE a.total
             h == a.hasTotal \/ l.total > 0
             s == a.sum + l.last
             r == a.requests + 1
  <2>1. n \in Nat /\ h \in BOOLEAN /\ s \in Nat /\ r \in Nat
    <3>1. l.total \in Nat /\ l.last \in 1 .. 2
      BY <1>2, CodexLineFacts
    <3>2. a.total \in Nat /\ a.sum \in Nat /\ a.requests \in Nat /\ a.hasTotal \in BOOLEAN
      BY DEF Acc
    <3> QED
      BY <3>1, <3>2
  <2>2. b = [a EXCEPT !.total = n, !.hasTotal = h, !.sum = s, !.requests = r]
    BY <1>2 DEF parseCodexSessionJSONL, parseCount, Acc
  <2> HIDE DEF n, h, s, r, b
  <2>3. /\ b \in Acc /\ b.cwd = a.cwd /\ b.at = a.at /\ b.model = a.model /\ b.prompt = a.prompt
        /\ b.total = n /\ b.hasTotal = h /\ b.sum = s /\ b.requests = r
    BY <2>1, <2>2 DEF Acc
  <2> QED
    BY <1>2, <2>3 DEF n, h, s, r, b
<1>3. CASE l.kind = "user"
  <2>1. b = Prompted(a, l) /\ l.prompt \in Prompts
    BY <1>3, CodexLineFacts DEF parseCodexSessionJSONL
  <2> HIDE DEF b
  <2>2. b \in Acc /\ b = [a EXCEPT !.prompt = b.prompt]
        /\ b.prompt = IF a.prompt = "" THEN l.prompt ELSE a.prompt
    BY <2>1, PromptedFacts
  <2>3. /\ b.cwd = a.cwd /\ b.at = a.at /\ b.model = a.model /\ b.total = a.total
        /\ b.hasTotal = a.hasTotal /\ b.sum = a.sum /\ b.requests = a.requests
    BY <2>2 DEF Acc
  <2> QED
    BY <1>3, <2>2, <2>3 DEF b
<1>4. CASE l.kind = "huge"
  <2>1. b = a
    BY <1>4 DEF parseCodexSessionJSONL
  <2> QED
    BY <1>4, <2>1
<1> QED
  BY <1>0, <1>1, <1>2, <1>3, <1>4

LEMMA SumOf ==
  ASSUME NEW S, IsFiniteSet(S), NEW g, DOMAIN g = S, \A x \in S : g[x] \in Nat
  PROVE  /\ SumFunction(g) = SumFunctionOnSet(g, S) /\ SumFunction(g) \in Nat
         /\ \A x \in S : g[x] > 0 => SumFunction(g) > 0
<1>1. SumFunction(g) = SumFunctionOnSet(g, S)
  BY DEF SumFunction
<1>2. SumFunctionOnSet(g, S) \in Nat
  BY SumType
<1>3. \A x \in S : g[x] > 0 => SumFunctionOnSet(g, S) > 0
  BY SumPositive
<1> QED
  BY <1>1, <1>2, <1>3

LEMMA Products == ASSUME NEW m \in Nat, NEW n \in Nat PROVE m * n \in Nat
OBVIOUS

Requests(a) == {id \in Ids : a.latest[id] # NoLine}

LEMMA FinalFacts ==
  ASSUME NEW a \in Acc, NEW id \in Requests(a)
  PROVE  finalize(a, id) \in Charged /\ finalize(a, id).used \in 1 .. 2
<1>1. a.latest[id] \in Charged /\ (a.completed[id] # NoLine => a.completed[id] \in Charged)
  BY DEF Acc, Requests
<1> QED
  BY <1>1, ChargedFacts DEF finalize

LEMMA RequestsFinite == ASSUME NEW a PROVE IsFiniteSet(Requests(a)) /\ Cardinality(Requests(a)) \in Nat
<1>1. IsFiniteSet(Ids) /\ Requests(a) \in SUBSET Ids
  BY CostsAssumption DEF CostsAssumption, Requests
<1> QED
  BY <1>1, FS_Subset, FS_CardinalityType

SessionOf(f, job, tokens, requests, cost) ==
  [file |-> f, read |-> read, job |-> job, tokens |-> tokens, requests |-> requests, cost |-> cost]

LEMMA SessionTyped ==
  ASSUME NEW f \in Files, read \in Nat, NEW job \in ToSet(Keywords) \cup {"interactive", "codex"},
         NEW t \in Nat \ {0}, NEW r \in Nat \ {0}, NEW c \in Nat
  PROVE  /\ <<SessionOf(f, job, t, r, c)>> \in Seq(SessionType)
         /\ Len(<<SessionOf(f, job, t, r, c)>>) = 1
         /\ <<SessionOf(f, job, t, r, c)>>[1] = SessionOf(f, job, t, r, c)
<1>1. SessionOf(f, job, t, r, c) \in SessionType
  BY DEF SessionType, SessionOf
<1> QED
  BY <1>1, OneLine

LEMMA ClaudeSessionFacts ==
  ASSUME cfg \in Configs, NEW a \in Acc, NEW f \in Files, read \in Nat
  PROVE  LET s == ClaudeSession(f, a) IN
         /\ s \in Seq(SessionType) /\ Len(s) \in 0 .. 1
         /\ Len(s) = 1 => s[1].file = f
         /\ Len(s) = 1 <=> Requests(a) # {}
<1> DEFINE reqs == {id \in Ids : a.latest[id] # NoLine}
    used == [id \in reqs |-> finalize(a, id).used]
    paid == [id \in reqs |->
              finalize(a, id).used * resolvePricingFrom(cfg, normalizeModel[finalize(a, id).model])]
    tokens == SumFunction(used)
    cost == SumFunction(paid)
    price == resolvePricingFrom(cfg, a.model)
    all == IF cost = 0 THEN tokens * price ELSE cost
    n == Cardinality(reqs)
<1>1. reqs = Requests(a)
  BY DEF Requests
<1>2. CASE reqs = {}
  <2>1. ClaudeSession(f, a) = <<>>
    BY <1>2 DEF ClaudeSession
  <2> HIDE DEF reqs
  <2> QED
    BY <1>1, <1>2, <2>1
<1>3. CASE reqs # {}
  <2>1. \A id \in reqs : used[id] \in Nat /\ used[id] > 0
    BY <1>1, FinalFacts
  <2>2. \A id \in reqs : paid[id] \in Nat
    <3> SUFFICES ASSUME NEW id \in reqs
                 PROVE  finalize(a, id).used * resolvePricingFrom(cfg, normalizeModel[finalize(a, id).model]) \in Nat
      OBVIOUS
    <3>1. finalize(a, id).used \in Nat
      BY <1>1, FinalFacts
    <3>2. resolvePricingFrom(cfg, normalizeModel[finalize(a, id).model]) \in Nat
      BY PriceType
    <3> QED
      BY <3>1, <3>2, Products
  <2>3. IsFiniteSet(reqs) /\ n \in Nat
    BY <1>1, RequestsFinite
  <2>4. DOMAIN used = reqs /\ DOMAIN paid = reqs
    OBVIOUS
  <2>5. tokens \in Nat /\ tokens > 0
    <3> HIDE DEF used, reqs
    <3> QED
      BY <1>3, <2>1, <2>3, <2>4, SumOf
  <2>6. cost \in Nat
    <3> HIDE DEF paid, reqs
    <3> QED
      BY <2>2, <2>3, <2>4, SumOf
  <2>7. n # 0
    <3> HIDE DEF reqs
    <3> QED
      BY <1>3, <2>3, FS_EmptySet
  <2>8. price \in Nat
    BY PriceType
  <2>9. ClaudeSession(f, a) = <<SessionOf(f, classifyJob(a.prompt), tokens, n, all)>>
    BY <1>3 DEF ClaudeSession, SessionOf
  <2> HIDE DEF tokens, cost, price, n
  <2>10. all \in Nat
    BY <2>5, <2>6, <2>8, Products
  <2> HIDE DEF all
  <2> DEFINE job == classifyJob(a.prompt)
  <2>11. job \in ToSet(Keywords) \cup {"interactive", "codex"}
    BY ClassifyType
  <2>12. n \in Nat \ {0} /\ tokens \in Nat \ {0}
    BY <2>3, <2>5, <2>7
  <2> HIDE DEF job
  <2> DEFINE s == <<SessionOf(f, job, tokens, n, all)>>
  <2>13. s \in Seq(SessionType) /\ Len(s) = 1 /\ s[1] = SessionOf(f, job, tokens, n, all)
    BY <2>10, <2>11, <2>12, SessionTyped
  <2>14. ClaudeSession(f, a) = s
    BY <2>9 DEF job
  <2> HIDE DEF s
  <2>15. s[1].file = f
    BY <2>13 DEF SessionOf
  <2> HIDE DEF reqs
  <2> QED
    BY <1>1, <1>3, <2>13, <2>14, <2>15
<1> QED
  BY <1>2, <1>3

LEMMA CodexSessionFacts ==
  ASSUME cfg \in Configs, NEW a \in Acc, NEW f \in Files, read \in Nat
  PROVE  LET s == CodexSession(f, a)
             tokens == IF a.hasTotal THEN a.total ELSE a.sum
         IN  /\ s \in Seq(SessionType) /\ Len(s) \in 0 .. 1
             /\ Len(s) = 1 => s[1].file = f
             /\ Len(s) = 1 <=> /\ a.cwd \in collectEngineWorkdirs(cfg, "codex")
                               /\ a.at # NoTime /\ InDay(a.at, date) /\ tokens # 0
<1> DEFINE tokens == IF a.hasTotal THEN a.total ELSE a.sum
    listed == /\ a.cwd \in collectEngineWorkdirs(cfg, "codex")
              /\ a.at # NoTime /\ InDay(a.at, date) /\ tokens # 0
    job == IF classifyJob(a.prompt) = "interactive" THEN "codex" ELSE classifyJob(a.prompt)
    n == IF a.requests = 0 THEN 1 ELSE a.requests
    price == resolvePricingFrom(cfg, a.model)
    cost == tokens * price
<1>1. CASE ~listed
  <2>1. CodexSession(f, a) = <<>>
    BY <1>1 DEF CodexSession
  <2> QED
    BY <1>1, <2>1
<1>2. CASE listed
  <2>1. CodexSession(f, a) = <<SessionOf(f, job, tokens, n, cost)>>
    BY <1>2 DEF CodexSession, SessionOf
  <2>2. tokens \in Nat \ {0} /\ n \in Nat \ {0}
    <3>1. a.total \in Nat /\ a.sum \in Nat /\ a.requests \in Nat
      BY DEF Acc
    <3>2. tokens \in Nat /\ n \in Nat \ {0}
      BY <3>1
    <3>3. tokens # 0
      BY <1>2
    <3> HIDE DEF tokens
    <3> QED
      BY <3>2, <3>3
  <2>3. price \in Nat
    BY PriceType
  <2>4. job \in ToSet(Keywords) \cup {"interactive", "codex"}
    BY ClassifyType
  <2>5. cost \in Nat
    <3> HIDE DEF tokens, price
    <3> QED
      BY <2>2, <2>3, Products
  <2> HIDE DEF tokens, n, job, cost
  <2> DEFINE s == <<SessionOf(f, job, tokens, n, cost)>>
  <2>6. s \in Seq(SessionType) /\ Len(s) = 1 /\ s[1] = SessionOf(f, job, tokens, n, cost)
    BY <2>2, <2>4, <2>5, SessionTyped
  <2>7. CodexSession(f, a) = s
    BY <2>1
  <2> HIDE DEF s
  <2>8. s[1].file = f
    BY <2>6 DEF SessionOf
  <2> HIDE DEF listed
  <2> QED
    BY <1>2, <2>6, <2>7, <2>8 DEF listed, tokens
<1> QED
  BY <1>1, <1>2

--------------------------------------------------------------------------------
(* The steps of a request *)

LEMMA FilesStay == FilesTyped /\ UNCHANGED outsideVars => FilesTyped'
BY DEF FilesTyped, outsideVars, fileVars, LinesFor, ClaudeLine, CodexLine, Huge, Charged, UserLine

LEMMA HasUsedStays ==
  ASSUME FilesTyped, Grown, NEW f \in Files, HasUsed(lines[f])
  PROVE  HasUsed(lines'[f])
<1>1. PICK i \in DOMAIN lines[f] : Charges(lines[f][i]) /\ \A j \in 1 .. i : lines[f][j] # Huge
  BY DEF HasUsed
<1>2. Len(lines[f]) \in Nat /\ DOMAIN lines[f] = 1 .. Len(lines[f]) /\ i \in 1 .. Len(lines[f])
  BY <1>1, FileFacts
<1>3. \A j \in 1 .. i : lines'[f][j] = lines[f][j]
  <2>1. \A j \in 1 .. Len(lines[f]) : lines'[f][j] = lines[f][j]
    BY DEF Grown
  <2>2. \A j \in 1 .. i : j \in 1 .. Len(lines[f])
    BY <1>2
  <2> QED
    BY <2>1, <2>2
<1>4. i \in 1 .. i /\ i \in DOMAIN lines'[f]
  BY <1>1, <1>2 DEF Grown
<1>5. Charges(lines'[f][i]) /\ \A j \in 1 .. i : lines'[f][j] # Huge
  BY <1>1, <1>3, <1>4
<1> QED
  BY <1>4, <1>5 DEF HasUsed

LEMMA Within ==
  /\ \A n \in Nat : \A m \in 0 .. n : m \in Nat /\ m <= n /\ \A i \in 1 .. m : i \in 1 .. n
  /\ \A m, n \in Nat : m <= n => m \in 0 .. n
  /\ \A k, m, n \in Nat : k <= m /\ m <= n => k \in 0 .. n
OBVIOUS

LEMMA SameWorkdirs ==
  ASSUME cfg' = cfg
  PROVE  \A k : collectEngineWorkdirs(cfg, k)' = collectEngineWorkdirs(cfg, k)
BY DEF collectEngineWorkdirs

\* A step of the engines leaves what the scan relies on as it is.
LEMMA OutsideRest ==
  ASSUME CostsInv, FilesTyped', Grown, UNCHANGED requestVars
  PROVE  RequestTyped' /\ Placed' /\ Understood' /\ Once' /\ Wanted' /\ NoneLost'
<1> USE DEF CostsInv
<1>0. /\ pc' = pc /\ date' = date /\ todo' = todo /\ seen' = seen /\ entries' = entries
      /\ visited' = visited /\ reading' = reading /\ read' = read /\ acc' = acc
      /\ sessions' = sessions /\ reports' = reports /\ due' = due /\ cfg' = cfg /\ lost' = lost
  BY DEF requestVars, askedVars
<1>1. reading \in Files \cup {""} /\ due \subseteq Files
  BY DEF RequestTyped
<1>r. read \in Nat
  BY DEF RequestTyped
<1>2. RequestTyped'
  BY <1>0 DEF RequestTyped, SessionType, Acc, Charged, NoLine, Names
<1>3. reading # "" =>
        /\ read <= Len(lines[reading]) /\ Len(lines[reading]) \in Nat
        /\ Len(lines'[reading]) \in Nat /\ Len(lines[reading]) <= Len(lines'[reading])
        /\ \A i \in 1 .. read : i \in 1 .. Len(lines[reading])
        /\ \A i \in 1 .. read : lines'[reading][i] = lines[reading][i]
  <2> SUFFICES ASSUME reading # ""
               PROVE  /\ read <= Len(lines[reading]) /\ Len(lines[reading]) \in Nat
                      /\ Len(lines'[reading]) \in Nat /\ Len(lines[reading]) <= Len(lines'[reading])
                      /\ \A i \in 1 .. read : i \in 1 .. Len(lines[reading])
                      /\ \A i \in 1 .. read : lines'[reading][i] = lines[reading][i]
    OBVIOUS
  <2>1. reading \in Files /\ Len(lines[reading]) \in Nat
    BY <1>1, FileFacts
  <2>2. read <= Len(lines[reading])
    <3>1. read \in 0 .. Len(lines[reading])
      BY DEF Placed
    <3> QED
      BY <2>1, <3>1, Within
  <2>3. \A i \in 1 .. read : i \in 1 .. Len(lines[reading])
    <3>1. read \in 0 .. Len(lines[reading])
      BY DEF Placed
    <3> QED
      BY <2>1, <3>1, Within
  <2>4. \A i \in 1 .. Len(lines[reading]) : lines'[reading][i] = lines[reading][i]
    BY <2>1 DEF Grown
  <2>5. Len(lines'[reading]) \in Nat
    <3>1. lines'[reading] \in Seq(ClaudeLine' \cup CodexLine')
      BY <2>1 DEF FilesTyped
    <3> QED
      BY <3>1, LenProperties
  <2> QED
    BY <2>1, <2>2, <2>3, <2>4, <2>5 DEF Grown
<1>4. Placed'
  <2>1. reading # "" => read \in 0 .. Len(lines'[reading])
    BY <1>r, <1>3, Within
  <2>2. reading # "" => \A i \in 1 .. read : lines'[reading][i] # Huge
    BY <1>3 DEF Placed
  <2> QED
    BY <1>0, <2>1, <2>2 DEF Placed, NothingFound, NoLine, NoTime, Huge
<1>5. Understood'
  <2>1. ASSUME reading # "", NEW i \in 1 .. read, Charges(lines'[reading][i])
        PROVE  Charges(lines[reading][i])
    BY <1>3, <2>1
  <2>2. reading \in ClaudeFiles \cup CodexFiles => reading # ""
    BY CostsAssumption DEF CostsAssumption, Files
  <2>3. reading # "" /\ read > 0 => lines'[reading][1] = lines[reading][1]
    <3>1. read > 0 => 1 \in 1 .. read
      BY <1>r
    <3> QED
      BY <1>3, <3>1
  <2>4. (\E id \in Ids : acc.latest[id] # NoLine)' <=> \E id \in Ids : acc.latest[id] # NoLine
    BY <1>0 DEF NoLine
  <2> QED
    BY <1>0, <2>1, <2>2, <2>3, <2>4 DEF Understood, Cwd, StartedAt, NoTime, Charges
<1>6. Once'
  BY <1>0 DEF Once, Taken
<1>7. Wanted'
  <2> SUFFICES ASSUME NEW f \in due
               PROVE  /\ mtime'[f] # NoTime /\ HasUsed(lines'[f])
                      /\ f \in ClaudeFiles =>
                           /\ Midnight(date) <= mtime'[f]
                           /\ \E wd \in collectEngineWorkdirs(cfg, "claude") : Slug[wd] = Dir[f]
                      /\ f \in CodexFiles => /\ InDay(lines'[f][1].at, date)
                                             /\ lines'[f][1].cwd \in collectEngineWorkdirs(cfg, "codex")
    BY <1>0, SameWorkdirs DEF Wanted, StartedAt, Cwd, HasUsed, Huge, Charges, Midnight, InDay, NoTime
  <2>1. f \in Files
    BY <1>1
  <2>2. mtime[f] # NoTime /\ HasUsed(lines[f])
    BY DEF Wanted
  <2>3. mtime'[f] # NoTime /\ mtime[f] <= mtime'[f] /\ HasUsed(lines'[f])
    BY <2>1, <2>2, HasUsedStays DEF Grown
  <2>4. 1 \in 1 .. Len(lines[f])
    <3>1. Len(lines[f]) \in Nat /\ Len(lines[f]) # 0
      BY <2>1, <2>2, FileFacts DEF FilesTyped
    <3> QED
      BY <3>1
  <2>5. lines'[f][1] = lines[f][1]
    BY <2>1, <2>4 DEF Grown
  <2>6. f \in ClaudeFiles => Midnight(date) <= mtime'[f]
    <3>1. f \in ClaudeFiles => Midnight(date) <= mtime[f]
      BY DEF Wanted
    <3>2. mtime[f] \in Int /\ mtime'[f] \in Int /\ Midnight(date) \in Int
      <4>1. mtime[f] \in 0 .. NoTime /\ mtime'[f] \in 0 .. NoTime' /\ date \in Date
        BY <2>1 DEF FilesTyped, RequestTyped
      <4> QED
        BY <4>1, Bounds DEF Midnight, NoTime
    <3> QED
      BY <2>3, <3>1, <3>2
  <2> QED
    BY <2>3, <2>5, <2>6 DEF Wanted, StartedAt, Cwd
<1>8. NoneLost'
  <2> SUFFICES ASSUME pc # "idle", NEW f \in due \ lost, Eligible(f)'
               PROVE  (Ahead(f) \/ reading = f \/ Listed(f))'
    BY <1>0 DEF NoneLost
  <2>1. f \in Files /\ mtime[f] # NoTime
    BY <1>1 DEF Wanted
  <2>2. Eligible(f)
    <3>1. f \notin gone /\ mtime[f] <= mtime'[f]
      BY <2>1 DEF Eligible, Grown
    <3>2. f \in ClaudeFiles => mtime'[f] <= Midnight(date) + DayLength
      BY <1>0 DEF Eligible, Midnight
    <3>3. mtime[f] \in Int /\ mtime'[f] \in Int /\ Midnight(date) + DayLength \in Int
      <4>1. mtime[f] \in 0 .. NoTime /\ mtime'[f] \in 0 .. NoTime' /\ date \in Date
        BY <2>1 DEF FilesTyped, RequestTyped
      <4> QED
        BY <4>1, Bounds DEF Midnight, NoTime
    <3> DEFINE e == Midnight(date) + DayLength
    <3> HIDE DEF e
    <3>4. f \in ClaudeFiles => mtime[f] <= e
      BY <3>1, <3>2, <3>3 DEF e
    <3> QED
      BY <3>1, <3>4 DEF Eligible, e
  <2>3. Ahead(f) \/ reading = f \/ Listed(f)
    BY <2>2 DEF NoneLost
  <2> QED
    BY <1>0, <2>3 DEF Ahead, Listed
<1> QED
  BY <1>2, <1>4, <1>5, <1>6, <1>7, <1>8

LEMMA FilesSplit ==
  /\ \A f : f \in Files <=> f \in ClaudeFiles \/ f \in CodexFiles
  /\ \A f : ~(f \in ClaudeFiles /\ f \in CodexFiles)
  /\ "" \notin Files
BY CostsAssumption DEF CostsAssumption, Files

LEMMA Empties ==
  /\ 1 .. 0 = {} /\ ~(0 > 0) /\ DOMAIN <<>> = {} /\ 0 \in Nat
  /\ \A n \in Nat : 0 \in 0 .. n
OBVIOUS

\* What a step of a request that reads no line has to show.
LEMMA StepKeeps ==
  ASSUME CostsInv, UNCHANGED outsideVars, RequestTyped', Placed', Understood', Once', Wanted', NoneLost'
  PROVE  CostsInv'
BY FilesStay DEF CostsInv

LEMMA UnderstoodStays ==
  ASSUME Understood, UNCHANGED <<lines, reading, read, acc>>
  PROVE  Understood'
BY DEF Understood, Charges, NoLine, Cwd, StartedAt, NoTime

LEMMA WantedStays ==
  ASSUME Wanted, UNCHANGED <<lines, mtime, due, date, cfg>>
  PROVE  Wanted'
<1>1. lines' = lines /\ mtime' = mtime /\ due' = due /\ date' = date /\ cfg' = cfg
  OBVIOUS
<1>2. \A f \in due : (mtime[f] # NoTime)'
  BY <1>1 DEF Wanted, NoTime
<1>3. \A f \in due : HasUsed(lines[f])'
  <2> SUFFICES ASSUME NEW f \in due PROVE HasUsed(lines[f])'
    OBVIOUS
  <2>1. HasUsed(lines[f])
    BY DEF Wanted
  <2> QED
    BY <1>1, <2>1 DEF HasUsed, Charges, Huge
<1>4. \A f \in due : f \in ClaudeFiles =>
         /\ (Midnight(date) <= mtime[f])'
         /\ (\E wd \in collectEngineWorkdirs(cfg, "claude") : Slug[wd] = Dir[f])'
  BY <1>1, SameWorkdirs DEF Wanted, Midnight
<1>5. \A f \in due : f \in CodexFiles => /\ InDay(StartedAt(f), date)'
                                         /\ (Cwd(f) \in collectEngineWorkdirs(cfg, "codex"))'
  BY <1>1, SameWorkdirs DEF Wanted, Midnight, InDay, StartedAt, Cwd
<1> QED
  BY <1>1, <1>2, <1>3, <1>4, <1>5 DEF Wanted

\* A parser that has not begun has understood all that it has read.
LEMMA UnderstoodAtFirst ==
  ASSUME read = 0, acc = NothingFound
  PROVE  Understood
<1>1. 1 .. read = {} /\ ~(read > 0)
  BY Empties
<1>2. acc.cwd = "" /\ acc.at = NoTime /\ acc.hasTotal = FALSE
  BY NothingIsFound
<1> QED
  BY <1>1, <1>2 DEF Understood

LEMMA IdleReadsNothing == CostsInv /\ pc \notin {"claude", "codex"} => reading = ""
BY FilesSplit DEF CostsInv, RequestTyped, Placed

LEMMA RequestBegins == ASSUME CostsInv, handleCosts PROVE CostsInv'
<1>1. /\ pc' = "claude" /\ date' \in Date /\ todo' = collectEngineWorkdirs(config, "claude")
      /\ seen' = {} /\ entries' = {} /\ visited' = {} /\ sessions' = <<>> /\ reading' = reading
      /\ read' = read /\ acc' = acc /\ reports' = reports /\ cfg' = config /\ lost' = {}
      /\ due' = {f \in Files : Belongs(f, date', config)} /\ config \in Configs
      /\ UNCHANGED outsideVars /\ lines' = lines /\ mtime' = mtime /\ gone' = gone
  BY DEF handleCosts, outsideVars, fileVars, CostsInv, FilesTyped
<1>2. reading = "" /\ read = 0 /\ acc = NothingFound
  BY IdleReadsNothing DEF handleCosts, CostsInv, Placed
<1>3. RequestTyped'
  <2>1. collectEngineWorkdirs(config, "claude") \subseteq Workdirs
    BY <1>1, WorkdirsCollected
  <2>2. <<>> \in Seq(SessionType)
    BY EmptySeq
  <2> QED
    BY <1>1, <2>1, <2>2 DEF CostsInv, RequestTyped, SessionType, Acc, Charged, NoLine, Names
<1>4. Placed'
  BY <1>1, <1>2, FilesSplit DEF Placed, NothingFound, NoLine, NoTime
<1>5. Understood'
  BY <1>1, <1>2, UnderstoodStays DEF CostsInv
<1>6. Once'
  BY <1>1, <1>2, Empties DEF Once
<1>7. \A f \in due' : f \in Files /\ Belongs(f, date', config)
  BY <1>1
<1>8. Wanted'
  <2>1. \A f \in due' : (mtime[f] # NoTime)'
    BY <1>1, <1>7 DEF Belongs, Alive, NoTime
  <2>2. \A f \in due' : HasUsed(lines[f])'
    <3> SUFFICES ASSUME NEW f \in due' PROVE HasUsed(lines[f])'
      OBVIOUS
    <3>1. HasUsed(lines[f])
      BY <1>7 DEF Belongs
    <3> QED
      BY <1>1, <3>1 DEF HasUsed, Charges, Huge
  <2>3. \A f \in due' : f \in ClaudeFiles =>
           /\ (Midnight(date) <= mtime[f])'
           /\ (\E wd \in collectEngineWorkdirs(cfg, "claude") : Slug[wd] = Dir[f])'
    BY <1>1, <1>7 DEF Belongs, InDay, Midnight, collectEngineWorkdirs
  <2>4. \A f \in due' : f \in CodexFiles => /\ InDay(StartedAt(f), date)'
                                            /\ (Cwd(f) \in collectEngineWorkdirs(cfg, "codex"))'
    BY <1>1, <1>7, FilesSplit DEF Belongs, InDay, Midnight, StartedAt, Cwd, collectEngineWorkdirs
  <2> QED
    BY <2>1, <2>2, <2>3, <2>4 DEF Wanted
<1>9. NoneLost'
  <2> SUFFICES ASSUME NEW f \in due' PROVE Ahead(f)'
    BY <1>1 DEF NoneLost
  <2>1. f \in ClaudeFiles => \E wd \in collectEngineWorkdirs(config, "claude") : Slug[wd] = Dir[f]
    BY <1>7 DEF Belongs
  <2> QED
    BY <1>1, <1>7, <2>1, FilesSplit DEF Ahead
<1> QED
  BY <1>1, <1>3, <1>4, <1>5, <1>6, <1>8, <1>9, StepKeeps

LEMMA DirRead == ASSUME CostsInv, NEW wd \in Workdirs, ReadDir(wd) PROVE CostsInv'
<1>1. /\ pc = "claude" /\ pc' = pc /\ reading = "" /\ reading' = reading /\ entries = {} /\ wd \in todo
      /\ todo' = todo \ {wd} /\ seen' = seen \cup {Slug[wd]}
      /\ entries' = {f \in ClaudeFiles : Alive(f) /\ Dir[f] = Slug[wd] /\ Slug[wd] \notin seen}
      /\ UNCHANGED <<outsideVars, askedVars, lines, mtime, gone, date, cfg, lost, visited, read, acc, sessions, reports, due>>
  BY DEF ReadDir, outsideVars, fileVars, askedVars
<1>2. RequestTyped'
  BY <1>1 DEF CostsInv, RequestTyped, SessionType, Acc, Charged, NoLine, Names
<1>3. Placed'
  BY <1>1, FilesSplit DEF CostsInv, Placed, NothingFound, NoLine, NoTime
<1>4. Understood' /\ Wanted'
  BY <1>1, UnderstoodStays, WantedStays DEF CostsInv
<1>5. Once'
  <2>1. \A i \in DOMAIN sessions : Taken(sessions[i].file)'
    BY <1>1 DEF CostsInv, Once, Taken
  <2> QED
    BY <1>1, <2>1 DEF CostsInv, Once
<1>6. NoneLost'
  <2> SUFFICES ASSUME NEW f \in due \ lost, Eligible(f)' PROVE Ahead(f)' \/ Listed(f)'
    BY <1>1 DEF NoneLost
  <2>1. Eligible(f) /\ f \notin gone /\ mtime[f] # NoTime
    BY <1>1 DEF Eligible, Midnight, CostsInv, Wanted
  <2>2. Ahead(f) \/ Listed(f)
    <3>1. f # reading
      BY <1>1, FilesSplit DEF CostsInv, RequestTyped
    <3> QED
      BY <1>1, <2>1, <3>1 DEF CostsInv, NoneLost
  <2>3. CASE Listed(f)
    BY <1>1, <2>3 DEF Listed
  <2>4. CASE Ahead(f)
    BY <1>1, <2>1, <2>4 DEF Ahead, Alive
  <2> QED
    BY <2>2, <2>3, <2>4
<1> QED
  BY <1>1, <1>2, <1>3, <1>4, <1>5, <1>6, StepKeeps

LEMMA DirNotRead == ASSUME CostsInv, NEW wd \in Workdirs, ReadDirFails(wd) PROVE CostsInv'
<1> DEFINE missed == {f \in ClaudeFiles : Alive(f) /\ Dir[f] = Slug[wd] /\ Slug[wd] \notin seen}
<1>1. /\ pc = "claude" /\ pc' = pc /\ reading = "" /\ entries = {} /\ wd \in todo
      /\ todo' = todo \ {wd} /\ seen' = seen \cup {Slug[wd]} /\ lost' = lost \cup missed
      /\ UNCHANGED <<outsideVars, askedVars, lines, mtime, gone, date, cfg, due, entries, visited, reading,
                     read, acc, sessions, reports>>
  BY DEF ReadDirFails, outsideVars, fileVars, askedVars
<1>2. RequestTyped'
  <2>1. missed \subseteq Files
    BY FilesSplit
  <2> QED
    BY <1>1, <2>1 DEF CostsInv, RequestTyped, SessionType, Acc, Charged, NoLine, Names
<1>3. Placed'
  BY <1>1, FilesSplit DEF CostsInv, Placed, NothingFound, NoLine, NoTime
<1>4. Understood' /\ Wanted'
  BY <1>1, UnderstoodStays, WantedStays DEF CostsInv
<1>5. Once'
  <2>1. \A i \in DOMAIN sessions : Taken(sessions[i].file)'
    BY <1>1 DEF CostsInv, Once, Taken
  <2> QED
    BY <1>1, <2>1 DEF CostsInv, Once
<1>6. NoneLost'
  <2> SUFFICES ASSUME NEW f \in due \ lost', Eligible(f)' PROVE Ahead(f)' \/ Listed(f)'
    BY <1>1 DEF NoneLost
  <2>1. Eligible(f) /\ f \notin gone /\ mtime[f] # NoTime /\ f \notin missed /\ f \notin lost
    BY <1>1 DEF Eligible, Midnight, CostsInv, Wanted
  <2>2. Ahead(f) \/ Listed(f)
    <3>1. f # reading
      BY <1>1, FilesSplit DEF CostsInv, RequestTyped
    <3> QED
      BY <1>1, <2>1, <3>1 DEF CostsInv, NoneLost
  <2>3. CASE Listed(f)
    BY <1>1, <2>3 DEF Listed
  <2>4. CASE Ahead(f)
    BY <1>1, <2>1, <2>4 DEF Ahead, Alive
  <2> QED
    BY <2>2, <2>3, <2>4
<1> QED
  BY <1>1, <1>2, <1>3, <1>4, <1>5, <1>6, StepKeeps

LEMMA NewFileIsRead ==
  ASSUME CostsInv, reading = "", NEW f \in Files, lines' = lines,
         reading' \in {f, ""}, read' = read, acc' = acc, pc' = pc, sessions' = sessions,
         f \in ClaudeFiles => pc = "claude", f \in CodexFiles => pc = "codex"
  PROVE  Placed' /\ Understood'
<1>1. read = 0 /\ acc = NothingFound
  BY DEF CostsInv, Placed
<1>2. Placed'
  <2>1. \A g \in Files : 0 \in 0 .. Len(lines[g])
    <3>1. \A g \in Files : Len(lines[g]) \in Nat
      BY FileFacts DEF CostsInv
    <3> QED
      BY <3>1, Empties
  <2>2. 1 .. 0 = {}
    BY Empties
  <2>3. pc # "idle"
    BY FilesSplit
  <2> QED
    BY <1>1, <2>1, <2>2, <2>3, FilesSplit DEF Placed, NothingFound, NoLine, NoTime
<1>3. Understood'
  <2>1. 1 .. read' = {} /\ ~(read' > 0) /\ read' = 0
    BY <1>1, Empties
  <2>2. acc'.cwd = "" /\ acc'.at = NoTime' /\ acc'.hasTotal = FALSE
    BY <1>1, NothingIsFound DEF NoTime
  <2> QED
    BY <2>1, <2>2 DEF Understood
<1> QED
  BY <1>2, <1>3

LEMMA FileChecked == ASSUME CostsInv, NEW f \in Files, Stat(f) PROVE CostsInv'
<1>1. /\ pc = "claude" /\ pc' = pc /\ reading = "" /\ f \in entries
      /\ entries' = entries \ {f}
      /\ reading' = IF Alive(f) /\ InDay(mtime[f], date) THEN f ELSE ""
      /\ UNCHANGED <<outsideVars, askedVars, lines, mtime, gone, date, cfg, lost, todo, seen, visited, read, acc, sessions, reports, due>>
  BY DEF Stat, outsideVars, fileVars, askedVars
<1>2. f \in ClaudeFiles
  BY <1>1 DEF CostsInv, RequestTyped
<1>3. RequestTyped'
  BY <1>1 DEF CostsInv, RequestTyped, SessionType, Acc, Charged, NoLine, Names
<1>4. Placed' /\ Understood'
  BY <1>1, <1>2, FilesSplit, NewFileIsRead
<1>5. Wanted'
  BY <1>1, WantedStays DEF CostsInv
<1>6. Once'
  <2>1. Dir[f] \in seen /\ \A g \in entries : Dir[g] \in seen
    BY <1>1 DEF CostsInv, Once
  <2>2. \A i \in DOMAIN sessions : Taken(sessions[i].file) /\ sessions[i].file # f
    BY <1>1, <1>2 DEF CostsInv, Once, Taken
  <2>3. \A i \in DOMAIN sessions : Taken(sessions[i].file)' /\ sessions[i].file # reading'
    <3>1. \A i \in DOMAIN sessions : sessions[i].file \in Files
      <4>1. sessions \in Seq(SessionType)
        BY DEF CostsInv, RequestTyped
      <4>2. \A i \in DOMAIN sessions : sessions[i] \in SessionType
        BY <4>1, ElementsOf
      <4> QED
        BY <4>2 DEF SessionType
    <3> QED
      BY <1>1, <2>2, <3>1, FilesSplit DEF Taken
  <2>4. reading' # "" => Taken(f)'
    BY <1>1, <1>2, <2>1 DEF Taken
  <2>5. \A i, j \in DOMAIN sessions : sessions[i].file = sessions[j].file => i = j
    BY DEF CostsInv, Once
  <2>6. reading' # "" => reading' = f
    BY <1>1
  <2> QED
    BY <1>1, <2>1, <2>3, <2>4, <2>5, <2>6 DEF Once
<1>7. NoneLost'
  <2> SUFFICES ASSUME NEW g \in due \ lost, Eligible(g)' PROVE Ahead(g)' \/ reading' = g \/ Listed(g)'
    BY <1>1 DEF NoneLost
  <2>1. Eligible(g) /\ g \notin gone /\ mtime[g] # NoTime
        /\ (g \in ClaudeFiles => Midnight(date) <= mtime[g] /\ mtime[g] <= Midnight(date) + DayLength)
    BY <1>1 DEF Eligible, Midnight, CostsInv, Wanted
  <2>2. Ahead(g) \/ Listed(g)
    <3>1. g # reading
      BY <1>1, FilesSplit DEF CostsInv, RequestTyped
    <3> QED
      BY <1>1, <2>1, <3>1 DEF CostsInv, NoneLost
  <2>3. CASE g = f
    BY <1>1, <1>2, <2>1, <2>3 DEF Alive, InDay
  <2>4. CASE g # f /\ Listed(g)
    BY <1>1, <2>4 DEF Listed
  <2>5. CASE g # f /\ Ahead(g)
    BY <1>1, <2>5 DEF Ahead
  <2> QED
    BY <2>2, <2>3, <2>4, <2>5
<1> QED
  BY <1>1, <1>3, <1>4, <1>5, <1>6, <1>7, StepKeeps

LEMMA SessionFiles ==
  ASSUME CostsInv
  PROVE  /\ sessions \in Seq(SessionType) /\ Len(sessions) \in Nat
         /\ DOMAIN sessions = 1 .. Len(sessions)
         /\ \A i \in DOMAIN sessions : sessions[i] \in SessionType /\ sessions[i].file \in Files
<1>1. sessions \in Seq(SessionType)
  BY DEF CostsInv, RequestTyped
<1>2. /\ Len(sessions) \in Nat /\ DOMAIN sessions = 1 .. Len(sessions)
      /\ \A i \in DOMAIN sessions : sessions[i] \in SessionType
  BY <1>1, ElementsOf
<1> QED
  BY <1>1, <1>2 DEF SessionType

LEMMA WalkBegun == ASSUME CostsInv, BeginWalk PROVE CostsInv'
<1>1. /\ pc = "claude" /\ reading = "" /\ entries = {} /\ todo = {} /\ reading' = reading
      /\ pc' = IF collectEngineWorkdirs(cfg, "codex") = {} THEN "aggregate" ELSE "codex"
      /\ entries' = {f \in CodexFiles : pc' = "codex" /\ Alive(f)}
      /\ UNCHANGED <<outsideVars, askedVars, lines, mtime, gone, date, cfg, lost, todo, seen, visited, read, acc, sessions, reports, due>>
  BY DEF BeginWalk, outsideVars, fileVars, askedVars
<1>2. RequestTyped'
  BY <1>1 DEF CostsInv, RequestTyped, SessionType, Acc, Charged, NoLine, Names
<1>3. Placed'
  BY <1>1, FilesSplit DEF CostsInv, Placed, NothingFound, NoLine, NoTime
<1>4. Understood' /\ Wanted'
  BY <1>1, UnderstoodStays, WantedStays DEF CostsInv
<1>5. Once'
  <2>1. \A i \in DOMAIN sessions : Taken(sessions[i].file)'
    BY <1>1 DEF CostsInv, Once, Taken
  <2> QED
    BY <1>1, <2>1 DEF CostsInv, Once
<1>6. NoneLost'
  <2> SUFFICES ASSUME NEW f \in due \ lost, Eligible(f)' PROVE Ahead(f)' \/ Listed(f)'
    BY <1>1 DEF NoneLost
  <2>1. Eligible(f) /\ f \notin gone /\ mtime[f] # NoTime
        /\ (f \in CodexFiles => Cwd(f) \in collectEngineWorkdirs(cfg, "codex"))
    BY <1>1 DEF Eligible, Midnight, CostsInv, Wanted
  <2>2. f \in Files
    BY DEF CostsInv, RequestTyped
  <2>3. Ahead(f) \/ Listed(f)
    BY <1>1, <2>1, <2>2, FilesSplit DEF CostsInv, NoneLost
  <2>4. CASE Listed(f)
    BY <1>1, <2>4 DEF Listed
  <2>5. CASE Ahead(f)
    <3>1. f \in CodexFiles
      BY <1>1, <2>5 DEF Ahead
    <3>2. pc' = "codex"
      BY <1>1, <2>1, <3>1
    <3> QED
      BY <1>1, <2>1, <3>1, <3>2 DEF Ahead, Alive
  <2> QED
    BY <2>3, <2>4, <2>5
<1> QED
  BY <1>1, <1>2, <1>3, <1>4, <1>5, <1>6, StepKeeps

LEMMA FileVisited == ASSUME CostsInv, NEW f \in Files, Visit(f) PROVE CostsInv'
<1>1. /\ pc = "codex" /\ pc' = pc /\ reading = "" /\ f \in CodexFiles \ visited
      /\ visited' = visited \cup {f} /\ entries' = entries \ {f}
      /\ reading' = IF Alive(f) THEN f ELSE ""
      /\ UNCHANGED <<outsideVars, askedVars, lines, mtime, gone, date, cfg, lost, todo, seen, read, acc, sessions, reports, due>>
  BY DEF Visit, outsideVars, fileVars, askedVars
<1>2. RequestTyped'
  BY <1>1 DEF CostsInv, RequestTyped, SessionType, Acc, Charged, NoLine, Names
<1>3. Placed' /\ Understood'
  BY <1>1, FilesSplit, NewFileIsRead
<1>4. Wanted'
  BY <1>1, WantedStays DEF CostsInv
<1>5. Once'
  <2>1. \A i \in DOMAIN sessions : Taken(sessions[i].file) /\ sessions[i].file # f
    BY <1>1, FilesSplit DEF CostsInv, Once, Taken
  <2>2. \A i \in DOMAIN sessions : Taken(sessions[i].file)' /\ sessions[i].file # reading'
    BY <1>1, <2>1, SessionFiles, FilesSplit DEF Taken
  <2>3. reading' # "" => reading' = f /\ Taken(f)'
    BY <1>1, FilesSplit DEF Taken
  <2>4. \A i, j \in DOMAIN sessions : sessions[i].file = sessions[j].file => i = j
    BY DEF CostsInv, Once
  <2> QED
    BY <1>1, <2>2, <2>3, <2>4 DEF Once
<1>6. NoneLost'
  <2> SUFFICES ASSUME NEW g \in due \ lost, Eligible(g)' PROVE Ahead(g)' \/ reading' = g \/ Listed(g)'
    BY <1>1 DEF NoneLost
  <2>1. Eligible(g) /\ g \notin gone /\ mtime[g] # NoTime /\ g \in Files
    BY <1>1 DEF Eligible, Midnight, CostsInv, Wanted, RequestTyped
  <2>2. Ahead(g) \/ Listed(g)
    BY <1>1, <2>1, FilesSplit DEF CostsInv, NoneLost
  <2>3. CASE g = f
    BY <1>1, <2>1, <2>3 DEF Alive
  <2>4. CASE g # f /\ Listed(g)
    BY <1>1, <2>4 DEF Listed
  <2>5. CASE g # f /\ Ahead(g)
    BY <1>1, <2>5 DEF Ahead
  <2> QED
    BY <2>2, <2>3, <2>4, <2>5
<1> QED
  BY <1>1, <1>2, <1>3, <1>4, <1>5, <1>6, StepKeeps

LEMMA WalkEnded == ASSUME CostsInv, EndWalk PROVE CostsInv'
<1>1. /\ pc = "codex" /\ reading = "" /\ entries = {} /\ pc' = "aggregate"
      /\ UNCHANGED <<outsideVars, askedVars, lines, mtime, gone, date, cfg, lost, todo, seen, entries, visited, reading, read, acc,
                     sessions, reports, due>>
  BY DEF EndWalk, outsideVars, fileVars, askedVars
<1>2. RequestTyped'
  BY <1>1 DEF CostsInv, RequestTyped, SessionType, Acc, Charged, NoLine, Names
<1>3. Placed'
  BY <1>1, FilesSplit DEF CostsInv, Placed, NothingFound, NoLine, NoTime
<1>4. Understood' /\ Wanted'
  BY <1>1, UnderstoodStays, WantedStays DEF CostsInv
<1>5. Once'
  <2>1. \A i \in DOMAIN sessions : Taken(sessions[i].file)'
    BY <1>1 DEF CostsInv, Once, Taken
  <2> QED
    BY <1>1, <2>1 DEF CostsInv, Once
<1>6. NoneLost'
  <2> SUFFICES ASSUME NEW f \in due \ lost, Eligible(f)' PROVE Listed(f)'
    BY <1>1 DEF NoneLost
  <2>1. Eligible(f) /\ f \in Files
    BY <1>1 DEF Eligible, Midnight, CostsInv, RequestTyped
  <2>2. Listed(f)
    BY <1>1, <2>1, FilesSplit DEF CostsInv, NoneLost, Ahead
  <2> QED
    BY <1>1, <2>2 DEF Listed
<1> QED
  BY <1>1, <1>2, <1>3, <1>4, <1>5, <1>6, StepKeeps

LEMMA ReportMade == ASSUME CostsInv, Aggregate PROVE CostsInv'
<1>1. /\ pc = "aggregate" /\ pc' = "idle" /\ sessions' = <<>> /\ DOMAIN reports' = DOMAIN reports
      /\ UNCHANGED <<outsideVars, askedVars, lines, mtime, gone, date, cfg, lost, todo, seen, entries, visited, reading, read, acc, due>>
  BY DEF Aggregate, outsideVars, fileVars, askedVars
<1>2. reading = ""
  BY <1>1, IdleReadsNothing
<1>3. RequestTyped'
  <2>1. <<>> \in Seq(SessionType)
    BY EmptySeq
  <2> QED
    BY <1>1, <2>1 DEF CostsInv, RequestTyped, SessionType, Acc, Charged, NoLine, Names
<1>4. Placed'
  BY <1>1, <1>2, FilesSplit DEF CostsInv, Placed, NothingFound, NoLine, NoTime
<1>5. Understood' /\ Wanted'
  BY <1>1, UnderstoodStays, WantedStays DEF CostsInv
<1>6. Once' /\ NoneLost'
  <2>1. Once'
    BY <1>1, <1>2, Empties DEF Once
  <2>2. NoneLost'
    BY <1>1 DEF NoneLost
  <2> QED
    BY <2>1, <2>2
<1> QED
  BY <1>1, <1>3, <1>4, <1>5, <1>6, StepKeeps

LEMMA UpTo ==
  /\ \A n \in Nat : \A i \in 1 .. n + 1 : i \in 1 .. n \/ i = n + 1
  /\ \A n, m \in Nat : n < m => n + 1 \in 1 .. m /\ n + 1 \in 0 .. m
  /\ \A n \in Nat : n + 1 \in Nat /\ n + 1 > 0 /\ n + 1 # 0 /\ (n > 0 <=> n # 0)
  /\ \A n \in Nat : n > 0 => 1 \in 1 .. n /\ n + 1 # 1
  /\ 0 + 1 = 1
  /\ \A n \in Nat : \A k \in 1 .. 2 : n > 0 => n + k > 0
OBVIOUS

\* The line that a parser reads next.
LEMMA LineRead ==
  ASSUME CostsInv, ReadLine
  PROVE  /\ reading \in Files /\ read \in Nat /\ read < Len(lines[reading])
         /\ Len(lines[reading]) \in Nat
         /\ read + 1 \in 1 .. Len(lines[reading])
         /\ lines[reading][read + 1] \in LinesFor(reading)
         /\ lines[reading][read + 1] # Huge
         /\ acc \in Acc
<1>1. reading \in Files /\ read \in Nat /\ acc \in Acc
  BY DEF ReadLine, CostsInv, RequestTyped
<1>2. read < Len(lines[reading]) /\ lines[reading][read + 1] # Huge
  BY DEF ReadLine, More
<1>3. Len(lines[reading]) \in Nat
  BY <1>1, FileFacts DEF CostsInv
<1>4. read + 1 \in 1 .. Len(lines[reading])
  BY <1>1, <1>2, <1>3, UpTo
<1>5. lines[reading][read + 1] \in LinesFor(reading)
  BY <1>1, <1>4, FileFacts DEF CostsInv
<1> QED
  BY <1>1, <1>2, <1>3, <1>4, <1>5

LEMMA LineOfClaude ==
  ASSUME CostsInv, ReadLine, reading \in ClaudeFiles
  PROVE  /\ acc' \in Acc
         /\ (\E i \in 1 .. read + 1 : Charges(lines[reading][i])) =>
              \E id \in Ids : acc'.latest[id] # NoLine
<1> DEFINE l == lines[reading][read + 1]
<1>1. l \in ClaudeLine /\ acc \in Acc /\ acc' = parseSessionJSONL(acc, l) /\ read \in Nat
  BY LineRead DEF ReadLine, LinesFor
<1> HIDE DEF l
<1>2. /\ acc' \in Acc
      /\ \A id \in Ids : acc'.latest[id] = IF l \in Charged /\ l.id = id THEN l ELSE acc.latest[id]
  BY <1>1, ClaudeLineParsed
<1>3. l \in Charged => l.id \in Ids /\ l # NoLine
  BY ChargedFacts
<1>4. ASSUME NEW i \in 1 .. read + 1, Charges(lines[reading][i])
      PROVE  \E id \in Ids : acc'.latest[id] # NoLine
  <2>1. CASE i = read + 1
    <3>1. l \in Charged
      BY <1>1, <1>4, <2>1, ChargedFacts DEF l
    <3> QED
      BY <1>2, <1>3, <3>1
  <2>2. CASE i \in 1 .. read
    <3>1. PICK id \in Ids : acc.latest[id] # NoLine
      BY <1>4, <2>2 DEF CostsInv, Understood
    <3> QED
      BY <1>2, <1>3, <3>1
  <2> QED
    BY <1>1, <2>1, <2>2, UpTo
<1> QED
  BY <1>2, <1>4

LEMMA LineOfCodex ==
  ASSUME CostsInv, ReadLine, reading \in CodexFiles
  PROVE  /\ acc' \in Acc
         /\ acc'.hasTotal => acc'.total > 0
         /\ (\E i \in 1 .. read + 1 : Charges(lines[reading][i])) => acc'.hasTotal \/ acc'.sum > 0
         /\ acc'.cwd = Cwd(reading) /\ acc'.at = StartedAt(reading)
<1> DEFINE l == lines[reading][read + 1]
<1>0. reading \notin ClaudeFiles
  BY FilesSplit
<1>1. l \in CodexLine /\ acc \in Acc /\ acc' = parseCodexSessionJSONL(acc, l) /\ read \in Nat
  BY <1>0, LineRead DEF ReadLine, LinesFor
<1>2. l.kind = "meta" <=> read = 0
  <2>1. read + 1 \in DOMAIN lines[reading]
    BY LineRead, FileFacts DEF CostsInv
  <2>2. l.kind = "meta" <=> read + 1 = 1
    BY <2>1 DEF CostsInv, FilesTyped
  <2> HIDE DEF l
  <2>3. read + 1 = 1 <=> read = 0
    BY <1>1
  <2> QED
    BY <2>2, <2>3
<1>3. read = 0 => l = lines[reading][1]
  BY UpTo
<1> HIDE DEF l
<1> DEFINE b == acc'
<1>4. /\ b \in Acc
      /\ b.cwd = IF l.kind = "meta" /\ acc.cwd = "" THEN l.cwd ELSE acc.cwd
      /\ b.at = IF l.kind = "meta" /\ acc.at = NoTime THEN l.at ELSE acc.at
      /\ b.total = IF l.kind = "count" /\ l.total > 0 THEN l.total ELSE acc.total
      /\ b.hasTotal <=> acc.hasTotal \/ (l.kind = "count" /\ l.total > 0)
      /\ b.sum = IF l.kind = "count" THEN acc.sum + l.last ELSE acc.sum
  BY <1>1, CodexLineParsed
<1>5. /\ acc.hasTotal => acc.total > 0
      /\ (\E i \in 1 .. read : Charges(lines[reading][i])) => acc.hasTotal \/ acc.sum > 0
      /\ read = 0 => acc.cwd = "" /\ acc.at = NoTime
      /\ read > 0 => acc.cwd = Cwd(reading) /\ acc.at = StartedAt(reading)
  BY DEF CostsInv, Understood
<1> HIDE DEF b
<1>6. b.hasTotal => b.total > 0
  BY <1>4, <1>5
<1>7. ASSUME NEW i \in 1 .. read + 1, Charges(lines[reading][i])
      PROVE  b.hasTotal \/ b.sum > 0
  <2>0. acc.sum \in Nat /\ (l.kind = "count" => l.last \in 1 .. 2)
    BY <1>1, CodexLineFacts DEF Acc
  <2>1. CASE i = read + 1
    <3>1. l.kind = "count"
      BY <1>1, <1>7, <2>1, CodexLineFacts DEF l
    <3>2. b.sum = acc.sum + l.last
      BY <1>4, <3>1
    <3> QED
      BY <2>0, <3>1, <3>2
  <2>2. CASE i \in 1 .. read
    <3>1. acc.hasTotal \/ acc.sum > 0
      BY <1>5, <1>7, <2>2
    <3>2. CASE l.kind = "count"
      <4>1. b.sum = acc.sum + l.last
        BY <1>4, <3>2
      <4>2. acc.sum > 0 => b.sum > 0
        BY <2>0, <3>2, <4>1, UpTo
      <4> QED
        BY <1>4, <3>1, <4>2
    <3>3. CASE l.kind # "count"
      BY <1>4, <3>1, <3>3
    <3> QED
      BY <3>2, <3>3
  <2> QED
    BY <1>1, <2>1, <2>2, UpTo
<1>8. b.cwd = Cwd(reading) /\ b.at = StartedAt(reading)
  <2>1. CASE read = 0
    BY <1>2, <1>3, <1>4, <1>5, <2>1 DEF Cwd, StartedAt
  <2>2. CASE read # 0
    <3>1. read > 0
      BY <1>1, <2>2, UpTo
    <3> QED
      BY <1>2, <1>4, <1>5, <2>2, <3>1
  <2> QED
    BY <2>1, <2>2
<1> QED
  BY <1>4, <1>6, <1>7, <1>8 DEF b

LEMMA LineIsRead == ASSUME CostsInv, ReadLine PROVE CostsInv'
<1>1. /\ reading # "" /\ reading \in Files /\ reading' = reading /\ read' = read + 1 /\ pc' = pc
      /\ UNCHANGED <<outsideVars, askedVars, lines, mtime, gone, date, cfg, lost, todo, seen, entries, visited, sessions,
                     reports, due>>
  BY LineRead DEF ReadLine, outsideVars, fileVars, askedVars
<1>2. reading \in ClaudeFiles \/ reading \in CodexFiles
  BY <1>1, FilesSplit
<1>3. acc' \in Acc /\ read' \in Nat /\ read \in Nat
  BY <1>1, <1>2, LineRead, LineOfClaude, LineOfCodex, UpTo
<1>4. RequestTyped'
  BY <1>1, <1>3 DEF CostsInv, RequestTyped, SessionType, Acc, Charged, NoLine, Names
<1>5. Placed'
  <2>1. read' \in 0 .. Len(lines[reading])
    BY <1>1, LineRead, UpTo
  <2>2. \A i \in 1 .. read' : lines[reading][i] # Huge
    <3>1. \A i \in 1 .. read : lines[reading][i] # Huge
      BY <1>1 DEF CostsInv, Placed
    <3>2. \A i \in 1 .. read' : i \in 1 .. read \/ i = read + 1
      BY <1>1, <1>3, UpTo
    <3> QED
      BY <3>1, <3>2, LineRead
  <2>3. /\ reading \in ClaudeFiles => pc = "claude"
        /\ reading \in CodexFiles => pc = "codex"
        /\ pc # "idle"
    BY <1>2 DEF CostsInv, Placed
  <2> QED
    BY <1>1, <2>1, <2>2, <2>3 DEF Placed, Huge
<1>6. Understood'
  <2>1. read' > 0 /\ read' # 0
    BY <1>1, <1>3, UpTo
  <2>2. CASE reading \in ClaudeFiles
    <3>1. (\E i \in 1 .. read' : Charges(lines[reading][i])) => \E id \in Ids : acc'.latest[id] # NoLine
      BY <1>1, <2>2, LineOfClaude
    <3>2. reading \notin CodexFiles
      BY <2>2, FilesSplit
    <3> QED
      BY <1>1, <3>1, <3>2 DEF Understood, Charges, NoLine
  <2>3. CASE reading \in CodexFiles
    <3>1. /\ acc'.hasTotal => acc'.total > 0
          /\ (\E i \in 1 .. read' : Charges(lines[reading][i])) => acc'.hasTotal \/ acc'.sum > 0
          /\ acc'.cwd = Cwd(reading) /\ acc'.at = StartedAt(reading)
      BY <1>1, <2>3, LineOfCodex
    <3>2. reading \notin ClaudeFiles
      BY <2>3, FilesSplit
    <3> QED
      BY <1>1, <2>1, <3>1, <3>2 DEF Understood, Charges, Cwd, StartedAt
  <2> QED
    BY <1>2, <2>2, <2>3
<1>7. Once'
  <2>1. Taken(reading)' /\ \A i \in DOMAIN sessions : Taken(sessions[i].file)'
    BY <1>1 DEF CostsInv, Once, Taken
  <2> QED
    BY <1>1, <2>1 DEF CostsInv, Once
<1>8. Wanted'
  BY <1>1, WantedStays DEF CostsInv
<1>9. NoneLost'
  <2> SUFFICES ASSUME pc # "idle", NEW f \in due \ lost, Eligible(f)' PROVE (Ahead(f) \/ reading = f \/ Listed(f))'
    BY <1>1 DEF NoneLost
  <2>1. Eligible(f)
    BY <1>1 DEF Eligible, Midnight
  <2>2. Ahead(f) \/ reading = f \/ Listed(f)
    BY <2>1 DEF CostsInv, NoneLost
  <2> QED
    BY <1>1, <2>2 DEF Ahead, Listed
<1> QED
  BY <1>1, <1>4, <1>5, <1>6, <1>7, <1>8, <1>9, StepKeeps

\* An appended sequence of at most one session.
LEMMA Appended ==
  ASSUME NEW ss \in Seq(SessionType), NEW new \in Seq(SessionType), Len(new) \in 0 .. 1
  PROVE  /\ ss \o new \in Seq(SessionType)
         /\ \A i \in DOMAIN ss : i \in DOMAIN (ss \o new) /\ (ss \o new)[i] = ss[i]
         /\ \A i \in DOMAIN (ss \o new) :
              (i \in DOMAIN ss /\ (ss \o new)[i] = ss[i])
              \/ (Len(new) = 1 /\ i = Len(ss) + 1 /\ (ss \o new)[i] = new[1])
         /\ Len(new) = 1 => /\ Len(ss) + 1 \in DOMAIN (ss \o new)
                            /\ (ss \o new)[Len(ss) + 1] = new[1]
<1> DEFINE all == ss \o new
<1>1. /\ all \in Seq(SessionType) /\ Len(all) = Len(ss) + Len(new) /\ Len(ss) \in Nat
      /\ \A i \in 1 .. Len(ss) + Len(new) : all[i] = IF i <= Len(ss) THEN ss[i] ELSE new[i - Len(ss)]
  BY ConcatProperties, ElementsOf
<1> HIDE DEF all
<1>2. DOMAIN all = 1 .. Len(ss) + Len(new) /\ DOMAIN ss = 1 .. Len(ss)
  BY <1>1, ElementsOf
<1> DEFINE n == Len(ss)
    k == Len(new)
<1>3. /\ n \in Nat /\ k \in 0 .. 1 /\ DOMAIN all = 1 .. n + k /\ DOMAIN ss = 1 .. n
      /\ \A i \in 1 .. n + k : all[i] = IF i <= n THEN ss[i] ELSE new[i - n]
  BY <1>1, <1>2
<1> HIDE DEF n, k
<1>4. \A i \in 1 .. n : i \in 1 .. n + k /\ i <= n
  BY <1>3
<1>5. \A i \in 1 .. n + k : i \in 1 .. n \/ (k = 1 /\ i = n + 1)
  BY <1>3
<1>6. k = 1 => n + 1 \in 1 .. n + k /\ ~(n + 1 <= n) /\ (n + 1) - n = 1
  BY <1>3
<1>7. \A i \in DOMAIN ss : i \in DOMAIN all /\ all[i] = ss[i]
  BY <1>3, <1>4
<1>8. k = 1 => n + 1 \in DOMAIN all /\ all[n + 1] = new[1]
  BY <1>3, <1>6
<1>9. \A i \in DOMAIN all : (i \in DOMAIN ss /\ all[i] = ss[i]) \/ (k = 1 /\ i = n + 1 /\ all[i] = new[1])
  BY <1>3, <1>5, <1>7, <1>8
<1> QED
  BY <1>1, <1>7, <1>8, <1>9 DEF all, n, k

\* What CloseFile appends.
LEMMA FoundFacts ==
  ASSUME CostsInv, reading # ""
  PROVE  /\ reading \in Files /\ Found \in Seq(SessionType) /\ Len(Found) \in 0 .. 1
         /\ Len(Found) = 1 => Found[1].file = reading
<1>1. reading \in Files /\ acc \in Acc /\ read \in Nat /\ cfg \in Configs
  BY DEF CostsInv, RequestTyped
<1>2. CASE reading \in ClaudeFiles
  BY <1>1, <1>2, ClaudeSessionFacts DEF Found
<1>3. CASE reading \notin ClaudeFiles
  BY <1>1, <1>3, CodexSessionFacts DEF Found
<1> QED
  BY <1>1, <1>2, <1>3

LEMMA NextLine ==
  /\ \A n \in Nat : \A m \in 0 .. n : ~(m < n) => m = n
  /\ \A m, i \in Nat : i > m => m + 1 \in 1 .. i
  /\ \A m, i \in Nat : 0 < i /\ ~(i > m) => i \in 1 .. m
  /\ \A n \in Nat : \A i \in 1 .. n : i \in Nat /\ 0 < i
  /\ \A n, m \in Nat : \A i \in 1 .. n : i > m => m < n
  /\ \A n \in Nat : \A i \in 1 .. n : n > 0
OBVIOUS

\* At its end a parser has read the line in which something was used.
LEMMA UsedIsRead ==
  ASSUME CostsInv, reading # "", ~More, HasUsed(lines[reading])
  PROVE  \E i \in 1 .. read : Charges(lines[reading][i])
<1>1. reading \in Files /\ read \in Nat
  BY DEF CostsInv, RequestTyped
<1>2. Len(lines[reading]) \in Nat /\ DOMAIN lines[reading] = 1 .. Len(lines[reading])
  BY <1>1, FileFacts DEF CostsInv
<1>3. PICK i \in DOMAIN lines[reading] :
         Charges(lines[reading][i]) /\ \A j \in 1 .. i : lines[reading][j] # Huge
  BY DEF HasUsed
<1>4. i \in Nat /\ 0 < i /\ i \in 1 .. Len(lines[reading])
  BY <1>2, <1>3, NextLine
<1>5. ~(i > read)
  <2> SUFFICES ASSUME i > read PROVE FALSE
    OBVIOUS
  <2>1. read + 1 \in 1 .. i
    BY <1>1, <1>4, NextLine
  <2>2. read < Len(lines[reading])
    BY <1>1, <1>2, <1>4, NextLine
  <2>3. lines[reading][read + 1] = Huge
    BY <2>2 DEF More
  <2> QED
    BY <1>3, <2>1, <2>3
<1>6. i \in 1 .. read
  BY <1>1, <1>4, <1>5, NextLine
<1> QED
  BY <1>3, <1>6

\* A file that should be in the report yields a session when it has been read.
LEMMA DueIsFound ==
  ASSUME CostsInv, Finished, reading \in due, reading \notin gone
  PROVE  Len(Found) = 1
<1>1. reading # "" /\ reading \in Files /\ acc \in Acc /\ read \in Nat /\ ~More /\ cfg \in Configs
  BY DEF Finished, CostsInv, RequestTyped
<1>2. HasUsed(lines[reading])
  BY DEF CostsInv, Wanted
<1>3. \E i \in 1 .. read : Charges(lines[reading][i])
  BY <1>1, <1>2, UsedIsRead
<1>4. CASE reading \in ClaudeFiles
  <2>1. Requests(acc) # {}
    BY <1>3, <1>4 DEF CostsInv, Understood, Requests
  <2> QED
    BY <1>1, <1>4, <2>1, ClaudeSessionFacts DEF Found
<1>5. CASE reading \in CodexFiles
  <2>1. reading \notin ClaudeFiles
    BY <1>5, FilesSplit
  <2>2. read > 0
    <3>1. PICK i \in 1 .. read : TRUE
      BY <1>3
    <3> QED
      BY <1>1, <3>1, NextLine
  <2>3. /\ acc.hasTotal => acc.total > 0
        /\ acc.hasTotal \/ acc.sum > 0
        /\ acc.cwd = Cwd(reading) /\ acc.at = StartedAt(reading)
    BY <1>3, <1>5, <2>2 DEF CostsInv, Understood
  <2>4. InDay(acc.at, date) /\ acc.cwd \in collectEngineWorkdirs(cfg, "codex")
    BY <1>5, <2>3 DEF CostsInv, Wanted
  <2>5. acc.at # NoTime
    <3>1. acc.at <= Midnight(date) + DayLength
      BY <2>4 DEF InDay
    <3>2. Midnight(date) + DayLength \in 0 .. Days * DayLength
      BY Bounds DEF CostsInv, RequestTyped, Midnight
    <3> DEFINE e == Midnight(date) + DayLength
               m == Days * DayLength
    <3>3. acc.at <= e /\ e \in 0 .. m /\ m \in Nat /\ NoTime = m + 1
      BY <3>1, <3>2, Bounds
    <3> HIDE DEF e, m
    <3> QED
      BY <3>3
  <2> DEFINE tokens == IF acc.hasTotal THEN acc.total ELSE acc.sum
  <2>6. tokens # 0
    BY <2>3
  <2> HIDE DEF tokens
  <2>7. Len(CodexSession(reading, acc)) = 1
    BY <1>1, <2>3, <2>4, <2>5, <2>6, CodexSessionFacts DEF tokens
  <2> QED
    BY <2>1, <2>7 DEF Found
<1> QED
  BY <1>1, <1>4, <1>5, FilesSplit

LEMMA ReadingEnds ==
  ASSUME CostsInv, reading # "", EndReading, lost \subseteq lost', lost' \subseteq Files,
         reading \in due \ lost' /\ reading \notin gone => Len(Found) = 1
  PROVE  CostsInv'
<1>1. /\ reading # "" /\ sessions' = sessions \o Found /\ reading' = "" /\ read' = 0 /\ acc' = NothingFound
      /\ pc' = pc
      /\ UNCHANGED <<outsideVars, askedVars, lines, mtime, gone, date, cfg, todo, seen, entries, visited, reports, due>>
  BY DEF EndReading, outsideVars, fileVars, askedVars
<1>2. /\ reading \in Files /\ Found \in Seq(SessionType) /\ Len(Found) \in 0 .. 1
      /\ Len(Found) = 1 => Found[1].file = reading
  BY <1>1, FoundFacts
<1>3. sessions \in Seq(SessionType) /\ Len(sessions) \in Nat /\ DOMAIN sessions = 1 .. Len(sessions)
      /\ \A i \in DOMAIN sessions : sessions[i].file \in Files
  BY SessionFiles
<1> DEFINE all == sessions \o Found
    last == Len(sessions) + 1
<1>4. /\ all \in Seq(SessionType) /\ sessions' = all
      /\ \A i \in DOMAIN sessions : i \in DOMAIN all /\ all[i] = sessions[i]
      /\ \A i \in DOMAIN all : \/ i \in DOMAIN sessions /\ all[i] = sessions[i]
                               \/ Len(Found) = 1 /\ i = last /\ all[i] = Found[1]
      /\ Len(Found) = 1 => last \in DOMAIN all /\ all[last] = Found[1]
  BY <1>1, <1>2, <1>3, Appended
<1> HIDE DEF all, last
<1>5. RequestTyped'
  BY <1>1, <1>4, NothingIsFound DEF CostsInv, RequestTyped, SessionType, Acc, Charged, NoLine, Names
<1>6. pc # "idle" /\ Placed'
  <2>1. pc # "idle"
    BY <1>1, <1>2, FilesSplit DEF CostsInv, Placed
  <2> QED
    BY <1>1, <2>1, FilesSplit DEF Placed, NothingFound, NoLine, NoTime
<1>7. Understood'
  BY <1>1, FilesSplit DEF Understood
<1>8. Wanted'
  BY <1>1, WantedStays DEF CostsInv
<1>9. Once'
  <2>1. Taken(reading) /\ \A i \in DOMAIN sessions : Taken(sessions[i].file) /\ sessions[i].file # reading
    BY <1>1 DEF CostsInv, Once
  <2>2. \A i \in DOMAIN all : all[i].file \in Files /\ Taken(all[i].file)
    BY <1>2, <1>3, <1>4, <2>1
  <2>t. \A f \in Files : Taken(f) => Taken(f)'
    BY <1>1 DEF Taken
  <2>s. \A i \in DOMAIN sessions' : sessions'[i] = all[i] /\ i \in DOMAIN all
    BY <1>4
  <2>3. \A i \in DOMAIN sessions' : Taken(sessions[i].file)' /\ sessions'[i].file # reading'
    BY <1>1, <2>2, <2>t, <2>s, FilesSplit
  <2>4. \A i, j \in DOMAIN sessions : sessions[i].file = sessions[j].file => i = j
    BY DEF CostsInv, Once
  <2>5. \A i, j \in DOMAIN all : all[i].file = all[j].file => i = j
    BY ZenonT(60), <1>2, <1>4, <2>1, <2>4
  <2>6. pc = "claude" => \A f \in entries : Dir[f] \in seen
    BY DEF CostsInv, Once
  <2>7. /\ reading' = "" /\ pc' = pc /\ entries' = entries /\ seen' = seen
    BY <1>1
  <2>8. \A i, j \in DOMAIN sessions' : sessions'[i].file = sessions'[j].file => i = j
    BY <2>5, <2>s
  <2>9. (pc = "claude" => \A f \in entries : Dir[f] \in seen)'
    BY <2>6, <2>7
  <2>10. (reading # "" => Taken(reading))'
    BY <2>7
  <2> QED
    BY <2>3, <2>8, <2>9, <2>10 DEF Once
<1>10. NoneLost'
  <2> SUFFICES ASSUME NEW f \in due \ lost', Eligible(f)' PROVE Ahead(f)' \/ Listed(f)'
    BY <1>1 DEF NoneLost
  <2>1. Eligible(f) /\ f \notin gone
    BY <1>1 DEF Eligible, Midnight
  <2>2. Ahead(f) \/ reading = f \/ Listed(f)
    BY <1>6, <2>1 DEF CostsInv, NoneLost
  <2>3. CASE Ahead(f)
    BY <1>1, <2>3 DEF Ahead
  <2>4. CASE reading = f
    <3>1. Len(Found) = 1
      BY <2>1, <2>4
    <3> QED
      BY <1>2, <1>4, <2>4, <3>1 DEF Listed
  <2>5. CASE Listed(f)
    BY <1>4, <2>5 DEF Listed
  <2> QED
    BY <2>2, <2>3, <2>4, <2>5
<1> QED
  BY <1>1, <1>5, <1>6, <1>7, <1>8, <1>9, <1>10, StepKeeps

LEMMA FileClosed == ASSUME CostsInv, CloseFile PROVE CostsInv'
<1>1. reading # "" /\ EndReading /\ lost' = lost /\ lost \subseteq Files
  BY DEF CloseFile, Finished, CostsInv, RequestTyped
<1>2. reading \in due \ lost' /\ reading \notin gone => Len(Found) = 1
  BY DueIsFound DEF CloseFile
<1> QED
  BY <1>1, <1>2, ReadingEnds

LEMMA FileNotRead == ASSUME CostsInv, ReadFails PROVE CostsInv'
<1>1. /\ reading # "" /\ EndReading /\ lost' = lost \cup {reading}
      /\ lost \subseteq Files /\ reading \in Files
  BY DEF ReadFails, CostsInv, RequestTyped
<1> QED
  BY <1>1, ReadingEnds

--------------------------------------------------------------------------------
(* The invariant, and what it is for *)

LEMMA AtFirst == Init => CostsInv
<1> SUFFICES ASSUME Init PROVE CostsInv
  OBVIOUS
<1>1. /\ clock = 0 /\ gone = {} /\ scope \in Scopes
      /\ lines = [f \in Files |-> <<>>] /\ mtime = [f \in Files |-> NoTime]
      /\ pc = "idle" /\ date = 0 /\ todo = {} /\ seen = {} /\ entries = {} /\ visited = {}
      /\ reading = "" /\ read = 0 /\ acc = NothingFound /\ sessions = <<>>
      /\ DOMAIN reports = Date /\ due = {} /\ lost = {} /\ config \in scope.configs /\ cfg = config
  BY DEF Init
<1>2. FilesTyped
  <2>1. scope.days \in 0 .. Days /\ scope.configs \subseteq Configs
    BY <1>1, CostsAssumption DEF CostsAssumption
  <2>2. 0 \in 0 .. scope.days * DayLength /\ 0 \in 0 .. Days * DayLength
    <3>1. scope.days * DayLength \in 0 .. Days * DayLength /\ Days * DayLength \in Nat
      BY <2>1, Bounds
    <3> DEFINE e == scope.days * DayLength
               m == Days * DayLength
    <3>2. e \in 0 .. m /\ m \in Nat
      BY <3>1
    <3> HIDE DEF e, m
    <3>3. 0 \in 0 .. e /\ 0 \in 0 .. m
      BY <3>2
    <3> QED
      BY <3>3 DEF e, m
  <2>3. \A f \in Files : lines[f] = <<>> /\ mtime[f] = NoTime /\ DOMAIN lines[f] = {}
    BY <1>1, Empties
  <2>4. NoTime \in 0 .. NoTime
    BY Bounds
  <2>5. \A S : <<>> \in Seq(S)
    BY EmptySeq
  <2>6. \A f \in Files : lines[f] \in Seq(LinesFor(f))
    BY <2>3, <2>5
  <2>7. lines \in [Files -> Seq(ClaudeLine \cup CodexLine)] /\ mtime \in [Files -> 0 .. NoTime]
    BY <1>1, <2>4, <2>5
  <2>8. \A f \in CodexFiles : \A i \in DOMAIN lines[f] : lines[f][i].kind = "meta" <=> i = 1
    BY <2>3 DEF Files
  <2> QED
    BY <1>1, <2>1, <2>2, <2>3, <2>6, <2>7, <2>8 DEF FilesTyped
<1>3. RequestTyped
  <2>1. 0 \in Date
    BY Bounds DEF Date
  <2>2. <<>> \in Seq(SessionType)
    BY EmptySeq
  <2> QED
    BY <1>1, <1>2, <2>1, <2>2, NothingIsFound, Empties DEF RequestTyped, FilesTyped
<1>4. Placed
  BY <1>1, FilesSplit DEF Placed
<1>5. Understood
  BY <1>1, UnderstoodAtFirst
<1>6. Once
  BY <1>1, Empties DEF Once
<1>7. Wanted /\ NoneLost
  BY <1>1 DEF Wanted, NoneLost
<1> QED
  BY <1>2, <1>3, <1>4, <1>5, <1>6, <1>7 DEF CostsInv

LEMMA EachStep == CostsInv /\ [Next]_vars => CostsInv'
<1> SUFFICES ASSUME CostsInv, [Next]_vars PROVE CostsInv'
  OBVIOUS
<1>1. CASE Request
  BY <1>1, RequestBegins, WalkBegun, WalkEnded, LineIsRead, FileClosed, FileNotRead, ReportMade,
     DirRead, DirNotRead, FileChecked, FileVisited DEF Request
<1>2. CASE Outside /\ UNCHANGED requestVars
  <2>1. FilesTyped' /\ Grown
    BY <1>2, OutsideKeeps DEF CostsInv
  <2> QED
    BY <1>2, <2>1, OutsideRest DEF CostsInv
<1>3. CASE UNCHANGED vars
  <2>1. /\ FilesTyped' /\ UNCHANGED requestVars /\ lines' = lines /\ mtime' = mtime /\ gone' = gone
    BY <1>3, FilesStay DEF CostsInv, vars, outsideVars, fileVars
  <2>2. Grown
    <3>1. \A f \in Files : mtime[f] \in 0 .. NoTime /\ Len(lines[f]) \in Nat /\ NoTime \in Nat
      BY Bounds, FileFacts DEF FilesTyped, CostsInv
    <3> QED
      BY <2>1, <3>1 DEF Grown
  <2> QED
    BY <2>1, <2>2, OutsideRest DEF CostsInv
<1> QED
  BY <1>1, <1>2, <1>3 DEF Next

\* The files are well formed and only grow; the scan is ahead of each file that the
\* report should have, in it, or has listed it; it takes none up twice; and the parser
\* has kept what makes a session of the lines that it has read (costs.go:181-378).
THEOREM CostsInvariant == Spec => []CostsInv
<1> QED
  BY AtFirst, EachStep, PTL DEF Spec

\* The variables hold what their types say, and every session listed has used
\* something (costs.go:46-75).
THEOREM CostsTypeCorrect == Spec => []TypeOK
<1>1. CostsInv => TypeOK
  <2> SUFFICES ASSUME CostsInv PROVE TypeOK
    OBVIOUS
  <2>1. \A f \in Files : mtime[f] \in 0 .. NoTime /\ (mtime[f] = NoTime <=> lines[f] = <<>>)
    BY DEF CostsInv, FilesTyped
  <2>2. ToSet(sessions) \subseteq SessionType
    BY SessionFiles, ElementsOf
  <2>3. scope \in Scopes /\ config \in Configs /\ clock \in 0 .. scope.days * DayLength /\ gone \subseteq Files
    BY DEF CostsInv, FilesTyped
  <2> QED
    BY <2>1, <2>2, <2>3 DEF CostsInv, RequestTyped, Placed, TypeOK
<1> QED
  BY <1>1, CostsInvariant, PTL

\* A report has every session that belonged to its date and configuration when it was
\* asked for and still does, but for those that could not be read, and none twice,
\* whatever the engines write, start and remove during the scan, which configuration
\* comes into effect and whichever workdirs share a project directory
\* (costs.go:181-217, 234-253, 447-449).
THEOREM ReportsAreComplete == Spec => []ReportIsComplete
<1>1. CostsInv => ReportIsComplete
  <2> SUFFICES ASSUME CostsInv, pc = "aggregate"
               PROVE  /\ \A f \in due \ lost : Belongs(f, date, cfg) => \E s \in ToSet(sessions) : s.file = f
                      /\ \A i, j \in DOMAIN sessions : sessions[i].file = sessions[j].file => i = j
    BY DEF ReportIsComplete
  <2>1. reading = ""
    BY IdleReadsNothing
  <2>2. ASSUME NEW f \in due \ lost, Belongs(f, date, cfg)
        PROVE  \E s \in ToSet(sessions) : s.file = f
    <3>1. Eligible(f) /\ f \in Files
      BY <2>2 DEF Belongs, Alive, Eligible, InDay, CostsInv, RequestTyped
    <3>2. f # reading
      BY <2>1, <3>1, FilesSplit
    <3>3. ~Ahead(f)
      BY DEF Ahead
    <3>4. Listed(f)
      BY <3>1, <3>2, <3>3 DEF CostsInv, NoneLost
    <3>5. PICK i \in DOMAIN sessions : sessions[i].file = f
      BY <3>4 DEF Listed
    <3>6. sessions[i] \in ToSet(sessions)
      BY <3>5, SessionFiles, ElementsOf
    <3> QED
      BY <3>5, <3>6
  <2> QED
    BY <2>2 DEF CostsInv, Once
<1> QED
  BY <1>1, CostsInvariant, PTL

--------------------------------------------------------------------------------
(* Sessions are counted: what the lines of a session are like, and what the parser   *)
(* has made of those it has read.                                                      *)

\* A session of Claude Code has one prompt; a message of it has one model, and has used
\* 2 when it is complete and 1 before that.
SoundClaude(s) ==
  /\ \A i \in DOMAIN s : s[i].kind = "user" <=> i = 1
  /\ \A i, j \in DOMAIN s : s[i] \in Charged /\ s[j] \in Charged /\ s[i].id = s[j].id =>
       s[i].model = s[j].model
  /\ \A i \in DOMAIN s : s[i] \in Charged => s[i].used = IF s[i].stop THEN 2 ELSE 1

\* A session of Codex has a line about itself and then one prompt, and totals from some
\* count on.
SoundCodex(s) ==
  /\ Len(s) # 1
  /\ \A i \in DOMAIN s : s[i].kind = "user" <=> i = 2
  /\ \A i, j \in DOMAIN s : /\ s[i].kind = "count" /\ s[j].kind = "count" /\ i < j
                            /\ s[i].total > 0
                            => s[j].total > 0

FilesSound ==
  /\ \A f \in ClaudeFiles : SoundClaude(lines[f])
  /\ \A f \in CodexFiles : SoundCodex(lines[f])

\* The requests that the parser of Claude Code knows after n lines.
ClaudeCollected(a, s, n) ==
  /\ a.prompt = IF n > 0 THEN s[1].prompt ELSE ""
  /\ \A id \in Ids : a.latest[id] # NoLine => \E i \in 1 .. n : s[i] = a.latest[id] /\ s[i].id = id
  /\ \A id \in Ids : a.completed[id] # NoLine =>
       \E i \in 1 .. n : s[i] = a.completed[id] /\ s[i].id = id /\ s[i].stop
  /\ \A i \in 1 .. n : s[i] \in Charged =>
       /\ a.latest[s[i].id] # NoLine
       /\ s[i].stop => a.completed[s[i].id] # NoLine
       /\ a.model = "" => normalizeModel[s[i].model] = ""
  /\ a.model # "" => \E i \in 1 .. n : s[i] \in Charged /\ normalizeModel[s[i].model] = a.model

LastSum(s) == SumFunction([i \in CountsIn(s) |-> s[i].last])

\* What the parser of Codex has counted after n lines.
CodexCollected(a, s, n) ==
  /\ a.prompt = IF n > 1 THEN s[2].prompt ELSE ""
  /\ a.model = IF n > 0 THEN normalizeModel[s[1].model] ELSE ""
  /\ a.hasTotal <=> HasTotals(SubSeq(s, 1, n))
  /\ a.hasTotal => a.total = LastCount(SubSeq(s, 1, n)).total
  /\ a.sum = LastSum(SubSeq(s, 1, n))

Collected ==
  /\ reading \in ClaudeFiles => ClaudeCollected(acc, lines[reading], read)
  /\ reading \in CodexFiles => CodexCollected(acc, lines[reading], read)

\* A session says of the lines that it was made of what they say.
Counted(c, s, had) ==
  /\ s.tokens = Used(s.file, had) /\ s.cost = CostIn(c, s.file, had)
  /\ s.file \in ClaudeFiles => s.requests = Cardinality(IdsIn(had))
  /\ \A l \in ToSet(had) : l.kind = "user" /\ l.prompt \in ToSet(Keywords) => s.job = l.prompt

AllCounted ==
  \A i \in DOMAIN sessions :
    LET s == sessions[i] IN
    s.read \in 1 .. Len(lines[s.file]) /\ Counted(cfg, s, SubSeq(lines[s.file], 1, s.read))

CountInv == FilesSound /\ Collected /\ AllCounted

LEMMA PrefixFacts ==
  ASSUME NEW S, NEW s \in Seq(S), NEW n \in 0 .. Len(s)
  PROVE  /\ SubSeq(s, 1, n) \in Seq(S) /\ Len(SubSeq(s, 1, n)) = n
         /\ DOMAIN SubSeq(s, 1, n) = 1 .. n
         /\ \A i \in 1 .. n : i \in 1 .. Len(s) /\ SubSeq(s, 1, n)[i] = s[i] /\ s[i] \in S
         /\ \A x : x \in ToSet(SubSeq(s, 1, n)) <=> \E i \in 1 .. n : s[i] = x
<1>1. Len(s) \in Nat /\ n \in Nat /\ \A i \in 1 .. n : i \in 1 .. Len(s)
  BY ElementsOf, Within
<1>2. \A i \in 1 .. n : s[i] \in S
  BY <1>1, ElementsOf
<1> DEFINE had == SubSeq(s, 1, n)
<1>3. had \in Seq(S) /\ Len(had) = (IF 1 <= n THEN n - 1 + 1 ELSE 0)
      /\ \A i \in 1 .. n - 1 + 1 : had[i] = s[1 + i - 1]
  BY <1>1, <1>2, SubSeqProperties
<1> HIDE DEF had
<1>4. Len(had) = n /\ \A i \in 1 .. n : had[i] = s[i]
  BY <1>1, <1>3
<1>5. DOMAIN had = 1 .. n /\ \A x : x \in ToSet(had) <=> \E i \in 1 .. n : had[i] = x
  BY <1>3, <1>4, ElementsOf
<1>6. \A x : x \in ToSet(had) <=> \E i \in 1 .. n : s[i] = x
  BY <1>4, <1>5
<1> QED
  BY <1>1, <1>2, <1>3, <1>4, <1>5, <1>6 DEF had

LEMMA PrefixSame ==
  ASSUME NEW S, NEW s \in Seq(S), NEW T, NEW t \in Seq(T), NEW n \in 0 .. Len(s), n \in 0 .. Len(t),
         \A i \in 1 .. n : t[i] = s[i]
  PROVE  SubSeq(t, 1, n) = SubSeq(s, 1, n)
<1> DEFINE a == SubSeq(s, 1, n)
    b == SubSeq(t, 1, n)
<1>1. a \in Seq(S) /\ Len(a) = n /\ DOMAIN a = 1 .. n /\ \A i \in 1 .. n : a[i] = s[i]
  BY PrefixFacts
<1>2. b \in Seq(T) /\ Len(b) = n /\ DOMAIN b = 1 .. n /\ \A i \in 1 .. n : b[i] = t[i]
  BY PrefixFacts
<1> HIDE DEF a, b
<1>3. a = [i \in 1 .. n |-> a[i]] /\ b = [i \in 1 .. n |-> b[i]]
  BY <1>1, <1>2
<1>4. \A i \in 1 .. n : a[i] = b[i]
  BY <1>1, <1>2
<1>5. a = b
  BY <1>3, <1>4
<1> QED
  BY <1>5 DEF a, b

LEMMA GreatestIs ==
  ASSUME NEW n \in Nat, NEW S \in SUBSET (0 .. n), NEW x \in S, \A y \in S : y <= x
  PROVE  Max(S) = x
<1>1. Max(S) \in S /\ \A y \in S : y <= Max(S)
  BY GreatestIn
<1>2. Max(S) <= x /\ x <= Max(S) /\ Max(S) \in 0 .. n /\ x \in 0 .. n
  BY <1>1
<1> DEFINE m == Max(S)
<1>3. m <= x /\ x <= m /\ m \in 0 .. n /\ x \in 0 .. n
  BY <1>2
<1> HIDE DEF m
<1>4. m = x
  BY <1>3
<1> QED
  BY <1>4 DEF m

LEMMA Below == \A n \in Nat : \A j, k \in 1 .. n : ~(k <= j) => j \in 1 .. k - 1
OBVIOUS

LEMMA JobOfKeyword ==
  ASSUME NEW p \in Prompts, p \in ToSet(Keywords)
  PROVE  classifyJob(p) = p /\ p # "interactive"
<1> DEFINE found == {i \in DOMAIN Keywords : p # "" /\ Keywords[i] \in Mentions[p]}
<1>1. Keywords \in Seq(STRING)
  BY ConfigAssumption DEF ConfigAssumption
<1>2. /\ p # "" /\ p # "interactive"
      /\ \A i \in DOMAIN Keywords : Keywords[i] \in Prompts =>
           /\ Keywords[i] \in Mentions[Keywords[i]]
           /\ \A j \in 1 .. i - 1 : Keywords[j] \notin Mentions[Keywords[i]]
  BY KeywordsAssumption DEF KeywordsAssumption
<1>3. Len(Keywords) \in Nat /\ DOMAIN Keywords = 1 .. Len(Keywords)
  BY <1>1, ElementsOf
<1>4. PICK k \in DOMAIN Keywords : Keywords[k] = p
  BY <1>1, <1>3, ElementsOf
<1>5. k \in found
  BY <1>2, <1>4
<1>6. \A j \in found : k <= j
  <2> SUFFICES ASSUME NEW j \in found, ~(k <= j) PROVE FALSE
    OBVIOUS
  <2>1. j \in DOMAIN Keywords /\ Keywords[j] \in Mentions[p]
    OBVIOUS
  <2>2. j \in 1 .. k - 1
    BY <1>3, <1>4, <2>1, Below
  <2> QED
    BY <1>2, <1>4, <2>1, <2>2
<1>7. found \subseteq DOMAIN Keywords
  OBVIOUS
<1>8. found # {} => classifyJob(p) = Keywords[Min(found)]
  BY DEF classifyJob
<1> HIDE DEF found
<1>9. found \in SUBSET Nat /\ k \in Nat
  BY <1>3, <1>4, <1>7
<1>10. Min(found) \in found /\ \A j \in found : Min(found) <= j
  BY <1>5, <1>9, LeastIn
<1>11. Min(found) = k
  <2>1. Min(found) <= k /\ k <= Min(found) /\ Min(found) \in Nat
    BY <1>5, <1>6, <1>9, <1>10
  <2> DEFINE m == Min(found)
  <2>2. m <= k /\ k <= m /\ m \in Nat
    BY <2>1
  <2> HIDE DEF m
  <2>3. m = k
    BY <1>9, <2>2
  <2> QED
    BY <2>3 DEF m
<1> QED
  BY <1>2, <1>4, <1>5, <1>8, <1>11

LEMMA PriceIs == ASSUME NEW c, NEW m PROVE Price(c, m) = resolvePricingFrom(c, normalizeModel[m])
<1> DEFINE n == normalizeModel[m]
    table == BuildPricingTable(c)
<1>1. n \in DOMAIN Configured[c] => n \in DOMAIN table /\ table[n] = Configured[c][n]
  BY DEF BuildPricingTable
<1>2. n \in DOMAIN table \ {""} => resolvePricingFrom(c, n) = table[n]
  BY DEF resolvePricingFrom
<1>3. Price(c, m) = IF n \in DOMAIN Configured[c] \ {""} THEN Configured[c][n] ELSE resolvePricingFrom(c, n)
  BY DEF Price
<1> HIDE DEF n, table
<1>4. Price(c, m) = resolvePricingFrom(c, n)
  BY <1>1, <1>2, <1>3
<1> QED
  BY <1>4 DEF n

UsedTokens(a) == SumFunction([id \in Requests(a) |-> finalize(a, id).used])
Paid(a) ==
  SumFunction([id \in Requests(a) |->
    finalize(a, id).used * resolvePricingFrom(cfg, normalizeModel[finalize(a, id).model])])

LEMMA ClaudeSessionIs ==
  ASSUME NEW a, NEW f, Requests(a) # {}
  PROVE  LET s == ClaudeSession(f, a)[1] IN
         /\ s.file = f /\ s.read = read /\ s.job = classifyJob(a.prompt)
         /\ s.tokens = UsedTokens(a) /\ s.requests = Cardinality(Requests(a))
         /\ s.cost = IF Paid(a) = 0 THEN UsedTokens(a) * resolvePricingFrom(cfg, a.model) ELSE Paid(a)
<1> DEFINE reqs == {id \in Ids : a.latest[id] # NoLine}
    used == [id \in reqs |-> finalize(a, id).used]
    paid == [id \in reqs |->
              finalize(a, id).used * resolvePricingFrom(cfg, normalizeModel[finalize(a, id).model])]
    tokens == SumFunction(used)
    cost == SumFunction(paid)
    all == IF cost = 0 THEN tokens * resolvePricingFrom(cfg, a.model) ELSE cost
    job == classifyJob(a.prompt)
    n == Cardinality(reqs)
<1>1. reqs = Requests(a) /\ tokens = UsedTokens(a) /\ cost = Paid(a)
  BY DEF Requests, UsedTokens, Paid
<1>2. reqs # {}
  BY <1>1
<1>3. ClaudeSession(f, a) =
        <<[file |-> f, read |-> read, job |-> job, tokens |-> tokens, requests |-> n, cost |-> all]>>
  BY <1>2 DEF ClaudeSession
<1>4. n = Cardinality(Requests(a))
  BY <1>1
<1>5. all = IF Paid(a) = 0 THEN UsedTokens(a) * resolvePricingFrom(cfg, a.model) ELSE Paid(a)
  BY <1>1
<1> HIDE DEF all, job, n, tokens, cost, paid, used, reqs
<1> QED
  BY <1>1, <1>3, <1>4, <1>5 DEF job

\* The messages of the lines read are those that the parser knows, and the entry that it
\* settles on is the one that has used most.
LEMMA MessagesKnown ==
  ASSUME NEW a \in Acc, NEW s \in Seq(ClaudeLine), NEW n \in 0 .. Len(s),
         SoundClaude(s), ClaudeCollected(a, s, n)
  PROVE  LET had == SubSeq(s, 1, n) IN
         /\ IdsIn(had) = Requests(a)
         /\ \A id \in Requests(a) :
              /\ UsedBy(had, id) = finalize(a, id).used
              /\ \A l \in LinesOf(had, id) : l.model = finalize(a, id).model
              /\ finalize(a, id) \in LinesOf(had, id)
<1> DEFINE had == SubSeq(s, 1, n)
<1>1. /\ \A i \in 1 .. n : i \in DOMAIN s /\ s[i] \in ClaudeLine
      /\ \A x : x \in ToSet(had) <=> \E i \in 1 .. n : s[i] = x
  BY PrefixFacts, ElementsOf
<1> HIDE DEF had
<1>2. \A l : l \in MessagesIn(had) <=> l \in Charged /\ \E i \in 1 .. n : s[i] = l
  <2>1. \A l \in ClaudeLine : l \in Charged <=> l.kind = "assistant" /\ l.used > 0
    <3>1. \A l \in ClaudeLine : l \in Charged <=> Charges(l)
      BY ChargedFacts
    <3>2. \A l \in ClaudeLine : l.kind # "count"
      BY ChargedFacts
    <3> QED
      BY <3>1, <3>2 DEF Charges
  <2> QED
    BY <1>1, <2>1 DEF MessagesIn
<1>3. \A l : l \in Charged => l.id \in Ids /\ l # NoLine /\ l.used \in 1 .. 2
  BY ChargedFacts
<1>4. /\ \A id \in Ids : a.latest[id] \in Charged \cup {NoLine}
      /\ \A id \in Ids : a.completed[id] \in Charged \cup {NoLine}
  BY DEF Acc
<1>5. \A id \in Ids : a.latest[id] # NoLine => \E i \in 1 .. n : s[i] = a.latest[id] /\ s[i].id = id
  BY DEF ClaudeCollected
<1>6. \A id \in Ids : a.completed[id] # NoLine =>
        \E i \in 1 .. n : s[i] = a.completed[id] /\ s[i].id = id /\ s[i].stop
  BY DEF ClaudeCollected
<1>7. \A i \in 1 .. n : s[i] \in Charged =>
        a.latest[s[i].id] # NoLine /\ (s[i].stop => a.completed[s[i].id] # NoLine)
  BY DEF ClaudeCollected
<1>8. IdsIn(had) = Requests(a)
  <2>1. ASSUME NEW id \in IdsIn(had) PROVE id \in Requests(a)
    <3>1. PICK l \in MessagesIn(had) : l.id = id
      BY DEF IdsIn
    <3>2. PICK i \in 1 .. n : s[i] = l /\ l \in Charged
      BY <1>2
    <3> QED
      BY <1>3, <1>7, <3>1, <3>2 DEF Requests
  <2>2. ASSUME NEW id \in Requests(a) PROVE id \in IdsIn(had)
    <3>1. id \in Ids /\ a.latest[id] # NoLine
      BY DEF Requests
    <3>2. PICK i \in 1 .. n : s[i] = a.latest[id] /\ s[i].id = id
      BY <1>5, <3>1
    <3>3. s[i] \in MessagesIn(had)
      BY <1>2, <1>4, <3>1, <3>2
    <3> QED
      BY <3>2, <3>3 DEF IdsIn
  <2> QED
    BY <2>1, <2>2
<1>9. ASSUME NEW id \in Requests(a)
      PROVE  /\ UsedBy(had, id) = finalize(a, id).used
             /\ \A l \in LinesOf(had, id) : l.model = finalize(a, id).model
             /\ finalize(a, id) \in LinesOf(had, id)
  <2> DEFINE e == finalize(a, id)
  <2>1. id \in Ids /\ a.latest[id] # NoLine
    BY DEF Requests
  <2>2. PICK k \in 1 .. n : s[k] = e /\ s[k].id = id /\ e \in Charged
                            /\ (a.completed[id] # NoLine => e.stop)
    <3>1. CASE a.completed[id] # NoLine
      BY <1>4, <1>6, <2>1, <3>1 DEF finalize
    <3>2. CASE a.completed[id] = NoLine
      BY <1>4, <1>5, <2>1, <3>2 DEF finalize
    <3> QED
      BY <3>1, <3>2
  <2> HIDE DEF e
  <2>3. \A l : l \in LinesOf(had, id) <=> l \in Charged /\ l.id = id /\ \E i \in 1 .. n : s[i] = l
    BY <1>2 DEF LinesOf
  <2>4. e \in LinesOf(had, id)
    BY <2>2, <2>3
  <2>5. ASSUME NEW l \in LinesOf(had, id)
        PROVE  l.model = e.model /\ l.used <= e.used /\ l.used \in 1 .. 2
    <3>1. PICK i \in 1 .. n : s[i] = l /\ l \in Charged /\ l.id = id
      BY <2>3
    <3>2. i \in DOMAIN s /\ k \in DOMAIN s
      BY <1>1
    <3>3. l.model = e.model
      BY <2>2, <3>1, <3>2 DEF SoundClaude
    <3>4. l.used = (IF l.stop THEN 2 ELSE 1) /\ e.used = (IF e.stop THEN 2 ELSE 1)
      BY <2>2, <3>1, <3>2 DEF SoundClaude
    <3>5. l.stop => e.stop
      BY <1>7, <2>2, <3>1
    <3>6. l.used <= e.used
      BY <3>4, <3>5
    <3> QED
      BY <1>3, <3>1, <3>3, <3>6
  <2>6. UsedBy(had, id) = e.used
    <3> DEFINE S == {l.used : l \in LinesOf(had, id)}
    <3>1. S \in SUBSET (0 .. 2) /\ e.used \in S /\ \A y \in S : y <= e.used
      BY <2>4, <2>5
    <3>2. UsedBy(had, id) = Max(S)
      BY DEF UsedBy
    <3> HIDE DEF S
    <3>3. 2 \in Nat
      OBVIOUS
    <3> QED
      BY <3>1, <3>2, <3>3, GreatestIs
  <2> QED
    BY <2>4, <2>5, <2>6 DEF e
<1> QED
  BY <1>8, <1>9 DEF had

LEMMA NoCharge ==
  /\ \A m \in Nat : m * 0 = 0
  /\ \A m, n \in Nat : m > 0 /\ ~(m * n > 0) => n = 0
  /\ \A n \in Nat : n = 0 => ~(n > 0)
  /\ \A n \in Nat : n = 0 \/ n > 0
OBVIOUS
LEMMA PositiveProduct == \A m \in 1 .. 2 : \A n \in Nat : m * n = 0 => n = 0
OBVIOUS

\* When the messages have cost nothing, the model of the session costs nothing.
LEMMA FreeModel ==
  ASSUME cfg \in Configs, NEW a \in Acc, NEW s \in Seq(ClaudeLine), NEW n \in 0 .. Len(s),
         SoundClaude(s), ClaudeCollected(a, s, n), Requests(a) # {}, Paid(a) = 0
  PROVE  resolvePricingFrom(cfg, a.model) = 0
<1> DEFINE had == SubSeq(s, 1, n)
    price(id) == resolvePricingFrom(cfg, normalizeModel[finalize(a, id).model])
    paid == [id \in Requests(a) |-> finalize(a, id).used * price(id)]
<1>1. ASSUME NEW id \in Requests(a) PROVE price(id) = 0
  <2>1. \A x \in Requests(a) : paid[x] \in Nat
    <3> SUFFICES ASSUME NEW x \in Requests(a) PROVE finalize(a, x).used * price(x) \in Nat
      OBVIOUS
    <3>1. finalize(a, x).used \in Nat
      BY FinalFacts
    <3>2. price(x) \in Nat
      BY PriceType
    <3> HIDE DEF price
    <3> QED
      BY <3>1, <3>2, Products
  <2>2. SumFunction(paid) = 0 /\ DOMAIN paid = Requests(a)
    BY DEF Paid
  <2>3. IsFiniteSet(Requests(a))
    BY RequestsFinite
  <2>4. paid[id] = finalize(a, id).used * price(id)
    OBVIOUS
  <2>5. price(id) \in Nat /\ finalize(a, id).used \in 1 .. 2
    BY PriceType, FinalFacts
  <2> HIDE DEF paid, price
  <2>6. ~(paid[id] > 0)
    <3>1. \A x \in Requests(a) : paid[x] > 0 => SumFunction(paid) > 0
      BY <2>1, <2>2, <2>3, SumOf
    <3> QED
      BY <2>2, <3>1
  <2>7. paid[id] = 0
    BY <2>1, <2>6
  <2> QED
    BY <2>4, <2>5, <2>7, PositiveProduct
<1>2. /\ IdsIn(had) = Requests(a)
      /\ \A id \in Requests(a) : /\ \A l \in LinesOf(had, id) : l.model = finalize(a, id).model
                                 /\ finalize(a, id) \in LinesOf(had, id)
  BY MessagesKnown
<1>3. \A i \in 1 .. n : s[i] \in Charged =>
        s[i].id \in Requests(a) /\ s[i] \in LinesOf(had, s[i].id)
  <2> SUFFICES ASSUME NEW i \in 1 .. n, s[i] \in Charged
               PROVE  s[i].id \in Requests(a) /\ s[i] \in LinesOf(had, s[i].id)
    OBVIOUS
  <2>1. s[i].id \in Ids /\ s[i].kind = "assistant" /\ s[i].used \in 1 .. 2
    BY ChargedFacts
  <2>2. s[i] \in ToSet(had)
    BY PrefixFacts
  <2>3. s[i].used > 0
    BY <2>1
  <2> QED
    BY <2>1, <2>2, <2>3 DEF LinesOf, MessagesIn, ClaudeCollected, Requests
<1> HIDE DEF had
<1>4. CASE a.model # ""
  <2>1. PICK i \in 1 .. n : s[i] \in Charged /\ normalizeModel[s[i].model] = a.model
    BY <1>4 DEF ClaudeCollected
  <2> QED
    BY <1>1, <1>2, <1>3, <2>1
<1>5. CASE a.model = ""
  <2>1. PICK id \in Requests(a) : TRUE
    OBVIOUS
  <2>2. PICK i \in 1 .. n : s[i] = a.latest[id] /\ s[i].id = id
    BY <2>1 DEF ClaudeCollected, Requests
  <2>3. s[i] \in Charged
    <3>1. a.latest[id] \in Charged \cup {NoLine} /\ a.latest[id] # NoLine
      BY <2>1 DEF Acc, Requests
    <3> QED
      BY <2>2, <3>1
  <2>4. normalizeModel[s[i].model] = a.model
    BY <1>5, <2>3 DEF ClaudeCollected
  <2> QED
    BY <1>1, <1>2, <1>3, <2>2, <2>3, <2>4
<1> QED
  BY <1>4, <1>5

LEMMA ClaudeCounts ==
  ASSUME cfg \in Configs, NEW a \in Acc, NEW f \in ClaudeFiles, NEW s \in Seq(ClaudeLine), NEW n \in 0 .. Len(s),
         SoundClaude(s), ClaudeCollected(a, s, n), Requests(a) # {}
  PROVE  Counted(cfg, ClaudeSession(f, a)[1], SubSeq(s, 1, n)) /\ n # 0
<1> DEFINE had == SubSeq(s, 1, n)
    e(id) == finalize(a, id)
    it == ClaudeSession(f, a)[1]
<1>1. /\ IdsIn(had) = Requests(a)
      /\ \A id \in Requests(a) : /\ UsedBy(had, id) = finalize(a, id).used
                                 /\ \A l \in LinesOf(had, id) : l.model = finalize(a, id).model
                                 /\ finalize(a, id) \in LinesOf(had, id)
  BY MessagesKnown
<1>2. /\ it.file = f /\ it.job = classifyJob(a.prompt)
      /\ it.tokens = UsedTokens(a) /\ it.requests = Cardinality(Requests(a))
      /\ it.cost = IF Paid(a) = 0 THEN UsedTokens(a) * resolvePricingFrom(cfg, a.model) ELSE Paid(a)
  BY ClaudeSessionIs
<1>n. n # 0
  <2>1. PICK id \in Requests(a) : TRUE
    OBVIOUS
  <2>2. PICK i \in 1 .. n : TRUE
    BY <2>1 DEF ClaudeCollected, Requests
  <2> QED
    BY <2>2, Empties
<1>p. \A i \in 1 .. n : i \in DOMAIN s /\ s[i] \in ClaudeLine
  BY PrefixFacts, ElementsOf
<1>t. \A x : x \in ToSet(had) <=> \E i \in 1 .. n : s[i] = x
  BY PrefixFacts
<1> HIDE DEF had, it
<1>3. Used(f, had) = UsedTokens(a)
  <2>1. [id \in IdsIn(had) |-> UsedBy(had, id)] = [id \in Requests(a) |-> finalize(a, id).used]
    BY <1>1
  <2> QED
    BY <2>1 DEF Used, UsedTokens
<1>4. CostIn(cfg, f, had) = Paid(a)
  <2>1. ASSUME NEW id \in Requests(a)
        PROVE  UsedBy(had, id) * Price(cfg, (CHOOSE l \in LinesOf(had, id) : TRUE).model)
               = finalize(a, id).used * resolvePricingFrom(cfg, normalizeModel[finalize(a, id).model])
    <3>1. (CHOOSE l \in LinesOf(had, id) : TRUE) \in LinesOf(had, id)
      BY <1>1
    <3>2. (CHOOSE l \in LinesOf(had, id) : TRUE).model = finalize(a, id).model
      BY <1>1, <3>1
    <3> QED
      BY <1>1, <3>2, PriceIs
  <2>2. [id \in IdsIn(had) |-> UsedBy(had, id) * Price(cfg, (CHOOSE l \in LinesOf(had, id) : TRUE).model)]
        = [id \in Requests(a) |->
             finalize(a, id).used * resolvePricingFrom(cfg, normalizeModel[finalize(a, id).model])]
    BY <1>1, <2>1
  <2> QED
    BY <2>2 DEF CostIn, Paid
<1>5. it.cost = Paid(a)
  <2>1. CASE Paid(a) = 0
    <3>1. resolvePricingFrom(cfg, a.model) = 0
      BY <2>1, FreeModel
    <3>2. UsedTokens(a) \in Nat
      <4> DEFINE used == [id \in Requests(a) |-> finalize(a, id).used]
      <4>1. \A id \in Requests(a) : used[id] \in Nat
        BY FinalFacts
      <4>2. DOMAIN used = Requests(a) /\ UsedTokens(a) = SumFunction(used)
        BY DEF UsedTokens
      <4> HIDE DEF used
      <4> QED
        BY <4>1, <4>2, RequestsFinite, SumOf
    <3> QED
      BY <1>2, <2>1, <3>1, <3>2, NoCharge
  <2> QED
    BY <1>2, <2>1
<1>6. ASSUME NEW l \in ToSet(had), l.kind = "user", l.prompt \in ToSet(Keywords)
      PROVE  it.job = l.prompt
  <2>1. PICK i \in 1 .. n : s[i] = l
    BY <1>t
  <2>2. i = 1
    BY <1>6, <1>p, <2>1 DEF SoundClaude
  <2>3. l \in ClaudeLine
    BY <1>p, <2>1
  <2>4. l.prompt \in Prompts
    BY <1>6, <2>3, ChargedFacts
  <2>5. n > 0
    BY <1>n
  <2>6. a.prompt = l.prompt
    BY <2>1, <2>2, <2>5 DEF ClaudeCollected
  <2> QED
    BY <1>2, <1>6, <2>4, <2>6, JobOfKeyword
<1>7. Counted(cfg, it, had)
  BY <1>1, <1>2, <1>3, <1>4, <1>5, <1>6 DEF Counted
<1> QED
  BY <1>n, <1>7 DEF it, had

LEMMA CodexSessionIs ==
  ASSUME NEW a, NEW f, Len(CodexSession(f, a)) = 1
  PROVE  LET s == CodexSession(f, a)[1]
             tokens == IF a.hasTotal THEN a.total ELSE a.sum
         IN  /\ s.file = f /\ s.read = read /\ s.tokens = tokens
             /\ s.job = IF classifyJob(a.prompt) = "interactive" THEN "codex" ELSE classifyJob(a.prompt)
             /\ s.cost = tokens * resolvePricingFrom(cfg, a.model)
             /\ a.at # NoTime
<1> DEFINE tokens == IF a.hasTotal THEN a.total ELSE a.sum
    job == IF classifyJob(a.prompt) = "interactive" THEN "codex" ELSE classifyJob(a.prompt)
    n == IF a.requests = 0 THEN 1 ELSE a.requests
    cost == tokens * resolvePricingFrom(cfg, a.model)
    out == \/ a.cwd \notin collectEngineWorkdirs(cfg, "codex")
           \/ a.at = NoTime \/ ~InDay(a.at, date)
           \/ tokens = 0
<1>1. CodexSession(f, a) =
        IF out THEN <<>>
        ELSE <<[file |-> f, read |-> read, job |-> job, tokens |-> tokens, requests |-> n, cost |-> cost]>>
  BY DEF CodexSession
<1>2. ~out
  <2>1. Len(<<>>) # 1
    OBVIOUS
  <2> HIDE DEF out
  <2> QED
    BY <1>1, <2>1
<1>3. a.at # NoTime
  BY <1>2
<1> HIDE DEF out, n, job, cost, tokens
<1>4. CodexSession(f, a) =
        <<[file |-> f, read |-> read, job |-> job, tokens |-> tokens, requests |-> n, cost |-> cost]>>
  BY <1>1, <1>2
<1> DEFINE s == CodexSession(f, a)[1]
<1>5. s.file = f /\ s.read = read /\ s.tokens = tokens /\ s.job = job /\ s.cost = cost
  BY <1>4
<1> HIDE DEF s
<1> QED
  BY <1>3, <1>5 DEF s, tokens, job, cost

LEMMA CodexCounts ==
  ASSUME NEW a \in Acc, NEW f \in CodexFiles, NEW s \in Seq(CodexLine), NEW n \in 0 .. Len(s),
         SoundCodex(s), CodexCollected(a, s, n), n # 0, Len(CodexSession(f, a)) = 1
  PROVE  Counted(cfg, CodexSession(f, a)[1], SubSeq(s, 1, n))
<1> DEFINE had == SubSeq(s, 1, n)
    tokens == IF a.hasTotal THEN a.total ELSE a.sum
    it == CodexSession(f, a)[1]
<1>0. f \notin ClaudeFiles /\ n \in Nat
  <2>1. Len(s) \in Nat
    BY ElementsOf
  <2> QED
    BY <2>1, FilesSplit, Within
<1>1. /\ it.file = f /\ it.tokens = tokens
      /\ it.job = IF classifyJob(a.prompt) = "interactive" THEN "codex" ELSE classifyJob(a.prompt)
      /\ it.cost = tokens * resolvePricingFrom(cfg, a.model)
  BY CodexSessionIs
<1>2. tokens = Running(had)
  BY DEF CodexCollected, Running, LastSum
<1>3. 1 \in 1 .. n /\ n > 0
  BY <1>0
<1>4. had[1] = s[1] /\ \A x : x \in ToSet(had) <=> \E i \in 1 .. n : s[i] = x
  BY <1>3, PrefixFacts
<1>5. \A i \in 1 .. n : i \in DOMAIN s /\ s[i] \in CodexLine
  BY PrefixFacts, ElementsOf
<1> HIDE DEF had, it, tokens
<1>6. Used(f, had) = tokens
  BY <1>0, <1>2 DEF Used
<1>7. CostIn(cfg, f, had) = tokens * resolvePricingFrom(cfg, a.model)
  <2>1. a.model = normalizeModel[s[1].model]
    BY <1>3 DEF CodexCollected
  <2>2. Price(cfg, had[1].model) = resolvePricingFrom(cfg, a.model)
    BY <1>4, <2>1, PriceIs
  <2> QED
    BY <1>0, <1>6, <2>2 DEF CostIn
<1>8. ASSUME NEW l \in ToSet(had), l.kind = "user", l.prompt \in ToSet(Keywords)
      PROVE  it.job = l.prompt
  <2>1. PICK i \in 1 .. n : s[i] = l
    BY <1>4
  <2>2. i = 2
    BY <1>8, <1>5, <2>1 DEF SoundCodex
  <2>3. l \in CodexLine
    BY <1>5, <2>1
  <2>4. l.prompt \in Prompts
    BY <1>8, <2>3, CodexLineFacts
  <2>5. n > 1
    <3>1. \A m \in Nat : \A j \in 1 .. m : j = 2 => m > 1
      OBVIOUS
    <3> QED
      BY <1>0, <2>2, <3>1
  <2>6. a.prompt = l.prompt
    BY <2>1, <2>2, <2>5 DEF CodexCollected
  <2>7. classifyJob(l.prompt) = l.prompt /\ l.prompt # "interactive"
    BY <1>8, <2>4, JobOfKeyword
  <2> QED
    BY <1>1, <2>6, <2>7
<1>9. Counted(cfg, it, had)
  BY <1>0, <1>1, <1>6, <1>7, <1>8 DEF Counted
<1> QED
  BY <1>9 DEF it, had

\* What a line adds to the counts.
LEMMA CountsGrow ==
  ASSUME NEW s \in Seq(CodexLine), NEW n \in Nat, n + 1 \in 1 .. Len(s)
  PROVE  LET had == SubSeq(s, 1, n)
             more == SubSeq(s, 1, n + 1)
             l == s[n + 1]
         IN  /\ \A i \in 1 .. n : more[i] = had[i]
             /\ more[n + 1] = l /\ n + 1 \notin CountsIn(had)
             /\ CountsIn(had) \subseteq 1 .. n
             /\ CountsIn(more) = IF l.kind = "count" THEN CountsIn(had) \cup {n + 1} ELSE CountsIn(had)
<1> DEFINE had == SubSeq(s, 1, n)
    more == SubSeq(s, 1, n + 1)
    l == s[n + 1]
<1>1. n \in 0 .. Len(s) /\ n + 1 \in 0 .. Len(s)
  <2>1. \A m, k \in Nat : m + 1 \in 1 .. k => m \in 0 .. k /\ m + 1 \in 0 .. k
    OBVIOUS
  <2> QED
    BY <2>1, ElementsOf
<1>2. DOMAIN had = 1 .. n /\ \A i \in 1 .. n : had[i] = s[i]
  BY <1>1, PrefixFacts
<1>3. DOMAIN more = 1 .. n + 1 /\ \A i \in 1 .. n + 1 : more[i] = s[i]
  BY <1>1, PrefixFacts
<1> HIDE DEF had, more
<1>4. /\ \A i \in 1 .. n + 1 : i \in 1 .. n \/ i = n + 1
      /\ \A i \in 1 .. n : i \in 1 .. n + 1
      /\ n + 1 \in 1 .. n + 1 /\ n + 1 \notin 1 .. n
  OBVIOUS
<1>5. CountsIn(had) = {i \in 1 .. n : s[i].kind = "count"}
  BY <1>2 DEF CountsIn
<1>6. CountsIn(more) = {i \in 1 .. n + 1 : s[i].kind = "count"}
  BY <1>3 DEF CountsIn
<1>7. CountsIn(more) = IF l.kind = "count" THEN CountsIn(had) \cup {n + 1} ELSE CountsIn(had)
  BY <1>4, <1>5, <1>6
<1>8. \A i \in 1 .. n : more[i] = had[i]
  BY <1>2, <1>3, <1>4
<1>9. more[n + 1] = l /\ n + 1 \notin CountsIn(had) /\ CountsIn(had) \subseteq 1 .. n
  BY <1>3, <1>4, <1>5
<1> QED
  BY <1>7, <1>8, <1>9 DEF had, more

\* The last count, and the sum of the counts, after another line.
LEMMA LastGrows ==
  ASSUME NEW s \in Seq(CodexLine), NEW n \in Nat, n + 1 \in 1 .. Len(s)
  PROVE  LET had == SubSeq(s, 1, n)
             more == SubSeq(s, 1, n + 1)
             l == s[n + 1]
         IN  /\ l.kind = "count" => /\ LastCount(more) = l
                                    /\ HasTotals(more) <=> l.total # 0
                                    /\ LastSum(more) = LastSum(had) + l.last
             /\ l.kind # "count" => /\ HasTotals(more) <=> HasTotals(had)
                                    /\ HasTotals(had) => LastCount(more) = LastCount(had)
                                    /\ LastSum(more) = LastSum(had)
<1> DEFINE had == SubSeq(s, 1, n)
    more == SubSeq(s, 1, n + 1)
    l == s[n + 1]
    C == CountsIn(had)
    D == CountsIn(more)
<1>1. /\ \A i \in 1 .. n : more[i] = had[i]
      /\ more[n + 1] = l /\ n + 1 \notin C /\ C \subseteq 1 .. n
      /\ D = IF l.kind = "count" THEN C \cup {n + 1} ELSE C
  BY CountsGrow
<1>l. l \in CodexLine
  BY ElementsOf
<1>2. /\ \A i \in 1 .. n : i \in Nat /\ i <= n /\ i <= n + 1 /\ i \in 0 .. n /\ i \in 0 .. n + 1
      /\ n + 1 \in 0 .. n + 1 /\ n + 1 \in Nat /\ n + 1 <= n + 1
  OBVIOUS
<1>c. \A i \in C : had[i] \in CodexLine /\ had[i].kind = "count"
  <2>1. n \in 0 .. Len(s)
    <3>1. \A m, k \in Nat : m + 1 \in 1 .. k => m \in 0 .. k
      OBVIOUS
    <3> QED
      BY <3>1, ElementsOf
  <2>2. \A i \in 1 .. n : had[i] = s[i] /\ s[i] \in CodexLine
    BY <2>1, PrefixFacts
  <2>3. \A i \in C : had[i].kind = "count"
    BY DEF CountsIn
  <2> QED
    BY <1>1, <2>2, <2>3
<1> HIDE DEF had, more, l
<1>3. CASE l.kind # "count"
  <2>1. D = C
    BY <1>1, <1>3
  <2>2. C # {} => Max(C) \in C
    <3> HIDE DEF C, D
    <3>1. C \in SUBSET (0 .. n)
      BY <1>1, <1>2
    <3> QED
      BY <3>1, GreatestIn
  <2>3. C # {} => LastCount(more) = LastCount(had)
    BY <1>1, <2>1, <2>2 DEF LastCount
  <2>4. [i \in D |-> more[i].last] = [i \in C |-> had[i].last]
    BY <1>1, <2>1
  <2>5. LastSum(more) = LastSum(had)
    BY <2>4 DEF LastSum
  <2>6. HasTotals(more) <=> HasTotals(had)
    BY <2>1, <2>3 DEF HasTotals
  <2>7. HasTotals(had) => LastCount(more) = LastCount(had)
    BY <2>3 DEF HasTotals
  <2> QED
    BY <1>3, <2>5, <2>6, <2>7 DEF had, more, l
<1>4. CASE l.kind = "count"
  <2>1. D = C \cup {n + 1}
    BY <1>1, <1>4
  <2>2. Max(D) = n + 1
    <3>1. D \in SUBSET (0 .. n + 1) /\ n + 1 \in D /\ \A y \in D : y <= n + 1
      BY <1>1, <1>2, <2>1
    <3> HIDE DEF D
    <3> QED
      BY <1>2, <3>1, GreatestIs
  <2>3. LastCount(more) = l
    BY <1>1, <2>2 DEF LastCount
  <2>4. HasTotals(more) <=> l.total # 0
    BY <2>1, <2>3 DEF HasTotals
  <2> DEFINE g == [i \in D |-> more[i].last]
             h == [i \in C |-> had[i].last]
  <2>5. LastSum(more) = SumFunctionOnSet(g, D) /\ LastSum(had) = SumFunctionOnSet(h, C)
    BY DEF LastSum, SumFunction
  <2>6. \A i \in C : h[i] \in Nat /\ h[i] = g[i]
    <3>1. \A i \in C : had[i].last \in Nat
      BY <1>c, CodexLineFacts
    <3>2. \A i \in C : g[i] = had[i].last
      BY <1>1, <2>1
    <3> QED
      BY <3>1, <3>2
  <2>7. g[n + 1] = l.last /\ l.last \in Nat
    <3>1. l.last \in Nat
      BY <1>4, <1>l, CodexLineFacts
    <3> QED
      BY <1>1, <2>1, <3>1
  <2>8. \A i \in D : g[i] \in Nat
    BY <2>1, <2>6, <2>7
  <2>9. IsFiniteSet(D) /\ IsFiniteSet(C)
    <3>1. D \subseteq 1 .. n + 1 /\ C \subseteq 1 .. n + 1
      <4>1. \A i \in 1 .. n : i \in 1 .. n + 1
        OBVIOUS
      <4>2. n + 1 \in 1 .. n + 1
        OBVIOUS
      <4> QED
        BY <1>1, <2>1, <4>1, <4>2
    <3>2. IsFiniteSet(1 .. n + 1)
      BY <1>2, FS_Interval
    <3> QED
      BY <3>1, <3>2, FS_Subset
  <2>10. n + 1 \in D /\ D \ {n + 1} = C
    BY <1>1, <2>1
  <2> HIDE DEF g, h, C, D
  <2>11. SumFunctionOnSet(g, D) = g[n + 1] + SumFunctionOnSet(g, C)
    BY <2>8, <2>9, <2>10, SumSplits
  <2>12. SumFunctionOnSet(h, C) = SumFunctionOnSet(g, C) /\ SumFunctionOnSet(h, C) \in Nat
    BY <2>6, <2>9, SumSame, SumType
  <2>13. LastSum(more) = LastSum(had) + l.last
    <3> DEFINE x == LastSum(had)
               y == LastSum(more)
    <3>1. y = l.last + x /\ x \in Nat /\ l.last \in Nat
      BY <2>5, <2>7, <2>11, <2>12
    <3> HIDE DEF x, y
    <3>2. y = x + l.last
      BY <3>1
    <3> QED
      BY <3>2 DEF x, y
  <2> QED
    BY <1>4, <2>3, <2>4, <2>13 DEF had, more, l
<1> QED
  BY <1>3, <1>4

LEMMA Later ==
  /\ \A n \in Nat : \A i \in 1 .. n : i \in 1 .. n + 1
  /\ \A n \in Nat : n + 1 \in 1 .. n + 1 /\ n + 1 > 0
  /\ \A n \in Nat : (n > 0 <=> n # 0) /\ (n + 1 = 1 <=> n = 0) /\ (n + 1 = 2 <=> n = 1)
  /\ \A n \in Nat : (n > 1 <=> n # 0 /\ n # 1) /\ (n + 1 > 1 <=> n # 0)
  /\ \A n \in Nat : \A i \in 1 .. n : i < n + 1
OBVIOUS

LEMMA ClaudeCollects ==
  ASSUME NEW a \in Acc, NEW s \in Seq(ClaudeLine), NEW n \in Nat, n + 1 \in 1 .. Len(s),
         SoundClaude(s), ClaudeCollected(a, s, n)
  PROVE  ClaudeCollected(parseSessionJSONL(a, s[n + 1]), s, n + 1)
<1> DEFINE l == s[n + 1]
    b == parseSessionJSONL(a, l)
<1>1. l \in ClaudeLine /\ n + 1 \in DOMAIN s
  BY ElementsOf
<1>2. l.kind = "user" <=> n = 0
  BY <1>1, Later DEF SoundClaude
<1> HIDE DEF l
<1>3. /\ \A id \in Ids : b.latest[id] = IF l \in Charged /\ l.id = id THEN l ELSE a.latest[id]
      /\ \A id \in Ids : b.completed[id] =
                           IF l \in Charged /\ l.stop /\ l.id = id THEN l ELSE a.completed[id]
  BY <1>1, ClaudeLineParsed
<1>4. b.prompt = IF l.kind = "user" /\ a.prompt = "" THEN l.prompt ELSE a.prompt
  BY <1>1, ClaudeLineParsed
<1>5. b.model = IF l \in Charged /\ a.model = "" THEN normalizeModel[l.model] ELSE a.model
  BY <1>1, ClaudeLineParsed
<1>6. l \in Charged => l.id \in Ids /\ l # NoLine /\ l.stop \in BOOLEAN
  BY ChargedFacts
<1> HIDE DEF b
<1>7. b.prompt = IF n + 1 > 0 THEN s[1].prompt ELSE ""
  <2>1. CASE n = 0
    <3>1. n + 1 = 1 /\ ~(n > 0) /\ n + 1 > 0
      BY <2>1, Later
    <3>2. a.prompt = ""
      BY <3>1 DEF ClaudeCollected
    <3>3. l = s[1]
      BY <3>1 DEF l
    <3>4. b.prompt = s[1].prompt
      BY <1>2, <1>4, <2>1, <3>2, <3>3
    <3> QED
      BY <3>1, <3>4
  <2>2. CASE n # 0
    BY <1>2, <1>4, <2>2, Later DEF ClaudeCollected
  <2> QED
    BY <2>1, <2>2
<1>8. ASSUME NEW id \in Ids, b.latest[id] # NoLine
      PROVE  \E i \in 1 .. n + 1 : s[i] = b.latest[id] /\ s[i].id = id
  <2>1. CASE l \in Charged /\ l.id = id
    BY <1>3, <2>1, Later DEF l
  <2>2. CASE ~(l \in Charged /\ l.id = id)
    <3>1. b.latest[id] = a.latest[id]
      BY <1>3, <2>2
    <3>2. PICK i \in 1 .. n : s[i] = a.latest[id] /\ s[i].id = id
      BY <1>8, <3>1 DEF ClaudeCollected
    <3> QED
      BY <3>1, <3>2, Later
  <2> QED
    BY <2>1, <2>2
<1>9. ASSUME NEW id \in Ids, b.completed[id] # NoLine
      PROVE  \E i \in 1 .. n + 1 : s[i] = b.completed[id] /\ s[i].id = id /\ s[i].stop
  <2>1. CASE l \in Charged /\ l.stop /\ l.id = id
    BY <1>3, <2>1, Later DEF l
  <2>2. CASE ~(l \in Charged /\ l.stop /\ l.id = id)
    <3>1. b.completed[id] = a.completed[id]
      BY <1>3, <2>2
    <3>2. PICK i \in 1 .. n : s[i] = a.completed[id] /\ s[i].id = id /\ s[i].stop
      BY <1>9, <3>1 DEF ClaudeCollected
    <3> QED
      BY <3>1, <3>2, Later
  <2> QED
    BY <2>1, <2>2
<1>10. ASSUME NEW i \in 1 .. n + 1, s[i] \in Charged
       PROVE  /\ b.latest[s[i].id] # NoLine
              /\ s[i].stop => b.completed[s[i].id] # NoLine
              /\ b.model = "" => normalizeModel[s[i].model] = ""
  <2>0. s[i].id \in Ids
    BY <1>10, ChargedFacts
  <2>1. CASE i = n + 1
    <3>1. s[i] = l /\ l \in Charged
      BY <1>10, <2>1 DEF l
    <3> QED
      BY <1>3, <1>5, <1>6, <3>1
  <2>2. CASE i \in 1 .. n
    <3>1. /\ a.latest[s[i].id] # NoLine
          /\ s[i].stop => a.completed[s[i].id] # NoLine
          /\ a.model = "" => normalizeModel[s[i].model] = ""
      BY <1>10, <2>2 DEF ClaudeCollected
    <3>2. b.latest[s[i].id] # NoLine
      BY <1>3, <1>6, <2>0, <3>1
    <3>3. s[i].stop => b.completed[s[i].id] # NoLine
      BY <1>3, <1>6, <2>0, <3>1
    <3>4. b.model = "" => a.model = ""
      BY <1>5
    <3> QED
      BY <3>1, <3>2, <3>3, <3>4
  <2> QED
    BY <2>1, <2>2, UpTo
<1>11. ASSUME b.model # ""
       PROVE  \E i \in 1 .. n + 1 : s[i] \in Charged /\ normalizeModel[s[i].model] = b.model
  <2>1. CASE a.model # ""
    <3>1. PICK i \in 1 .. n : s[i] \in Charged /\ normalizeModel[s[i].model] = a.model
      BY <2>1 DEF ClaudeCollected
    <3> QED
      BY <1>5, <2>1, <3>1, Later
  <2>2. CASE a.model = ""
    <3>1. l \in Charged /\ b.model = normalizeModel[l.model]
      BY <1>5, <1>11, <2>2
    <3> QED
      BY <3>1, Later DEF l
  <2> QED
    BY <2>1, <2>2
<1>12. ClaudeCollected(b, s, n + 1)
  BY <1>7, <1>8, <1>9, <1>10, <1>11 DEF ClaudeCollected
<1> QED
  BY <1>12 DEF b, l

LEMMA TotalIsThere ==
  ASSUME NEW s \in Seq(CodexLine), NEW n \in 0 .. Len(s), HasTotals(SubSeq(s, 1, n))
  PROVE  \E i \in 1 .. n : s[i].kind = "count" /\ s[i].total > 0
<1> DEFINE had == SubSeq(s, 1, n)
    C == CountsIn(had)
<1>1. DOMAIN had = 1 .. n /\ \A i \in 1 .. n : had[i] = s[i] /\ s[i] \in CodexLine
  BY PrefixFacts
<1>2. C # {} /\ LastCount(had).total # 0
  BY DEF HasTotals
<1> HIDE DEF had
<1>3. C \subseteq 1 .. n /\ \A i \in C : had[i].kind = "count"
  BY <1>1 DEF CountsIn
<1>n. n \in Nat
  <2>1. Len(s) \in Nat
    BY ElementsOf
  <2> QED
    BY <2>1, Within
<1>4. Max(C) \in C
  <2> HIDE DEF C
  <2>1. \A i \in 1 .. n : i \in 0 .. n
    BY <1>n
  <2>2. C \in SUBSET (0 .. n)
    BY <1>3, <2>1
  <2> QED
    BY <1>2, <1>n, <2>2, GreatestIn
<1> DEFINE m == Max(C)
<1>5. LastCount(had) = had[m] /\ m \in C
  BY <1>4 DEF LastCount
<1> HIDE DEF m, C
<1>6. m \in 1 .. n /\ s[m] \in CodexLine /\ s[m].kind = "count" /\ s[m].total # 0
  BY <1>1, <1>2, <1>3, <1>5
<1>7. s[m].total \in Nat
  BY <1>6, CodexLineFacts
<1>8. s[m].total > 0
  <2> DEFINE t == s[m].total
  <2>1. t \in Nat /\ t # 0
    BY <1>6, <1>7
  <2> HIDE DEF t
  <2>2. t > 0
    BY <2>1
  <2> QED
    BY <2>2 DEF t
<1> QED
  BY <1>6, <1>8

LEMMA CodexCollects ==
  ASSUME NEW a \in Acc, NEW s \in Seq(CodexLine), NEW n \in Nat, n + 1 \in 1 .. Len(s),
         SoundCodex(s), \A i \in DOMAIN s : s[i].kind = "meta" <=> i = 1,
         CodexCollected(a, s, n)
  PROVE  CodexCollected(parseCodexSessionJSONL(a, s[n + 1]), s, n + 1)
<1> DEFINE l == s[n + 1]
    b == parseCodexSessionJSONL(a, l)
    had == SubSeq(s, 1, n)
    more == SubSeq(s, 1, n + 1)
<1>1. l \in CodexLine /\ n + 1 \in DOMAIN s /\ DOMAIN s = 1 .. Len(s) /\ Len(s) \in Nat
  BY ElementsOf
<1>n. n \in 0 .. Len(s) /\ \A i \in 1 .. n : i \in 1 .. Len(s)
  <2>1. \A m, k \in Nat : m + 1 \in 1 .. k => m \in 0 .. k /\ \A i \in 1 .. m : i \in 1 .. k
    OBVIOUS
  <2> QED
    BY <1>1, <2>1
<1>2. (l.kind = "user" <=> n = 1) /\ (l.kind = "meta" <=> n = 0)
  BY <1>1, Later DEF SoundCodex
<1>3. /\ l.kind = "count" => /\ LastCount(more) = l
                             /\ HasTotals(more) <=> l.total # 0
                             /\ LastSum(more) = LastSum(had) + l.last
      /\ l.kind # "count" => /\ HasTotals(more) <=> HasTotals(had)
                             /\ HasTotals(had) => LastCount(more) = LastCount(had)
                             /\ LastSum(more) = LastSum(had)
  BY LastGrows
<1>4. a.hasTotal /\ l.kind = "count" => l.total > 0
  <2> SUFFICES ASSUME a.hasTotal, l.kind = "count" PROVE l.total > 0
    OBVIOUS
  <2>1. HasTotals(had)
    BY DEF CodexCollected
  <2>2. PICK i \in 1 .. n : s[i].kind = "count" /\ s[i].total > 0
    BY <1>n, <2>1, TotalIsThere
  <2>3. i < n + 1 /\ i \in DOMAIN s
    BY <1>1, <1>n, Later
  <2> QED
    BY <1>1, <2>2, <2>3 DEF SoundCodex
<1>5. /\ a.prompt = IF n > 1 THEN s[2].prompt ELSE ""
      /\ a.model = IF n > 0 THEN normalizeModel[s[1].model] ELSE ""
      /\ a.hasTotal <=> HasTotals(had)
      /\ a.hasTotal => a.total = LastCount(had).total
      /\ a.sum = LastSum(had)
  BY DEF CodexCollected
<1>6. n = 0 => l = s[1]
  BY UpTo
<1>7. n = 1 => l = s[2]
  <2>1. 1 + 1 = 2
    OBVIOUS
  <2> QED
    BY <2>1
<1>8. l.kind = "count" => l.total \in Nat
  BY <1>1, CodexLineFacts
<1> HIDE DEF l, had, more
<1>9. b.prompt = IF l.kind = "user" /\ a.prompt = "" THEN l.prompt ELSE a.prompt
  BY <1>1, CodexLineParsed
<1>10. b.model = IF l.kind = "meta" /\ a.model = "" THEN normalizeModel[l.model] ELSE a.model
  BY ZenonT(60), <1>1, CodexLineParsed
<1>11. b.total = IF l.kind = "count" /\ l.total > 0 THEN l.total ELSE a.total
  BY <1>1, CodexLineParsed
<1>12. b.hasTotal <=> a.hasTotal \/ (l.kind = "count" /\ l.total > 0)
  BY <1>1, CodexLineParsed
<1>13. b.sum = IF l.kind = "count" THEN a.sum + l.last ELSE a.sum
  BY <1>1, CodexLineParsed
<1> HIDE DEF b
<1>14. b.prompt = IF n + 1 > 1 THEN s[2].prompt ELSE ""
  <2>1. CASE n = 0
    BY <1>2, <1>5, <1>9, <2>1, Later
  <2>2. CASE n = 1
    BY <1>2, <1>5, <1>7, <1>9, <2>2, Later
  <2>3. CASE n # 0 /\ n # 1
    BY <1>2, <1>5, <1>9, <2>3, Later
  <2> QED
    BY <2>1, <2>2, <2>3
<1>15. b.model = IF n + 1 > 0 THEN normalizeModel[s[1].model] ELSE ""
  <2>1. CASE n = 0
    BY <1>2, <1>5, <1>6, <1>10, <2>1, Later
  <2>2. CASE n # 0
    BY <1>2, <1>5, <1>10, <2>2, Later
  <2> QED
    BY <2>1, <2>2
<1>16. l.kind = "count" => (l.total # 0 <=> l.total > 0)
  BY <1>8, NoCharge
<1>17. b.hasTotal <=> HasTotals(more)
  BY <1>3, <1>4, <1>5, <1>12, <1>16
<1>18. b.hasTotal => b.total = LastCount(more).total
  BY <1>3, <1>4, <1>5, <1>11, <1>12
<1>19. b.sum = LastSum(more)
  BY <1>3, <1>5, <1>13
<1>20. CodexCollected(b, s, n + 1)
  BY <1>14, <1>15, <1>17, <1>18, <1>19 DEF CodexCollected, more
<1> QED
  BY <1>20 DEF b, l

\* What a parser has before the first line.
LEMMA NothingCollected ==
  ASSUME NEW s
  PROVE  ClaudeCollected(NothingFound, s, 0) /\ CodexCollected(NothingFound, s, 0)
<1>1. 1 .. 0 = {} /\ ~(0 > 0) /\ ~(0 > 1)
  OBVIOUS
<1>2. SubSeq(s, 1, 0) = <<>>
  BY SubSeqEmpty
<1>3. CountsIn(<<>>) = {}
  BY Empties DEF CountsIn
<1>4. ~HasTotals(<<>>)
  BY <1>3 DEF HasTotals
<1>5. LastSum(<<>>) = 0
  <2> DEFINE g == [i \in {} |-> <<>>[i].last]
  <2>1. LastSum(<<>>) = SumFunctionOnSet(g, {})
    BY <1>3 DEF LastSum, SumFunction
  <2> HIDE DEF g
  <2> QED
    BY <2>1, SumEmpty
<1> QED
  BY <1>1, <1>2, <1>4, <1>5, NothingIsFound DEF ClaudeCollected, CodexCollected

\* What is collected depends on the lines that were read only.
LEMMA CollectedStays ==
  ASSUME NEW a, NEW S, NEW s \in Seq(S), NEW T, NEW t \in Seq(T),
         NEW n \in 0 .. Len(s), n \in 0 .. Len(t), \A i \in 1 .. n : t[i] = s[i]
  PROVE  /\ ClaudeCollected(a, s, n) => ClaudeCollected(a, t, n)
         /\ CodexCollected(a, s, n) => CodexCollected(a, t, n)
<1>1. n \in Nat
  <2>1. Len(s) \in Nat
    BY ElementsOf
  <2> QED
    BY <2>1, Within
<1>2. (n > 0 => t[1] = s[1]) /\ (n > 1 => t[2] = s[2])
  <2>1. (n > 0 => 1 \in 1 .. n) /\ (n > 1 => 2 \in 1 .. n)
    BY <1>1
  <2> QED
    BY <2>1
<1>3. SubSeq(t, 1, n) = SubSeq(s, 1, n)
  BY PrefixSame
<1>4. ASSUME ClaudeCollected(a, s, n) PROVE ClaudeCollected(a, t, n)
  <2>1. a.prompt = IF n > 0 THEN t[1].prompt ELSE ""
    BY <1>2, <1>4 DEF ClaudeCollected
  <2>2. \A id \in Ids : a.latest[id] # NoLine => \E i \in 1 .. n : t[i] = a.latest[id] /\ t[i].id = id
    <3> SUFFICES ASSUME NEW id \in Ids, a.latest[id] # NoLine
                 PROVE  \E i \in 1 .. n : t[i] = a.latest[id] /\ t[i].id = id
      OBVIOUS
    <3>1. PICK i \in 1 .. n : s[i] = a.latest[id] /\ s[i].id = id
      BY <1>4 DEF ClaudeCollected
    <3> QED
      BY <3>1
  <2>3. \A id \in Ids : a.completed[id] # NoLine =>
          \E i \in 1 .. n : t[i] = a.completed[id] /\ t[i].id = id /\ t[i].stop
    <3> SUFFICES ASSUME NEW id \in Ids, a.completed[id] # NoLine
                 PROVE  \E i \in 1 .. n : t[i] = a.completed[id] /\ t[i].id = id /\ t[i].stop
      OBVIOUS
    <3>1. PICK i \in 1 .. n : s[i] = a.completed[id] /\ s[i].id = id /\ s[i].stop
      BY <1>4 DEF ClaudeCollected
    <3> QED
      BY <3>1
  <2>4. \A i \in 1 .. n : t[i] \in Charged =>
          /\ a.latest[t[i].id] # NoLine
          /\ t[i].stop => a.completed[t[i].id] # NoLine
          /\ a.model = "" => normalizeModel[t[i].model] = ""
    <3> SUFFICES ASSUME NEW i \in 1 .. n, s[i] \in Charged
                 PROVE  /\ a.latest[s[i].id] # NoLine
                        /\ s[i].stop => a.completed[s[i].id] # NoLine
                        /\ a.model = "" => normalizeModel[s[i].model] = ""
      OBVIOUS
    <3> QED
      BY <1>4 DEF ClaudeCollected
  <2>5. a.model # "" => \E i \in 1 .. n : t[i] \in Charged /\ normalizeModel[t[i].model] = a.model
    BY <1>4 DEF ClaudeCollected
  <2> QED
    BY <2>1, <2>2, <2>3, <2>4, <2>5 DEF ClaudeCollected
<1>5. CodexCollected(a, s, n) => CodexCollected(a, t, n)
  BY <1>2, <1>3 DEF CodexCollected
<1> QED
  BY <1>4, <1>5

\* A line that is added.
LEMMA LineAdded ==
  ASSUME NEW S, NEW s \in Seq(S), NEW l \in S
  PROVE  LET t == s \o <<l>> IN
         /\ t \in Seq(S) /\ Len(s) \in Nat /\ Len(t) = Len(s) + 1 /\ DOMAIN s = 1 .. Len(s)
         /\ \A i \in DOMAIN t : (i \in DOMAIN s /\ t[i] = s[i]) \/ (i = Len(s) + 1 /\ t[i] = l)
<1> DEFINE new == <<l>>
    t == s \o new
    n == Len(s)
<1>1. new \in Seq(S) /\ Len(new) = 1 /\ new[1] = l
  BY OneLine
<1> HIDE DEF new
<1>2. /\ t \in Seq(S) /\ Len(t) = Len(s) + Len(new)
      /\ \A i \in 1 .. Len(s) + Len(new) : t[i] = IF i <= Len(s) THEN s[i] ELSE new[i - Len(s)]
  BY <1>1, ConcatProperties
<1> HIDE DEF t
<1>3. n \in Nat /\ DOMAIN s = 1 .. n /\ DOMAIN t = 1 .. Len(t) /\ Len(t) = n + 1
  BY <1>1, <1>2, ElementsOf
<1>4. \A i \in 1 .. n + 1 : t[i] = IF i <= n THEN s[i] ELSE new[i - n]
  BY <1>1, <1>2
<1> HIDE DEF n
<1>5. \A i \in 1 .. n + 1 : (i \in 1 .. n /\ i <= n) \/ (i = n + 1 /\ ~(i <= n) /\ i - n = 1)
  BY <1>3
<1>6. \A i \in DOMAIN t : (i \in DOMAIN s /\ t[i] = s[i]) \/ (i = n + 1 /\ t[i] = l)
  BY <1>1, <1>3, <1>4, <1>5
<1> QED
  BY <1>2, <1>3, <1>6 DEF t, n, new

LEMMA ClaudeAdds ==
  ASSUME NEW s \in Seq(ClaudeLine), s # <<>>, NEW l \in ClaudeLine, SoundClaude(s), l.kind # "user",
         l \in Charged =>
           /\ l.used = IF l.stop THEN 2 ELSE 1
           /\ \A i \in DOMAIN s : s[i] \in Charged /\ s[i].id = l.id => s[i].model = l.model
  PROVE  SoundClaude(s \o <<l>>)
<1> DEFINE t == s \o <<l>>
    n == Len(s)
<1>1. /\ n \in Nat /\ DOMAIN s = 1 .. n
      /\ \A i \in DOMAIN t : (i \in DOMAIN s /\ t[i] = s[i]) \/ (i = n + 1 /\ t[i] = l)
  BY LineAdded
<1>2. n + 1 # 1
  <2>1. n # 0
    BY EmptySeq
  <2> QED
    BY <1>1, <2>1, Later
<1> HIDE DEF t, n
<1>3. \A i \in DOMAIN t : t[i].kind = "user" <=> i = 1
  BY <1>1, <1>2 DEF SoundClaude
<1>4. \A i, j \in DOMAIN t : t[i] \in Charged /\ t[j] \in Charged /\ t[i].id = t[j].id =>
        t[i].model = t[j].model
  <2> SUFFICES ASSUME NEW i \in DOMAIN t, NEW j \in DOMAIN t, t[i] \in Charged, t[j] \in Charged,
                      t[i].id = t[j].id
               PROVE  t[i].model = t[j].model
    OBVIOUS
  <2>1. CASE i \in DOMAIN s /\ t[i] = s[i] /\ j \in DOMAIN s /\ t[j] = s[j]
    BY <2>1 DEF SoundClaude
  <2>2. CASE i \in DOMAIN s /\ t[i] = s[i] /\ t[j] = l
    BY <2>2
  <2>3. CASE t[i] = l /\ j \in DOMAIN s /\ t[j] = s[j]
    BY <2>3
  <2>4. CASE t[i] = l /\ t[j] = l
    BY <2>4
  <2> QED
    BY <1>1, <2>1, <2>2, <2>3, <2>4
<1>5. \A i \in DOMAIN t : t[i] \in Charged => t[i].used = IF t[i].stop THEN 2 ELSE 1
  <2> SUFFICES ASSUME NEW i \in DOMAIN t, t[i] \in Charged
               PROVE  t[i].used = IF t[i].stop THEN 2 ELSE 1
    OBVIOUS
  <2>1. CASE i \in DOMAIN s /\ t[i] = s[i]
    BY <2>1 DEF SoundClaude
  <2>2. CASE t[i] = l
    BY <2>2
  <2> QED
    BY <1>1, <2>1, <2>2
<1>6. SoundClaude(t)
  BY <1>3, <1>4, <1>5 DEF SoundClaude
<1> QED
  BY <1>6 DEF t

LEMMA CodexAdds ==
  ASSUME NEW s \in Seq(CodexLine), s # <<>>, NEW l \in CodexLine, SoundCodex(s), l.kind # "user",
         \A i \in DOMAIN s : s[i].kind = "count" /\ s[i].total > 0 /\ l.kind = "count" => l.total > 0
  PROVE  SoundCodex(s \o <<l>>)
<1> DEFINE t == s \o <<l>>
    n == Len(s)
<1>1. /\ n \in Nat /\ DOMAIN s = 1 .. n /\ Len(t) = n + 1
      /\ \A i \in DOMAIN t : (i \in DOMAIN s /\ t[i] = s[i]) \/ (i = n + 1 /\ t[i] = l)
  BY LineAdded
<1>2. n + 1 # 1 /\ n + 1 # 2
  <2>1. n # 0 /\ n # 1
    BY EmptySeq DEF SoundCodex
  <2> QED
    BY <1>1, <2>1, Later
<1> HIDE DEF t, n
<1>3. \A i \in DOMAIN t : t[i].kind = "user" <=> i = 2
  BY <1>1, <1>2 DEF SoundCodex
<1>4. ASSUME NEW i \in DOMAIN t, NEW j \in DOMAIN t, t[i].kind = "count", t[j].kind = "count", i < j,
             t[i].total > 0
      PROVE  t[j].total > 0
  <2>1. CASE i \in DOMAIN s /\ t[i] = s[i] /\ j \in DOMAIN s /\ t[j] = s[j]
    BY <1>4, <2>1 DEF SoundCodex
  <2>2. CASE i \in DOMAIN s /\ t[i] = s[i] /\ t[j] = l
    BY <1>4, <2>2
  <2>3. CASE i = n + 1 /\ j \in DOMAIN s
    <3>1. \A m \in Nat : \A k \in 1 .. m : ~(m + 1 < k)
      OBVIOUS
    <3> QED
      BY <1>1, <1>4, <2>3, <3>1
  <2>4. CASE i = n + 1 /\ j = n + 1
    <3>1. ~(n + 1 < n + 1)
      BY <1>1
    <3> QED
      BY <1>4, <2>4, <3>1
  <2> QED
    BY <1>1, <2>1, <2>2, <2>3, <2>4
<1>5. SoundCodex(t)
  BY <1>1, <1>2, <1>3, <1>4 DEF SoundCodex
<1> QED
  BY <1>5 DEF t

LEMMA FirstSound ==
  ASSUME NEW p
  PROVE  /\ SoundClaude(<<>>) /\ SoundCodex(<<>>)
         /\ SoundClaude(<<User(p)>>)
         /\ \A m : m.kind = "meta" => SoundCodex(<<m, User(p)>>)
<1>1. User(p).kind = "user" /\ User(p) \notin Charged
  BY DEF User, Charged
<1>2. SoundClaude(<<>>) /\ SoundCodex(<<>>)
  <2>1. Len(<<>>) # 1 /\ DOMAIN <<>> = {}
    OBVIOUS
  <2> QED
    BY <2>1 DEF SoundClaude, SoundCodex
<1> DEFINE u == User(p)
<1>3. u.kind = "user" /\ u \notin Charged
  BY <1>1
<1> HIDE DEF u
<1>4. SoundClaude(<<u>>)
  <2>1. \A i \in DOMAIN <<u>> : i = 1 /\ <<u>>[i] = u
    OBVIOUS
  <2> QED
    BY <1>3, <2>1 DEF SoundClaude
<1>5. ASSUME NEW m, m.kind = "meta" PROVE SoundCodex(<<m, u>>)
  <2> DEFINE s == <<m, u>>
  <2>1. Len(s) = 2 /\ \A i \in DOMAIN s : (i = 1 /\ s[i] = m) \/ (i = 2 /\ s[i] = u)
    OBVIOUS
  <2> HIDE DEF s
  <2>2. SoundCodex(s)
    <3>1. \A i \in DOMAIN s : s[i].kind = "user" <=> i = 2
      BY <1>3, <1>5, <2>1
    <3>2. \A i \in DOMAIN s : s[i].kind # "count"
      BY <1>3, <1>5, <2>1
    <3>3. Len(s) # 1
      BY <2>1
    <3> QED
      BY <3>1, <3>2, <3>3 DEF SoundCodex
  <2> QED
    BY <2>2 DEF s
<1> QED
  BY <1>2, <1>4, <1>5 DEF u

\* When one file is written, soundness is a matter of that file.
LEMMA WriteSound ==
  ASSUME FilesTyped, FilesSound, NEW f \in Files, NEW new, Write(f, new),
         f \in ClaudeFiles => SoundClaude(lines[f] \o new),
         f \in CodexFiles => SoundCodex(lines[f] \o new)
  PROVE  FilesSound'
<1>1. lines' = [lines EXCEPT ![f] = lines[f] \o new]
  BY DEF Write
<1> DEFINE all == lines[f] \o new
<1>2. lines' = [lines EXCEPT ![f] = all]
  BY <1>1
<1> HIDE DEF all
<1>3. lines'[f] = all /\ \A g \in Files : g # f => lines'[g] = lines[g]
  BY <1>2 DEF FilesTyped
<1>4. \A g \in ClaudeFiles : SoundClaude(lines'[g])
  BY <1>3, FilesSplit DEF FilesSound, all
<1>5. \A g \in CodexFiles : SoundCodex(lines'[g])
  BY <1>3, FilesSplit DEF FilesSound, all
<1> QED
  BY <1>4, <1>5 DEF FilesSound

LEMMA StartSound == ASSUME FilesTyped, FilesSound, NEW f \in Files, StartSession(f) PROVE FilesSound'
<1>1. PICK prompt \in scope.prompts :
        \/ f \in ClaudeFiles /\ Write(f, <<User(prompt)>>)
        \/ /\ f \in CodexFiles
           /\ \E cwd \in Workdirs, model \in scope.models :
                Write(f, <<Meta(cwd, model), User(prompt)>>)
  BY DEF StartSession
<1>2. lines[f] = <<>>
  BY DEF StartSession, FilesTyped
<1>3. CASE f \in ClaudeFiles /\ Write(f, <<User(prompt)>>)
  <2> DEFINE u == User(prompt)
  <2>1. SoundClaude(<<u>>)
    BY FirstSound
  <2> HIDE DEF u
  <2>2. <<>> \o <<u>> = <<u>>
    OBVIOUS
  <2>3. Write(f, <<u>>) /\ f \notin CodexFiles
    BY <1>3, FilesSplit DEF u
  <2> QED
    BY <1>2, <2>1, <2>2, <2>3, WriteSound
<1>4. CASE f \in CodexFiles /\ \E cwd \in Workdirs, model \in scope.models :
             Write(f, <<Meta(cwd, model), User(prompt)>>)
  <2>1. PICK cwd \in Workdirs, model \in scope.models : Write(f, <<Meta(cwd, model), User(prompt)>>)
    BY <1>4
  <2> DEFINE u == User(prompt)
             m == Meta(cwd, model)
  <2>2. m.kind = "meta"
    BY DEF Meta
  <2>3. SoundCodex(<<m, u>>)
    BY <2>2, FirstSound
  <2>4. Write(f, <<m, u>>) /\ f \notin ClaudeFiles
    BY <1>4, <2>1, FilesSplit
  <2> HIDE DEF u, m
  <2>5. <<>> \o <<m, u>> = <<m, u>>
    OBVIOUS
  <2> QED
    BY <1>2, <2>3, <2>4, <2>5, WriteSound
<1> QED
  BY <1>1, <1>3, <1>4

LEMMA MessageSound ==
  ASSUME FilesTyped, FilesSound, NEW f \in Files, NEW id \in scope.ids, Message(f, id)
  PROVE  FilesSound'
<1> DEFINE old == {l \in ToSet(lines[f]) : l.kind = "assistant" /\ l.id = id}
<1>1. /\ f \in ClaudeFiles /\ Alive(f)
      /\ \E model \in scope.models :
           /\ \A l \in old : l.model = model /\ l.used # 0
           /\ \/ Write(f, <<Assistant(id, model, FALSE, 1)>>)
              \/ Write(f, <<Assistant(id, model, TRUE, 2)>>)
              \/ Write(f, <<Assistant(id, model, TRUE, 0)>>)
  BY DEF Message
<1>2. PICK model \in scope.models :
        /\ \A l \in old : l.model = model /\ l.used # 0
        /\ \/ Write(f, <<Assistant(id, model, FALSE, 1)>>)
           \/ Write(f, <<Assistant(id, model, TRUE, 2)>>)
           \/ Write(f, <<Assistant(id, model, TRUE, 0)>>)
  BY <1>1
<1>3. f \notin CodexFiles /\ lines[f] # <<>> /\ lines[f] \in Seq(ClaudeLine) /\ SoundClaude(lines[f])
  BY <1>1, FilesSplit, AliveHasLines, FileFacts DEF LinesFor, FilesSound
<1>4. id \in Ids /\ model \in Models
  BY ScopeFacts
<1>5. \A i \in DOMAIN lines[f] : lines[f][i] \in Charged /\ lines[f][i].id = id => lines[f][i].model = model
  <2> SUFFICES ASSUME NEW i \in DOMAIN lines[f], lines[f][i] \in Charged, lines[f][i].id = id
               PROVE  lines[f][i].model = model
    OBVIOUS
  <2>1. lines[f][i] \in ToSet(lines[f]) /\ lines[f][i].kind = "assistant"
    BY <1>3, ElementsOf, ChargedFacts
  <2> QED
    BY <1>2, <2>1
<1>6. ASSUME NEW stop \in BOOLEAN, NEW used \in 0 .. 2, used # 0 => used = IF stop THEN 2 ELSE 1,
             Write(f, <<Assistant(id, model, stop, used)>>)
      PROVE  FilesSound'
  <2> DEFINE l == Assistant(id, model, stop, used)
  <2>1. l \in ClaudeLine /\ l.kind # "user" /\ l.used = used /\ l.stop = stop /\ l.id = id /\ l.model = model
    <3>1. CASE used = 0
      BY <1>4, <3>1 DEF ClaudeLine, Assistant
    <3>2. CASE used \in 1 .. 2
      BY <1>4, <3>2 DEF ClaudeLine, Charged, Assistant
    <3> QED
      BY <3>1, <3>2
  <2>2. l \in Charged => used # 0
    BY DEF Charged, Assistant
  <2>3. Write(f, <<l>>)
    BY <1>6
  <2> HIDE DEF l
  <2>4. SoundClaude(lines[f] \o <<l>>)
    BY <1>3, <1>5, <1>6, <2>1, <2>2, ClaudeAdds
  <2> QED
    BY <1>3, <2>3, <2>4, WriteSound
<1>7. /\ FALSE \in BOOLEAN /\ TRUE \in BOOLEAN /\ 0 \in 0 .. 2 /\ 1 \in 0 .. 2 /\ 2 \in 0 .. 2
      /\ (1 = IF FALSE THEN 2 ELSE 1) /\ (2 = IF TRUE THEN 2 ELSE 1)
  OBVIOUS
<1> QED
  BY <1>2, <1>6, <1>7

LEMMA CountSound ==
  ASSUME FilesTyped, FilesSound, NEW f \in Files, CountTokens(f)
  PROVE  FilesSound'
<1>1. f \in CodexFiles /\ Alive(f) /\ f \notin ClaudeFiles
  BY FilesSplit DEF CountTokens
<1> DEFINE s == lines[f]
<1>2. s # <<>> /\ s \in Seq(CodexLine) /\ SoundCodex(s) /\ Len(s) \in Nat /\ DOMAIN s = 1 .. Len(s)
  BY <1>1, AliveHasLines, FileFacts DEF LinesFor, FilesSound
<1>3. ASSUME NEW i \in DOMAIN s, s[i].kind = "count", s[i].total > 0 PROVE HasTotals(s)
  <2>1. i \in CountsIn(s)
    BY <1>3 DEF CountsIn
  <2>2. /\ LastCount(s) \in [kind : {"count"}, total : Nat, last : 1 .. 2]
        /\ Max(CountsIn(s)) \in CountsIn(s) /\ i <= Max(CountsIn(s))
    BY <1>1, <2>1, LastCountIn
  <2> DEFINE m == Max(CountsIn(s))
  <2>3. LastCount(s) = s[m] /\ m \in DOMAIN s /\ s[m].kind = "count" /\ i <= m
    BY <2>2 DEF LastCount, CountsIn
  <2> HIDE DEF m
  <2>4. s[m].total > 0
    <3>1. CASE i = m
      BY <1>3, <3>1
    <3>2. CASE i # m
      <4>1. \A k \in Nat : \A x, y \in 1 .. k : x <= y /\ x # y => x < y
        OBVIOUS
      <4>2. i < m
        BY <1>2, <2>3, <3>2, <4>1
      <4> QED
        BY <1>2, <1>3, <2>3, <4>2 DEF SoundCodex
    <3> QED
      BY <3>1, <3>2
  <2>5. LastCount(s).total # 0
    BY <2>3, <2>4, NoCharge
  <2> QED
    BY <2>1, <2>5 DEF HasTotals
<1>4. PICK l \in [kind : {"count"}, total : Nat, last : 1 .. 2] :
         Write(f, <<l>>) /\ (HasTotals(s) => l.total # 0)
  <2>1. CASE \E last \in 1 .. 2 : \E total \in {0, Running(lines[f]) + last} :
               (HasTotals(lines[f]) => total # 0) /\ Write(f, <<Count(total, last)>>)
    <3>0. PICK last \in 1 .. 2 : \E total \in {0, Running(lines[f]) + last} :
                 (HasTotals(lines[f]) => total # 0) /\ Write(f, <<Count(total, last)>>)
      BY <2>1
    <3>1. PICK total \in {0, Running(lines[f]) + last} :
                 (HasTotals(lines[f]) => total # 0) /\ Write(f, <<Count(total, last)>>)
      BY <3>0
    <3>2. Running(lines[f]) \in Nat
      BY <1>1, RunningType
    <3>3. total \in Nat
      <4> DEFINE r == Running(lines[f])
      <4>1. r \in Nat /\ total \in {0, r + last}
        BY <3>2
      <4> HIDE DEF r
      <4> QED
        BY <4>1
    <3>4. Count(total, last) \in [kind : {"count"}, total : Nat, last : 1 .. 2]
          /\ Count(total, last).total = total
      BY <3>3 DEF Count
    <3> QED
      BY <3>1, <3>4
  <2>2. CASE HasTotals(lines[f]) /\ Write(f, <<LastCount(lines[f])>>)
    BY <1>1, <2>2, LastCountIn DEF HasTotals
  <2> QED
    BY <2>1, <2>2 DEF CountTokens
<1> HIDE DEF s
<1>5. l \in CodexLine /\ l.kind = "count" /\ l.total \in Nat
  BY DEF CodexLine
<1>6. \A i \in DOMAIN s : s[i].kind = "count" /\ s[i].total > 0 /\ l.kind = "count" => l.total > 0
  BY <1>3, <1>4, <1>5, NoCharge
<1>7. SoundCodex(s \o <<l>>)
  BY <1>2, <1>5, <1>6, CodexAdds
<1> QED
  BY <1>1, <1>4, <1>7, WriteSound DEF s

LEMMA HugeSound ==
  ASSUME FilesTyped, FilesSound, NEW f \in Files, HugeLine(f)
  PROVE  FilesSound'
<1>1. Alive(f) /\ Write(f, <<Huge>>)
  BY DEF HugeLine
<1>2. Huge \in ClaudeLine /\ Huge \in CodexLine /\ Huge.kind = "huge" /\ Huge \notin Charged
  BY DEF ClaudeLine, CodexLine, Huge, Charged
<1>3. f \in ClaudeFiles => SoundClaude(lines[f] \o <<Huge>>)
  <2> SUFFICES ASSUME f \in ClaudeFiles PROVE SoundClaude(lines[f] \o <<Huge>>)
    OBVIOUS
  <2>1. lines[f] # <<>> /\ lines[f] \in Seq(ClaudeLine) /\ SoundClaude(lines[f])
    BY <1>1, AliveHasLines, FileFacts DEF LinesFor, FilesSound
  <2> QED
    BY <1>2, <2>1, ClaudeAdds
<1>4. f \in CodexFiles => SoundCodex(lines[f] \o <<Huge>>)
  <2> SUFFICES ASSUME f \in CodexFiles PROVE SoundCodex(lines[f] \o <<Huge>>)
    OBVIOUS
  <2>1. lines[f] # <<>> /\ lines[f] \in Seq(CodexLine) /\ SoundCodex(lines[f])
    BY <1>1, AliveHasLines, FileFacts, FilesSplit DEF LinesFor, FilesSound
  <2> QED
    BY <1>2, <2>1, CodexAdds
<1> QED
  BY <1>1, <1>3, <1>4, WriteSound

LEMMA OutsideSound == FilesTyped /\ FilesSound /\ Outside => FilesSound'
<1> SUFFICES ASSUME FilesTyped, FilesSound, Outside PROVE FilesSound'
  OBVIOUS
<1>1. CASE lines' = lines
  BY <1>1 DEF FilesSound
<1>2. ASSUME NEW f \in scope.files,
             StartSession(f) \/ HugeLine(f) \/ CountTokens(f) \/ \E id \in scope.ids : Message(f, id)
      PROVE  FilesSound'
  <2>1. f \in Files
    BY ScopeFacts
  <2> QED
    BY <1>2, <2>1, StartSound, HugeSound, CountSound, MessageSound
<1> QED
  BY <1>1, <1>2 DEF Outside, Tick, UpdateConfig, fileVars, RemoveFile

LEMMA CountedAtFirst == Init => CountInv
<1> SUFFICES ASSUME Init PROVE CountInv
  OBVIOUS
<1>1. lines = [f \in Files |-> <<>>] /\ reading = "" /\ sessions = <<>>
  BY DEF Init
<1>2. FilesSound
  BY <1>1, FilesSplit, FirstSound DEF FilesSound
<1>3. Collected
  BY <1>1, FilesSplit DEF Collected
<1>4. AllCounted
  BY <1>1, Empties DEF AllCounted
<1> QED
  BY <1>2, <1>3, <1>4 DEF CountInv

\* Steps in which no line is read and no file is closed.
LEMMA RestCounts ==
  ASSUME CostsInv, CountInv, lines' = lines, read' = read, acc' = acc,
         (sessions' = sessions /\ cfg' = cfg) \/ sessions' = <<>>, reading' = reading \/ reading = ""
  PROVE  CountInv'
<1>1. FilesSound'
  BY DEF CountInv, FilesSound
<1>2. Collected'
  <2>1. CASE reading' = reading
    BY <2>1 DEF CountInv, Collected
  <2>2. CASE reading = ""
    <3>1. read' = 0 /\ acc' = NothingFound
      BY <2>2 DEF CostsInv, Placed
    <3>2. \A s : ClaudeCollected(NothingFound, s, 0) /\ CodexCollected(NothingFound, s, 0)
      BY NothingCollected
    <3>3. ClaudeCollected(acc', lines'[reading'], read') /\ CodexCollected(acc', lines'[reading'], read')
      BY <3>1, <3>2
    <3> QED
      BY <3>3 DEF Collected
  <2> QED
    BY <2>1, <2>2
<1>3. AllCounted'
  <2>1. CASE sessions' = sessions /\ cfg' = cfg
    BY <2>1 DEF CountInv, AllCounted
  <2>2. CASE sessions' = <<>>
    BY <2>2, Empties DEF AllCounted
  <2> QED
    BY <2>1, <2>2
<1> QED
  BY <1>1, <1>2, <1>3 DEF CountInv

LEMMA Longer ==
  /\ \A m, n \in Nat : m <= n => \A r \in 1 .. m : r \in 1 .. n /\ r \in 0 .. m /\ r \in 0 .. n
  /\ \A n \in Nat : \A r \in 0 .. n : r # 0 => r \in 1 .. n
OBVIOUS

\* The engines write behind what was read.
LEMMA OutsideCounts ==
  ASSUME CostsInv, CostsInv', CountInv, FilesSound', Grown, UNCHANGED requestVars
  PROVE  CountInv'
<1>1. reading' = reading /\ read' = read /\ acc' = acc /\ sessions' = sessions /\ cfg' = cfg
  BY DEF requestVars, askedVars
<1>2. \A f \in Files : /\ lines[f] \in Seq(ClaudeLine \cup CodexLine)
                       /\ lines'[f] \in Seq(ClaudeLine \cup CodexLine)
                       /\ Len(lines[f]) \in Nat /\ Len(lines'[f]) \in Nat
                       /\ Len(lines[f]) <= Len(lines'[f])
                       /\ \A i \in 1 .. Len(lines[f]) : lines'[f][i] = lines[f][i]
  <2>1. \A f \in Files : lines[f] \in Seq(ClaudeLine \cup CodexLine)
    BY DEF CostsInv, FilesTyped
  <2>2. \A f \in Files : lines'[f] \in Seq(ClaudeLine \cup CodexLine)
    BY DEF CostsInv, FilesTyped
  <2> QED
    BY <2>1, <2>2, ElementsOf DEF Grown
<1>3. Collected'
  <2>1. CASE reading = ""
    BY <1>1, <2>1, FilesSplit DEF Collected
  <2>2. CASE reading # ""
    <3>1. reading \in Files /\ read \in 0 .. Len(lines[reading])
      BY <2>2 DEF CostsInv, RequestTyped, Placed
    <3>2. read' \in 0 .. Len(lines'[reading'])
      BY <1>1, <2>2 DEF CostsInv, Placed
    <3>3. \A i \in 1 .. read : lines'[reading][i] = lines[reading][i]
      BY <1>2, <3>1, Within
    <3> DEFINE s == lines[reading]
               t == lines'[reading]
               L == ClaudeLine \cup CodexLine
    <3>4. s \in Seq(L) /\ t \in Seq(L) /\ read \in 0 .. Len(s) /\ read \in 0 .. Len(t)
      BY <1>1, <1>2, <3>1, <3>2
    <3>5. \A i \in 1 .. read : t[i] = s[i]
      BY <3>3
    <3> HIDE DEF s, t, L
    <3>6. /\ ClaudeCollected(acc, s, read) => ClaudeCollected(acc, t, read)
          /\ CodexCollected(acc, s, read) => CodexCollected(acc, t, read)
      BY <3>4, <3>5, CollectedStays
    <3> QED
      BY <1>1, <3>6 DEF CountInv, Collected, s, t
  <2> QED
    BY <2>1, <2>2
<1>4. AllCounted'
  <2> SUFFICES ASSUME NEW i \in DOMAIN sessions
               PROVE  /\ sessions[i].read \in 1 .. Len(lines'[sessions[i].file])
                      /\ Counted(cfg, sessions[i], SubSeq(lines'[sessions[i].file], 1, sessions[i].read))
    BY <1>1 DEF AllCounted
  <2> DEFINE r == sessions[i].read
             s == lines[sessions[i].file]
             t == lines'[sessions[i].file]
             L == ClaudeLine \cup CodexLine
  <2>1. sessions[i].file \in Files
    BY SessionFiles
  <2>2. r \in 1 .. Len(s) /\ Counted(cfg, sessions[i], SubSeq(s, 1, r))
    BY DEF CountInv, AllCounted
  <2>3. /\ s \in Seq(L) /\ t \in Seq(L) /\ Len(s) \in Nat /\ Len(t) \in Nat /\ Len(s) <= Len(t)
        /\ \A j \in 1 .. Len(s) : t[j] = s[j]
    BY <1>2, <2>1
  <2> HIDE DEF r, s, t, L
  <2>4. r \in 1 .. Len(t) /\ r \in 0 .. Len(s) /\ r \in 0 .. Len(t)
    BY <2>2, <2>3, Longer
  <2>5. \A j \in 1 .. r : t[j] = s[j]
    BY <2>3, <2>4, Within
  <2>6. SubSeq(t, 1, r) = SubSeq(s, 1, r)
    BY <2>3, <2>4, <2>5, PrefixSame
  <2> QED
    BY <2>2, <2>4, <2>6 DEF r, t
<1> QED
  BY <1>3, <1>4 DEF CountInv

LEMMA ReadCounts ==
  ASSUME CostsInv, CountInv, ReadLine
  PROVE  CountInv'
<1>1. /\ reading' = reading /\ read' = read + 1 /\ lines' = lines /\ sessions' = sessions
      /\ cfg' = cfg
      /\ acc' = IF reading \in ClaudeFiles THEN parseSessionJSONL(acc, lines[reading][read + 1])
                ELSE parseCodexSessionJSONL(acc, lines[reading][read + 1])
  BY DEF ReadLine, outsideVars, fileVars, askedVars
<1>2. /\ reading \in Files /\ read \in Nat /\ acc \in Acc
      /\ read + 1 \in 1 .. Len(lines[reading]) /\ lines[reading] \in Seq(LinesFor(reading))
  BY LineRead, FileFacts DEF CostsInv
<1>3. FilesSound' /\ AllCounted'
  BY <1>1 DEF CountInv, FilesSound, AllCounted
<1>4. Collected'
  <2>1. CASE reading \in ClaudeFiles
    <3>1. /\ lines[reading] \in Seq(ClaudeLine) /\ SoundClaude(lines[reading])
          /\ ClaudeCollected(acc, lines[reading], read)
      BY <1>2, <2>1 DEF LinesFor, CountInv, FilesSound, Collected
    <3>2. ClaudeCollected(parseSessionJSONL(acc, lines[reading][read + 1]), lines[reading], read + 1)
      BY <1>2, <3>1, ClaudeCollects
    <3>3. reading \notin CodexFiles
      BY <2>1, FilesSplit
    <3> QED
      BY <1>1, <2>1, <3>2, <3>3 DEF Collected
  <2>2. CASE reading \notin ClaudeFiles
    <3>0. reading \in CodexFiles
      BY <1>2, <2>2, FilesSplit
    <3>1. /\ lines[reading] \in Seq(CodexLine) /\ SoundCodex(lines[reading])
          /\ CodexCollected(acc, lines[reading], read)
      BY <1>2, <2>2, <3>0 DEF LinesFor, CountInv, FilesSound, Collected
    <3>2. \A i \in DOMAIN lines[reading] : lines[reading][i].kind = "meta" <=> i = 1
      BY <3>0 DEF CostsInv, FilesTyped
    <3>3. CodexCollected(parseCodexSessionJSONL(acc, lines[reading][read + 1]), lines[reading], read + 1)
      BY <1>2, <3>1, <3>2, CodexCollects
    <3> QED
      BY <1>1, <2>2, <3>3 DEF Collected
  <2> QED
    BY <2>1, <2>2
<1> QED
  BY <1>3, <1>4 DEF CountInv

\* What CloseFile lists is counted.
LEMMA FoundCounts ==
  ASSUME CostsInv, CountInv, reading # "", Len(Found) = 1
  PROVE  /\ Found[1].file = reading /\ Found[1].read = read
         /\ read \in 1 .. Len(lines[reading])
         /\ Counted(cfg, Found[1], SubSeq(lines[reading], 1, read))
<1>1. /\ reading \in Files /\ acc \in Acc /\ cfg \in Configs /\ read \in Nat /\ read \in 0 .. Len(lines[reading])
      /\ lines[reading] \in Seq(LinesFor(reading)) /\ Len(lines[reading]) \in Nat
  BY FileFacts DEF CostsInv, RequestTyped, Placed
<1>2. CASE reading \in ClaudeFiles
  <2>1. Found = ClaudeSession(reading, acc)
    BY <1>2 DEF Found
  <2>2. Requests(acc) # {}
    BY <1>1, <2>1, ClaudeSessionFacts
  <2>3. /\ lines[reading] \in Seq(ClaudeLine) /\ SoundClaude(lines[reading])
        /\ ClaudeCollected(acc, lines[reading], read)
    BY <1>1, <1>2 DEF LinesFor, CountInv, FilesSound, Collected
  <2>4. Counted(cfg, Found[1], SubSeq(lines[reading], 1, read)) /\ read # 0
    BY <1>1, <1>2, <2>1, <2>2, <2>3, ClaudeCounts
  <2> DEFINE found == ClaudeSession(reading, acc)[1]
  <2>s. found.file = reading /\ found.read = read
    BY ZenonT(60), <2>2, ClaudeSessionIs
  <2> HIDE DEF found
  <2>5. Found[1].file = reading /\ Found[1].read = read
    BY <2>1, <2>s DEF found
  <2>6. read \in 1 .. Len(lines[reading])
    BY <1>1, <2>4, Longer
  <2> QED
    BY <2>4, <2>5, <2>6
<1>3. CASE reading \notin ClaudeFiles
  <2>0. reading \in CodexFiles
    BY <1>1, <1>3, FilesSplit
  <2>1. Found = CodexSession(reading, acc)
    BY <1>3 DEF Found
  <2>2. Len(CodexSession(reading, acc)) = 1
    BY <2>1
  <2>3. /\ CodexSession(reading, acc)[1].file = reading
        /\ CodexSession(reading, acc)[1].read = read
        /\ acc.at # NoTime
    BY <2>2, CodexSessionIs
  <2>4. read # 0
    BY <2>0, <2>3 DEF CostsInv, Understood
  <2>5. /\ lines[reading] \in Seq(CodexLine) /\ SoundCodex(lines[reading])
        /\ CodexCollected(acc, lines[reading], read)
    BY <1>1, <1>3, <2>0 DEF LinesFor, CountInv, FilesSound, Collected
  <2>6. Counted(cfg, CodexSession(reading, acc)[1], SubSeq(lines[reading], 1, read))
    BY <1>1, <2>0, <2>2, <2>4, <2>5, CodexCounts
  <2>7. read \in 1 .. Len(lines[reading])
    BY <1>1, <2>4, Longer
  <2> QED
    BY <2>1, <2>3, <2>6, <2>7
<1> QED
  BY <1>2, <1>3

LEMMA CloseCounts ==
  ASSUME CostsInv, CountInv, reading # "", EndReading
  PROVE  CountInv'
<1>1. reading # "" /\ sessions' = sessions \o Found /\ reading' = "" /\ lines' = lines /\ cfg' = cfg
  BY DEF EndReading, outsideVars, fileVars, askedVars
<1>2. FilesSound' /\ Collected'
  BY <1>1, FilesSplit DEF CountInv, FilesSound, Collected
<1>3. /\ Found \in Seq(SessionType) /\ Len(Found) \in 0 .. 1 /\ sessions \in Seq(SessionType)
  BY <1>1, FoundFacts, SessionFiles
<1>4. \A i \in DOMAIN sessions' :
         \/ i \in DOMAIN sessions /\ sessions'[i] = sessions[i]
         \/ Len(Found) = 1 /\ sessions'[i] = Found[1]
  BY <1>1, <1>3, Appended
<1>5. AllCounted'
  <2> SUFFICES ASSUME NEW i \in DOMAIN sessions'
               PROVE  /\ sessions'[i].read \in 1 .. Len(lines[sessions'[i].file])
                      /\ Counted(cfg, sessions'[i], SubSeq(lines[sessions'[i].file], 1, sessions'[i].read))
    BY <1>1 DEF AllCounted
  <2>1. CASE i \in DOMAIN sessions /\ sessions'[i] = sessions[i]
    BY <2>1 DEF CountInv, AllCounted
  <2>2. CASE Len(Found) = 1 /\ sessions'[i] = Found[1]
    BY <1>1, <2>2, FoundCounts
  <2> QED
    BY <1>4, <2>1, <2>2
<1> QED
  BY <1>2, <1>5 DEF CountInv

LEMMA CountStep == CostsInv /\ CostsInv' /\ CountInv /\ [Next]_vars => CountInv'
<1> SUFFICES ASSUME CostsInv, CostsInv', CountInv, [Next]_vars PROVE CountInv'
  OBVIOUS
<1>1. CASE ReadLine
  BY <1>1, ReadCounts
<1>2. CASE CloseFile \/ ReadFails
  BY <1>2, CloseCounts DEF CloseFile, Finished, ReadFails
<1>3. CASE handleCosts
  BY <1>3, RestCounts DEF handleCosts, outsideVars, fileVars, askedVars
<1>4. CASE BeginWalk \/ EndWalk
  BY <1>4, RestCounts DEF BeginWalk, EndWalk, outsideVars, fileVars, askedVars
<1>5. CASE Aggregate
  BY <1>5, RestCounts DEF Aggregate, outsideVars, fileVars, askedVars
<1>6. CASE \E wd \in Workdirs : ReadDir(wd) \/ ReadDirFails(wd)
  BY <1>6, RestCounts DEF ReadDir, ReadDirFails, outsideVars, fileVars, askedVars
<1>7. CASE \E f \in Files : Stat(f) \/ Visit(f)
  BY <1>7, RestCounts DEF Stat, Visit, outsideVars, fileVars, askedVars
<1>8. CASE Outside /\ UNCHANGED requestVars
  <2>1. Grown /\ FilesSound'
    BY <1>8, OutsideKeeps, OutsideSound DEF CostsInv, CountInv
  <2> QED
    BY <1>8, <2>1, OutsideCounts
<1>9. CASE UNCHANGED vars
  BY <1>9, RestCounts DEF vars, outsideVars, fileVars, requestVars, askedVars
<1> QED
  BY <1>1, <1>2, <1>3, <1>4, <1>5, <1>6, <1>7, <1>8, <1>9 DEF Next, Request

\* What the scan lists of a session is what the lines that it has read of its file say:
\* every message is charged once, for the entry that used most and at the price of its
\* own model, and the session goes under the skill that its prompt names
\* (costs.go:426-549, 663-691).
THEOREM SessionsCountedRight == Spec => []SessionsAreCounted
<1>1. CostsInv /\ CountInv => SessionsAreCounted
  <2> SUFFICES ASSUME CostsInv, CountInv, NEW s \in ToSet(sessions)
               PROVE  Counted(cfg, s, SubSeq(lines[s.file], 1, s.read))
    BY DEF SessionsAreCounted, Counted
  <2>1. PICK i \in DOMAIN sessions : sessions[i] = s
    BY SessionFiles, ElementsOf
  <2> QED
    BY <2>1 DEF CountInv, AllCounted
<1>2. Spec => []CountInv
  BY CountedAtFirst, CountStep, CostsInvariant, PTL DEF Spec
<1> QED
  BY <1>1, <1>2, CostsInvariant, PTL
==================================================================================
