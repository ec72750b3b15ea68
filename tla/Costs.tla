--------------------------------- MODULE Costs ---------------------------------
(***************************************************************************)
(* GET /api/costs (src/internal/observer.go:865, src/internal/costs.go):   *)
(* what the sessions of a day have cost.  The scanner walks over the       *)
(* session files of Claude Code and Codex and reads them line by line while*)
(* the engines append to them, start new ones and remove old ones.         *)
(*                                                                         *)
(* The four token counts of a usage are one number here, and prices are    *)
(* small integers.  A date that does not parse is answered with an error   *)
(* and is left out.  The requests of a client that asks one after the other*)
(* are modelled: a request shares nothing with the others that net/http    *)
(* serves at the same time, it takes the configuration when it begins and  *)
(* writes nothing.                                                         *)
(***************************************************************************)
EXTENDS Naturals, SequencesExt, FiniteSetsExt

CONSTANTS
  Configs,      \* the configurations that are in effect one after the other
  Jobs,         \* the jobs of each, a sequence of records
  Kind,         \* the kind of each engine of each
  Configured,   \* the prices of each
  Slug,         \* the project directory of each workdir, for Claude Code
  ClaudeFiles,
  CodexFiles,
  Dir,          \* the project directory of each file of ClaudeFiles
  Ids,          \* message ids
  normalizeModel, \* what remains of such a name
  Family,       \* the keyword in what remains
  BuiltIn,      \* pricingTable
  Mentions,     \* the keywords in a prompt, in no order
  Keywords,     \* the cases of classifyJob, in their order
  Days,         \* bound: the dates are 0 .. Days - 1
  DayLength,    \* instants of the clock in 24 hours
  Scopes        \* bound: what the engines may do, see scope

Files == ClaudeFiles \cup CodexFiles
Workdirs == DOMAIN Slug
Prompts == DOMAIN Mentions
Models == DOMAIN normalizeModel
Date == 0 .. Days - 1
NoTime == Days * DayLength + 1

ASSUME CostsAssumption ==
  /\ Days \in Nat \ {0} /\ DayLength \in Nat
  /\ IsFiniteSet(Files) /\ ClaudeFiles \cap CodexFiles = {} /\ "" \notin Files
  /\ IsFiniteSet(Ids)
  /\ Scopes \subseteq [files : SUBSET Files, lines : Nat, removed : Nat, failed : Nat,
                       days : 0 .. Days, ids : SUBSET Ids, models : SUBSET Models,
                       prompts : SUBSET Prompts, configs : SUBSET Configs]

\* The jobs have workdirs of this machine, and prices are numbers.
ASSUME ConfigAssumption ==
  /\ \A c \in Configs : Jobs[c] \in Seq([type : STRING, engine : STRING, workdir : Workdirs \cup {""}])
  /\ Keywords \in Seq(STRING)
  /\ "sonnet-4" \in DOMAIN BuiltIn
  /\ \A m \in DOMAIN BuiltIn : BuiltIn[m] \in Nat
  /\ \A c \in Configs : \A m \in DOMAIN Configured[c] : Configured[c][m] \in Nat

\* A name contains itself, and is listed before the names that it contains.
ASSUME KeywordsAssumption ==
  /\ "interactive" \notin ToSet(Keywords) /\ "" \notin ToSet(Keywords)
  /\ \A i \in DOMAIN Keywords : Keywords[i] \in Prompts =>
       /\ Keywords[i] \in Mentions[Keywords[i]]
       /\ \A j \in 1 .. i - 1 : Keywords[j] \notin Mentions[Keywords[i]]

VARIABLES
  clock,
  lines,    \* the complete lines of each file
  mtime,    \* when each file was last written, NoTime before that
  gone,     \* files removed
  scope,    \* what the engines do: the files they write, how many lines, with which
            \* models, ids and first prompts, how many they remove and for how many days;
            \* how many files a request may fail to read, and the configurations
  config,   \* the configuration in effect
  pc, date, \* the request
  cfg,      \* the configuration it has taken
  todo,     \* its workdirs of Claude Code
  seen,     \* project directories that it has read
  entries,  \* files of the current directory that it has still to visit
  visited,  \* files that it has visited
  reading,  \* the file it reads ("" if none), and how many lines it has read
  read,
  acc,      \* what the parser has found in them
  sessions, \* the sessions found
  reports,  \* the last report of each date, and its configuration
  due,      \* history: the files that the report of this request should have
  lost      \* history: the files that it could not read

fileVars == <<clock, lines, mtime, gone, scope>>
outsideVars == <<fileVars, config>>
askedVars == <<date, cfg, due>>
requestVars == <<askedVars, pc, todo, seen, entries, visited, reading, read, acc, sessions,
                 reports, lost>>
vars == <<outsideVars, requestVars>>

--------------------------------------------------------------------------------
(* Prices and job types *)

BuildPricingTable(c) ==
  [m \in DOMAIN BuiltIn \cup DOMAIN Configured[c] |->
     IF m \in DOMAIN Configured[c] THEN Configured[c][m] ELSE BuiltIn[m]]

Newest == [opus |-> "opus-4.5", haiku |-> "haiku-4.5", sonnet |-> "sonnet-4"]

resolvePricingFrom(c, model) ==
  LET table == BuildPricingTable(c) IN
  CASE model \in DOMAIN table \ {""} -> table[model]
    [] /\ model \notin DOMAIN table /\ model # ""
       /\ Family[model] \in DOMAIN Newest
       /\ Newest[Family[model]] \in DOMAIN table -> table[Newest[Family[model]]]
    [] OTHER -> BuiltIn["sonnet-4"]  \* fallbackPricing

classifyJob(prompt) ==
  LET found == {i \in DOMAIN Keywords : prompt # "" /\ Keywords[i] \in Mentions[prompt]}
  IN  IF found = {} THEN "interactive" ELSE Keywords[Min(found)]

\* The workdirs of the jobs that use an engine of this kind.
collectEngineWorkdirs(c, kind) ==
  {job.workdir : job \in {j \in ToSet(Jobs[c]) : /\ j.type = "skill"
                                                /\ j.engine \in DOMAIN Kind[c]
                                                /\ Kind[c][j.engine] = kind
                                                /\ j.workdir # ""}}

Midnight(d) == d * DayLength

\* Both tests of a time, Before(dayStart) and After(dayEnd), admit the ends of the day.
InDay(t, d) == Midnight(d) <= t /\ t <= Midnight(d) + DayLength

--------------------------------------------------------------------------------
(* What the engines write *)

User(prompt) == [kind |-> "user", prompt |-> prompt]
Assistant(id, model, stop, used) ==
  [kind |-> "assistant", id |-> id, model |-> model, stop |-> stop, used |-> used]
Meta(cwd, model) == [kind |-> "meta", cwd |-> cwd, model |-> model, at |-> clock]
Count(total, last) == [kind |-> "count", total |-> total, last |-> last]
Huge == [kind |-> "huge"]  \* a line of more than 1 MB

Alive(f) == mtime[f] # NoTime /\ f \notin gone

Write(f, new) ==
  /\ SumFunction([g \in Files |-> Len(lines[g])]) + Len(new) <= scope.lines
  /\ lines' = [lines EXCEPT ![f] = @ \o new]
  /\ mtime' = [mtime EXCEPT ![f] = clock]
  /\ UNCHANGED <<clock, gone, scope, config>>

\* A file begins with the prompt, for Codex after the line about the session.
StartSession(f) ==
  /\ mtime[f] = NoTime
  /\ \E prompt \in scope.prompts :
       \/ f \in ClaudeFiles /\ Write(f, <<User(prompt)>>)
       \/ /\ f \in CodexFiles
          /\ \E cwd \in Workdirs, model \in scope.models :
               Write(f, <<Meta(cwd, model), User(prompt)>>)

\* A message of Claude Code is written when it begins, when it is complete, and
\* perhaps again after that as it was when it began; an error is a message too, and
\* has used nothing.
Message(f, id) ==
  LET old == {l \in ToSet(lines[f]) : l.kind = "assistant" /\ l.id = id}
  IN  /\ f \in ClaudeFiles /\ Alive(f)
      /\ \E model \in scope.models :
           /\ \A l \in old : l.model = model /\ l.used # 0
           /\ \/ Write(f, <<Assistant(id, model, FALSE, 1)>>)
              \/ /\ \A l \in old : ~l.stop
                 /\ Write(f, <<Assistant(id, model, TRUE, 2)>>)
              \/ old = {} /\ Write(f, <<Assistant(id, model, TRUE, 0)>>)

CountsIn(s) == {i \in DOMAIN s : s[i].kind = "count"}
LastCount(s) == s[Max(CountsIn(s))]
HasTotals(s) == CountsIn(s) # {} /\ LastCount(s).total # 0

\* What a session of Codex had used at its last count.
Running(s) ==
  IF HasTotals(s) THEN LastCount(s).total ELSE SumFunction([i \in CountsIn(s) |-> s[i].last])

\* Codex counts the tokens of each request, and from some version on the total too,
\* and may write such a count again.
CountTokens(f) ==
  /\ f \in CodexFiles /\ Alive(f)
  /\ \/ \E last \in 1 .. 2 : \E total \in {0, Running(lines[f]) + last} :
          (HasTotals(lines[f]) => total # 0) /\ Write(f, <<Count(total, last)>>)
     \/ HasTotals(lines[f]) /\ Write(f, <<LastCount(lines[f])>>)

HugeLine(f) == Alive(f) /\ (\A i \in DOMAIN lines[f] : lines[f][i] # Huge) /\ Write(f, <<Huge>>)

RemoveFile(f) ==
  /\ Alive(f) /\ Cardinality(gone) < scope.removed
  /\ gone' = gone \cup {f}
  /\ UNCHANGED <<clock, lines, mtime, scope, config>>

Tick ==
  /\ clock < scope.days * DayLength
  /\ clock' = clock + 1
  /\ UNCHANGED <<lines, mtime, gone, scope, config>>

\* main puts another configuration in effect, at any time.
UpdateConfig ==
  /\ config' \in scope.configs \ {config}
  /\ UNCHANGED fileVars

--------------------------------------------------------------------------------
(* The parsers *)

NoLine == [kind |-> "none"]

NothingFound ==
  [prompt |-> "", model |-> "",
   completed |-> [id \in Ids |-> NoLine], latest |-> [id \in Ids |-> NoLine],
   cwd |-> "", at |-> NoTime, total |-> 0, sum |-> 0, hasTotal |-> FALSE, requests |-> 0]

Prompted(a, l) == [a EXCEPT !.prompt = IF @ = "" THEN l.prompt ELSE @]

\* Mutant: an entry that began before the message was complete replaces it.
parseAssistantLatest(a, l) ==
  IF l.used = 0 THEN a
  ELSE [a EXCEPT !.model = IF @ = "" THEN normalizeModel[l.model] ELSE @,
                 !.completed[l.id] = l,
                 !.latest[l.id] = l]

parseAssistant(a, l) ==
  IF l.used = 0 THEN a
  ELSE [a EXCEPT !.model = IF @ = "" THEN normalizeModel[l.model] ELSE @,
                 !.completed[l.id] = IF l.stop THEN l ELSE @,
                 !.latest[l.id] = l]

parseSessionJSONL(a, l) ==
  CASE l.kind = "user" -> Prompted(a, l)
    [] l.kind = "assistant" -> parseAssistant(a, l)
    [] OTHER -> a

parseCount(a, l) ==
  [a EXCEPT !.total = IF l.total > 0 THEN l.total ELSE @, !.hasTotal = @ \/ l.total > 0,
            !.sum = @ + l.last, !.requests = @ + 1]

parseCodexSessionJSONL(a, l) ==
  CASE l.kind = "meta" ->
         [a EXCEPT !.cwd = IF @ = "" THEN l.cwd ELSE @,
                   !.at = IF @ = NoTime THEN l.at ELSE @,
                   !.model = IF @ = "" THEN normalizeModel[l.model] ELSE @]
    [] l.kind = "count" -> parseCount(a, l)
    [] l.kind = "user" -> Prompted(a, l)
    [] OTHER -> a

finalize(a, id) == IF a.completed[id] # NoLine THEN a.completed[id] ELSE a.latest[id]

\* Mutant: a file in which nothing was used is a session too.
ClaudeSessionIdle(f, a) ==
  LET reqs == {id \in Ids : a.latest[id] # NoLine} IN
  <<[file |-> f, read |-> read, job |-> classifyJob(a.prompt),
     tokens |-> SumFunction([id \in reqs |-> a.latest[id].used]),
     requests |-> Cardinality(reqs), cost |-> 0]>>

\* The session of a file of Claude Code, none if no message has used anything.
ClaudeSession(f, a) ==
  LET reqs == {id \in Ids : a.latest[id] # NoLine}
      tokens == SumFunction([id \in reqs |-> finalize(a, id).used])
      cost == SumFunction([id \in reqs |->
                finalize(a, id).used * resolvePricingFrom(cfg, normalizeModel[finalize(a, id).model])])
  IN  IF reqs = {} THEN <<>>
      ELSE <<[file |-> f, read |-> read, job |-> classifyJob(a.prompt), tokens |-> tokens,
              requests |-> Cardinality(reqs),
              cost |-> IF cost = 0 THEN tokens * resolvePricingFrom(cfg, a.model) ELSE cost]>>

\* The session of a file of Codex, none if it is of another day or workdir or has
\* used nothing.
CodexSession(f, a) ==
  LET tokens == IF a.hasTotal THEN a.total ELSE a.sum
      job == classifyJob(a.prompt)
  IN  IF \/ a.cwd \notin collectEngineWorkdirs(cfg, "codex")
         \/ a.at = NoTime \/ ~InDay(a.at, date)
         \/ tokens = 0
      THEN <<>>
      ELSE <<[file |-> f, read |-> read, job |-> IF job = "interactive" THEN "codex" ELSE job,
              tokens |-> tokens, requests |-> IF a.requests = 0 THEN 1 ELSE a.requests,
              cost |-> tokens * resolvePricingFrom(cfg, a.model)]>>

--------------------------------------------------------------------------------
(* ScanCosts *)

Total(ss) == SumFunction([i \in DOMAIN ss |-> ss[i].cost])

\* The costs of each job type.
ByType(ss) ==
  [j \in {s.job : s \in ToSet(ss)} |->
     SumFunction([i \in {k \in DOMAIN ss : ss[k].job = j} |-> ss[i].cost])]

Report(c, ss) == [cfg |-> c, total |-> Total(ss), byType |-> ByType(ss)]

Init ==
  /\ clock = 0 /\ gone = {} /\ scope \in Scopes
  /\ lines = [f \in Files |-> <<>>] /\ mtime = [f \in Files |-> NoTime]
  /\ config \in scope.configs /\ cfg = config
  /\ pc = "idle" /\ date = 0 /\ todo = {}
  /\ seen = {} /\ entries = {} /\ visited = {}
  /\ reading = "" /\ read = 0 /\ acc = NothingFound
  /\ sessions = <<>>
  /\ reports = [d \in Date |-> Report(config, <<>>)] /\ due = {} /\ lost = {}

\* Something was used, in a line that the parser of the file reaches.
Charges(l) ==
  \/ l.kind = "assistant" /\ l.used > 0
  \/ l.kind = "count" /\ (l.total > 0 \/ l.last > 0)
HasUsed(s) ==
  \E i \in DOMAIN s : Charges(s[i]) /\ \A j \in 1 .. i : s[j] # Huge

Cwd(f) == lines[f][1].cwd
StartedAt(f) == lines[f][1].at
Belongs(f, d, c) ==
  /\ Alive(f) /\ HasUsed(lines[f])
  /\ IF f \in ClaudeFiles
     THEN InDay(mtime[f], d) /\ \E wd \in collectEngineWorkdirs(c, "claude") : Slug[wd] = Dir[f]
     ELSE InDay(StartedAt(f), d) /\ Cwd(f) \in collectEngineWorkdirs(c, "codex")

handleCosts ==
  /\ pc = "idle"
  /\ date' \in {d \in Date : Midnight(d) <= clock}
  /\ cfg' = config
  /\ due' = {f \in Files : Belongs(f, date', config)} /\ lost' = {}
  /\ pc' = "claude"
  /\ todo' = collectEngineWorkdirs(config, "claude")
  /\ seen' = {} /\ entries' = {} /\ visited' = {} /\ sessions' = <<>>
  /\ UNCHANGED <<outsideVars, reading, read, acc, reports>>

\* Mutant: the directories that were read are not remembered.
ReadDirAgain(wd) ==
  /\ pc = "claude" /\ reading = "" /\ entries = {} /\ wd \in todo
  /\ todo' = todo \ {wd}
  /\ entries' = {f \in ClaudeFiles : Alive(f) /\ Dir[f] = Slug[wd]}
  /\ UNCHANGED <<outsideVars, askedVars, pc, seen, visited, reading, read, acc, sessions, reports, lost>>

ReadDir(wd) ==
  /\ pc = "claude" /\ reading = "" /\ entries = {} /\ wd \in todo
  /\ todo' = todo \ {wd}
  /\ seen' = seen \cup {Slug[wd]}
  /\ entries' = {f \in ClaudeFiles : Alive(f) /\ Dir[f] = Slug[wd] /\ Slug[wd] \notin seen}
  /\ UNCHANGED <<outsideVars, askedVars, pc, visited, reading, read, acc, sessions, reports, lost>>

MayFail == Cardinality(lost) < scope.failed

\* A directory that cannot be listed is passed over.
ReadDirFails(wd) ==
  /\ pc = "claude" /\ reading = "" /\ entries = {} /\ wd \in todo /\ MayFail
  /\ todo' = todo \ {wd}
  /\ seen' = seen \cup {Slug[wd]}
  /\ lost' = lost \cup {f \in ClaudeFiles : Alive(f) /\ Dir[f] = Slug[wd] /\ Slug[wd] \notin seen}
  /\ UNCHANGED <<outsideVars, askedVars, pc, entries, visited, reading, read, acc, sessions, reports>>

\* Mutant: a file that is being written is passed over as well.
StatSettled(f) ==
  /\ pc = "claude" /\ reading = "" /\ f \in entries
  /\ entries' = entries \ {f}
  /\ reading' = IF Alive(f) /\ InDay(mtime[f], date) /\ mtime[f] # clock THEN f ELSE ""
  /\ UNCHANGED <<outsideVars, askedVars, pc, todo, seen, visited, read, acc, sessions, reports, lost>>

\* A file of another day, or one that is gone, is passed over.
Stat(f) ==
  /\ pc = "claude" /\ reading = "" /\ f \in entries
  /\ entries' = entries \ {f}
  /\ reading' = IF Alive(f) /\ InDay(mtime[f], date) THEN f ELSE ""
  /\ UNCHANGED <<outsideVars, askedVars, pc, todo, seen, visited, read, acc, sessions, reports, lost>>

\* The walk over the files of Codex visits those that were there when it began, and
\* perhaps some that came later.
BeginWalk ==
  /\ pc = "claude" /\ reading = "" /\ entries = {} /\ todo = {}
  /\ pc' = IF collectEngineWorkdirs(cfg, "codex") = {} THEN "aggregate" ELSE "codex"
  /\ entries' = {f \in CodexFiles : pc' = "codex" /\ Alive(f)}
  /\ UNCHANGED <<outsideVars, askedVars, todo, seen, visited, reading, read, acc, sessions, reports, lost>>

Visit(f) ==
  /\ pc = "codex" /\ reading = ""
  /\ f \in CodexFiles \ visited /\ (f \in entries \/ Alive(f))
  /\ visited' = visited \cup {f} /\ entries' = entries \ {f}
  /\ reading' = IF Alive(f) THEN f ELSE ""
  /\ UNCHANGED <<outsideVars, askedVars, pc, todo, seen, read, acc, sessions, reports, lost>>

EndWalk ==
  /\ pc = "codex" /\ reading = "" /\ entries = {}
  /\ pc' = "aggregate"
  /\ UNCHANGED <<outsideVars, askedVars, todo, seen, entries, visited, reading, read, acc, sessions, reports, lost>>

\* The buffer of the scanner holds 1 MB: a longer line ends the reading, and nobody
\* asks for the error.
More == read < Len(lines[reading]) /\ lines[reading][read + 1] # Huge

ReadLine ==
  /\ reading # "" /\ More
  /\ read' = read + 1
  /\ acc' = IF reading \in ClaudeFiles THEN parseSessionJSONL(acc, lines[reading][read + 1])
            ELSE parseCodexSessionJSONL(acc, lines[reading][read + 1])
  /\ UNCHANGED <<outsideVars, askedVars, pc, todo, seen, entries, visited, reading, sessions, reports, lost>>

\* A file of Claude Code may have gone between Info and Open.
Finished == reading # "" /\ (~More \/ (read = 0 /\ reading \in gone))

Found == IF reading \in ClaudeFiles THEN ClaudeSession(reading, acc) ELSE CodexSession(reading, acc)

EndReading ==
  /\ sessions' = sessions \o Found
  /\ reading' = "" /\ read' = 0 /\ acc' = NothingFound
  /\ UNCHANGED <<outsideVars, askedVars, pc, todo, seen, entries, visited, reports>>

CloseFile == Finished /\ EndReading /\ UNCHANGED lost

\* A file that cannot be opened, or not be read to its end, is what has been read.
ReadFails ==
  /\ reading # "" /\ MayFail
  /\ lost' = lost \cup {reading}
  /\ EndReading

Aggregate ==
  /\ pc = "aggregate"
  /\ reports' = [reports EXCEPT ![date] = Report(cfg, sessions)]
  /\ pc' = "idle" /\ sessions' = <<>>
  /\ UNCHANGED <<outsideVars, askedVars, todo, seen, entries, visited, reading, read, acc, lost>>

Outside ==
  \/ Tick
  \/ UpdateConfig
  \/ \E f \in scope.files : StartSession(f) \/ HugeLine(f) \/ RemoveFile(f) \/ CountTokens(f)
                      \/ \E id \in scope.ids : Message(f, id)

Request ==
  \/ handleCosts \/ BeginWalk \/ EndWalk \/ ReadLine \/ CloseFile \/ ReadFails \/ Aggregate
  \/ \E wd \in Workdirs : ReadDir(wd) \/ ReadDirFails(wd)
  \/ \E f \in Files : Stat(f) \/ Visit(f)

Next ==
  \/ Request
  \/ Outside /\ UNCHANGED requestVars

Spec == Init /\ [][Next]_vars

--------------------------------------------------------------------------------
(* Correctness *)

SessionType ==
  [file : Files, read : Nat, job : ToSet(Keywords) \cup {"interactive", "codex"},
   tokens : Nat \ {0}, requests : Nat \ {0}, cost : Nat]

\* What the variables may hold; a session has used something, and lines are of the
\* kind of their file (costs.go:46-75).
TypeOK ==
  /\ scope \in Scopes /\ clock \in 0 .. scope.days * DayLength /\ gone \subseteq Files
  /\ \A f \in Files : mtime[f] \in 0 .. NoTime /\ (mtime[f] = NoTime <=> lines[f] = <<>>)
  /\ pc \in {"idle", "claude", "codex", "aggregate"} /\ date \in Date
  /\ todo \subseteq Workdirs /\ seen \subseteq {Slug[wd] : wd \in Workdirs}
  /\ entries \subseteq (IF pc = "codex" THEN CodexFiles ELSE ClaudeFiles) /\ visited \subseteq CodexFiles
  /\ reading \in Files \cup {""} /\ (reading = "" => read = 0 /\ acc = NothingFound)
  /\ ToSet(sessions) \subseteq SessionType
  /\ config \in Configs /\ cfg \in Configs
  /\ DOMAIN reports = Date /\ due \subseteq Files /\ lost \subseteq Files

\* The session that the parser makes of the lines it has read is what they say,
\* however its messages are interleaved, repeated or incomplete: each is charged once,
\* for what it used at most and at the price of its own model, that of the
\* configuration of the request if there is one.  It is listed under the skill of the job that it
\* runs, whatever other names that name contains (costs.go:426-549, 663-691).
MessagesIn(s) == {l \in ToSet(s) : l.kind = "assistant" /\ l.used > 0}
LinesOf(s, id) == {l \in MessagesIn(s) : l.id = id}
IdsIn(s) == {l.id : l \in MessagesIn(s)}
UsedBy(s, id) == Max({l.used : l \in LinesOf(s, id)})
Used(f, s) ==
  IF f \in ClaudeFiles THEN SumFunction([id \in IdsIn(s) |-> UsedBy(s, id)]) ELSE Running(s)

Price(c, model) ==
  LET m == normalizeModel[model] IN
  IF m \in DOMAIN Configured[c] \ {""} THEN Configured[c][m] ELSE resolvePricingFrom(c, m)

CostIn(c, f, s) ==
  IF f \in ClaudeFiles
  THEN SumFunction([id \in IdsIn(s) |->
         UsedBy(s, id) * Price(c, (CHOOSE l \in LinesOf(s, id) : TRUE).model)])
  ELSE Used(f, s) * Price(c, s[1].model)

SessionsAreCounted ==
  \A s \in ToSet(sessions) :
    LET had == SubSeq(lines[s.file], 1, s.read)
    IN  /\ s.tokens = Used(s.file, had) /\ s.cost = CostIn(cfg, s.file, had)
        /\ s.file \in ClaudeFiles => s.requests = Cardinality(IdsIn(had))
        /\ \A l \in ToSet(had) :
             l.kind = "user" /\ l.prompt \in ToSet(Keywords) => s.job = l.prompt

\* A report has every session that belonged to the date and to the workdirs of its
\* configuration when it was asked for and still does, whatever was started or removed
\* during the scan, but for the files that could not be read, and none twice, though
\* two workdirs may share a project directory (costs.go:181-217, 234-253, 447-449).
ReportIsComplete ==
  pc = "aggregate" =>
    /\ \A f \in due \ lost : Belongs(f, date, cfg) => \E s \in ToSet(sessions) : s.file = f
    /\ \A i, j \in DOMAIN sessions : sessions[i].file = sessions[j].file => i = j

\* Of two reports of a date that are asked for one after the other the later is at
\* least as high, in total and for each job type, while the date lasts, unless the
\* configuration is another one, a file was removed or a file could not be read
\* (costs.go:102-157, observer.go:871-872).
ReportsGrow ==
  [][(pc = "aggregate" /\ clock <= Midnight(date) + DayLength /\ gone = {} /\ lost = {})
       => LET old == reports[date] new == reports'[date] IN
          new.cfg = old.cfg =>
            /\ old.total <= new.total
            /\ \A j \in DOMAIN old.byType :
                 j \in DOMAIN new.byType /\ old.byType[j] <= new.byType[j]]_reports
================================================================================
