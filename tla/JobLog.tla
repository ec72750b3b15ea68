-------------------------------- MODULE JobLog --------------------------------
(***************************************************************************)
(* The log of a job: Runner.Run lets two goroutines of os/exec copy stdout *)
(* and stderr to one file (src/internal/runner.go:99-113), and GET /logs   *)
(* reads and summarises it at any time (src/internal/observer.go:165-319). *)
(*                                                                         *)
(* Engines write a JSON object per line.  A line arrives whole or in       *)
(* pieces, cut inside the object or before the newline, and stderr may     *)
(* write in between.  Runs of the job do not overlap here, and a read of   *)
(* the file is one step.                                                   *)
(***************************************************************************)
EXTENDS Naturals, SequencesExt

CONSTANTS
  MaxSteps,  \* bound: what one run does
  MaxNoise,  \* bound: what one run writes to stderr
  MaxCuts,   \* bound: pieces of stdout that end within a line
  MaxRuns,   \* bound: runs of the job
  MaxTail    \* entries that an answer may have

LogAssumption == {MaxSteps, MaxNoise, MaxCuts, MaxRuns, MaxTail} \subseteq Nat

Engine == {"claude", "codex"}

\* What a run does: say something, use a tool or run a command, which may fail, or
\* fail itself.
Work == {"say", "tool", "bad tool", "fail"}

VARIABLES
  run,     \* number of the run, 0 before the first one
  engine,
  todo,    \* the lines whose object stdout has still to write, or to finish
  cut,     \* what of a line begun is to come: "nothing", "object" or "newline"
  noise,   \* what stderr has written
  file,    \* the pieces in the log
  known,   \* the scheduler has the job
  asked,   \* a request has found it
  answer,  \* the last response
  \* history
  done,    \* the work of this run that todo had at its beginning
  torn     \* stderr has broken a line of stdout

logVars == <<run, engine, todo, cut, noise, file, done, torn>>
httpVars == <<known, asked, answer>>
vars == <<logVars, httpVars>>

--------------------------------------------------------------------------------
(* What the engines write *)

Assistant(block) == [type |-> "assistant", item |-> block, failed |-> FALSE]
Item(type, item, failed) == [type |-> type, item |-> item, failed |-> failed]
ErrorLine == [type |-> "error", item |-> "none", failed |-> TRUE]

Command(failed) ==
  <<Item("item.started", "command_execution", FALSE),
    Item("item.completed", "command_execution", failed)>>

Lines(e, w) ==
  CASE w = "fail" -> <<ErrorLine>>
    [] w # "fail" /\ e = "claude" -> <<Assistant(IF w = "say" THEN "text" ELSE "tool_use")>>
    [] OTHER -> IF w = "say" THEN <<Item("item.started", "agent_message", FALSE),
                                    Item("item.completed", "agent_message", FALSE)>>
                             ELSE Command(w = "bad tool")

\* What a reader of the summary should be told.
Entries(e, w) ==
  CASE w = "say" -> <<"[text]">>
    [] w = "fail" -> <<"[error]">>
    [] w = "bad tool" /\ e = "codex" -> <<"[tool]", "[error]">>
    [] OTHER -> <<"[tool]">>

--------------------------------------------------------------------------------
(* filterNDJSON *)

\* Mutant: a message is shown when it is announced as well.
entryAlsoStarted(line) ==
  CASE line.type = "assistant" ->
         IF line.item = "text" THEN <<"[text]">> ELSE IF line.item = "tool_use" THEN <<"[tool]">> ELSE <<>>
    [] line.item = "agent_message" -> <<"[text]">>
    [] line.item = "command_execution" ->
         IF line.type = "item.started" THEN <<"[tool]">> ELSE IF line.failed THEN <<"[error]">> ELSE <<>>
    [] line.type \in {"error", "turn.failed"} -> <<"[error]">>
    [] OTHER -> <<>>

entry(line) ==
  CASE line.type = "assistant" ->
         IF line.item = "text" THEN <<"[text]">> ELSE IF line.item = "tool_use" THEN <<"[tool]">> ELSE <<>>
    [] line.item = "agent_message" ->
         IF line.type = "item.completed" THEN <<"[text]">> ELSE <<>>
    [] line.item = "command_execution" ->
         IF line.type = "item.started" THEN <<"[tool]">> ELSE IF line.failed THEN <<"[error]">> ELSE <<>>
    [] line.type \in {"error", "turn.failed"} -> <<"[error]">>
    [] OTHER -> <<>>

\* Piece i of the file begins a line.
Begins(i) == i = 1 \/ file[i - 1].ends

\* Piece i completes a JSON object that begins its line.
Object(i) ==
  \/ file[i].part = "all" /\ Begins(i)
  \/ file[i].part = "tail" /\ i > 1 /\ file[i - 1].part = "head" /\ Begins(i - 1)

\* Something else follows it in the line.
Spoiled(i) ==
  Object(i) /\ ~file[i].ends /\ i < Len(file) /\ file[i + 1].part # "newline"

\* The last line need not have an end.
Parses(i) == Object(i) /\ ~Spoiled(i)

filterNDJSON ==
  FlattenSeq([i \in DOMAIN file |-> IF Parses(i) THEN entry(file[i].line) ELSE <<>>])

Tail16K(s) == SubSeq(s, IF Len(s) > MaxTail THEN Len(s) - MaxTail + 1 ELSE 1, Len(s))

\* Mutant: the end of the log is summarised.
summaryOfTail ==
  FlattenSeq([i \in DOMAIN file |->
                IF i + MaxTail > Len(file) /\ Parses(i) THEN entry(file[i].line) ELSE <<>>])

summary == Tail16K(filterNDJSON)

--------------------------------------------------------------------------------
(* The run *)

Init ==
  /\ run = 0 /\ engine \in Engine
  /\ todo = <<>> /\ cut = "nothing" /\ noise = 0
  /\ file = <<>>
  /\ known = TRUE /\ asked = FALSE /\ answer = [code |-> 0, run |-> 0, data |-> <<>>]
  /\ done = <<>> /\ torn = FALSE

Over == todo = <<>> /\ cut = "nothing"

\* os.Create empties the log.
Run ==
  /\ Over /\ run < MaxRuns
  /\ run' = run + 1
  /\ \E w \in BoundedSeq(Work, MaxSteps) :
       /\ done' = w
       /\ todo' = FlattenSeq([i \in DOMAIN w |-> Lines(engine, w[i])])
  /\ file' = <<>> /\ noise' = 0 /\ torn' = FALSE
  /\ UNCHANGED <<engine, cut, httpVars>>

Copy(part, line, ends) == file' = Append(file, [part |-> part, line |-> line, ends |-> ends])

MayCut ==
  Cardinality({i \in DOMAIN file : file[i].part # "noise" /\ ~file[i].ends}) < MaxCuts

\* The object of the first line is complete, with its newline or without.
CopyObject(part) ==
  \E ends \in BOOLEAN :
    /\ ends \/ MayCut
    /\ Copy(part, Head(todo), ends)
    /\ todo' = Tail(todo)
    /\ cut' = IF ends THEN "nothing" ELSE "newline"

\* A goroutine copies what it gets from stdout: a line or a piece of one.
CopyStdout ==
  /\ \/ /\ cut = "nothing" /\ todo # <<>>
        /\ \/ CopyObject("all")
           \/ /\ MayCut
              /\ Copy("head", Head(todo), FALSE)
              /\ cut' = "object" /\ UNCHANGED todo
        /\ torn' = (torn \/ ~Begins(Len(file) + 1))
     \/ cut = "object" /\ CopyObject("tail") /\ UNCHANGED torn
     \/ /\ cut = "newline"
        /\ Copy("newline", ErrorLine, TRUE)
        /\ cut' = "nothing" /\ UNCHANGED <<todo, torn>>
  /\ UNCHANGED <<run, engine, noise, done, httpVars>>

\* Another one copies stderr, with or without an end of line.
CopyStderr ==
  /\ ~Over /\ noise < MaxNoise
  /\ noise' = noise + 1
  /\ \E ends \in BOOLEAN : Copy("noise", ErrorLine, ends)
  /\ torn' = (torn \/ cut # "nothing")
  /\ UNCHANGED <<run, engine, todo, cut, done, httpVars>>

--------------------------------------------------------------------------------
(* handleLogs *)

Reload == known' = ~known /\ UNCHANGED <<asked, answer, logVars>>

\* The name is looked up before the file is read.
LookUp ==
  /\ ~asked
  /\ IF known THEN asked' = TRUE /\ UNCHANGED answer
              ELSE answer' = [code |-> 404, run |-> run, data |-> <<>>] /\ UNCHANGED asked
  /\ UNCHANGED <<known, logVars>>

ReadLog ==
  /\ asked
  /\ asked' = FALSE
  /\ answer' = IF run = 0 THEN [code |-> 404, run |-> 0, data |-> <<>>]
               ELSE [code |-> 200, run |-> run, data |-> summary]
  /\ UNCHANGED <<known, logVars>>

Next == Run \/ CopyStdout \/ CopyStderr \/ Reload \/ LookUp \/ ReadLog

Spec == Init /\ [][Next]_vars

--------------------------------------------------------------------------------
(* Properties *)

TypeOK ==
  /\ run \in 0..MaxRuns /\ noise \in 0..MaxNoise
  /\ cut \in {"nothing", "object", "newline"} /\ (cut = "object" => todo # <<>>)
  /\ \A i \in DOMAIN file : file[i].ends \in BOOLEAN
  /\ known \in BOOLEAN /\ asked \in BOOLEAN /\ torn \in BOOLEAN
  /\ answer.code \in {0, 200, 404} /\ Len(answer.data) <= MaxTail

\* The summary of a run that is over tells what the run did, once each and in order,
\* for both formats, unless stderr broke a line of stdout (observer.go:183-260,
\* runner.go:110-111).
SummaryIsComplete ==
  Over /\ ~torn => filterNDJSON = FlattenSeq([i \in DOMAIN done |-> Entries(engine, done[i])])

\* Who reads the log of a running job again gets what he had and more: nothing that a
\* summary has shown is taken back when its line goes on (observer.go:186-193,
\* 263-270), unless stderr wrote between an object and its newline, which spoils a
\* line that was shown.
AnswersGrow ==
  [][/\ answer.code = 200 /\ answer'.code = 200 /\ answer.run = answer'.run
     /\ Len(answer'.data) < MaxTail
     /\ ~\E i \in DOMAIN file : Spoiled(i)
     => IsPrefix(answer.data, answer'.data)]_vars
================================================================================
