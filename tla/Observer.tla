------------------------------- MODULE Observer -------------------------------
(***************************************************************************)
(* The handlers of src/internal/observer.go that answer from something     *)
(* which changes meanwhile: the lists (ObserverLists), the status of the   *)
(* platforms (PlatformStatus) and the log of a job (JobLog).  They share   *)
(* nothing but the config, which each of them reads once, so a behaviour   *)
(* follows one kind of request.                                            *)
(***************************************************************************)
EXTENDS Integers, Sequences

CONSTANTS
  Endpoint, Row, Unscannable, Platform, NoPlatform, Identifier, Existing, Holds,
  QueryPage, QueryPerPage, MaxPerPage, DefaultPerPage, MaxInt,      \* of ObserverLists
  StatusPlatform, Type, Untyped, Config, MaxActions, MaxDay,        \* of PlatformStatus
  MaxSteps, MaxNoise, MaxCuts, MaxRuns, MaxTail                     \* of JobLog

VARIABLES
  kind,     \* of request: "lists", "status" or "log"
  config, store, rq, client, answer, owed, doubt,                   \* of ObserverLists
  platforms, day, actions, statusRq, response,                      \* of PlatformStatus
  run, engine, todo, cut, noise, file, known, asked, logAnswer, done, torn  \* of JobLog

Lists == INSTANCE ObserverLists

Status == INSTANCE PlatformStatus WITH
  Platform <- StatusPlatform, config <- platforms, rq <- statusRq

Log == INSTANCE JobLog WITH answer <- logAnswer

ASSUME ObserverAssumption ==
  Lists!ListsAssumption /\ Status!StatusAssumption /\ Log!LogAssumption

listVars == <<config, store, rq, client, answer, owed, doubt>>
statusVars == <<platforms, day, actions, statusRq, response>>
logVars == <<run, engine, todo, cut, noise, file, known, asked, logAnswer, done, torn>>
vars == <<kind, listVars, statusVars, logVars>>

\* The variables of the other parts have any value.
NoLists ==
  /\ config = NoPlatform /\ store = <<>> /\ rq = <<>> /\ client = <<>> /\ answer = <<>>
  /\ owed = {} /\ doubt = FALSE
NoStatus == platforms = <<>> /\ day = 0 /\ actions = <<>> /\ statusRq = <<>> /\ response = <<>>
NoLog ==
  /\ run = 0 /\ engine = "" /\ todo = <<>> /\ cut = "nothing" /\ noise = 0 /\ file = <<>>
  /\ known = FALSE /\ asked = FALSE /\ logAnswer = [code |-> 0] /\ done = <<>> /\ torn = FALSE

Init ==
  \/ kind = "lists"  /\ Lists!Init  /\ NoStatus /\ NoLog
  \/ kind = "status" /\ Status!Init /\ NoLists  /\ NoLog
  \/ kind = "log"    /\ Log!Init    /\ NoLists  /\ NoStatus

Next ==
  \/ kind = "lists"  /\ Lists!Next  /\ UNCHANGED <<kind, statusVars, logVars>>
  \/ kind = "status" /\ Status!Next /\ UNCHANGED <<kind, listVars, logVars>>
  \/ kind = "log"    /\ Log!Next    /\ UNCHANGED <<kind, listVars, statusVars>>

Spec == Init /\ [][Next]_vars

--------------------------------------------------------------------------------
(* The properties of the modules, for the requests they are about *)

\* The variables and the answers have their types (observer.go:41-46, 787-832).
TypeOK ==
  /\ kind \in {"lists", "status", "log"}
  /\ kind = "lists"  => Lists!TypeOK
  /\ kind = "status" => Status!TypeOK
  /\ kind = "log"    => Log!TypeOK

\* See ObserverLists: a client that walks to the last page has seen every row that
\* was there all the time and never came nearer to the front (observer.go:797-824).
WalkIsComplete == kind = "lists" => Lists!WalkIsComplete

\* See ObserverLists: a page beyond the last one is empty (observer.go:802).
BeyondIsEmpty == kind = "lists" => Lists!BeyondIsEmpty

\* See ObserverLists and PlatformStatus: the database and the table of a list come
\* from one config, and so do all platforms of a status (observer.go:101, 323-333).
AnswersFromOneConfig ==
  /\ kind = "lists"  => Lists!AnswersFromOneConfig
  /\ kind = "status" => Status!StatusOfOneConfig

\* See PlatformStatus: a platform that is shown as healthy was really counted
\* (observer.go:939-963).
HealthIsHonest == kind = "status" => Status!HealthIsHonest

\* See PlatformStatus: the types of a breakdown account for all actions of today
\* (observer.go:952-986).
BreakdownAddsUp == kind = "status" => Status!BreakdownAddsUp

\* See JobLog: the summary of a run that is over tells what the run did
\* (observer.go:183-260).
SummaryIsComplete == kind = "log" => Log!SummaryIsComplete

\* See JobLog: who reads the log of a running job again gets what he had and more,
\* unless stderr has spoiled a line between its object and its newline
\* (observer.go:186-193, 306-315).
AnswersGrow == Log!AnswersGrow
================================================================================
