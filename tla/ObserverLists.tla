----------------------------- MODULE ObserverLists -----------------------------
(***************************************************************************)
(* The lists of the HTTP API (src/internal/observer.go): a handler looks   *)
(* its platform up, chooses a table, counts its rows, reads one page of    *)
(* them and answers, each a step of its own.  In between main swaps the    *)
(* config and the tools of the platform write to the database, which       *)
(* Looper only reads.                                                      *)
(*                                                                         *)
(* A table is the sequence of the rows that the WHERE of the handler       *)
(* selects, in its ORDER BY.  The client is the dashboard, which walks     *)
(* from page 1 to the last one, or a user who asks for any page.           *)
(***************************************************************************)
EXTENDS Integers, FiniteSets, SequencesExt

CONSTANTS
  Endpoint,       \* some of "replies", "tracking", "candidate-backlog", "reply-reviews", "rounds"
  Row,
  Unscannable,    \* rows with a NULL where Scan wants a value
  Platform,       \* what a config may say of the platform: its db and its table
  NoPlatform,     \* what it is when the config does not have the platform
  Identifier,     \* the table names that are SQL identifiers
  Existing,       \* the tables that exist: [db, table]
  Holds,          \* bound: the rows that each of them may have
  QueryPage, QueryPerPage, MaxPerPage, DefaultPerPage,
  MaxInt          \* of int

\* A page has a size, and the rows of a table can be counted.
ListsAssumption ==
  /\ MaxInt \in Nat /\ MaxPerPage \in Nat /\ DefaultPerPage \in 1..MaxPerPage
  /\ QueryPage \subseteq -MaxInt..MaxInt /\ QueryPerPage \subseteq Int
  /\ IsFiniteSet(Row) /\ Cardinality(Row) <= MaxInt
  /\ Holds \in [Existing -> SUBSET Row]
  /\ NoPlatform \notin Platform

VARIABLES
  config,   \* Observer.config
  store,    \* the rows of each table
  rq,       \* the request
  client,   \* what it asks for: endpoint, page and perPage of the query, or nothing
  answer,   \* the last response
  \* history
  owed,     \* the rows that the walk has not shown and should: those in the table
            \* since its first request, less the ones that it is excused of
  doubt     \* the total may be less than what there is

reqVars == <<rq, client, answer>>
history == <<owed, doubt>>
vars == <<config, store, reqVars, history>>

--------------------------------------------------------------------------------
(* Pages *)

\* int is of limited width.
Wrap(n) == ((n + MaxInt + 1) % (2 * MaxInt + 2)) - MaxInt - 1

\* Mutant: the offset of the page after.
parsePageShifted(q) ==
  LET page == IF q.page > 0 THEN q.page ELSE 1
      perPage == IF q.perPage \in 1..MaxPerPage THEN q.perPage ELSE DefaultPerPage
  IN [page |-> page, perPage |-> perPage, offset |-> Wrap(page * perPage)]

\* Mutant: page 0 is a page.
parsePageZero(q) ==
  LET page == IF q.page >= 0 THEN q.page ELSE 1
      perPage == IF q.perPage \in 1..MaxPerPage THEN q.perPage ELSE DefaultPerPage
  IN [page |-> page, perPage |-> perPage, offset |-> Wrap((page - 1) * perPage)]

parsePage(q) ==
  LET page == IF q.page > 0 THEN q.page ELSE 1
      perPage == IF q.perPage \in 1..MaxPerPage THEN q.perPage ELSE DefaultPerPage
  IN [page |-> page, perPage |-> perPage, offset |-> Wrap((page - 1) * perPage)]

Pages(total, perPage) ==
  LET pages == (total + perPage - 1) \div perPage IN IF pages < 1 THEN 1 ELSE pages

\* Mutant: beyond the end there is the last row.
PageClamped(rows, pp) ==
  LET from == Min({IF pp.offset < 0 THEN 0 ELSE pp.offset, Max({Len(rows) - 1, 0})}) IN
  SubSeq(rows, from + 1, Min({from + pp.perPage, Len(rows)}))

\* LIMIT and OFFSET; SQLite takes a negative offset for 0.
Page(rows, pp) ==
  LET from == IF pp.offset < 0 THEN 0 ELSE pp.offset IN
  SubSeq(rows, from + 1, Min({from + pp.perPage, Len(rows)}))

\* The rows of a response.
Scanned(rows) == Range(rows) \ Unscannable

--------------------------------------------------------------------------------
(* Requests *)

\* publishedItemsTable for two endpoints, a name in the handler for the others.
TableOf(e, p) == IF e \in {"replies", "tracking"} THEN p.table ELSE e

SourceOf(e, p) == [db |-> p.db, table |-> TableOf(e, p)]

Idle == [pc |-> "idle"]
NoAnswer == [code |-> 0]

Init ==
  /\ config \in Platform
  /\ store \in [Existing -> {s \in BoundedSeq(Row, Cardinality(Row)) : IsInjective(s)}]
  /\ \A s \in Existing : Range(store[s]) \subseteq Holds[s]
  /\ rq = Idle
  /\ client \in [endpoint : Endpoint, page : {1}, perPage : QueryPerPage]
  /\ answer = NoAnswer
  /\ owed = {} /\ doubt = FALSE

Excused == owed' = {}

Request(q) == [pc |-> "looking", endpoint |-> q.endpoint, pp |-> parsePage(q)]

RowsOf(e) ==
  UNION {Range(store[s]) : s \in Existing \cap {SourceOf(e, p) : p \in {config} \ {NoPlatform}}}

\* The first request of a walk starts its history.
Ask ==
  /\ rq.pc = "idle" /\ client.page # 0
  /\ rq' = Request(client)
  /\ owed' = IF answer = NoAnswer THEN RowsOf(client.endpoint) ELSE owed
  /\ doubt' = FALSE
  /\ UNCHANGED <<config, store, client, answer>>

\* A user types the number of a page.
Jump ==
  /\ rq.pc = "idle"
  /\ \E n \in QueryPage : client' = [client EXCEPT !.page = n]
  /\ Excused
  /\ rq' = Request(client')
  /\ doubt' = FALSE
  /\ UNCHANGED <<config, store, answer>>

\* The dashboard offers the next page as long as there is one.
Answer(a) ==
  /\ answer' = a
  /\ rq' = Idle
  /\ client' = [client EXCEPT !.page = IF a.code = 200 /\ a.page < a.pages THEN a.page + 1 ELSE 0]
  /\ UNCHANGED <<config, store, doubt>>

jsonError(code) == Answer([code |-> code]) /\ UNCHANGED owed

sendPaginated(data, total, source) ==
  Answer([code |-> 200, data |-> data, total |-> total, page |-> rq.pp.page,
          pages |-> Pages(total, rq.pp.perPage), pp |-> rq.pp, source |-> source,
          doubt |-> doubt])

lookupPlatform ==
  /\ rq.pc = "looking"
  /\ IF config = NoPlatform
       THEN jsonError(404)
       ELSE /\ rq' = [pc |-> "naming", endpoint |-> rq.endpoint, pp |-> rq.pp, platform |-> config]
            /\ UNCHANGED <<config, store, client, answer, history>>

Query(source) ==
  /\ rq' = [pc |-> "counting", endpoint |-> rq.endpoint, pp |-> rq.pp, source |-> source]
  /\ UNCHANGED <<config, store, client, answer, history>>

\* Mutant: the table comes from a second look at the config.
chooseTableAgain ==
  /\ rq.pc = "naming"
  /\ LET again == IF config = NoPlatform THEN rq.platform ELSE config IN
     Query([SourceOf(rq.endpoint, again) EXCEPT !.db = rq.platform.db])

chooseTable ==
  /\ rq.pc = "naming"
  /\ LET source == SourceOf(rq.endpoint, rq.platform) IN
     IF rq.endpoint \in {"replies", "tracking"} /\ source.table \notin Identifier
       THEN jsonError(400)
     ELSE IF rq.endpoint = "reply-reviews" /\ source \notin Existing
       THEN sendPaginated({}, 0, source) /\ UNCHANGED owed
     ELSE Query(source)

Counted(n) ==
  /\ rq' = [pc |-> "selecting", endpoint |-> rq.endpoint, pp |-> rq.pp,
            source |-> rq.source, total |-> n]
  /\ UNCHANGED <<config, store, client, answer, owed>>

\* The query fails: the table does not exist, or the database is busy.  Only the
\* reviews say so; the others go on with a total of 0.
CountFails ==
  /\ rq.pc = "counting"
  /\ IF rq.endpoint = "reply-reviews"
       THEN jsonError(500)
       ELSE Counted(0) /\ doubt' = TRUE

Count ==
  /\ rq.pc = "counting" /\ rq.source \in Existing
  /\ Counted(Len(store[rq.source]))
  /\ doubt' = FALSE

SelectFails ==
  /\ rq.pc = "selecting"
  /\ jsonError(500)

\* Rows that cannot be scanned are skipped.  An error of the database ends the loop
\* like the end of the page, since rows.Err is not asked: the rest of it is lost.
Select ==
  /\ rq.pc = "selecting" /\ rq.source \in Existing
  /\ LET rows == Page(store[rq.source], rq.pp) IN
     \/ /\ sendPaginated(Scanned(rows), rq.total, rq.source)
        /\ owed' = owed \ Scanned(rows)
     \/ \E n \in 0..Len(rows) - 1 :
        /\ sendPaginated(Scanned(SubSeq(rows, 1, n)), rq.total, rq.source)
        /\ owed' = owed \ Range(rows)

--------------------------------------------------------------------------------
(* The others *)

UpdateConfig ==
  /\ config' \in (Platform \cup {NoPlatform}) \ {config}
  /\ Excused
  /\ UNCHANGED <<store, reqVars, doubt>>

\* The rows that are not there any more, or nearer to the front.
Closer(old, new) ==
  {old[i] : i \in {i \in DOMAIN old : ~\E j \in DOMAIN new : j >= i /\ new[j] = old[i]}}

\* What comes nearer may pass to a page that the client has seen.
Rewrite(s, rows) ==
  /\ store' = [store EXCEPT ![s] = rows]
  /\ owed' = owed \ Closer(store[s], rows)
  /\ UNCHANGED <<config, reqVars>>

\* A row is added, or begins to match, anywhere in the order.
AddRow ==
  \E s \in Existing : \E r \in Holds[s] \ Range(store[s]) :
    /\ \E i \in 1..Len(store[s]) + 1 : Rewrite(s, InsertAt(store[s], i, r))
    /\ doubt' = TRUE

\* A row is deleted or does not match any more.
RemoveRow ==
  \E s \in Existing : \E i \in 1..Len(store[s]) :
    Rewrite(s, RemoveAt(store[s], i)) /\ UNCHANGED doubt

\* An UPDATE of a column of the ORDER BY: views and likes, a score, a status, a time.
MoveRow ==
  \E s \in Existing : \E i, j \in 1..Len(store[s]) :
    Rewrite(s, InsertAt(RemoveAt(store[s], i), j, store[s][i])) /\ UNCHANGED doubt

Next ==
  \/ Ask \/ Jump \/ lookupPlatform \/ chooseTable
  \/ Count \/ CountFails \/ Select \/ SelectFails
  \/ UpdateConfig \/ AddRow \/ RemoveRow \/ MoveRow

Spec == Init /\ [][Next]_vars

--------------------------------------------------------------------------------
(* Properties *)

TypeOK ==
  /\ config \in Platform \cup {NoPlatform}
  /\ \A s \in Existing : store[s] \in Seq(Row) /\ IsInjective(store[s])
  /\ rq.pc \in {"idle", "looking", "naming", "counting", "selecting"}
  /\ rq.pc # "idle" => rq.pp.page \in Nat \ {0} /\ rq.pp.offset \in (-MaxInt - 1)..MaxInt
  /\ answer.code \in {0, 200, 400, 404, 500}
  /\ answer.code = 200 =>
       /\ answer.pages \in Nat \ {0}
       /\ answer.data \subseteq Row /\ Cardinality(answer.data) <= answer.pp.perPage
  /\ owed \subseteq Row /\ doubt \in BOOLEAN

\* observer.go:325: "single snapshot so a hot-reload cannot mix values across reads".
\* The database and the table of an answer come from one config.
AnswersFromOneConfig ==
  answer.code = 200 => \E p \in Platform : answer.source = SourceOf(client.endpoint, p)

Ended == answer.code = 200 /\ client.page = 0 /\ rq.pc = "idle"

\* A client that walks to the last page has seen every row that was there all the
\* time and never came nearer to the front, wherever rows were added meanwhile,
\* unless one was added between the COUNT and the SELECT of its last page or that
\* COUNT failed (observer.go:797-824).  A row comes nearer when one before it leaves
\* or moves behind it, or when it moves itself: the lists are sorted by views, scores
\* and states, which change (observer.go:484, 565-567, 652).  The walk is also
\* excused of the page on which the loop over the rows ended early, and of all of
\* them when the config was reloaded or the user jumped.
WalkIsComplete == Ended /\ ~answer.doubt => owed \subseteq Unscannable

\* A page beyond the last one is empty, as long as its offset fits into an int
\* (observer.go:802).
BeyondIsEmpty ==
  /\ answer.code = 200 /\ answer.page > answer.pages
  /\ ~answer.doubt
  /\ (answer.page - 1) * answer.pp.perPage <= MaxInt
  => answer.data = {}
================================================================================
