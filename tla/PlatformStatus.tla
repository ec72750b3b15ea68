---------------------------- MODULE PlatformStatus ----------------------------
(***************************************************************************)
(* GET /status (src/internal/observer.go:100-119, 891-990): for each       *)
(* enabled platform the backlog, the actions of today and their types are  *)
(* read by queries of their own, while the tools of the platform write to  *)
(* its database, days change and main swaps the config.                    *)
(*                                                                         *)
(* A number that a query counts is the set of the actions it counts.       *)
(***************************************************************************)
EXTENDS Naturals, Sequences, Functions

CONSTANTS
  Platform,
  Type,       \* of actions
  Untyped,    \* the NULL among them, which cannot be scanned
  Config,     \* the configs: records for some of the platforms
  MaxActions, \* bound: actions
  MaxDay      \* bound: days

PlatformConfig ==
  [enabled : BOOLEAN, identifiers : {"valid", "invalid"}, backlog : BOOLEAN, actions : BOOLEAN]

StatusAssumption ==
  /\ MaxDay \in Nat
  /\ \A c \in Config : DOMAIN c \subseteq Platform /\ \A n \in DOMAIN c : c[n] \in PlatformConfig

VARIABLES
  config,
  day,
  actions,   \* all that have happened, each with its platform, day and type
  rq,        \* the request: the snapshot, the platforms left, the one that is read
  response   \* the platforms that have been read

vars == <<config, day, actions, rq, response>>

\* The rows of a platform for a day.
ActionsOf(n, d) == {i \in DOMAIN actions : actions[i].platform = n /\ actions[i].day = d}
OfType(rows, t) == {i \in rows : actions[i].type = t}

Idle == [pc |-> "idle"]
Nothing == [n \in {} |-> n]

Init ==
  /\ config \in Config
  /\ day = 0
  /\ actions = <<>>
  /\ rq = Idle /\ response = Nothing

--------------------------------------------------------------------------------
(* The others *)

Act ==
  /\ Len(actions) < MaxActions
  /\ \E n \in Platform, t \in Type :
       actions' = Append(actions, [platform |-> n, day |-> day, type |-> t])
  /\ UNCHANGED <<config, day, rq, response>>

Midnight ==
  /\ day < MaxDay
  /\ day' = day + 1
  /\ UNCHANGED <<config, actions, rq, response>>

UpdateConfig ==
  /\ config' \in Config \ {config}
  /\ UNCHANGED <<day, actions, rq, response>>

--------------------------------------------------------------------------------
(* handleStatus *)

Others == UNCHANGED <<config, day, actions>>

Begin ==
  /\ rq.pc = "idle"
  /\ rq' = [pc |-> "next", cfg |-> config,
            left |-> {n \in DOMAIN config : config[n].enabled}]
  /\ response' = Nothing
  /\ Others

Settings(n) == rq.cfg[n]

Healthy(p) ==
  [p |-> p, pending |-> "unread", health |-> "ok", breakdown |-> Nothing,
   day |-> 0, atLeast |-> {}, today |-> {}, whole |-> FALSE]

\* The loop over the map takes the platforms in any order.  The settings of a platform
\* are kept with its status to compare them.
NextPlatform ==
  /\ rq.pc = "next"
  /\ \E n \in rq.left :
       rq' = [pc |-> "opened", cfg |-> rq.cfg, left |-> rq.left \ {n}, name |-> n,
              status |-> Healthy(Settings(n))]
  /\ UNCHANGED response /\ Others

Done(status) ==
  /\ response' = [n \in DOMAIN response \cup {rq.name} |->
                    IF n = rq.name THEN status ELSE response[n]]
  /\ rq' = [pc |-> "next", cfg |-> rq.cfg, left |-> rq.left]

Goto(pc, status) == rq' = [rq EXCEPT !.pc = pc, !.status = status] /\ UNCHANGED response

\* validateMetricsConfig; sql.Open does not look at the file.
Validate ==
  /\ rq.pc = "opened"
  /\ IF rq.status.p.identifiers = "invalid"
       THEN Done([rq.status EXCEPT !.health = "config_error"])
       ELSE Goto("valid", rq.status)
  /\ Others

CountPending ==
  /\ rq.pc = "valid"
  /\ IF rq.status.p.backlog
       THEN \/ Goto("pending", [rq.status EXCEPT !.pending = "read"])
            \/ Goto("pending", [rq.status EXCEPT !.health = "query_error"])
       ELSE Goto("pending", rq.status)
  /\ Others

\* today is taken once for the two queries.
TakeDay ==
  /\ rq.pc = "pending"
  /\ IF rq.status.p.actions
       THEN Goto("dated", [rq.status EXCEPT !.day = day, !.atLeast = ActionsOf(rq.name, day)])
       ELSE Done(rq.status)
  /\ Others

\* Mutant: the day is asked for again.
DayAgain == day

Day == rq.status.day

\* Mutant: a count that failed is shown as 0 and healthy.
CountTodayQuietly ==
  /\ rq.pc = "dated"
  /\ \/ Goto("counted", [rq.status EXCEPT !.today = ActionsOf(rq.name, Day)])
     \/ Goto("counted", rq.status)
  /\ Others

CountToday ==
  /\ rq.pc = "dated"
  /\ \/ Goto("counted", [rq.status EXCEPT !.today = ActionsOf(rq.name, Day)])
     \/ Goto("counted", [rq.status EXCEPT !.health = "query_error"])
  /\ Others

\* A group for each type, and none for the actions whose type cannot be scanned.
Scannable(rows) == [t \in {actions[i].type : i \in rows} \ {Untyped} |-> OfType(rows, t)]

\* A breakdown that fails is left out, one that ends early is shown, and the health
\* stays what it is.
CountTypes ==
  /\ rq.pc = "counted"
  /\ LET counts == Scannable(ActionsOf(rq.name, Day)) IN
     \/ Done([rq.status EXCEPT !.breakdown = counts, !.whole = TRUE])
     \/ \E some \in SUBSET DOMAIN counts \ {DOMAIN counts} :
          Done([rq.status EXCEPT !.breakdown = Restrict(counts, some)])
     \/ Done(rq.status)
  /\ Others

Respond ==
  /\ rq.pc = "next" /\ rq.left = {}
  /\ rq' = Idle
  /\ UNCHANGED response /\ Others

Next ==
  \/ Begin \/ NextPlatform \/ Validate \/ CountPending \/ TakeDay \/ CountToday \/ CountTypes
  \/ Respond \/ Act \/ Midnight \/ UpdateConfig

Spec == Init /\ [][Next]_vars

--------------------------------------------------------------------------------
(* Properties *)

Counted(s) == s.p.identifiers = "valid" /\ s.p.actions

TypeOK ==
  /\ config \in Config /\ day \in 0..MaxDay
  /\ actions \in Seq([platform : Platform, day : 0..MaxDay, type : Type])
  /\ rq.pc \in {"idle", "next", "opened", "valid", "pending", "dated", "counted"}
  /\ rq.pc # "idle" => rq.cfg \in Config /\ rq.left \subseteq Platform
  /\ DOMAIN response \subseteq Platform
  /\ \A n \in DOMAIN response :
       LET s == response[n] IN
       /\ s.health \in {"ok", "config_error", "query_error"}
       /\ s.pending \in {"unread", "read"}
       /\ DOMAIN s.breakdown \subseteq Type \ {Untyped}
       /\ s.today \subseteq DOMAIN actions

\* All platforms of a response come from one config, however many reloads pass while
\* they are read (observer.go:101).
StatusOfOneConfig ==
  rq.pc = "idle" => \E c \in Config : \A n \in DOMAIN response : n \in DOMAIN c /\ response[n].p = c[n]

\* A platform that is shown as healthy was really counted: nothing that had happened
\* when its queries began is missing (observer.go:939-963).
HealthIsHonest ==
  \A n \in DOMAIN response :
    LET s == response[n] IN
    s.health = "ok" =>
      /\ s.p.identifiers = "valid"
      /\ s.p.backlog => s.pending = "read"
      /\ Counted(s) => s.atLeast \subseteq s.today

\* The types of a breakdown that was read to its end account for all actions of
\* today, also when more were added between the two queries or the day has changed
\* (observer.go:952-986).  Only actions without a type are missing.
BreakdownAddsUp ==
  \A n \in DOMAIN response :
    LET s == response[n] IN
    (Counted(s) /\ s.whole) =>
      s.today \subseteq (UNION Range(s.breakdown)) \cup OfType(ActionsOf(n, s.day), Untyped)
================================================================================
