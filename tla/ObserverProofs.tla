---------------------------- MODULE ObserverProofs ----------------------------
(***************************************************************************)
(* Proofs about what the observer answers: the lists (ObserverLists), the  *)
(* status of the platforms (PlatformStatus) and the summary of a log       *)
(* (JobLog).  Each has its invariant, in a section of its own, and the     *)
(* last section proves the properties of Observer from these.              *)
(***************************************************************************)
EXTENDS Observer, TLAPS, FiniteSetTheorems, SequenceTheorems, NaturalsInduction,
        WellFoundedInduction, FunctionTheorems

--------------------------------------------------------------------------------
(* Sequences *)

LEMMA Elements ==
  ASSUME NEW S, NEW s \in Seq(S)
  PROVE  /\ Len(s) \in Nat /\ DOMAIN s = 1..Len(s)
         /\ \A i \in DOMAIN s : s[i] \in S
BY ElementOfSeq

--------------------------------------------------------------------------------
(* GET /status *)

Counting == {"dated", "counted"}

\* A status as far as it has been read, and what is known of it at that point.
Fields == {"p", "pending", "health", "breakdown", "day", "atLeast", "today", "whole"}

StatusTyped(s) ==
  /\ s = [k \in Fields |-> s[k]]
  /\ s.p \in Status!PlatformConfig
  /\ s.pending \in {"unread", "read"} /\ s.health \in {"ok", "config_error", "query_error"}
  /\ s.day \in 0..MaxDay /\ s.whole \in BOOLEAN

Half(n, s, pc) ==
  /\ StatusTyped(s) /\ s.breakdown = Status!Nothing /\ ~s.whole
  /\ pc # "opened" => s.p.identifiers = "valid"
  /\ pc \in {"opened", "valid"} => s.health = "ok"
  /\ pc \in {"pending", "dated", "counted"} /\ s.health = "ok" /\ s.p.backlog => s.pending = "read"
  /\ pc \in Counting => s.p.actions /\ s.atLeast \subseteq Status!ActionsOf(n, s.day)
  /\ pc # "counted" => s.today = {}
  /\ pc \notin Counting => s.atLeast = {}
  /\ s.today \subseteq Status!ActionsOf(n, s.day)
  /\ pc = "counted" /\ s.health = "ok" => s.atLeast \subseteq s.today

\* A status that is shown.
Shown(n, s) ==
  /\ StatusTyped(s)
  /\ DOMAIN s.breakdown \subseteq Type \ {Untyped}
  /\ s.today \subseteq DOMAIN actions
  /\ s.health = "ok" =>
       /\ s.p.identifiers = "valid"
       /\ s.p.backlog => s.pending = "read"
       /\ Status!Counted(s) => s.atLeast \subseteq s.today
  /\ Status!Counted(s) /\ s.whole =>
       s.today \subseteq (UNION Status!Range(s.breakdown))
                           \cup Status!OfType(Status!ActionsOf(n, s.day), Untyped)

Stages == {"opened", "valid", "pending", "dated", "counted"}

\* The request is in the middle of a platform.
Reading ==
  /\ statusRq = [pc |-> statusRq.pc, cfg |-> statusRq.cfg, left |-> statusRq.left,
                 name |-> statusRq.name, status |-> statusRq.status]
  /\ statusRq.pc \in Stages
  /\ statusRq.name \in DOMAIN statusRq.cfg
  /\ statusRq.status.p = statusRq.cfg[statusRq.name]
  /\ Half(statusRq.name, statusRq.status, statusRq.pc)

Request ==
  \/ statusRq = [pc |-> "idle"]
  \/ statusRq = [pc |-> "next", cfg |-> statusRq.cfg, left |-> statusRq.left]
  \/ Reading

OfOneConfig(c) == \A n \in DOMAIN response : n \in DOMAIN c /\ response[n].p = c[n]

StatusInv ==
  /\ platforms \in Config /\ day \in 0..MaxDay
  /\ actions \in Seq([platform : StatusPlatform, day : 0..MaxDay, type : Type])
  /\ Request
  /\ statusRq.pc = "idle" => \E c \in Config : OfOneConfig(c)
  /\ statusRq.pc # "idle" =>
       /\ statusRq.cfg \in Config /\ statusRq.left \subseteq DOMAIN statusRq.cfg
       /\ OfOneConfig(statusRq.cfg)
  /\ \A n \in DOMAIN response : Shown(n, response[n])

\* What was counted stays: rows are only added.
LEMMA ActionsStay ==
  ASSUME actions \in Seq([platform : StatusPlatform, day : 0..MaxDay, type : Type]),
         Status!Act
  PROVE  /\ DOMAIN actions \subseteq DOMAIN actions'
         /\ \A n, d : Status!ActionsOf(n, d) \subseteq Status!ActionsOf(n, d)'
         /\ \A n, d, t : Status!OfType(Status!ActionsOf(n, d), t)
                           \subseteq Status!OfType(Status!ActionsOf(n, d), t)'
<1>1. PICK a : actions' = Append(actions, a)
  BY DEF Status!Act
<1>2. \A i \in DOMAIN actions : i \in DOMAIN actions' /\ actions'[i] = actions[i]
  BY <1>1
<1> QED
  BY <1>2 DEF Status!ActionsOf, Status!OfType

\* A request begins with what Healthy says.
LEMMA StatusBegins == Status!StatusAssumption /\ Status!Init => StatusInv
<1> SUFFICES ASSUME Status!StatusAssumption, Status!Init PROVE StatusInv
  OBVIOUS
<1>1. DOMAIN response = {}
  BY DEF Status!Init, Status!Nothing
<1>2. actions \in Seq([platform : StatusPlatform, day : 0..MaxDay, type : Type])
  BY DEF Status!Init
<1> QED
  BY <1>1, <1>2 DEF Status!Init, Status!Idle, StatusInv, Request, OfOneConfig,
     Status!StatusAssumption

\* What a status has does not depend on the time: later actions take nothing away.
LEMMA ShownStays ==
  ASSUME actions \in Seq([platform : StatusPlatform, day : 0..MaxDay, type : Type]),
         Status!Act, NEW n, NEW s, NEW pc
  PROVE  /\ Shown(n, s) => Shown(n, s)'
         /\ Half(n, s, pc) => Half(n, s, pc)'
<1>1. Shown(n, s) => Shown(n, s)'
  BY ActionsStay DEF Shown, Status!Counted, StatusTyped, Status!PlatformConfig
<1>2. Half(n, s, pc) => Half(n, s, pc)'
  BY ActionsStay DEF Half, StatusTyped, Status!Nothing, Status!PlatformConfig, Counting
<1> QED
  BY <1>1, <1>2

\* The steps of the others.
LEMMA StatusOthers ==
  ASSUME Status!StatusAssumption, StatusInv,
         Status!Act \/ Status!Midnight \/ Status!UpdateConfig
  PROVE  StatusInv'
<1>1. CASE Status!Act
  <2>1. actions' \in Seq([platform : StatusPlatform, day : 0..MaxDay, type : Type])
    BY <1>1 DEF Status!Act, StatusInv
  <2>2. UNCHANGED <<platforms, day, statusRq, response>>
    BY <1>1 DEF Status!Act
  <2>3. \A n \in DOMAIN response : Shown(n, response[n]) => Shown(n, response[n])'
    BY <1>1, <2>2, ShownStays DEF StatusInv
  <2>4. Request'
    BY <1>1, <2>2, ShownStays DEF StatusInv, Request, Reading
  <2> QED
    BY <2>1, <2>2, <2>3, <2>4 DEF StatusInv, OfOneConfig
<1>2. CASE Status!Midnight \/ Status!UpdateConfig
  <2>1. UNCHANGED <<actions, statusRq, response>>
    BY <1>2 DEF Status!Midnight, Status!UpdateConfig
  <2>2. platforms' \in Config /\ day' \in 0..MaxDay
    BY <1>2 DEF Status!Midnight, Status!UpdateConfig, StatusInv, Status!StatusAssumption
  <2>3. \A n, s, pc : /\ Shown(n, s) => Shown(n, s)'
                      /\ Half(n, s, pc) => Half(n, s, pc)'
    BY <2>1 DEF Shown, Half, StatusTyped, Status!ActionsOf, Status!OfType, Status!Counted,
       Status!Nothing, Status!PlatformConfig, Counting
  <2>4. Request'
    BY <2>1, <2>3 DEF StatusInv, Request, Reading
  <2> QED
    BY <2>1, <2>2, <2>3, <2>4 DEF StatusInv, OfOneConfig
<1> QED
  BY <1>1, <1>2

\* A platform that has been read joins those that are shown.
LEMMA StatusDone ==
  ASSUME StatusInv, NEW s, Status!Done(s), Status!Others,
         Reading, s.p = statusRq.status.p, Shown(statusRq.name, s)
  PROVE  StatusInv'
<1> DEFINE cfg == statusRq.cfg
<1>1. /\ cfg \in Config /\ statusRq.left \subseteq DOMAIN cfg /\ OfOneConfig(cfg)
      /\ statusRq.name \in DOMAIN cfg /\ statusRq.status.p = cfg[statusRq.name]
  BY DEF StatusInv, Reading, Stages
<1>2. statusRq' = [pc |-> "next", cfg |-> cfg, left |-> statusRq.left]
  BY DEF Status!Done
<1>3. UNCHANGED <<platforms, day, actions>>
  BY DEF Status!Others
<1>4. /\ DOMAIN response' = DOMAIN response \cup {statusRq.name}
      /\ \A n \in DOMAIN response' :
           response'[n] = IF n = statusRq.name THEN s ELSE response[n]
  BY DEF Status!Done
<1>5. \A n, t : Shown(n, t) => Shown(n, t)'
  BY <1>3 DEF Shown, StatusTyped, Status!ActionsOf, Status!OfType, Status!Counted,
     Status!PlatformConfig
<1>6. \A n \in DOMAIN response' : Shown(n, response[n])'
  BY <1>4, <1>5 DEF StatusInv
<1>7. \A n \in DOMAIN response' : n \in DOMAIN cfg /\ response'[n].p = cfg[n]
  BY <1>1, <1>4 DEF OfOneConfig
<1> QED
  BY <1>1, <1>2, <1>3, <1>6, <1>7 DEF StatusInv, Request, OfOneConfig

\* A platform that is being read is read on.
LEMMA StatusGoto ==
  ASSUME StatusInv, NEW pc \in Stages, NEW s, Status!Goto(pc, s), Status!Others,
         Reading, s.p = statusRq.status.p, Half(statusRq.name, s, pc)
  PROVE  StatusInv'
<1>1. statusRq' = [pc |-> pc, cfg |-> statusRq.cfg, left |-> statusRq.left,
                   name |-> statusRq.name, status |-> s]
  BY DEF Status!Goto, Reading
<1>2. UNCHANGED <<platforms, day, actions, response>>
  BY DEF Status!Others, Status!Goto
<1>3. \A n, t : Shown(n, t) => Shown(n, t)'
  BY <1>2 DEF Shown, StatusTyped, Status!ActionsOf, Status!OfType, Status!Counted,
     Status!PlatformConfig
<1>4. Half(statusRq.name, s, pc)'
  BY <1>1, <1>2 DEF Half, StatusTyped, Status!ActionsOf, Status!Nothing,
     Status!PlatformConfig, Counting
<1> QED
  BY <1>1, <1>2, <1>3, <1>4 DEF StatusInv, Request, Reading, Stages, OfOneConfig

\* Assigning to fields of a status.
LEMMA StatusAssigned ==
  ASSUME NEW s, s = [k \in Fields |-> s[k]], NEW f \in Fields, NEW x
  PROVE  LET t == [s EXCEPT ![f] = x] IN
         t = [k \in Fields |-> t[k]] /\ t[f] = x /\ \A k \in Fields \ {f} : t[k] = s[k]
OBVIOUS

\* The steps of the request, one platform after the other.
LEMMA StatusReads ==
  ASSUME Status!StatusAssumption, StatusInv,
         Status!Validate \/ Status!CountPending \/ Status!TakeDay \/ Status!CountToday
  PROVE  StatusInv'
<1> DEFINE n == statusRq.name  s == statusRq.status  pc == statusRq.pc
<1>1. Reading /\ Status!Others
  BY DEF StatusInv, Request, Status!Validate, Status!CountPending, Status!TakeDay,
     Status!CountToday
<1>2. Half(n, s, pc) /\ StatusTyped(s)
  BY <1>1 DEF Reading, Half
<1> HIDE DEF n, s, pc
<1>3. CASE Status!Validate
  <2>1. pc = "opened"
    BY <1>3 DEF Status!Validate, pc
  <2>2. CASE s.p.identifiers = "invalid"
    <3> DEFINE t == [s EXCEPT !.health = "config_error"]
    <3>1. Status!Done(t)
      BY <1>3, <2>2 DEF Status!Validate, s
    <3>2. t.p = s.p /\ Shown(n, t)
      BY <1>2, <2>1, <2>2 DEF Half, Shown, StatusTyped, Fields, Status!Nothing, Status!Counted, Counting
    <3> HIDE DEF t
    <3> QED
      BY <1>1, <3>1, <3>2, StatusDone DEF n, s
  <2>3. CASE s.p.identifiers # "invalid"
    <3>1. Status!Goto("valid", s)
      BY <1>3, <2>3 DEF Status!Validate, s
    <3>2. Half(n, s, "valid")
      BY <1>2, <2>1, <2>3 DEF Half, StatusTyped, Status!PlatformConfig, Counting
    <3> QED
      BY <1>1, <3>1, <3>2, StatusGoto DEF n, s, Stages
  <2> QED
    BY <2>2, <2>3
<1>4. CASE Status!CountPending
  <2>1. pc = "valid"
    BY <1>4 DEF Status!CountPending, pc
  <2> DEFINE counted == [s EXCEPT !.pending = "read"]
             failed == [s EXCEPT !.health = "query_error"]
  <2>2. \/ s.p.backlog /\ (Status!Goto("pending", counted) \/ Status!Goto("pending", failed))
        \/ ~s.p.backlog /\ Status!Goto("pending", s)
    BY <1>4 DEF Status!CountPending, s
  <2>3. counted.p = s.p /\ Half(n, counted, "pending")
    BY <1>2, <2>1 DEF Half, StatusTyped, Counting, Fields
  <2>4. failed.p = s.p /\ Half(n, failed, "pending")
    BY <1>2, <2>1 DEF Half, StatusTyped, Counting, Fields
  <2>5. ~s.p.backlog => Half(n, s, "pending")
    BY <1>2, <2>1 DEF Half, StatusTyped, Counting
  <2> HIDE DEF counted, failed
  <2> QED
    BY <1>1, <2>2, <2>3, <2>4, <2>5, StatusGoto DEF n, s, Stages
<1>5. CASE Status!TakeDay
  <2>1. pc = "pending"
    BY <1>5 DEF Status!TakeDay, pc
  <2>2. CASE s.p.actions
    <3> DEFINE t == [s EXCEPT !.day = day, !.atLeast = Status!ActionsOf(n, day)]
    <3>1. Status!Goto("dated", t)
      BY <1>5, <2>2 DEF Status!TakeDay, s, n
    <3>2. t.p = s.p /\ Half(n, t, "dated")
      BY <1>2, <2>1, <2>2 DEF Half, StatusTyped, Counting, StatusInv, Fields
    <3> HIDE DEF t
    <3> QED
      BY <1>1, <3>1, <3>2, StatusGoto DEF n, s, Stages
  <2>3. CASE ~s.p.actions
    <3>1. Status!Done(s)
      BY <1>5, <2>3 DEF Status!TakeDay, s
    <3>2. Shown(n, s)
      BY <1>2, <2>1, <2>3 DEF Half, Shown, StatusTyped, Fields, Status!Nothing, Status!Counted, Counting
    <3> QED
      BY <1>1, <3>1, <3>2, StatusDone DEF n, s
  <2> QED
    BY <2>2, <2>3
<1>6. CASE Status!CountToday
  <2>1. pc = "dated"
    BY <1>6 DEF Status!CountToday, pc
  <2> DEFINE counted == [s EXCEPT !.today = Status!ActionsOf(n, s.day)]
             failed == [s EXCEPT !.health = "query_error"]
  <2>2. Status!Goto("counted", counted) \/ Status!Goto("counted", failed)
    BY <1>6 DEF Status!CountToday, Status!Day, s, n
  <2>3. counted.p = s.p /\ Half(n, counted, "counted")
    BY <1>2, <2>1 DEF Half, StatusTyped, Counting, Fields
  <2>4. failed.p = s.p /\ Half(n, failed, "counted")
    BY <1>2, <2>1 DEF Half, StatusTyped, Counting, Fields
  <2> HIDE DEF counted, failed
  <2> QED
    BY <1>1, <2>2, <2>3, <2>4, StatusGoto DEF n, s, Stages
<1> QED
  BY <1>3, <1>4, <1>5, <1>6

\* The groups of a breakdown and the rows without a type are all the rows.
LEMMA BreakdownIsWhole ==
  ASSUME NEW n, NEW d
  PROVE  LET rows == Status!ActionsOf(n, d) IN
         /\ DOMAIN Status!Scannable(rows) = {actions[i].type : i \in rows} \ {Untyped}
         /\ rows \subseteq (UNION Status!Range(Status!Scannable(rows)))
                              \cup Status!OfType(rows, Untyped)
<1> DEFINE rows == Status!ActionsOf(n, d)
           counts == Status!Scannable(rows)
<1>1. DOMAIN counts = {actions[i].type : i \in rows} \ {Untyped}
  BY DEF Status!Scannable
<1>2. ASSUME NEW i \in rows, actions[i].type # Untyped
      PROVE  i \in UNION Status!Range(counts)
  <2>1. actions[i].type \in DOMAIN counts /\ counts[actions[i].type] \in Status!Range(counts)
    BY <1>1, <1>2 DEF Status!Range
  <2>2. i \in counts[actions[i].type]
    BY <1>2, <2>1 DEF Status!Scannable, Status!OfType
  <2> QED
    BY <2>1, <2>2
<1>3. ASSUME NEW i \in rows, actions[i].type = Untyped
      PROVE  i \in Status!OfType(rows, Untyped)
  BY <1>3 DEF Status!OfType
<1> HIDE DEF rows, counts
<1>4. rows \subseteq (UNION Status!Range(counts)) \cup Status!OfType(rows, Untyped)
  BY <1>2, <1>3
<1> QED
  BY <1>1, <1>4 DEF rows, counts

LEMMA StatusTypesRead ==
  ASSUME StatusInv, Status!CountTypes
  PROVE  StatusInv'
<1> DEFINE n == statusRq.name  s == statusRq.status
           rows == Status!ActionsOf(n, s.day)
           counts == Status!Scannable(rows)
<1>1. Reading /\ Status!Others /\ statusRq.pc = "counted"
  BY DEF StatusInv, Request, Status!CountTypes
<1>2. Half(n, s, "counted") /\ StatusTyped(s)
  BY <1>1 DEF Reading, Half
<1>3. /\ DOMAIN counts \subseteq Type \ {Untyped}
      /\ rows \subseteq (UNION Status!Range(counts)) \cup Status!OfType(rows, Untyped)
      /\ rows \subseteq DOMAIN actions
  <2>1. \A i \in DOMAIN actions : actions[i].type \in Type
    <3>1. actions \in Seq([platform : StatusPlatform, day : 0..MaxDay, type : Type])
      BY DEF StatusInv
    <3>2. \A i \in DOMAIN actions :
            actions[i] \in [platform : StatusPlatform, day : 0..MaxDay, type : Type]
      BY <3>1, Elements
    <3> QED
      BY <3>2
  <2>2. rows \subseteq DOMAIN actions
    BY DEF Status!ActionsOf
  <2>3. \A i \in rows : actions[i].type \in Type
    BY <2>1, <2>2
  <2>4. /\ DOMAIN counts = {actions[i].type : i \in rows} \ {Untyped}
        /\ rows \subseteq (UNION Status!Range(counts)) \cup Status!OfType(rows, Untyped)
    BY BreakdownIsWhole
  <2> HIDE DEF rows, counts
  <2> QED
    BY <2>2, <2>3, <2>4
<1> DEFINE whole == [s EXCEPT !.breakdown = counts, !.whole = TRUE]
           some(S) == [s EXCEPT !.breakdown = Status!Restrict(counts, S)]
<1>4. \/ Status!Done(whole) \/ Status!Done(s)
      \/ \E S \in SUBSET DOMAIN counts : Status!Done(some(S))
  BY DEF Status!CountTypes, Status!Day
<1> HIDE DEF n, s, rows, counts
<1>5. whole.p = s.p /\ Shown(n, whole)
  BY <1>2, <1>3 DEF Half, Shown, StatusTyped, Fields, Status!Counted, Counting, rows
<1>6. Shown(n, s)
  BY <1>2, <1>3 DEF Half, Shown, StatusTyped, Fields, Status!Counted, Status!Nothing, Counting, rows
<1>7. ASSUME NEW S \in SUBSET DOMAIN counts
      PROVE  some(S).p = s.p /\ Shown(n, some(S))
  <2>1. DOMAIN Status!Restrict(counts, S) = S
    BY DEF Status!Restrict
  <2> QED
    BY <1>2, <1>3, <1>7, <2>1 DEF Half, Shown, StatusTyped, Fields, Status!Counted, Counting, rows
<1> HIDE DEF whole, some
<1> QED
  BY <1>1, <1>4, <1>5, <1>6, <1>7, StatusDone DEF n, s

LEMMA StatusRound ==
  ASSUME Status!StatusAssumption, StatusInv, Status!Begin \/ Status!NextPlatform \/ Status!Respond
  PROVE  StatusInv'
<1>1. UNCHANGED <<platforms, day, actions>>
  BY DEF Status!Begin, Status!NextPlatform, Status!Respond, Status!Others
<1>2. \A n, t : Shown(n, t) => Shown(n, t)'
  BY <1>1 DEF Shown, StatusTyped, Status!ActionsOf, Status!OfType, Status!Counted,
     Status!PlatformConfig
<1>3. CASE Status!Begin
  <2>1. /\ statusRq' = [pc |-> "next", cfg |-> platforms, left |-> statusRq'.left]
        /\ statusRq'.left \subseteq DOMAIN platforms
        /\ DOMAIN response' = {}
    BY <1>3 DEF Status!Begin, Status!Nothing
  <2> QED
    BY <1>1, <2>1 DEF StatusInv, Request, OfOneConfig
<1>4. CASE Status!Respond
  <2>1. statusRq' = [pc |-> "idle"] /\ statusRq.pc # "idle" /\ response' = response
    BY <1>4 DEF Status!Respond, Status!Idle
  <2> QED
    BY <1>1, <1>2, <2>1 DEF StatusInv, Request, OfOneConfig
<1>5. CASE Status!NextPlatform
  <2>1. PICK n \in statusRq.left :
          statusRq' = [pc |-> "opened", cfg |-> statusRq.cfg, left |-> statusRq.left \ {n},
                       name |-> n, status |-> Status!Healthy(statusRq.cfg[n])]
    BY <1>5 DEF Status!NextPlatform, Status!Settings
  <2>2. /\ statusRq.pc # "idle" /\ response' = response
        /\ n \in DOMAIN statusRq.cfg /\ statusRq.cfg \in Config
    BY <1>5 DEF Status!NextPlatform, StatusInv
  <2>3. statusRq.cfg[n] \in Status!PlatformConfig
    BY <2>2 DEF Status!StatusAssumption
  <2> DEFINE s == Status!Healthy(statusRq.cfg[n])
  <2>4. s.p = statusRq.cfg[n] /\ \A m : Half(m, s, "opened")
    <3>1. /\ s = [k \in Fields |-> s[k]]
          /\ s.p = statusRq.cfg[n] /\ s.pending = "unread" /\ s.health = "ok"
          /\ s.breakdown = Status!Nothing /\ s.day = 0 /\ s.atLeast = {} /\ s.today = {}
          /\ s.whole = FALSE
      BY DEF Status!Healthy, Fields
    <3>2. 0 \in 0..MaxDay
      BY DEF Status!StatusAssumption
    <3> HIDE DEF s
    <3> QED
      BY <2>3, <3>1, <3>2 DEF Half, StatusTyped, Counting
  <2> HIDE DEF s
  <2>5. statusRq' = [pc |-> "opened", cfg |-> statusRq.cfg, left |-> statusRq.left \ {n},
                     name |-> n, status |-> s]
    BY <2>1 DEF s
  <2>6. \A t : Half(n, t, "opened") => Half(n, t, "opened")'
    BY <1>1 DEF Half, StatusTyped, Status!ActionsOf, Status!Nothing, Status!PlatformConfig,
       Counting
  <2>7. Reading'
    BY <2>2, <2>4, <2>5, <2>6 DEF Reading, Stages
  <2> QED
    BY <1>1, <1>2, <2>2, <2>5, <2>7 DEF StatusInv, Request, OfOneConfig
<1> QED
  BY <1>3, <1>4, <1>5

\* A step of a status request, or of somebody else.
LEMMA StatusStep ==
  ASSUME Status!StatusAssumption, StatusInv, [Status!Next]_(Status!vars)
  PROVE  StatusInv'
<1>1. CASE UNCHANGED Status!vars
  <2>1. UNCHANGED <<platforms, day, actions, statusRq, response>>
    BY <1>1 DEF Status!vars
  <2>2. ASSUME NEW n, Shown(n, response[n])
        PROVE  Shown(n, response[n])'
    BY <2>1, <2>2 DEF Shown, StatusTyped, Status!ActionsOf, Status!OfType, Status!Counted
  <2>3. Request => Request'
    BY <2>1 DEF Request, Reading, Half, StatusTyped, Status!ActionsOf
  <2>4. OfOneConfig(statusRq.cfg)' = OfOneConfig(statusRq.cfg)
    BY <2>1 DEF OfOneConfig
  <2>5. \A c : OfOneConfig(c) => \A n \in DOMAIN response' : n \in DOMAIN c /\ response'[n].p = c[n]
    BY <2>1 DEF OfOneConfig
  <2>6. (statusRq.pc = "idle" => \E c \in Config : OfOneConfig(c))'
    BY <2>1, <2>5 DEF StatusInv, OfOneConfig
  <2> QED
    BY <2>1, <2>2, <2>3, <2>4, <2>6 DEF StatusInv
<1> QED
  BY <1>1, StatusOthers, StatusReads, StatusTypesRead, StatusRound DEF Status!Next

\* Types.
LEMMA StatusTypes ==
  ASSUME Status!StatusAssumption, StatusInv
  PROVE  Status!TypeOK
<1>1. /\ statusRq.pc \in {"idle", "next"} \cup Stages
      /\ statusRq.pc # "idle" => statusRq.cfg \in Config /\ statusRq.left \subseteq StatusPlatform
  BY DEF StatusInv, Request, Reading, Stages, Status!StatusAssumption
<1>2. DOMAIN response \subseteq StatusPlatform
  <2>1. \E c \in Config : OfOneConfig(c)
    BY DEF StatusInv
  <2> QED
    BY <2>1 DEF OfOneConfig, Status!StatusAssumption
<1>3. \A n \in DOMAIN response : Shown(n, response[n])
  BY DEF StatusInv
<1> QED
  BY <1>1, <1>2, <1>3 DEF Status!TypeOK, StatusInv, Shown, StatusTyped, Stages

--------------------------------------------------------------------------------
(* FlattenSeq *)

\* A nonempty set of numbers has a least element, by which what follows is proved for
\* sequences of every length.
LEMMA LeastNat ==
  ASSUME NEW T \in SUBSET Nat, T # {}
  PROVE  \E n \in T : \A m \in T : ~(m < n)
<1>1. IsWellFoundedOn(OpToRel(<,Nat), Nat)
  BY NatLessThanWellFounded
<1>2. \E n \in T : \A m \in T : ~(<<m, n>> \in OpToRel(<,Nat))
  BY <1>1, WFMin
<1> QED
  BY <1>2 DEF OpToRel

\* A set of numbers that has 0, and n if it has n - 1, has all numbers.
LEMMA Upwards ==
  ASSUME NEW Good \in SUBSET Nat, 0 \in Good,
         \A n \in Nat \ {0} : n - 1 \in Good => n \in Good
  PROVE  Good = Nat
<1> SUFFICES ASSUME Nat \ Good # {} PROVE FALSE
  OBVIOUS
<1>1. PICK n \in Nat \ Good : \A m \in Nat \ Good : ~(m < n)
  BY LeastNat
<1>2. n \in Nat \ {0} /\ n - 1 \in Nat /\ n - 1 < n
  BY <1>1
<1> QED
  BY <1>1, <1>2

LEMMA Associative ==
  \A S : \A a, b, c \in Seq(S) : (a \o b) \o c = a \o (b \o c)
BY ConcatAssociative

Associates(S) == \A a, b, c \in Seq(S) : (a \o b) \o c = a \o (b \o c)

LEMMA AllAssociate == \A S : Associates(S)
BY Associative DEF Associates

\* f gives the flattened prefixes of s.
Prefix(f, s, i) == IF i = 1 THEN s[i] ELSE f[i - 1] \o s[i]
IsFlat(f, s) == f = [i \in 1..Len(s) |-> Prefix(f, s, i)]

LEMMA FlatUnfolds ==
  ASSUME NEW s
  PROVE  Log!FlattenSeq(s) = IF Len(s) = 0 THEN s ELSE (CHOOSE f : IsFlat(f, s))[Len(s)]
BY DEF Log!FlattenSeq, IsFlat, Prefix

LEMMA FlatExists ==
  ASSUME NEW S, NEW s \in Seq(Seq(S))
  PROVE  \E f : IsFlat(f, s)
<1> DEFINE Fits(f, n) == \A i \in 1..n : f[i] = Prefix(f, s, i)
    Good == {n \in Nat : n <= Len(s) => \E f \in [1..Len(s) -> Seq(S)] : Fits(f, n)}
<1>1. Len(s) \in Nat /\ \A i \in 1..Len(s) : s[i] \in Seq(S)
  BY Elements
<1>2. 0 \in Good
  <2>1. [i \in 1..Len(s) |-> <<>>] \in [1..Len(s) -> Seq(S)]
    OBVIOUS
  <2>2. Fits([i \in 1..Len(s) |-> <<>>], 0)
    OBVIOUS
  <2> QED
    BY <2>1, <2>2
<1>3. ASSUME NEW n \in Nat \ {0}, n - 1 \in Good
      PROVE  n \in Good
  <2> SUFFICES ASSUME n <= Len(s)
               PROVE  \E f \in [1..Len(s) -> Seq(S)] : Fits(f, n)
    OBVIOUS
  <2>1. /\ n - 1 \in Nat /\ n - 1 <= Len(s) /\ n \in 1..Len(s)
        /\ \A i \in 1..n : i = n \/ i \in 1..(n - 1)
        /\ \A i \in 1..n : i # 1 => i - 1 \in 1..(n - 1) /\ i - 1 # n
        /\ n # 1 => n - 1 \in 1..Len(s)
    BY <1>1
  <2>2. PICK f \in [1..Len(s) -> Seq(S)] : Fits(f, n - 1)
    BY <1>3, <2>1
  <2> DEFINE g == [f EXCEPT ![n] = Prefix(f, s, n)]
  <2>3. Prefix(f, s, n) \in Seq(S)
    <3>1. CASE n = 1
      BY <1>1, <2>1, <3>1 DEF Prefix
    <3>2. CASE n # 1
      <4>1. f[n - 1] \in Seq(S) /\ s[n] \in Seq(S)
        BY <1>1, <2>1, <3>2
      <4> QED
        BY <3>2, <4>1 DEF Prefix
    <3> QED
      BY <3>1, <3>2
  <2>4. g \in [1..Len(s) -> Seq(S)]
    BY <2>3
  <2>5. Fits(g, n)
    <3> SUFFICES ASSUME NEW i \in 1..n PROVE g[i] = Prefix(g, s, i)
      OBVIOUS
    <3>1. i # 1 => g[i - 1] = f[i - 1]
      BY <2>1
    <3>2. Prefix(g, s, i) = Prefix(f, s, i)
      BY <3>1 DEF Prefix
    <3>3. CASE i = n
      BY <2>1, <3>2, <3>3
    <3>4. CASE i # n
      BY <2>1, <2>2, <3>2, <3>4
    <3> QED
      BY <3>3, <3>4
  <2> QED
    BY <2>4, <2>5
<1> HIDE DEF Good
<1>4. Good = Nat
  <2>1. Good \in SUBSET Nat
    BY DEF Good
  <2> QED
    BY <1>2, <1>3, <2>1, Upwards
<1>5. PICK f \in [1..Len(s) -> Seq(S)] : Fits(f, Len(s))
  <2>1. Len(s) \in Good /\ Len(s) <= Len(s)
    BY <1>1, <1>4
  <2> QED
    BY <2>1 DEF Good
<1>6. f = [i \in 1..Len(s) |-> Prefix(f, s, i)]
  BY <1>5
<1> QED
  BY <1>6 DEF IsFlat

\* As far as two sequences agree, so do their flattened prefixes, which are sequences.
LEMMA FlatAgrees ==
  ASSUME NEW S, NEW s \in Seq(Seq(S)), NEW t \in Seq(Seq(S)), NEW m \in Nat,
         m <= Len(s), m <= Len(t), \A i \in 1..m : s[i] = t[i],
         NEW f, IsFlat(f, s), NEW g, IsFlat(g, t)
  PROVE  \A i \in 1..m : f[i] = g[i] /\ f[i] \in Seq(S)
<1> DEFINE Good == {n \in Nat : n \in 1..m => f[n] = g[n] /\ f[n] \in Seq(S)}
<1>0. /\ Len(s) \in Nat /\ \A i \in 1..Len(s) : s[i] \in Seq(S)
      /\ Len(t) \in Nat
      /\ \A i \in 1..m : i \in 1..Len(s) /\ i \in 1..Len(t)
  BY Elements
<1>1. \A i \in 1..m : f[i] = Prefix(f, s, i) /\ g[i] = Prefix(g, t, i)
  BY <1>0 DEF IsFlat
<1>2. 0 \in Good
  OBVIOUS
<1>3. ASSUME NEW n \in Nat \ {0}, n - 1 \in Good
      PROVE  n \in Good
  <2> SUFFICES ASSUME n \in 1..m PROVE f[n] = g[n] /\ f[n] \in Seq(S)
    OBVIOUS
  <2>1. f[n] = Prefix(f, s, n) /\ g[n] = Prefix(g, t, n) /\ s[n] = t[n] /\ s[n] \in Seq(S)
    BY <1>0, <1>1
  <2>2. CASE n = 1
    BY <2>1, <2>2 DEF Prefix
  <2>3. CASE n # 1
    <3>1. n - 1 \in 1..m
      BY <2>3
    <3>2. f[n - 1] = g[n - 1] /\ f[n - 1] \in Seq(S)
      BY <1>3, <3>1
    <3> QED
      BY <2>1, <2>3, <3>2 DEF Prefix
  <2> QED
    BY <2>2, <2>3
<1> HIDE DEF Good
<1>4. Good = Nat
  <2>1. Good \in SUBSET Nat
    BY DEF Good
  <2> QED
    BY <1>2, <1>3, <2>1, Upwards
<1>5. \A i \in 1..m : i \in Good
  BY <1>4
<1> QED
  BY <1>5 DEF Good

LEMMA FlatEmpty == Log!FlattenSeq(<<>>) = <<>>
BY FlatUnfolds

LEMMA FlatType ==
  ASSUME NEW S, NEW s \in Seq(Seq(S))
  PROVE  Log!FlattenSeq(s) \in Seq(S)
<1>1. CASE Len(s) = 0
  BY <1>1, FlatUnfolds, EmptySeq
<1>2. CASE Len(s) # 0
  <2> DEFINE f == CHOOSE f : IsFlat(f, s)
  <2>1. IsFlat(f, s)
    BY FlatExists
  <2>2. Len(s) \in Nat /\ Len(s) \in 1..Len(s)
    BY <1>2, Elements
  <2>3. Log!FlattenSeq(s) = f[Len(s)]
    BY <1>2, FlatUnfolds
  <2> HIDE DEF f
  <2>4. f[Len(s)] \in Seq(S)
    BY <2>1, <2>2, FlatAgrees
  <2> QED
    BY <2>3, <2>4
<1> QED
  BY <1>1, <1>2

LEMMA FlatAppend ==
  ASSUME NEW S, NEW s \in Seq(Seq(S)), NEW x \in Seq(S)
  PROVE  Log!FlattenSeq(Append(s, x)) = Log!FlattenSeq(s) \o x
<1> DEFINE t == Append(s, x)
    f == CHOOSE f : IsFlat(f, s)
    g == CHOOSE g : IsFlat(g, t)
<1>1. /\ t \in Seq(Seq(S)) /\ Len(t) = Len(s) + 1 /\ t[Len(s) + 1] = x
      /\ \A i \in 1..Len(s) : t[i] = s[i]
  BY AppendProperties
<1>2. IsFlat(f, s) /\ IsFlat(g, t)
  BY <1>1, FlatExists
<1>3. Len(s) \in Nat /\ Len(t) # 0 /\ Len(s) + 1 \in 1..Len(t) /\ Len(s) <= Len(t)
      /\ (Len(s) + 1) - 1 = Len(s) /\ (Len(s) + 1 = 1 <=> Len(s) = 0)
      /\ (Len(s) # 0 => Len(s) \in 1..Len(s))
  BY <1>1, Elements
<1>4. Log!FlattenSeq(t) = g[Len(s) + 1]
  BY <1>1, <1>3, FlatUnfolds
<1> HIDE DEF t
<1>5. g[Len(s) + 1] = Prefix(g, t, Len(s) + 1)
  <2> HIDE DEF g
  <2> QED
    BY <1>2, <1>3 DEF IsFlat
<1>6. CASE Len(s) = 0
  <2>1. g[Len(s) + 1] = x
    BY <1>1, <1>3, <1>5, <1>6 DEF Prefix
  <2>2. s = <<>> /\ <<>> \o x = x
    BY <1>6, EmptySeq, ConcatEmptySeq
  <2> QED
    BY <1>4, <2>1, <2>2, FlatEmpty DEF t
<1>7. CASE Len(s) # 0
  <2>1. Log!FlattenSeq(s) = f[Len(s)]
    BY <1>7, FlatUnfolds
  <2> HIDE DEF f, g
  <2>2. f[Len(s)] = g[Len(s)]
    <3>1. \A i \in 1..Len(s) : f[i] = g[i]
      <4>1. \A i \in 1..Len(s) : s[i] = t[i]
        BY <1>1
      <4>2. t \in Seq(Seq(S)) /\ Len(s) \in Nat /\ Len(s) <= Len(s) /\ Len(s) <= Len(t)
        BY <1>1, <1>3
      <4>3. \A i \in 1..Len(s) : f[i] = g[i] /\ f[i] \in Seq(S)
        <5> DEFINE m == Len(s)
        <5>1. m \in Nat /\ m <= Len(s) /\ m <= Len(t) /\ \A i \in 1..m : s[i] = t[i]
          BY <4>1, <4>2
        <5> HIDE DEF m
        <5>2. \A i \in 1..m : f[i] = g[i] /\ f[i] \in Seq(S)
          BY <1>2, <4>2, <5>1, FlatAgrees
        <5> QED
          BY <5>2 DEF m
      <4> QED
        BY <4>3
    <3> QED
      BY <1>3, <1>7, <3>1
  <2>3. g[Len(s) + 1] = g[Len(s)] \o x
    BY <1>1, <1>3, <1>5, <1>7 DEF Prefix
  <2> QED
    BY <1>4, <2>1, <2>2, <2>3 DEF t
<1> QED
  BY <1>6, <1>7

\* The first sequence can be taken off the front as well.
LEMMA FlatFirst ==
  ASSUME NEW S, NEW s \in Seq(Seq(S)), Len(s) # 0
  PROVE  Log!FlattenSeq(s) = Head(s) \o Log!FlattenSeq(Tail(s))
<1>0. Associates(S)
  BY AllAssociate
<1> DEFINE upTo(k) == SubSeq(s, 1, k + 1)
    from2(k) == SubSeq(s, 2, k + 1)
    Good == {k \in Nat : k + 1 <= Len(s) =>
               Log!FlattenSeq(upTo(k)) = Head(s) \o Log!FlattenSeq(from2(k))}
<1>1. /\ Len(s) \in Nat /\ Len(s) >= 1 /\ Head(s) \in Seq(S) /\ Head(s) = s[1]
      /\ \A i \in 1..Len(s) : s[i] \in Seq(S)
  <2>1. s # <<>>
    OBVIOUS
  <2> QED
    BY <2>1, Elements, HeadTailProperties
<1>2. 0 \in Good
  <2>1. upTo(0) = Append(<<>>, s[1]) /\ from2(0) = <<>>
    <3>1. SubSeq(s, 1, 1) = <<s[1]>>
      <4>1. SubSeq(s, 1, 1) = SubSeq(s, 1, 0) \o <<s[1]>>
        BY <1>1, SubSeqRecursiveSecond
      <4>2. SubSeq(s, 1, 0) = <<>> /\ <<>> \o <<s[1]>> = <<s[1]>>
        BY SubSeqEmpty
      <4> QED
        BY <4>1, <4>2
    <3>3. SubSeq(s, 2, 1) = <<>>
      BY SubSeqEmpty
    <3>2. Append(<<>>, s[1]) = <<s[1]>> /\ 0 + 1 = 1
      OBVIOUS
    <3> QED
      BY <3>1, <3>2, <3>3
  <2>2. <<>> \in Seq(Seq(S)) /\ s[1] \in Seq(S)
    BY <1>1
  <2>3. Log!FlattenSeq(Append(<<>>, s[1])) = <<>> \o s[1]
    BY <2>2, FlatAppend, FlatEmpty
  <2>4. <<>> \o s[1] = s[1] /\ s[1] \o <<>> = s[1]
    BY <2>2, ConcatEmptySeq
  <2> HIDE DEF upTo, from2
  <2>5. Log!FlattenSeq(upTo(0)) = Head(s) \o Log!FlattenSeq(from2(0))
    BY <1>1, <2>1, <2>3, <2>4, FlatEmpty
  <2> QED
    BY <2>5
<1>3. ASSUME NEW k \in Nat \ {0}, k - 1 \in Good
      PROVE  k \in Good
  <2> SUFFICES ASSUME k + 1 <= Len(s)
               PROVE  Log!FlattenSeq(upTo(k)) = Head(s) \o Log!FlattenSeq(from2(k))
    OBVIOUS
  <2>1. (k - 1) + 1 = k /\ k \in Nat /\ k <= Len(s) /\ k + 1 \in 1..Len(s)
    BY <1>1
  <2>2. /\ upTo(k) = Append(upTo(k - 1), s[k + 1])
        /\ from2(k) = Append(from2(k - 1), s[k + 1])
        /\ upTo(k - 1) \in Seq(Seq(S)) /\ from2(k - 1) \in Seq(Seq(S))
    BY <1>1, <2>1
  <2>3. Log!FlattenSeq(upTo(k - 1)) = Head(s) \o Log!FlattenSeq(from2(k - 1))
    BY <1>3, <2>1
  <2> HIDE DEF upTo, from2, Good
  <2>4. s[k + 1] \in Seq(S)
    BY <1>1, <2>1
  <2>5. Log!FlattenSeq(upTo(k)) = (Head(s) \o Log!FlattenSeq(from2(k - 1))) \o s[k + 1]
    BY <2>2, <2>3, <2>4, FlatAppend
  <2>6. Log!FlattenSeq(from2(k)) = Log!FlattenSeq(from2(k - 1)) \o s[k + 1]
    BY <2>2, <2>4, FlatAppend
  <2>7. Log!FlattenSeq(from2(k - 1)) \in Seq(S)
    BY <2>2, FlatType
  <2> QED
    <3>1. PICK first \in Seq(S), rest \in Seq(S), x \in Seq(S) :
            first = Head(s) /\ rest = Log!FlattenSeq(from2(k - 1)) /\ x = s[k + 1]
      BY <1>1, <2>4, <2>7
    <3>2. (first \o rest) \o x = first \o (rest \o x)
      BY <1>0 DEF Associates
    <3>3. Log!FlattenSeq(upTo(k)) = (first \o rest) \o x
      BY <2>5, <3>1
    <3>4. Head(s) \o Log!FlattenSeq(from2(k)) = first \o (rest \o x)
      BY <2>6, <3>1
    <3> QED
      BY <3>2, <3>3, <3>4
<1> HIDE DEF Good
<1>4. Len(s) - 1 \in Good
  <2>1. Good \in SUBSET Nat
    BY DEF Good
  <2>2. Good = Nat
    BY <1>2, <1>3, <2>1, Upwards
  <2> QED
    BY <1>1, <2>2
<1>5. upTo(Len(s) - 1) = s /\ from2(Len(s) - 1) = Tail(s) /\ (Len(s) - 1) + 1 = Len(s)
  BY <1>1
<1>6. (Len(s) - 1) + 1 <= Len(s)
  BY <1>1
<1> DEFINE n == Len(s) - 1
<1> HIDE DEF upTo, from2, n
<1>7. n \in Good /\ n + 1 <= Len(s) /\ upTo(n) = s /\ from2(n) = Tail(s)
  BY <1>4, <1>5, <1>6 DEF n
<1> QED
  BY <1>7 DEF Good

--------------------------------------------------------------------------------
(* GET /logs *)

\* What a summary consists of, and what engines write.
Words == {"[text]", "[tool]", "[error]"}
LogLine ==
  [type : {"assistant", "item.started", "item.completed", "error"},
   item : {"text", "tool_use", "agent_message", "command_execution", "none"},
   failed : BOOLEAN]
LogPiece ==
  [part : {"all", "head", "tail", "newline", "noise"}, line : LogLine, ends : BOOLEAN]

\* The entries of lines, of a log, and of work.
Told(s) == Log!FlattenSeq([i \in DOMAIN s |-> Log!entry(s[i])])

BeginsIn(g, i) == i = 1 \/ g[i - 1].ends
ObjectIn(g, i) ==
  \/ g[i].part = "all" /\ BeginsIn(g, i)
  \/ g[i].part = "tail" /\ i > 1 /\ g[i - 1].part = "head" /\ BeginsIn(g, i - 1)
SpoiledIn(g, i) ==
  ObjectIn(g, i) /\ ~g[i].ends /\ i < Len(g) /\ g[i + 1].part # "newline"
ParsesIn(g, i) == ObjectIn(g, i) /\ ~SpoiledIn(g, i)
EntryIn(g, i) == IF ParsesIn(g, i) THEN Log!entry(g[i].line) ELSE <<>>
SummaryOf(g) == Log!FlattenSeq([i \in DOMAIN g |-> EntryIn(g, i)])

\* A piece x at the end of g leaves what the last line of g tells.
Keeps(g, x) == Len(g) # 0 /\ ObjectIn(g, Len(g)) /\ ~g[Len(g)].ends => x.part = "newline"

Did(e, w) == Log!FlattenSeq([i \in DOMAIN w |-> Log!Entries(e, w[i])])

LEMMA IsSequence ==
  ASSUME NEW T, NEW n \in Nat, NEW f \in [1..n -> T]
  PROVE  f \in Seq(T) /\ Len(f) = n
<1>1. f \in Seq(T)
  OBVIOUS
<1>2. Len(f) \in Nat /\ 1..Len(f) = 1..n
  BY <1>1, Elements
<1> QED
  BY <1>1, <1>2

LEMMA IsAppended ==
  ASSUME NEW T, NEW s \in Seq(T), NEW x \in T, NEW t \in Seq(T),
         Len(t) = Len(s) + 1, \A i \in 1..Len(s) : t[i] = s[i], t[Len(s) + 1] = x
  PROVE  t = Append(s, x)
<1> DEFINE a == Append(s, x)
<1>1. /\ a \in Seq(T) /\ Len(a) = Len(s) + 1 /\ a[Len(s) + 1] = x
      /\ \A i \in 1..Len(s) : a[i] = s[i]
  BY AppendProperties
<1>2. Len(s) \in Nat /\ \A i \in 1..Len(s) + 1 : i \in 1..Len(s) \/ i = Len(s) + 1
  BY Elements
<1> HIDE DEF a
<1>3. \A i \in 1..Len(t) : t[i] = a[i]
  BY <1>1, <1>2
<1>4. t = a
  BY <1>1, <1>3, SeqEqual
<1> QED
  BY <1>4 DEF a

LEMMA WordsAssociate == \A a, b, c \in Seq(Words) : (a \o b) \o c = a \o (b \o c)
BY AllAssociate DEF Associates

LEMMA EntryType == \A line : Log!entry(line) \in Seq(Words)
<1>1. /\ <<>> \in Seq(Words) /\ <<"[text]">> \in Seq(Words)
      /\ <<"[tool]">> \in Seq(Words) /\ <<"[error]">> \in Seq(Words)
  BY DEF Words
<1> QED
  BY <1>1 DEF Log!entry

LEMMA EntriesType == \A e, w : Log!Entries(e, w) \in Seq(Words)
<1>1. /\ <<"[text]">> \in Seq(Words) /\ <<"[tool]">> \in Seq(Words)
      /\ <<"[error]">> \in Seq(Words) /\ <<"[tool]", "[error]">> \in Seq(Words)
  BY DEF Words
<1> QED
  BY <1>1 DEF Log!Entries

LEMMA EmptyTold == Told(<<>>) = <<>> /\ SummaryOf(<<>>) = <<>> /\ \A e : Did(e, <<>>) = <<>>
<1>2. [i \in DOMAIN <<>> |-> Log!entry(<<>>[i])] = <<>>
  OBVIOUS
<1>3. [i \in DOMAIN <<>> |-> EntryIn(<<>>, i)] = <<>>
  OBVIOUS
<1>4. \A e : [i \in DOMAIN <<>> |-> Log!Entries(e, <<>>[i])] = <<>>
  OBVIOUS
<1> QED
  BY <1>2, <1>3, <1>4, FlatEmpty DEF Told, SummaryOf, Did

\* One more line.
LEMMA ToldAppend ==
  ASSUME NEW T, NEW s \in Seq(T), NEW x \in T
  PROVE  /\ Told(s) \in Seq(Words)
         /\ Told(Append(s, x)) = Told(s) \o Log!entry(x)
<1> DEFINE t == Append(s, x)
    a == [i \in DOMAIN s |-> Log!entry(s[i])]
    b == [i \in DOMAIN t |-> Log!entry(t[i])]
<1>1. /\ t \in Seq(T) /\ Len(t) = Len(s) + 1 /\ t[Len(s) + 1] = x
      /\ \A i \in 1..Len(s) : t[i] = s[i]
  BY AppendProperties
<1>2. DOMAIN s = 1..Len(s) /\ DOMAIN t = 1..Len(t) /\ Len(s) \in Nat /\ Len(t) \in Nat
      /\ Len(s) + 1 \in 1..Len(s) + 1 /\ \A i \in 1..Len(s) : i \in 1..Len(s) + 1
  BY <1>1, Elements
<1> HIDE DEF t
<1>3. a \in Seq(Seq(Words)) /\ Len(a) = Len(s)
  <2>1. a \in [1..Len(s) -> Seq(Words)]
    BY <1>2, EntryType
  <2> HIDE DEF a
  <2> QED
    BY <1>2, <2>1, IsSequence
<1>4. b \in Seq(Seq(Words)) /\ Len(b) = Len(t)
  <2>1. b \in [1..Len(t) -> Seq(Words)]
    BY <1>2, EntryType
  <2> HIDE DEF b
  <2> QED
    BY <1>2, <2>1, IsSequence
<1>5. (\A i \in 1..Len(s) : b[i] = a[i]) /\ b[Len(s) + 1] = Log!entry(x)
  BY <1>1, <1>2
<1>6. Told(s) = Log!FlattenSeq(a) /\ Told(t) = Log!FlattenSeq(b)
  BY DEF Told
<1> HIDE DEF a, b
<1>7. b = Append(a, Log!entry(x))
  BY <1>1, <1>3, <1>4, <1>5, EntryType, IsAppended
<1>8. Told(t) = Told(s) \o Log!entry(x)
  BY <1>3, <1>6, <1>7, EntryType, FlatAppend
<1> QED
  BY <1>3, <1>6, <1>8, FlatType DEF t

LEMMA SummaryIsWords ==
  ASSUME NEW T, NEW s \in Seq(T)
  PROVE  SummaryOf(s) \in Seq(Words)
<1> DEFINE a == [i \in DOMAIN s |-> EntryIn(s, i)]
<1>1. DOMAIN s = 1..Len(s) /\ Len(s) \in Nat
  BY Elements
<1>2. \A i : EntryIn(s, i) \in Seq(Words)
  <2>1. <<>> \in Seq(Words)
    OBVIOUS
  <2> QED
    BY <2>1, EntryType DEF EntryIn
<1>3. a \in [1..Len(s) -> Seq(Words)]
  BY <1>1, <1>2
<1>4. SummaryOf(s) = Log!FlattenSeq(a)
  BY DEF SummaryOf
<1> HIDE DEF a
<1>5. a \in Seq(Seq(Words))
  BY <1>1, <1>3, IsSequence
<1> QED
  BY <1>4, <1>5, FlatType

LEMMA LastOrNot == \A n \in Nat : \A i \in 1..n : i < n \/ i = n
OBVIOUS

\* One more piece of the log.
LEMMA SummaryAppend ==
  ASSUME NEW T, NEW s \in Seq(T), NEW x \in T, Keeps(s, x)
  PROVE  /\ SummaryOf(s) \in Seq(Words)
         /\ SummaryOf(Append(s, x)) = SummaryOf(s) \o EntryIn(Append(s, x), Len(s) + 1)
<1> DEFINE t == Append(s, x)
    a == [i \in DOMAIN s |-> EntryIn(s, i)]
    b == [i \in DOMAIN t |-> EntryIn(t, i)]
    e == EntryIn(t, Len(s) + 1)
<1>1. /\ t \in Seq(T) /\ Len(t) = Len(s) + 1 /\ t[Len(s) + 1] = x
      /\ \A i \in 1..Len(s) : t[i] = s[i]
  BY AppendProperties
<1>2. DOMAIN s = 1..Len(s) /\ DOMAIN t = 1..Len(t) /\ Len(s) \in Nat /\ Len(t) \in Nat
      /\ Len(s) + 1 \in 1..Len(s) + 1 /\ \A i \in 1..Len(s) : i \in 1..Len(s) + 1
  BY <1>1, Elements
<1>t. \A g, i : EntryIn(g, i) \in Seq(Words)
  BY EntryType DEF EntryIn
<1> HIDE DEF t
<1>3. a \in Seq(Seq(Words)) /\ Len(a) = Len(s)
  <2>1. a \in [1..Len(s) -> Seq(Words)]
    BY <1>2, <1>t
  <2> HIDE DEF a
  <2> QED
    BY <1>2, <2>1, IsSequence
<1>4. b \in Seq(Seq(Words)) /\ Len(b) = Len(t)
  <2>1. b \in [1..Len(t) -> Seq(Words)]
    BY <1>2, <1>t
  <2> HIDE DEF b
  <2> QED
    BY <1>2, <2>1, IsSequence
<1>5. (\A i \in 1..Len(s) : b[i] = a[i]) /\ b[Len(s) + 1] = e
  <2>1. ASSUME NEW i \in 1..Len(s) PROVE EntryIn(t, i) = EntryIn(s, i)
    <3>1. i # 1 => i - 1 \in 1..Len(s) /\ t[i - 1] = s[i - 1]
      BY <1>1, <1>2
    <3>2. i > 2 => i - 1 # 1 /\ (i - 1) - 1 \in 1..Len(s) /\ t[(i - 1) - 1] = s[(i - 1) - 1]
      BY <1>1, <1>2
    <3>3. i > 1 => i # 1 /\ (i > 2 \/ i - 1 = 1)
      BY <1>2
    <3>4. t[i] = s[i]
      BY <1>1
    <3>5. BeginsIn(t, i) = BeginsIn(s, i)
      BY <3>1 DEF BeginsIn
    <3>6. i > 1 => BeginsIn(t, i - 1) = BeginsIn(s, i - 1)
      BY <3>2, <3>3 DEF BeginsIn
    <3>7. ObjectIn(t, i) = ObjectIn(s, i)
      BY <3>1, <3>3, <3>4, <3>5, <3>6 DEF ObjectIn
    <3>8. SpoiledIn(t, i) = SpoiledIn(s, i)
      <4>1. CASE i < Len(s)
        <5>1. i + 1 \in 1..Len(s) /\ i < Len(t) /\ t[i + 1] = s[i + 1]
          BY <1>1, <1>2, <4>1
        <5> QED
          BY <3>4, <3>7, <4>1, <5>1 DEF SpoiledIn
      <4>2. CASE i = Len(s)
        <5>1. ~(i < Len(s)) /\ i + 1 = Len(s) + 1 /\ t[i + 1] = x /\ Len(s) # 0
          BY <1>1, <1>2, <4>2
        <5> QED
          BY <3>4, <3>7, <4>2, <5>1 DEF SpoiledIn, Keeps
      <4>3. i < Len(s) \/ i = Len(s)
        BY <1>2, LastOrNot
      <4> QED
        BY <4>1, <4>2, <4>3
    <3>9. ParsesIn(t, i) = ParsesIn(s, i)
      BY <3>7, <3>8 DEF ParsesIn
    <3> QED
      BY <3>4, <3>9 DEF EntryIn
  <2> QED
    BY <1>1, <1>2, <2>1
<1>6. SummaryOf(s) = Log!FlattenSeq(a) /\ SummaryOf(t) = Log!FlattenSeq(b) /\ e \in Seq(Words)
  BY <1>t DEF SummaryOf
<1> HIDE DEF a, b, e
<1>7. b = Append(a, e)
  BY <1>1, <1>3, <1>4, <1>5, <1>6, IsAppended
<1>8. SummaryOf(t) = SummaryOf(s) \o e
  BY <1>3, <1>6, <1>7, FlatAppend
<1> QED
  BY <1>3, <1>6, <1>8, FlatType DEF t, e

\* One more piece of work.
LEMMA DidAppend ==
  ASSUME NEW T, NEW s \in Seq(T), NEW x \in T, NEW e
  PROVE  /\ Did(e, s) \in Seq(Words)
         /\ Did(e, Append(s, x)) = Did(e, s) \o Log!Entries(e, x)
<1> DEFINE t == Append(s, x)
    a == [i \in DOMAIN s |-> Log!Entries(e, s[i])]
    b == [i \in DOMAIN t |-> Log!Entries(e, t[i])]
<1>1. /\ t \in Seq(T) /\ Len(t) = Len(s) + 1 /\ t[Len(s) + 1] = x
      /\ \A i \in 1..Len(s) : t[i] = s[i]
  BY AppendProperties
<1>2. DOMAIN s = 1..Len(s) /\ DOMAIN t = 1..Len(t) /\ Len(s) \in Nat /\ Len(t) \in Nat
      /\ Len(s) + 1 \in 1..Len(s) + 1 /\ \A i \in 1..Len(s) : i \in 1..Len(s) + 1
  BY <1>1, Elements
<1> HIDE DEF t
<1>3. a \in Seq(Seq(Words)) /\ Len(a) = Len(s)
  <2>1. a \in [1..Len(s) -> Seq(Words)]
    BY <1>2, EntriesType
  <2> HIDE DEF a
  <2> QED
    BY <1>2, <2>1, IsSequence
<1>4. b \in Seq(Seq(Words)) /\ Len(b) = Len(t)
  <2>1. b \in [1..Len(t) -> Seq(Words)]
    BY <1>2, EntriesType
  <2> HIDE DEF b
  <2> QED
    BY <1>2, <2>1, IsSequence
<1>5. (\A i \in 1..Len(s) : b[i] = a[i]) /\ b[Len(s) + 1] = Log!Entries(e, x)
  BY <1>1, <1>2
<1>6. Did(e, s) = Log!FlattenSeq(a) /\ Did(e, t) = Log!FlattenSeq(b)
  BY DEF Did
<1> HIDE DEF a, b
<1>7. b = Append(a, Log!Entries(e, x))
  BY <1>1, <1>3, <1>4, <1>5, EntriesType, IsAppended
<1>8. Did(e, t) = Did(e, s) \o Log!Entries(e, x)
  BY <1>3, <1>6, <1>7, EntriesType, FlatAppend
<1> QED
  BY <1>3, <1>6, <1>8, FlatType DEF t

\* The first line goes.
LEMMA ToldFirst ==
  ASSUME NEW T, NEW s \in Seq(T), Len(s) # 0
  PROVE  Told(s) = Log!entry(Head(s)) \o Told(Tail(s)) /\ Told(Tail(s)) \in Seq(Words)
<1> DEFINE t == Tail(s)
    a == [i \in DOMAIN s |-> Log!entry(s[i])]
    b == [i \in DOMAIN t |-> Log!entry(t[i])]
<1>1. /\ t \in Seq(T) /\ Len(t) = Len(s) - 1 /\ Len(t) \in Nat
      /\ \A i \in 1..Len(t) : t[i] = s[i + 1]
  <2>1. s # <<>>
    OBVIOUS
  <2> QED
    BY <2>1, HeadTailProperties, Elements
<1>2. /\ DOMAIN s = 1..Len(s) /\ DOMAIN t = 1..Len(t) /\ Len(s) \in Nat /\ 1 \in 1..Len(s)
      /\ \A i \in 1..Len(t) : i + 1 \in 1..Len(s)
  BY <1>1, Elements
<1>0. Head(s) = s[1]
  OBVIOUS
<1> HIDE DEF t
<1>3. a \in Seq(Seq(Words)) /\ Len(a) = Len(s)
  <2>1. a \in [1..Len(s) -> Seq(Words)]
    BY <1>2, EntryType
  <2> HIDE DEF a
  <2> QED
    BY <1>2, <2>1, IsSequence
<1>4. b \in Seq(Seq(Words)) /\ Len(b) = Len(t)
  <2>1. b \in [1..Len(t) -> Seq(Words)]
    BY <1>2, EntryType
  <2> HIDE DEF b
  <2> QED
    BY <1>1, <1>2, <2>1, IsSequence
<1>5. a[1] = Log!entry(s[1]) /\ \A i \in 1..Len(t) : b[i] = a[i + 1]
  BY <1>1, <1>2
<1>6. Told(s) = Log!FlattenSeq(a) /\ Told(t) = Log!FlattenSeq(b)
  BY DEF Told
<1> HIDE DEF a, b
<1>7. Tail(a) = b /\ Head(a) = a[1]
  <2>1. a # <<>>
    BY <1>3
  <2>2. /\ Tail(a) \in Seq(Seq(Words)) /\ Len(Tail(a)) = Len(t)
        /\ \A i \in 1..Len(Tail(a)) : Tail(a)[i] = a[i + 1]
    BY <1>1, <1>3, <2>1, HeadTailProperties
  <2>3. \A i \in 1..Len(b) : b[i] = Tail(a)[i]
    BY <1>4, <1>5, <2>2
  <2>4. Tail(a) = b
    BY <1>4, <2>2, <2>3, SeqEqual
  <2> QED
    BY <2>4
<1>8. Told(s) = Head(a) \o Log!FlattenSeq(Tail(a))
  BY <1>3, <1>6, FlatFirst
<1>9. Told(t) \in Seq(Words)
  BY <1>1, ToldAppend, <1>4, <1>6, FlatType
<1> QED
  BY <1>0, <1>5, <1>6, <1>7, <1>8, <1>9 DEF t

LEMMA AppendToOne ==
  ASSUME NEW T, NEW a \in T, NEW b \in T
  PROVE  Append(<<a>>, b) = <<a, b>>
<1> DEFINE x == Append(<<a>>, b)
    y == <<a, b>>
<1>1. x \in Seq(T) /\ Len(x) = 2 /\ x[1] = a /\ x[2] = b
  BY AppendProperties
<1>2. y \in Seq(T) /\ Len(y) = 2 /\ y[1] = a /\ y[2] = b
  OBVIOUS
<1> HIDE DEF x, y
<1>3. \A i \in 1..Len(x) : x[i] = y[i]
  BY <1>1, <1>2
<1>4. x = y
  BY <1>1, <1>2, <1>3, SeqEqual
<1> QED
  BY <1>4 DEF x, y

\* The lines of each kind of work tell what should be told of it.
LEMMA WorkIsTold ==
  ASSUME NEW e \in Log!Engine, NEW w \in Log!Work, NEW s \in Seq(LogLine)
  PROVE  /\ s \o Log!Lines(e, w) \in Seq(LogLine)
         /\ Told(s \o Log!Lines(e, w)) = Told(s) \o Log!Entries(e, w)
<1>1. ASSUME NEW x \in LogLine
      PROVE  /\ s \o <<x>> \in Seq(LogLine)
             /\ Told(s \o <<x>>) = Told(s) \o Log!entry(x)
  <2>1. s \o <<x>> = Append(s, x)
    BY AppendIsConcat
  <2>2. Append(s, x) \in Seq(LogLine)
    OBVIOUS
  <2>3. Told(Append(s, x)) = Told(s) \o Log!entry(x)
    BY ToldAppend
  <2> QED
    BY <2>1, <2>2, <2>3
<1>2. ASSUME NEW x \in LogLine, NEW y \in LogLine
      PROVE  /\ s \o <<x, y>> \in Seq(LogLine)
             /\ Told(s \o <<x, y>>) = Told(s) \o (Log!entry(x) \o Log!entry(y))
  <2>1. s \o <<x, y>> = Append(Append(s, x), y) /\ Append(s, x) \in Seq(LogLine)
    OBVIOUS
  <2>2. Told(s \o <<x, y>>) = (Told(s) \o Log!entry(x)) \o Log!entry(y)
    BY <2>1, ToldAppend
  <2>3. PICK a \in Seq(Words), b \in Seq(Words), c \in Seq(Words) :
          a = Told(s) /\ b = Log!entry(x) /\ c = Log!entry(y)
    <3>1. Told(s) \in Seq(Words)
      BY ToldAppend
    <3> QED
      BY <3>1, EntryType
  <2>4. (a \o b) \o c = a \o (b \o c)
    BY Associative
  <2>5. s \o <<x, y>> \in Seq(LogLine)
    BY <2>1
  <2> QED
    BY <2>2, <2>3, <2>4, <2>5
<1>3. /\ Log!ErrorLine \in LogLine /\ Log!entry(Log!ErrorLine) = <<"[error]">>
      /\ \A b \in {"text", "tool_use"} :
           /\ Log!Assistant(b) \in LogLine
           /\ Log!entry(Log!Assistant(b)) = IF b = "text" THEN <<"[text]">> ELSE <<"[tool]">>
  BY DEF LogLine, Log!ErrorLine, Log!Assistant, Log!entry
<1>4. \A item \in {"agent_message", "command_execution"}, failed \in BOOLEAN :
        /\ Log!Item("item.started", item, FALSE) \in LogLine
        /\ Log!Item("item.completed", item, failed) \in LogLine
        /\ Log!entry(Log!Item("item.started", item, FALSE)) =
              IF item = "agent_message" THEN <<>> ELSE <<"[tool]">>
        /\ Log!entry(Log!Item("item.completed", item, failed)) =
              IF item = "agent_message" THEN <<"[text]">>
              ELSE IF failed THEN <<"[error]">> ELSE <<>>
  BY DEF LogLine, Log!Item, Log!entry
<1>5. /\ <<>> \o <<"[text]">> = <<"[text]">> /\ <<"[tool]">> \o <<>> = <<"[tool]">>
      /\ <<"[tool]">> \o <<"[error]">> = <<"[tool]", "[error]">>
  <2>1. <<"[text]">> \in Seq(Words) /\ <<"[tool]">> \in Seq(Words) /\ "[error]" \in Words
    BY DEF Words
  <2>2. <<>> \o <<"[text]">> = <<"[text]">> /\ <<"[tool]">> \o <<>> = <<"[tool]">>
    BY <2>1, ConcatEmptySeq
  <2>3. <<"[tool]">> \o <<"[error]">> = Append(<<"[tool]">>, "[error]")
    BY <2>1, AppendIsConcat
  <2>4. Append(<<"[tool]">>, "[error]") = <<"[tool]", "[error]">>
    <3>1. "[tool]" \in Words /\ "[error]" \in Words
      BY DEF Words
    <3> QED
      BY <3>1, AppendToOne
  <2> QED
    BY <2>2, <2>3, <2>4
<1>6. CASE w = "fail"
  <2>1. Log!Lines(e, w) = <<Log!ErrorLine>> /\ Log!Entries(e, w) = <<"[error]">>
    BY <1>6 DEF Log!Lines, Log!Entries
  <2> QED
    BY <1>1, <1>3, <2>1
<1>7. CASE w # "fail" /\ e = "claude"
  <2> DEFINE b == IF w = "say" THEN "text" ELSE "tool_use"
  <2>1. /\ Log!Lines(e, w) = <<Log!Assistant(b)>>
        /\ Log!Entries(e, w) = IF b = "text" THEN <<"[text]">> ELSE <<"[tool]">>
    BY <1>7 DEF Log!Lines, Log!Entries, Log!Work
  <2>2. b \in {"text", "tool_use"}
    OBVIOUS
  <2> HIDE DEF b
  <2> QED
    BY <1>1, <1>3, <2>1, <2>2
<1>8. CASE w = "say" /\ e = "codex"
  <2>1. /\ Log!Lines(e, w) = <<Log!Item("item.started", "agent_message", FALSE),
                             Log!Item("item.completed", "agent_message", FALSE)>>
        /\ Log!Entries(e, w) = <<"[text]">>
    BY <1>8 DEF Log!Lines, Log!Entries
  <2>2. PICK x \in LogLine, y \in LogLine :
          /\ x = Log!Item("item.started", "agent_message", FALSE)
          /\ y = Log!Item("item.completed", "agent_message", FALSE)
          /\ Log!entry(x) = <<>> /\ Log!entry(y) = <<"[text]">>
    BY <1>4
  <2>3. Log!entry(x) \o Log!entry(y) = Log!Entries(e, w)
    BY <1>5, <2>1, <2>2
  <2>4. Log!Lines(e, w) = <<x, y>>
    BY <2>1, <2>2
  <2> QED
    BY <1>2, <2>3, <2>4
<1>9. CASE w \in {"tool", "bad tool"} /\ e = "codex"
  <2>1. /\ Log!Lines(e, w) = <<Log!Item("item.started", "command_execution", FALSE),
                             Log!Item("item.completed", "command_execution", w = "bad tool")>>
        /\ Log!Entries(e, w) = IF w = "bad tool" THEN <<"[tool]", "[error]">> ELSE <<"[tool]">>
        /\ (w = "bad tool") \in BOOLEAN
    BY <1>9 DEF Log!Lines, Log!Entries, Log!Command
  <2>2. PICK x \in LogLine, y \in LogLine :
          /\ x = Log!Item("item.started", "command_execution", FALSE)
          /\ y = Log!Item("item.completed", "command_execution", w = "bad tool")
          /\ Log!entry(x) = <<"[tool]">>
          /\ Log!entry(y) = IF w = "bad tool" THEN <<"[error]">> ELSE <<>>
    BY <1>4, <2>1
  <2>3. Log!entry(x) \o Log!entry(y) = Log!Entries(e, w)
    BY <1>5, <2>1, <2>2
  <2>4. Log!Lines(e, w) = <<x, y>>
    BY <2>1, <2>2
  <2> QED
    BY <1>2, <2>3, <2>4
<1> QED
  BY <1>6, <1>7, <1>8, <1>9 DEF Log!Engine, Log!Work

LEMMA LinesType ==
  ASSUME NEW e, NEW w
  PROVE  Log!Lines(e, w) \in Seq(LogLine)
<1>1. /\ Log!ErrorLine \in LogLine
      /\ \A b \in {"text", "tool_use"} : Log!Assistant(b) \in LogLine
      /\ \A item \in {"agent_message", "command_execution"}, failed \in BOOLEAN :
           /\ Log!Item("item.started", item, FALSE) \in LogLine
           /\ Log!Item("item.completed", item, failed) \in LogLine
  BY DEF LogLine, Log!ErrorLine, Log!Assistant, Log!Item
<1>2. \A x, y \in LogLine : <<x>> \in Seq(LogLine) /\ <<x, y>> \in Seq(LogLine)
  OBVIOUS
<1>3. Log!Assistant(IF w = "say" THEN "text" ELSE "tool_use") \in LogLine
  BY <1>1
<1>4. Log!Command(w = "bad tool") \in Seq(LogLine)
  <2>1. (w = "bad tool") \in BOOLEAN
    OBVIOUS
  <2> QED
    BY <1>1, <1>2, <2>1 DEF Log!Command
<1>5. <<Log!Item("item.started", "agent_message", FALSE),
        Log!Item("item.completed", "agent_message", FALSE)>> \in Seq(LogLine)
  BY <1>1, <1>2
<1>6. /\ <<Log!ErrorLine>> \in Seq(LogLine)
      /\ <<Log!Assistant(IF w = "say" THEN "text" ELSE "tool_use")>> \in Seq(LogLine)
  BY <1>1, <1>2, <1>3
<1> QED
  BY <1>4, <1>5, <1>6 DEF Log!Lines

\* All the lines of a run tell all that it does.
LEMMA RunIsTold ==
  ASSUME NEW e \in Log!Engine, NEW w \in Seq(Log!Work)
  PROVE  LET lines == Log!FlattenSeq([i \in DOMAIN w |-> Log!Lines(e, w[i])]) IN
         lines \in Seq(LogLine) /\ Told(lines) = Did(e, w)
<1> DEFINE first(k) == SubSeq(w, 1, k)
    pieces(v) == [i \in DOMAIN v |-> Log!Lines(e, v[i])]
    lines(v) == Log!FlattenSeq(pieces(v))
    Good == {k \in Nat : k <= Len(w) =>
               lines(first(k)) \in Seq(LogLine) /\ Told(lines(first(k))) = Did(e, first(k))}
<1>1. Len(w) \in Nat /\ \A i \in 1..Len(w) : w[i] \in Log!Work
  BY Elements
<1>2. 0 \in Good
  <2>1. first(0) = <<>>
    BY SubSeqEmpty
  <2>2. pieces(<<>>) = <<>>
    OBVIOUS
  <2> HIDE DEF first, pieces
  <2>3. lines(first(0)) = <<>>
    BY <2>1, <2>2, FlatEmpty
  <2>4. <<>> \in Seq(LogLine)
    OBVIOUS
  <2> QED
    BY <2>1, <2>3, <2>4, EmptyTold
<1>3. ASSUME NEW k \in Nat \ {0}, k - 1 \in Good
      PROVE  k \in Good
  <2> SUFFICES ASSUME k <= Len(w)
               PROVE  lines(first(k)) \in Seq(LogLine) /\ Told(lines(first(k))) = Did(e, first(k))
    OBVIOUS
  <2>1. k - 1 \in Nat /\ k - 1 <= Len(w) /\ k \in 1..Len(w) /\ k \in 1..k
        /\ \A i \in 1..k : i \in 1..Len(w)
    BY <1>1
  <2> DEFINE v == first(k - 1)
             x == w[k]
  <2>2. v \in Seq(Log!Work) /\ x \in Log!Work /\ first(k) = Append(v, x)
    <3>1. \A i \in 1..(k - 1) : w[i] \in Log!Work
      BY <1>1, <2>1
    <3>2. v \in Seq(Log!Work)
      BY <2>1, <3>1, SubSeqProperties
    <3>3. first(k) = v \o <<x>>
      BY <1>1, <2>1, SubSeqRecursiveSecond
    <3> QED
      BY <1>1, <2>1, <3>2, <3>3, AppendIsConcat
  <2>3. lines(v) \in Seq(LogLine) /\ Told(lines(v)) = Did(e, v)
    BY <1>3, <2>1
  <2> HIDE DEF first, Good, v, x
  <2>4. pieces(v) \in Seq(Seq(LogLine)) /\ pieces(Append(v, x)) = Append(pieces(v), Log!Lines(e, x))
    <3> DEFINE t == Append(v, x)
               a == pieces(v)
               b == pieces(t)
    <3>1. /\ t \in Seq(Log!Work) /\ Len(t) = Len(v) + 1 /\ t[Len(v) + 1] = x
          /\ \A i \in 1..Len(v) : t[i] = v[i]
      BY <2>2, AppendProperties
    <3>2. DOMAIN v = 1..Len(v) /\ DOMAIN t = 1..Len(t) /\ Len(v) \in Nat /\ Len(t) \in Nat
          /\ Len(v) + 1 \in 1..Len(v) + 1 /\ \A i \in 1..Len(v) : i \in 1..Len(v) + 1
      BY <2>2, <3>1, Elements
    <3> HIDE DEF t
    <3>3. a \in [1..Len(v) -> Seq(LogLine)] /\ b \in [1..Len(t) -> Seq(LogLine)]
      BY <3>2, LinesType
    <3>4. (\A i \in 1..Len(v) : b[i] = a[i]) /\ b[Len(v) + 1] = Log!Lines(e, x)
      BY <3>1, <3>2
    <3> HIDE DEF a, b
    <3>5. /\ a \in Seq(Seq(LogLine)) /\ Len(a) = Len(v)
          /\ b \in Seq(Seq(LogLine)) /\ Len(b) = Len(t)
      BY <3>2, <3>3, IsSequence
    <3>6. b = Append(a, Log!Lines(e, x))
      BY <3>1, <3>4, <3>5, LinesType, IsAppended
    <3> QED
      BY <3>5, <3>6 DEF a, b, t
  <2>5. lines(first(k)) = lines(v) \o Log!Lines(e, x)
    <3> HIDE DEF pieces
    <3>1. lines(v) = Log!FlattenSeq(pieces(v)) /\ lines(first(k)) = Log!FlattenSeq(pieces(first(k)))
      OBVIOUS
    <3> HIDE DEF lines
    <3> QED
      BY <2>2, <2>4, <3>1, LinesType, FlatAppend
  <2> HIDE DEF lines, pieces
  <2>6. /\ lines(first(k)) \in Seq(LogLine)
        /\ Told(lines(first(k))) = Did(e, v) \o Log!Entries(e, x)
    BY <2>2, <2>3, <2>5, WorkIsTold
  <2>7. Did(e, first(k)) = Did(e, v) \o Log!Entries(e, x)
    BY <2>2, DidAppend
  <2> QED
    BY <2>6, <2>7
<1> HIDE DEF Good
<1>4. Good = Nat
  <2>1. Good \in SUBSET Nat
    BY DEF Good
  <2> QED
    BY <1>2, <1>3, <2>1, Upwards
<1>5. Len(w) \in Good /\ Len(w) <= Len(w)
  BY <1>1, <1>4
<1>6. first(Len(w)) = w
  BY SubSeqFull
<1> HIDE DEF first
<1>7. lines(w) \in Seq(LogLine) /\ Told(lines(w)) = Did(e, w)
  BY <1>5, <1>6 DEF Good
<1> QED
  BY <1>7


\* What the model calls by names of its own.
LEMMA SummaryIsThat == Log!filterNDJSON = SummaryOf(file)
<1>1. \A i : Log!Parses(i) = ParsesIn(file, i)
  BY DEF Log!Parses, Log!Object, Log!Spoiled, Log!Begins, ParsesIn, ObjectIn, SpoiledIn, BeginsIn
<1>2. [i \in DOMAIN file |-> IF Log!Parses(i) THEN Log!entry(file[i].line) ELSE <<>>]
        = [i \in DOMAIN file |-> EntryIn(file, i)]
  BY <1>1 DEF EntryIn
<1> QED
  BY <1>2 DEF Log!filterNDJSON, SummaryOf

LEMMA SummaryType ==
  ASSUME NEW s \in Seq(LogPiece)
  PROVE  SummaryOf(s) \in Seq(Words)
BY SummaryIsWords

LEMMA TailLength ==
  ASSUME NEW s \in Seq(Words), MaxTail \in Nat
  PROVE  /\ Log!Tail16K(s) \in Seq(Words) /\ Len(Log!Tail16K(s)) <= MaxTail
         /\ Len(Log!Tail16K(s)) < MaxTail => Len(s) < MaxTail
         /\ Len(s) <= MaxTail => Log!Tail16K(s) = s
<1>1. Len(s) \in Nat /\ \A i \in 1..Len(s) : s[i] \in Words
  BY Elements
<1>2. CASE Len(s) > MaxTail
  <2> DEFINE first == Len(s) - MaxTail + 1
  <2>1. Log!Tail16K(s) = SubSeq(s, first, Len(s))
    BY <1>2 DEF Log!Tail16K
  <2>2. first \in 1..Len(s) + 1 /\ Len(s) - first + 1 = MaxTail
    BY <1>1, <1>2
  <2>3. \A i \in first..Len(s) : s[i] \in Words
    BY <1>1, <2>2
  <2> HIDE DEF first
  <2>4. /\ SubSeq(s, first, Len(s)) \in Seq(Words)
        /\ Len(SubSeq(s, first, Len(s))) = IF first <= Len(s) THEN Len(s) - first + 1 ELSE 0
    BY <1>1, <2>2, <2>3, SubSeqProperties
  <2> QED
    BY <1>1, <1>2, <2>1, <2>2, <2>4
<1>3. CASE ~(Len(s) > MaxTail)
  <2>1. Log!Tail16K(s) = SubSeq(s, 1, Len(s))
    BY <1>3 DEF Log!Tail16K
  <2>2. Log!Tail16K(s) = s
    BY <2>1, SubSeqFull
  <2> QED
    BY <1>1, <1>3, <2>2
<1> QED
  BY <1>2, <1>3

LEMMA BoundedIsSeq ==
  ASSUME NEW T, NEW n \in Nat
  PROVE  Log!BoundedSeq(T, n) \subseteq Seq(T)
BY IsSequence DEF Log!BoundedSeq, Log!SeqOf

LEMMA EntryInType == \A g, i : EntryIn(g, i) \in Seq(Words)
<1>1. <<>> \in Seq(Words)
  OBVIOUS
<1> QED
  BY <1>1, EntryType DEF EntryIn

LogTypes ==
  /\ run \in 0..MaxRuns /\ noise \in 0..MaxNoise /\ engine \in Log!Engine
  /\ todo \in Seq(LogLine) /\ file \in Seq(LogPiece) /\ done \in Seq(Log!Work)
  /\ cut \in {"nothing", "object", "newline"}
  /\ torn \in BOOLEAN /\ known \in BOOLEAN /\ asked \in BOOLEAN
  /\ cut = "object" => Len(todo) # 0

LogAnswered ==
  /\ logAnswer.code \in {0, 200, 404} /\ logAnswer.run \in 0..run
  /\ logAnswer.data \in Seq(Words) /\ Len(logAnswer.data) <= MaxTail

\* What the log tells and what is still to be written tell together what the run does,
\* and an object that is half written can be completed.
Whole ==
  ~torn =>
    /\ SummaryOf(file) \o Told(todo) = Did(engine, done)
    /\ cut = "object" => Len(file) # 0 /\ file[Len(file)].part = "head" /\ BeginsIn(file, Len(file))

\* If the log ends with an object, its newline is the next thing on stdout.
Pending ==
  Len(file) # 0 /\ ObjectIn(file, Len(file)) /\ ~file[Len(file)].ends => cut = "newline"

\* The last answer about this run tells what the log told then, and the log has not
\* lost it, unless a line is spoiled.
IsFirst(data, g) == \E a, b \in Seq(Words) : SummaryOf(g) = a \o b /\ data = Log!Tail16K(a)

SomeSpoiled(g) == \E i \in DOMAIN g : SpoiledIn(g, i)

Earlier ==
  logAnswer.code = 200 /\ logAnswer.run = run => IsFirst(logAnswer.data, file) \/ SomeSpoiled(file)

LogInv == LogTypes /\ LogAnswered /\ Whole /\ Pending /\ Earlier

LEMMA LogInitially ==
  ASSUME Log!LogAssumption, Log!Init
  PROVE  LogInv
<1>1. MaxRuns \in Nat /\ MaxNoise \in Nat /\ MaxTail \in Nat
  BY DEF Log!LogAssumption
<1>2. <<>> \in Seq(LogLine) /\ <<>> \in Seq(LogPiece) /\ <<>> \in Seq(Log!Work) /\ <<>> \in Seq(Words)
      /\ Len(<<>>) = 0
  OBVIOUS
<1>3. LogTypes
  <2>1. run \in 0..MaxRuns /\ noise \in 0..MaxNoise
    BY <1>1 DEF Log!Init
  <2>2. /\ engine \in Log!Engine /\ cut = "nothing" /\ torn \in BOOLEAN
        /\ known \in BOOLEAN /\ asked \in BOOLEAN
    BY DEF Log!Init
  <2>3. todo \in Seq(LogLine) /\ file \in Seq(LogPiece) /\ done \in Seq(Log!Work)
    BY <1>2 DEF Log!Init
  <2> QED
    BY <2>1, <2>2, <2>3 DEF LogTypes
<1>4. LogAnswered
  BY <1>1, <1>2 DEF Log!Init, LogAnswered
<1>5. Whole
  <2>1. <<>> \o <<>> = <<>>
    BY <1>2, ConcatEmptySeq
  <2> QED
    BY <2>1, EmptyTold DEF Log!Init, Whole
<1>6. Earlier
  BY DEF Log!Init, Earlier
<1>7. Pending
  BY <1>2 DEF Log!Init, Pending
<1> QED
  BY <1>3, <1>4, <1>5, <1>6, <1>7 DEF LogInv

LEMMA FirstOf ==
  ASSUME NEW g, NEW a \in Seq(Words), NEW b \in Seq(Words), SummaryOf(g) = a \o b
  PROVE  IsFirst(Log!Tail16K(a), g)
BY DEF IsFirst

\* A spoiled line stays spoiled.
LEMMA StaysSpoiled ==
  ASSUME NEW g \in Seq(LogPiece), NEW x \in LogPiece, SomeSpoiled(g) \/ ~Keeps(g, x)
  PROVE  SomeSpoiled(Append(g, x))
<1> DEFINE t == Append(g, x)
<1>1. /\ t \in Seq(LogPiece) /\ Len(t) = Len(g) + 1 /\ t[Len(g) + 1] = x
      /\ \A i \in 1..Len(g) : t[i] = g[i]
  BY AppendProperties
<1>2. DOMAIN g = 1..Len(g) /\ DOMAIN t = 1..Len(t) /\ Len(g) \in Nat /\ Len(t) \in Nat
  BY <1>1, Elements
<1> HIDE DEF t
<1>3. ASSUME NEW i \in 1..Len(g) PROVE ObjectIn(t, i) = ObjectIn(g, i)
  <2>1. i # 1 => i - 1 \in 1..Len(g) /\ t[i - 1] = g[i - 1]
    BY <1>1, <1>2
  <2>2. i > 2 => i - 1 # 1 /\ (i - 1) - 1 \in 1..Len(g) /\ t[(i - 1) - 1] = g[(i - 1) - 1]
    BY <1>1, <1>2
  <2>3. i > 1 => i # 1 /\ (i > 2 \/ i - 1 = 1)
    BY <1>2
  <2>4. t[i] = g[i]
    BY <1>1
  <2>5. BeginsIn(t, i) = BeginsIn(g, i)
    BY <2>1 DEF BeginsIn
  <2>6. i > 1 => BeginsIn(t, i - 1) = BeginsIn(g, i - 1)
    BY <2>2, <2>3 DEF BeginsIn
  <2> QED
    BY <2>1, <2>3, <2>4, <2>5, <2>6 DEF ObjectIn
<1>4. CASE SomeSpoiled(g)
  <2>1. PICK i \in 1..Len(g) : SpoiledIn(g, i)
    BY <1>2, <1>4 DEF SomeSpoiled
  <2>2. i < Len(g) /\ ObjectIn(g, i) /\ ~g[i].ends /\ g[i + 1].part # "newline"
    BY <2>1 DEF SpoiledIn
  <2>3. i + 1 \in 1..Len(g) /\ i < Len(t) /\ i \in 1..Len(t) /\ t[i] = g[i] /\ t[i + 1] = g[i + 1]
    BY <1>1, <1>2, <2>2
  <2>4. SpoiledIn(t, i)
    BY <1>3, <2>2, <2>3 DEF SpoiledIn
  <2> QED
    BY <1>2, <2>3, <2>4 DEF SomeSpoiled, t
<1>5. CASE ~Keeps(g, x)
  <2> DEFINE i == Len(g)
  <2>1. Len(g) # 0 /\ ObjectIn(g, i) /\ ~g[i].ends /\ x.part # "newline"
    BY <1>5 DEF Keeps
  <2>2. i \in 1..Len(g) /\ i < Len(t) /\ i \in 1..Len(t) /\ t[i] = g[i] /\ t[i + 1] = x
    BY <1>1, <1>2, <2>1
  <2> HIDE DEF i
  <2>3. SpoiledIn(t, i)
    BY <1>3, <2>1, <2>2 DEF SpoiledIn
  <2> QED
    BY <1>2, <2>2, <2>3 DEF SomeSpoiled, t
<1> QED
  BY <1>4, <1>5

\* A piece more leaves what an earlier answer told at the front, or spoils a line.
LEMMA StillEarlier ==
  ASSUME LogTypes, Earlier, NEW x \in LogPiece, file' = Append(file, x),
         UNCHANGED <<run, logAnswer>>
  PROVE  Earlier'
<1> SUFFICES ASSUME logAnswer.code = 200, logAnswer.run = run, Keeps(file, x), ~SomeSpoiled(file)
             PROVE  IsFirst(logAnswer.data, file')
  <2>1. file \in Seq(LogPiece)
    BY DEF LogTypes
  <2>2. CASE SomeSpoiled(file) \/ ~Keeps(file, x)
    <3>1. SomeSpoiled(file')
      BY <2>1, <2>2, StaysSpoiled
    <3> QED
      BY <3>1 DEF Earlier
  <2> QED
    BY <2>2 DEF Earlier
<1>1. PICK a \in Seq(Words), b \in Seq(Words) :
        SummaryOf(file) = a \o b /\ logAnswer.data = Log!Tail16K(a)
  BY DEF Earlier, IsFirst
<1>2. PICK c \in Seq(Words) : c = EntryIn(Append(file, x), Len(file) + 1)
  BY EntryInType
<1>3. SummaryOf(file') = (a \o b) \o c
  <2>1. file \in Seq(LogPiece)
    BY DEF LogTypes
  <2>2. SummaryOf(Append(file, x)) = SummaryOf(file) \o EntryIn(Append(file, x), Len(file) + 1)
    BY <2>1, SummaryAppend
  <2> QED
    BY <1>1, <1>2, <2>2
<1>4. SummaryOf(file') = a \o (b \o c) /\ b \o c \in Seq(Words)
  <2>1. (a \o b) \o c = a \o (b \o c)
    BY Zenon, WordsAssociate
  <2>2. b \o c \in Seq(Words)
    BY ConcatProperties
  <2> QED
    BY <1>3, <2>1, <2>2
<1>5. PICK d \in Seq(Words) : d = b \o c
  BY <1>4
<1>6. SummaryOf(file') = a \o d /\ logAnswer.data = Log!Tail16K(a)
  BY <1>1, <1>4, <1>5
<1>7. IsFirst(Log!Tail16K(a), file')
  BY <1>6, FirstOf
<1> QED
  BY <1>6, <1>7

\* What a new piece at the end of a log tells.
Tells(g, x, t, n) ==
  /\ t \in Seq(LogPiece) /\ Len(t) = n /\ t[n] = x /\ n # 0
  /\ BeginsIn(t, n) = BeginsIn(g, n)
  /\ x.part \in {"head", "newline", "noise"} => EntryIn(t, n) = <<>> /\ ~ObjectIn(t, n)
  /\ x.part = "all" /\ BeginsIn(g, n) => EntryIn(t, n) = Log!entry(x.line)
  /\ x.part = "tail" /\ Len(g) # 0 /\ g[Len(g)].part = "head" /\ BeginsIn(g, Len(g))
       => EntryIn(t, n) = Log!entry(x.line)

LEMMA BeforeLast ==
  ASSUME NEW k \in Nat
  PROVE  /\ k + 1 # 0 /\ k + 1 - 1 = k /\ (k + 1 # 1 => k \in 1..k)
         /\ k # 0 => k + 1 > 1 /\ k \in 1..k
         /\ k # 0 /\ k # 1 => k - 1 \in 1..k
OBVIOUS

LEMMA PieceAdded ==
  ASSUME NEW g \in Seq(LogPiece), NEW x \in LogPiece
  PROVE  \E t \in Seq(LogPiece), k \in Nat :
           /\ t = Append(g, x) /\ k = Len(g) /\ Len(t) = k + 1 /\ t[k + 1] = x
           /\ \A i \in 1..k : t[i] = g[i]
<1>1. /\ Append(g, x) \in Seq(LogPiece) /\ Len(Append(g, x)) = Len(g) + 1
      /\ Append(g, x)[Len(g) + 1] = x
      /\ \A i \in 1..Len(g) : Append(g, x)[i] = g[i]
  BY AppendProperties
<1>2. Len(g) \in Nat
  BY Elements
<1> QED
  BY <1>1, <1>2

LEMMA NewPiece ==
  \A g \in Seq(LogPiece), x \in LogPiece : Tells(g, x, Append(g, x), Len(g) + 1)
<1> SUFFICES ASSUME NEW g \in Seq(LogPiece), NEW x \in LogPiece
             PROVE  Tells(g, x, Append(g, x), Len(g) + 1)
  OBVIOUS
<1>1. PICK t \in Seq(LogPiece), k \in Nat :
        /\ t = Append(g, x) /\ k = Len(g) /\ Len(t) = k + 1 /\ t[k + 1] = x
        /\ \A i \in 1..k : t[i] = g[i]
  BY PieceAdded
<1>2. PICK n \in Nat : n = k + 1
  OBVIOUS
<1>3. Len(t) = n /\ t[n] = x /\ n # 0
  BY <1>1, <1>2, BeforeLast
<1>4. n # 1 => n - 1 \in 1..Len(g) /\ t[n - 1] = g[n - 1]
  BY <1>1, <1>2, BeforeLast
<1>5. BeginsIn(t, n) = BeginsIn(g, n)
  BY <1>4 DEF BeginsIn
<1>6. x.part \in {"head", "newline", "noise"} => EntryIn(t, n) = <<>> /\ ~ObjectIn(t, n)
  BY <1>3 DEF EntryIn, ParsesIn, ObjectIn
<1>s. ~SpoiledIn(t, n)
  BY <1>3 DEF SpoiledIn
<1>7. x.part = "all" /\ BeginsIn(g, n) => EntryIn(t, n) = Log!entry(x.line)
  BY <1>3, <1>5, <1>s DEF EntryIn, ParsesIn, ObjectIn
<1>8. ASSUME x.part = "tail", Len(g) # 0, g[Len(g)].part = "head", BeginsIn(g, Len(g))
      PROVE  EntryIn(t, n) = Log!entry(x.line)
  <2>1. n > 1 /\ n - 1 = Len(g) /\ t[n - 1] = g[Len(g)]
    BY <1>1, <1>2, <1>8, BeforeLast
  <2>2. Len(g) # 1 => Len(g) - 1 \in 1..Len(g) /\ t[Len(g) - 1] = g[Len(g) - 1]
    BY <1>1, <1>8, BeforeLast
  <2>3. BeginsIn(t, n - 1)
    BY <1>8, <2>1, <2>2 DEF BeginsIn
  <2> QED
    BY <1>3, <1>8, <1>s, <2>1, <2>3 DEF EntryIn, ParsesIn, ObjectIn
<1>9. Tells(g, x, t, n)
  BY <1>3, <1>5, <1>6, <1>7, <1>8 DEF Tells
<1> QED
  BY <1>1, <1>2, <1>9

\* A line goes from what is to be written to the log.
LEMMA LineGoes ==
  ASSUME LogTypes, Len(todo) # 0, Whole, ~torn, NEW x \in LogPiece, Keeps(file, x),
         EntryIn(Append(file, x), Len(file) + 1) = Log!entry(Head(todo))
  PROVE  SummaryOf(Append(file, x)) \o Told(Tail(todo)) = Did(engine, done)
<1>1. file \in Seq(LogPiece) /\ todo \in Seq(LogLine)
  BY DEF LogTypes
<1>2. Told(todo) = Log!entry(Head(todo)) \o Told(Tail(todo)) /\ Told(Tail(todo)) \in Seq(Words)
  BY <1>1, ToldFirst
<1>3. /\ SummaryOf(file) \in Seq(Words)
      /\ SummaryOf(Append(file, x)) = SummaryOf(file) \o Log!entry(Head(todo))
  BY <1>1, SummaryAppend
<1>4. PICK a \in Seq(Words), b \in Seq(Words), c \in Seq(Words) :
        a = SummaryOf(file) /\ b = Log!entry(Head(todo)) /\ c = Told(Tail(todo))
  BY <1>2, <1>3, EntryType
<1>5. (a \o b) \o c = a \o (b \o c)
  BY Zenon, WordsAssociate
<1>6. SummaryOf(file) \o Told(todo) = Did(engine, done)
  BY DEF Whole
<1>7. SummaryOf(file) \o Told(todo) = a \o (b \o c)
  BY <1>2, <1>4
<1>8. SummaryOf(Append(file, x)) \o Told(Tail(todo)) = (a \o b) \o c
  BY <1>3, <1>4
<1> QED
  BY <1>5, <1>6, <1>7, <1>8

\* A piece that tells nothing.
LEMMA NothingTold ==
  ASSUME LogTypes, NEW x \in LogPiece, Keeps(file, x),
         EntryIn(Append(file, x), Len(file) + 1) = <<>>
  PROVE  SummaryOf(Append(file, x)) = SummaryOf(file)
<1>1. file \in Seq(LogPiece)
  BY DEF LogTypes
<1>2. /\ SummaryOf(file) \in Seq(Words)
      /\ SummaryOf(Append(file, x)) = SummaryOf(file) \o <<>>
  BY <1>1, SummaryAppend
<1> QED
  BY <1>2, ConcatEmptySeq

LEMMA TodoShortens ==
  ASSUME LogTypes, Len(todo) # 0
  PROVE  Tail(todo) \in Seq(LogLine) /\ Head(todo) \in LogLine
<1>1. todo \in Seq(LogLine) /\ todo # <<>>
  BY DEF LogTypes
<1> QED
  BY <1>1, HeadTailProperties

LEMMA LogRun ==
  ASSUME Log!LogAssumption, LogInv, Log!Run
  PROVE  LogInv'
<1>1. MaxRuns \in Nat /\ MaxNoise \in Nat /\ MaxSteps \in Nat
  BY DEF Log!LogAssumption
<1>2. PICK w \in Log!BoundedSeq(Log!Work, MaxSteps) :
        /\ done' = w
        /\ todo' = Log!FlattenSeq([i \in DOMAIN w |-> Log!Lines(engine, w[i])])
  BY DEF Log!Run
<1>3. w \in Seq(Log!Work) /\ engine \in Log!Engine
  BY <1>1, BoundedIsSeq DEF LogInv, LogTypes
<1>4. todo' \in Seq(LogLine) /\ Told(todo') = Did(engine, done')
  BY <1>2, <1>3, RunIsTold
<1>5. /\ run' = run + 1 /\ run \in 0..MaxRuns /\ run < MaxRuns /\ file' = <<>> /\ noise' = 0 /\ torn' = FALSE
      /\ UNCHANGED <<engine, cut, known, asked, logAnswer>> /\ cut = "nothing"
  <2>1. Len(todo) = 0 /\ cut = "nothing"
    BY DEF Log!Run, Log!Over
  <2> QED
    BY <2>1 DEF Log!Run, Log!httpVars, LogInv, LogTypes
<1>6. LogTypes'
  <2>1. <<>> \in Seq(LogPiece) /\ run' \in 0..MaxRuns /\ noise' \in 0..MaxNoise
    BY <1>1, <1>5
  <2> QED
    BY <1>2, <1>3, <1>4, <1>5, <2>1 DEF LogInv, LogTypes
<1>7. LogAnswered'
  <2>1. \A i \in 0..run : i \in 0..run'
    BY <1>5
  <2> QED
    BY <1>5, <2>1 DEF LogInv, LogAnswered
<1>8. Whole'
  <2>1. SummaryOf(<<>>) = <<>> /\ Told(todo') \in Seq(Words)
    BY <1>4, EmptyTold, DidAppend, ToldAppend
  <2>2. SummaryOf(file') \o Told(todo') = Told(todo')
    BY <1>5, <2>1, ConcatEmptySeq
  <2> QED
    BY <1>4, <1>5, <2>2 DEF Whole
<1>9. Earlier'
  <2>1. logAnswer'.run # run'
    BY <1>5 DEF LogInv, LogAnswered
  <2> QED
    BY <2>1 DEF Earlier
<1>10. Pending'
  <2>1. Len(file') = 0
    BY <1>5
  <2> QED
    BY <2>1 DEF Pending
<1> QED
  BY <1>6, <1>7, <1>8, <1>9, <1>10 DEF LogInv

LEMMA LogCopyStdout ==
  ASSUME Log!LogAssumption, LogInv, Log!CopyStdout
  PROVE  LogInv'
<1>1. /\ UNCHANGED <<run, engine, noise, done, known, asked, logAnswer>>
      /\ LogTypes /\ LogAnswered /\ Whole /\ Pending /\ Earlier
      /\ cut # "newline" => Len(todo) # 0
  <2>1. todo \in Seq(LogLine) /\ (cut = "object" => Len(todo) # 0)
    BY DEF LogInv, LogTypes
  <2>2. cut \in {"nothing", "object", "newline"} /\ (cut = "nothing" => todo # <<>>)
    BY DEF Log!CopyStdout, LogInv, LogTypes
  <2>3. cut # "newline" => Len(todo) # 0
    BY <2>1, <2>2, EmptySeq
  <2> QED
    BY <2>3 DEF Log!CopyStdout, Log!httpVars, LogInv
<1>2. cut # "newline" => Tail(todo) \in Seq(LogLine) /\ Head(todo) \in LogLine
  BY <1>1, TodoShortens
<1>3. /\ \A part \in {"all", "tail", "head"}, ends \in BOOLEAN : cut # "newline" =>
           [part |-> part, line |-> Head(todo), ends |-> ends] \in LogPiece
      /\ [part |-> "newline", line |-> Log!ErrorLine, ends |-> TRUE] \in LogPiece
  BY <1>2 DEF LogPiece, LogLine, Log!ErrorLine
<1>4. PICK x \in LogPiece :
        /\ file' = Append(file, x)
        /\ \/ /\ x.part \in {"all", "tail"} /\ x.line = Head(todo) /\ todo' = Tail(todo)
              /\ cut' = (IF x.ends THEN "nothing" ELSE "newline")
              /\ \/ /\ x.part = "all" /\ cut = "nothing"
                    /\ torn' = (torn \/ ~BeginsIn(file, Len(file) + 1))
                 \/ x.part = "tail" /\ cut = "object" /\ torn' = torn
           \/ /\ x.part = "head" /\ cut = "nothing" /\ cut' = "object" /\ todo' = todo
              /\ torn' = (torn \/ ~BeginsIn(file, Len(file) + 1))
           \/ /\ x.part = "newline" /\ cut = "newline" /\ cut' = "nothing" /\ todo' = todo
              /\ torn' = torn
  <2>1. Log!Begins(Len(file) + 1) = BeginsIn(file, Len(file) + 1)
    BY DEF Log!Begins, BeginsIn
  <2>2. CASE /\ cut = "nothing" /\ Log!CopyObject("all")
             /\ torn' = (torn \/ ~BeginsIn(file, Len(file) + 1))
    BY <1>3, <2>2 DEF Log!CopyObject, Log!Copy
  <2>3. CASE /\ cut = "nothing" /\ Log!Copy("head", Head(todo), FALSE)
             /\ cut' = "object" /\ todo' = todo
             /\ torn' = (torn \/ ~BeginsIn(file, Len(file) + 1))
    BY <1>3, <2>3 DEF Log!Copy
  <2>4. CASE cut = "object" /\ Log!CopyObject("tail") /\ torn' = torn
    BY <1>3, <2>4 DEF Log!CopyObject, Log!Copy
  <2>5. CASE /\ cut = "newline" /\ Log!Copy("newline", Log!ErrorLine, TRUE)
             /\ cut' = "nothing" /\ todo' = todo /\ torn' = torn
    BY <1>3, <2>5 DEF Log!Copy
  <2> QED
    BY <2>1, <2>2, <2>3, <2>4, <2>5 DEF Log!CopyStdout
<1>5. file \in Seq(LogPiece)
  BY <1>1 DEF LogTypes
<1>k. Keeps(file, x)
  BY <1>1, <1>4 DEF Pending, Keeps
<1> DEFINE n == Len(file) + 1
<1>6. /\ file' \in Seq(LogPiece) /\ Len(file') = n /\ file'[n] = x /\ n # 0
      /\ BeginsIn(file', n) = BeginsIn(file, n)
      /\ x.part \in {"head", "newline", "noise"} => EntryIn(file', n) = <<>> /\ ~ObjectIn(file', n)
      /\ x.part = "all" /\ BeginsIn(file, n) => EntryIn(file', n) = Log!entry(x.line)
      /\ x.part = "tail" /\ Len(file) # 0 /\ file[Len(file)].part = "head" /\ BeginsIn(file, Len(file))
           => EntryIn(file', n) = Log!entry(x.line)
  <2>1. Tells(file, x, Append(file, x), n)
    BY <1>5, NewPiece
  <2>2. Tells(file, x, file', n)
    BY <1>4, <2>1
  <2> HIDE DEF n
  <2> QED
    BY <2>2 DEF Tells
<1>7. LogTypes'
  <2>1. todo \in Seq(LogLine) /\ torn \in BOOLEAN
    BY <1>1 DEF LogTypes
  <2>2. todo' \in Seq(LogLine) /\ (cut' = "object" => Len(todo') # 0)
    BY <1>1, <1>2, <1>4, <2>1
  <2>3. cut' \in {"nothing", "object", "newline"}
    BY <1>4
  <2>4. torn' \in BOOLEAN
    <3>1. torn' = torn \/ torn' = (torn \/ ~BeginsIn(file, Len(file) + 1))
      BY <1>4
    <3> QED
      BY <2>1, <3>1, Zenon
  <2> QED
    BY <1>1, <1>6, <2>2, <2>3, <2>4 DEF LogTypes
<1>8. LogAnswered'
  BY <1>1 DEF LogAnswered
<1>9. Earlier'
  BY <1>1, <1>4, StillEarlier
<1>10. Whole'
  <2> SUFFICES ASSUME ~torn'
               PROVE  /\ SummaryOf(file') \o Told(todo') = Did(engine, done)
                      /\ cut' = "object" => Len(file') # 0 /\ file'[Len(file')].part = "head"
                                            /\ BeginsIn(file', Len(file'))
    BY <1>1 DEF Whole
  <2>1. ~torn
    BY <1>4
  <2>2. /\ SummaryOf(file) \o Told(todo) = Did(engine, done)
        /\ cut = "object" => Len(file) # 0 /\ file[Len(file)].part = "head" /\ BeginsIn(file, Len(file))
    BY <1>1, <2>1 DEF Whole
  <2>3. CASE x.part \in {"head", "newline"}
    <3>1. todo' = todo /\ (cut' = "object" => x.part = "head" /\ BeginsIn(file, n))
      BY <1>4, <2>3
    <3>2. SummaryOf(Append(file, x)) = SummaryOf(file)
      BY <1>1, <1>4, <1>6, <1>k, <2>3, NothingTold
    <3> HIDE DEF n
    <3>3. cut' = "object" =>
            Len(file') # 0 /\ file'[Len(file')].part = "head" /\ BeginsIn(file', Len(file'))
      BY <1>6, <3>1
    <3> QED
      BY <1>4, <2>2, <3>1, <3>2, <3>3
  <2>4. CASE x.part \in {"all", "tail"}
    <3>1. /\ cut' # "object" /\ todo' = Tail(todo) /\ x.line = Head(todo) /\ cut # "newline"
          /\ x.part = "all" => BeginsIn(file, n)
          /\ x.part = "tail" => cut = "object"
      BY <1>4, <2>4
    <3>2. EntryIn(Append(file, x), Len(file) + 1) = Log!entry(Head(todo))
      BY <1>4, <1>6, <2>2, <2>4, <3>1
    <3>3. SummaryOf(Append(file, x)) \o Told(Tail(todo)) = Did(engine, done)
      BY <1>1, <1>k, <2>1, <3>1, <3>2, LineGoes
    <3> QED
      BY <1>4, <3>1, <3>3
  <2> QED
    BY <1>4, <2>3, <2>4
<1>11. Pending'
  <2>1. file'[Len(file')] = x /\ (x.part \in {"head", "newline"} => ~ObjectIn(file', Len(file')))
    <3> HIDE DEF n
    <3> QED
      BY <1>6
  <2>2. x.part \in {"head", "newline"} \/ cut' = (IF x.ends THEN "nothing" ELSE "newline")
    BY <1>4
  <2> QED
    BY <2>1, <2>2 DEF Pending
<1> QED
  BY <1>7, <1>8, <1>9, <1>10, <1>11 DEF LogInv

LEMMA LogCopyStderr ==
  ASSUME Log!LogAssumption, LogInv, Log!CopyStderr
  PROVE  LogInv'
<1>1. /\ UNCHANGED <<run, engine, todo, cut, done, known, asked, logAnswer>>
      /\ LogTypes /\ LogAnswered /\ Whole /\ Pending /\ Earlier
      /\ noise < MaxNoise /\ noise' = noise + 1 /\ torn' = (torn \/ cut # "nothing") /\ MaxNoise \in Nat
  BY DEF Log!CopyStderr, Log!httpVars, LogInv, Log!LogAssumption
<1>2. PICK ends \in BOOLEAN :
        file' = Append(file, [part |-> "noise", line |-> Log!ErrorLine, ends |-> ends])
  BY DEF Log!CopyStderr, Log!Copy
<1>3. PICK x \in LogPiece : file' = Append(file, x) /\ x.part = "noise"
  <2>1. Log!ErrorLine \in LogLine
    BY DEF Log!ErrorLine, LogLine
  <2> QED
    BY <1>2, <2>1 DEF LogPiece
<1>4. file \in Seq(LogPiece)
  BY <1>1 DEF LogTypes
<1>5. /\ file' \in Seq(LogPiece) /\ EntryIn(Append(file, x), Len(file) + 1) = <<>>
      /\ ~ObjectIn(file', Len(file'))
  <2>1. Tells(file, x, Append(file, x), Len(file) + 1)
    BY <1>4, NewPiece
  <2> QED
    BY <1>3, <2>1 DEF Tells
<1>6. LogTypes'
  <2>1. noise' \in 0..MaxNoise
    BY <1>1 DEF LogTypes
  <2>2. torn' \in BOOLEAN
    BY <1>1, Zenon DEF LogTypes
  <2> QED
    BY <1>1, <1>5, <2>1, <2>2 DEF LogTypes
<1>7. LogAnswered'
  BY <1>1 DEF LogAnswered
<1>8. Earlier'
  BY <1>1, <1>3, StillEarlier
<1>9. Whole'
  <2> SUFFICES ASSUME ~torn' PROVE Whole'
    BY DEF Whole
  <2>1. ~torn /\ cut = "nothing" /\ cut' = "nothing"
    BY <1>1
  <2>2. Keeps(file, x)
    BY <1>1, <2>1 DEF Pending, Keeps
  <2>3. SummaryOf(file') = SummaryOf(file)
    BY <1>1, <1>3, <1>5, <2>2, NothingTold
  <2> QED
    BY <1>1, <2>1, <2>3 DEF Whole
<1>10. Pending'
  BY <1>5 DEF Pending
<1> QED
  BY <1>6, <1>7, <1>8, <1>9, <1>10 DEF LogInv

LEMMA LogRequests ==
  ASSUME Log!LogAssumption, LogInv, Log!Reload \/ Log!LookUp \/ Log!ReadLog \/ UNCHANGED Log!vars
  PROVE  LogInv'
<1>1. /\ UNCHANGED <<run, engine, todo, cut, noise, file, done, torn>>
      /\ LogTypes /\ LogAnswered /\ Whole /\ Pending /\ Earlier
      /\ known' \in BOOLEAN /\ asked' \in BOOLEAN
  BY DEF Log!Reload, Log!LookUp, Log!ReadLog, Log!vars, Log!logVars, Log!httpVars, LogInv, LogTypes
<1>2. LogTypes' /\ Whole' /\ Pending'
  BY <1>1 DEF LogTypes, Whole, Pending
<1>3. CASE logAnswer' = logAnswer
  BY <1>1, <1>2, <1>3 DEF LogInv, LogAnswered, Earlier
<1>4. CASE logAnswer' = [code |-> 404, run |-> run, data |-> <<>>]
           \/ logAnswer' = [code |-> 404, run |-> 0, data |-> <<>>]
  <2>1. <<>> \in Seq(Words) /\ Len(<<>>) = 0 /\ 0 \in 0..run /\ run \in 0..run /\ MaxTail \in Nat
    BY <1>1 DEF LogTypes, Log!LogAssumption
  <2>2. logAnswer'.code = 404 /\ logAnswer'.run \in {run, 0} /\ logAnswer'.data = <<>>
    BY <1>4
  <2>3. LogAnswered'
    BY <1>1, <2>1, <2>2 DEF LogAnswered
  <2>4. Earlier'
    BY <2>2 DEF Earlier
  <2> QED
    BY <1>2, <2>3, <2>4 DEF LogInv
<1>5. CASE logAnswer' = [code |-> 200, run |-> run, data |-> Log!summary]
  <2>1. /\ Log!summary = Log!Tail16K(SummaryOf(file)) /\ SummaryOf(file) \in Seq(Words)
        /\ MaxTail \in Nat
    <3>1. file \in Seq(LogPiece)
      BY <1>1 DEF LogTypes
    <3> QED
      BY <3>1, SummaryIsThat, SummaryType DEF Log!summary, Log!LogAssumption
  <2>2. Log!summary \in Seq(Words) /\ Len(Log!summary) <= MaxTail
    BY <2>1, TailLength
  <2>3. logAnswer'.code = 200 /\ logAnswer'.run = run /\ logAnswer'.data = Log!summary /\ run \in 0..run
    BY <1>1, <1>5 DEF LogTypes
  <2>4. LogAnswered'
    BY <1>1, <2>2, <2>3 DEF LogAnswered
  <2>5. Earlier'
    <3>1. PICK a \in Seq(Words), b \in Seq(Words) : a = SummaryOf(file) /\ b = <<>>
      <4>1. <<>> \in Seq(Words)
        OBVIOUS
      <4> QED
        BY <2>1, <4>1
    <3>2. SummaryOf(file) = a \o b /\ logAnswer'.data = Log!Tail16K(a)
      <4>1. a \o <<>> = a
        BY ConcatEmptySeq
      <4> QED
        BY <2>1, <2>3, <3>1, <4>1
    <3>3. SummaryOf(file') = a \o b /\ logAnswer'.data = Log!Tail16K(a)
      BY <1>1, <3>2
    <3>4. IsFirst(Log!Tail16K(a), file')
      BY <3>3, FirstOf
    <3> QED
      BY <3>3, <3>4 DEF Earlier
  <2> QED
    BY <1>2, <2>4, <2>5 DEF LogInv
<1> QED
  BY <1>3, <1>4, <1>5 DEF Log!Reload, Log!LookUp, Log!ReadLog, Log!vars, Log!httpVars

\* A step of the run, its output, or a request.
LEMMA LogStep ==
  ASSUME Log!LogAssumption, LogInv, [Log!Next]_(Log!vars)
  PROVE  LogInv'
BY LogRun, LogCopyStdout, LogCopyStderr, LogRequests DEF Log!Next

\* Types, and no answer is longer than the limit of the summary (observer.go:263-270).
LEMMA LogHasTypes ==
  ASSUME Log!LogAssumption, LogInv
  PROVE  Log!TypeOK
<1>1. cut = "object" => todo # <<>>
  BY DEF LogInv, LogTypes
<1>2. \A i \in DOMAIN file : file[i].ends \in BOOLEAN
  <2>1. file \in Seq(LogPiece)
    BY DEF LogInv, LogTypes
  <2>2. \A i \in DOMAIN file : file[i] \in LogPiece
    BY <2>1, Elements
  <2> QED
    BY <2>2 DEF LogPiece
<1> QED
  BY <1>1, <1>2 DEF LogInv, LogTypes, LogAnswered, Log!TypeOK

\* The log of a run that is over tells what it did.
LEMMA LogIsWhole ==
  ASSUME Log!LogAssumption, LogInv
  PROVE  Log!SummaryIsComplete
<1> SUFFICES ASSUME todo = <<>>, ~torn
             PROVE  Log!filterNDJSON = Did(engine, done)
  BY DEF Log!SummaryIsComplete, Log!Over, Did
<1>1. SummaryOf(file) \o <<>> = Did(engine, done)
  BY EmptyTold DEF LogInv, Whole
<1>2. SummaryOf(file) \in Seq(Words)
  <2>1. file \in Seq(LogPiece)
    BY DEF LogInv, LogTypes
  <2> QED
    BY <2>1, SummaryType
<1> QED
  BY <1>1, <1>2, ConcatEmptySeq, SummaryIsThat

\* What a reader has been told stays at the front of what he is told next.
LEMMA LogGrows ==
  ASSUME Log!LogAssumption, LogInv, Log!Next, logAnswer.code = 200, logAnswer'.code = 200,
         logAnswer.run = logAnswer'.run, Len(logAnswer'.data) < MaxTail,
         ~\E i \in DOMAIN file : Log!Spoiled(i)
  PROVE  Log!IsPrefix(logAnswer.data, logAnswer'.data)
<1>0. ASSUME NEW a \in Seq(Words), NEW b \in Seq(Words)
      PROVE  Log!IsPrefix(a, a \o b)
  BY DEF Log!IsPrefix
<1>1. logAnswer.data \in Seq(Words) /\ MaxTail \in Nat /\ file \in Seq(LogPiece)
  BY DEF LogInv, LogAnswered, LogTypes, Log!LogAssumption
<1>2. CASE logAnswer' = logAnswer
  <2>1. logAnswer.data \o <<>> = logAnswer.data /\ <<>> \in Seq(Words)
    BY <1>1, ConcatEmptySeq
  <2>2. Log!IsPrefix(logAnswer.data, logAnswer.data \o <<>>)
    BY <1>0, <1>1, <2>1
  <2> QED
    BY <1>2, <2>1, <2>2
<1>3. CASE logAnswer' = [code |-> 200, run |-> run, data |-> Log!summary]
  <2>1. SummaryOf(file) \in Seq(Words)
    BY <1>1, SummaryType
  <2>2. logAnswer'.data = Log!Tail16K(SummaryOf(file)) /\ logAnswer.run = run
    BY <1>3, SummaryIsThat DEF Log!summary
  <2>3. Len(SummaryOf(file)) < MaxTail
    BY <1>1, <2>1, <2>2, TailLength
  <2>4. logAnswer'.data = SummaryOf(file)
    BY <1>1, <2>1, <2>2, <2>3, TailLength
  <2>5. PICK a \in Seq(Words), b \in Seq(Words) :
          SummaryOf(file) = a \o b /\ logAnswer.data = Log!Tail16K(a)
    <3>1. \A i : Log!Spoiled(i) = SpoiledIn(file, i)
      BY DEF Log!Spoiled, Log!Object, Log!Begins, SpoiledIn, ObjectIn, BeginsIn
    <3>2. ~SomeSpoiled(file)
      BY <3>1 DEF SomeSpoiled
    <3> QED
      BY <2>2, <3>2 DEF LogInv, Earlier, IsFirst
  <2>6. Len(a) <= MaxTail
    BY <1>1, <2>3, <2>5
  <2>7. logAnswer.data = a
    BY <1>1, <2>5, <2>6, TailLength
  <2> QED
    BY <1>0, <2>4, <2>5, <2>7
<1>4. \/ logAnswer' = logAnswer
      \/ logAnswer' = [code |-> 200, run |-> run, data |-> Log!summary]
  <2>1. CASE Log!ReadLog
    BY <2>1 DEF Log!ReadLog
  <2>2. CASE Log!LookUp
    BY <2>2 DEF Log!LookUp
  <2>3. CASE Log!Run \/ Log!CopyStdout \/ Log!CopyStderr \/ Log!Reload
    BY <2>3 DEF Log!Run, Log!CopyStdout, Log!CopyStderr, Log!Reload, Log!httpVars
  <2> QED
    BY <2>1, <2>2, <2>3 DEF Log!Next
<1> QED
  BY <1>2, <1>3, <1>4


--------------------------------------------------------------------------------
(* The lists *)

\* ObserverLists has the same sets of finite size as this module.
LEMMA SameCardinals ==
  \A S : (Lists!IsFiniteSet(S) <=> IsFiniteSet(S)) /\ Lists!Cardinality(S) = Cardinality(S)
BY DEF Lists!IsFiniteSet, IsFiniteSet, Lists!Cardinality, Cardinality

LEMMA ListsNumbers ==
  ASSUME Lists!ListsAssumption
  PROVE  /\ MaxInt \in Nat /\ IsFiniteSet(Row)
         /\ Cardinality(Row) \in Nat /\ Cardinality(Row) <= MaxInt
<1>1. MaxInt \in Nat /\ Lists!IsFiniteSet(Row) /\ Lists!Cardinality(Row) <= MaxInt
  BY DEF Lists!ListsAssumption
<1>2. IsFiniteSet(Row) /\ Cardinality(Row) <= MaxInt
  BY <1>1, SameCardinals
<1> QED
  BY <1>1, <1>2, FS_CardinalityType

LEMMA LeastOfTwo ==
  ASSUME NEW a \in Int, NEW b \in Int
  PROVE  LET m == Lists!Min({a, b}) IN m \in {a, b} /\ m <= a /\ m <= b
<1>1. \E x \in {a, b} : \A y \in {a, b} : x =< y
  OBVIOUS
<1> QED
  BY <1>1 DEF Lists!Min

\* Division and multiplication.
LEMMA Division ==
  ASSUME NEW n \in Nat, NEW k \in Nat, k # 0
  PROVE  /\ n \div k \in Nat /\ n % k \in 0..(k - 1)
         /\ n = k * (n \div k) + (n % k)
OBVIOUS

LEMMA SmallRemainder ==
  ASSUME NEW n \in Nat, NEW k \in Nat, n < k
  PROVE  n % k = n
<1> DEFINE q == n \div k
    r == n % k
<1>1. q \in Nat /\ r \in 0..(k - 1) /\ n = k * q + r
  <2>1. k # 0
    OBVIOUS
  <2> QED
    BY <2>1, Division
<1> HIDE DEF q, r
<1>2. q = 0
  <2> SUFFICES ASSUME q >= 1 PROVE FALSE
    BY <1>1
  <2>1. k * q >= k
    BY <1>1
  <2> QED
    BY <1>1, <2>1
<1>3. n = r
  BY <1>1, <1>2
<1> QED
  BY <1>3 DEF r

LEMMA WrapOfSmall ==
  ASSUME MaxInt \in Nat, NEW n \in Nat, n <= MaxInt
  PROVE  Lists!Wrap(n) = n
<1>1. n + MaxInt + 1 \in Nat /\ 2 * MaxInt + 2 \in Nat /\ n + MaxInt + 1 < 2 * MaxInt + 2
  OBVIOUS
<1>2. (n + MaxInt + 1) % (2 * MaxInt + 2) = n + MaxInt + 1
  BY <1>1, SmallRemainder
<1> QED
  BY <1>2 DEF Lists!Wrap

LEMMA WrapType ==
  ASSUME MaxInt \in Nat, NEW n \in Nat
  PROVE  Lists!Wrap(n) \in (-MaxInt - 1)..MaxInt
<1>1. n + MaxInt + 1 \in Nat /\ 2 * MaxInt + 2 \in Nat /\ 2 * MaxInt + 2 # 0
  OBVIOUS
<1>2. (n + MaxInt + 1) % (2 * MaxInt + 2) \in 0..(2 * MaxInt + 2) - 1
  BY <1>1, Division
<1> QED
  BY <1>2 DEF Lists!Wrap

LEMMA ProductOrder ==
  ASSUME NEW a \in Nat, NEW b \in Nat, NEW k \in Nat, a <= b
  PROVE  a * k \in Nat /\ b * k \in Nat /\ a * k <= b * k
OBVIOUS

\* All pages together have room for all rows.
LEMMA PagesHoldAll ==
  ASSUME NEW total \in Nat, NEW k \in Nat, k # 0
  PROVE  /\ Lists!Pages(total, k) \in Nat \ {0}
         /\ total <= Lists!Pages(total, k) * k
<1> DEFINE n == total + k - 1
    q == n \div k
    r == n % k
<1>1. n \in Nat
  OBVIOUS
<1>2. q \in Nat /\ r \in 0..(k - 1) /\ n = k * q + r
  <2> HIDE DEF n
  <2> QED
    BY <1>1, Division
<1>3. Lists!Pages(total, k) = IF q < 1 THEN 1 ELSE q
  BY DEF Lists!Pages
<1>4. total = (k * q + r) - (k - 1)
  BY <1>2
<1> HIDE DEF n, q, r
<1>5. k * q \in Nat /\ total <= k * q
  BY <1>2, <1>4
<1>6. CASE q < 1
  <2>1. q = 0
    BY <1>2, <1>6
  <2>2. k * q = 0
    BY <2>1
  <2> QED
    BY <1>3, <1>5, <1>6, <2>2
<1>7. CASE ~(q < 1)
  BY <1>2, <1>3, <1>5, <1>7
<1> QED
  BY <1>6, <1>7

\* The rows of a table are distinct, so there are no more than Row has.
LEMMA DistinctRows ==
  ASSUME IsFiniteSet(Row), NEW s \in Seq(Row), Lists!IsInjective(s)
  PROVE  Len(s) <= Cardinality(Row)
<1>1. Len(s) \in Nat /\ DOMAIN s = 1..Len(s) /\ s \in [1..Len(s) -> Row]
  BY Elements
<1>2. \A a, b \in 1..Len(s) : s[a] = s[b] => a = b
  BY <1>1 DEF Lists!IsInjective
<1>3. s \in Injection(1..Len(s), Row)
  BY <1>1, <1>2, Fun_IsInj
<1>4. Cardinality(1..Len(s)) <= Cardinality(Row)
  BY <1>3, FS_Injection
<1>5. Cardinality(1..Len(s)) = Len(s)
  BY <1>1, FS_Interval
<1> QED
  BY <1>4, <1>5

\* A sequence has no more elements than its length.
LEMMA FewElements ==
  ASSUME NEW T, NEW s \in Seq(T)
  PROVE  /\ IsFiniteSet(Lists!Range(s)) /\ Cardinality(Lists!Range(s)) <= Len(s)
         /\ Lists!Range(s) \subseteq T
<1>1. Len(s) \in Nat /\ DOMAIN s = 1..Len(s) /\ s \in [1..Len(s) -> T]
  BY Elements
<1>2. s \in [1..Len(s) -> Lists!Range(s)]
  BY <1>1 DEF Lists!Range
<1>3. \A x \in Lists!Range(s) : \E i \in 1..Len(s) : s[i] = x
  BY <1>1 DEF Lists!Range
<1>4. s \in Surjection(1..Len(s), Lists!Range(s))
  BY <1>2, <1>3, Fun_IsSurj
<1>5. IsFiniteSet(1..Len(s)) /\ Cardinality(1..Len(s)) = Len(s)
  BY <1>1, FS_Interval
<1>6. IsFiniteSet(Lists!Range(s)) /\ Cardinality(Lists!Range(s)) <= Cardinality(1..Len(s))
  BY <1>4, <1>5, FS_Surjection
<1> QED
  BY <1>1, <1>5, <1>6 DEF Lists!Range

LEMMA Inserted ==
  ASSUME NEW s \in Seq(Row), NEW i \in 1..Len(s) + 1, NEW r \in Row
  PROVE  LET t == Lists!InsertAt(s, i, r) IN
         /\ t \in Seq(Row) /\ Len(t) = Len(s) + 1
         /\ \A j \in 1..Len(t) : t[j] = IF j < i THEN s[j] ELSE IF j = i THEN r ELSE s[j - 1]
<1> DEFINE a == SubSeq(s, 1, i - 1)
    b == SubSeq(s, i, Len(s))
    c == a \o <<r>>
    t == c \o b
<1>0. Len(s) \in Nat /\ i \in Nat /\ i >= 1 /\ i <= Len(s) + 1 /\ \A j \in 1..Len(s) : s[j] \in Row
  BY Elements
<1>1. a \in Seq(Row) /\ Len(a) = i - 1 /\ \A j \in 1..i - 1 : a[j] = s[j]
  <2>1. \A j \in 1..i - 1 : s[j] \in Row /\ 1 + j - 1 = j
    BY <1>0
  <2>2. /\ a \in Seq(Row) /\ Len(a) = IF 1 <= i - 1 THEN (i - 1) - 1 + 1 ELSE 0
        /\ \A j \in 1..(i - 1) - 1 + 1 : a[j] = s[1 + j - 1]
    BY <1>0, <2>1, SubSeqProperties
  <2> HIDE DEF a
  <2>3. (i - 1) - 1 + 1 = i - 1 /\ (~(1 <= i - 1) => i - 1 = 0)
    BY <1>0
  <2>4. Len(a) = i - 1
    BY <2>2, <2>3
  <2>5. \A j \in 1..i - 1 : a[j] = s[j]
    BY <2>1, <2>2, <2>3
  <2> QED
    BY <2>2, <2>4, <2>5
<1>2. b \in Seq(Row) /\ Len(b) = Len(s) - i + 1 /\ \A j \in 1..Len(s) - i + 1 : b[j] = s[i + j - 1]
  <2>1. \A j \in i..Len(s) : s[j] \in Row
    BY <1>0
  <2>2. /\ b \in Seq(Row) /\ Len(b) = IF i <= Len(s) THEN Len(s) - i + 1 ELSE 0
        /\ \A j \in 1..Len(s) - i + 1 : b[j] = s[i + j - 1]
    BY <1>0, <2>1, SubSeqProperties
  <2> HIDE DEF b
  <2>3. Len(b) = Len(s) - i + 1
    BY <1>0, <2>2
  <2> QED
    BY <2>2, <2>3
<1> HIDE DEF a, b
<1>3. c \in Seq(Row) /\ Len(c) = i /\ \A j \in 1..i : c[j] = IF j <= i - 1 THEN s[j] ELSE r
  <2>1. <<r>> \in Seq(Row) /\ Len(<<r>>) = 1 /\ <<r>>[1] = r
    OBVIOUS
  <2>2. /\ c \in Seq(Row) /\ Len(c) = Len(a) + 1
        /\ \A j \in 1..Len(a) + 1 : c[j] = IF j <= Len(a) THEN a[j] ELSE <<r>>[j - Len(a)]
    BY <1>1, <2>1, ConcatProperties
  <2>3. Len(a) + 1 = i /\ \A j \in 1..i : j <= i - 1 => j \in 1..i - 1
    BY <1>0, <1>1
  <2>4. \A j \in 1..i : ~(j <= i - 1) => j - Len(a) = 1
    BY <1>0, <1>1
  <2> HIDE DEF c
  <2> QED
    BY <1>1, <2>1, <2>2, <2>3, <2>4
<1> HIDE DEF c
<1>4. /\ t \in Seq(Row) /\ Len(t) = Len(s) + 1
      /\ \A j \in 1..Len(t) : t[j] = IF j <= i THEN c[j] ELSE b[j - i]
  <2>1. /\ t \in Seq(Row) /\ Len(t) = Len(c) + Len(b)
        /\ \A j \in 1..Len(c) + Len(b) : t[j] = IF j <= Len(c) THEN c[j] ELSE b[j - Len(c)]
    BY <1>2, <1>3, ConcatProperties
  <2> HIDE DEF t
  <2> QED
    BY <1>0, <1>2, <1>3, <2>1
<1>5. t = Lists!InsertAt(s, i, r)
  BY DEF a, b, c, Lists!InsertAt
<1> HIDE DEF t
<1>6. ASSUME NEW j \in 1..Len(t)
      PROVE  t[j] = IF j < i THEN s[j] ELSE IF j = i THEN r ELSE s[j - 1]
  <2>1. CASE j < i
    <3>1. j \in 1..i /\ j <= i - 1 /\ j <= i
      BY <1>0, <2>1
    <3> QED
      BY <1>3, <1>4, <2>1, <3>1
  <2>2. CASE j = i
    <3>1. j \in 1..i /\ ~(j <= i - 1) /\ j <= i /\ ~(j < i)
      BY <1>0, <2>2
    <3> QED
      BY <1>3, <1>4, <2>2, <3>1
  <2>3. CASE j > i
    <3>1. j - i \in 1..Len(s) - i + 1 /\ ~(j <= i) /\ i + (j - i) - 1 = j - 1 /\ ~(j < i) /\ j # i
      BY <1>0, <1>4, <2>3
    <3> QED
      BY <1>2, <1>4, <3>1
  <2> QED
    BY <1>0, <2>1, <2>2, <2>3
<1> QED
  BY <1>4, <1>5, <1>6

LEMMA InsertedDistinct ==
  ASSUME NEW s \in Seq(Row), NEW i \in 1..Len(s) + 1, NEW r \in Row,
         Lists!IsInjective(s), r \notin Lists!Range(s)
  PROVE  LET t == Lists!InsertAt(s, i, r) IN
         Lists!IsInjective(t)
<1> DEFINE t == Lists!InsertAt(s, i, r)
    old(j) == IF j < i THEN j ELSE j - 1
<1>0. /\ Len(s) \in Nat /\ i \in Nat /\ i >= 1 /\ i <= Len(s) + 1
      /\ DOMAIN s = 1..Len(s)
  BY Elements
<1>1. /\ t \in Seq(Row) /\ Len(t) = Len(s) + 1
      /\ \A j \in 1..Len(t) : t[j] = IF j < i THEN s[j] ELSE IF j = i THEN r ELSE s[j - 1]
  BY Inserted
<1> HIDE DEF t
<1>2. DOMAIN t = 1..Len(t)
  BY <1>1, Elements
<1>3. \A j \in 1..Len(t) : j # i => old(j) \in 1..Len(s) /\ t[j] = s[old(j)]
  BY <1>0, <1>1
<1>4. \A j, k \in 1..Len(t) : j # i /\ k # i /\ old(j) = old(k) => j = k
  BY <1>0, <1>1
<1>5. t[i] = r /\ i \in 1..Len(t)
  BY <1>0, <1>1
<1>6. \A j \in 1..Len(s) : s[j] # r
  BY <1>0 DEF Lists!Range
<1> HIDE DEF old
<1>7. Lists!IsInjective(t)
  <2> SUFFICES ASSUME NEW j \in 1..Len(t), NEW k \in 1..Len(t), t[j] = t[k]
               PROVE  j = k
    BY <1>2 DEF Lists!IsInjective
  <2>1. CASE j = i
    BY <1>3, <1>5, <1>6, <2>1
  <2>2. CASE k = i
    BY <1>3, <1>5, <1>6, <2>2
  <2>3. CASE j # i /\ k # i
    BY <1>0, <1>3, <1>4, <2>3 DEF Lists!IsInjective
  <2> QED
    BY <2>1, <2>2, <2>3
<1> QED
  BY <1>7 DEF t

LEMMA NothingBehind ==
  ASSUME NEW n \in Nat, NEW i \in Nat, i <= n
  PROVE  ~(i + 1 <= n) => n - i = 0
OBVIOUS

LEMMA Removed ==
  ASSUME NEW s \in Seq(Row), NEW i \in 1..Len(s), Lists!IsInjective(s)
  PROVE  LET t == Lists!RemoveAt(s, i) IN
         t \in Seq(Row) /\ Len(t) = Len(s) - 1 /\ Lists!IsInjective(t) /\ s[i] \notin Lists!Range(t)
<1> DEFINE a == SubSeq(s, 1, i - 1)
    b == SubSeq(s, i + 1, Len(s))
    t == a \o b
    old(j) == IF j <= i - 1 THEN j ELSE j + 1
<1>0. /\ Len(s) \in Nat /\ i \in Nat /\ i >= 1 /\ i <= Len(s) /\ DOMAIN s = 1..Len(s)
      /\ \A j \in 1..Len(s) : s[j] \in Row
  BY Elements
<1>1. a \in Seq(Row) /\ Len(a) = i - 1 /\ \A j \in 1..i - 1 : a[j] = s[j]
  <2>1. \A j \in 1..i - 1 : s[j] \in Row /\ 1 + j - 1 = j
    BY <1>0
  <2>2. /\ a \in Seq(Row) /\ Len(a) = IF 1 <= i - 1 THEN (i - 1) - 1 + 1 ELSE 0
        /\ \A j \in 1..(i - 1) - 1 + 1 : a[j] = s[1 + j - 1]
    BY <1>0, <2>1, SubSeqProperties
  <2> HIDE DEF a
  <2>3. (i - 1) - 1 + 1 = i - 1 /\ (~(1 <= i - 1) => i - 1 = 0)
    BY <1>0
  <2>4. Len(a) = i - 1
    BY <2>2, <2>3
  <2>5. \A j \in 1..i - 1 : a[j] = s[j]
    BY <2>1, <2>2, <2>3
  <2> QED
    BY <2>2, <2>4, <2>5
<1>2. b \in Seq(Row) /\ Len(b) = Len(s) - i /\ \A j \in 1..Len(s) - i : b[j] = s[i + j]
  <2>1. \A j \in i + 1..Len(s) : s[j] \in Row
    BY <1>0
  <2>2. /\ b \in Seq(Row) /\ Len(b) = IF i + 1 <= Len(s) THEN Len(s) - (i + 1) + 1 ELSE 0
        /\ \A j \in 1..Len(s) - (i + 1) + 1 : b[j] = s[i + 1 + j - 1]
    BY <1>0, <2>1, SubSeqProperties
  <2> HIDE DEF b
  <2>3. Len(s) - (i + 1) + 1 = Len(s) - i /\ \A j \in 1..Len(s) - i : i + 1 + j - 1 = i + j
    BY <1>0
  <2>4. Len(b) = Len(s) - i
    <3>1. ~(i + 1 <= Len(s)) => Len(s) - i = 0
      BY <1>0, NothingBehind
    <3> QED
      BY <2>2, <2>3, <3>1
  <2>5. \A j \in 1..Len(s) - i : b[j] = s[i + j]
    BY <2>2, <2>3
  <2> QED
    BY <2>2, <2>4, <2>5
<1> HIDE DEF a, b
<1>3. /\ t \in Seq(Row) /\ Len(t) = Len(a) + Len(b)
      /\ \A j \in 1..Len(a) + Len(b) : t[j] = IF j <= Len(a) THEN a[j] ELSE b[j - Len(a)]
  BY <1>1, <1>2, ConcatProperties
<1>4. t = Lists!RemoveAt(s, i)
  BY DEF a, b, Lists!RemoveAt
<1> HIDE DEF t
<1>5. Len(t) = Len(s) - 1 /\ Len(t) \in Nat /\ Len(t) <= Len(s) /\ DOMAIN t = 1..Len(t)
      /\ Len(a) + Len(b) = Len(t)
  BY <1>0, <1>1, <1>2, <1>3, Elements
<1>6. ASSUME NEW j \in 1..Len(t)
      PROVE  t[j] = s[old(j)] /\ old(j) \in 1..Len(s)
  <2>1. CASE j <= i - 1
    <3>1. j \in 1..i - 1
      BY <1>0, <2>1
    <3>2. t[j] = a[j]
      BY <1>1, <1>3, <1>5, <2>1
    <3> QED
      BY <1>0, <1>1, <2>1, <3>1, <3>2
  <2>2. CASE ~(j <= i - 1)
    <3>1. j - (i - 1) \in 1..Len(s) - i /\ i + (j - (i - 1)) = j + 1 /\ j + 1 \in 1..Len(s)
      BY <1>0, <1>5, <2>2
    <3>2. t[j] = b[j - (i - 1)]
      BY <1>1, <1>3, <1>5, <2>2
    <3> QED
      BY <1>2, <2>2, <3>1, <3>2
  <2> QED
    BY <2>1, <2>2
<1>7. \A j, k \in 1..Len(t) : old(j) = old(k) => j = k
  BY <1>0, <1>5
<1> HIDE DEF old
<1>8. Lists!IsInjective(t)
  <2> SUFFICES ASSUME NEW j \in 1..Len(t), NEW k \in 1..Len(t), t[j] = t[k]
               PROVE  j = k
    BY <1>5 DEF Lists!IsInjective
  <2>1. old(j) = old(k)
    BY <1>0, <1>6 DEF Lists!IsInjective
  <2> QED
    BY <1>7, <2>1
<1>9. s[i] \notin Lists!Range(t)
  <2> SUFFICES ASSUME NEW j \in 1..Len(t), t[j] = s[i] PROVE FALSE
    BY <1>5 DEF Lists!Range
  <2>1. old(j) = i
    BY <1>0, <1>6 DEF Lists!IsInjective
  <2> QED
    BY <1>0, <1>5, <2>1 DEF old
<1> QED
  BY <1>3, <1>4, <1>5, <1>8, <1>9

PerPage == IF client.perPage \in 1..MaxPerPage THEN client.perPage ELSE DefaultPerPage

\* What parsePage makes of a query (observer.go:797-808).
LEMMA Parsed ==
  ASSUME Lists!ListsAssumption, client.page \in Int
  PROVE  LET pp == Lists!parsePage(client) IN
         /\ pp.page = IF client.page > 0 THEN client.page ELSE 1
         /\ pp.perPage = PerPage /\ PerPage \in Nat \ {0}
         /\ pp.offset = Lists!Wrap((pp.page - 1) * PerPage)
         /\ pp.offset \in (-MaxInt - 1)..MaxInt
<1> DEFINE page == IF client.page > 0 THEN client.page ELSE 1
<1>1. Lists!parsePage(client) =
        [page |-> page, perPage |-> PerPage, offset |-> Lists!Wrap((page - 1) * PerPage)]
  BY DEF Lists!parsePage, PerPage
<1>2. PerPage \in Nat \ {0} /\ page \in Nat \ {0} /\ MaxInt \in Nat
  BY DEF Lists!ListsAssumption, PerPage
<1> HIDE DEF page
<1>3. Lists!Wrap((page - 1) * PerPage) \in (-MaxInt - 1)..MaxInt
  <2>1. page - 1 \in Nat
    BY <1>2
  <2>2. (page - 1) * PerPage \in Nat
    BY <1>2, <2>1
  <2> QED
    BY <1>2, <2>2, WrapType
<1> QED
  BY <1>1, <1>2, <1>3 DEF page

\* A page of a table: rows of it, no more than a page has, and all those that LIMIT and
\* OFFSET ask for.
LEMMA PageOfRows ==
  ASSUME NEW s \in Seq(Row), NEW pp, pp.offset \in Int, pp.perPage \in Nat
  PROVE  LET p == Lists!Page(s, pp)
             from == IF pp.offset < 0 THEN 0 ELSE pp.offset IN
         /\ p \in Seq(Row) /\ Len(p) <= pp.perPage
         /\ from >= Len(s) => p = <<>>
         /\ \A i \in 1..Len(s) : i > from /\ i <= from + pp.perPage => s[i] \in Lists!Range(p)
<1> DEFINE from == IF pp.offset < 0 THEN 0 ELSE pp.offset
    to == Lists!Min({from + pp.perPage, Len(s)})
    p == SubSeq(s, from + 1, to)
<1>0. Len(s) \in Nat /\ from \in Nat /\ \A i \in 1..Len(s) : s[i] \in Row
  BY Elements
<1> HIDE DEF from
<1>1. to \in Int /\ to \in {from + pp.perPage, Len(s)} /\ to <= from + pp.perPage /\ to <= Len(s)
  <2>1. from + pp.perPage \in Int /\ Len(s) \in Int
    BY <1>0
  <2>2. to \in {from + pp.perPage, Len(s)} /\ to <= from + pp.perPage /\ to <= Len(s)
    BY <2>1, LeastOfTwo
  <2> HIDE DEF to
  <2> QED
    BY <2>1, <2>2
<1> HIDE DEF to
<1>2. /\ p \in Seq(Row) /\ Len(p) = IF from + 1 <= to THEN to - (from + 1) + 1 ELSE 0
      /\ \A i \in 1..to - (from + 1) + 1 : p[i] = s[from + 1 + i - 1]
  <2>1. \A i \in from + 1..to : s[i] \in Row
    BY <1>0, <1>1
  <2> QED
    BY <1>0, <1>1, <2>1, SubSeqProperties
<1>3. p = Lists!Page(s, pp)
  BY DEF Lists!Page, to, from
<1>4. from >= Len(s) => p = <<>>
  <2>1. from >= Len(s) => to < from + 1
    BY <1>0, <1>1
  <2> QED
    BY <1>0, <1>1, <2>1, SubSeqEmpty
<1> HIDE DEF p
<1>5. Len(p) <= pp.perPage
  BY <1>0, <1>1, <1>2
<1>6. ASSUME NEW i \in 1..Len(s), i > from, i <= from + pp.perPage
      PROVE  s[i] \in Lists!Range(p)
  <2>1. i <= to
    BY <1>1, <1>6
  <2>2. /\ from + 1 <= to /\ i - from \in 1..to - (from + 1) + 1
        /\ from + 1 + (i - from) - 1 = i /\ i - from \in 1..Len(p)
    BY <1>0, <1>1, <1>2, <1>6, <2>1
  <2>3. p[i - from] = s[i]
    BY <1>2, <2>2
  <2>4. DOMAIN p = 1..Len(p)
    BY <1>2, Elements
  <2> QED
    BY <2>2, <2>3, <2>4 DEF Lists!Range
<1> QED
  BY <1>2, <1>3, <1>4, <1>5, <1>6 DEF from

ListsTypes ==
  /\ config \in Platform \cup {NoPlatform}
  /\ store \in [Existing -> Seq(Row)]
  /\ \A s \in Existing : Lists!IsInjective(store[s])
  /\ client \in [endpoint : Endpoint, page : Int, perPage : QueryPerPage]
  /\ owed \in SUBSET Row /\ doubt \in BOOLEAN

Source == Lists!SourceOf(client.endpoint, config)
OfSome(source) == \E p \in Platform : source = Lists!SourceOf(client.endpoint, p)

\* A request keeps to what the client asked and to the config it has looked up.
ListsRequest ==
  /\ rq.pc \in {"idle", "looking", "naming", "counting", "selecting"}
  /\ rq.pc # "idle" => rq.endpoint = client.endpoint /\ rq.pp = Lists!parsePage(client)
  /\ rq.pc = "idle" => client.page \in Nat
  /\ rq.pc = "naming" => rq.platform \in Platform
  /\ rq.pc \in {"counting", "selecting"} => OfSome(rq.source)
  /\ rq.pc = "selecting" =>
       /\ rq.total \in Nat
       /\ ~doubt /\ rq.source \in Existing => Len(store[rq.source]) <= rq.total

\* What is good of a response.
Right(a) ==
  a.code = 200 =>
    /\ a.pages \in Nat \ {0} /\ a.page \in Nat \ {0}
    /\ a.data \subseteq Row /\ Cardinality(a.data) <= a.pp.perPage
    /\ OfSome(a.source)
    /\ a.page > a.pages /\ ~a.doubt /\ (a.page - 1) * a.pp.perPage <= MaxInt => a.data = {}

ListsAnswered == answer.code \in {0, 200, 400, 404, 500} /\ Right(answer)

\* Where the walk is: the rows that are owed are in the table that the config still
\* names, and those that can be shown are ahead of the pages shown so far.
Walking ==
  owed # {} =>
    /\ config \in Platform /\ Source \in Existing
    /\ owed \subseteq Lists!Range(store[Source])
    /\ client.page \in Nat /\ (rq.pc # "idle" => client.page # 0)
    /\ rq.pc = "naming" => rq.platform = config
    /\ rq.pc \in {"counting", "selecting"} => rq.source = Source
    /\ client.page # 0 =>
         \A i \in 1..Len(store[Source]) :
           store[Source][i] \in owed \ Unscannable => i > (client.page - 1) * PerPage

FirstPage == answer = Lists!NoAnswer /\ rq.pc = "idle" => client.page = 1

ListsInv ==
  ListsTypes /\ ListsRequest /\ ListsAnswered /\ Walking /\ FirstPage /\ Lists!WalkIsComplete

LEMMA RowsBounded ==
  ASSUME NEW T, NEW n \in Nat
  PROVE  Lists!BoundedSeq(T, n) \subseteq Seq(T)
BY IsSequence DEF Lists!BoundedSeq, Lists!SeqOf

LEMMA ListsInitially ==
  ASSUME Lists!ListsAssumption, Lists!Init
  PROVE  ListsInv
<1>1. Lists!Cardinality(Row) \in Nat
  BY ListsNumbers, SameCardinals
<1>2. store \in [Existing -> Seq(Row)] /\ \A s \in Existing : Lists!IsInjective(store[s])
  <2>1. \A s \in Lists!BoundedSeq(Row, Lists!Cardinality(Row)) : s \in Seq(Row)
    BY <1>1, RowsBounded
  <2> DEFINE Tables == {s \in Lists!BoundedSeq(Row, Lists!Cardinality(Row)) : Lists!IsInjective(s)}
  <2>2. store \in [Existing -> Tables]
    BY DEF Lists!Init
  <2>3. \A s \in Tables : s \in Seq(Row) /\ Lists!IsInjective(s)
    BY <2>1
  <2> HIDE DEF Tables
  <2> QED
    BY <2>2, <2>3
<1>3. client \in [endpoint : Endpoint, page : Int, perPage : QueryPerPage] /\ client.page = 1
  BY DEF Lists!Init
<1>4. ListsTypes
  BY <1>2, <1>3 DEF Lists!Init, ListsTypes
<1>5. rq.pc = "idle" /\ answer.code = 0 /\ owed = {}
  BY DEF Lists!Init, Lists!Idle, Lists!NoAnswer
<1>6. ListsRequest
  BY <1>3, <1>5 DEF ListsRequest
<1>7. ListsAnswered /\ Walking /\ FirstPage /\ Lists!WalkIsComplete
  BY <1>3, <1>5 DEF ListsAnswered, Right, Walking, FirstPage, Lists!WalkIsComplete
<1> QED
  BY <1>4, <1>6, <1>7 DEF ListsInv

\* The next request of a walk, or its first one.
LEMMA ListsAsk ==
  ASSUME Lists!ListsAssumption, ListsInv, Lists!Ask
  PROVE  ListsInv'
<1>1. /\ rq.pc = "idle" /\ client.page # 0 /\ UNCHANGED <<config, store, client, answer>>
      /\ rq' = [pc |-> "looking", endpoint |-> client.endpoint, pp |-> Lists!parsePage(client)]
      /\ owed' = IF answer = Lists!NoAnswer THEN Lists!RowsOf(client.endpoint) ELSE owed
      /\ doubt' = FALSE
      /\ ListsTypes /\ ListsRequest /\ ListsAnswered /\ Walking /\ FirstPage
  BY DEF Lists!Ask, Lists!Request, ListsInv
<1>2. rq'.pc = "looking" /\ rq'.endpoint = client.endpoint /\ rq'.pp = Lists!parsePage(client)
  BY <1>1
<1>3. ASSUME Lists!RowsOf(client.endpoint) # {}
      PROVE  /\ config \in Platform /\ Source \in Existing
             /\ Lists!RowsOf(client.endpoint) = Lists!Range(store[Source])
  <2>1. PICK s \in Existing \cap {Lists!SourceOf(client.endpoint, p) : p \in {config} \ {NoPlatform}} : TRUE
    BY <1>3 DEF Lists!RowsOf
  <2>2. config # NoPlatform /\ s = Source
    BY <2>1 DEF Source
  <2>3. Existing \cap {Lists!SourceOf(client.endpoint, p) : p \in {config} \ {NoPlatform}} = {Source}
    BY <2>1, <2>2 DEF Source
  <2> QED
    BY <1>1, <2>1, <2>2, <2>3 DEF Lists!RowsOf, ListsTypes
<1>4. owed' \in SUBSET Row
  <2>1. CASE Lists!RowsOf(client.endpoint) = {}
    BY <1>1, <2>1 DEF ListsTypes
  <2>2. CASE Lists!RowsOf(client.endpoint) # {}
    <3>1. store[Source] \in Seq(Row)
      BY <1>1, <1>3, <2>2 DEF ListsTypes
    <3>2. Lists!Range(store[Source]) \subseteq Row
      BY <3>1, FewElements
    <3> QED
      BY <1>1, <1>3, <2>2, <3>2 DEF ListsTypes
  <2> QED
    BY <2>1, <2>2
<1>5. ListsTypes'
  BY <1>1, <1>4 DEF ListsTypes
<1>6. ListsRequest'
  BY <1>1, <1>2 DEF ListsRequest, Lists!parsePage, Lists!Wrap
<1>7. ListsAnswered'
  BY <1>1 DEF ListsAnswered, Right, OfSome, Lists!SourceOf, Lists!TableOf
<1>8. FirstPage' /\ Lists!WalkIsComplete'
  BY <1>2 DEF FirstPage, Lists!WalkIsComplete, Lists!Ended
<1>9. Walking'
  <2> SUFFICES ASSUME owed' # {} PROVE Walking'
    BY DEF Walking
  <2>0. Source' = Source /\ PerPage' = PerPage /\ client' = client /\ store' = store /\ config' = config
    BY <1>1 DEF Source, PerPage, Lists!SourceOf, Lists!TableOf
  <2>1. CASE answer = Lists!NoAnswer
    <3>1. owed' = Lists!Range(store[Source]) /\ config \in Platform /\ Source \in Existing
      BY <1>1, <1>3, <2>1
    <3>2. client.page = 1
      BY <1>1, <2>1 DEF FirstPage
    <3>3. PerPage \in Nat
      BY Parsed, <3>2
    <3>4. \A i \in 1..Len(store[Source]) : i > (client.page - 1) * PerPage
      <4>1. (client.page - 1) * PerPage = 0
        BY <3>2, <3>3
      <4>2. Len(store[Source]) \in Nat
        BY <1>1, <3>1, Elements DEF ListsTypes
      <4> QED
        BY <4>1, <4>2
    <3> QED
      BY <1>2, <2>0, <3>1, <3>2, <3>4 DEF Walking
  <2>2. CASE answer # Lists!NoAnswer
    <3>1. owed' = owed
      BY <1>1, <2>2
    <3> QED
      BY <1>1, <1>2, <2>0, <3>1 DEF Walking
  <2> QED
    BY <2>1, <2>2
<1> QED
  BY <1>5, <1>6, <1>7, <1>8, <1>9 DEF ListsInv

LEMMA ListsJump ==
  ASSUME Lists!ListsAssumption, ListsInv, Lists!Jump
  PROVE  ListsInv'
<1>1. PICK n \in QueryPage : client' = [client EXCEPT !.page = n]
  BY DEF Lists!Jump
<1>2. /\ rq.pc = "idle" /\ UNCHANGED <<config, store, answer>> /\ owed' = {} /\ doubt' = FALSE
      /\ rq'.pc = "looking" /\ rq'.endpoint = client'.endpoint /\ rq'.pp = Lists!parsePage(client')
      /\ ListsTypes /\ ListsRequest /\ ListsAnswered
  BY DEF Lists!Jump, Lists!Request, Lists!Excused, ListsInv
<1>3. /\ client' \in [endpoint : Endpoint, page : Int, perPage : QueryPerPage]
      /\ client'.endpoint = client.endpoint
  BY <1>1, <1>2 DEF ListsTypes, Lists!ListsAssumption
<1>4. ListsTypes'
  BY <1>2, <1>3 DEF ListsTypes
<1>5. ListsRequest'
  BY <1>2 DEF ListsRequest, Lists!parsePage, Lists!Wrap
<1>6. ListsAnswered'
  BY <1>2, <1>3 DEF ListsAnswered, Right, OfSome, Lists!SourceOf, Lists!TableOf
<1>7. FirstPage' /\ Walking' /\ Lists!WalkIsComplete'
  BY <1>2 DEF FirstPage, Walking, Lists!WalkIsComplete
<1> QED
  BY <1>4, <1>5, <1>6, <1>7 DEF ListsInv

\* Any response ends the request.  A page of rows goes on with the next one, if there
\* is one, and then what is owed and can be shown has to be beyond it.
LEMMA ListsAnswer ==
  ASSUME Lists!ListsAssumption, ListsInv, rq.pc # "idle", NEW a, Lists!Answer(a),
         a.code \in {200, 400, 404, 500}, Right(a), owed' \subseteq owed,
         owed' # {} /\ a.code = 200 =>
           /\ a.page = client.page
           /\ \A i \in 1..Len(store[Source]) :
                store[Source][i] \in owed' \ Unscannable => i > client.page * PerPage
           /\ a.page >= a.pages /\ ~a.doubt => owed' \subseteq Unscannable
  PROVE  ListsInv'
<1> DEFINE next == IF a.code = 200 /\ a.page < a.pages THEN a.page + 1 ELSE 0
<1>1. /\ answer' = a /\ rq'.pc = "idle" /\ UNCHANGED <<config, store, doubt>>
      /\ client' = [client EXCEPT !.page = next]
      /\ ListsTypes /\ ListsRequest /\ Walking
  BY DEF Lists!Answer, Lists!Idle, ListsInv
<1>2. next \in Nat /\ (next # 0 => a.code = 200 /\ next = a.page + 1) /\ (next = 0 /\ a.code = 200 => a.page >= a.pages)
  BY DEF Right
<1> HIDE DEF next
<1>3. /\ client' \in [endpoint : Endpoint, page : Int, perPage : QueryPerPage]
      /\ client'.endpoint = client.endpoint /\ client'.page = next /\ client'.perPage = client.perPage
  BY <1>1, <1>2 DEF ListsTypes
<1>4. ListsTypes'
  BY <1>1, <1>3 DEF ListsTypes
<1>5. ListsRequest'
  BY <1>1, <1>2, <1>3 DEF ListsRequest
<1>6. ListsAnswered'
  BY <1>1, <1>3 DEF ListsAnswered, Right, OfSome, Lists!SourceOf, Lists!TableOf
<1>7. FirstPage'
  BY <1>1 DEF FirstPage, Lists!NoAnswer
<1>8. Lists!WalkIsComplete'
  BY <1>1, <1>2, <1>3 DEF Lists!WalkIsComplete, Lists!Ended
<1>9. Walking'
  <2> SUFFICES ASSUME owed' # {} PROVE Walking'
    BY DEF Walking
  <2>0. Source' = Source /\ PerPage' = PerPage /\ store' = store /\ config' = config
    BY <1>1, <1>3 DEF Source, PerPage, Lists!SourceOf, Lists!TableOf
  <2>1. /\ config \in Platform /\ Source \in Existing
        /\ owed' \subseteq Lists!Range(store[Source])
    BY <1>1 DEF Walking
  <2>2. next # 0 => (next - 1) * PerPage = client.page * PerPage
    <3>1. next # 0 => next - 1 = client.page
      BY <1>1, <1>2, <1>3 DEF Right, ListsTypes
    <3> QED
      BY <3>1
  <2>3. next # 0 => \A i \in 1..Len(store[Source]) :
          store[Source][i] \in owed' \ Unscannable => i > (next - 1) * PerPage
    BY <1>2, <2>2
  <2> QED
    BY <1>1, <1>2, <1>3, <2>0, <2>1, <2>3 DEF Walking
<1> QED
  BY <1>4, <1>5, <1>6, <1>7, <1>8, <1>9 DEF ListsInv

LEMMA ListsError ==
  ASSUME Lists!ListsAssumption, ListsInv, rq.pc # "idle", NEW code \in {400, 404, 500},
         Lists!jsonError(code)
  PROVE  ListsInv'
<1>1. Lists!Answer([code |-> code]) /\ owed' = owed
  BY DEF Lists!jsonError
<1>2. [code |-> code].code = code /\ Right([code |-> code])
  BY DEF Right
<1> QED
  BY <1>1, <1>2, ListsAnswer

\* A step of the request that does not answer.
LEMMA ListsGoOn ==
  ASSUME Lists!ListsAssumption, ListsInv, rq.pc # "idle",
         UNCHANGED <<config, store, client, answer, owed>>, doubt' \in BOOLEAN,
         rq'.pc \in {"naming", "counting", "selecting"}, ListsRequest',
         owed # {} => /\ rq'.pc = "naming" => rq'.platform = config
                      /\ rq'.pc \in {"counting", "selecting"} => rq'.source = Source
  PROVE  ListsInv'
<1>1. ListsTypes /\ ListsAnswered /\ Walking
  BY DEF ListsInv
<1>2. ListsTypes'
  BY <1>1 DEF ListsTypes
<1>3. ListsAnswered'
  BY <1>1 DEF ListsAnswered, Right, OfSome, Lists!SourceOf, Lists!TableOf
<1>4. FirstPage' /\ Lists!WalkIsComplete'
  BY DEF FirstPage, Lists!WalkIsComplete, Lists!Ended
<1>5. Walking'
  <2>1. Source' = Source /\ PerPage' = PerPage
    BY DEF Source, PerPage, Lists!SourceOf, Lists!TableOf
  <2> QED
    BY <1>1, <2>1 DEF Walking
<1> QED
  BY <1>2, <1>3, <1>4, <1>5 DEF ListsInv

LEMMA ListsLookUp ==
  ASSUME Lists!ListsAssumption, ListsInv, Lists!lookupPlatform
  PROVE  ListsInv'
<1>1. rq.pc = "looking" /\ ListsTypes /\ ListsRequest /\ Walking
  BY DEF Lists!lookupPlatform, ListsInv
<1>2. CASE config = NoPlatform
  BY <1>1, <1>2, ListsError DEF Lists!lookupPlatform
<1>3. CASE config # NoPlatform
  <2>1. /\ rq' = [pc |-> "naming", endpoint |-> rq.endpoint, pp |-> rq.pp, platform |-> config]
        /\ UNCHANGED <<config, store, client, answer, owed, doubt>>
    BY <1>3 DEF Lists!lookupPlatform, Lists!history
  <2>2. rq'.pc = "naming" /\ rq'.endpoint = rq.endpoint /\ rq'.pp = rq.pp /\ rq'.platform = config
    BY <2>1
  <2>3. ListsRequest'
    <3>1. config \in Platform
      BY <1>1, <1>3 DEF ListsTypes
    <3> QED
      BY <1>1, <2>1, <2>2, <3>1 DEF ListsRequest, Lists!parsePage, Lists!Wrap
  <2> QED
    BY <1>1, <2>1, <2>2, <2>3, ListsGoOn DEF ListsTypes
<1> QED
  BY <1>2, <1>3

LEMMA ListsChooseTable ==
  ASSUME Lists!ListsAssumption, ListsInv, Lists!chooseTable
  PROVE  ListsInv'
<1> DEFINE source == Lists!SourceOf(rq.endpoint, rq.platform)
<1>1. rq.pc = "naming" /\ ListsTypes /\ ListsRequest /\ Walking
  BY DEF Lists!chooseTable, ListsInv
<1>2. OfSome(source) /\ (owed # {} => source = Source /\ source \in Existing)
  BY <1>1 DEF ListsRequest, Walking, OfSome, Source
<1>3. \/ Lists!jsonError(400)
      \/ /\ source \notin Existing
         /\ Lists!sendPaginated({}, 0, source) /\ owed' = owed
      \/ Lists!Query(source)
  BY DEF Lists!chooseTable
<1> HIDE DEF source
<1>4. CASE Lists!jsonError(400)
  BY <1>1, <1>4, ListsError
<1>5. CASE source \notin Existing /\ Lists!sendPaginated({}, 0, source) /\ owed' = owed
  <2> DEFINE a == [code |-> 200, data |-> {}, total |-> 0, page |-> rq.pp.page,
                   pages |-> Lists!Pages(0, rq.pp.perPage), pp |-> rq.pp, source |-> source,
                   doubt |-> doubt]
  <2>1. Lists!Answer(a) /\ owed' = {}
    BY <1>2, <1>5 DEF Lists!sendPaginated
  <2>2. /\ a.code = 200 /\ a.data = {} /\ a.page = rq.pp.page /\ a.pp = rq.pp /\ a.source = source
        /\ a.pages = Lists!Pages(0, rq.pp.perPage)
    OBVIOUS
  <2> HIDE DEF a
  <2>3. rq.pp.page \in Nat \ {0} /\ rq.pp.perPage \in Nat \ {0}
    <3>1. client.page \in Int /\ rq.pp = Lists!parsePage(client)
      BY <1>1 DEF ListsTypes, ListsRequest
    <3> QED
      BY <3>1, Parsed
  <2>4. Right(a)
    <3>1. Lists!Pages(0, rq.pp.perPage) \in Nat \ {0}
      BY <2>3, PagesHoldAll
    <3>2. Cardinality({}) = 0
      BY FS_EmptySet
    <3> QED
      BY <1>2, <2>2, <2>3, <3>1, <3>2 DEF Right
  <2> QED
    BY <1>1, <2>1, <2>2, <2>4, ListsAnswer
<1>6. CASE Lists!Query(source)
  <2>1. /\ rq' = [pc |-> "counting", endpoint |-> rq.endpoint, pp |-> rq.pp, source |-> source]
        /\ UNCHANGED <<config, store, client, answer, owed, doubt>>
    BY <1>6 DEF Lists!Query, Lists!history
  <2>2. rq'.pc = "counting" /\ rq'.endpoint = rq.endpoint /\ rq'.pp = rq.pp /\ rq'.source = source
    BY <2>1
  <2>3. ListsRequest'
    <3>1. \E p \in Platform : rq'.source = Lists!SourceOf(client.endpoint, p)
      BY <1>2, <2>2 DEF OfSome
    <3>2. OfSome(rq.source)'
      BY <2>1, <3>1 DEF OfSome, Lists!SourceOf, Lists!TableOf
    <3> QED
      BY <1>1, <2>1, <2>2, <3>2 DEF ListsRequest, Lists!parsePage, Lists!Wrap
  <2> QED
    BY <1>1, <1>2, <2>1, <2>2, <2>3, ListsGoOn DEF ListsTypes
<1> QED
  BY <1>3, <1>4, <1>5, <1>6

LEMMA ListsCount ==
  ASSUME Lists!ListsAssumption, ListsInv, Lists!Count \/ Lists!CountFails
  PROVE  ListsInv'
<1>1. rq.pc = "counting" /\ ListsTypes /\ ListsRequest /\ Walking
  BY DEF Lists!Count, Lists!CountFails, ListsInv
<1>2. ASSUME NEW n \in Nat,
             rq' = [pc |-> "selecting", endpoint |-> rq.endpoint, pp |-> rq.pp,
                    source |-> rq.source, total |-> n],
             UNCHANGED <<config, store, client, answer, owed>>, doubt' \in BOOLEAN,
             ~doubt' /\ rq.source \in Existing => Len(store[rq.source]) <= n
      PROVE  ListsInv'
  <2>1. /\ rq' = [pc |-> "selecting", endpoint |-> rq.endpoint, pp |-> rq.pp,
                  source |-> rq.source, total |-> n]
        /\ UNCHANGED <<config, store, client, answer, owed>>
    BY <1>2
  <2>2. rq'.pc = "selecting" /\ rq'.endpoint = rq.endpoint /\ rq'.pp = rq.pp
        /\ rq'.source = rq.source /\ rq'.total = n
    BY <2>1
  <2>3. ListsRequest'
    BY <1>1, <1>2, <2>1, <2>2 DEF ListsRequest, Lists!parsePage, Lists!Wrap, OfSome
  <2> QED
    BY <1>1, <1>2, <2>1, <2>2, <2>3, ListsGoOn DEF Walking
<1>3. CASE Lists!Count
  <2>1. /\ rq.source \in Existing /\ Lists!Counted(Len(store[rq.source])) /\ doubt' = FALSE
    BY <1>3 DEF Lists!Count
  <2>2. PICK n \in Nat : n = Len(store[rq.source])
    BY <1>1, <2>1, Elements DEF ListsTypes
  <2>3. /\ rq' = [pc |-> "selecting", endpoint |-> rq.endpoint, pp |-> rq.pp,
                  source |-> rq.source, total |-> n]
        /\ UNCHANGED <<config, store, client, answer, owed>>
    BY <2>1, <2>2 DEF Lists!Counted
  <2>4. doubt' \in BOOLEAN
    BY <2>1, Zenon
  <2>5. Len(store[rq.source]) <= n
    <3>1. n <= n
      OBVIOUS
    <3> QED
      BY <2>2, <3>1
  <2> QED
    BY <1>2, <2>3, <2>4, <2>5
<1>4. CASE Lists!CountFails
  <2>1. Lists!jsonError(500) \/ (Lists!Counted(0) /\ doubt' = TRUE)
    BY <1>4 DEF Lists!CountFails
  <2>2. CASE Lists!jsonError(500)
    BY <1>1, <2>2, ListsError
  <2>3. CASE Lists!Counted(0) /\ doubt' = TRUE
    <3>1. /\ rq' = [pc |-> "selecting", endpoint |-> rq.endpoint, pp |-> rq.pp,
                    source |-> rq.source, total |-> 0]
          /\ UNCHANGED <<config, store, client, answer, owed>>
      BY <2>3 DEF Lists!Counted
    <3> QED
      BY <1>2, <2>3, <3>1
  <2> QED
    BY <2>1, <2>2, <2>3
<1> QED
  BY <1>3, <1>4

LEMMA ListsSelectFails ==
  ASSUME Lists!ListsAssumption, ListsInv, Lists!SelectFails
  PROVE  ListsInv'
BY ListsError DEF Lists!SelectFails

\* The page that a request reads: what of it is shown, and what is still ahead.
LEMMA ListsSelect ==
  ASSUME Lists!ListsAssumption, ListsInv, Lists!Select
  PROVE  ListsInv'
<1> DEFINE rows == Lists!Page(store[rq.source], rq.pp)
<1>1. /\ rq.pc = "selecting" /\ rq.source \in Existing
      /\ ListsTypes /\ ListsRequest /\ Walking
      /\ MaxInt \in Nat /\ IsFiniteSet(Row) /\ Cardinality(Row) <= MaxInt
  BY ListsNumbers DEF Lists!Select, ListsInv
<1>2. /\ store[rq.source] \in Seq(Row) /\ Lists!IsInjective(store[rq.source])
      /\ Len(store[rq.source]) \in Nat
  BY <1>1, Elements DEF ListsTypes
<1>3. /\ rq.pp = Lists!parsePage(client) /\ client.page \in Int
      /\ OfSome(rq.source) /\ rq.total \in Nat
      /\ ~doubt => Len(store[rq.source]) <= rq.total
  BY <1>1 DEF ListsRequest, ListsTypes
<1>4. /\ rq.pp.page = IF client.page > 0 THEN client.page ELSE 1
      /\ rq.pp.page \in Nat \ {0}
      /\ rq.pp.perPage = PerPage /\ PerPage \in Nat \ {0}
      /\ rq.pp.offset = Lists!Wrap((rq.pp.page - 1) * PerPage) /\ rq.pp.offset \in Int
  <2>1. rq.pp.page = IF client.page > 0 THEN client.page ELSE 1
    BY <1>3, Parsed
  <2>2. rq.pp.perPage = PerPage /\ PerPage \in Nat \ {0}
    BY <1>3, Parsed
  <2>3. rq.pp.offset = Lists!Wrap((rq.pp.page - 1) * PerPage) /\ rq.pp.offset \in Int
    BY <1>3, Parsed
  <2>4. rq.pp.page \in Nat \ {0}
    BY <1>3, <2>1
  <2> QED
    BY <2>1, <2>2, <2>3, <2>4
<1> DEFINE from == IF rq.pp.offset < 0 THEN 0 ELSE rq.pp.offset
    skipped == (rq.pp.page - 1) * PerPage
<1>5. /\ rows \in Seq(Row) /\ Len(rows) <= PerPage
      /\ from >= Len(store[rq.source]) => rows = <<>>
      /\ \A i \in 1..Len(store[rq.source]) :
           i > from /\ i <= from + PerPage => store[rq.source][i] \in Lists!Range(rows)
  BY <1>2, <1>4, PageOfRows
<1>6. skipped \in Nat /\ (skipped <= MaxInt => from = skipped)
  <2>1. rq.pp.page - 1 \in Nat
    BY <1>4
  <2>2. skipped \in Nat
    BY <1>4, <2>1
  <2>3. skipped <= MaxInt => Lists!Wrap(skipped) = skipped
    <3> HIDE DEF skipped
    <3> QED
      BY <1>1, <2>2, WrapOfSmall
  <2> QED
    BY <1>4, <2>2, <2>3
<1> DEFINE pages == Lists!Pages(rq.total, PerPage)
<1>7. pages \in Nat \ {0} /\ rq.total <= pages * PerPage
  BY <1>3, <1>4, PagesHoldAll
<1>8. rq.pp.page > pages => rq.total <= skipped
  <2> SUFFICES ASSUME rq.pp.page > pages PROVE rq.total <= skipped
    OBVIOUS
  <2>1. pages \in Nat /\ rq.pp.page - 1 \in Nat /\ pages <= rq.pp.page - 1 /\ PerPage \in Nat
    BY <1>4, <1>7
  <2> HIDE DEF pages
  <2>2. /\ pages * PerPage <= (rq.pp.page - 1) * PerPage
        /\ pages * PerPage \in Nat
    BY <2>1, ProductOrder
  <2>3. skipped = (rq.pp.page - 1) * PerPage
    OBVIOUS
  <2> HIDE DEF skipped
  <2> QED
    BY <1>3, <1>6, <1>7, <2>2, <2>3
<1> HIDE DEF rows, from, skipped, pages
<1>9. rq.pp.page > pages /\ ~doubt /\ skipped <= MaxInt => rows = <<>>
  BY <1>2, <1>3, <1>5, <1>6, <1>8
<1>10. ASSUME NEW data, Lists!sendPaginated(data, rq.total, rq.source),
              data \subseteq Row, Cardinality(data) <= PerPage, rows = <<>> => data = {},
              owed' \subseteq owed,
              owed' # {} =>
                /\ \A i \in 1..Len(store[Source]) :
                     store[Source][i] \in owed' \ Unscannable => i > client.page * PerPage
                /\ rq.pp.page = client.page
                /\ rq.pp.page >= pages /\ ~doubt => owed' \subseteq Unscannable
       PROVE  ListsInv'
  <2> DEFINE a == [code |-> 200, data |-> data, total |-> rq.total, page |-> rq.pp.page,
                   pages |-> Lists!Pages(rq.total, rq.pp.perPage), pp |-> rq.pp,
                   source |-> rq.source, doubt |-> doubt]
  <2>1. Lists!Answer(a)
    BY <1>10 DEF Lists!sendPaginated
  <2>2. /\ a.code = 200 /\ a.data = data /\ a.page = rq.pp.page /\ a.pp = rq.pp
        /\ a.source = rq.source /\ a.doubt = doubt /\ a.pages = Lists!Pages(rq.total, rq.pp.perPage)
    OBVIOUS
  <2> HIDE DEF a
  <2>3. a.pages = pages
    BY <1>4, <2>2 DEF pages
  <2>4. (a.page - 1) * a.pp.perPage = skipped
    BY <1>4, <2>2 DEF skipped
  <2>5. Right(a)
    BY <1>3, <1>4, <1>7, <1>9, <1>10, <2>2, <2>3, <2>4 DEF Right
  <2> QED
    BY <1>1, <1>10, <2>1, <2>2, <2>3, <2>5, ListsAnswer
<1>11. /\ Lists!Scanned(rows) \subseteq Row /\ Cardinality(Lists!Scanned(rows)) <= PerPage
       /\ rows = <<>> => Lists!Scanned(rows) = {}
  <2>1. /\ IsFiniteSet(Lists!Range(rows)) /\ Cardinality(Lists!Range(rows)) <= Len(rows)
        /\ Lists!Range(rows) \subseteq Row /\ Len(rows) \in Nat
    BY <1>5, FewElements, Elements
  <2>2. /\ Lists!Scanned(rows) \in SUBSET Lists!Range(rows)
    BY DEF Lists!Scanned
  <2>3. /\ Cardinality(Lists!Scanned(rows)) <= Cardinality(Lists!Range(rows))
        /\ IsFiniteSet(Lists!Scanned(rows))
    BY <2>1, <2>2, FS_Subset
  <2>4. Cardinality(Lists!Scanned(rows)) \in Nat /\ Cardinality(Lists!Range(rows)) \in Nat
    BY <2>1, <2>3, FS_CardinalityType
  <2>5. rows = <<>> => Lists!Range(rows) = {}
    BY DEF Lists!Range
  <2> QED
    BY <1>4, <1>5, <2>1, <2>2, <2>3, <2>4, <2>5
<1>12. ASSUME NEW data, Lists!sendPaginated(data, rq.total, rq.source),
              data \subseteq Row, Cardinality(data) <= PerPage, rows = <<>> => data = {},
              owed' \subseteq owed \ Lists!Scanned(rows)
       PROVE  ListsInv'
  <2>1. ASSUME owed' # {}
        PROVE  /\ rq.pp.page = client.page /\ rq.source = Source /\ owed \subseteq Lists!Range(store[Source])
               /\ \A i \in 1..Len(store[Source]) :
                    store[Source][i] \in owed \ Unscannable => i > skipped
    <3>1. owed # {}
      BY <1>12, <2>1
    <3>2. /\ client.page \in Nat /\ client.page # 0 /\ rq.source = Source
          /\ owed \subseteq Lists!Range(store[Source])
          /\ \A i \in 1..Len(store[Source]) :
               store[Source][i] \in owed \ Unscannable => i > (client.page - 1) * PerPage
      BY <1>1, <3>1 DEF Walking
    <3>3. rq.pp.page = client.page
      BY <1>4, <3>2
    <3> QED
      BY <3>2, <3>3 DEF skipped
  <2>2. ASSUME owed' # {}, NEW i \in 1..Len(store[Source]),
               store[Source][i] \in owed' \ Unscannable
        PROVE  i > client.page * PerPage /\ i <= Len(store[Source])
    <3>1. /\ store[Source][i] \in owed \ Unscannable /\ store[Source][i] \notin Lists!Range(rows)
      BY <1>12, <2>2 DEF Lists!Scanned
    <3>2. i > skipped /\ i \in Nat /\ i <= Len(store[Source]) /\ rq.source = Source
      BY <1>2, <2>1, <2>2, <3>1
    <3>3. skipped <= MaxInt
      <4>1. Len(store[rq.source]) <= Cardinality(Row) /\ Cardinality(Row) \in Nat
        BY <1>1, <1>2, DistinctRows, FS_CardinalityType
      <4> QED
        BY <1>1, <1>2, <1>6, <3>2, <4>1
    <3>4. from = skipped
      BY <1>6, <3>3
    <3>5. i > skipped + PerPage
      BY <1>4, <1>5, <1>6, <3>1, <3>2, <3>4
    <3>6. skipped + PerPage = client.page * PerPage
      <4>1. skipped = (client.page - 1) * PerPage
        BY <2>1, <2>2 DEF skipped
      <4> QED
        BY <1>3, <1>4, <4>1
    <3> QED
      BY <3>2, <3>5, <3>6
  <2>3. ASSUME owed' # {}, rq.pp.page >= pages, ~doubt
        PROVE  owed' \subseteq Unscannable
    <3> SUFFICES ASSUME NEW r \in owed', r \notin Unscannable PROVE FALSE
      OBVIOUS
    <3>1. PICK i \in 1..Len(store[Source]) : store[Source][i] = r
      <4>1. r \in Lists!Range(store[Source]) /\ rq.source = Source
        BY <1>12, <2>1, <2>3
      <4>2. DOMAIN store[Source] = 1..Len(store[Source])
        BY <1>2, <4>1, Elements
      <4> QED
        BY <4>1, <4>2 DEF Lists!Range
    <3>2. i > client.page * PerPage /\ i <= Len(store[Source])
      BY <2>2, <2>3, <3>1
    <3>3. /\ pages * PerPage <= client.page * PerPage
          /\ pages * PerPage \in Nat /\ client.page * PerPage \in Nat
      <4>1. pages \in Nat /\ client.page \in Nat /\ pages <= client.page /\ PerPage \in Nat
        BY <1>4, <1>7, <2>1, <2>3
      <4> QED
        BY <4>1, ProductOrder
    <3>4. Len(store[Source]) <= rq.total /\ Len(store[Source]) \in Nat
      BY <1>2, <1>3, <2>1, <2>3
    <3> QED
      BY <1>3, <1>7, <3>2, <3>3, <3>4
  <2> QED
    BY <1>10, <1>11, <1>12, <2>1, <2>2, <2>3
<1>13. CASE /\ Lists!sendPaginated(Lists!Scanned(rows), rq.total, rq.source)
            /\ owed' = owed \ Lists!Scanned(rows)
  BY <1>11, <1>12, <1>13
<1>14. ASSUME NEW n \in 0..Len(rows) - 1,
              Lists!sendPaginated(Lists!Scanned(SubSeq(rows, 1, n)), rq.total, rq.source),
              owed' = owed \ Lists!Range(rows)
       PROVE  ListsInv'
  <2> DEFINE read == SubSeq(rows, 1, n)
  <2>0. Len(rows) \in Nat /\ DOMAIN rows = 1..Len(rows) /\ \A i \in 1..Len(rows) : rows[i] \in Row
    BY <1>5, Elements
  <2>1. Lists!Range(read) \subseteq Lists!Range(rows)
    <3>1. n \in Nat /\ n <= Len(rows) /\ \A i \in 1..n : i \in 1..Len(rows)
      BY <1>14, <2>0
    <3>2. read \in Seq(Row) /\ Len(read) = n /\ \A i \in 1..n : read[i] = rows[i]
      <4>1. \A i \in 1..n : rows[i] \in Row /\ 1 + i - 1 = i
        BY <2>0, <3>1
      <4>2. /\ read \in Seq(Row) /\ Len(read) = IF 1 <= n THEN n - 1 + 1 ELSE 0
            /\ \A i \in 1..n - 1 + 1 : read[i] = rows[1 + i - 1]
        BY <3>1, <4>1, SubSeqProperties
      <4> HIDE DEF read
      <4>3. n - 1 + 1 = n /\ (~(1 <= n) => n = 0)
        BY <3>1
      <4> QED
        BY <4>1, <4>2, <4>3
    <3> HIDE DEF read
    <3>3. DOMAIN read = 1..n
      BY <3>2, Elements
    <3> QED
      BY <2>0, <3>1, <3>2, <3>3 DEF Lists!Range
  <2>2. Lists!Scanned(read) \in SUBSET Lists!Scanned(rows)
    BY <2>1 DEF Lists!Scanned
  <2>3. /\ IsFiniteSet(Lists!Scanned(rows)) /\ Cardinality(Lists!Scanned(rows)) \in Nat
        /\ Cardinality(Lists!Scanned(read)) <= Cardinality(Lists!Scanned(rows))
        /\ Cardinality(Lists!Scanned(read)) \in Nat
    <3>1. IsFiniteSet(Lists!Range(rows))
      BY <1>5, FewElements
    <3>2. Lists!Scanned(rows) \in SUBSET Lists!Range(rows)
      BY DEF Lists!Scanned
    <3>3. IsFiniteSet(Lists!Scanned(rows))
      BY <3>1, <3>2, FS_Subset
    <3> QED
      BY <2>2, <3>3, FS_Subset, FS_CardinalityType
  <2>4. Lists!Scanned(read) \subseteq Row /\ Cardinality(Lists!Scanned(read)) <= PerPage
    BY <1>4, <1>11, <2>2, <2>3
  <2>5. rows = <<>> => Lists!Scanned(read) = {}
    BY <1>11, <2>2
  <2>6. owed' \subseteq owed \ Lists!Scanned(rows)
    BY <1>14 DEF Lists!Scanned
  <2>7. Lists!sendPaginated(Lists!Scanned(read), rq.total, rq.source)
    BY <1>14
  <2> HIDE DEF read
  <2> QED
    BY <1>12, <2>4, <2>5, <2>6, <2>7
<1> QED
  BY <1>13, <1>14 DEF Lists!Select, rows

LEMMA ListsReload ==
  ASSUME Lists!ListsAssumption, ListsInv, Lists!UpdateConfig
  PROVE  ListsInv'
<1>1. /\ config' \in Platform \cup {NoPlatform} /\ owed' = {}
      /\ UNCHANGED <<store, rq, client, answer, doubt>>
      /\ ListsTypes /\ ListsRequest /\ ListsAnswered /\ FirstPage
  BY DEF Lists!UpdateConfig, Lists!Excused, Lists!reqVars, ListsInv
<1>2. ListsTypes'
  BY <1>1 DEF ListsTypes
<1>3. ListsRequest' /\ ListsAnswered'
  BY <1>1 DEF ListsRequest, ListsAnswered, Right, OfSome, Lists!SourceOf, Lists!TableOf,
              Lists!parsePage, Lists!Wrap
<1>4. FirstPage' /\ Walking' /\ Lists!WalkIsComplete'
  BY <1>1 DEF FirstPage, Walking, Lists!WalkIsComplete
<1> QED
  BY <1>2, <1>3, <1>4 DEF ListsInv

\* Whatever the tools write, the rows that are still owed have not come nearer.
LEMMA ListsRewrite ==
  ASSUME Lists!ListsAssumption, ListsInv, NEW s \in Existing, NEW new \in Seq(Row),
         Lists!IsInjective(new), Lists!Rewrite(s, new),
         doubt' = TRUE \/ (doubt' = doubt /\ Len(new) <= Len(store[s]))
  PROVE  ListsInv'
<1>1. /\ UNCHANGED <<config, rq, client, answer>>
      /\ owed' = owed \ Lists!Closer(store[s], new)
      /\ ListsTypes /\ ListsRequest /\ ListsAnswered /\ Walking /\ FirstPage /\ Lists!WalkIsComplete
  BY DEF Lists!Rewrite, Lists!reqVars, ListsInv
<1> DEFINE old == store[s]
<1>2. /\ old \in Seq(Row) /\ Lists!IsInjective(old) /\ Len(old) \in Nat /\ DOMAIN old = 1..Len(old)
      /\ Len(new) \in Nat /\ DOMAIN new = 1..Len(new)
  BY <1>1, Elements DEF ListsTypes
<1>3. \A x \in Existing : store'[x] = IF x = s THEN new ELSE store[x]
  BY <1>1 DEF ListsTypes, Lists!Rewrite
<1>4. owed' \subseteq owed /\ doubt' \in BOOLEAN
  BY <1>1 DEF ListsTypes
<1>5. ListsTypes'
  <2>1. store' \in [Existing -> Seq(Row)]
    BY <1>1 DEF ListsTypes, Lists!Rewrite
  <2>2. \A x \in Existing : Lists!IsInjective(store'[x])
    BY <1>1, <1>3 DEF ListsTypes
  <2> QED
    BY <1>1, <1>4, <2>1, <2>2 DEF ListsTypes
<1>6. ListsAnswered'
  BY <1>1 DEF ListsAnswered, Right, OfSome, Lists!SourceOf, Lists!TableOf
<1>7. ListsRequest'
  <2>1. ASSUME rq.pc = "selecting", ~doubt', rq.source \in Existing
        PROVE  Len(store'[rq.source]) <= rq.total
    <3>1. Len(store[rq.source]) <= rq.total /\ rq.total \in Nat /\ Len(new) <= Len(store[s])
      BY <1>1, <2>1 DEF ListsRequest
    <3>2. CASE rq.source # s
      BY <1>3, <2>1, <3>1, <3>2
    <3>3. CASE rq.source = s
      <4>1. store'[rq.source] = new
        BY <1>3, <2>1, <3>3
      <4> QED
        BY <1>2, <3>1, <3>3, <4>1
    <3> QED
      BY <3>2, <3>3
  <2> QED
    BY <1>1, <2>1 DEF ListsRequest, OfSome, Lists!SourceOf, Lists!TableOf, Lists!parsePage, Lists!Wrap
<1>8. FirstPage' /\ Lists!WalkIsComplete'
  BY <1>1, <1>4 DEF FirstPage, Lists!WalkIsComplete, Lists!Ended
<1>9. Walking'
  <2> SUFFICES ASSUME owed' # {} PROVE Walking'
    BY DEF Walking
  <2>0. owed # {}
    BY <1>4
  <2>1. Source' = Source /\ PerPage' = PerPage
    BY <1>1 DEF Source, PerPage, Lists!SourceOf, Lists!TableOf
  <2>2. Source \in Existing /\ owed \subseteq Lists!Range(store[Source])
    BY <1>1, <2>0 DEF Walking
  <2>3. CASE Source # s
    <3>1. store'[Source] = store[Source]
      BY <1>3, <2>2, <2>3
    <3> QED
      BY <1>1, <1>4, <2>0, <2>1, <3>1 DEF Walking
  <2>4. CASE Source = s
    <3>1. store'[Source] = new /\ store[Source] = old
      BY <1>3, <2>2, <2>4
    <3> HIDE DEF old
    <3>2. ASSUME NEW r \in owed'
          PROVE  \E i \in 1..Len(old), j \in 1..Len(new) : old[i] = r /\ new[j] = r /\ j >= i
      <4>1. PICK i \in 1..Len(old) : old[i] = r
        BY <1>2, <1>4, <2>2, <3>1, <3>2 DEF Lists!Range
      <4>2. old[i] \notin Lists!Closer(old, new)
        BY <1>1, <3>2, <4>1 DEF old
      <4>3. \E j \in DOMAIN new : j >= i /\ new[j] = old[i]
        BY <1>2, <4>2 DEF Lists!Closer
      <4> QED
        BY <1>2, <4>1, <4>3
    <3>3. owed' \subseteq Lists!Range(new)
      BY <1>2, <3>2 DEF Lists!Range
    <3>4. ASSUME client.page # 0, NEW j \in 1..Len(new), new[j] \in owed' \ Unscannable
          PROVE  j > (client.page - 1) * PerPage
      <4>1. PICK i \in 1..Len(old), k \in 1..Len(new) : old[i] = new[j] /\ new[k] = new[j] /\ k >= i
        BY <3>2, <3>4
      <4>2. k = j
        BY <1>2, <4>1 DEF Lists!IsInjective
      <4> DEFINE skipped == (client.page - 1) * PerPage
      <4>3. i > skipped
        BY <1>1, <1>4, <2>0, <3>1, <3>4, <4>1 DEF Walking
      <4>4. skipped \in Int
        <5>1. client.page \in Nat /\ PerPage \in Nat
          BY <1>1, <2>0, Parsed DEF Walking
        <5> QED
          BY <5>1
      <4> HIDE DEF skipped
      <4>5. j > skipped
        BY <1>2, <4>1, <4>2, <4>3, <4>4
      <4> QED
        BY <4>5 DEF skipped
    <3> QED
      BY <1>1, <2>0, <2>1, <2>2, <3>1, <3>3, <3>4 DEF Walking
  <2> QED
    BY <2>3, <2>4
<1> QED
  BY <1>5, <1>6, <1>7, <1>8, <1>9 DEF ListsInv

LEMMA ListsAddRow ==
  ASSUME Lists!ListsAssumption, ListsInv, Lists!AddRow
  PROVE  ListsInv'
<1>1. PICK s \in Existing : \E r \in Holds[s] \ Lists!Range(store[s]) :
        /\ \E i \in 1..Len(store[s]) + 1 : Lists!Rewrite(s, Lists!InsertAt(store[s], i, r))
        /\ doubt' = TRUE
  BY DEF Lists!AddRow
<1>2. PICK r \in Holds[s] \ Lists!Range(store[s]) :
        /\ \E i \in 1..Len(store[s]) + 1 : Lists!Rewrite(s, Lists!InsertAt(store[s], i, r))
        /\ doubt' = TRUE
  BY <1>1
<1>3. PICK i \in 1..Len(store[s]) + 1 : Lists!Rewrite(s, Lists!InsertAt(store[s], i, r))
  BY <1>2
<1>4. store[s] \in Seq(Row) /\ Lists!IsInjective(store[s]) /\ r \in Row /\ r \notin Lists!Range(store[s])
  BY <1>2 DEF ListsInv, ListsTypes, Lists!ListsAssumption
<1> DEFINE new == Lists!InsertAt(store[s], i, r)
<1>5. new \in Seq(Row)
  BY <1>4, Inserted
<1>6. Lists!IsInjective(new)
  BY <1>4, InsertedDistinct
<1>7. Lists!Rewrite(s, new)
  BY <1>3
<1> HIDE DEF new
<1> QED
  BY <1>2, <1>5, <1>6, <1>7, ListsRewrite

LEMMA ListsRemoveRow ==
  ASSUME Lists!ListsAssumption, ListsInv, Lists!RemoveRow
  PROVE  ListsInv'
<1>1. PICK s \in Existing :
        \E i \in 1..Len(store[s]) : Lists!Rewrite(s, Lists!RemoveAt(store[s], i)) /\ UNCHANGED doubt
  BY DEF Lists!RemoveRow
<1>2. PICK i \in 1..Len(store[s]) : Lists!Rewrite(s, Lists!RemoveAt(store[s], i)) /\ UNCHANGED doubt
  BY <1>1
<1>3. store[s] \in Seq(Row) /\ Lists!IsInjective(store[s]) /\ Len(store[s]) \in Nat
  BY Elements DEF ListsInv, ListsTypes
<1> DEFINE new == Lists!RemoveAt(store[s], i)
<1>4. new \in Seq(Row) /\ Len(new) = Len(store[s]) - 1 /\ Lists!IsInjective(new)
  BY <1>3, Removed
<1>5. Lists!Rewrite(s, new) /\ doubt' = doubt
  BY <1>2
<1> HIDE DEF new
<1>6. Len(new) <= Len(store[s])
  BY <1>3, <1>4
<1> QED
  BY <1>4, <1>5, <1>6, ListsRewrite

LEMMA ListsMoveRow ==
  ASSUME Lists!ListsAssumption, ListsInv, Lists!MoveRow
  PROVE  ListsInv'
<1>1. PICK s \in Existing :
        \E i, j \in 1..Len(store[s]) :
          /\ Lists!Rewrite(s, Lists!InsertAt(Lists!RemoveAt(store[s], i), j, store[s][i]))
          /\ UNCHANGED doubt
  BY DEF Lists!MoveRow
<1>2. PICK i \in 1..Len(store[s]), j \in 1..Len(store[s]) :
        /\ Lists!Rewrite(s, Lists!InsertAt(Lists!RemoveAt(store[s], i), j, store[s][i]))
        /\ UNCHANGED doubt
  BY <1>1
<1>3. /\ store[s] \in Seq(Row) /\ Lists!IsInjective(store[s]) /\ Len(store[s]) \in Nat
      /\ store[s][i] \in Row
  BY <1>2, Elements DEF ListsInv, ListsTypes
<1> DEFINE without == Lists!RemoveAt(store[s], i)
           new == Lists!InsertAt(without, j, store[s][i])
<1>4. /\ without \in Seq(Row) /\ Len(without) = Len(store[s]) - 1 /\ Lists!IsInjective(without)
      /\ store[s][i] \notin Lists!Range(without)
  BY <1>3, Removed
<1>5. Lists!Rewrite(s, new) /\ doubt' = doubt
  BY <1>2
<1> HIDE DEF without
<1>6. j \in 1..Len(without) + 1
  BY <1>3, <1>4
<1>7. new \in Seq(Row) /\ Len(new) = Len(without) + 1
  BY <1>3, <1>4, <1>6, Inserted
<1>8. Lists!IsInjective(new)
  BY <1>3, <1>4, <1>6, InsertedDistinct
<1> HIDE DEF new
<1>9. Len(new) <= Len(store[s])
  BY <1>3, <1>4, <1>7
<1> QED
  BY <1>5, <1>7, <1>8, <1>9, ListsRewrite

LEMMA ListsStutter ==
  ASSUME ListsInv, UNCHANGED Lists!vars
  PROVE  ListsInv'
<1>1. UNCHANGED <<config, store, rq, client, answer, owed, doubt>>
  BY DEF Lists!vars, Lists!reqVars, Lists!history
<1>2. ListsTypes' /\ ListsRequest' /\ ListsAnswered' /\ FirstPage' /\ Lists!WalkIsComplete'
  <2>1. ListsTypes'
    BY <1>1 DEF ListsInv, ListsTypes
  <2>2. ListsRequest'
    BY <1>1 DEF ListsInv, ListsRequest, OfSome, Lists!SourceOf, Lists!TableOf, Lists!parsePage, Lists!Wrap
  <2>3. ListsAnswered'
    BY <1>1 DEF ListsInv, ListsAnswered, Right, OfSome, Lists!SourceOf, Lists!TableOf
  <2>4. FirstPage'
    BY <1>1 DEF ListsInv, FirstPage
  <2>5. Lists!WalkIsComplete'
    BY <1>1 DEF ListsInv, Lists!WalkIsComplete, Lists!Ended
  <2> QED
    BY <2>1, <2>2, <2>3, <2>4, <2>5
<1>3. Walking'
  BY <1>1 DEF ListsInv, Walking, Source, PerPage, Lists!SourceOf, Lists!TableOf
<1> QED
  BY <1>2, <1>3 DEF ListsInv

\* A step of a request, of main, or of the tools of a platform.
LEMMA ListsStep ==
  ASSUME Lists!ListsAssumption, ListsInv, [Lists!Next]_(Lists!vars)
  PROVE  ListsInv'
BY ListsAsk, ListsJump, ListsLookUp, ListsChooseTable, ListsCount, ListsSelectFails,
   ListsSelect, ListsReload, ListsAddRow, ListsRemoveRow, ListsMoveRow, ListsStutter DEF Lists!Next

\* Types, and no page has more rows than it may (observer.go:797-808).
LEMMA ListsHaveTypes ==
  ASSUME Lists!ListsAssumption, ListsInv
  PROVE  Lists!TypeOK
<1>1. rq.pc # "idle" => rq.pp.page \in Nat \ {0} /\ rq.pp.offset \in (-MaxInt - 1)..MaxInt
  <2>1. client.page \in Int /\ (rq.pc # "idle" => rq.pp = Lists!parsePage(client))
    BY DEF ListsInv, ListsTypes, ListsRequest
  <2> QED
    BY <2>1, Parsed
<1>2. answer.code = 200 =>
        /\ answer.pages \in Nat \ {0}
        /\ answer.data \subseteq Row /\ Lists!Cardinality(answer.data) <= answer.pp.perPage
  BY SameCardinals DEF ListsInv, ListsAnswered, Right
<1>3. \A s \in Existing : store[s] \in Seq(Row) /\ Lists!IsInjective(store[s])
  BY DEF ListsInv, ListsTypes
<1> QED
  BY <1>1, <1>2, <1>3 DEF ListsInv, ListsTypes, ListsRequest, ListsAnswered, Lists!TypeOK

--------------------------------------------------------------------------------
(* The observer *)

ObserverInv ==
  /\ kind \in {"lists", "status", "log"}
  /\ kind = "lists"  => ListsInv
  /\ kind = "status" => StatusInv
  /\ kind = "log"    => LogInv

\* The next step of each kind.
LEMMA Parts ==
  ASSUME [Next]_vars, kind \in {"lists", "status", "log"}
  PROVE  /\ kind' = kind
         /\ kind = "lists"  => [Lists!Next]_(Lists!vars)
         /\ kind = "status" => [Status!Next]_(Status!vars)
         /\ kind = "log"    => [Log!Next]_(Log!vars)
<1>1. CASE Next
  BY <1>1 DEF Next
<1>2. CASE UNCHANGED vars
  BY <1>2 DEF vars, listVars, statusVars, logVars, Lists!vars, Lists!reqVars, Lists!history,
              Status!vars, Log!vars, Log!logVars, Log!httpVars
<1> QED
  BY <1>1, <1>2

\* The invariant of the observer, for every value of its constants.  Lists: a request
\* keeps to the config that it began with, a total that is not in doubt counts all rows,
\* and the rows that a walk owes are ahead of the pages it has shown.  Status: whatever
\* has been read was counted, for the platforms of one config.  Log: what it tells and
\* what is still to be written tell together what the run does, as long as stderr has
\* broken no line (observer.go:100-119, 183-333, 787-832, 922-989).
THEOREM ObserverCorrect == Spec => []ObserverInv
<1> USE ObserverAssumption DEF ObserverAssumption
<1>1. Init => ObserverInv
  <2>1. CASE kind = "lists" /\ Lists!Init
    BY <2>1, ListsInitially DEF ObserverInv
  <2>2. CASE kind = "status" /\ Status!Init
    BY <2>2, StatusBegins DEF ObserverInv
  <2>3. CASE kind = "log" /\ Log!Init
    BY <2>3, LogInitially DEF ObserverInv
  <2> QED
    BY <2>1, <2>2, <2>3 DEF Init
<1>2. ObserverInv /\ [Next]_vars => ObserverInv'
  <2> SUFFICES ASSUME ObserverInv, [Next]_vars PROVE ObserverInv'
    OBVIOUS
  <2>1. kind \in {"lists", "status", "log"}
    BY DEF ObserverInv
  <2>2. kind' = kind
    BY <2>1, Parts
  <2>3. CASE kind = "lists"
    <3>1. ListsInv /\ [Lists!Next]_(Lists!vars)
      BY <2>1, <2>3, Parts DEF ObserverInv
    <3> QED
      BY <2>2, <2>3, <3>1, ListsStep DEF ObserverInv
  <2>4. CASE kind = "status"
    <3>1. StatusInv /\ [Status!Next]_(Status!vars)
      BY <2>1, <2>4, Parts DEF ObserverInv
    <3> QED
      BY <2>2, <2>4, <3>1, StatusStep DEF ObserverInv
  <2>5. CASE kind = "log"
    <3>1. LogInv /\ [Log!Next]_(Log!vars)
      BY <2>1, <2>5, Parts DEF ObserverInv
    <3> QED
      BY <2>2, <2>5, <3>1, LogStep DEF ObserverInv
  <2> QED
    BY <2>1, <2>3, <2>4, <2>5
<1> QED
  BY <1>1, <1>2, PTL DEF Spec

\* The variables and the answers have their types: no page has more rows than it may,
\* and no summary is longer than its limit (observer.go:41-50, 263-270, 797-808).
THEOREM ObserverTypeCorrect == Spec => []TypeOK
<1>1. ObserverInv => TypeOK
  BY ObserverAssumption, ListsHaveTypes, StatusTypes, LogHasTypes
     DEF ObserverAssumption, ObserverInv, TypeOK
<1> QED
  BY <1>1, ObserverCorrect, PTL

\* A client that walks to the last page has seen every row that was there all the time
\* and never came nearer to the front, wherever rows are added, removed and moved
\* meanwhile, but for pages that were cut short (observer.go:797-824).
THEOREM WalkComplete == Spec => []WalkIsComplete
<1>1. ObserverInv => WalkIsComplete
  BY DEF ObserverInv, ListsInv, WalkIsComplete
<1> QED
  BY <1>1, ObserverCorrect, PTL

\* A page beyond the last one is empty, unless its offset overflows (observer.go:802).
THEOREM NothingBeyond == Spec => []BeyondIsEmpty
<1>1. ListsInv => Lists!BeyondIsEmpty
  BY DEF ListsInv, ListsAnswered, Right, Lists!BeyondIsEmpty
<1>2. ObserverInv => BeyondIsEmpty
  BY <1>1 DEF ObserverInv, BeyondIsEmpty
<1> QED
  BY <1>2, ObserverCorrect, PTL

\* The database and the table of a list come from one config, and so do all platforms of
\* a status, however many reloads pass while they are read (observer.go:101, 325).
THEOREM AnswersOfOneConfig == Spec => []AnswersFromOneConfig
<1>1. ListsInv => Lists!AnswersFromOneConfig
  BY DEF ListsInv, ListsAnswered, Right, OfSome, Lists!AnswersFromOneConfig
<1>2. StatusInv => Status!StatusOfOneConfig
  BY DEF StatusInv, OfOneConfig, Status!StatusOfOneConfig
<1>3. ObserverInv => AnswersFromOneConfig
  BY <1>1, <1>2 DEF ObserverInv, AnswersFromOneConfig
<1> QED
  BY <1>3, ObserverCorrect, PTL

\* A platform that is shown as healthy was really counted, and nothing that had happened
\* when its queries began is missing (observer.go:939-963).
THEOREM HealthHonest == Spec => []HealthIsHonest
<1>1. StatusInv => Status!HealthIsHonest
  BY DEF StatusInv, Shown, Status!HealthIsHonest
<1>2. ObserverInv => HealthIsHonest
  BY <1>1 DEF ObserverInv, HealthIsHonest
<1> QED
  BY <1>2, ObserverCorrect, PTL

\* The types of a breakdown account for all actions of the day, also when more were
\* added between the two queries or the day has changed (observer.go:952-986).
THEOREM BreakdownSumsUp == Spec => []BreakdownAddsUp
<1>1. StatusInv => Status!BreakdownAddsUp
  BY DEF StatusInv, Shown, Status!BreakdownAddsUp
<1>2. ObserverInv => BreakdownAddsUp
  BY <1>1 DEF ObserverInv, BreakdownAddsUp
<1> QED
  BY <1>2, ObserverCorrect, PTL

\* The summary of a run that is over tells all that the run did, once and in order,
\* unless stderr broke a line of stdout (observer.go:183-260).
THEOREM SummaryComplete == Spec => []SummaryIsComplete
<1>1. ObserverInv => SummaryIsComplete
  BY ObserverAssumption, LogIsWhole DEF ObserverAssumption, ObserverInv, SummaryIsComplete
<1> QED
  BY <1>1, ObserverCorrect, PTL

\* Who reads the log of a running job again gets what he had and more, unless stderr
\* wrote between an object and its newline (observer.go:186-193, 263-319).
THEOREM SummariesGrow == Spec => AnswersGrow
<1> DEFINE Grows ==
      logAnswer.code = 200 /\ logAnswer'.code = 200 /\ logAnswer.run = logAnswer'.run
        /\ Len(logAnswer'.data) < MaxTail /\ ~(\E i \in DOMAIN file : Log!Spoiled(i))
        => Log!IsPrefix(logAnswer.data, logAnswer'.data)
<1>1. ObserverInv /\ [Next]_vars => [Grows]_(Log!vars)
  <2> SUFFICES ASSUME ObserverInv, Next, ~UNCHANGED Log!vars PROVE Grows
    BY DEF vars, logVars, Log!vars, Log!logVars, Log!httpVars
  <2>1. CASE kind = "log" /\ Log!Next
    BY <2>1, ObserverAssumption, LogGrows DEF ObserverAssumption, ObserverInv
  <2>2. CASE UNCHANGED logVars
    BY <2>2 DEF logVars, Log!vars, Log!logVars, Log!httpVars
  <2> QED
    BY <2>1, <2>2 DEF Next
<1> QED
  BY <1>1, ObserverCorrect, PTL DEF Spec, AnswersGrow, Log!AnswersGrow
================================================================================
