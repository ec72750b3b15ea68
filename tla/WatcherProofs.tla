----------------------------- MODULE WatcherProofs -----------------------------
(* Theorems about Watcher, for any number of saves, bad versions and editors. *)
EXTENDS Watcher, TLAPS

\* Content c is d or came before it.
NotAfter(c, d) ==
  \/ c.version < d.version
  \/ c.version = d.version /\ (c.part = d.part \/ d.part = "whole")

\* What is written in the file has the last number, and configs are loaded in order.
Ordered ==
  /\ file.version = saves
  /\ NotAfter(active, newCfg) /\ NotAfter(newCfg, file)

\* A version that is not in effect is on its way there or recorded as missed.
OnItsWay ==
  Loadable(file) /\ file # active /\ file \notin missed =>
    \/ \E i \in 1..Len(events) : events[i] = "write"
    \/ wpc = "fired"
    \/ wpc = "loaded" /\ newCfg = file

IInv == TypeOK /\ Ordered /\ OnItsWay

LEMMA Initially == Init => IInv
<1>1. Init => TypeOK
  <2>1. Whole(0) \in Content /\ Whole(0).version \notin BadVersions /\ Whole(0).part = "whole"
    BY WatcherAssumption DEF WatcherAssumption, Whole, Content
  <2>2. Init => events \in Seq({"write", "remove"})
    BY DEF Init
  <2>3. Init => \A c \in {newCfg, active} : c = Whole(0)
    BY DEF Init
  <2>4. Init => file = Whole(0) /\ saves \in 0..MaxSaves
    BY WatcherAssumption DEF WatcherAssumption, Init
  <2>5. Whole(0).part # "half" /\ Whole(0).part # "none"
    BY <2>1
  <2>6. ASSUME Init
        PROVE  \A c \in {newCfg, active} :
                 /\ c \in Content /\ c.part # "none"
                 /\ IF c.part = "half" THEN c.version \in GoodHalves ELSE c.version \notin BadVersions
    BY <2>1, <2>3, <2>5, <2>6
  <2> QED
    BY <2>1, <2>2, <2>4, <2>6 DEF Init, TypeOK
<1>2. Init => Ordered
  BY DEF Init, Ordered, NotAfter, Whole
<1>3. Init => OnItsWay
  BY DEF Init, OnItsWay
<1> QED
  BY <1>1, <1>2, <1>3 DEF IInv

\* An event that was queued stays queued, and a merged one is represented.
LEMMA NotifyKeeps ==
  ASSUME TypeOK, NEW c \in Content, Notify("write", c)
  PROVE  /\ events' \in Seq({"write", "remove"})
         /\ missed' \subseteq Content
         /\ watched => \E i \in 1..Len(events') : events'[i] = "write"
         /\ ~watched => c \in missed'
  BY DEF TypeOK, Notify

\* Content that comes after what was there keeps the order of what was loaded.
LEMMA PutKeeps ==
  ASSUME IInv, NEW c \in Content, Put(c),
         \/ c.version > saves
         \/ c.version = saves /\ file.part = "none"
         \/ c.version = saves /\ c.part = "whole"
  PROVE  IInv'
<1> USE WatcherAssumption DEF WatcherAssumption, IInv
<1>1. file' = c /\ saves' = c.version /\ UNCHANGED <<watched, recent, wpc, newCfg, active>>
  BY DEF Put
<1>2. TypeOK'
  BY <1>1, NotifyKeeps DEF Put, TypeOK, Content
<1>3. newCfg \in Content /\ newCfg.part # "none" /\ file \in Content
  BY DEF TypeOK
<1>4. NotAfter(newCfg, c)
  BY <1>3 DEF Ordered, NotAfter, Content
<1>5. Ordered'
  BY <1>1, <1>4 DEF Ordered
<1>6. OnItsWay'
  <2>1. watched => \E i \in 1..Len(events') : events'[i] = "write"
    BY NotifyKeeps DEF Put
  <2>2. ~watched => c \in missed'
    BY NotifyKeeps DEF Put
  <2> QED
    BY <1>1, <2>1, <2>2 DEF OnItsWay
<1> QED
  BY <1>2, <1>5, <1>6

LEMMA EditStep == IInv /\ Edit => IInv'
<1> SUFFICES ASSUME IInv, Edit PROVE IInv'
  OBVIOUS
<1>0. file \in Content /\ file.version = saves /\ saves \in Nat
  BY WatcherAssumption DEF WatcherAssumption, IInv, TypeOK, Ordered
<1>1. CASE Truncate
  <2>1. [version |-> saves + 1, part |-> "none"] \in Content
    BY <1>0, <1>1, WatcherAssumption DEF WatcherAssumption, Truncate, Content
  <2> QED
    BY <1>0, <1>1, <2>1, PutKeeps DEF Truncate
<1>2. CASE WriteHalf
  <2>1. [file EXCEPT !.part = "half"] \in Content /\ [file EXCEPT !.part = "half"].version = saves
    BY <1>0 DEF Content
  <2> QED
    BY <1>2, <2>1, PutKeeps DEF WriteHalf
<1>3. CASE WriteRest
  <2>1. Whole(file.version) \in Content /\ Whole(file.version).version = saves
        /\ Whole(file.version).part = "whole"
    BY <1>0 DEF Content, Whole
  <2> QED
    BY <1>3, <2>1, PutKeeps DEF WriteRest
<1>4. CASE WriteAll
  <2>1. Whole(saves + 1) \in Content /\ Whole(saves + 1).version > saves
    BY <1>0, <1>4, WatcherAssumption DEF WatcherAssumption, WriteAll, Content, Whole
  <2> QED
    BY <1>4, <2>1, PutKeeps DEF WriteAll
<1>5. CASE Replace
  <2> USE WatcherAssumption DEF WatcherAssumption, IInv
  <2>1. Whole(saves + 1) \in Content /\ Whole(saves + 1).version = saves + 1
    BY <1>0, <1>5 DEF Replace, Content, Whole
  <2>2. events' \in Seq({"write", "remove"})
    BY <1>5 DEF Replace, TypeOK
  <2>3. saves' \in 0..MaxSaves
    BY <1>0, <1>5 DEF Replace
  <2>4. TypeOK'
    BY <1>5, <2>1, <2>2, <2>3 DEF Replace, TypeOK
  <2>5. Ordered' /\ OnItsWay'
    BY <1>0, <1>5, <2>1 DEF Replace, TypeOK, Content, Ordered, NotAfter, OnItsWay
  <2> QED
    BY <2>4, <2>5
<1> QED
  BY <1>1, <1>2, <1>3, <1>4, <1>5 DEF Edit

LEMMA ReceiveStep == IInv /\ Receive => IInv'
<1> SUFFICES ASSUME IInv, Receive PROVE IInv'
  OBVIOUS
<1> USE DEF IInv, Receive, Debounced
<1>1. TypeOK'
  <2>1. events' \in Seq({"write", "remove"})
    BY DEF TypeOK
  <2> QED
    BY <2>1 DEF TypeOK
<1>2. Ordered'
  BY DEF Ordered
<1>3. OnItsWay'
  <2>1. CASE Head(events) = "write"
    BY <2>1 DEF OnItsWay, Loadable, TypeOK
  <2>2. CASE Head(events) # "write"
    <3> SUFFICES ASSUME NEW i \in 1..Len(events), events[i] = "write"
                 PROVE  \E j \in 1..Len(Tail(events)) : Tail(events)[j] = "write"
      BY <2>2 DEF OnItsWay, Loadable, TypeOK
    <3>1. i - 1 \in 1..Len(Tail(events)) /\ Tail(events)[i - 1] = "write"
      BY <2>2 DEF TypeOK
    <3> QED
      BY <3>1
  <2> QED
    BY <2>1, <2>2
<1> QED
  BY <1>1, <1>2, <1>3

LEMMA CallbackStep == IInv /\ (LoadConfig \/ Apply) => IInv'
<1> SUFFICES ASSUME IInv, LoadConfig \/ Apply PROVE IInv'
  OBVIOUS
<1> USE DEF IInv, LoadConfig, Apply, Loadable
<1>1. TypeOK'
  BY DEF TypeOK
<1>2. Ordered'
  BY DEF TypeOK, Ordered, NotAfter, Content
<1>3. CASE LoadConfig
  BY <1>1, <1>2, <1>3 DEF OnItsWay
<1>4. CASE Apply
  <2>1. file' = file /\ events' = events /\ newCfg' = newCfg /\ missed \subseteq missed'
    BY <1>4
  <2>2. active' = newCfg \/ (active' = active /\ newCfg \in missed')
    BY <1>4
  <2>3. wpc = "loaded"
    BY <1>4
  <2>4. Loadable(file) /\ active = file => newCfg = file
    BY WatcherAssumption DEF WatcherAssumption, TypeOK, Ordered, NotAfter, Content
  <2>5. OnItsWay'
    BY <2>1, <2>2, <2>3, <2>4 DEF OnItsWay
  <2> QED
    BY <1>1, <1>2, <2>5
<1> QED
  BY <1>3, <1>4

LEMMA OtherStep == IInv /\ (NewWatcher \/ WindowEnds \/ UNCHANGED vars) => IInv'
  BY DEF IInv, NewWatcher, WindowEnds, vars, TypeOK, Ordered, OnItsWay, Loadable

LEMMA Invariant == Spec => []IInv
<1>1. IInv /\ [Next]_vars => IInv'
  BY EditStep, ReceiveStep, CallbackStep, OtherStep DEF Next, Watch
<1> QED
  BY <1>1, Initially, PTL DEF Spec

\* The watcher's variables keep their types (watcher.go:28-53).
THEOREM TypeCorrect == Spec => []TypeOK
  BY Invariant, PTL DEF IInv

\* Nothing but a missing event, the debounce or a refused reload leaves a config
\* stale: an edit in the middle of a callback is never lost (watcher.go:31-44).
THEOREM StalenessIsExplained == Spec => []StaleForAReason
<1>1. IInv => StaleForAReason
  BY DEF IInv, StaleForAReason, OnItsWay, Quiet
<1> QED
  BY <1>1, Invariant, PTL

\* Reloads go forward, version by version and from a part to the whole
\* (main.go:97-103).
THEOREM Advancing == Spec => ReloadsAdvance
<1>1. IInv /\ [Next]_vars => [active' # active => Later(active', active)]_vars
  <2> SUFFICES ASSUME IInv, Next, active' # active
               PROVE  Later(active', active)
    BY DEF vars
  <2>1. Apply /\ active' = newCfg
    BY DEF Next, Edit, Watch, Put, Truncate, WriteHalf, WriteRest, WriteAll, Replace,
           NewWatcher, WindowEnds, Receive, LoadConfig, Apply
  <2>2. active \in Content /\ newCfg \in Content /\ NotAfter(active, newCfg)
        /\ active.part # "none" /\ newCfg.part # "none"
    BY DEF IInv, TypeOK, Ordered
  <2>3. Later(newCfg, active)
    BY <2>1, <2>2, WatcherAssumption DEF WatcherAssumption, NotAfter, Later, Content
  <2> QED
    BY <2>1, <2>3
<1> QED
  BY <1>1, Invariant, PTL DEF Spec, ReloadsAdvance
================================================================================
