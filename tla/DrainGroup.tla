------------------------------ MODULE DrainGroup ------------------------------
(***************************************************************************)
(* What Scheduler.Stop promises, without saying how: a group of workers    *)
(* that may be joined while it is open, and whose closing waits for the    *)
(* members to leave but gives up after a while.                            *)
(*                                                                         *)
(* The Go code builds this from a sync.WaitGroup, a cancelled context and  *)
(* a timer (src/internal/scheduler.go:112-136 and 227-249).  A WaitGroup   *)
(* alone does not give it: an Add that races with Wait is a misuse.        *)
(***************************************************************************)
CONSTANT Member

VARIABLES members,  \* the workers that Close has to wait for
          phase     \* "open", "closing", "drained" or "gaveUp"

vars == <<members, phase>>

TypeOK ==
  /\ members \subseteq Member
  /\ phase \in {"open", "closing", "drained", "gaveUp"}

Init ==
  /\ members = {}
  /\ phase = "open"

\* A worker may become a member only before the group closes.
Join(m) ==
  /\ phase = "open"
  /\ m \notin members
  /\ members' = members \cup {m}
  /\ UNCHANGED phase

Leave(m) ==
  /\ m \in members
  /\ members' = members \ {m}
  /\ UNCHANGED phase

Close ==
  /\ phase = "open"
  /\ phase' = "closing"
  /\ UNCHANGED members

\* The waiter sees that every member has left.
Drain ==
  /\ phase = "closing"
  /\ members = {}
  /\ phase' = "drained"
  /\ UNCHANGED members

\* The waiter's patience ends, whoever is left.
GiveUp ==
  /\ phase = "closing"
  /\ phase' = "gaveUp"
  /\ UNCHANGED members

Next ==
  \/ \E m \in Member : Join(m) \/ Leave(m)
  \/ Close
  \/ Drain
  \/ GiveUp

Spec == Init /\ [][Next]_vars

\* The waiter is never stuck: it drains or gives up.
FairSpec == Spec /\ WF_vars(Drain \/ GiveUp)
===============================================================================
