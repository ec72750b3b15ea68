------------------------------ MODULE MCObserver ------------------------------
(***************************************************************************)
(* An instance for TLC: a list of up to three rows that a client walks     *)
(* through, and others, under three configs, whose table may have a name   *)
(* that is not valid or not exist; two platforms under three configs, and  *)
(* one midnight; two runs of at most two steps.                            *)
(***************************************************************************)
EXTENDS Observer, TLC

CONSTANTS r1, r2, r3, x, y, reply, null

P(db, table) == [db |-> db, table |-> table]
ThePlatforms == {P("A", "items"), P("B", "other"), P("A", "not a name")}
TheTables == {P("A", "items"), P("A", "other"), P("B", "reply-reviews"), P("A", "rounds")}
TheRows == [t \in TheTables |-> IF t = P("A", "items") THEN {r1, r2, r3} ELSE {}]

Metrics(enabled, identifiers, backlog, acts) ==
  [enabled |-> enabled, identifiers |-> identifiers, backlog |-> backlog, actions |-> acts]
Full == Metrics(TRUE, "valid", TRUE, TRUE)
TheConfigs ==
  {(x :> Full) @@ (y :> Metrics(FALSE, "valid", TRUE, TRUE)),
   (x :> Metrics(TRUE, "invalid", FALSE, TRUE)) @@ (y :> Metrics(TRUE, "valid", FALSE, FALSE)),
   (y :> Full)}
================================================================================
