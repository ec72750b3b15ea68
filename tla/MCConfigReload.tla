---------------------------- MODULE MCConfigReload -----------------------------
(***************************************************************************)
(* Instances of ConfigReload for TLC: configs whose jobs, engines or both  *)
(* differ, and one whose schedule the cron refuses.                        *)
(***************************************************************************)
EXTENDS ConfigReload, TLC

CONSTANTS r1, r2, a, b, k1, k2, daily, hourly, e1, e2

Runs2 == {r1, r2}
Names2 == {a, b}
Keys2 == {k1, k2}
Schedules == {daily, hourly, BadSchedule}
Engines2 == {e1, e2}

Job(name, schedule, next) ==
  [name |-> name, schedule |-> schedule, workdir |-> k1, lockKey |-> NoKey,
   timeoutValid |-> TRUE, runAfterSuccess |-> next]

Chain   == <<Job(a, daily, <<b>>), Job(b, daily, <<>>)>>
OnlyA   == <<Job(a, hourly, <<>>)>>
HalfBad == <<Job(a, hourly, <<b>>), Job(b, BadSchedule, <<>>)>>

Lists == {Chain, OnlyA, HalfBad}

Configs == {[jobs |-> Chain,   engines |-> e1],
            [jobs |-> OnlyA,   engines |-> e2],
            [jobs |-> Chain,   engines |-> e2],
            [jobs |-> HalfBad, engines |-> e2]}

Symmetry == Permutations(Runs2)
================================================================================
