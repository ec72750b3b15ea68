------------------------------ MODULE MCScheduler ------------------------------
(***************************************************************************)
(* Instances of Scheduler for TLC: two jobs in a follow-up chain, and the  *)
(* reloads that matter to them.                                            *)
(***************************************************************************)
EXTENDS Scheduler, TLC

CONSTANTS r1, r2, r3,  \* runs
          a, b,        \* job names
          k1, k2,      \* lock keys and workdirs
          daily, hourly

Runs3 == {r1, r2, r3}
Runs2 == {r1, r2}
Names2 == {a, b}
Keys2 == {k1, k2}
Schedules == {daily, hourly, BadSchedule}

Job(name, schedule, workdir, lockKey, timeoutValid, next) ==
  [name |-> name, schedule |-> schedule, workdir |-> workdir,
   lockKey |-> lockKey, timeoutValid |-> timeoutValid, runAfterSuccess |-> next]

\* a triggers b and shares its lock with it (a by workdir, b by lock_key).
Chain == << Job(a, daily, k1, NoKey, TRUE, <<b>>),
            Job(b, daily, k2, k1, TRUE, <<>>) >>

\* a moves to another workdir; b is dropped, so a's follow-up is refused.
Moved == << Job(a, daily, k2, NoKey, TRUE, <<b>>) >>

\* a is dropped; b has a timeout that does not parse and its own lock.
OnlyB == << Job(b, hourly, k2, NoKey, FALSE, <<>>) >>

\* a gets a new schedule, then b's schedule cannot be parsed.
HalfBad == << Job(a, hourly, k1, NoKey, TRUE, <<b>>),
              Job(b, BadSchedule, k2, k1, TRUE, <<>>) >>

Lists == {Chain, Moved, OnlyB, HalfBad}
LivenessLists == {Chain, Moved}

Symmetry == Permutations(Runs3)
================================================================================
